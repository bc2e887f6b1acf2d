----------------------------- MODULE MCJobQueue -----------------------------
(* JobQueue with a job that may be tried twice. *)
EXTENDS JobQueue

MCAttempts == [j \in Jobs |-> 2]
=============================================================================
