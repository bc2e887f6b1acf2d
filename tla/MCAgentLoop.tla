------------------------------ MODULE MCAgentLoop ------------------------------
(* Instances of AgentLoop: one or two changes, a look-up and a question to the *)
(* person, limits made small (the code's are 3, 15, 10, 2 and 2).              *)
EXTENDS AgentLoop

(* ask_options has a number of uses of its own. *)
Uses == [n \in Names |-> IF n \in Others THEN 1 ELSE 0]

(* A request to trade; one of which only "a change" is known; one of which    *)
(* nothing is; and one to a service whose answers can be lost.                *)
Ask(h, r, l) == [held |-> h, required |-> r, lossy |-> l]
MCRequests ==
  {Ask(TRUE, {"trade"}, FALSE), Ask(TRUE, {}, FALSE), Ask(FALSE, {}, FALSE), Ask(TRUE, {"trade"}, TRUE)}
=============================================================================
