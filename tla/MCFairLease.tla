----------------------------- MODULE MCFairLease -----------------------------
(* Three jobs: two of one person, two of one agent. *)
EXTENDS FairLease

CONSTANTS ann, bob, helper, writer

MCPersonOf == <<ann, ann, bob>>
MCAgentOf  == <<helper, writer, helper>>
=============================================================================
