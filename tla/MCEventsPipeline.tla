-------------------------- MODULE MCEventsPipeline --------------------------
(* An event of an occurrence that concerns two alerts or none, and a forged  *)
(* delivery from the same client.                                            *)
EXTENDS EventsPipeline, TLC

CONSTANTS push, forged, pr, a1, a2, github

MCKindOf    == [d \in Deliveries |-> IF d = forged THEN "forged" ELSE "event"]
MCKeyOf     == [d \in Deliveries |-> pr]
MCAlertSets == {{}, {a1, a2}}
MCClientOf  == [d \in Deliveries |-> github]
MCSymmetry == Permutations(Workers) \cup Permutations(Handlers) \cup Permutations({a1, a2})
====
