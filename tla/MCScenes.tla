------------------------------- MODULE MCScenes -------------------------------
(* Scene images on small instances: two batches next to each other, one of *)
(* them dispatched while the other one works or both triggered, and one    *)
(* alone with more that fails. *)
EXTENDS SceneBatch

CONSTANTS b1, b2

MCStart(first, second, faults) ==
  [batches |-> [b \in {b1, b2} |-> IF b = b1 THEN first ELSE second],
   faults |-> faults]

MCStarts ==
  {MCStart("new", "triggered", 0), MCStart("triggered", "triggered", 1),
   MCStart("new", "over", 3)}

=============================================================================
