------------------------------ MODULE TaskLife ------------------------------
(***************************************************************************)
(* What the task tracking promises its readers about one task, whoever     *)
(* touches its row: it is executed only between dispatch and cleanup, a    *)
(* failed one may be executed again, a success and a revocation are final, *)
(* and a cleanup that has begun ends before anything else is done with it  *)
(* (unless the task is revoked meanwhile).                                 *)
(***************************************************************************)
CONSTANT Tasks

VARIABLE life

Following ==
  [none     |-> {"pending"},
   pending  |-> {"queued", "running", "cleanup", "revoked"},
   queued   |-> {"running", "revoked"},
   running  |-> {"success", "failed", "rejected", "cleanup", "revoked"},
   failed   |-> {"running", "revoked"},
   cleanup  |-> {"failed", "revoked"},
   rejected |-> {"revoked"},
   success  |-> {},
   revoked  |-> {}]

Init == life = [t \in Tasks |-> "none"]

Advance(t) ==
  \E next \in Following[life[t]] : life' = [life EXCEPT ![t] = next]

Next == \E t \in Tasks : Advance(t)

Spec == Init /\ [][Next]_life

=============================================================================
