-------------------------- MODULE OptimisticEditor --------------------------
(***************************************************************************)
(* The web client's optimistic editor (optimisticEditor.ts) against a      *)
(* server that takes edits in an order of its own.  A timeline is the      *)
(* sequence of the edits it holds, its revision their number; a predicted  *)
(* edit appends itself.  Answers arrive in any order.                      *)
(***************************************************************************)
EXTENDS Naturals, Sequences, FiniteSets, SequencesExt

CONSTANTS
  MaxLocal,   \* bound: edits of this client, numbered from 1
  MaxForeign, \* bound: edits of other clients, all written Foreign
  MaxFresh    \* bound: reconnections under way

VARIABLES
  base, pending,  \* the controller: confirmed timeline and waiting edits
  made,           \* number of the last local edit
  accepted,       \* the server's timeline
  sent,           \* local edits the server has not decided
  answers,        \* answers under way: [kind, edit, timeline]
  overtaken       \* history: an older timeline was adopted, or an answer lost

syncVars == <<base, pending, made, accepted, sent, answers, overtaken>>

Foreign == 0

SyncInit ==
  /\ base = <<>> /\ pending = <<>> /\ made = 0
  /\ accepted = <<>> /\ sent = {} /\ answers = {} /\ overtaken = FALSE

Present == base \o pending
Index(e) == CHOOSE i \in DOMAIN pending : pending[i] = e   \* findIndex
Without(e) == RemoveAt(pending, Index(e))                  \* splice

ApplyLocal ==
  /\ made < MaxLocal
  /\ made' = made + 1
  /\ pending' = Append(pending, made + 1)
  /\ sent' = sent \cup {made + 1}
  /\ UNCHANGED <<base, accepted, answers, overtaken>>

Decide(e) ==
  /\ sent' = sent \ {e}
  /\ \/ /\ accepted' = Append(accepted, e)
        /\ answers' = answers \cup {[kind |-> "confirm", edit |-> e, timeline |-> accepted']}
     \/ /\ \E kind \in {"reject", "conflict"} :
             answers' = answers \cup {[kind |-> kind, edit |-> e, timeline |-> accepted]}
        /\ UNCHANGED accepted
  /\ UNCHANGED <<base, pending, made, overtaken>>

OthersEdit ==
  /\ Cardinality({i \in DOMAIN accepted : accepted[i] = Foreign}) < MaxForeign
  /\ accepted' = Append(accepted, Foreign)
  /\ UNCHANGED <<base, pending, made, sent, answers, overtaken>>

\* A confirmation that the base has passed is stale: its edit is in the base.
Confirm(r) ==
  /\ r.kind = "confirm"
  /\ base' = IF Len(r.timeline) > Len(base) THEN r.timeline ELSE base
  /\ pending' = Without(r.edit)
  /\ UNCHANGED overtaken

Reject(r) ==
  r.kind = "reject" /\ pending' = Without(r.edit) /\ UNCHANGED <<base, overtaken>>

\* These two adopt the server's timeline whatever its revision.
Adopt(r) ==
  /\ base' = r.timeline
  /\ overtaken' = (overtaken \/ Len(r.timeline) < Len(base))
Conflict(r) == r.kind = "conflict" /\ Adopt(r) /\ pending' = Without(r.edit)
Reconnected(r) == r.kind = "fresh" /\ Adopt(r) /\ UNCHANGED pending

Deliver(r) ==
  /\ answers' = answers \ {r}
  /\ Confirm(r) \/ Reject(r) \/ Conflict(r) \/ Reconnected(r)
  /\ UNCHANGED <<made, accepted, sent>>

\* The editor asks for the current timeline; answers may have been lost.
Reconnect ==
  /\ Cardinality({r \in answers : r.kind = "fresh"}) < MaxFresh
  /\ answers' = answers \cup {[kind |-> "fresh", edit |-> Foreign, timeline |-> accepted]}
  /\ UNCHANGED <<base, pending, made, accepted, sent, overtaken>>

Lose(r) ==
  /\ answers' = answers \ {r}
  /\ overtaken' = TRUE
  /\ UNCHANGED <<base, pending, made, accepted, sent>>

SyncNext ==
  \/ ApplyLocal \/ OthersEdit \/ Reconnect
  \/ \E e \in sent : Decide(e)
  \/ \E r \in answers : Deliver(r) \/ Lose(r)

-----------------------------------------------------------------------------
Shown(e) == Cardinality({i \in DOMAIN Present : Present[i] = e})

\* When every edit is decided and every answer delivered, in any order, the
\* editor shows each accepted edit of its own once and no refused one,
\* unless a conflict or a reconnection made it adopt an older timeline than
\* it had, which optimisticEditor.ts:121-137 does not look at
\* (optimisticEditor.ts:5-18).
SettledViewIsRight ==
  sent = {} /\ answers = {} /\ ~overtaken =>
    \A e \in 1..made : Shown(e) = IF e \in Range(accepted) THEN 1 ELSE 0
=============================================================================
