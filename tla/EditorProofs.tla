---------------------------- MODULE EditorProofs ----------------------------
(***************************************************************************)
(* What the web client's asynchronous parts promise, for any number of     *)
(* edits, saves, requests, projects and scenes, whatever order answers     *)
(* arrive in: the autosave, the command bar, the optimistic editor, and    *)
(* the page, the plan, the storyboard and the dialog of a project.  What   *)
(* a run keeps of its scripts, plans and images.  And that no command,     *)
(* batch, undo or proposal makes a timeline that does not compile.         *)
(***************************************************************************)
EXTENDS MCEditor, SequenceTheorems, FiniteSetTheorems, SumTheorems, TLAPS

-----------------------------------------------------------------------------
(* The autosave.  An answer "ok" is of an edit the server has stored, and  *)
(* an edit is pending until such an answer has come.                       *)
AutoInv ==
  /\ edits \in Nat /\ auto.pending \in {Unsaved, edits}
  /\ DOMAIN auto = {"status", "rev", "pending", "busy", "gen", "timer"}
  /\ \A r \in wire : /\ DOMAIN r = {"gen", "edit", "expected", "reply"}
                     /\ r.reply = "ok" => r.edit \in server.stored
  /\ SavedMeansStored

(* A save that starts, or does not, forgets nothing.                       *)
LEMMA FlushKeeps ==
  ASSUME AutoInv, NEW a, NEW others, FlushOr(a, others), UNCHANGED <<edits, server>>,
         DOMAIN a = DOMAIN auto, others \subseteq wire,
         \/ a.pending = auto.pending
         \/ a.pending = Unsaved /\ edits \in server.stored
  PROVE  AutoInv'
<1> USE DEF AutoInv, SavedMeansStored, Unsaved
<1>1. CASE CanFlush(a)
  <2>1. auto' = Flushed(a) /\ wire' = others \cup {Save(a)} BY <1>1 DEF FlushOr
  <2>2. /\ auto'.pending = a.pending /\ DOMAIN auto' = DOMAIN auto
    BY <2>1 DEF Flushed
  <2>3. DOMAIN Save(a) = {"gen", "edit", "expected", "reply"} /\ Save(a).reply # "ok"
    BY DEF Save, Waiting
  <2> QED BY <2>1, <2>2, <2>3
<1>2. CASE ~CanFlush(a)
  <2>1. auto' = a /\ wire' = others BY <1>2 DEF FlushOr
  <2> QED BY <2>1
<1> QED BY <1>1, <1>2

(* No step of the autosave forgets an edit it has not stored.              *)
LEMMA AutosaveKeeps == AutoInv /\ AutosaveNext => AutoInv'
<1> SUFFICES ASSUME AutoInv, AutosaveNext PROVE AutoInv' OBVIOUS
<1> USE DEF AutoInv, SavedMeansStored, Unsaved
<1>1. CASE Schedule
  <2>1. /\ edits' = edits + 1 /\ wire' = wire /\ server' = server
        /\ auto'.pending = edits + 1 /\ DOMAIN auto' = DOMAIN auto
    BY <1>1 DEF Schedule
  <2> QED BY <2>1
<1>2. CASE TimerFires BY <1>2, FlushKeeps DEF TimerFires
<1>3. CASE ForceRetry BY <1>3, FlushKeeps DEF ForceRetry
<1>4. CASE TheySave BY <1>4 DEF TheySave
<1>5. ASSUME NEW r \in wire, ServerSaves(r) PROVE AutoInv'
  <2>1. PICK heard \in {IF r.expected = server.rev THEN "ok" ELSE "conflict", "error"} :
          wire' = (wire \ {r}) \cup {[r EXCEPT !.reply = heard]}
    BY <1>5 DEF ServerSaves
  <2>2. edits' = edits /\ auto' = auto BY <1>5 DEF ServerSaves
  <2>3. /\ server'.stored = IF r.expected = server.rev THEN server.stored \cup {r.edit}
                            ELSE server.stored
    BY <1>5 DEF ServerSaves
  <2>4. /\ DOMAIN [r EXCEPT !.reply = heard] = DOMAIN r
        /\ [r EXCEPT !.reply = heard].edit = r.edit
        /\ [r EXCEPT !.reply = heard].reply = heard
    OBVIOUS
  <2>5. heard = "ok" => r.edit \in server'.stored BY <2>3
  <2> QED BY <2>1, <2>2, <2>3, <2>4, <2>5
<1>6. ASSUME NEW r \in wire, RequestFails(r) PROVE AutoInv'
  <2>1. wire' = (wire \ {r}) \cup {[r EXCEPT !.reply = "error"]} BY <1>6 DEF RequestFails
  <2>2. edits' = edits /\ auto' = auto /\ server' = server BY <1>6 DEF RequestFails
  <2>3. DOMAIN [r EXCEPT !.reply = "error"] = DOMAIN r /\ [r EXCEPT !.reply = "error"].reply = "error"
    OBVIOUS
  <2> QED BY <2>1, <2>2, <2>3
<1>7. ASSUME NEW r \in wire, Settle(r) PROVE AutoInv'
  <2>1. edits' = edits /\ server' = server BY <1>7 DEF Settle
  <2>2. CASE r.gen # auto.gen BY <1>7, <2>2, <2>1 DEF Settle
  <2>3. CASE r.gen = auto.gen /\ r.reply = "ok"
    <3> DEFINE saved == [[auto EXCEPT !.busy = FALSE] EXCEPT !.rev = r.expected + 1,
                          !.pending = StillPending(r), !.status = "saved"]
    <3>1. FlushOr(saved, wire \ {r}) BY <1>7, <2>3 DEF Settle
    <3>2. DOMAIN saved = DOMAIN auto /\ saved.pending = StillPending(r) OBVIOUS
    <3>3. r.edit \in server.stored BY <2>3
    <3>4. \/ saved.pending = auto.pending
          \/ saved.pending = Unsaved /\ edits \in server.stored
      BY <3>2, <3>3 DEF StillPending
    <3> HIDE DEF saved
    <3> QED BY <3>1, <3>2, <3>4, <2>1, FlushKeeps
  <2>4. CASE r.gen = auto.gen /\ r.reply # "ok"
    <3>1. auto' = [[auto EXCEPT !.busy = FALSE] EXCEPT !.status = r.reply] /\ wire' = wire \ {r}
      BY <1>7, <2>4 DEF Settle
    <3> QED BY <3>1, <2>1
  <2> QED BY <2>2, <2>3, <2>4
<1> QED BY <1>1, <1>2, <1>3, <1>4, <1>5, <1>6, <1>7 DEF AutosaveNext

-----------------------------------------------------------------------------
(* The bar.  A proposal that is shown and not applied was not handed over, *)
(* nor was one of a request that is still to be answered or to be sent.    *)
BarInv ==
  /\ DOMAIN bar = {"status", "proposal", "applied", "controller", "last"}
  /\ DOMAIN asks = {"live", "aborted", "sent"} /\ asks.sent \in Nat
  /\ asks.live \subseteq 1..asks.sent /\ asks.sent <= MaxAsks
  /\ emitted \in [1..MaxAsks -> 0..1]
  /\ \A a \in 1..MaxAsks : a \in asks.live \/ a > asks.sent => emitted[a] = 0
  /\ bar.proposal # NoAsk =>
       /\ bar.proposal \in 1..asks.sent /\ bar.proposal \notin asks.live
       /\ ~bar.applied => emitted[bar.proposal] = 0

(* No step of the bar hands a proposal over twice.                         *)
LEMMA BarKeeps == BarInv /\ BarNext => BarInv'
<1> SUFFICES ASSUME BarInv, BarNext PROVE BarInv' OBVIOUS
<1> USE ClientAssumption DEF BarInv, NoAsk
<1>1. CASE Run /\ UNCHANGED emitted
  <2>1. /\ asks'.sent = asks.sent + 1 /\ asks'.live = asks.live \cup {asks.sent + 1}
        /\ asks.sent < MaxAsks /\ DOMAIN asks' = DOMAIN asks
        /\ DOMAIN bar' = DOMAIN bar /\ bar'.proposal = NoAsk
    BY <1>1 DEF Run
  <2> QED BY <1>1, <2>1
<1>2. CASE Cancel
  <2>1. /\ asks'.sent = asks.sent /\ asks'.live = asks.live /\ DOMAIN asks' = DOMAIN asks
        /\ DOMAIN bar' = DOMAIN bar /\ bar'.proposal = NoAsk /\ emitted' = emitted
    BY <1>2 DEF Cancel
  <2> QED BY <2>1
<1>3. CASE ApplyBar
  <2>1. /\ asks' = asks /\ DOMAIN bar' = DOMAIN bar /\ bar'.proposal = bar.proposal
        /\ bar'.applied = TRUE /\ emitted' = [emitted EXCEPT ![bar.proposal] = @ + 1]
        /\ bar.proposal # NoAsk /\ ~bar.applied
    BY <1>3 DEF ApplyBar
  <2>2. bar.proposal \in 1..MaxAsks /\ emitted[bar.proposal] = 0 BY <2>1
  <2> QED BY <2>1, <2>2
<1>4. CASE Dismiss
  <2>1. asks' = asks /\ DOMAIN bar' = DOMAIN bar /\ bar'.proposal = NoAsk /\ emitted' = emitted
    BY <1>4 DEF Dismiss
  <2> QED BY <2>1
<1>5. ASSUME NEW a \in asks.live, Answer(a) PROVE BarInv'
  <2>1. /\ asks'.sent = asks.sent /\ asks'.live = asks.live \ {a} /\ DOMAIN asks' = DOMAIN asks
        /\ DOMAIN bar' = DOMAIN bar /\ emitted' = emitted /\ bar'.applied = bar.applied
        /\ bar'.proposal \in {a, bar.proposal}
    BY <1>5 DEF Answer, Released
  <2>2. a \in 1..asks.sent /\ emitted[a] = 0 OBVIOUS
  <2> QED BY <2>1, <2>2
<1> QED BY <1>1, <1>2, <1>3, <1>4, <1>5 DEF BarNext, Submit, Retry

-----------------------------------------------------------------------------
(* The optimistic editor.  Every timeline is the beginning of the          *)
(* server's, on which an edit of this client is at most once.              *)
Begins(s, t) == Len(s) <= Len(t) /\ \A i \in 1..Len(s) : s[i] = t[i]

Decided(r) == r.kind \in {"confirm", "reject", "conflict"}

(* Who has sent an edit, or has an answer to one, finds it pending; an     *)
(* edit is not accepted before it is decided nor after it was refused.     *)
AnswersOK ==
  \A r \in answers :
    /\ r.timeline \in Seq(Nat) /\ Begins(r.timeline, accepted)
    /\ r.kind \in {"confirm", "reject", "conflict", "fresh"}
    /\ Decided(r) => /\ r.edit \in Range(pending) \ sent
                     /\ r.kind = "confirm" => r.edit \in Range(r.timeline)
                     /\ r.kind # "confirm" => r.edit \notin Range(accepted)
                     /\ \A q \in answers : Decided(q) /\ q.edit = r.edit => q = r

PendingOK ==
  /\ pending \in Seq(1..made) /\ IsInjective(pending)
  /\ sent \subseteq Range(pending) /\ sent \cap Range(accepted) = {}
  /\ ~overtaken => \A e \in Range(pending) \ sent : \E r \in answers : Decided(r) /\ r.edit = e

AcceptedOK ==
  /\ accepted \in Seq(0..made) /\ base \in Seq(Nat) /\ Begins(base, accepted)
  /\ \A i, j \in DOMAIN accepted : accepted[i] = accepted[j] /\ accepted[i] # Foreign => i = j
  /\ ~overtaken => \A e \in Range(accepted) \ {Foreign} :
       e \in Range(base) \/ \E r \in answers : r.kind = "confirm" /\ r.edit = e

SyncInv == made \in Nat /\ overtaken \in BOOLEAN /\ AnswersOK /\ PendingOK /\ AcceptedOK

(* What splice leaves.                                                     *)
LEMMA WithoutOne ==
  ASSUME NEW n \in Nat, pending \in Seq(1..n), IsInjective(pending), NEW e \in Range(pending)
  PROVE  /\ Without(e) \in Seq(1..n) /\ IsInjective(Without(e))
         /\ Range(Without(e)) = Range(pending) \ {e}
<1> DEFINE k == Index(e)
           left == SubSeq(pending, 1, k - 1)
           right == SubSeq(pending, k + 1, Len(pending))
<1>1. k \in 1..Len(pending) /\ pending[k] = e BY DEF Index, Range
<1> HIDE DEF k
<1>2. Without(e) = left \o right BY DEF Without, RemoveAt, k
<1>3. Len(pending) \in Nat OBVIOUS
<1>4. left \in Seq(1..n) /\ Len(left) = k - 1 /\ \A i \in 1..(k - 1) : left[i] = pending[i]
  BY <1>1, <1>3
<1>5. /\ right \in Seq(1..n) /\ Len(right) = Len(pending) - k
      /\ \A i \in 1..(Len(pending) - k) : right[i] = pending[k + i]
  BY <1>1, <1>3
<1> HIDE DEF left, right
<1>10. /\ left \o right \in Seq(1..n) /\ Len(left \o right) = Len(left) + Len(right)
       /\ \A i \in 1..(Len(left) + Len(right)) :
            (left \o right)[i] = IF i <= Len(left) THEN left[i] ELSE right[i - Len(left)]
  BY <1>4, <1>5, ConcatProperties
<1>6. /\ Without(e) \in Seq(1..n) /\ Len(Without(e)) = Len(pending) - 1
      /\ \A i \in 1..(Len(pending) - 1) :
           Without(e)[i] = IF i < k THEN pending[i] ELSE pending[i + 1]
  <2>0. Len(left) + Len(right) = Len(pending) - 1 BY <1>4, <1>5, <1>1, <1>3
  <2>1. ASSUME NEW i \in 1..(Len(pending) - 1)
        PROVE Without(e)[i] = IF i < k THEN pending[i] ELSE pending[i + 1]
    <3>1. Without(e)[i] = IF i <= Len(left) THEN left[i] ELSE right[i - Len(left)]
      BY <1>10, <2>0, <1>2
    <3>2. CASE i < k
      <4>1. i <= Len(left) /\ i \in 1..(k - 1) BY <3>2, <1>4, <1>1
      <4> QED BY <4>1, <3>1, <3>2, <1>4
    <3>3. CASE ~(i < k)
      <4>0. i \in Int /\ k \in Int /\ Len(pending) \in Int /\ k <= i /\ i <= Len(pending) - 1
        BY <3>3, <1>1, <1>3
      <4>1. ~(i <= k - 1) /\ i - (k - 1) \in 1..(Len(pending) - k) /\ k + (i - (k - 1)) = i + 1
        BY <4>0
      <4>2. Without(e)[i] = right[i - (k - 1)] BY <4>1, <3>1, <1>4
      <4>3. right[i - (k - 1)] = pending[k + (i - (k - 1))] BY <4>1, <1>5
      <4> QED BY <4>1, <4>2, <4>3, <3>3
    <3> QED BY <3>2, <3>3
  <2> QED BY <2>0, <2>1, <1>10, <1>2
<1>7. \A i, j \in 1..Len(pending) : pending[i] = pending[j] => i = j BY DEF IsInjective
<1>8. IsInjective(Without(e))
  <2>1. ASSUME NEW i \in 1..(Len(pending) - 1), NEW j \in 1..(Len(pending) - 1),
               Without(e)[i] = Without(e)[j]
        PROVE i = j
    <3> DEFINE at(m) == IF m < k THEN m ELSE m + 1
    <3>1. at(i) \in 1..Len(pending) /\ at(j) \in 1..Len(pending) BY <1>1, <1>3
    <3>2. pending[at(i)] = Without(e)[i] /\ pending[at(j)] = Without(e)[j] BY <1>6
    <3>3. at(i) = at(j) BY <3>1, <3>2, <2>1, <1>7
    <3> QED BY <3>3, <1>1
  <2>2. DOMAIN Without(e) = 1..(Len(pending) - 1) BY <1>6, <1>3
  <2> QED BY <2>1, <2>2 DEF IsInjective
<1>9. Range(Without(e)) = Range(pending) \ {e}
  <2>1. ASSUME NEW i \in 1..(Len(pending) - 1) PROVE Without(e)[i] \in Range(pending) \ {e}
    <3> DEFINE at == IF i < k THEN i ELSE i + 1
    <3>1. at \in 1..Len(pending) /\ at # k BY <1>1, <1>3
    <3>2. pending[at] = Without(e)[i] BY <1>6
    <3> HIDE DEF at
    <3>3. pending[at] # e BY <3>1, <1>1, <1>7
    <3>4. pending[at] \in Range(pending) BY <3>1, <1>3 DEF Range
    <3> QED BY <3>2, <3>3, <3>4
  <2>2. ASSUME NEW j \in 1..Len(pending), j # k
        PROVE \E i \in 1..(Len(pending) - 1) : Without(e)[i] = pending[j]
    <3>1. CASE j < k
      <4>1. j \in 1..(Len(pending) - 1) BY <3>1, <1>1, <1>3
      <4> QED BY <4>1, <3>1, <1>6
    <3>2. CASE j > k
      <4>1. j - 1 \in 1..(Len(pending) - 1) /\ ~(j - 1 < k) /\ (j - 1) + 1 = j
        BY <3>2, <1>1, <1>3
      <4> QED BY <4>1, <1>6
    <3>3. j < k \/ j > k
      <4>1. j \in Int /\ k \in Int /\ j # k BY <2>2, <1>1, <1>3
      <4> QED BY <4>1
    <3> QED BY <3>1, <3>2, <3>3
  <2>3. DOMAIN pending = 1..Len(pending) /\ DOMAIN Without(e) = 1..(Len(pending) - 1)
    BY <1>6, <1>3
  <2>4. \A x \in Range(Without(e)) : x \in Range(pending) \ {e} BY <2>1, <2>3 DEF Range
  <2>5. ASSUME NEW x \in Range(pending) \ {e} PROVE x \in Range(Without(e))
    <3>1. PICK j \in 1..Len(pending) : pending[j] = x BY <2>3 DEF Range
    <3>2. j # k BY <3>1, <1>1
    <3> QED BY <3>1, <3>2, <2>2, <2>3 DEF Range
  <2> QED BY <2>4, <2>5
<1> QED BY <1>6, <1>8, <1>9

(* A beginning stays one when the timeline grows.                          *)
LEMMA BeginsLonger ==
  ASSUME NEW t \in Seq(Nat), NEW s \in Seq(Nat), Begins(s, t), NEW e
  PROVE  Begins(s, Append(t, e))
<1>1. /\ Len(Append(t, e)) = Len(t) + 1 /\ Len(t) \in Nat /\ Len(s) \in Nat
      /\ \A i \in 1..Len(t) : Append(t, e)[i] = t[i]
  OBVIOUS
<1> QED BY <1>1 DEF Begins

(* A timeline begins itself.                                               *)
LEMMA BeginsItself == ASSUME NEW s \in Seq(Nat) PROVE Begins(s, s)
BY DEF Begins

(* Of two beginnings the longer one holds what the shorter one does.       *)
LEMMA LongerHolds ==
  ASSUME NEW s \in Seq(Nat), NEW t \in Seq(Nat), NEW u, Begins(s, u), Begins(t, u),
         Len(s) <= Len(t)
  PROVE  Range(s) \subseteq Range(t)
<1>1. ASSUME NEW x \in Range(s) PROVE x \in Range(t)
  <2>1. DOMAIN s = 1..Len(s) /\ DOMAIN t = 1..Len(t) /\ Len(s) \in Nat /\ Len(t) \in Nat
    OBVIOUS
  <2>2. PICK i \in DOMAIN s : s[i] = x BY <1>1, Zenon DEF Range
  <2>3. i \in 1..Len(s) BY <2>1, <2>2, Zenon
  <2>4. i \in 1..Len(t) BY <2>1, <2>3
  <2>5. t[i] = s[i]
    <3>1. s[i] = u[i] BY <2>3 DEF Begins
    <3>2. t[i] = u[i] BY <2>4 DEF Begins
    <3> QED BY <3>1, <3>2, Zenon
  <2>6. i \in DOMAIN t /\ t[i] = x BY <2>1, <2>2, <2>4, <2>5, Zenon
  <2> QED BY <2>6, Zenon DEF Range
<1> QED BY <1>1

(* What appending leaves of a sequence.                                    *)
LEMMA AppendHolds ==
  ASSUME NEW S, NEW s \in Seq(S), NEW e \in S
  PROVE  /\ Append(s, e) \in Seq(S) /\ Range(Append(s, e)) = Range(s) \cup {e}
         /\ Len(Append(s, e)) = Len(s) + 1 /\ Append(s, e)[Len(s) + 1] = e
         /\ \A i \in 1..Len(s) : Append(s, e)[i] = s[i]
<1>1. /\ Append(s, e) \in Seq(S) /\ Len(Append(s, e)) = Len(s) + 1 /\ Len(s) \in Nat
      /\ Append(s, e)[Len(s) + 1] = e /\ \A i \in 1..Len(s) : Append(s, e)[i] = s[i]
  OBVIOUS
<1>2. DOMAIN s = 1..Len(s) /\ DOMAIN Append(s, e) = 1..(Len(s) + 1) BY <1>1
<1>3. \A i \in 1..(Len(s) + 1) : i \in 1..Len(s) \/ i = Len(s) + 1 BY <1>1
<1>4. 1..Len(s) \subseteq 1..(Len(s) + 1) /\ Len(s) + 1 \in 1..(Len(s) + 1) BY <1>1
<1>5. \A x \in Range(Append(s, e)) : x \in Range(s) \cup {e} BY <1>1, <1>2, <1>3 DEF Range
<1>6. \A x \in Range(s) \cup {e} : x \in Range(Append(s, e)) BY <1>1, <1>2, <1>4 DEF Range
<1> QED BY <1>1, <1>5, <1>6

(* An edit of this client is new, pending and sent.                        *)
LEMMA ApplyLocalKeeps == ASSUME SyncInv, ApplyLocal PROVE SyncInv'
<1> USE DEF SyncInv
<1>0. /\ made' = made + 1 /\ made' \in Nat /\ pending' = Append(pending, made + 1)
      /\ sent' = sent \cup {made + 1}
      /\ UNCHANGED <<base, accepted, answers, overtaken>>
  BY DEF ApplyLocal
<1>1. pending \in Seq(1..(made + 1)) /\ made + 1 \in 1..(made + 1)
  <2>1. 1..made \subseteq 1..(made + 1) OBVIOUS
  <2>2. pending \in Seq(1..made) BY DEF PendingOK
  <2>3. \A i \in 1..Len(pending) : pending[i] \in 1..(made + 1) BY <2>1, <2>2
  <2> QED BY <2>2, <2>3
<1>2. /\ pending' \in Seq(1..made') /\ Range(pending') = Range(pending) \cup {made + 1}
      /\ Len(pending') = Len(pending) + 1 /\ pending'[Len(pending) + 1] = made + 1
      /\ \A i \in 1..Len(pending) : pending'[i] = pending[i]
  <2> DEFINE S == 1..(made + 1)
             e == made + 1
  <2>1. pending \in Seq(S) /\ e \in S BY <1>1
  <2>2. /\ made' = e /\ pending' = Append(pending, e) BY <1>0
  <2>3. S = 1..made' BY <1>0
  <2> HIDE DEF S, e, SyncInv
  <2>4. /\ Append(pending, e) \in Seq(S) /\ Range(Append(pending, e)) = Range(pending) \cup {e}
        /\ Len(Append(pending, e)) = Len(pending) + 1 /\ Append(pending, e)[Len(pending) + 1] = e
        /\ \A i \in 1..Len(pending) : Append(pending, e)[i] = pending[i]
    BY <2>1, AppendHolds
  <2>5. e = made + 1 BY DEF e
  <2> QED BY <2>2, <2>3, <2>4, <2>5
<1>3. made + 1 \notin Range(pending) /\ made + 1 \notin Range(accepted)
      /\ Range(pending) \subseteq 1..made
  <2>1. \A i \in 1..Len(pending) : pending[i] \in 1..made BY DEF PendingOK
  <2>2. \A i \in 1..Len(accepted) : accepted[i] \in 0..made BY DEF AcceptedOK
  <2>3. DOMAIN pending = 1..Len(pending) /\ DOMAIN accepted = 1..Len(accepted)
    BY DEF PendingOK, AcceptedOK
  <2> QED BY <2>1, <2>2, <2>3 DEF Range
<1>4. AnswersOK' BY <1>0, <1>2, <1>3 DEF AnswersOK, Decided
<1>5. IsInjective(pending')
  <2>1. DOMAIN pending = 1..Len(pending) /\ DOMAIN pending' = 1..(Len(pending) + 1)
        /\ Len(pending) \in Nat
    BY <1>2, <1>1
  <2>2. \A i \in 1..Len(pending) : pending[i] # made + 1 BY <1>3, <2>1 DEF Range
  <2>3. \A i \in 1..(Len(pending) + 1) : i \in 1..Len(pending) \/ i = Len(pending) + 1 BY <2>1
  <2> QED BY <1>2, <2>1, <2>2, <2>3 DEF PendingOK, IsInjective
<1>6. PendingOK' BY <1>0, <1>2, <1>3, <1>5 DEF PendingOK, Decided
<1>7. accepted \in Seq(0..(made + 1))
  <2>1. 0..made \subseteq 0..(made + 1) OBVIOUS
  <2>2. accepted \in Seq(0..made) BY DEF AcceptedOK
  <2>3. \A i \in 1..Len(accepted) : accepted[i] \in 0..(made + 1) BY <2>1, <2>2
  <2> QED BY <2>2, <2>3
<1>8. AcceptedOK' BY <1>0, <1>7 DEF AcceptedOK, Begins
<1> QED BY <1>0, <1>4, <1>6, <1>8

(* The server's timeline grows by one edit that it did not have.           *)
LEMMA AcceptedGrows ==
  ASSUME SyncInv, NEW e \in 0..made, e \notin Range(accepted) \/ e = Foreign,
         accepted' = Append(accepted, e)
  PROVE  /\ accepted' \in Seq(0..made) /\ Range(accepted') = Range(accepted) \cup {e}
         /\ Begins(base, accepted') /\ Begins(accepted, accepted')
         /\ \A r \in answers : Begins(r.timeline, accepted')
         /\ \A i, j \in DOMAIN accepted' :
              accepted'[i] = accepted'[j] /\ accepted'[i] # Foreign => i = j
<1>0. made \in Nat /\ accepted \in Seq(0..made) BY DEF SyncInv, AcceptedOK
<1>1. /\ accepted' \in Seq(0..made) /\ Range(accepted') = Range(accepted) \cup {e}
      /\ Len(accepted') = Len(accepted) + 1 /\ accepted'[Len(accepted) + 1] = e
      /\ \A i \in 1..Len(accepted) : accepted'[i] = accepted[i]
  BY <1>0, AppendHolds
<1>2. accepted \in Seq(Nat)
  <2>1. \A i \in 1..Len(accepted) : accepted[i] \in Nat BY <1>0
  <2> QED BY <2>1, <1>0
<1>3. /\ Begins(base, accepted') /\ Begins(accepted, accepted')
      /\ \A r \in answers : Begins(r.timeline, accepted')
  BY <1>2, BeginsLonger, BeginsItself DEF SyncInv, AcceptedOK, AnswersOK
<1>4. DOMAIN accepted = 1..Len(accepted) /\ DOMAIN accepted' = 1..(Len(accepted) + 1)
      /\ Len(accepted) \in Nat
  BY <1>0, <1>1
<1>5. \A i \in 1..(Len(accepted) + 1) : i \in 1..Len(accepted) \/ i = Len(accepted) + 1 BY <1>4
<1>6. \A i \in 1..Len(accepted) : accepted[i] # e \/ e = Foreign BY <1>4 DEF Range
<1>7. \A i, j \in DOMAIN accepted' :
         accepted'[i] = accepted'[j] /\ accepted'[i] # Foreign => i = j
  BY <1>1, <1>4, <1>5, <1>6 DEF SyncInv, AcceptedOK
<1> QED BY <1>1, <1>3, <1>7

(* An edit of another client is of nobody's concern.                       *)
LEMMA OthersEditKeeps == ASSUME SyncInv, OthersEdit PROVE SyncInv'
<1>0. /\ accepted' = Append(accepted, Foreign) /\ Foreign \in 0..made
      /\ UNCHANGED <<base, pending, made, sent, answers, overtaken>>
  BY DEF OthersEdit, Foreign, SyncInv
<1>1. /\ accepted' \in Seq(0..made) /\ Range(accepted') = Range(accepted) \cup {Foreign}
      /\ Begins(base, accepted')
      /\ \A r \in answers : Begins(r.timeline, accepted')
      /\ \A i, j \in DOMAIN accepted' :
           accepted'[i] = accepted'[j] /\ accepted'[i] # Foreign => i = j
  BY <1>0, AcceptedGrows
<1>2. Foreign \notin Range(pending)
  <2>1. \A i \in DOMAIN pending : pending[i] \in 1..made BY DEF SyncInv, PendingOK
  <2> QED BY <2>1 DEF Range, Foreign, SyncInv
<1>3. AnswersOK' BY <1>0, <1>1, <1>2 DEF SyncInv, AnswersOK, Decided
<1>4. PendingOK' BY <1>0, <1>1, <1>2 DEF SyncInv, PendingOK, Decided
<1>5. AcceptedOK' BY <1>0, <1>1 DEF SyncInv, AcceptedOK
<1> QED BY <1>0, <1>3, <1>4, <1>5 DEF SyncInv

(* Asking for the current timeline decides nothing.                        *)
LEMMA ReconnectKeeps == ASSUME SyncInv, Reconnect PROVE SyncInv'
<1> DEFINE fresh == [kind |-> "fresh", edit |-> Foreign, timeline |-> accepted]
<1>0. /\ answers' = answers \cup {fresh}
      /\ UNCHANGED <<base, pending, made, accepted, sent, overtaken>>
  BY DEF Reconnect
<1>1. accepted \in Seq(Nat)
  <2>1. \A i \in 1..Len(accepted) : accepted[i] \in Nat BY DEF SyncInv, AcceptedOK
  <2> QED BY <2>1 DEF SyncInv, AcceptedOK
<1>2. /\ fresh.kind = "fresh" /\ fresh.timeline \in Seq(Nat) /\ Begins(fresh.timeline, accepted)
  BY <1>1, BeginsItself
<1> HIDE DEF fresh
<1>3. ~Decided(fresh) BY <1>2 DEF Decided
<1>4. AnswersOK' BY <1>0, <1>2, <1>3 DEF SyncInv, AnswersOK, Decided
<1>5. PendingOK' BY <1>0 DEF SyncInv, PendingOK, Decided
<1>6. AcceptedOK' BY <1>0 DEF SyncInv, AcceptedOK
<1> QED BY <1>0, <1>4, <1>5, <1>6 DEF SyncInv

(* The server accepts or refuses an edit, once.                            *)
LEMMA DecideKeeps == ASSUME SyncInv, NEW e \in sent, Decide(e) PROVE SyncInv'
<1>0. sent' = sent \ {e} /\ UNCHANGED <<base, pending, made, overtaken>> BY DEF Decide
<1>1. e \in Range(pending) /\ e \notin Range(accepted) /\ e \in 0..made /\ e # Foreign
  <2>1. e \in Range(pending) /\ e \notin Range(accepted) BY DEF SyncInv, PendingOK
  <2>2. \A i \in DOMAIN pending : pending[i] \in 1..made BY DEF SyncInv, PendingOK
  <2> QED BY <2>1, <2>2 DEF Range, Foreign, SyncInv
<1>2. \A r \in answers : Decided(r) => r.edit # e BY DEF SyncInv, AnswersOK
<1>3. accepted \in Seq(Nat)
  <2>1. \A i \in 1..Len(accepted) : accepted[i] \in Nat BY DEF SyncInv, AcceptedOK
  <2> QED BY <2>1 DEF SyncInv, AcceptedOK
<1>4. CASE /\ accepted' = Append(accepted, e)
           /\ answers' = answers \cup {[kind |-> "confirm", edit |-> e, timeline |-> accepted']}
  <2> DEFINE new == [kind |-> "confirm", edit |-> e, timeline |-> accepted']
  <2>1. /\ accepted' \in Seq(0..made) /\ Range(accepted') = Range(accepted) \cup {e}
        /\ Begins(base, accepted')
        /\ \A r \in answers : Begins(r.timeline, accepted')
        /\ \A i, j \in DOMAIN accepted' :
             accepted'[i] = accepted'[j] /\ accepted'[i] # Foreign => i = j
    BY <1>1, <1>4, AcceptedGrows
  <2>2. accepted' \in Seq(Nat) /\ Begins(accepted', accepted')
    <3>1. \A i \in 1..Len(accepted') : accepted'[i] \in Nat BY <2>1 DEF SyncInv
    <3>2. accepted' \in Seq(Nat) BY <2>1, <3>1
    <3> QED BY <3>2, BeginsItself
  <2>3. /\ answers' = answers \cup {new} /\ new.kind = "confirm" /\ new.edit = e
        /\ new.timeline = accepted'
    BY <1>4
  <2> HIDE DEF new
  <2>4. Decided(new) BY <2>3 DEF Decided
  <2>5. AnswersOK'
    BY <1>0, <1>1, <1>2, <2>1, <2>2, <2>3 DEF SyncInv, AnswersOK, Decided
  <2>6. PendingOK'
    <3>1. sent' \cap Range(accepted') = {} BY <1>0, <2>1 DEF SyncInv, PendingOK
    <3>2. ~overtaken => \A x \in Range(pending) \ sent' :
                          \E r \in answers' : Decided(r) /\ r.edit = x
      BY <1>0, <2>3, <2>4 DEF SyncInv, PendingOK
    <3> QED BY <3>1, <3>2, <1>0 DEF SyncInv, PendingOK, Decided
  <2>7. AcceptedOK'
    <3>1. ~overtaken => \A x \in Range(accepted') \ {Foreign} :
             x \in Range(base) \/ \E r \in answers' : r.kind = "confirm" /\ r.edit = x
      BY <2>1, <2>3 DEF SyncInv, AcceptedOK
    <3> QED BY <1>0, <2>1, <3>1 DEF SyncInv, AcceptedOK
  <2> QED BY <2>5, <2>6, <2>7, <1>0 DEF SyncInv
<1>5. ASSUME NEW kind \in {"reject", "conflict"}, accepted' = accepted,
             answers' = answers \cup {[kind |-> kind, edit |-> e, timeline |-> accepted]}
      PROVE SyncInv'
  <2> DEFINE new == [kind |-> kind, edit |-> e, timeline |-> accepted]
  <2>1. /\ answers' = answers \cup {new} /\ new.kind = kind /\ new.edit = e
        /\ new.timeline = accepted
    BY <1>5
  <2> HIDE DEF new
  <2>2. Decided(new) BY <2>1 DEF Decided
  <2>3. Begins(accepted, accepted) BY <1>3, BeginsItself
  <2>4. AnswersOK'
    BY <1>0, <1>1, <1>2, <1>3, <1>5, <2>1, <2>3 DEF SyncInv, AnswersOK, Decided
  <2>5. PendingOK'
    <3>1. ~overtaken => \A x \in Range(pending) \ sent' :
                          \E r \in answers' : Decided(r) /\ r.edit = x
      BY <1>0, <2>1, <2>2 DEF SyncInv, PendingOK
    <3> QED BY <3>1, <1>0, <1>5 DEF SyncInv, PendingOK, Decided
  <2>6. AcceptedOK' BY <1>0, <1>5 DEF SyncInv, AcceptedOK
  <2> QED BY <2>4, <2>5, <2>6, <1>0 DEF SyncInv
<1> QED BY <1>4, <1>5 DEF Decide

(* A lost answer leaves an edit pending for good.                          *)
LEMMA LoseKeeps == ASSUME SyncInv, NEW r \in answers, Lose(r) PROVE SyncInv'
<1>0. /\ answers' = answers \ {r} /\ overtaken' = TRUE
      /\ UNCHANGED <<base, pending, made, accepted, sent>>
  BY DEF Lose
<1>1. AnswersOK' BY <1>0 DEF SyncInv, AnswersOK, Decided
<1>2. PendingOK' BY <1>0 DEF SyncInv, PendingOK
<1>3. AcceptedOK' BY <1>0 DEF SyncInv, AcceptedOK
<1> QED BY <1>0, <1>1, <1>2, <1>3 DEF SyncInv

(* What a delivery does to the base.                                       *)
Rebased(r) ==
  /\ base' \in Seq(Nat) /\ Begins(base', accepted)
  /\ overtaken' \in BOOLEAN /\ (overtaken => overtaken')
  /\ ~overtaken' => Range(base) \subseteq Range(base')
  /\ ~overtaken' /\ r.kind = "confirm" => r.edit \in Range(base')

(* A timeline that is not older holds what the base had.                   *)
LEMMA AdoptRebases ==
  ASSUME SyncInv, NEW r \in answers, Adopt(r), r.kind # "confirm" PROVE Rebased(r)
<1>1. /\ base' = r.timeline /\ base' \in Seq(Nat) /\ Begins(base', accepted)
      /\ base \in Seq(Nat) /\ Begins(base, accepted) /\ overtaken \in BOOLEAN
      /\ overtaken' = (overtaken \/ Len(base') < Len(base))
  BY DEF SyncInv, AnswersOK, AcceptedOK, Adopt
<1>2. overtaken' \in BOOLEAN /\ (overtaken => overtaken') BY <1>1
<1>3. Len(base) \in Nat /\ Len(base') \in Nat BY <1>1
<1>4. ~overtaken' => Len(base) <= Len(base')
  <2>1. ~overtaken' => ~(Len(base') < Len(base)) BY <1>1
  <2> QED BY <2>1, <1>3
<1>5. ~overtaken' => Range(base) \subseteq Range(base') BY <1>1, <1>4, LongerHolds
<1> QED BY <1>1, <1>2, <1>5 DEF Rebased

(* A confirmation never makes the base older.                              *)
LEMMA ConfirmRebases ==
  ASSUME SyncInv, NEW r \in answers, Confirm(r) PROVE Rebased(r)
<1>1. /\ base' = IF Len(r.timeline) > Len(base) THEN r.timeline ELSE base
      /\ overtaken' = overtaken /\ overtaken \in BOOLEAN /\ r.kind = "confirm"
      /\ base \in Seq(Nat) /\ Begins(base, accepted)
      /\ r.timeline \in Seq(Nat) /\ Begins(r.timeline, accepted)
      /\ r.edit \in Range(r.timeline)
  BY DEF SyncInv, AnswersOK, AcceptedOK, Confirm, Decided
<1>2. Len(base) \in Nat /\ Len(r.timeline) \in Nat BY <1>1
<1>3. CASE Len(r.timeline) > Len(base)
  <2>1. Len(base) <= Len(r.timeline) BY <1>2, <1>3
  <2>2. Range(base) \subseteq Range(r.timeline) BY <1>1, <2>1, LongerHolds
  <2> QED BY <1>1, <1>3, <2>2 DEF Rebased
<1>4. CASE ~(Len(r.timeline) > Len(base))
  <2>1. Len(r.timeline) <= Len(base) BY <1>2, <1>4
  <2>2. Range(r.timeline) \subseteq Range(base) BY <1>1, <2>1, LongerHolds
  <2> QED BY <1>1, <1>4, <2>2 DEF Rebased
<1> QED BY <1>3, <1>4

(* An answer takes its edit, and no other, out of what is pending.         *)
LEMMA DeliverKeeps == ASSUME SyncInv, NEW r \in answers, Deliver(r) PROVE SyncInv'
<1>0. answers' = answers \ {r} /\ UNCHANGED <<made, accepted, sent>> BY DEF Deliver
<1>1. \A q \in answers' : Decided(q) /\ Decided(r) => q.edit # r.edit
  BY <1>0 DEF SyncInv, AnswersOK
<1>2. AcceptedOK' /\ overtaken' \in BOOLEAN /\ (overtaken => overtaken')
  <2>1. CASE Rebased(r)
    <3>1. ~overtaken' => \A x \in Range(accepted) \ {Foreign} :
             x \in Range(base') \/ \E q \in answers' : q.kind = "confirm" /\ q.edit = x
      BY <2>1, <1>0 DEF Rebased, SyncInv, AcceptedOK
    <3> QED BY <2>1, <3>1, <1>0 DEF Rebased, SyncInv, AcceptedOK
  <2>2. CASE Reject(r)
    <3>1. base' = base /\ overtaken' = overtaken /\ r.kind = "reject" BY <2>2 DEF Reject
    <3> QED BY <3>1, <1>0 DEF SyncInv, AcceptedOK
  <2> QED BY <2>1, <2>2, AdoptRebases, ConfirmRebases DEF Deliver, Conflict, Reconnected
<1>3. CASE Decided(r)
  <2>1. pending' = Without(r.edit) /\ r.edit \in Range(pending) \ sent
    BY <1>3 DEF Deliver, Confirm, Reject, Conflict, Reconnected, Decided, SyncInv, AnswersOK
  <2>2. /\ pending' \in Seq(1..made) /\ IsInjective(pending')
        /\ Range(pending') = Range(pending) \ {r.edit}
    BY <2>1, WithoutOne DEF SyncInv, PendingOK
  <2>3. AnswersOK' BY <1>0, <1>1, <1>3, <2>2 DEF SyncInv, AnswersOK, Decided
  <2>4. PendingOK'
    <3>1. ~overtaken' => \A x \in Range(pending') \ sent :
                           \E q \in answers' : Decided(q) /\ q.edit = x
      BY <1>0, <1>2, <2>2 DEF SyncInv, PendingOK
    <3> QED BY <3>1, <2>1, <2>2, <1>0 DEF SyncInv, PendingOK, Decided
  <2> QED BY <2>3, <2>4, <1>0, <1>2 DEF SyncInv
<1>4. CASE ~Decided(r)
  <2>1. pending' = pending
    BY <1>4 DEF Deliver, Confirm, Reject, Conflict, Reconnected, Decided
  <2>2. AnswersOK' BY <1>0, <2>1 DEF SyncInv, AnswersOK, Decided
  <2>3. PendingOK' BY <1>0, <1>2, <1>4, <2>1 DEF SyncInv, PendingOK, Decided
  <2> QED BY <2>2, <2>3, <1>0, <1>2 DEF SyncInv
<1> QED BY <1>3, <1>4

(* Every step of the optimistic editor.                                    *)
LEMMA SyncKeeps == SyncInv /\ SyncNext => SyncInv'
BY ApplyLocalKeeps, OthersEditKeeps, ReconnectKeeps, DecideKeeps, DeliverKeeps, LoseKeeps
   DEF SyncNext

(* When all is decided and delivered nothing is pending, and the base      *)
(* holds what was accepted, each edit of this client once.                 *)
LEMMA SettledIsRight == SyncInv => SettledViewIsRight
<1> SUFFICES ASSUME SyncInv, sent = {}, answers = {}, ~overtaken, NEW e \in 1..made
             PROVE  Shown(e) = IF e \in Range(accepted) THEN 1 ELSE 0
  BY DEF SettledViewIsRight
<1>0. /\ made \in Nat /\ pending \in Seq(1..made) /\ base \in Seq(Nat) /\ Begins(base, accepted)
      /\ accepted \in Seq(0..made) /\ e # Foreign
  BY DEF SyncInv, PendingOK, AcceptedOK, Foreign
<1>1. Range(pending) = {} BY DEF SyncInv, PendingOK
<1>2. Len(pending) = 0
  <2>1. Len(pending) \in Nat /\ DOMAIN pending = 1..Len(pending) BY <1>0
  <2>2. ASSUME Len(pending) # 0 PROVE FALSE
    <3>1. 1 \in DOMAIN pending BY <2>1, <2>2
    <3> QED BY <3>1, <1>1 DEF Range
  <2> QED BY <2>2
<1>3. pending = <<>> BY <1>0, <1>2
<1>4. Present = base BY <1>0, <1>3 DEF Present
<1> DEFINE places == {i \in DOMAIN base : base[i] = e}
<1>5. DOMAIN base = 1..Len(base) /\ DOMAIN accepted = 1..Len(accepted)
      /\ Len(base) \in Nat /\ Len(accepted) \in Nat /\ Len(base) <= Len(accepted)
      /\ \A i \in 1..Len(base) : base[i] = accepted[i] /\ i \in 1..Len(accepted)
  BY <1>0 DEF Begins
<1>6. Shown(e) = Cardinality(places) BY <1>4 DEF Shown
<1>7. CASE e \in Range(accepted)
  <2>1. e \in Range(base) BY <1>7, <1>0 DEF SyncInv, AcceptedOK
  <2>2. PICK i \in DOMAIN base : base[i] = e BY <2>1 DEF Range
  <2>3. \A j \in DOMAIN base : base[j] = e => j = i
    BY <2>2, <1>0, <1>5 DEF SyncInv, AcceptedOK
  <2>4. places = {i} BY <2>2, <2>3
  <2> QED BY <2>4, <1>6, <1>7, FS_Singleton
<1>8. CASE e \notin Range(accepted)
  <2>1. places = {} BY <1>5, <1>8 DEF Range
  <2> QED BY <2>1, <1>6, <1>8, FS_EmptySet
<1> QED BY <1>7, <1>8

-----------------------------------------------------------------------------
(* What holds of the part that runs; the others stay where they began.     *)
ControllersInv == AutoInv /\ BarInv /\ SyncInv

(* The three controllers begin with nothing to lose.                       *)
LEMMA ControllersBegin == EditorInit => ControllersInv
<1> SUFFICES ASSUME EditorInit PROVE ControllersInv OBVIOUS
<1>0. ClientInit /\ SyncInit BY DEF EditorInit
<1>1. AutoInv BY <1>0 DEF ClientInit, AutoInv, SavedMeansStored, Unsaved
<1>2. BarInv BY <1>0, ClientAssumption DEF ClientInit, BarInv, NoAsk
<1>3. SyncInv
  <2>1. /\ base = <<>> /\ pending = <<>> /\ made = 0 /\ accepted = <<>> /\ sent = {}
        /\ answers = {} /\ overtaken = FALSE
    BY <1>0 DEF SyncInit
  <2>2. Range(pending) = {} /\ Range(accepted) = {} /\ Len(base) = 0 /\ Len(accepted) = 0
        /\ DOMAIN pending = {} /\ DOMAIN accepted = {}
    BY <2>1 DEF Range
  <2>3. /\ pending \in Seq(1..made) /\ accepted \in Seq(0..made) /\ base \in Seq(Nat)
        /\ made \in Nat /\ overtaken \in BOOLEAN
    BY <2>1, EmptySeq
  <2>4. AnswersOK BY <2>1 DEF AnswersOK
  <2>5. PendingOK BY <2>1, <2>2, <2>3 DEF PendingOK, IsInjective
  <2>6. AcceptedOK
    <3>1. Begins(base, accepted) BY <2>1, <2>2 DEF Begins
    <3> QED BY <3>1, <2>2, <2>3 DEF AcceptedOK
  <2> QED BY <2>3, <2>4, <2>5, <2>6 DEF SyncInv
<1> QED BY <1>1, <1>2, <1>3 DEF ControllersInv

(* A step is of one controller, or of none.                                *)
LEMMA ControllersKeep == ControllersInv /\ [EditorNext]_editorVars => ControllersInv'
<1> SUFFICES ASSUME ControllersInv, [EditorNext]_editorVars PROVE ControllersInv' OBVIOUS
<1> USE DEF ControllersInv
<1>1. CASE UNCHANGED <<clientVars, syncVars>>
  <2>1. AutoInv' BY <1>1 DEF AutoInv, SavedMeansStored, clientVars
  <2>2. BarInv' BY <1>1 DEF BarInv, clientVars
  <2>3. SyncInv'
    BY <1>1 DEF SyncInv, AnswersOK, PendingOK, AcceptedOK, syncVars, Begins, Decided
  <2> QED BY <2>1, <2>2, <2>3
<1>2. CASE AutosaveNext /\ UNCHANGED syncVars
  <2>1. AutoInv' BY <1>2, AutosaveKeeps
  <2>2. UNCHANGED <<bar, asks, emitted>>
    BY <1>2 DEF AutosaveNext, Schedule, TimerFires, ForceRetry, TheySave, ServerSaves,
         RequestFails, Settle
  <2>3. BarInv' BY <2>2 DEF BarInv
  <2>4. SyncInv'
    BY <1>2 DEF SyncInv, AnswersOK, PendingOK, AcceptedOK, syncVars, Begins, Decided
  <2> QED BY <2>1, <2>3, <2>4
<1>3. CASE BarNext /\ UNCHANGED syncVars
  <2>1. BarInv' BY <1>3, BarKeeps
  <2>2. UNCHANGED <<edits, auto, wire, server>>
    BY <1>3 DEF BarNext, Run, Submit, Retry, Cancel, ApplyBar, Dismiss, Answer
  <2>3. AutoInv' BY <2>2 DEF AutoInv, SavedMeansStored
  <2>4. SyncInv'
    BY <1>3 DEF SyncInv, AnswersOK, PendingOK, AcceptedOK, syncVars, Begins, Decided
  <2> QED BY <2>1, <2>3, <2>4
<1>4. CASE SyncNext /\ UNCHANGED clientVars
  <2>1. SyncInv' BY <1>4, SyncKeeps
  <2>2. AutoInv' BY <1>4 DEF AutoInv, SavedMeansStored, clientVars
  <2>3. BarInv' BY <1>4 DEF BarInv, clientVars
  <2> QED BY <2>1, <2>2, <2>3
<1>5. EditorNext =>
        \/ UNCHANGED <<clientVars, syncVars>>
        \/ AutosaveNext /\ UNCHANGED syncVars
        \/ BarNext /\ UNCHANGED syncVars
        \/ SyncNext /\ UNCHANGED clientVars
  BY ZenonT(30) DEF EditorNext
<1>6. UNCHANGED editorVars => UNCHANGED <<clientVars, syncVars>> BY DEF editorVars
<1> QED BY <1>1, <1>2, <1>3, <1>4, <1>5, <1>6

(* The promises of the three controllers, from what holds.                 *)
LEMMA ControllersPromise == ControllersInv => ClientsKeepEdits
BY SettledIsRight, ClientAssumption
DEF ControllersInv, AutoInv, BarInv, ClientsKeepEdits, ControllersKeepEdits, EmittedOnce

(* No edit is lost by the autosave, no proposal is applied twice by the    *)
(* bar, and the optimistic editor settles on what the server accepted.     *)
THEOREM ControllersAreSafe == EditorSpec => []ClientsKeepEdits
<1>1. EditorSpec => []ControllersInv
  BY ControllersBegin, ControllersKeep, PTL DEF EditorSpec
<1> QED BY <1>1, ControllersPromise, PTL

-----------------------------------------------------------------------------
(* The page of a project.  Answers that count are of the project that is   *)
(* open; at most one read or list of it does, and it brings nothing older  *)
(* than is shown.                                                          *)
State == [n : Nat, polled : BOOLEAN]
Got == State \cup {Page!Waiting}
ListCall == [kind : {"list"}, project : Projects, fresh : BOOLEAN, got : Got]
ReadCall == [kind : {"read"}, project : Projects, fresh : BOOLEAN, got : Got,
             flag : Flags \cup {"none"}, owned : BOOLEAN]
ActCall == [kind : {"act"}, flag : Flags, owned : BOOLEAN, project : Projects,
            done : {"none", "ok", "failed"}, left : {1, 2}]
PageCall == {Page!Free} \cup ListCall \cup ReadCall \cup ActCall

Asks(c) == c.kind \in {"list", "read"} /\ c.fresh
Owned(c) == c.kind \in {"act", "read"} /\ c.owned

PageRecord ==
  [project : Projects \cup {"none"}, shown : Got, of : Projects \cup {"none"},
   seen : Nat \cup {-1}, told : Nat \cup {-1}, busy : SUBSET Flags,
   timer : BOOLEAN, missed : BOOLEAN]

PageTypes ==
  /\ site \in [Projects -> State]
  /\ calls \in [PageRequests -> PageCall]
  /\ page \in PageRecord

AsksRight ==
  \A r \in PageRequests : Asks(calls[r]) =>
    /\ calls[r].project = page.project
    /\ calls[r].kind = "list" => page.of = "none"
    /\ calls[r].got # Page!Waiting =>
         page.seen <= calls[r].got.n /\ calls[r].got.n <= site[page.project].n
    /\ \A q \in PageRequests : Asks(calls[q]) => q = r

OwnedRight ==
  \A r \in PageRequests : Owned(calls[r]) =>
    /\ calls[r].project = page.project /\ page.of # "none"
    /\ \A q \in PageRequests :
         Owned(calls[q]) /\ calls[q].flag = calls[r].flag /\ calls[r].flag # "none" => q = r

BusyRight ==
  \A f \in Flags :
    f \in page.busy <=> \E r \in PageRequests : Owned(calls[r]) /\ calls[r].flag = f

ShownRight ==
  /\ Page!PageIsOwn
  /\ page.of = "none" => page.seen = -1 /\ page.told = -1
  /\ page.project # "none" => page.seen <= site[page.project].n /\ page.told <= site[page.project].n

ToldRight ==
  \/ page.told <= page.seen \/ page.missed \/ page.timer
  \/ \E r \in PageRequests :
       Asks(calls[r]) /\ (calls[r].got = Page!Waiting \/ page.told <= calls[r].got.n)

PageInv == PageTypes /\ AsksRight /\ OwnedRight /\ BusyRight /\ ShownRight /\ ToldRight

(* What the two ways of setting a request aside leave of it.               *)
Older(c) == IF c.kind = "read" THEN [c EXCEPT !.fresh = FALSE] ELSE c
Lost(c) == IF c.kind \in {"act", "read"} THEN [c EXCEPT !.owned = FALSE] ELSE c

(* Which request is which.                                                 *)
LEMMA CallKinds ==
  ASSUME NEW c \in PageCall
  PROVE  /\ c.kind \in {"free", "list", "read", "act"}
         /\ c.kind = "list" => c \in ListCall
         /\ c.kind = "read" => c \in ReadCall
         /\ c.kind = "act" => c \in ActCall
BY DEF PageCall, ListCall, ReadCall, ActCall, Page!Free

(* A read that is set aside does not count; its action goes on.            *)
LEMMA OlderCall ==
  ASSUME NEW c \in PageCall
  PROVE  /\ Older(c) \in PageCall
         /\ Owned(Older(c)) <=> Owned(c)
         /\ Owned(c) => Older(c).flag = c.flag /\ Older(c).project = c.project
         /\ Asks(Older(c)) => c.kind = "list" /\ Older(c) = c
<1>1. CASE c.kind = "read"
  <2>1. c \in ReadCall /\ Older(c) = [c EXCEPT !.fresh = FALSE] BY <1>1, CallKinds DEF Older
  <2> QED BY <2>1 DEF ReadCall, Owned, Asks, PageCall
<1>2. CASE c.kind # "read"
  <2>1. Older(c) = c BY <1>2 DEF Older
  <2> QED BY <2>1, <1>2 DEF Asks
<1> QED BY <1>1, <1>2

(* An action that is disowned does not count.                              *)
LEMMA LostCall ==
  ASSUME NEW c \in PageCall
  PROVE  /\ Lost(c) \in PageCall /\ ~ Owned(Lost(c)) /\ Lost(c).kind = c.kind
         /\ Asks(Lost(c)) => c.kind \in {"list", "read"} /\ Asks(c)
         /\ c.kind = "list" => Lost(c) = c
<1>1. CASE c.kind = "read"
  <2>1. c \in ReadCall /\ Lost(c) = [c EXCEPT !.owned = FALSE] BY <1>1, CallKinds DEF Lost
  <2> QED BY <2>1 DEF ReadCall, Owned, Asks, PageCall
<1>2. CASE c.kind = "act"
  <2>1. c \in ActCall /\ Lost(c) = [c EXCEPT !.owned = FALSE] BY <1>2, CallKinds DEF Lost
  <2> QED BY <2>1 DEF ActCall, Owned, Asks, PageCall
<1>3. CASE c.kind \notin {"act", "read"}
  <2>1. Lost(c) = c BY <1>3 DEF Lost
  <2> QED BY <2>1, <1>3 DEF Owned, Asks
<1> QED BY <1>1, <1>2, <1>3

(* The two ways, of all requests at once.                                  *)
LEMMA OlderCalls ==
  ASSUME PageTypes
  PROVE  /\ Page!Stale(calls) = [r \in PageRequests |-> Older(calls[r])]
         /\ Page!Disowned(calls) = [r \in PageRequests |-> Lost(calls[r])]
         /\ Page!Disowned(Page!Stale(calls)) = [r \in PageRequests |-> Lost(Older(calls[r]))]
BY DEF Page!Stale, Page!Disowned, Older, Lost

(* Another project is opened: nothing that is under way counts any more,   *)
(* but the list of its runs.                                               *)
LEMMA OpenKeeps ==
  ASSUME PageInv, NEW r \in PageRequests, NEW p \in Projects, Page!OpenProject(p, r)
  PROVE  PageInv'
<1> DEFINE new == [kind |-> "list", project |-> p, fresh |-> TRUE, got |-> Page!Waiting]
<1>1. site' = site /\ page' = Page!BlankPage(p) BY DEF Page!OpenProject
<1>2. new \in PageCall /\ Asks(new) /\ ~ Owned(new) /\ new.project = p /\ new.got = Page!Waiting
  BY DEF PageCall, ListCall, Got, Asks, Owned
<1>3. /\ calls' \in [PageRequests -> PageCall] /\ calls'[r] = new
      /\ \A q \in PageRequests \ {r} : ~ Asks(calls'[q]) /\ ~ Owned(calls'[q])
  <2>1. calls' = [q \in PageRequests |->
                   IF q = r THEN new
                   ELSE IF calls[q].kind = "list" THEN [calls[q] EXCEPT !.fresh = FALSE]
                   ELSE Lost(Older(calls[q]))]
    BY OlderCalls DEF Page!OpenProject, PageInv
  <2>2. ASSUME NEW q \in PageRequests, q # r
        PROVE  calls'[q] \in PageCall /\ ~ Asks(calls'[q]) /\ ~ Owned(calls'[q])
    <3>0. calls[q] \in PageCall BY DEF PageInv, PageTypes, PageRecord
    <3>1. CASE calls[q].kind = "list"
      <4>1. calls[q] \in ListCall /\ calls'[q] = [calls[q] EXCEPT !.fresh = FALSE]
        BY <3>0, <3>1, <2>1, <2>2, CallKinds
      <4> QED BY <4>1 DEF ListCall, PageCall, Asks, Owned
    <3>2. CASE calls[q].kind # "list"
      <4>1. calls'[q] = Lost(Older(calls[q])) BY <3>2, <2>1, <2>2
      <4>2. Older(calls[q]) \in PageCall /\ ~ Asks(Older(calls[q])) BY <3>0, <3>2, OlderCall
      <4> QED BY <4>1, <4>2, LostCall
    <3> QED BY <3>1, <3>2
  <2>3. calls'[r] = new BY <2>1
  <2> HIDE DEF new
  <2> QED BY <2>1, <2>2, <2>3, <1>2
<1> HIDE DEF new
<1>4. PageTypes' BY <1>1, <1>3 DEF PageInv, PageTypes, PageRecord, Page!BlankPage, Got, Page!None
<1>5. AsksRight'
  <2>1. page'.project = p /\ page'.of = "none" BY <1>1 DEF Page!BlankPage, Page!None
  <2> QED BY <2>1, <1>2, <1>3 DEF AsksRight
<1>6. OwnedRight' BY <1>2, <1>3 DEF OwnedRight
<1>7. BusyRight' BY <1>1, <1>2, <1>3 DEF BusyRight, Page!BlankPage
<1>8. ShownRight' /\ ToldRight'
  <2>1. site[p].n \in Nat BY DEF PageInv, PageTypes, PageRecord, State
  <2> QED BY <1>1, <2>1 DEF ShownRight, ToldRight, Page!PageIsOwn, Page!BlankPage, Page!None,
            Page!Waiting
<1> QED BY <1>4, <1>5, <1>6, <1>7, <1>8 DEF PageInv

(* A read is sent: the older ones do not count.                            *)
LEMMA SentCalls ==
  ASSUME PageInv, NEW r \in PageRequests, page.of # "none", NEW new \in ReadCall,
         calls' = [Page!Stale(calls) EXCEPT ![r] = new]
  PROVE  /\ calls' \in [PageRequests -> PageCall] /\ calls'[r] = new
         /\ \A q \in PageRequests \ {r} :
              /\ ~ Asks(calls'[q]) /\ (Owned(calls'[q]) <=> Owned(calls[q]))
              /\ Owned(calls[q]) => calls'[q].flag = calls[q].flag
                                    /\ calls'[q].project = calls[q].project
<1>1. new \in PageCall BY DEF PageCall
<1>2. calls' = [q \in PageRequests |-> IF q = r THEN new ELSE Older(calls[q])]
  BY OlderCalls DEF PageInv
<1>3. \A q \in PageRequests : calls[q] \in PageCall BY DEF PageInv, PageTypes, PageRecord
<1>4. \A q \in PageRequests : calls[q].kind = "list" => ~ Asks(calls[q])
  BY DEF PageInv, AsksRight
<1>5. ASSUME NEW q \in PageRequests, q # r
      PROVE  /\ calls'[q] \in PageCall
             /\ ~ Asks(calls'[q]) /\ (Owned(calls'[q]) <=> Owned(calls[q]))
             /\ Owned(calls[q]) => calls'[q].flag = calls[q].flag
                                   /\ calls'[q].project = calls[q].project
  <2>1. calls'[q] = Older(calls[q]) BY <1>2, <1>5
  <2> QED BY <2>1, <1>3, <1>4, OlderCall
<1>6. calls'[r] = new BY <1>2
<1> QED BY <1>1, <1>2, <1>5, <1>6

(* A refresh is the read that counts.                                      *)
LEMMA RefreshKeeps ==
  ASSUME PageInv, NEW r \in PageRequests, Page!Refresh(r) PROVE PageInv'
<1> DEFINE new == [kind |-> "read", project |-> page.project, fresh |-> TRUE,
                   got |-> Page!Waiting, flag |-> "none", owned |-> TRUE]
<1>1. /\ page.of = page.project /\ page.of # "none" /\ site' = site /\ calls[r] = Page!Free
      /\ calls' = [Page!Stale(calls) EXCEPT ![r] = new]
  BY DEF Page!Refresh, Page!Send, Page!Read, Page!None
<1>2. page' \in {page, [page EXCEPT !.timer = FALSE]} BY DEF Page!Refresh
<1>3. /\ DOMAIN page' = DOMAIN page /\ page'.project = page.project /\ page'.shown = page.shown
      /\ page'.of = page.of /\ page'.seen = page.seen /\ page'.told = page.told
      /\ page'.busy = page.busy /\ page'.missed = page.missed
  BY <1>2 DEF PageInv, PageTypes, PageRecord
<1>4. new \in ReadCall /\ Asks(new) /\ Owned(new) /\ new.project = page.project
      /\ new.got = Page!Waiting /\ new.flag = "none"
  BY <1>1 DEF ReadCall, Got, Asks, Owned, PageInv, PageTypes, PageRecord
<1> HIDE DEF new
<1>5. ~ Owned(calls[r]) BY <1>1 DEF Page!Free, Owned
<1>6. /\ calls' \in [PageRequests -> PageCall] /\ calls'[r] = new
      /\ \A q \in PageRequests \ {r} :
           /\ ~ Asks(calls'[q]) /\ (Owned(calls'[q]) <=> Owned(calls[q]))
           /\ Owned(calls[q]) => calls'[q].flag = calls[q].flag
                                 /\ calls'[q].project = calls[q].project
  BY <1>1, <1>4, SentCalls
<1>7. PageTypes' BY <1>1, <1>2, <1>6 DEF PageInv, PageTypes, PageRecord
<1>8. AsksRight'
  <2>1. calls'[r].kind = "read" BY <1>4, <1>6 DEF ReadCall
  <2> QED BY <2>1, <1>3, <1>4, <1>6 DEF AsksRight
<1>9. OwnedRight' BY <1>1, <1>3, <1>4, <1>5, <1>6 DEF PageInv, OwnedRight
<1>10. BusyRight'
  <2>1. "none" \notin Flags BY PagesAssumption
  <2> QED BY <2>1, <1>3, <1>4, <1>5, <1>6 DEF PageInv, BusyRight
<1>11. ShownRight' BY <1>1, <1>3 DEF PageInv, ShownRight, Page!PageIsOwn
<1>12. ToldRight' BY <1>4, <1>6 DEF ToldRight
<1> QED BY <1>7, <1>8, <1>9, <1>10, <1>11, <1>12 DEF PageInv

(* A request ends, and with it the action that waited for it.              *)
LEMMA EndedCalls ==
  ASSUME PageInv, NEW r \in PageRequests, calls' = [calls EXCEPT ![r] = Page!Free],
         page'.project = page.project, page'.of = page.of \/ page'.of # "none",
         page'.busy = IF Owned(calls[r]) THEN page.busy \ {calls[r].flag} ELSE page.busy
  PROVE  /\ calls' \in [PageRequests -> PageCall] /\ OwnedRight' /\ BusyRight'
         /\ calls'[r] = Page!Free /\ ~ Asks(calls'[r])
         /\ \A q \in PageRequests \ {r} : calls'[q] = calls[q]
<1>1. calls \in [PageRequests -> PageCall] /\ Page!Free \in PageCall
  BY DEF PageInv, PageTypes, PageRecord, PageCall
<1>2. /\ calls' \in [PageRequests -> PageCall] /\ calls'[r] = Page!Free
      /\ \A q \in PageRequests \ {r} : calls'[q] = calls[q]
  BY <1>1
<1>3. ~ Owned(calls'[r]) /\ ~ Asks(calls'[r]) BY <1>2 DEF Page!Free, Owned, Asks
<1>4. OwnedRight' BY <1>2, <1>3 DEF PageInv, OwnedRight
<1>5. ASSUME NEW f \in Flags
      PROVE  f \in page'.busy <=> \E q \in PageRequests : Owned(calls'[q]) /\ calls'[q].flag = f
  <2>0. f # "none" BY PagesAssumption
  <2>1. f \in page.busy <=> \E q \in PageRequests : Owned(calls[q]) /\ calls[q].flag = f
    BY DEF PageInv, BusyRight
  <2>2. CASE Owned(calls[r]) /\ calls[r].flag = f
    <3>1. \A q \in PageRequests : Owned(calls[q]) /\ calls[q].flag = f => q = r
      BY <2>2, <2>0 DEF PageInv, OwnedRight
    <3> QED BY <2>2, <3>1, <1>2, <1>3
  <2>3. CASE ~ (Owned(calls[r]) /\ calls[r].flag = f)
    <3>1. f \in page'.busy <=> f \in page.busy BY <2>3
    <3> QED BY <2>1, <2>3, <3>1, <1>2, <1>3
  <2> QED BY <2>2, <2>3
<1>6. BusyRight' BY <1>5 DEF BusyRight
<1> QED BY <1>2, <1>3, <1>4, <1>6

(* An action that ends changes its button and nothing else.                *)
LEMMA EndOfActionIs ==
  ASSUME PageTypes, NEW p, DOMAIN p = DOMAIN page, NEW r \in PageRequests,
         calls[r].kind \in {"act", "read"}
  PROVE  /\ DOMAIN Page!EndOfAction(p, calls[r]) = DOMAIN page
         /\ Page!EndOfAction(p, calls[r]).busy =
              IF Owned(calls[r]) THEN p.busy \ {calls[r].flag} ELSE p.busy
         /\ \A f \in DOMAIN page \ {"busy"} : Page!EndOfAction(p, calls[r])[f] = p[f]
         /\ p \in PageRecord => Page!EndOfAction(p, calls[r]) \in PageRecord
<1>1. "busy" \in DOMAIN page BY DEF PageTypes, PageRecord
<1>2. CASE Owned(calls[r])
  <2>1. Page!EndOfAction(p, calls[r]) = [p EXCEPT !.busy = @ \ {calls[r].flag}]
    BY <1>2 DEF Page!EndOfAction, Page!NotBusy, Owned
  <2> QED BY <2>1, <1>1, <1>2 DEF PageRecord
<1>3. CASE ~ Owned(calls[r])
  <2>1. Page!EndOfAction(p, calls[r]) = p BY <1>3 DEF Page!EndOfAction, Owned
  <2> QED BY <2>1, <1>1, <1>3
<1> QED BY <1>2, <1>3

(* A read that counts is shown, and no other.                              *)
LEMMA ReceiveReadKeeps ==
  ASSUME PageInv, NEW r \in PageRequests, Page!ReceiveRead(r) PROVE PageInv'
<1> DEFINE c == calls[r]
           mine == Page!OwnsResponse(c)
           p == IF mine THEN Page!Show(c.project, c.got) ELSE page
<1>0. PageTypes /\ page \in PageRecord /\ site' = site BY DEF PageInv, PageTypes, Page!ReceiveRead
<1>1. c \in ReadCall /\ c.got # Page!Waiting
  BY CallKinds DEF PageInv, PageTypes, Page!ReceiveRead
<1>2. page' = Page!EndOfAction(p, c) /\ calls' = [calls EXCEPT ![r] = Page!Free]
  BY DEF Page!ReceiveRead
<1>3. c.got \in State /\ c.project \in Projects /\ c.kind = "read" BY <1>1 DEF ReadCall, Got
<1>4. mine => /\ Asks(c) /\ c.project = page.project
              /\ page.seen <= c.got.n /\ c.got.n <= site[page.project].n
  <2>1. mine => c.project = page.project /\ Asks(c)
    BY <1>3 DEF Page!OwnsResponse, Asks
  <2> QED BY <2>1, <1>1 DEF PageInv, AsksRight
<1>5. Page!Show(c.project, c.got) =
        [page EXCEPT !.shown = c.got, !.of = c.project,
                     !.seen = IF c.got.n > page.seen THEN c.got.n ELSE page.seen]
  BY <1>0 DEF Page!Show, PageRecord
<1>6. p \in PageRecord /\ DOMAIN p = DOMAIN page
  <2>1. Page!Show(c.project, c.got) \in PageRecord /\ DOMAIN Page!Show(c.project, c.got) = DOMAIN page
    BY <1>0, <1>3, <1>5 DEF PageRecord, State, Got
  <2> QED BY <2>1, <1>0
<1>7. /\ p.project = page.project /\ p.told = page.told /\ p.busy = page.busy
      /\ p.timer = page.timer /\ p.missed = page.missed
      /\ mine => p.of = page.project /\ p.shown = c.got /\ p.seen = c.got.n
      /\ ~ mine => p.of = page.of /\ p.shown = page.shown /\ p.seen = page.seen
  <2>1. CASE mine
    <3>1. p.seen = IF c.got.n > page.seen THEN c.got.n ELSE page.seen
      BY <2>1, <1>5, <1>0 DEF PageRecord
    <3>2. page.seen \in Int /\ c.got.n \in Int BY <1>0, <1>3 DEF PageRecord, State
    <3>3. p.seen = c.got.n BY <3>1, <3>2, <2>1, <1>4
    <3> QED BY <3>3, <2>1, <1>4, <1>5, <1>0 DEF PageRecord
  <2>2. CASE ~ mine BY <2>2
  <2> QED BY <2>1, <2>2
<1> HIDE DEF p
<1>8. /\ page' \in PageRecord
      /\ page'.project = page.project /\ page'.told = page.told
      /\ page'.timer = page.timer /\ page'.missed = page.missed
      /\ page'.of = p.of /\ page'.shown = p.shown /\ page'.seen = p.seen
      /\ page'.busy = IF Owned(c) THEN page.busy \ {c.flag} ELSE page.busy
  <2>1. c.kind \in {"act", "read"} BY <1>3
  <2>2. DOMAIN page = {"project", "shown", "of", "seen", "told", "busy", "timer", "missed"}
    BY <1>0 DEF PageRecord
  <2>3. /\ page' \in PageRecord
        /\ \A f \in DOMAIN page \ {"busy"} : page'[f] = p[f]
        /\ page'.busy = IF Owned(c) THEN p.busy \ {c.flag} ELSE p.busy
    <3> HIDE DEF c
    <3> QED BY <2>1, <1>0, <1>2, <1>6, EndOfActionIs DEF c
  <2>4. /\ page'.project = p.project /\ page'.told = p.told /\ page'.timer = p.timer
        /\ page'.missed = p.missed /\ page'.of = p.of /\ page'.shown = p.shown
        /\ page'.seen = p.seen
    BY <2>2, <2>3
  <2> QED BY <2>3, <2>4, <1>7
<1>9. page'.of = page.of \/ page'.of # "none"
  <2>1. "none" \notin Projects BY PagesAssumption
  <2> QED BY <2>1, <1>3, <1>4, <1>7, <1>8
<1>10. /\ calls' \in [PageRequests -> PageCall] /\ OwnedRight' /\ BusyRight'
       /\ ~ Asks(calls'[r]) /\ \A q \in PageRequests \ {r} : calls'[q] = calls[q]
  BY <1>2, <1>8, <1>9, EndedCalls
<1>11. PageTypes' BY <1>0, <1>8, <1>10 DEF PageTypes
<1> HIDE DEF mine
<1>12. AsksRight'
  <2>1. CASE mine
    <3>1. \A q \in PageRequests : ~ Asks(calls'[q])
      BY <2>1, <1>4, <1>10 DEF PageInv, AsksRight
    <3> QED BY <3>1 DEF AsksRight
  <2>2. CASE ~ mine BY <2>2, <1>0, <1>7, <1>8, <1>10 DEF PageInv, AsksRight
  <2> QED BY <2>1, <2>2
<1>13. ShownRight'
  <2>1. CASE mine
    <3>1. page'.of = page.project /\ page'.project # "none" /\ page'.of # "none"
      BY <2>1, <1>3, <1>4, <1>7, <1>8, PagesAssumption
    <3>2. page'.shown.n = page'.seen /\ page'.seen <= site[page.project].n
      BY <2>1, <1>4, <1>7, <1>8
    <3> QED BY <3>1, <3>2, <1>0, <1>8 DEF PageInv, ShownRight, Page!PageIsOwn
  <2>2. CASE ~ mine
    BY <2>2, <1>0, <1>7, <1>8 DEF PageInv, ShownRight, Page!PageIsOwn
  <2> QED BY <2>1, <2>2
<1>14. ToldRight'
  <2>1. CASE mine
    <3>0. page.told \in Int /\ page.seen \in Int /\ c.got.n \in Int
      BY <1>0, <1>3 DEF PageRecord, State
    <3>1. \/ page.told <= page.seen \/ page.missed \/ page.timer
          \/ page.told <= c.got.n
      BY <2>1, <1>1, <1>4 DEF PageInv, ToldRight, AsksRight
    <3>2. page.told <= c.got.n \/ page.missed \/ page.timer BY <3>0, <3>1, <2>1, <1>4
    <3> QED BY <3>2, <2>1, <1>7, <1>8 DEF ToldRight
  <2>2. CASE ~ mine
    <3>1. ~ Asks(c)
      BY <2>2 DEF mine, Page!OwnsResponse, Asks, PageInv, AsksRight
    <3> QED BY <3>1, <2>2, <1>7, <1>8, <1>10 DEF PageInv, ToldRight
  <2> QED BY <2>1, <2>2
<1> QED BY <1>10, <1>11, <1>12, <1>13, <1>14 DEF PageInv

(* A list that counts begins a page that has nothing under way.            *)
LEMMA ReceiveListKeeps ==
  ASSUME PageInv, NEW r \in PageRequests, Page!ReceiveList(r) PROVE PageInv'
<1> DEFINE c == calls[r]
           mine == Page!OwnsResponse(c)
<1>0. PageTypes /\ page \in PageRecord /\ site' = site BY DEF PageInv, PageTypes, Page!ReceiveList
<1>1. c \in ListCall /\ c.got # Page!Waiting /\ c.kind = "list"
  BY CallKinds DEF PageInv, PageTypes, Page!ReceiveList
<1>2. c.got \in State /\ c.project \in Projects /\ ~ Owned(c) BY <1>1 DEF ListCall, Got, Owned
<1>3. CASE mine
  <2>1. Asks(c) /\ c.project = page.project BY <1>1, <1>3 DEF Page!OwnsResponse, Asks
  <2>2. /\ page.of = "none" /\ page.seen = -1 /\ page.told = -1 /\ c.got.n <= site[page.project].n
        /\ \A q \in PageRequests : Asks(calls[q]) => q = r
    BY <2>1, <1>1 DEF PageInv, AsksRight, ShownRight
  <2>3. \A q \in PageRequests : ~ Owned(calls[q]) BY <2>2 DEF PageInv, OwnedRight
  <2>4. page' = [page EXCEPT !.shown = c.got, !.of = c.project,
                     !.seen = IF c.got.n > page.seen THEN c.got.n ELSE page.seen]
    BY <1>0, <1>3 DEF Page!ReceiveList, Page!Show, PageRecord
  <2>5. c.got.n \in Nat BY <1>2 DEF State
  <2>6. (IF c.got.n > page.seen THEN c.got.n ELSE page.seen) = c.got.n BY <2>2, <2>5
  <2>7. /\ page' \in PageRecord /\ page'.of = page.project /\ page'.shown = c.got
        /\ page'.seen = c.got.n /\ page'.told = -1 /\ page'.busy = page.busy
        /\ page'.project = page.project
    BY <2>1, <2>2, <2>4, <2>5, <2>6, <1>0, <1>2 DEF PageRecord, Got
  <2>8. calls' = [[q \in PageRequests |-> Lost(Older(calls[q]))] EXCEPT ![r] = Page!Free]
    BY <1>0, <1>3, OlderCalls DEF Page!ReceiveList
  <2>9. Page!Free \in PageCall /\ ~ Asks(Page!Free) /\ ~ Owned(Page!Free)
    BY DEF PageCall, Page!Free, Asks, Owned
  <2>10. ASSUME NEW q \in PageRequests
         PROVE  calls'[q] \in PageCall /\ ~ Asks(calls'[q]) /\ ~ Owned(calls'[q])
    <3>1. CASE q = r BY <3>1, <2>8, <2>9
    <3>2. CASE q # r
      <4>1. calls'[q] = Lost(Older(calls[q])) /\ calls[q] \in PageCall
        BY <3>2, <2>8, <1>0 DEF PageTypes
      <4>2. Older(calls[q]) \in PageCall /\ ~ Asks(Older(calls[q]))
        BY <3>2, <4>1, <2>2, OlderCall
      <4> QED BY <4>1, <4>2, LostCall
    <3> QED BY <3>1, <3>2
  <2>11. calls' \in [PageRequests -> PageCall] BY <2>8, <2>10
  <2>12. PageTypes' BY <1>0, <2>7, <2>11 DEF PageTypes
  <2>13. AsksRight' /\ OwnedRight' BY <2>10 DEF AsksRight, OwnedRight
  <2>14. BusyRight' BY <2>3, <2>7, <2>10 DEF PageInv, BusyRight
  <2>15. ShownRight'
    <3>1. page.project # "none" /\ site[page.project].n \in Nat
      BY <2>1, <1>2, <1>0, PagesAssumption DEF PageTypes, State
    <3> QED BY <3>1, <2>2, <2>7, <1>0 DEF ShownRight, Page!PageIsOwn
  <2>16. ToldRight' BY <2>5, <2>7 DEF ToldRight
  <2> QED BY <2>12, <2>13, <2>14, <2>15, <2>16 DEF PageInv
<1>4. CASE ~ mine
  <2>1. page' = page /\ calls' = [calls EXCEPT ![r] = Page!Free]
    BY <1>4 DEF Page!ReceiveList
  <2>2. ~ Asks(c) BY <1>4 DEF Page!OwnsResponse, Asks, PageInv, AsksRight
  <2>3. /\ calls' \in [PageRequests -> PageCall] /\ OwnedRight' /\ BusyRight'
        /\ ~ Asks(calls'[r]) /\ \A q \in PageRequests \ {r} : calls'[q] = calls[q]
    BY <2>1, <1>2, EndedCalls
  <2>4. PageTypes' BY <1>0, <2>1, <2>3 DEF PageTypes
  <2>5. AsksRight' BY <1>0, <2>1, <2>3 DEF PageInv, AsksRight
  <2>6. ShownRight' BY <1>0, <2>1 DEF PageInv, ShownRight, Page!PageIsOwn
  <2>7. ToldRight' BY <2>1, <2>2, <2>3 DEF PageInv, ToldRight
  <2> QED BY <2>3, <2>4, <2>5, <2>6, <2>7 DEF PageInv
<1> QED BY <1>3, <1>4

(* A lost read may leave the page behind, as the page notes.               *)
LEMMA LoseReadKeeps ==
  ASSUME PageInv, NEW r \in PageRequests, Page!LoseRead(r) PROVE PageInv'
<1> DEFINE c == calls[r]
           p == [page EXCEPT !.missed = TRUE]
<1>0. PageTypes /\ page \in PageRecord /\ site' = site BY DEF PageInv, PageTypes, Page!LoseRead
<1>1. c.kind \in {"list", "read"} /\ calls' = [calls EXCEPT ![r] = Page!Free]
      /\ page' = IF c.kind = "read" THEN Page!EndOfAction(p, c) ELSE p
  BY DEF Page!LoseRead
<1>2. /\ p \in PageRecord /\ DOMAIN p = DOMAIN page /\ p.missed = TRUE
      /\ \A f \in DOMAIN page \ {"missed"} : p[f] = page[f]
  BY <1>0 DEF PageRecord
<1> HIDE DEF p
<1>3. /\ page' \in PageRecord /\ page'.missed = TRUE
      /\ page'.project = page.project /\ page'.told = page.told /\ page'.of = page.of
      /\ page'.shown = page.shown /\ page'.seen = page.seen
      /\ page'.busy = IF Owned(c) THEN page.busy \ {c.flag} ELSE page.busy
  <2>1. CASE c.kind = "read" BY <2>1, <1>0, <1>1, <1>2, EndOfActionIs DEF PageRecord
  <2>2. CASE c.kind = "list" BY <2>2, <1>0, <1>1, <1>2 DEF PageRecord, Owned
  <2> QED BY <2>1, <2>2, <1>1
<1>4. /\ calls' \in [PageRequests -> PageCall] /\ OwnedRight' /\ BusyRight'
      /\ ~ Asks(calls'[r]) /\ \A q \in PageRequests \ {r} : calls'[q] = calls[q]
  BY <1>1, <1>3, EndedCalls
<1>5. PageTypes' BY <1>0, <1>3, <1>4 DEF PageTypes
<1>6. AsksRight' BY <1>0, <1>3, <1>4 DEF PageInv, AsksRight
<1>7. ShownRight' BY <1>0, <1>3 DEF PageInv, ShownRight, Page!PageIsOwn
<1>8. ToldRight' BY <1>3 DEF ToldRight
<1> QED BY <1>4, <1>5, <1>6, <1>7, <1>8 DEF PageInv

(* The server moves on, and no request changes what it is.                 *)
LEMMA SameCalls ==
  ASSUME PageInv, page' = page, site' \in [Projects -> State],
         \A p \in Projects : site[p].n <= site'[p].n,
         calls' \in [PageRequests -> PageCall],
         \A q \in PageRequests :
           /\ Asks(calls'[q]) <=> Asks(calls[q])
           /\ Owned(calls'[q]) <=> Owned(calls[q])
           /\ calls'[q].kind = calls[q].kind
           /\ calls[q].kind # "free" => calls'[q].project = calls[q].project
           /\ Asks(calls[q]) => calls'[q].got = calls[q].got
           /\ Owned(calls[q]) => calls'[q].flag = calls[q].flag
  PROVE  PageInv'
<1>0. /\ PageTypes /\ page \in PageRecord /\ site \in [Projects -> State]
      /\ \A p \in Projects : site[p].n \in Nat /\ site'[p].n \in Nat
  BY DEF PageInv, PageTypes, State
<1>1. PageTypes' BY <1>0 DEF PageTypes
<1>2. \A q \in PageRequests : Asks(calls[q]) \/ Owned(calls[q]) => calls[q].kind # "free"
  BY DEF Asks, Owned
<1>3. AsksRight'
  <2>1. SUFFICES ASSUME NEW r \in PageRequests, Asks(calls'[r])
                 PROVE  /\ calls'[r].project = page.project
                        /\ calls'[r].kind = "list" => page.of = "none"
                        /\ calls'[r].got # Page!Waiting =>
                             page.seen <= calls'[r].got.n /\ calls'[r].got.n <= site'[page.project].n
                        /\ \A q \in PageRequests : Asks(calls'[q]) => q = r
    BY DEF AsksRight
  <2>2. Asks(calls[r]) BY <2>1
  <2>3. calls[r] \in ListCall \cup ReadCall
    BY <2>2, <1>0, CallKinds DEF PageTypes, Asks
  <2>4. calls[r].project \in Projects /\ (calls[r].got # Page!Waiting => calls[r].got.n \in Nat)
    BY <2>3 DEF ListCall, ReadCall, Got, State
  <2>5. calls[r].project = page.project BY <2>2 DEF PageInv, AsksRight
  <2>6. calls[r].got # Page!Waiting => calls[r].got.n <= site'[page.project].n
    <3>1. calls[r].got # Page!Waiting => calls[r].got.n <= site[page.project].n
      BY <2>2 DEF PageInv, AsksRight
    <3> QED BY <3>1, <2>4, <2>5, <1>0
  <2> QED BY <2>2, <2>5, <2>6, <1>2 DEF PageInv, AsksRight
<1>4. OwnedRight' BY <1>2 DEF PageInv, OwnedRight
<1>5. BusyRight' BY DEF PageInv, BusyRight
<1>6. ShownRight'
  <2>1. ASSUME page.project # "none"
        PROVE  page.seen <= site'[page.project].n /\ page.told <= site'[page.project].n
    <3>1. /\ page.project \in Projects /\ page.seen \in Int /\ page.told \in Int
          /\ page.seen <= site[page.project].n /\ page.told <= site[page.project].n
      BY <2>1, <1>0 DEF PageRecord, PageInv, ShownRight
    <3> QED BY <3>1, <1>0
  <2> QED BY <2>1 DEF PageInv, ShownRight, Page!PageIsOwn
<1>7. ToldRight' BY DEF PageInv, ToldRight
<1> QED BY <1>1, <1>3, <1>4, <1>5, <1>6, <1>7 DEF PageInv

(* Workers move a run on.                                                  *)
LEMMA ServerWorksKeeps == ASSUME PageInv, Page!ServerWorks PROVE PageInv'
<1>0. PageTypes /\ page' = page /\ calls' = calls BY DEF PageInv, Page!ServerWorks
<1>1. PICK p \in Projects, polled \in BOOLEAN :
        site' = [site EXCEPT ![p] = [n |-> site[p].n + 1, polled |-> polled]]
  BY DEF Page!ServerWorks
<1>2. site' \in [Projects -> State] /\ \A x \in Projects : site[x].n <= site'[x].n
  BY <1>0, <1>1 DEF PageTypes, State
<1> QED BY <1>0, <1>2, SameCalls DEF PageTypes

(* The server does an action, or fails.                                    *)
LEMMA ServeActionKeeps ==
  ASSUME PageInv, NEW r \in PageRequests, Page!ServeAction(r) PROVE PageInv'
<1>0. PageTypes /\ page' = page /\ calls[r].kind = "act" BY DEF PageInv, Page!ServeAction
<1>1. calls[r] \in ActCall /\ calls \in [PageRequests -> PageCall]
  BY <1>0, CallKinds DEF PageTypes
<1>2. calls[r].project \in Projects BY <1>1 DEF ActCall
<1>3. site' \in [Projects -> State] /\ \A x \in Projects : site[x].n <= site'[x].n
  <2>1. CASE site' = site BY <2>1, <1>0 DEF PageTypes, State
  <2>2. ASSUME NEW polled \in BOOLEAN,
               site' = [site EXCEPT ![calls[r].project] =
                          [n |-> site[calls[r].project].n + 1, polled |-> polled]]
        PROVE  site' \in [Projects -> State] /\ \A x \in Projects : site[x].n <= site'[x].n
    BY <2>2, <1>0, <1>2 DEF PageTypes, State
  <2>3. \/ site' = site
        \/ \E polled \in BOOLEAN :
             site' = [site EXCEPT ![calls[r].project] =
                        [n |-> site[calls[r].project].n + 1, polled |-> polled]]
    BY DEF Page!ServeAction
  <2> QED BY <2>1, <2>2, <2>3
<1>4. PICK done \in {"ok", "failed"} : calls' = [calls EXCEPT ![r] = [calls[r] EXCEPT !.done = done]]
  BY <1>1 DEF Page!ServeAction
<1>5. /\ calls'[r] \in ActCall /\ calls'[r].kind = "act" /\ calls'[r].owned = calls[r].owned
      /\ calls'[r].flag = calls[r].flag /\ calls'[r].project = calls[r].project
      /\ calls' \in [PageRequests -> PageCall]
      /\ \A q \in PageRequests \ {r} : calls'[q] = calls[q]
  BY <1>1, <1>4 DEF ActCall, PageCall
<1>6. ASSUME NEW q \in PageRequests
      PROVE  /\ Asks(calls'[q]) <=> Asks(calls[q])
             /\ Owned(calls'[q]) <=> Owned(calls[q])
             /\ calls'[q].kind = calls[q].kind
             /\ calls[q].kind # "free" => calls'[q].project = calls[q].project
             /\ Asks(calls[q]) => calls'[q].got = calls[q].got
             /\ Owned(calls[q]) => calls'[q].flag = calls[q].flag
  BY <1>5, <1>0 DEF Asks, Owned
<1> HIDE DEF PageInv
<1> QED BY <1>0, <1>3, <1>5, <1>6, SameCalls

(* A read is served with what the server has by then.                      *)
LEMMA ServeReadKeeps ==
  ASSUME PageInv, NEW r \in PageRequests, Page!ServeRead(r) PROVE PageInv'
<1>0. /\ PageTypes /\ page \in PageRecord /\ page' = page /\ site' = site
      /\ calls[r].kind \in {"list", "read"} /\ calls[r].got = Page!Waiting
      /\ calls \in [PageRequests -> PageCall] /\ site \in [Projects -> State]
  BY DEF PageInv, PageTypes, Page!ServeRead
<1> DEFINE got == site[calls[r].project]
<1>1. calls[r] \in ListCall \cup ReadCall /\ calls[r].project \in Projects
  <2>1. calls[r] \in ListCall \cup ReadCall BY <1>0, CallKinds
  <2> QED BY <2>1 DEF ListCall, ReadCall
<1>2. got \in State /\ got \in Got BY <1>0, <1>1 DEF Got
<1>3. calls' = [calls EXCEPT ![r] = [calls[r] EXCEPT !.got = got]]
  BY <1>0 DEF Page!ServeRead
<1>4. /\ \A q \in PageRequests \ {r} : calls'[q] = calls[q]
      /\ calls'[r] = [calls[r] EXCEPT !.got = got]
  BY <1>0, <1>3
<1> HIDE DEF got
<1>5. /\ calls'[r] \in PageCall /\ calls'[r].got = got /\ calls'[r].kind = calls[r].kind
      /\ calls'[r].project = calls[r].project /\ calls'[r].fresh = calls[r].fresh
      /\ Owned(calls'[r]) <=> Owned(calls[r])
      /\ Owned(calls[r]) => calls'[r].flag = calls[r].flag
  <2>1. CASE calls[r] \in ListCall
    BY <2>1, <1>2, <1>4 DEF ListCall, PageCall, Owned
  <2>2. CASE calls[r] \in ReadCall
    BY <2>2, <1>2, <1>4 DEF ReadCall, PageCall, Owned
  <2> QED BY <2>1, <2>2, <1>1
<1>6. Asks(calls'[r]) <=> Asks(calls[r]) BY <1>5 DEF Asks
<1>7. calls' \in [PageRequests -> PageCall] BY <1>0, <1>3, <1>5
<1>8. PageTypes' BY <1>0, <1>7 DEF PageTypes
<1>9. Asks(calls[r]) => /\ got = site[page.project] /\ page.project \in Projects
                        /\ page.seen <= got.n /\ page.told <= got.n /\ got.n \in Nat
  <2>1. SUFFICES ASSUME Asks(calls[r])
                 PROVE  /\ got = site[page.project] /\ page.project \in Projects
                        /\ page.seen <= got.n /\ page.told <= got.n /\ got.n \in Nat
    OBVIOUS
  <2>2. got = site[page.project] /\ page.project \in Projects
    BY <2>1, <1>1 DEF got, PageInv, AsksRight
  <2>3. page.project # "none" BY <2>2, PagesAssumption
  <2> QED BY <2>2, <2>3, <1>2 DEF PageInv, ShownRight, State
<1>10. AsksRight'
  <2>1. \A q \in PageRequests : Asks(calls'[q]) <=> Asks(calls[q]) BY <1>4, <1>6
  <2>2. ASSUME Asks(calls[r])
        PROVE  page.seen <= calls'[r].got.n /\ calls'[r].got.n <= site[page.project].n
    BY <2>2, <1>5, <1>9
  <2>3. ASSUME NEW q \in PageRequests, Asks(calls'[q])
        PROVE  /\ calls'[q].project = page.project
               /\ calls'[q].kind = "list" => page.of = "none"
               /\ calls'[q].got # Page!Waiting =>
                    page.seen <= calls'[q].got.n /\ calls'[q].got.n <= site[page.project].n
               /\ \A x \in PageRequests : Asks(calls'[x]) => x = q
    <3>1. Asks(calls[q]) /\ calls'[q].project = calls[q].project /\ calls'[q].kind = calls[q].kind
      BY <2>1, <2>3, <1>4, <1>5
    <3>2. CASE q = r BY <3>1, <3>2, <2>1, <2>2 DEF PageInv, AsksRight
    <3>3. CASE q # r
      <4>1. calls'[q] = calls[q] BY <3>3, <1>4
      <4> QED BY <4>1, <3>1, <2>1 DEF PageInv, AsksRight
    <3> QED BY <3>2, <3>3
  <2> QED BY <2>3, <1>0 DEF AsksRight
<1>15. \A q \in PageRequests :
         /\ Owned(calls'[q]) <=> Owned(calls[q])
         /\ Owned(calls[q]) => calls'[q].flag = calls[q].flag
                               /\ calls'[q].project = calls[q].project
  BY <1>4, <1>5
<1>11. OwnedRight' BY <1>15, <1>0 DEF PageInv, OwnedRight
<1>12. BusyRight'
  <2>1. \A f \in Flags : (\E q \in PageRequests : Owned(calls'[q]) /\ calls'[q].flag = f)
                       <=> (\E q \in PageRequests : Owned(calls[q]) /\ calls[q].flag = f)
    BY <1>15
  <2>2. BusyRight BY DEF PageInv
  <2> QED BY <2>1, <2>2, <1>0 DEF BusyRight
<1>13. ShownRight' BY <1>0 DEF PageInv, ShownRight, Page!PageIsOwn
<1>14. ToldRight'
  <2>1. Asks(calls[r]) => Asks(calls'[r]) /\ page'.told <= calls'[r].got.n BY <1>0, <1>5, <1>6, <1>9
  <2> QED BY <2>1, <1>0, <1>4 DEF PageInv, ToldRight
<1> QED BY <1>8, <1>10, <1>11, <1>12, <1>13, <1>14 DEF PageInv

(* A button is used only while it is on.                                   *)
LEMMA StartActionKeeps ==
  ASSUME PageInv, NEW r \in PageRequests, Page!StartAction(r) PROVE PageInv'
<1>0. /\ PageTypes /\ page \in PageRecord /\ site' = site /\ calls[r] = Page!Free
      /\ page.of = page.project /\ page.of # "none" /\ calls \in [PageRequests -> PageCall]
  BY DEF PageInv, PageTypes, Page!StartAction, Page!None
<1>1. PICK flag \in Flags \ page.busy :
        /\ calls' = [calls EXCEPT ![r] = Page!Act(flag)]
        /\ page' = [page EXCEPT !.busy = page.busy \cup {flag}]
  BY <1>0 DEF Page!StartAction, PageRecord
<1>2. /\ Page!Act(flag) \in ActCall /\ Page!Act(flag) \in PageCall /\ ~ Asks(Page!Act(flag))
      /\ Owned(Page!Act(flag)) /\ Page!Act(flag).flag = flag
      /\ Page!Act(flag).project = page.project
  BY <1>0 DEF Page!Act, Page!None, ActCall, PageCall, Asks, Owned, PageRecord
<1>3. ~ Asks(calls[r]) /\ ~ Owned(calls[r]) BY <1>0 DEF Page!Free, Asks, Owned
<1>4. /\ calls' \in [PageRequests -> PageCall] /\ calls'[r] = Page!Act(flag)
      /\ \A q \in PageRequests \ {r} : calls'[q] = calls[q]
  BY <1>0, <1>1, <1>2
<1>5. /\ page' \in PageRecord /\ page'.busy = page.busy \cup {flag}
      /\ page'.missed = page.missed /\ page'.timer = page.timer
      /\ page'.project = page.project /\ page'.told = page.told /\ page'.of = page.of
      /\ page'.shown = page.shown /\ page'.seen = page.seen
  BY <1>0, <1>1 DEF PageRecord
<1>6. PageTypes' BY <1>0, <1>4, <1>5 DEF PageTypes
<1>7. AsksRight' BY <1>0, <1>2, <1>4, <1>5 DEF PageInv, AsksRight
<1>8. OwnedRight'
  <2>1. \A q \in PageRequests : Owned(calls[q]) => calls[q].flag # flag
    BY <1>1 DEF PageInv, BusyRight
  <2> QED BY <2>1, <1>0, <1>2, <1>3, <1>4, <1>5 DEF PageInv, OwnedRight
<1>9. BusyRight' BY <1>2, <1>3, <1>4, <1>5 DEF PageInv, BusyRight
<1>10. ShownRight' BY <1>0, <1>5 DEF PageInv, ShownRight, Page!PageIsOwn
<1>11. ToldRight' BY <1>2, <1>3, <1>4, <1>5 DEF PageInv, ToldRight
<1> QED BY <1>6, <1>7, <1>8, <1>9, <1>10, <1>11 DEF PageInv

(* An action is answered: its second half begins, or it ends, at once or   *)
(* with the refresh that it sends.                                         *)
LEMMA ReceiveActionKeeps ==
  ASSUME PageInv, NEW r \in PageRequests, Page!ReceiveAction(r) PROVE PageInv'
<1> DEFINE c == calls[r]
           after == [page EXCEPT !.told = site[c.project].n]
<1>0. /\ PageTypes /\ page \in PageRecord /\ site' = site /\ c.kind = "act"
      /\ calls \in [PageRequests -> PageCall] /\ site \in [Projects -> State]
  BY DEF PageInv, PageTypes, Page!ReceiveAction
<1>1. c \in ActCall /\ c.project \in Projects
  <2>1. c \in ActCall BY <1>0, CallKinds
  <2> QED BY <2>1 DEF ActCall
<1>2. ~ Asks(c) /\ (Owned(c) <=> c.owned) BY <1>0 DEF Asks, Owned
<1>3. CASE /\ calls' = [calls EXCEPT ![r].left = 1, ![r].done = Page!None]
           /\ page' = page
  <2>1. calls' = [calls EXCEPT ![r] = [[c EXCEPT !.left = 1] EXCEPT !.done = "none"]]
    BY <1>0, <1>3 DEF Page!None
  <2>2. /\ calls'[r] \in ActCall /\ calls'[r].kind = "act" /\ calls'[r].owned = c.owned
        /\ calls'[r].flag = c.flag /\ calls'[r].project = c.project
        /\ calls' \in [PageRequests -> PageCall]
        /\ \A q \in PageRequests \ {r} : calls'[q] = calls[q]
    BY <1>0, <1>1, <2>1 DEF ActCall, PageCall
  <2>3. ASSUME NEW q \in PageRequests
        PROVE  /\ Asks(calls'[q]) <=> Asks(calls[q])
               /\ Owned(calls'[q]) <=> Owned(calls[q])
               /\ calls'[q].kind = calls[q].kind
               /\ calls[q].kind # "free" => calls'[q].project = calls[q].project
               /\ Asks(calls[q]) => calls'[q].got = calls[q].got
               /\ Owned(calls[q]) => calls'[q].flag = calls[q].flag
    BY <2>2, <1>0 DEF Asks, Owned
  <2>4. \A p \in Projects : site[p].n <= site'[p].n BY <1>0 DEF State
  <2> HIDE DEF PageInv
  <2> QED BY <1>0, <1>3, <2>2, <2>3, <2>4, SameCalls
<1>4. ASSUME Owned(c) PROVE c.project = page.project /\ page.of # "none" /\ page.project # "none"
  BY <1>4, <1>1, PagesAssumption DEF PageInv, OwnedRight
<1>5. /\ after \in PageRecord /\ DOMAIN after = DOMAIN page /\ after.told = site[c.project].n
      /\ \A f \in DOMAIN page \ {"told"} : after[f] = page[f]
  BY <1>0, <1>1 DEF PageRecord, State
<1>6. site[c.project].n \in Nat BY <1>0, <1>1 DEF State
<1> HIDE DEF after
<1>7. CASE /\ Owned(c) /\ page' = after
           /\ calls' = [Page!Stale(calls) EXCEPT ![r] = Page!Read(c.project, c.flag)]
  <2> DEFINE new == Page!Read(c.project, c.flag)
  <2>1. /\ new \in ReadCall /\ Asks(new) /\ Owned(new) /\ new.project = c.project
        /\ new.got = Page!Waiting /\ new.flag = c.flag /\ new.kind = "read"
    BY <1>1 DEF Page!Read, ReadCall, ActCall, Got, Asks, Owned
  <2> HIDE DEF new
  <2>2. /\ calls' \in [PageRequests -> PageCall] /\ calls'[r] = new
        /\ \A q \in PageRequests \ {r} :
             /\ ~ Asks(calls'[q]) /\ (Owned(calls'[q]) <=> Owned(calls[q]))
             /\ Owned(calls[q]) => calls'[q].flag = calls[q].flag
                                   /\ calls'[q].project = calls[q].project
    BY <1>4, <1>7, <2>1, SentCalls DEF new
  <2>3. /\ page'.project = page.project /\ page'.of = page.of /\ page'.shown = page.shown
        /\ page'.seen = page.seen /\ page'.busy = page.busy
        /\ page'.told = site[c.project].n
    BY <1>0, <1>5, <1>7 DEF PageRecord
  <2>4. PageTypes' BY <1>0, <1>5, <1>7, <2>2 DEF PageTypes
  <2>5. AsksRight' BY <1>4, <1>7, <2>1, <2>2, <2>3 DEF AsksRight
  <2>6. \A q \in PageRequests :
          /\ Owned(calls'[q]) <=> Owned(calls[q])
          /\ Owned(calls[q]) => calls'[q].flag = calls[q].flag
                                /\ calls'[q].project = calls[q].project
    BY <1>7, <2>1, <2>2
  <2>7. OwnedRight' /\ BusyRight' BY <2>3, <2>6 DEF PageInv, OwnedRight, BusyRight
  <2>8. ShownRight' BY <1>0, <1>4, <1>6, <1>7, <2>3 DEF PageInv, ShownRight, Page!PageIsOwn
  <2>9. ToldRight' BY <2>1, <2>2 DEF ToldRight
  <2> QED BY <2>4, <2>5, <2>7, <2>8, <2>9 DEF PageInv
<1>8. ASSUME calls' = [calls EXCEPT ![r] = Page!Free], NEW later \in BOOLEAN, later => Owned(c),
             page' = IF later THEN [Page!EndOfAction(after, c) EXCEPT !.timer = TRUE]
                     ELSE Page!EndOfAction(page, c)
      PROVE PageInv'
  <2> DEFINE p == IF later THEN after ELSE page
             e == Page!EndOfAction(p, c)
  <2>1. p \in PageRecord /\ DOMAIN p = DOMAIN page BY <1>0, <1>5
  <2>2. /\ e \in PageRecord /\ DOMAIN e = DOMAIN page
        /\ e.busy = IF Owned(c) THEN p.busy \ {c.flag} ELSE p.busy
        /\ \A f \in DOMAIN page \ {"busy"} : e[f] = p[f]
    <3> HIDE DEF p
    <3> QED BY <1>0, <2>1, EndOfActionIs
  <2>3. page' = IF later THEN [e EXCEPT !.timer = TRUE] ELSE e BY <1>8
  <2> HIDE DEF e
  <2>4. DOMAIN page = {"project", "shown", "of", "seen", "told", "busy", "timer", "missed"}
    BY <1>0 DEF PageRecord
  <2>5. /\ p.project = page.project /\ p.of = page.of /\ p.shown = page.shown
        /\ p.seen = page.seen /\ p.busy = page.busy /\ p.missed = page.missed
        /\ p.timer = page.timer /\ p.told = IF later THEN site[c.project].n ELSE page.told
    BY <1>5, <2>4
  <2> HIDE DEF p
  <2>6. /\ page' \in PageRecord
        /\ page'.timer = IF later THEN TRUE ELSE e.timer
        /\ \A f \in DOMAIN page \ {"timer"} : page'[f] = e[f]
    BY <2>2, <2>3, <2>4 DEF PageRecord
  <2>7. /\ page' \in PageRecord /\ page'.project = page.project /\ page'.of = page.of
        /\ page'.shown = page.shown /\ page'.seen = page.seen
        /\ page'.busy = IF Owned(c) THEN page.busy \ {c.flag} ELSE page.busy
        /\ page'.missed = page.missed
        /\ page'.told = IF later THEN site[c.project].n ELSE page.told
        /\ page'.timer = IF later THEN TRUE ELSE page.timer
    BY <2>2, <2>4, <2>5, <2>6
  <2>8. /\ calls' \in [PageRequests -> PageCall] /\ OwnedRight' /\ BusyRight'
        /\ ~ Asks(calls'[r]) /\ \A q \in PageRequests \ {r} : calls'[q] = calls[q]
    BY <1>8, <2>7, EndedCalls
  <2>9. PageTypes' BY <1>0, <2>7, <2>8 DEF PageTypes
  <2>10. AsksRight' BY <1>0, <2>7, <2>8 DEF PageInv, AsksRight
  <2>11. ShownRight'
    <3>1. CASE ~ later BY <3>1, <1>0, <2>7 DEF PageInv, ShownRight, Page!PageIsOwn
    <3>2. CASE later
      <4>1. page'.told = site[page.project].n /\ page.of # "none"
            /\ site[page.project].n \in Nat
        BY <3>2, <1>4, <1>6, <1>8, <2>7
      <4> QED BY <4>1, <1>0, <2>7 DEF PageInv, ShownRight, Page!PageIsOwn
    <3> QED BY <3>1, <3>2
  <2>12. ToldRight' BY <1>2, <2>7, <2>8 DEF PageInv, ToldRight
  <2> QED BY <2>8, <2>9, <2>10, <2>11, <2>12 DEF PageInv
<1>9. \/ /\ calls' = [calls EXCEPT ![r].left = 1, ![r].done = Page!None]
         /\ page' = page
      \/ /\ Owned(c) /\ page' = after
         /\ calls' = [Page!Stale(calls) EXCEPT ![r] = Page!Read(c.project, c.flag)]
      \/ /\ Owned(c) /\ page' = [Page!EndOfAction(after, c) EXCEPT !.timer = TRUE]
         /\ calls' = [calls EXCEPT ![r] = Page!Free]
      \/ /\ page' = Page!EndOfAction(page, c)
         /\ calls' = [calls EXCEPT ![r] = Page!Free]
  BY <1>2 DEF Page!ReceiveAction, after
<1>10. CASE /\ Owned(c) /\ page' = [Page!EndOfAction(after, c) EXCEPT !.timer = TRUE]
            /\ calls' = [calls EXCEPT ![r] = Page!Free]
  BY <1>8, <1>10
<1>11. CASE page' = Page!EndOfAction(page, c) /\ calls' = [calls EXCEPT ![r] = Page!Free]
  BY <1>8, <1>11
<1> QED BY <1>3, <1>7, <1>9, <1>10, <1>11

(* A page begins with no project.                                          *)
LEMMA PageBegins == Page!PageInit => PageInv
<1> SUFFICES ASSUME Page!PageInit PROVE PageInv OBVIOUS
<1>1. /\ site = [p \in Projects |-> [n |-> 0, polled |-> TRUE]]
      /\ page = Page!BlankPage("none") /\ calls = [r \in PageRequests |-> Page!Free]
  BY DEF Page!PageInit, Page!None
<1>2. \A r \in PageRequests : ~ Asks(calls[r]) /\ ~ Owned(calls[r])
  BY <1>1 DEF Asks, Owned, Page!Free
<1>3. PageTypes
  BY <1>1 DEF PageTypes, PageRecord, PageCall, State, Got, Page!BlankPage, Page!None
<1>4. AsksRight /\ OwnedRight BY <1>2 DEF AsksRight, OwnedRight
<1>5. BusyRight BY <1>1, <1>2 DEF BusyRight, Page!BlankPage
<1>6. ShownRight /\ ToldRight
  BY <1>1 DEF ShownRight, ToldRight, Page!PageIsOwn, Page!BlankPage, Page!Waiting, Page!None
<1> QED BY <1>3, <1>4, <1>5, <1>6 DEF PageInv

(* Every step of the page.                                                 *)
LEMMA PageKeeps == PageInv /\ Page!PageNext => PageInv'
BY OpenKeeps, RefreshKeeps, ReceiveListKeeps, ReceiveReadKeeps, ServeReadKeeps, LoseReadKeeps,
   StartActionKeeps, ServeActionKeeps, ReceiveActionKeeps, ServerWorksKeeps
   DEF Page!PageNext

(* What the page promises, from what holds.                                *)
LEMMA PagePromises == PageInv => Page!PageIsRight
<1> SUFFICES ASSUME PageInv PROVE Page!PageIsRight OBVIOUS
<1>1. Page!PageIsOwn BY DEF PageInv, ShownRight
<1>2. Page!BusyIsUnderWay
  <2>0. page.busy \subseteq Flags BY DEF PageInv, PageTypes, PageRecord
  <2>1. "none" \notin Flags BY PagesAssumption
  <2>2. ASSUME NEW r \in PageRequests, Owned(calls[r]), calls[r].flag # "none"
        PROVE  calls[r].flag \in Flags
    <3>1. calls[r] \in ReadCall \cup ActCall
      BY <2>2, CallKinds DEF PageInv, PageTypes, Owned
    <3> QED BY <3>1, <2>2 DEF ReadCall, ActCall
  <2> DEFINE named == {calls[r].flag : r \in {q \in PageRequests : Owned(calls[q])}} \ {"none"}
  <2>3. \A f \in page.busy : f \in named BY <2>0, <2>1 DEF PageInv, BusyRight
  <2>4. \A f \in named : f \in page.busy BY <2>2 DEF PageInv, BusyRight
  <2>5. page.busy = named BY <2>3, <2>4
  <2> QED BY <2>5 DEF Page!BusyIsUnderWay, Owned, Page!None
<1>3. Page!QuietPageIsCurrent
  <2>1. SUFFICES ASSUME \A r \in PageRequests : calls[r] = Page!Free, ~ page.timer, ~ page.missed
                 PROVE  page.shown.n >= page.told
    BY DEF Page!QuietPageIsCurrent
  <2>2. \A r \in PageRequests : ~ Asks(calls[r]) BY <2>1 DEF Page!Free, Asks
  <2>3. page.told <= page.seen /\ page.shown.n = page.seen
    BY <2>1, <2>2 DEF PageInv, ToldRight, ShownRight, Page!PageIsOwn
  <2>4. page.told \in Int /\ page.seen \in Int BY DEF PageInv, PageTypes, PageRecord
  <2> QED BY <2>3, <2>4
<1> QED BY <1>1, <1>2, <1>3 DEF Page!PageIsRight

-----------------------------------------------------------------------------
(* The plan.  A draft is what was typed last, and every version seen or    *)
(* under way is one the server has.                                        *)
Scenario == UNION {[scenes -> Values \cup {"model", "theirs"}] : scenes \in SUBSET PlannedScenes}
PlanCall ==
  {Plan!Free}
  \cup [kind : {"read"}, fresh : BOOLEAN, version : 0..Len(site)]
  \cup [kind : {"save"}, scene : PlannedScenes, value : Values, expected : Nat,
        version : -1..Len(site)]

PlanTypes ==
  /\ site \in Seq(Scenario) /\ Len(site) > 0
  /\ calls \in [PageRequests -> PlanCall]
  /\ DOMAIN plan = {"scenes", "drafts", "version", "typed", "kept", "stored"}
  /\ plan.drafts \in [PlannedScenes -> Values \cup {"none"}]
  /\ plan.typed \in [PlannedScenes -> Values \cup {"none"}]
  /\ plan.kept \in [PlannedScenes -> Values \cup {"none"}]
  /\ plan.version \in 0..Len(site) /\ plan.stored \in Nat

PlanInv ==
  /\ PlanTypes /\ Plan!PlanIsRight
  /\ \A s \in PlannedScenes : plan.drafts[s] # "none" => plan.drafts[s] = plan.typed[s]

(* Which request is which.                                                 *)
LEMMA PlanCallKinds ==
  ASSUME NEW c \in PlanCall
  PROVE  /\ c.kind \in {"free", "read", "save"}
         /\ c.kind = "read" => c \in [kind : {"read"}, fresh : BOOLEAN, version : 0..Len(site)]
         /\ c.kind = "save" => c \in [kind : {"save"}, scene : PlannedScenes, value : Values,
                                      expected : Nat, version : -1..Len(site)]
BY DEF PlanCall, Plan!Free

(* A request changes, or the server adds a version: what is shown stays.   *)
LEMMA PlanSame ==
  ASSUME PlanInv, site' = site, plan' = plan, calls' \in [PageRequests -> PlanCall]
  PROVE  PlanInv'
<1>1. PlanTypes' BY DEF PlanInv, PlanTypes, PlanCall
<1>2. Plan!PlanIsRight'
  BY DEF PlanInv, Plan!PlanIsRight, Plan!TypingIsKept, Plan!ShownIsServed
<1> QED BY <1>1, <1>2 DEF PlanInv

(* The server adds a version.                                              *)
LEMMA PlanGrows ==
  ASSUME PlanInv, NEW x \in Scenario, site' = Append(site, x), plan' = plan,
         calls' \in [PageRequests -> PlanCall']
  PROVE  PlanInv'
<1>1. site \in Seq(Scenario) /\ plan.version \in 0..Len(site) BY DEF PlanInv, PlanTypes
<1>2. /\ site' \in Seq(Scenario) /\ Len(site') > 0 /\ Len(site') = Len(site) + 1 /\ Len(site) \in Nat
      /\ \A i \in 1..Len(site) : site'[i] = site[i]
  BY <1>1
<1>3. plan.version \in 0..Len(site') BY <1>1, <1>2
<1>4. PlanTypes' BY <1>2, <1>3 DEF PlanInv, PlanTypes
<1>5. Plan!PlanIsRight'
  <2>1. plan.version > 0 => site'[plan.version] = site[plan.version] BY <1>1, <1>2
  <2> QED BY <2>1 DEF PlanInv, Plan!PlanIsRight, Plan!TypingIsKept, Plan!ShownIsServed
<1> QED BY <1>4, <1>5 DEF PlanInv

(* A version with one scene changed.                                       *)
LEMMA Edited ==
  ASSUME NEW x \in Scenario, NEW s \in DOMAIN x, NEW v \in Values \cup {"model", "theirs"}
  PROVE  [x EXCEPT ![s] = v] \in Scenario
<1>1. PICK scenes \in SUBSET PlannedScenes : x \in [scenes -> Values \cup {"model", "theirs"}]
  BY DEF Scenario
<1>2. [x EXCEPT ![s] = v] \in [scenes -> Values \cup {"model", "theirs"}] BY <1>1
<1> QED BY <1>2 DEF Scenario

(* Merging shows a version as the server has it, and none older.           *)
LEMMA Merged ==
  ASSUME PlanInv, NEW left, NEW version \in 1..Len(site)
  PROVE  LET p == Plan!MergePlan(left, version)
         IN  /\ DOMAIN p = DOMAIN plan /\ p.drafts = left /\ p.typed = plan.typed
             /\ p.kept = plan.kept /\ p.stored = plan.stored
             /\ p.version \in 0..Len(site) /\ p.version >= plan.version /\ p.version >= version
             /\ p.version > 0 =>
                  \A s \in DOMAIN site[p.version] : p.scenes[s] = site[p.version][s]
<1> DEFINE p == Plan!MergePlan(left, version)
           shown == [s \in DOMAIN site[version]
                           \cup {t \in DOMAIN plan.scenes : left[t] # "none"} |->
                       IF s \in DOMAIN site[version] THEN site[version][s] ELSE plan.scenes[s]]
<1>0. /\ DOMAIN plan = {"scenes", "drafts", "version", "typed", "kept", "stored"}
      /\ plan.version \in 0..Len(site) /\ site \in Seq(Scenario) /\ Len(site) \in Nat
  BY DEF PlanInv, PlanTypes
<1>1. CASE version < plan.version
  <2>1. p = [plan EXCEPT !.drafts = left] BY <1>1 DEF Plan!MergePlan, Plan!IsOlder
  <2>2. /\ DOMAIN p = DOMAIN plan /\ p.drafts = left /\ p.typed = plan.typed
        /\ p.kept = plan.kept /\ p.stored = plan.stored /\ p.version = plan.version
        /\ p.scenes = plan.scenes
    BY <2>1, <1>0
  <2> HIDE DEF p
  <2>3. plan.version > 0 => \A s \in DOMAIN site[plan.version] : plan.scenes[s] = site[plan.version][s]
    BY DEF PlanInv, Plan!PlanIsRight, Plan!ShownIsServed
  <2>4. p.version >= plan.version /\ p.version >= version BY <1>0, <1>1, <2>2
  <2> QED BY <2>2, <2>3, <2>4, <1>0 DEF p
<1>2. CASE ~ (version < plan.version)
  <2>1. p = [plan EXCEPT !.drafts = left, !.version = version, !.scenes = shown]
    BY <1>2 DEF Plan!MergePlan, Plan!IsOlder, Plan!None
  <2> HIDE DEF shown
  <2>2. /\ DOMAIN p = DOMAIN plan /\ p.drafts = left /\ p.typed = plan.typed
        /\ p.kept = plan.kept /\ p.stored = plan.stored /\ p.version = version
        /\ p.scenes = shown
    BY <2>1, <1>0
  <2> HIDE DEF p
  <2>3. \A s \in DOMAIN site[version] : shown[s] = site[version][s] BY DEF shown
  <2>4. p.version >= plan.version /\ p.version >= version /\ p.version \in 0..Len(site)
    BY <1>0, <1>2, <2>2
  <2> QED BY <2>2, <2>3, <2>4 DEF p
<1> QED BY <1>1, <1>2

(* A read that counts is merged under the drafts.                          *)
LEMMA ReceivePlanKeeps ==
  ASSUME PlanInv, NEW r \in PageRequests, Plan!ReceivePlan(r) PROVE PlanInv'
<1>1. /\ site' = site /\ calls[r].kind = "read" /\ calls[r].version > 0
      /\ calls' = [calls EXCEPT ![r] = Plan!Free]
      /\ plan' = IF calls[r].fresh THEN Plan!MergePlan(plan.drafts, calls[r].version) ELSE plan
  BY DEF Plan!ReceivePlan
<1>2. /\ calls \in [PageRequests -> PlanCall] /\ Plan!Free \in PlanCall
      /\ calls' \in [PageRequests -> PlanCall]
  BY <1>1 DEF PlanInv, PlanTypes, PlanCall
<1>3. CASE ~ calls[r].fresh BY <1>1, <1>2, <1>3, PlanSame
<1>4. CASE calls[r].fresh
  <2>1. calls[r].version \in 1..Len(site)
    <3>1. calls[r].version \in 0..Len(site) /\ Len(site) \in Nat
      BY <1>1, <1>2, PlanCallKinds DEF PlanInv, PlanTypes
    <3> QED BY <3>1, <1>1
  <2>2. /\ DOMAIN plan' = DOMAIN plan /\ plan'.drafts = plan.drafts /\ plan'.typed = plan.typed
        /\ plan'.kept = plan.kept /\ plan'.stored = plan.stored
        /\ plan'.version \in 0..Len(site) /\ plan'.version >= plan.version
        /\ plan'.version > 0 =>
             \A s \in DOMAIN site[plan'.version] : plan'.scenes[s] = site[plan'.version][s]
    BY <1>1, <1>4, <2>1, Merged
  <2>3. PlanTypes' BY <1>1, <1>2, <2>2 DEF PlanInv, PlanTypes, PlanCall
  <2>4. plan'.version >= plan'.stored
    BY <2>2 DEF PlanInv, PlanTypes, Plan!PlanIsRight, Plan!TypingIsKept
  <2>5. Plan!TypingIsKept'
    BY <2>2, <2>4 DEF PlanInv, Plan!PlanIsRight, Plan!TypingIsKept
  <2>6. Plan!ShownIsServed' BY <1>1, <2>2 DEF Plan!ShownIsServed
  <2> QED BY <2>2, <2>3, <2>5, <2>6 DEF PlanInv, Plan!PlanIsRight
<1> QED BY <1>3, <1>4

(* Sending and serving change no draft.                                    *)
LEMMA AskPlanKeeps ==
  ASSUME PlanInv, NEW r \in PageRequests,
         Plan!LoadPlan(r) \/ Plan!ServePlan(r) \/ \E s \in PlannedScenes : Plan!OnSaveScene(r, s)
  PROVE  PlanInv'
<1>0. /\ calls \in [PageRequests -> PlanCall] /\ Len(site) \in Nat
      /\ plan.version \in Nat /\ plan.drafts \in [PlannedScenes -> Values \cup {"none"}]
  BY DEF PlanInv, PlanTypes
<1>1. CASE Plan!LoadPlan(r)
  <2> DEFINE new == [kind |-> "read", fresh |-> TRUE, version |-> 0]
             old(c) == IF c.kind = "read" THEN [c EXCEPT !.fresh = FALSE] ELSE c
  <2>1. /\ site' = site /\ plan' = plan
        /\ calls' = [[q \in PageRequests |-> old(calls[q])] EXCEPT ![r] = new]
    BY <1>1 DEF Plan!LoadPlan, Plan!Send, Plan!Stale
  <2>2. new \in PlanCall BY <1>0 DEF PlanCall
  <2>3. ASSUME NEW c \in PlanCall PROVE old(c) \in PlanCall
    <3>1. CASE c.kind = "read"
      <4>1. c \in [kind : {"read"}, fresh : BOOLEAN, version : 0..Len(site)]
        BY <3>1, PlanCallKinds
      <4> QED BY <3>1, <4>1 DEF PlanCall
    <3> QED BY <3>1
  <2> HIDE DEF new, old
  <2>4. calls' \in [PageRequests -> PlanCall] BY <1>0, <2>1, <2>2, <2>3
  <2> QED BY <2>1, <2>4, PlanSame
<1>2. CASE Plan!ServePlan(r)
  <2>1. /\ site' = site /\ plan' = plan /\ calls[r].kind = "read"
        /\ calls' = [calls EXCEPT ![r] = [calls[r] EXCEPT !.version = Len(site)]]
    BY <1>2 DEF Plan!ServePlan, Plan!Current
  <2>2. [calls[r] EXCEPT !.version = Len(site)] \in PlanCall
    <3>1. calls[r] \in [kind : {"read"}, fresh : BOOLEAN, version : 0..Len(site)]
      BY <1>0, <2>1, PlanCallKinds
    <3> QED BY <1>0, <3>1 DEF PlanCall
  <2>3. calls' \in [PageRequests -> PlanCall] BY <1>0, <2>1, <2>2
  <2> QED BY <2>1, <2>3, PlanSame
<1>3. ASSUME NEW s \in PlannedScenes, Plan!OnSaveScene(r, s) PROVE PlanInv'
  <2> DEFINE new == [kind |-> "save", scene |-> s, value |-> plan.drafts[s],
                     expected |-> plan.version, version |-> 0]
  <2>1. /\ site' = site /\ plan' = plan /\ plan.drafts[s] # "none"
        /\ calls' = [calls EXCEPT ![r] = new]
    BY <1>3 DEF Plan!OnSaveScene, Plan!None
  <2>2. new \in PlanCall
    <3>1. plan.drafts[s] \in Values BY <1>0, <2>1
    <3> QED BY <1>0, <3>1 DEF PlanCall
  <2> HIDE DEF new
  <2>3. calls' \in [PageRequests -> PlanCall] BY <1>0, <2>1, <2>2
  <2> QED BY <2>1, <2>3, PlanSame
<1> QED BY <1>1, <1>2, <1>3

(* Types, when the server has a version more.                              *)
LEMMA PlanCallsGrow ==
  ASSUME PlanInv, Len(site') = Len(site) + 1 PROVE PlanCall \subseteq PlanCall'
<1>1. Len(site) \in Nat BY DEF PlanInv, PlanTypes
<1>2. 0..Len(site) \subseteq 0..Len(site') /\ -1..Len(site) \subseteq -1..Len(site') BY <1>1
<1>3. ASSUME NEW c \in PlanCall PROVE c \in PlanCall'
  <2>1. CASE c = Plan!Free BY <2>1 DEF PlanCall
  <2>2. CASE c \in [kind : {"read"}, fresh : BOOLEAN, version : 0..Len(site)]
    BY <2>2, <1>2 DEF PlanCall
  <2>3. CASE c \in [kind : {"save"}, scene : PlannedScenes, value : Values,
                    expected : Nat, version : -1..Len(site)]
    BY <2>3, <1>2 DEF PlanCall
  <2> QED BY <2>1, <2>2, <2>3 DEF PlanCall
<1> QED BY <1>3

(* A save is accepted against the newest version, or refused.              *)
LEMMA ServeSaveKeeps ==
  ASSUME PlanInv, NEW r \in PageRequests, Plan!ServeSave(r) PROVE PlanInv'
<1> DEFINE c == calls[r]
<1>0. /\ calls \in [PageRequests -> PlanCall] /\ site \in Seq(Scenario) /\ Len(site) \in Nat
      /\ c.kind = "save" /\ plan' = plan
  BY DEF PlanInv, PlanTypes, Plan!ServeSave
<1>1. c \in [kind : {"save"}, scene : PlannedScenes, value : Values,
             expected : Nat, version : -1..Len(site)]
  BY <1>0, PlanCallKinds
<1>2. CASE site' = site /\ calls' = [calls EXCEPT ![r].version = -1]
  <2>1. [c EXCEPT !.version = -1] \in PlanCall BY <1>0, <1>1 DEF PlanCall
  <2>2. calls' \in [PageRequests -> PlanCall] BY <1>0, <1>2, <2>1
  <2> QED BY <1>0, <1>2, <2>2, PlanSame
<1>3. ASSUME c.expected = Len(site), c.scene \in DOMAIN site[Len(site)],
             site' = Append(site, [site[Len(site)] EXCEPT ![c.scene] = c.value]),
             NEW answer \in {Len(site) + 1, -1},
             calls' = [calls EXCEPT ![r] = [c EXCEPT !.version = answer]]
      PROVE  PlanInv'
  <2> DEFINE x == [site[Len(site)] EXCEPT ![c.scene] = c.value]
  <2>1. x \in Scenario
    <3>1. Len(site) > 0 BY DEF PlanInv, PlanTypes
    <3>2. site[Len(site)] \in Scenario BY <1>0, <3>1
    <3>3. c.value \in Values BY <1>1
    <3> QED BY <1>3, <3>2, <3>3, Edited
  <2>2. Len(site') = Len(site) + 1 BY <1>0, <1>3, <2>1
  <2>3. [c EXCEPT !.version = answer] \in PlanCall'
    <3>1. answer \in -1..Len(site') BY <1>0, <2>2
    <3> QED BY <1>1, <3>1, <2>2, <1>0 DEF PlanCall
  <2>4. calls' \in [PageRequests -> PlanCall'] BY <1>0, <1>3, <2>2, <2>3, PlanCallsGrow
  <2> QED BY <1>0, <1>3, <2>1, <2>4, PlanGrows
<1>4. \/ site' = site /\ calls' = [calls EXCEPT ![r].version = -1]
      \/ /\ c.expected = Len(site) /\ c.scene \in DOMAIN site[Len(site)]
         /\ site' = Append(site, [site[Len(site)] EXCEPT ![c.scene] = c.value])
         /\ \E answer \in {Len(site) + 1, -1} :
              calls' = [calls EXCEPT ![r] = [c EXCEPT !.version = answer]]
  BY DEF Plan!ServeSave, Plan!Current
<1> QED BY <1>2, <1>3, <1>4

(* Somebody else saves.                                                    *)
LEMMA OthersSaveKeeps == ASSUME PlanInv, Plan!OthersSave PROVE PlanInv'
<1>0. /\ calls \in [PageRequests -> PlanCall] /\ site \in Seq(Scenario) /\ Len(site) \in Nat
      /\ Len(site) > 0 /\ plan' = plan /\ calls' = calls
  BY DEF PlanInv, PlanTypes, Plan!OthersSave
<1>1. PICK x \in Scenario : site' = Append(site, x)
  <2>1. PICK s \in PlannedScenes :
          \/ s \in DOMAIN site[Len(site)]
             /\ site' = Append(site, [site[Len(site)] EXCEPT ![s] = "theirs"])
          \/ site' = Append(site, [t \in {s} |-> "theirs"])
    BY DEF Plan!OthersSave, Plan!Current
  <2>2. site[Len(site)] \in Scenario BY <1>0
  <2>3. ASSUME s \in DOMAIN site[Len(site)]
        PROVE  [site[Len(site)] EXCEPT ![s] = "theirs"] \in Scenario
    BY <2>2, <2>3, Edited
  <2>4. [t \in {s} |-> "theirs"] \in Scenario
    <3>1. [t \in {s} |-> "theirs"] \in [{s} -> Values \cup {"model", "theirs"}] OBVIOUS
    <3>2. {s} \in SUBSET PlannedScenes OBVIOUS
    <3> QED BY <3>1, <3>2 DEF Scenario
  <2> QED BY <2>1, <2>3, <2>4
<1>2. Len(site') = Len(site) + 1 BY <1>0, <1>1
<1>3. calls' \in [PageRequests -> PlanCall'] BY <1>0, <1>2, PlanCallsGrow
<1> QED BY <1>0, <1>1, <1>3, PlanGrows

(* What is typed is a draft until a save of just that is answered.         *)
LEMMA TypeKeeps ==
  ASSUME PlanInv, NEW s \in PlannedScenes, NEW v \in Values, Plan!OnFieldChange(s, v)
  PROVE  PlanInv'
<1>0. /\ DOMAIN plan = {"scenes", "drafts", "version", "typed", "kept", "stored"}
      /\ plan.drafts \in [PlannedScenes -> Values \cup {"none"}]
      /\ plan.typed \in [PlannedScenes -> Values \cup {"none"}]
      /\ plan.kept \in [PlannedScenes -> Values \cup {"none"}]
  BY DEF PlanInv, PlanTypes
<1>1. /\ site' = site /\ calls' = calls
      /\ plan' = [plan EXCEPT !.drafts = [plan.drafts EXCEPT ![s] = v],
                              !.typed = [plan.typed EXCEPT ![s] = v],
                              !.kept = [plan.kept EXCEPT ![s] = "none"]]
  BY <1>0 DEF Plan!OnFieldChange, Plan!None
<1>2. /\ DOMAIN plan' = DOMAIN plan /\ plan'.scenes = plan.scenes
      /\ plan'.version = plan.version /\ plan'.stored = plan.stored
      /\ plan'.drafts = [plan.drafts EXCEPT ![s] = v]
      /\ plan'.typed = [plan.typed EXCEPT ![s] = v]
      /\ plan'.kept = [plan.kept EXCEPT ![s] = "none"]
  BY <1>0, <1>1
<1>3. PlanTypes' BY <1>0, <1>1, <1>2 DEF PlanInv, PlanTypes, PlanCall
<1>4. Plan!TypingIsKept'
  BY <1>0, <1>2 DEF PlanInv, Plan!PlanIsRight, Plan!TypingIsKept, Plan!None
<1>5. Plan!ShownIsServed' BY <1>1, <1>2 DEF PlanInv, Plan!PlanIsRight, Plan!ShownIsServed
<1>6. \A t \in PlannedScenes : plan'.drafts[t] # "none" => plan'.drafts[t] = plan'.typed[t]
  BY <1>0, <1>2 DEF PlanInv
<1> QED BY <1>3, <1>4, <1>5, <1>6 DEF PlanInv, Plan!PlanIsRight

(* What was saved and not typed over is no longer a draft.                 *)
LEMMA ReceiveSaveKeeps ==
  ASSUME PlanInv, NEW r \in PageRequests, Plan!ReceiveSave(r) PROVE PlanInv'
<1> DEFINE c == calls[r]
           mine == plan.drafts[c.scene] = c.value
           left == IF mine THEN [plan.drafts EXCEPT ![c.scene] = "none"] ELSE plan.drafts
           p == Plan!MergePlan(left, c.version)
<1>0. /\ DOMAIN plan = {"scenes", "drafts", "version", "typed", "kept", "stored"}
      /\ plan.drafts \in [PlannedScenes -> Values \cup {"none"}]
      /\ plan.typed \in [PlannedScenes -> Values \cup {"none"}]
      /\ plan.kept \in [PlannedScenes -> Values \cup {"none"}]
      /\ calls \in [PageRequests -> PlanCall] /\ Len(site) \in Nat
      /\ plan.version \in Nat /\ plan.stored \in Nat /\ plan.version >= plan.stored
      /\ site' = site /\ c.kind = "save" /\ c.version # 0
      /\ calls' = [calls EXCEPT ![r] = Plan!Free]
  BY DEF PlanInv, PlanTypes, Plan!ReceiveSave, Plan!PlanIsRight, Plan!TypingIsKept
<1>1. c.scene \in PlannedScenes /\ c.value \in Values /\ c.version \in -1..Len(site)
      /\ c.value # "none"
  <2>1. c \in [kind : {"save"}, scene : PlannedScenes, value : Values,
               expected : Nat, version : -1..Len(site)]
    BY <1>0, PlanCallKinds
  <2> QED BY <2>1, PagesAssumption
<1>2. calls' \in [PageRequests -> PlanCall] BY <1>0 DEF PlanCall
<1>3. CASE c.version < 0
  <2>1. plan' = plan BY <1>3 DEF Plan!ReceiveSave
  <2> QED BY <1>0, <1>2, <2>1, PlanSame
<1>4. CASE ~ (c.version < 0)
  <2>1. c.version \in 1..Len(site) BY <1>0, <1>1, <1>4
  <2>2. /\ DOMAIN p = DOMAIN plan /\ p.drafts = left /\ p.typed = plan.typed
        /\ p.kept = plan.kept /\ p.stored = plan.stored
        /\ p.version \in 0..Len(site) /\ p.version >= plan.version /\ p.version >= c.version
        /\ p.version > 0 =>
             \A s \in DOMAIN site[p.version] : p.scenes[s] = site[p.version][s]
    <3> HIDE DEF left
    <3> QED BY <2>1, Merged
  <2> DEFINE keeps == [plan.kept EXCEPT ![c.scene] = IF mine THEN c.value ELSE plan.kept[c.scene]]
             stores == IF c.version > plan.stored THEN c.version ELSE plan.stored
  <2>3. plan' = [p EXCEPT !.kept[c.scene] = IF mine THEN c.value ELSE @,
                          !.stored = IF c.version > @ THEN c.version ELSE @]
    BY <1>4 DEF Plan!ReceiveSave, Plan!None
  <2> HIDE DEF p, left
  <2>4. plan' = [p EXCEPT !.kept = keeps, !.stored = stores] BY <2>2, <2>3, <1>0
  <2>5. /\ DOMAIN plan' = DOMAIN plan /\ plan'.drafts = left /\ plan'.typed = plan.typed
        /\ plan'.kept = keeps /\ plan'.stored = stores
        /\ plan'.version = p.version /\ plan'.scenes = p.scenes
    BY <2>2, <2>4, <1>0
  <2>6. left \in [PlannedScenes -> Values \cup {"none"}] /\ keeps \in [PlannedScenes -> Values \cup {"none"}]
        /\ stores \in Nat /\ plan'.version >= stores
    BY <1>0, <1>1, <2>1, <2>2, <2>5 DEF left
  <2>7. PlanTypes' BY <1>0, <1>2, <2>2, <2>5, <2>6 DEF PlanInv, PlanTypes, PlanCall
  <2>8. ASSUME NEW s \in PlannedScenes
        PROVE  /\ plan.typed[s] # "none" => plan.typed[s] \in {left[s], keeps[s]}
               /\ left[s] # "none" => left[s] = plan.typed[s]
    <3>1. /\ plan.typed[s] # "none" => plan.typed[s] \in {plan.drafts[s], plan.kept[s]}
          /\ plan.drafts[s] # "none" => plan.drafts[s] = plan.typed[s]
      BY DEF PlanInv, Plan!PlanIsRight, Plan!TypingIsKept, Plan!None
    <3>2. CASE mine /\ s = c.scene
      <4>1. left[s] = "none" /\ keeps[s] = c.value BY <3>2, <1>0, <1>1 DEF left
      <4>2. plan.typed[s] = c.value BY <3>1, <3>2, <1>1
      <4> QED BY <4>1, <4>2
    <3>3. CASE ~ (mine /\ s = c.scene)
      <4>1. left[s] = plan.drafts[s] /\ keeps[s] = plan.kept[s] BY <3>3, <1>0, <1>1 DEF left
      <4> QED BY <4>1, <3>1
    <3> QED BY <3>2, <3>3
  <2>9. Plan!TypingIsKept' BY <2>5, <2>6, <2>8 DEF Plan!TypingIsKept, Plan!None
  <2>10. Plan!ShownIsServed' BY <1>0, <2>2, <2>5 DEF Plan!ShownIsServed
  <2> QED BY <2>5, <2>7, <2>8, <2>9, <2>10 DEF PlanInv, Plan!PlanIsRight
<1> QED BY <1>3, <1>4

(* A blank plan loses nothing.                                             *)
LEMMA BlankIsRight ==
  ASSUME site \in Seq(Scenario), Len(site) > 0, plan = Plan!BlankPlan,
         calls = [r \in PageRequests |-> Plan!Free]
  PROVE  PlanInv
<1>1. /\ DOMAIN plan = {"scenes", "drafts", "version", "typed", "kept", "stored"}
      /\ plan.drafts = [s \in PlannedScenes |-> "none"] /\ plan.typed = [s \in PlannedScenes |-> "none"]
      /\ plan.kept = [s \in PlannedScenes |-> "none"] /\ plan.version = 0 /\ plan.stored = 0
  BY DEF Plan!BlankPlan, Plan!None
<1>2. Len(site) \in Nat OBVIOUS
<1>3. PlanTypes BY <1>1, <1>2 DEF PlanTypes, PlanCall
<1>4. Plan!PlanIsRight
  BY <1>1 DEF Plan!PlanIsRight, Plan!TypingIsKept, Plan!ShownIsServed, Plan!None
<1> QED BY <1>1, <1>3, <1>4 DEF PlanInv

(* The plan begins blank.                                                  *)
LEMMA PlanBegins == Plan!PlanInit => PlanInv
<1> SUFFICES ASSUME Plan!PlanInit PROVE PlanInv OBVIOUS
<1>1. /\ site = <<[s \in PlannedScenes |-> "model"]>> /\ plan = Plan!BlankPlan
      /\ calls = [r \in PageRequests |-> Plan!Free]
  BY DEF Plan!PlanInit
<1>2. [s \in PlannedScenes |-> "model"] \in Scenario
  <2>1. [s \in PlannedScenes |-> "model"] \in [PlannedScenes -> Values \cup {"model", "theirs"}] OBVIOUS
  <2> QED BY <2>1 DEF Scenario
<1>3. site \in Seq(Scenario) /\ Len(site) > 0
  <2> DEFINE x == [s \in PlannedScenes |-> "model"]
  <2>1. x \in Scenario /\ site = <<x>> BY <1>1, <1>2
  <2> HIDE DEF x
  <2> QED BY <2>1
<1> QED BY <1>1, <1>3, BlankIsRight

(* Leaving the plan forgets what was typed and every request.              *)
LEMMA LeavePlanKeeps == ASSUME PlanInv, Plan!LeavePlan PROVE PlanInv'
<1>1. /\ site' \in Seq(Scenario) /\ Len(site') > 0 /\ plan' = Plan!BlankPlan
      /\ calls' = [r \in PageRequests |-> Plan!Free] /\ site' = site
  BY DEF PlanInv, PlanTypes, Plan!LeavePlan
<1>2. /\ DOMAIN plan' = {"scenes", "drafts", "version", "typed", "kept", "stored"}
      /\ plan'.drafts = [s \in PlannedScenes |-> "none"] /\ plan'.typed = [s \in PlannedScenes |-> "none"]
      /\ plan'.kept = [s \in PlannedScenes |-> "none"] /\ plan'.version = 0 /\ plan'.stored = 0
  BY <1>1 DEF Plan!BlankPlan, Plan!None
<1>3. Len(site') \in Nat BY <1>1
<1>4. PlanTypes' BY <1>1, <1>2, <1>3 DEF PlanTypes, PlanCall
<1>5. Plan!PlanIsRight'
  BY <1>2 DEF Plan!PlanIsRight, Plan!TypingIsKept, Plan!ShownIsServed, Plan!None
<1> QED BY <1>2, <1>4, <1>5 DEF PlanInv

(* Every step of the plan.                                                 *)
LEMMA PlanKeeps == PlanInv /\ Plan!PlanNext => PlanInv'
BY AskPlanKeeps, ReceivePlanKeeps, ServeSaveKeeps, ReceiveSaveKeeps, TypeKeeps, OthersSaveKeeps,
   LeavePlanKeeps
   DEF Plan!PlanNext

-----------------------------------------------------------------------------
(* The storyboard.  The read that counts is of the run that is open and    *)
(* brings what the server has had since; one bulk request counts.          *)
Board == [has : [BoardScenes -> SUBSET Media], work : [BoardScenes -> Media \cup {"none"}], n : Nat]
BoardRead == [kind : {"read"}, run : Projects, fresh : BOOLEAN, got : Board \cup {<<>>}]
BoardWork == [kind : Media, run : Projects, fresh : BOOLEAN, scenes : SUBSET BoardScenes,
              bulk : BOOLEAN, done : {"none", "ok", "failed"}]
BoardCall == {Page!Free} \cup BoardRead \cup BoardWork

BoardTypes ==
  /\ site \in [Projects -> Board]
  /\ calls \in [PageRequests -> BoardCall]
  /\ DOMAIN page = {"run", "of", "n", "seen", "has", "work", "bulk"}
  /\ page.run \in Projects \cup {"none"} /\ page.seen \in Nat \cup {-1} /\ page.bulk \in BOOLEAN

Reading(c) == c.kind = "read" /\ c.fresh
Bulk(c) == c.kind \in Media /\ c.bulk /\ c.fresh

(* What holds of the page and of the requests that count, apart.           *)
BoardShown ==
  /\ page.of \in {"none", page.run} /\ page.n = page.seen
  /\ DOMAIN page.has \subseteq BoardScenes
  /\ \A s \in DOMAIN page.has : page.has[s] \subseteq site[page.run].has[s]
  /\ page.run = "none" => DOMAIN page.has = {} /\ page.seen = -1
  /\ page.run # "none" => page.seen <= site[page.run].n

BoardReads ==
  \A r \in PageRequests : Reading(calls[r]) =>
    /\ calls[r].run = page.run
    /\ \A q \in PageRequests : Reading(calls[q]) => q = r
    /\ calls[r].got # <<>> =>
         /\ page.seen <= calls[r].got.n /\ calls[r].got.n <= site[page.run].n
         /\ \A s \in BoardScenes : calls[r].got.has[s] \subseteq site[page.run].has[s]

BoardBulk ==
  /\ page.bulk = \E r \in PageRequests : Bulk(calls[r])
  /\ \A r, q \in PageRequests : Bulk(calls[r]) /\ Bulk(calls[q]) => q = r

BoardInv == BoardTypes /\ BoardShown /\ BoardReads /\ BoardBulk

(* Which request is which.                                                 *)
LEMMA BoardCallKinds ==
  ASSUME NEW c \in BoardCall
  PROVE  /\ c.kind \in {"free", "read"} \cup Media /\ {"free", "read"} \cap Media = {}
         /\ c = Page!Free <=> c.kind = "free"
         /\ c.kind = "read" => c \in BoardRead
         /\ c.kind \in Media => c \in BoardWork
<1>1. {"free", "read"} \cap Media = {} BY PagesAssumption
<1> QED BY <1>1 DEF BoardCall, BoardRead, BoardWork, Page!Free

(* A request that is set aside does not count any more.                    *)
LEMMA OlderBoardCall ==
  ASSUME NEW c \in BoardCall
  PROVE  /\ c # Page!Free => /\ [c EXCEPT !.fresh = FALSE] \in BoardCall
                             /\ ~ Reading([c EXCEPT !.fresh = FALSE])
                             /\ ~ Bulk([c EXCEPT !.fresh = FALSE])
         /\ c.kind # "read" => ~ Reading(c)
         /\ c.kind = "read" => ~ Bulk([c EXCEPT !.fresh = FALSE]) /\ ~ Bulk(c)
         /\ c = Page!Free => ~ Reading(c) /\ ~ Bulk(c)
<1>1. CASE c.kind = "read"
  <2>1. c \in BoardRead /\ "read" \notin Media BY <1>1, BoardCallKinds
  <2> QED BY <1>1, <2>1, BoardCallKinds DEF BoardRead, BoardCall, Reading, Bulk
<1>2. CASE c.kind \in Media
  <2>1. c \in BoardWork /\ c.kind # "read" BY <1>2, BoardCallKinds
  <2>2. c.kind # "free" /\ "fresh" \in DOMAIN c BY <1>2, <2>1, BoardCallKinds DEF BoardWork
  <2> DEFINE d == [c EXCEPT !.fresh = FALSE]
  <2>3. d \in BoardWork /\ d.fresh = FALSE BY <2>1, <2>2 DEF BoardWork
  <2> HIDE DEF d
  <2>4. d \in BoardCall /\ ~ Reading(d) /\ ~ Bulk(d) BY <2>3 DEF BoardCall, Reading, Bulk
  <2>5. c # Page!Free /\ ~ Reading(c) BY <2>1, <2>2, BoardCallKinds DEF Reading
  <2> QED BY <2>1, <2>4, <2>5 DEF d
<1>3. CASE c.kind = "free" BY <1>3, BoardCallKinds DEF Reading, Bulk
<1> QED BY <1>1, <1>2, <1>3, BoardCallKinds

(* What the storyboard promises, from what holds.                          *)
LEMMA BoardPromises == BoardInv => Page!BoardIsRight
BY DEF BoardInv, BoardShown, BoardBulk, Bulk, Page!BoardIsRight, Page!None

(* The storyboard begins with no run.                                      *)
LEMMA BoardBegins == Page!BoardInit => BoardInv
<1> SUFFICES ASSUME Page!BoardInit PROVE BoardInv OBVIOUS
<1>1. /\ site = [run \in Projects |-> Page!Anew] /\ calls = [r \in PageRequests |-> Page!Free]
      /\ DOMAIN page = {"run", "of", "n", "seen", "has", "work", "bulk"}
      /\ page.run = "none" /\ page.of = "none" /\ page.n = -1 /\ page.seen = -1
      /\ page.has = <<>> /\ page.bulk = FALSE
  BY DEF Page!BoardInit, Page!BlankBoard, Page!None
<1>2. Page!Anew \in Board BY DEF Page!Anew, Board, Page!None
<1>3. Page!Free \in BoardCall /\ ~ Reading(Page!Free) /\ ~ Bulk(Page!Free)
  <2>1. Page!Free \in BoardCall BY DEF BoardCall
  <2> QED BY <2>1, OlderBoardCall
<1>4. BoardTypes BY <1>1, <1>2, <1>3 DEF BoardTypes
<1>5. BoardShown
  <2>1. DOMAIN page.has = {} BY <1>1
  <2> QED BY <1>1, <2>1 DEF BoardShown
<1>6. BoardReads BY <1>1, <1>3 DEF BoardReads
<1>7. BoardBulk
  <2>1. \A r \in PageRequests : ~ Bulk(calls[r]) BY <1>1, <1>3
  <2> QED BY <1>1, <2>1 DEF BoardBulk
<1> QED BY <1>4, <1>5, <1>6, <1>7 DEF BoardInv

(* Another run is opened: only its read counts.                            *)
LEMMA OpenBoardKeeps ==
  ASSUME BoardInv, NEW r \in PageRequests, NEW run \in Projects, Page!OpenBoard(run, r)
  PROVE  BoardInv'
<1> DEFINE new == Page!ReadOf(run)
<1>1. /\ site' = site /\ page' = Page!BlankBoard(run)
      /\ calls' = [[q \in PageRequests |-> IF calls[q] = Page!Free THEN Page!Free
                                           ELSE [calls[q] EXCEPT !.fresh = FALSE]] EXCEPT ![r] = new]
  BY DEF Page!OpenBoard, Page!Everything
<1>2. /\ new \in BoardRead /\ new \in BoardCall /\ Reading(new) /\ ~ Bulk(new) /\ new.run = run
      /\ new.got = <<>>
  <2>1. new \in BoardRead /\ new \in BoardCall /\ new.kind = "read"
    BY DEF Page!ReadOf, BoardRead, BoardCall
  <2> QED BY <2>1, OlderBoardCall DEF Page!ReadOf, Reading
<1> HIDE DEF new
<1>3. \A q \in PageRequests : calls[q] \in BoardCall BY DEF BoardInv, BoardTypes
<1>4. ASSUME NEW q \in PageRequests, q # r
      PROVE  calls'[q] \in BoardCall /\ ~ Reading(calls'[q]) /\ ~ Bulk(calls'[q])
  <2>1. calls'[q] = IF calls[q] = Page!Free THEN Page!Free ELSE [calls[q] EXCEPT !.fresh = FALSE]
    BY <1>1, <1>4
  <2> QED BY <2>1, <1>3, OlderBoardCall
<1>5. calls'[r] = new BY <1>1
<1>6. calls' \in [PageRequests -> BoardCall] BY <1>1, <1>2, <1>4, <1>5
<1>7. /\ DOMAIN page' = {"run", "of", "n", "seen", "has", "work", "bulk"}
      /\ page'.run = run /\ page'.of = "none" /\ page'.n = -1 /\ page'.seen = -1
      /\ page'.has = <<>> /\ page'.bulk = FALSE
  BY <1>1 DEF Page!BlankBoard, Page!None
<1>8. run # "none" /\ site[run].n \in Nat BY PagesAssumption DEF BoardInv, BoardTypes, Board
<1>9. BoardTypes' BY <1>1, <1>6, <1>7 DEF BoardInv, BoardTypes
<1>10. BoardShown' BY <1>1, <1>7, <1>8 DEF BoardShown
<1>11. BoardReads' BY <1>2, <1>4, <1>5, <1>7 DEF BoardReads
<1>12. BoardBulk' BY <1>2, <1>4, <1>5, <1>7 DEF BoardBulk
<1> QED BY <1>9, <1>10, <1>11, <1>12 DEF BoardInv

(* A newer read is the one that counts.                                    *)
LEMMA LoadBoardKeeps ==
  ASSUME BoardInv, NEW r \in PageRequests, Page!LoadStoryboard(r) PROVE BoardInv'
<1> DEFINE new == Page!ReadOf(page.run)
           old(c) == IF c.kind = "read" THEN [c EXCEPT !.fresh = FALSE] ELSE c
<1>1. /\ site' = site /\ page' = page /\ page.run # "none" /\ calls[r] = Page!Free
      /\ calls' = [[q \in PageRequests |-> old(calls[q])] EXCEPT ![r] = new]
  BY DEF Page!LoadStoryboard, Page!Send, Page!Stale, Page!None
<1>2. /\ new \in BoardCall /\ Reading(new) /\ ~ Bulk(new) /\ new.run = page.run /\ new.got = <<>>
  <2>0. page.run \in Projects BY <1>1 DEF BoardInv, BoardTypes
  <2>1. new \in BoardCall /\ new.kind = "read"
    BY <2>0 DEF Page!ReadOf, BoardRead, BoardCall
  <2> QED BY <2>1, OlderBoardCall DEF Page!ReadOf, Reading
<1> HIDE DEF new
<1>3. \A q \in PageRequests : calls[q] \in BoardCall BY DEF BoardInv, BoardTypes
<1>4. ASSUME NEW q \in PageRequests, q # r
      PROVE  /\ calls'[q] \in BoardCall /\ ~ Reading(calls'[q])
             /\ Bulk(calls'[q]) <=> Bulk(calls[q])
  <2>1. calls'[q] = old(calls[q]) BY <1>1, <1>4
  <2>2. CASE calls[q].kind = "read"
    <3>1. calls[q] # Page!Free BY <2>2 DEF Page!Free
    <3> QED BY <2>1, <2>2, <3>1, <1>3, OlderBoardCall
  <2>3. CASE calls[q].kind # "read" BY <2>1, <2>3, <1>3, OlderBoardCall
  <2> QED BY <2>2, <2>3
<1> HIDE DEF old
<1>5. calls'[r] = new /\ ~ Bulk(calls[r]) BY <1>1, <1>3, OlderBoardCall
<1>6. calls' \in [PageRequests -> BoardCall] BY <1>1, <1>2, <1>4, <1>5
<1>7. BoardTypes' BY <1>1, <1>6 DEF BoardInv, BoardTypes
<1>8. BoardShown' BY <1>1 DEF BoardInv, BoardShown
<1>9. BoardReads' BY <1>1, <1>2, <1>4, <1>5 DEF BoardReads
<1>10. BoardBulk' BY <1>1, <1>2, <1>4, <1>5 DEF BoardInv, BoardBulk
<1> QED BY <1>7, <1>8, <1>9, <1>10 DEF BoardInv

(* The server has more, and no request changes what it is.                 *)
LEMMA BoardGrows ==
  ASSUME BoardInv, page' = page, site' \in [Projects -> Board],
         calls' \in [PageRequests -> BoardCall],
         \A run \in Projects : /\ site[run].n <= site'[run].n
                               /\ \A s \in BoardScenes : site[run].has[s] \subseteq site'[run].has[s],
         \A q \in PageRequests :
           /\ Reading(calls'[q]) <=> Reading(calls[q])
           /\ Bulk(calls'[q]) <=> Bulk(calls[q])
           /\ Reading(calls[q]) => calls'[q].run = calls[q].run /\ calls'[q].got = calls[q].got
  PROVE  BoardInv'
<1>0. BoardTypes /\ BoardShown /\ BoardReads /\ BoardBulk BY DEF BoardInv
<1>1. \A run \in Projects : site[run].n \in Nat /\ site'[run].n \in Nat
  BY <1>0 DEF BoardTypes, Board
<1>2. BoardTypes' BY <1>0 DEF BoardTypes
<1>3. page.run # "none" => page.run \in Projects /\ page.seen \in Int BY <1>0 DEF BoardTypes
<1>4. BoardShown'
  <2>1. page.run # "none" => page.seen <= site'[page.run].n
    BY <1>0, <1>1, <1>3 DEF BoardShown
  <2>2. \A s \in DOMAIN page.has : page.has[s] \subseteq site'[page.run].has[s]
    BY <1>0, <1>3 DEF BoardShown
  <2> QED BY <1>0, <2>1, <2>2 DEF BoardShown
<1>5. ASSUME NEW r \in PageRequests, Reading(calls'[r])
      PROVE  /\ calls'[r].run = page'.run
             /\ \A q \in PageRequests : Reading(calls'[q]) => q = r
             /\ calls'[r].got # <<>> =>
                  /\ page'.seen <= calls'[r].got.n /\ calls'[r].got.n <= site'[page'.run].n
                  /\ \A s \in BoardScenes : calls'[r].got.has[s] \subseteq site'[page'.run].has[s]
  <2>1. Reading(calls[r]) /\ calls'[r].run = calls[r].run /\ calls'[r].got = calls[r].got
    BY <1>5
  <2>2. calls[r] \in BoardRead /\ calls[r].run = page.run
    BY <1>0, <2>1, BoardCallKinds DEF BoardTypes, BoardReads, Reading
  <2>3. page.run \in Projects BY <2>2 DEF BoardRead
  <2>4. calls[r].got # <<>> => calls[r].got.n \in Nat BY <2>2 DEF BoardRead, Board
  <2>5. calls[r].got # <<>> =>
          /\ page.seen <= calls[r].got.n /\ calls[r].got.n <= site[page.run].n
          /\ \A s \in BoardScenes : calls[r].got.has[s] \subseteq site[page.run].has[s]
    BY <1>0, <2>1 DEF BoardReads
  <2>6. calls[r].got # <<>> => calls[r].got.n <= site'[page.run].n
    BY <1>1, <2>3, <2>4, <2>5
  <2>7. calls[r].got # <<>> =>
          \A s \in BoardScenes : calls[r].got.has[s] \subseteq site'[page.run].has[s]
    BY <2>3, <2>5
  <2>8. \A q \in PageRequests : Reading(calls'[q]) => q = r BY <1>0, <2>1 DEF BoardReads
  <2> QED BY <2>1, <2>2, <2>5, <2>6, <2>7, <2>8
<1>6. BoardReads' BY <1>5 DEF BoardReads
<1>7. BoardBulk' BY <1>0 DEF BoardBulk
<1> QED BY <1>2, <1>4, <1>6, <1>7 DEF BoardInv

(* A scene's work ends, with or without its medium.                        *)
LEMMA WorkEndsKeeps == ASSUME BoardInv, Page!WorkEnds PROVE BoardInv'
<1>0. page' = page /\ calls' = calls /\ site \in [Projects -> Board]
      /\ calls' \in [PageRequests -> BoardCall]
  BY DEF Page!WorkEnds, BoardInv, BoardTypes
<1>1. PICK run \in Projects, s \in BoardScenes : \E got \in {{}, {site[run].work[s]}} :
        /\ site[run].work[s] # "none"
        /\ site' = [site EXCEPT ![run] = [site[run] EXCEPT !.n = @ + 1, !.work[s] = "none",
                                                           !.has[s] = @ \cup got]]
  BY DEF Page!WorkEnds, Page!None
<1>9. PICK got \in {{}, {site[run].work[s]}} :
        /\ site[run].work[s] # "none"
        /\ site' = [site EXCEPT ![run] = [site[run] EXCEPT !.n = @ + 1, !.work[s] = "none",
                                                           !.has[s] = @ \cup got]]
  BY <1>1
<1> DEFINE was == site[run]
           next == [was EXCEPT !.n = @ + 1, !.work[s] = "none", !.has[s] = @ \cup got]
<1>2. was \in Board BY <1>0
<1>3. was.n \in Nat /\ was.has \in [BoardScenes -> SUBSET Media] /\ got \subseteq Media
      /\ was.work \in [BoardScenes -> Media \cup {"none"}]
  BY <1>9, <1>2 DEF Board
<1>4. next = [was EXCEPT !.n = was.n + 1, !.work = [was.work EXCEPT ![s] = "none"],
                         !.has = [was.has EXCEPT ![s] = was.has[s] \cup got]]
  BY <1>2 DEF Board
<1> HIDE DEF next
<1>5. /\ next \in Board /\ next.n = was.n + 1
      /\ next.has = [was.has EXCEPT ![s] = was.has[s] \cup got]
  <2> DEFINE n == was.n + 1
             work == [was.work EXCEPT ![s] = "none"]
             has == [was.has EXCEPT ![s] = was.has[s] \cup got]
  <2>1. /\ n \in Nat /\ work \in [BoardScenes -> Media \cup {"none"}]
        /\ has \in [BoardScenes -> SUBSET Media]
    BY <1>3
  <2>2. next = [was EXCEPT !.n = n, !.work = work, !.has = has] BY <1>4
  <2> HIDE DEF was, n, work, has
  <2>3. DOMAIN was = {"has", "work", "n"} BY <1>2 DEF Board
  <2>4. next.n = n /\ next.has = has BY <2>2, <2>3
  <2>5. next \in Board BY <2>1, <2>2, <1>2 DEF Board
  <2> QED BY <2>4, <2>5 DEF n, has
<1>6. site' = [site EXCEPT ![run] = next] BY <1>9 DEF next
<1>7. site' \in [Projects -> Board] BY <1>0, <1>5, <1>6
<1>8. ASSUME NEW x \in Projects
      PROVE  /\ site[x].n <= site'[x].n
             /\ \A t \in BoardScenes : site[x].has[t] \subseteq site'[x].has[t]
  <2>1. CASE x = run BY <2>1, <1>0, <1>3, <1>5, <1>6
  <2>2. CASE x # run
    <3>1. site'[x] = site[x] /\ site[x].n \in Nat BY <2>2, <1>0, <1>6 DEF Board
    <3> QED BY <3>1
  <2> QED BY <2>1, <2>2
<1> HIDE DEF BoardInv
<1> QED BY <1>0, <1>7, <1>8, BoardGrows

(* Scenes begin their work, or the request fails.                          *)
LEMMA ServeGenerateKeeps ==
  ASSUME BoardInv, NEW r \in PageRequests, Page!ServeGenerate(r) PROVE BoardInv'
<1> DEFINE c == calls[r]
<1>0. /\ page' = page /\ site \in [Projects -> Board] /\ calls \in [PageRequests -> BoardCall]
      /\ c.kind \in Media
  BY DEF Page!ServeGenerate, BoardInv, BoardTypes
<1>1. c \in BoardWork /\ c.run \in Projects
  <2>1. c \in BoardWork BY <1>0, BoardCallKinds
  <2> QED BY <2>1 DEF BoardWork
<1> DEFINE was == site[c.run]
           idle == {s \in c.scenes : was.work[s] = "none"
                                     /\ (c.kind = "subtitles" => "audio" \in was.has[s])}
           work == [s \in BoardScenes |-> IF s \in idle THEN c.kind ELSE was.work[s]]
           next == [was EXCEPT !.n = was.n + 1, !.work = work]
<1>2. was \in Board /\ idle \subseteq BoardScenes BY <1>0, <1>1 DEF BoardWork
<1>3. /\ was.n \in Nat /\ was.work \in [BoardScenes -> Media \cup {"none"}]
      /\ was.has \in [BoardScenes -> SUBSET Media]
  BY <1>2 DEF Board
<1>4. work \in [BoardScenes -> Media \cup {"none"}] BY <1>0, <1>3
<1>5. \/ site' = site /\ calls' = [calls EXCEPT ![r] = [c EXCEPT !.done = "failed"]]
      \/ /\ site' = [site EXCEPT ![c.run] = next]
         /\ calls' = [calls EXCEPT ![r] = [[c EXCEPT !.done = "ok"] EXCEPT !.scenes = idle]]
  <2>1. next = [was EXCEPT !.n = @ + 1,
                  !.work = [s \in BoardScenes |-> IF s \in idle THEN c.kind ELSE @[s]]]
    BY <1>2 DEF Board
  <2> HIDE DEF next
  <2>2. [calls EXCEPT ![r].done = "ok", ![r].scenes = idle] =
          [calls EXCEPT ![r] = [[c EXCEPT !.done = "ok"] EXCEPT !.scenes = idle]]
    BY <1>0
  <2> QED BY <2>1, <2>2, <1>0 DEF Page!ServeGenerate, Page!None
<1> HIDE DEF idle, work
<1>6. next \in Board /\ next.n = was.n + 1 /\ next.has = was.has
  <2> DEFINE n == was.n + 1
  <2>1. n \in Nat BY <1>3
  <2>2. next = [was EXCEPT !.n = n, !.work = work] BY DEF next
  <2> HIDE DEF was, n
  <2>3. DOMAIN was = {"has", "work", "n"} BY <1>2 DEF Board
  <2>4. next.n = n /\ next.has = was.has BY <2>2, <2>3
  <2>5. next \in Board BY <2>1, <2>2, <1>2, <1>4 DEF Board
  <2> QED BY <2>4, <2>5 DEF n
<1> HIDE DEF next
<1>7. site' \in [Projects -> Board] BY <1>0, <1>5, <1>6
<1>8. ASSUME NEW x \in Projects
      PROVE  /\ site[x].n <= site'[x].n
             /\ \A t \in BoardScenes : site[x].has[t] \subseteq site'[x].has[t]
  <2>1. CASE x = c.run /\ site' = [site EXCEPT ![c.run] = next]
    BY <2>1, <1>0, <1>3, <1>6
  <2>2. CASE ~ (x = c.run /\ site' = [site EXCEPT ![c.run] = next])
    <3>1. site'[x] = site[x] /\ site[x].n \in Nat BY <2>2, <1>0, <1>5 DEF Board
    <3> QED BY <3>1
  <2> QED BY <2>1, <2>2
<1>9. /\ calls'[r] \in BoardWork /\ calls'[r].kind = c.kind /\ calls'[r].bulk = c.bulk
      /\ calls'[r].fresh = c.fresh
      /\ \A q \in PageRequests \ {r} : calls'[q] = calls[q]
  <2>1. calls'[r] \in {[c EXCEPT !.done = "failed"],
                       [[c EXCEPT !.done = "ok"] EXCEPT !.scenes = idle]}
    BY <1>0, <1>5
  <2>2. \A q \in PageRequests \ {r} : calls'[q] = calls[q] BY <1>0, <1>5
  <2> QED BY <2>1, <2>2, <1>1, <1>2 DEF BoardWork
<1>10. calls' \in [PageRequests -> BoardCall]
  <2>1. DOMAIN calls' = PageRequests /\ calls' = [q \in PageRequests |-> calls'[q]]
    BY <1>0, <1>5
  <2> QED BY <2>1, <1>0, <1>9 DEF BoardCall
<1>11. ASSUME NEW q \in PageRequests
       PROVE  /\ Reading(calls'[q]) <=> Reading(calls[q])
              /\ Bulk(calls'[q]) <=> Bulk(calls[q])
              /\ Reading(calls[q]) => calls'[q].run = calls[q].run /\ calls'[q].got = calls[q].got
  <2>1. CASE q # r BY <2>1, <1>9
  <2>2. CASE q = r
    <3>1. c.kind # "read" BY <1>0, PagesAssumption
    <3> QED BY <2>2, <3>1, <1>9 DEF Reading, Bulk
  <2> QED BY <2>1, <2>2
<1> HIDE DEF BoardInv
<1> QED BY <1>0, <1>7, <1>8, <1>10, <1>11, BoardGrows

(* A request ends.                                                         *)
LEMMA BoardCallEnds ==
  ASSUME BoardInv, NEW r \in PageRequests, calls' = [calls EXCEPT ![r] = Page!Free]
  PROVE  /\ calls' \in [PageRequests -> BoardCall]
         /\ ~ Reading(calls'[r]) /\ ~ Bulk(calls'[r])
         /\ \A q \in PageRequests \ {r} : calls'[q] = calls[q]
<1>1. Page!Free \in BoardCall BY DEF BoardCall
<1>2. calls \in [PageRequests -> BoardCall] BY DEF BoardInv, BoardTypes
<1> QED BY <1>1, <1>2, OlderBoardCall

(* A read is served with what the server has by then.                      *)
LEMMA ServeBoardKeeps ==
  ASSUME BoardInv, NEW r \in PageRequests, Page!ServeBoard(r) PROVE BoardInv'
<1> DEFINE got == site[calls[r].run]
           d == [calls[r] EXCEPT !.got = got]
<1>0. /\ BoardTypes /\ BoardShown /\ BoardReads /\ BoardBulk
      /\ page' = page /\ site' = site /\ calls \in [PageRequests -> BoardCall]
      /\ calls[r].kind = "read" /\ calls' = [calls EXCEPT ![r] = d]
  BY DEF Page!ServeBoard, BoardInv, BoardTypes
<1>1. calls[r] \in BoardRead BY <1>0, BoardCallKinds
<1>2. calls[r].run \in Projects /\ got \in Board BY <1>0, <1>1 DEF BoardRead, BoardTypes
<1>3. /\ d \in BoardRead /\ d.run = calls[r].run /\ d.got = got /\ d.kind = "read"
      /\ Reading(d) <=> Reading(calls[r])
  <2> HIDE DEF got
  <2> QED BY <1>0, <1>1, <1>2 DEF BoardRead, Reading
<1>4. d \in BoardCall /\ ~ Bulk(d) /\ ~ Bulk(calls[r])
  <2>1. d \in BoardCall BY <1>3 DEF BoardCall
  <2> HIDE DEF d
  <2> QED BY <2>1, <1>0, <1>3, OlderBoardCall
<1> HIDE DEF d, got
<1>5. /\ calls' \in [PageRequests -> BoardCall] /\ calls'[r] = d
      /\ \A q \in PageRequests \ {r} : calls'[q] = calls[q]
  BY <1>0, <1>4
<1>6. BoardTypes' BY <1>0, <1>5 DEF BoardTypes
<1>7. BoardShown' BY <1>0 DEF BoardShown
<1>8. ASSUME Reading(calls[r])
      PROVE  /\ page.seen <= got.n /\ got.n <= site[page.run].n
             /\ \A s \in BoardScenes : got.has[s] \subseteq site[page.run].has[s]
  <2>1. got = site[page.run] /\ page.run # "none"
    BY <1>0, <1>2, <1>8, PagesAssumption DEF got, BoardReads
  <2>2. got.n \in Nat BY <1>2 DEF Board
  <2> QED BY <2>1, <2>2, <1>0 DEF BoardShown
<1>9. BoardReads'
  <2>1. \A q \in PageRequests :
          /\ Reading(calls'[q]) <=> Reading(calls[q])
          /\ calls'[q] = IF q = r THEN d ELSE calls[q]
    BY <1>3, <1>5
  <2>2. ASSUME NEW q \in PageRequests, Reading(calls'[q])
        PROVE  /\ calls'[q].run = page.run
               /\ calls'[q].got # <<>> =>
                    /\ page.seen <= calls'[q].got.n /\ calls'[q].got.n <= site[page.run].n
                    /\ \A s \in BoardScenes : calls'[q].got.has[s] \subseteq site[page.run].has[s]
    <3>1. CASE q = r BY <3>1, <2>1, <2>2, <1>0, <1>3, <1>8 DEF BoardReads
    <3>2. CASE q # r BY <3>2, <2>1, <2>2, <1>0 DEF BoardReads
    <3> QED BY <3>1, <3>2
  <2>3. \A q, x \in PageRequests : Reading(calls'[q]) /\ Reading(calls'[x]) => x = q
    BY <2>1, <1>0 DEF BoardReads
  <2> QED BY <2>2, <2>3, <1>0 DEF BoardReads
<1>10. BoardBulk' BY <1>0, <1>4, <1>5 DEF BoardBulk
<1> QED BY <1>6, <1>7, <1>9, <1>10 DEF BoardInv

(* A read that counts is shown, and no other.                              *)
LEMMA ReceiveBoardKeeps ==
  ASSUME BoardInv, NEW r \in PageRequests, Page!ReceiveBoard(r) PROVE BoardInv'
<1> DEFINE c == calls[r]
<1>0. /\ BoardTypes /\ BoardShown /\ BoardReads /\ BoardBulk /\ site' = site
      /\ calls \in [PageRequests -> BoardCall] /\ c.kind = "read" /\ c.got # <<>>
      /\ calls' = [calls EXCEPT ![r] = Page!Free]
  BY DEF Page!ReceiveBoard, BoardInv, BoardTypes
<1>1. c \in BoardRead /\ c.got \in Board /\ c.run \in Projects /\ ~ Bulk(c)
  <2>1. c \in BoardRead BY <1>0, BoardCallKinds
  <2> QED BY <2>1, <1>0, OlderBoardCall DEF BoardRead
<1>2. /\ calls' \in [PageRequests -> BoardCall]
      /\ ~ Reading(calls'[r]) /\ ~ Bulk(calls'[r])
      /\ \A q \in PageRequests \ {r} : calls'[q] = calls[q]
  BY <1>0, BoardCallEnds
<1>3. CASE ~ c.fresh
  <2>1. page' = page BY <1>3 DEF Page!ReceiveBoard
  <2>2. BoardTypes' BY <1>0, <1>2, <2>1 DEF BoardTypes
  <2>3. BoardShown' BY <1>0, <2>1 DEF BoardShown
  <2>4. BoardReads' BY <1>0, <1>2, <2>1 DEF BoardReads
  <2>5. BoardBulk' BY <1>0, <1>1, <1>2, <2>1 DEF BoardBulk
  <2> QED BY <2>2, <2>3, <2>4, <2>5 DEF BoardInv
<1>4. CASE c.fresh
  <2>1. /\ c.run = page.run /\ \A q \in PageRequests : Reading(calls[q]) => q = r
        /\ page.seen <= c.got.n /\ c.got.n <= site[page.run].n
        /\ \A s \in BoardScenes : c.got.has[s] \subseteq site[page.run].has[s]
    BY <1>0, <1>4 DEF BoardReads, Reading
  <2>2. page' = [page EXCEPT !.of = c.run, !.n = c.got.n, !.has = c.got.has, !.work = c.got.work,
                             !.seen = IF c.got.n > page.seen THEN c.got.n ELSE page.seen]
    BY <1>0, <1>4 DEF Page!ReceiveBoard, BoardTypes
  <2>3. c.got.n \in Nat /\ DOMAIN c.got.has = BoardScenes BY <1>1 DEF Board
  <2>4. page.seen \in Int /\ (IF c.got.n > page.seen THEN c.got.n ELSE page.seen) = c.got.n
    BY <2>1, <2>3, <1>0 DEF BoardTypes
  <2>5. /\ DOMAIN page' = DOMAIN page /\ page'.of = c.run /\ page'.n = c.got.n
        /\ page'.has = c.got.has /\ page'.seen = c.got.n /\ page'.run = page.run
        /\ page'.bulk = page.bulk
    BY <2>2, <2>4, <1>0 DEF BoardTypes
  <2>6. page.run # "none" BY <2>1, <1>1, PagesAssumption
  <2>7. BoardTypes' BY <1>0, <1>2, <2>3, <2>5 DEF BoardTypes
  <2>8. BoardShown' BY <1>0, <2>1, <2>3, <2>5, <2>6 DEF BoardShown
  <2>9. BoardReads' BY <1>2, <2>1 DEF BoardReads
  <2>10. BoardBulk' BY <1>0, <1>1, <1>2, <2>5 DEF BoardBulk
  <2> QED BY <2>7, <2>8, <2>9, <2>10 DEF BoardInv
<1> QED BY <1>3, <1>4

(* A bulk request is sent only while no other counts.                      *)
LEMMA GenerateKeeps ==
  ASSUME BoardInv, NEW r \in PageRequests, NEW medium \in Media, Page!Generate(r, medium)
  PROVE  BoardInv'
<1>0. /\ BoardTypes /\ BoardShown /\ BoardReads /\ BoardBulk /\ site' = site
      /\ calls \in [PageRequests -> BoardCall] /\ calls[r] = Page!Free
      /\ page.of = page.run /\ page.of # "none"
  BY DEF Page!Generate, BoardInv, BoardTypes, Page!None
<1>1. PICK bulk \in BOOLEAN, scenes \in SUBSET BoardScenes :
        /\ calls' = [calls EXCEPT ![r] = [kind |-> medium, run |-> page.run, fresh |-> TRUE,
                                          scenes |-> scenes, bulk |-> bulk, done |-> "none"]]
        /\ bulk => ~ page.bulk /\ page' = [page EXCEPT !.bulk = TRUE]
        /\ ~ bulk => page' = page
  <2> DEFINE d(scenes, bulk) == [kind |-> medium, run |-> page.run, fresh |-> TRUE,
                                 scenes |-> scenes, bulk |-> bulk, done |-> "none"]
  <2>1. \/ \E s \in BoardScenes :
             calls' = [calls EXCEPT ![r] = d({s}, FALSE)] /\ page' = page
        \/ /\ ~ page.bulk /\ calls' = [calls EXCEPT ![r] = d(BoardScenes, TRUE)]
           /\ page' = [page EXCEPT !.bulk = TRUE]
    BY DEF Page!Generate, Page!None
  <2> HIDE DEF d
  <2>2. \E bulk \in BOOLEAN, scenes \in SUBSET BoardScenes :
          /\ calls' = [calls EXCEPT ![r] = d(scenes, bulk)]
          /\ bulk => ~ page.bulk /\ page' = [page EXCEPT !.bulk = TRUE]
          /\ ~ bulk => page' = page
    <3>1. CASE \E s \in BoardScenes :
                 calls' = [calls EXCEPT ![r] = d({s}, FALSE)] /\ page' = page
      <4>1. PICK s \in BoardScenes :
              calls' = [calls EXCEPT ![r] = d({s}, FALSE)] /\ page' = page
        BY <3>1
      <4>2. {s} \in SUBSET BoardScenes OBVIOUS
      <4> QED BY <4>1, <4>2
    <3>2. CASE /\ ~ page.bulk /\ calls' = [calls EXCEPT ![r] = d(BoardScenes, TRUE)]
               /\ page' = [page EXCEPT !.bulk = TRUE]
      <4>1. BoardScenes \in SUBSET BoardScenes OBVIOUS
      <4> QED BY <3>2, <4>1
    <3> QED BY <2>1, <3>1, <3>2
  <2> QED BY <2>2 DEF d
<1> DEFINE d == [kind |-> medium, run |-> page.run, fresh |-> TRUE,
                 scenes |-> scenes, bulk |-> bulk, done |-> "none"]
<1>2. d \in BoardCall /\ (Bulk(d) <=> bulk) /\ ~ Reading(d)
  <2>1. page.run \in Projects /\ medium # "read" BY <1>0, PagesAssumption DEF BoardTypes
  <2> QED BY <2>1 DEF BoardCall, BoardWork, Bulk, Reading
<1> HIDE DEF d
<1>3. /\ calls' \in [PageRequests -> BoardCall] /\ calls'[r] = d
      /\ \A q \in PageRequests \ {r} : calls'[q] = calls[q]
  BY <1>0, <1>1, <1>2 DEF d
<1>4. ~ Reading(calls[r]) /\ ~ Bulk(calls[r]) BY <1>0, OlderBoardCall DEF BoardCall
<1>5. /\ DOMAIN page' = DOMAIN page /\ page'.bulk = (page.bulk \/ bulk)
      /\ page'.of = page.of /\ page'.n = page.n /\ page'.has = page.has
      /\ page'.seen = page.seen /\ page'.run = page.run
  BY <1>0, <1>1 DEF BoardTypes
<1>6. BoardTypes' BY <1>0, <1>3, <1>5 DEF BoardTypes
<1>7. BoardShown' BY <1>0, <1>5 DEF BoardShown
<1>8. BoardReads' BY <1>0, <1>2, <1>3, <1>5 DEF BoardReads
<1>9. BoardBulk' BY <1>0, <1>1, <1>2, <1>3, <1>4, <1>5 DEF BoardBulk
<1> QED BY <1>6, <1>7, <1>8, <1>9 DEF BoardInv

(* The answer of a bulk request that counts gives its buttons back.        *)
LEMMA ReceiveGenerateKeeps ==
  ASSUME BoardInv, NEW r \in PageRequests, Page!ReceiveGenerate(r) PROVE BoardInv'
<1> DEFINE c == calls[r]
<1>0. /\ BoardTypes /\ BoardShown /\ BoardReads /\ BoardBulk /\ site' = site
      /\ calls \in [PageRequests -> BoardCall] /\ c.kind \in Media
      /\ calls' = [calls EXCEPT ![r] = Page!Free]
  BY DEF Page!ReceiveGenerate, BoardInv, BoardTypes
<1>1. c \in BoardWork /\ c.bulk \in BOOLEAN
  <2>1. c \in BoardWork BY <1>0, BoardCallKinds
  <2> QED BY <2>1 DEF BoardWork
<1>2. /\ calls' \in [PageRequests -> BoardCall]
      /\ ~ Reading(calls'[r]) /\ ~ Bulk(calls'[r])
      /\ \A q \in PageRequests \ {r} : calls'[q] = calls[q]
  BY <1>0, BoardCallEnds
<1>3. /\ DOMAIN page' = DOMAIN page
      /\ page'.bulk = IF Bulk(c) THEN FALSE ELSE page.bulk
      /\ page'.of = page.of /\ page'.n = page.n /\ page'.has = page.has
      /\ page'.seen = page.seen /\ page'.run = page.run
  <2>1. CASE ~ c.fresh
    <3>1. page' = page /\ ~ Bulk(c) BY <2>1 DEF Page!ReceiveGenerate, Page!OwnsBulk, Bulk
    <3> QED BY <3>1
  <2>2. CASE c.fresh
    <3> DEFINE work == [s \in DOMAIN page.work |->
                          IF s \in Page!Started(c) THEN c.kind ELSE page.work[s]]
    <3>1. page' = [page EXCEPT !.bulk = IF c.bulk THEN FALSE ELSE @,
                     !.work = [s \in DOMAIN @ |-> IF s \in Page!Started(c) THEN c.kind ELSE @[s]]]
      BY <2>2 DEF Page!ReceiveGenerate, Page!OwnsBulk
    <3>2. page' = [page EXCEPT !.bulk = IF c.bulk THEN FALSE ELSE page.bulk, !.work = work]
      BY <3>1, <1>0 DEF BoardTypes
    <3> HIDE DEF work
    <3>3. Bulk(c) <=> c.bulk BY <2>2, <1>0, <1>1 DEF Bulk
    <3> QED BY <3>2, <3>3, <1>0 DEF BoardTypes
  <2> QED BY <2>1, <2>2
<1>4. BoardTypes' BY <1>0, <1>2, <1>3 DEF BoardTypes
<1>5. BoardShown' BY <1>0, <1>3 DEF BoardShown
<1>6. BoardReads' BY <1>0, <1>2, <1>3 DEF BoardReads
<1>7. BoardBulk'
  <2>1. CASE Bulk(c)
    <3>1. \A q \in PageRequests : ~ Bulk(calls'[q]) BY <2>1, <1>0, <1>2 DEF BoardBulk
    <3> QED BY <3>1, <2>1, <1>3 DEF BoardBulk
  <2>2. CASE ~ Bulk(c) BY <2>2, <1>0, <1>2, <1>3 DEF BoardBulk
  <2> QED BY <2>1, <2>2
<1> QED BY <1>4, <1>5, <1>6, <1>7 DEF BoardInv

(* Every step of the storyboard.                                           *)
LEMMA BoardKeeps == BoardInv /\ Page!BoardNext => BoardInv'
BY OpenBoardKeeps, LoadBoardKeeps, ServeBoardKeeps, ReceiveBoardKeeps, GenerateKeeps,
   ServeGenerateKeeps, ReceiveGenerateKeeps, WorkEndsKeeps
   DEF Page!BoardNext

-----------------------------------------------------------------------------
(* The dialog.  The poll that counts is of its run and none has reported.  *)
Progress == [n : Nat, failed : BOOLEAN]
DialogRead == [kind : {"read"}, run : Projects, fresh : BOOLEAN, got : Progress \cup {<<>>}]
DialogCall == {Page!Free} \cup DialogRead
DialogPage ==
  [run : Projects \cup {"none"}, beyond : Nat, polling : BOOLEAN,
   outcome : {"running", "error", "completed", "failed"},
   reports : SUBSET [run : Projects, as : {"completed", "failed"}]]

DialogTypes ==
  /\ site \in [Projects -> Progress]
  /\ calls \in [PageRequests -> DialogCall]
  /\ page \in DialogPage

DialogInv ==
  /\ DialogTypes /\ Page!DialogIsRight
  /\ \A r \in PageRequests : Reading(calls[r]) =>
       /\ calls[r].run = page.run /\ ~ Page!Ended(page)
       /\ \A q \in PageRequests : Reading(calls[q]) => q = r
  /\ page.reports # {} => Page!Ended(page)

(* Which request is which.                                                 *)
LEMMA DialogCallKinds ==
  ASSUME NEW c \in DialogCall
  PROVE  /\ c.kind \in {"free", "read"} /\ (c = Page!Free => ~ Reading(c))
         /\ c.kind = "read" => /\ c \in DialogRead /\ [c EXCEPT !.fresh = FALSE] \in DialogCall
                               /\ ~ Reading([c EXCEPT !.fresh = FALSE])
         /\ c # Page!Free => c.kind = "read"
<1>1. CASE c = Page!Free BY <1>1 DEF Page!Free, Reading
<1>2. CASE c # Page!Free
  <2>1. c \in DialogRead /\ c.kind = "read" BY <1>2 DEF DialogCall, DialogRead
  <2> DEFINE d == [c EXCEPT !.fresh = FALSE]
  <2>2. d \in DialogRead /\ d.fresh = FALSE BY <2>1 DEF DialogRead
  <2> HIDE DEF d
  <2>3. d \in DialogCall /\ ~ Reading(d) BY <2>2 DEF DialogCall, Reading
  <2> QED BY <1>2, <2>1, <2>3 DEF d
<1> QED BY <1>1, <1>2

(* The dialog begins closed.                                               *)
LEMMA DialogBegins == Page!DialogInit => DialogInv
<1> SUFFICES ASSUME Page!DialogInit PROVE DialogInv OBVIOUS
<1>1. /\ site = [run \in Projects |-> [n |-> 0, failed |-> FALSE]]
      /\ page = Page!BlankDialog /\ calls = [r \in PageRequests |-> Page!Free]
  BY DEF Page!DialogInit
<1>2. \A r \in PageRequests : ~ Reading(calls[r]) /\ calls[r] \in DialogCall
  BY <1>1 DEF Reading, Page!Free, DialogCall
<1>3. DialogTypes
  BY <1>1, <1>2 DEF DialogTypes, DialogPage, Progress, Page!BlankDialog, Page!None
<1>4. Page!DialogIsRight BY <1>1, <1>2 DEF Page!DialogIsRight, Page!BlankDialog, Reading
<1> QED BY <1>1, <1>2, <1>3, <1>4 DEF DialogInv, Page!BlankDialog

(* Opening, closing or changing run cancels the poll.                      *)
LEMMA OpenDialogKeeps ==
  ASSUME DialogInv, NEW run \in Projects \cup {"none"}, Page!OpenDialog(run) PROVE DialogInv'
<1>0. /\ site \in [Projects -> Progress] /\ calls \in [PageRequests -> DialogCall]
      /\ site' = site
  BY DEF DialogInv, DialogTypes, Page!OpenDialog
<1>1. page' = [Page!BlankDialog EXCEPT !.run = run,
                                       !.beyond = IF run = "none" THEN 0 ELSE site[run].n]
  BY DEF Page!OpenDialog, Page!None
<1>2. /\ page' \in DialogPage /\ page'.polling = FALSE /\ page'.reports = {}
  BY <1>0, <1>1 DEF DialogPage, Progress, Page!BlankDialog
<1>3. ASSUME NEW q \in PageRequests
      PROVE  calls'[q] \in DialogCall /\ ~ Reading(calls'[q])
  <2>1. calls'[q] = IF calls[q] = Page!Free THEN Page!Free ELSE [calls[q] EXCEPT !.fresh = FALSE]
    BY DEF Page!OpenDialog
  <2>2. calls[q] \in DialogCall BY <1>0
  <2>3. CASE calls[q] = Page!Free BY <2>1, <2>2, <2>3, DialogCallKinds
  <2>4. CASE calls[q] # Page!Free BY <2>1, <2>2, <2>4, DialogCallKinds
  <2> QED BY <2>3, <2>4
<1>4. calls' \in [PageRequests -> DialogCall] BY <1>3 DEF Page!OpenDialog
<1>5. DialogTypes' BY <1>0, <1>2, <1>4 DEF DialogTypes
<1>6. Page!DialogIsRight' BY <1>2, <1>3 DEF Page!DialogIsRight, Reading
<1> QED BY <1>2, <1>3, <1>5, <1>6 DEF DialogInv

(* One poll at a time, and none after a report.                            *)
LEMMA PollKeeps ==
  ASSUME DialogInv, NEW r \in PageRequests, Page!Poll(r) PROVE DialogInv'
<1> DEFINE new == Page!ReadOf(page.run)
<1>0. /\ page \in DialogPage /\ site' = site /\ page.run # "none" /\ page.polling = FALSE
      /\ ~ Page!Ended(page) /\ calls \in [PageRequests -> DialogCall]
      /\ calls' = [calls EXCEPT ![r] = new] /\ page' = [page EXCEPT !.polling = TRUE]
  BY DEF DialogInv, DialogTypes, DialogPage, Page!Poll, Page!None
<1>1. new \in DialogCall /\ Reading(new) /\ new.run = page.run
  BY <1>0 DEF Page!ReadOf, DialogCall, DialogRead, Reading, DialogPage
<1> HIDE DEF new
<1>2. \A q \in PageRequests : ~ Reading(calls[q])
  BY <1>0 DEF DialogInv, Page!DialogIsRight, Reading
<1>3. /\ calls' \in [PageRequests -> DialogCall] /\ calls'[r] = new
      /\ \A q \in PageRequests \ {r} : ~ Reading(calls'[q])
  BY <1>0, <1>1, <1>2
<1>4. /\ page' \in DialogPage /\ page'.polling = TRUE /\ page'.run = page.run
      /\ page'.outcome = page.outcome /\ page'.reports = page.reports
  BY <1>0 DEF DialogPage
<1>5. DialogTypes' BY <1>0, <1>3, <1>4 DEF DialogInv, DialogTypes
<1>6. Page!DialogIsRight' BY <1>1, <1>3, <1>4 DEF DialogInv, Page!DialogIsRight, Reading
<1> QED BY <1>0, <1>1, <1>3, <1>4, <1>5, <1>6 DEF DialogInv, Page!Ended

(* A poll is served with what the server has by then.                      *)
LEMMA ServePollKeeps ==
  ASSUME DialogInv, NEW r \in PageRequests, Page!ServeBoard(r) PROVE DialogInv'
<1> DEFINE got == site[calls[r].run]
           d == [calls[r] EXCEPT !.got = got]
<1>0. /\ page' = page /\ site' = site /\ calls[r].kind = "read"
      /\ calls \in [PageRequests -> DialogCall] /\ site \in [Projects -> Progress]
      /\ calls' = [calls EXCEPT ![r] = d]
  BY DEF DialogInv, DialogTypes, Page!ServeBoard
<1>1. calls[r] \in DialogRead BY <1>0, DialogCallKinds
<1>2. got \in Progress BY <1>0, <1>1 DEF DialogRead
<1> HIDE DEF got
<1>3. /\ d \in DialogRead /\ d.kind = "read" /\ d.run = calls[r].run
      /\ d.fresh = calls[r].fresh
  BY <1>0, <1>1, <1>2 DEF DialogRead
<1> HIDE DEF d
<1>4. /\ calls' \in [PageRequests -> DialogCall] /\ calls'[r] = d
      /\ \A q \in PageRequests \ {r} : calls'[q] = calls[q]
  BY <1>0, <1>3 DEF DialogCall
<1>5. \A q \in PageRequests :
        /\ Reading(calls'[q]) <=> Reading(calls[q])
        /\ Reading(calls[q]) => calls'[q].run = calls[q].run
  BY <1>0, <1>3, <1>4 DEF Reading
<1>6. DialogTypes' BY <1>0, <1>4 DEF DialogInv, DialogTypes
<1>7. Page!DialogIsRight' BY <1>0, <1>5 DEF DialogInv, Page!DialogIsRight, Reading
<1> QED BY <1>0, <1>5, <1>6, <1>7 DEF DialogInv

(* A poll that counts reports, at most, and no other does.                 *)
LEMMA ReceivePollKeeps ==
  ASSUME DialogInv, NEW r \in PageRequests, Page!ReceivePoll(r) PROVE DialogInv'
<1> DEFINE c == calls[r]
           report(outcome) == [page EXCEPT !.polling = FALSE, !.outcome = outcome,
                                           !.reports = @ \cup {[run |-> c.run, as |-> outcome]}]
<1>0. /\ page \in DialogPage /\ site' = site /\ c.kind = "read"
      /\ calls \in [PageRequests -> DialogCall] /\ calls' = [calls EXCEPT ![r] = Page!Free]
  BY DEF DialogInv, DialogTypes, Page!ReceivePoll
<1>1. c \in DialogRead /\ c.run \in Projects
  <2>1. c \in DialogRead BY <1>0, DialogCallKinds
  <2> QED BY <2>1 DEF DialogRead
<1>2. Page!Free \in DialogCall /\ ~ Reading(Page!Free) BY DEF DialogCall, Reading, Page!Free
<1>3. /\ calls' \in [PageRequests -> DialogCall] /\ ~ Reading(calls'[r])
      /\ \A q \in PageRequests \ {r} : calls'[q] = calls[q]
  BY <1>0, <1>2
<1>4. CASE ~ c.fresh
  <2>1. page' = page BY <1>4 DEF Page!ReceivePoll, Page!CancelledPoll
  <2>2. ~ Reading(c) BY <1>4 DEF Reading
  <2>3. DialogTypes' BY <1>0, <1>3, <2>1 DEF DialogInv, DialogTypes
  <2>4. \A q \in PageRequests : Reading(calls'[q]) <=> Reading(calls[q]) BY <1>3, <2>2
  <2>5. Page!DialogIsRight' BY <2>1, <2>4 DEF DialogInv, Page!DialogIsRight, Reading
  <2> QED BY <1>3, <2>1, <2>3, <2>4, <2>5 DEF DialogInv
<1>5. CASE c.fresh
  <2>1. /\ c.run = page.run /\ ~ Page!Ended(page)
        /\ \A q \in PageRequests : Reading(calls[q]) => q = r
    BY <1>0, <1>5 DEF DialogInv, Reading
  <2>2. page.reports = {} BY <2>1 DEF DialogInv
  <2>3. \A q \in PageRequests : ~ Reading(calls'[q]) BY <1>3, <2>1
  <2>4. \/ page' \in {[page EXCEPT !.polling = FALSE, !.outcome = "error"],
                      [page EXCEPT !.polling = FALSE]}
        \/ \E outcome \in {"completed", "failed"} : page' = report(outcome)
    BY <1>5 DEF Page!ReceivePoll, Page!CancelledPoll
  <2>5. /\ page' \in DialogPage /\ page'.polling = FALSE
        /\ \/ page'.reports = {}
           \/ /\ page'.reports = {[run |-> c.run, as |-> page'.outcome]}
              /\ page'.outcome \in {"completed", "failed"} /\ page'.run = c.run
    <3>1. CASE page' \in {[page EXCEPT !.polling = FALSE, !.outcome = "error"],
                          [page EXCEPT !.polling = FALSE]}
      BY <3>1, <1>0, <2>2 DEF DialogPage
    <3>2. ASSUME NEW outcome \in {"completed", "failed"}, page' = report(outcome)
          PROVE  /\ page' \in DialogPage /\ page'.polling = FALSE
                 /\ page'.reports = {[run |-> c.run, as |-> page'.outcome]}
                 /\ page'.outcome \in {"completed", "failed"} /\ page'.run = c.run
      <4> DEFINE x == [run |-> c.run, as |-> outcome]
      <4>1. x \in [run : Projects, as : {"completed", "failed"}] BY <1>1
      <4>2. page' = [page EXCEPT !.polling = FALSE, !.outcome = outcome, !.reports = {x}]
        BY <3>2, <1>0, <2>2 DEF DialogPage
      <4> HIDE DEF x
      <4>3. /\ page' \in DialogPage /\ page'.polling = FALSE /\ page'.reports = {x}
            /\ page'.outcome = outcome /\ page'.run = page.run
        BY <1>0, <4>1, <4>2 DEF DialogPage
      <4> QED BY <4>3, <2>1 DEF x
    <3> QED BY <2>4, <3>1, <3>2
  <2>6. DialogTypes' BY <1>0, <1>3, <2>5 DEF DialogInv, DialogTypes
  <2>7. Page!DialogIsRight'
    <3>1. \A x \in page'.reports : x.run = page'.run /\ x.as = page'.outcome BY <2>5
    <3>2. page'.polling = \E q \in PageRequests : Reading(calls'[q]) BY <2>3, <2>5
    <3> QED BY <3>1, <3>2 DEF Page!DialogIsRight, Reading
  <2> QED BY <2>3, <2>5, <2>6, <2>7 DEF DialogInv, Page!Ended
<1> QED BY <1>4, <1>5

(* Runs move on or fail.                                                   *)
LEMMA RunMovesKeeps == ASSUME DialogInv, Page!RunMoves PROVE DialogInv'
<1>1. page' = page /\ calls' = calls /\ site \in [Projects -> Progress]
  BY DEF DialogInv, DialogTypes, Page!RunMoves
<1>2. PICK run \in Projects, failed \in BOOLEAN :
        site' = [site EXCEPT ![run] = [n |-> IF failed THEN site[run].n ELSE site[run].n + 1,
                                       failed |-> failed]]
  BY <1>1 DEF Page!RunMoves
<1>3. site' \in [Projects -> Progress] BY <1>1, <1>2 DEF Progress
<1> QED BY <1>1, <1>3 DEF DialogInv, DialogTypes, Page!DialogIsRight, Reading, Page!Ended

(* Every step of the dialog.                                               *)
LEMMA DialogKeeps == DialogInv /\ Page!DialogNext => DialogInv'
BY OpenDialogKeeps, PollKeeps, ServePollKeeps, ReceivePollKeeps, RunMovesKeeps
   DEF Page!DialogNext, Page!None

-----------------------------------------------------------------------------
(* The parts together: one of them runs, and the others' state is kept.    *)

PagesInv ==
  /\ part = "page" => PageInv
  /\ part = "plan" => PlanInv
  /\ part = "board" => BoardInv
  /\ part = "dialog" => DialogInv
(* The pages begin as each of them does.                                   *)
LEMMA PagesBegins == EditorInit => PagesInv
<1> SUFFICES ASSUME EditorInit PROVE PagesInv OBVIOUS
<1>1. CASE part \in {"page", "plan", "board", "dialog"}
  <2>1. PagesBegin BY <1>1 DEF EditorInit, WordsBegin
  <2> QED BY <2>1, PageBegins, PlanBegins, BoardBegins, DialogBegins DEF PagesBegin, PagesInv
<1>2. CASE part \notin {"page", "plan", "board", "dialog"} BY <1>2 DEF PagesInv
<1> QED BY <1>1, <1>2

(* A step is of one page, or of none.                                      *)
LEMMA PagesKeep == PagesInv /\ [EditorNext]_editorVars => PagesInv'
<1> SUFFICES ASSUME PagesInv, [EditorNext]_editorVars PROVE PagesInv' OBVIOUS
<1>1. part' = part /\ (UNCHANGED workspaceVars \/ PagesMove)
  BY DEF EditorNext, editorVars, workspaceVars, draftVars
<1>2. CASE UNCHANGED workspaceVars
  <2>1. UNCHANGED <<site, page, plan, calls>> BY <1>2 DEF workspaceVars
  <2>2. PageInv => PageInv'
    BY <2>1 DEF PageInv, PageTypes, AsksRight, OwnedRight, BusyRight, ShownRight, ToldRight,
         Page!PageIsOwn
  <2>3. PlanInv => PlanInv'
    BY <2>1 DEF PlanInv, PlanTypes, PlanCall, Plan!PlanIsRight, Plan!TypingIsKept,
         Plan!ShownIsServed
  <2>4. BoardInv => BoardInv'
    BY <2>1 DEF BoardInv, BoardTypes, BoardShown, BoardReads, BoardBulk
  <2>5. DialogInv => DialogInv' BY <2>1 DEF DialogInv, DialogTypes, Page!DialogIsRight
  <2> QED BY <1>1, <2>2, <2>3, <2>4, <2>5 DEF PagesInv
<1>3. CASE PagesMove
  <2>1. CASE part = "page" BY <1>1, <1>3, <2>1, PageKeeps DEF PagesMove, PagesInv
  <2>2. CASE part = "plan" BY <1>1, <1>3, <2>2, PlanKeeps DEF PagesMove, PagesInv
  <2>3. CASE part = "board" BY <1>1, <1>3, <2>3, BoardKeeps DEF PagesMove, PagesInv
  <2>4. CASE part = "dialog" BY <1>1, <1>3, <2>4, DialogKeeps DEF PagesMove, PagesInv
  <2> QED BY <1>3, <2>1, <2>2, <2>3, <2>4 DEF PagesMove
<1> QED BY <1>1, <1>2, <1>3

(* What the pages promise, from what holds.                                *)
LEMMA PagesPromise == PagesInv => PagesTellTheTruth
BY PagePromises, BoardPromises DEF PagesInv, PlanInv, DialogInv, PagesTellTheTruth

(* Whatever order answers arrive in and whatever the user opens meanwhile, *)
(* a page shows its own project and nothing older than it has shown, its   *)
(* buttons tell what is under way, typing is kept until the server has it, *)
(* and a dialog reports once.                                              *)
THEOREM PagesAreRight == EditorSpec => []PagesTellTheTruth
<1>1. EditorSpec => []PagesInv BY PagesBegins, PagesKeep, PTL DEF EditorSpec
<1> QED BY <1>1, PagesPromise, PTL

-----------------------------------------------------------------------------
(* The drafts: scripts, plans and images.  While nobody has moved a        *)
(* section every section has the identifier of its own position; what is   *)
(* about to be written is right already, and a patch that names a version  *)
(* is about that version still when it is written.                         *)
Authors == Writers \cup Deliveries
Steady == \A i \in DOMAIN drafts : ~ drafts[i].moved
OwnIds(sections) ==
  \A i \in DOMAIN sections :
    /\ DOMAIN sections[i] = {"id", "type", "text", "prompt"}
    /\ sections[i].id = <<sections[i].type, i>>
DraftRight(row, steady) ==
  /\ DOMAIN row = {"sections", "markdown", "key", "moved", "parsed"}
  /\ row.parsed => Drafts!ParseMarkdown(row.markdown, row.sections) = row.sections
  /\ steady /\ ~ row.moved => OwnIds(row.sections)

DraftsInv ==
  /\ drafts \in Seq(Range(drafts)) /\ Drafts!KeysOnce(drafts)
  /\ \A i \in DOMAIN drafts : DraftRight(drafts[i], Steady)
PlansInv ==
  plans \in Seq(Range(plans)) /\ Drafts!KeysOnce(plans) /\ Drafts!GuardedPatchesLoseNothing

AssetRow == [version : 1..LastAsset, active : BOOLEAN,
             key : {KeyOf[d] : d \in Deliveries} \cup {Drafts!Unset}]
RowsRight(rows) ==
  /\ rows \subseteq AssetRow
  /\ \A r, q \in rows : (r.version = q.version \/ (r.active /\ q.active)) => r = q
ShelfInv == DOMAIN shelf = {"pg", "double"} /\ shelf.pg = shelf.double /\ RowsRight(shelf.pg)

ScriptAskRight(ask, steady) ==
  ask.op \in {"idle", "markdown", "save"} /\ (ask.op = "save" => DraftRight(ask.row, steady))
Patched(row, scenes) ==
  /\ DOMAIN row.scenes = DOMAIN scenes
  /\ \A i \in DOMAIN scenes \ {row.scene} : row.scenes[i] = scenes[i]
PlanAskRight(ask) ==
  /\ ask.op \in {"idle", "plan"}
  /\ ask.op = "plan" =>
       /\ ask.expected \in 0..Len(plans) /\ (ask.row.by = "guarded" <=> ask.expected # 0)
       /\ ask.expected # 0 => /\ ask.row.key = Drafts!Unset
                              /\ Patched(ask.row, plans[ask.expected].scenes)

(* A version more.                                                         *)
LEMMA Grown ==
  ASSUME NEW s, s \in Seq(Range(s)), NEW row
  PROVE  LET t == Append(s, row)
         IN  /\ t \in Seq(Range(t)) /\ Range(t) = Range(s) \cup {row}
             /\ Len(t) = Len(s) + 1 /\ t[Len(s) + 1] = row /\ Len(s) \in Nat
             /\ DOMAIN s = 1..Len(s) /\ DOMAIN t = 1..(Len(s) + 1)
             /\ \A i \in 1..Len(s) : t[i] = s[i]
<1> DEFINE S == Range(s) \cup {row}
<1>1. /\ Len(s) \in Nat /\ DOMAIN s = 1..Len(s) /\ \A i \in 1..Len(s) : s[i] \in Range(s)
      /\ s \in [1..Len(s) -> Range(s)]
  OBVIOUS
<1>2. s \in Seq(S)
  <2>1. s \in [1..Len(s) -> S] BY <1>1
  <2> QED BY <2>1, <1>1
<1>3. row \in S OBVIOUS
<1> HIDE DEF S
<1>4. /\ Append(s, row) \in Seq(S) /\ Range(Append(s, row)) = Range(s) \cup {row}
      /\ Len(Append(s, row)) = Len(s) + 1 /\ Append(s, row)[Len(s) + 1] = row
      /\ \A i \in 1..Len(s) : Append(s, row)[i] = s[i]
  BY <1>2, <1>3, AppendHolds
<1>5. Range(Append(s, row)) = S BY <1>4 DEF S
<1> QED BY <1>1, <1>4, <1>5

(* A task's key is saved once.                                             *)
LEMMA KeyOnce ==
  ASSUME NEW s, s \in Seq(Range(s)), Drafts!KeysOnce(s), NEW row,
         ~ Drafts!Saved(Range(s), row.key)
  PROVE  Drafts!KeysOnce(Append(s, row))
<1> DEFINE t == Append(s, row)
<1>1. /\ t[Len(s) + 1] = row /\ Len(s) \in Nat /\ DOMAIN s = 1..Len(s)
      /\ DOMAIN t = 1..(Len(s) + 1) /\ \A i \in 1..Len(s) : t[i] = s[i]
  BY Grown
<1> HIDE DEF t
<1>2. \A i \in 1..Len(s) : s[i].key = row.key => row.key = Drafts!Unset
  <2>1. \A i \in 1..Len(s) : s[i] \in Range(s) BY <1>1 DEF Range
  <2> QED BY <2>1 DEF Drafts!Saved
<1>3. \A i \in 1..(Len(s) + 1) : i \in 1..Len(s) \/ i = Len(s) + 1 BY <1>1
<1>4. ASSUME NEW i \in DOMAIN t, NEW j \in DOMAIN t, t[i].key = t[j].key, t[i].key # Drafts!Unset
      PROVE  i = j
  <2>1. CASE i \in 1..Len(s) /\ j \in 1..Len(s)
    BY <2>1, <1>1, <1>4 DEF Drafts!KeysOnce
  <2>2. CASE i = Len(s) + 1 /\ j \in 1..Len(s) BY <2>2, <1>1, <1>2, <1>4
  <2>3. CASE j = Len(s) + 1 /\ i \in 1..Len(s) BY <2>3, <1>1, <1>2, <1>4
  <2>4. CASE j = Len(s) + 1 /\ i = Len(s) + 1 BY <2>4
  <2> QED BY <2>1, <2>2, <2>3, <2>4, <1>1, <1>3
<1> QED BY <1>4 DEF Drafts!KeysOnce, t

(* Parsing gives every section the identifier of its position, if those    *)
(* there are have theirs; and parsing again changes nothing.               *)
LEMMA ParsedIds ==
  ASSUME NEW blocks, NEW existing, OwnIds(existing)
  PROVE  OwnIds(Drafts!ParseMarkdown(blocks, existing))
<1> DEFINE parsed == Drafts!ExpandSections(blocks)
           s == Drafts!ParseMarkdown(blocks, existing)
<1>1. /\ DOMAIN s = DOMAIN parsed
      /\ \A i \in DOMAIN parsed :
           s[i] = [id |-> IF i \in DOMAIN existing /\ existing[i].type = parsed[i].type
                          THEN existing[i].id ELSE <<parsed[i].type, i>>,
                   type |-> parsed[i].type, text |-> parsed[i].text, prompt |-> Drafts!Unset]
  BY DEF Drafts!ParseMarkdown
<1> HIDE DEF s, parsed
<1>2. ASSUME NEW i \in DOMAIN s
      PROVE DOMAIN s[i] = {"id", "type", "text", "prompt"} /\ s[i].id = <<s[i].type, i>>
  BY <1>1 DEF OwnIds
<1>3. OwnIds(s) BY <1>2 DEF OwnIds
<1> QED BY <1>3 DEF s

(* Parsing what was parsed changes nothing.                                *)
LEMMA ParsedAgain ==
  ASSUME NEW blocks, NEW existing
  PROVE  Drafts!ParseMarkdown(blocks, Drafts!ParseMarkdown(blocks, existing))
           = Drafts!ParseMarkdown(blocks, existing)
<1> DEFINE parsed == Drafts!ExpandSections(blocks)
           Id(x, i) == IF i \in DOMAIN x /\ x[i].type = parsed[i].type
                       THEN x[i].id ELSE <<parsed[i].type, i>>
           Section(x, i) == [id |-> Id(x, i), type |-> parsed[i].type,
                             text |-> parsed[i].text, prompt |-> Drafts!Unset]
           s == Drafts!ParseMarkdown(blocks, existing)
<1>1. \A x : Drafts!ParseMarkdown(blocks, x) = [i \in DOMAIN parsed |-> Section(x, i)]
  BY DEF Drafts!ParseMarkdown
<1>2. s = [i \in DOMAIN parsed |-> Section(existing, i)] BY <1>1
<1>3. \A i \in DOMAIN parsed : s[i] = Section(existing, i) BY <1>2
<1>4. DOMAIN s = DOMAIN parsed BY <1>2
<1> HIDE DEF s
<1>5. ASSUME NEW i \in DOMAIN parsed PROVE Section(s, i) = s[i]
  <2>0. s[i] = Section(existing, i) BY <1>3
  <2>00. Section(existing, i).type = parsed[i].type /\ Section(existing, i).id = Id(existing, i)
    <3> HIDE DEF Id, parsed
    <3> QED OBVIOUS
  <2>1. s[i].type = parsed[i].type /\ s[i].id = Id(existing, i) BY <2>0, <2>00
  <2>2. Id(s, i) = s[i].id BY <2>1, <1>4
  <2>3. Section(s, i) = Section(existing, i) BY <2>1, <2>2
  <2> QED BY <2>3, <1>3
<1>6. [i \in DOMAIN parsed |-> Section(s, i)] = [i \in DOMAIN parsed |-> s[i]] BY <1>5
<1>7. s = [i \in DOMAIN parsed |-> s[i]] BY <1>2, <1>3
<1> QED BY <1>1, <1>6, <1>7 DEF s

(* What the sections in force are.                                         *)
LEMMA ActiveIds ==
  ASSUME DraftsInv
  PROVE  Steady => OwnIds(Drafts!ActiveSections)
<1>1. CASE drafts = <<>>
  <2>1. Drafts!ActiveSections = <<>> BY <1>1 DEF Drafts!ActiveSections
  <2>2. DOMAIN <<>> = {} OBVIOUS
  <2> QED BY <2>1, <2>2 DEF OwnIds
<1>2. CASE drafts # <<>>
  <2>1. drafts \in Seq(Range(drafts)) BY DEF DraftsInv
  <2>2. Len(drafts) \in DOMAIN drafts BY <2>1, <1>2
  <2>3. Drafts!ActiveSections = drafts[Len(drafts)].sections
    BY <1>2 DEF Drafts!ActiveSections, Drafts!Last
  <2> QED BY <2>2, <2>3 DEF DraftsInv, DraftRight, Steady
<1> QED BY <1>1, <1>2

(* Sections made from JSON have their own identifiers.                     *)
LEMMA JsonIds == ASSUME NEW scenes PROVE OwnIds(Drafts!ParseJsonScenes(scenes))
BY DEF OwnIds, Drafts!ParseJsonScenes

(* What is about to be saved is right.                                     *)
LEMMA ParsedRight ==
  ASSUME NEW blocks, NEW existing, NEW key, NEW steady \in BOOLEAN, steady => OwnIds(existing)
  PROVE  ScriptAskRight(Drafts!Parsed(blocks, existing, key), steady)
<1> DEFINE s == Drafts!ParseMarkdown(blocks, existing)
           row == [sections |-> s, markdown |-> blocks, key |-> key, moved |-> FALSE, parsed |-> TRUE]
<1>1. Drafts!Parsed(blocks, existing, key) = [op |-> "save", row |-> row] BY DEF Drafts!Parsed
<1>2. Drafts!ParseMarkdown(blocks, s) = s BY ParsedAgain
<1>3. steady => OwnIds(s) BY ParsedIds
<1> HIDE DEF s
<1>4. DraftRight(row, steady) BY <1>2, <1>3 DEF DraftRight
<1> HIDE DEF row
<1> QED BY <1>1, <1>4 DEF ScriptAskRight

(* The same of sections a client sends.                                    *)
LEMMA SectionsRight ==
  ASSUME NEW sections, NEW moved \in BOOLEAN, NEW steady \in BOOLEAN,
         steady /\ ~ moved => OwnIds(sections)
  PROVE  /\ ScriptAskRight(Drafts!Sections(sections, moved), steady)
         /\ DraftRight(Drafts!Sections(sections, moved).row, steady)
BY DEF ScriptAskRight, DraftRight, Drafts!Sections

ScriptsHold ==
  /\ DraftsInv /\ PlansInv /\ ShelfInv /\ DOMAIN asked = Authors
  /\ \A w \in Authors : ScriptAskRight(asked[w], Steady)
PlansHold ==
  /\ DraftsInv /\ PlansInv /\ ShelfInv /\ DOMAIN asked = Authors
  /\ \A w \in Authors : PlanAskRight(asked[w])
ShelfHolds == DraftsInv /\ PlansInv /\ ShelfInv /\ DOMAIN asked = Authors

(* What does not change stays right.                                       *)
LEMMA WordsStay ==
  /\ DraftsInv /\ drafts' = drafts => DraftsInv' /\ Steady' = Steady
  /\ PlansInv /\ plans' = plans => PlansInv'
  /\ ShelfInv /\ shelf' = shelf => ShelfInv'
<1>1. drafts' = drafts => Steady' = Steady BY DEF Steady
<1>2. DraftsInv /\ drafts' = drafts => DraftsInv' BY <1>1 DEF DraftsInv, Drafts!KeysOnce, DraftRight
<1>3. PlansInv /\ plans' = plans => PlansInv'
  BY DEF PlansInv, Drafts!KeysOnce, Drafts!GuardedPatchesLoseNothing
<1>4. ShelfInv /\ shelf' = shelf => ShelfInv' BY DEF ShelfInv, RowsRight, AssetRow
<1> QED BY <1>1, <1>2, <1>3, <1>4

(* One asks for something that would be right.                             *)
LEMMA AsksForScript ==
  ASSUME ScriptsHold, UNCHANGED <<drafts, plans, shelf>>, NEW w \in Authors, NEW ask,
         asked' = [asked EXCEPT ![w] = ask], ScriptAskRight(ask, Steady)
  PROVE  ScriptsHold'
<1>1. DraftsInv' /\ PlansInv' /\ ShelfInv' /\ Steady' = Steady BY WordsStay DEF ScriptsHold
<1>2. DOMAIN asked' = Authors /\ \A q \in Authors : asked'[q] = IF q = w THEN ask ELSE asked[q]
  BY DEF ScriptsHold
<1>3. \A q \in Authors : ScriptAskRight(asked'[q], Steady) BY <1>2 DEF ScriptsHold
<1> QED BY <1>1, <1>2, <1>3 DEF ScriptsHold, Authors

(* The first step of everybody who writes a script.                        *)
LEMMA ScriptBegins ==
  ASSUME ScriptsHold, NEW w \in Authors,
         \/ Drafts!PutMarkdown(w) \/ Drafts!PutJson(w) \/ Drafts!PutStructured(w)
         \/ Drafts!PostParseMarkdown(w) \/ Drafts!DeliverScript(w) \/ Drafts!ReadSections(w)
  PROVE  ScriptsHold'
<1>0. Steady \in BOOLEAN /\ DraftsInv BY DEF Steady, ScriptsHold
<1>1. \A blocks, key : ScriptAskRight([op |-> "markdown", blocks |-> blocks, key |-> key], Steady)
  BY DEF ScriptAskRight
<1>2. CASE Drafts!PutMarkdown(w)
  <2>1. PICK blocks \in Documents :
          Drafts!Ask(w, [op |-> "markdown", blocks |-> blocks, key |-> Drafts!Unset])
    BY <1>2 DEF Drafts!PutMarkdown
  <2> QED BY <2>1, <1>1, AsksForScript DEF Drafts!Ask
<1>3. CASE Drafts!DeliverScript(w)
  <2>1. PICK blocks \in Documents :
          Drafts!Ask(w, [op |-> "markdown", blocks |-> blocks, key |-> KeyOf[w]])
    BY <1>3 DEF Drafts!DeliverScript
  <2> QED BY <2>1, <1>1, AsksForScript DEF Drafts!Ask
<1>4. CASE Drafts!PutJson(w)
  <2>1. PICK scenes \in Scripts : Drafts!Ask(w, Drafts!Sections(Drafts!ParseJsonScenes(scenes), FALSE))
    BY <1>4 DEF Drafts!PutJson
  <2>2. ScriptAskRight(Drafts!Sections(Drafts!ParseJsonScenes(scenes), FALSE), Steady)
    BY <1>0, JsonIds, SectionsRight
  <2> QED BY <2>1, <2>2, AsksForScript DEF Drafts!Ask
<1>5. CASE Drafts!PutStructured(w)
  <2> DEFINE sections == Drafts!ActiveSections
             edited == [sections EXCEPT ![1].text = <<"edited">>]
             swapped == [sections EXCEPT ![1] = sections[2], ![2] = sections[1]]
  <2>1. \/ Drafts!Ask(w, Drafts!Sections(edited, FALSE))
        \/ Drafts!Ask(w, Drafts!Sections(swapped, TRUE))
    BY <1>5 DEF Drafts!PutStructured
  <2>2. Steady => OwnIds(sections) BY <1>0, ActiveIds
  <2> HIDE DEF sections
  <2>3. ASSUME OwnIds(sections) PROVE OwnIds(edited)
    <3>1. DOMAIN edited = DOMAIN sections OBVIOUS
    <3>2. ASSUME NEW i \in DOMAIN sections
          PROVE /\ DOMAIN edited[i] = {"id", "type", "text", "prompt"}
                /\ edited[i].id = <<edited[i].type, i>>
      <4>1. CASE i = 1
        <5>1. edited[i] = [sections[i] EXCEPT !.text = <<"edited">>] BY <4>1
        <5>2. DOMAIN sections[i] = {"id", "type", "text", "prompt"} /\ sections[i].id = <<sections[i].type, i>>
          BY <2>3 DEF OwnIds
        <5> HIDE DEF edited
        <5> QED BY <5>1, <5>2
      <4>2. CASE i # 1
        <5>1. edited[i] = sections[i] BY <4>2
        <5> HIDE DEF edited
        <5> QED BY <5>1, <2>3 DEF OwnIds
      <4> QED BY <4>1, <4>2
    <3> HIDE DEF edited
    <3> QED BY <3>1, <3>2 DEF OwnIds
  <2> HIDE DEF edited, swapped
  <2>4. ScriptAskRight(Drafts!Sections(edited, FALSE), Steady) BY <1>0, <2>2, <2>3, SectionsRight
  <2>5. ScriptAskRight(Drafts!Sections(swapped, TRUE), Steady) BY <1>0, SectionsRight
  <2> QED BY <2>1, <2>4, <2>5, AsksForScript DEF Drafts!Ask
<1>6. CASE Drafts!PostParseMarkdown(w)
  <2> DEFINE draft == Drafts!Last(drafts)
  <2>1. Drafts!Ask(w, Drafts!Parsed(draft.markdown, draft.sections, Drafts!Unset))
    BY <1>6 DEF Drafts!PostParseMarkdown
  <2>2. draft.sections = Drafts!ActiveSections
    BY <1>6 DEF Drafts!PostParseMarkdown, Drafts!ActiveSections
  <2>3. Steady => OwnIds(draft.sections) BY <1>0, <2>2, ActiveIds
  <2> HIDE DEF draft
  <2>4. ScriptAskRight(Drafts!Parsed(draft.markdown, draft.sections, Drafts!Unset), Steady)
    BY <1>0, <2>3, ParsedRight
  <2> QED BY <2>1, <2>4, AsksForScript DEF Drafts!Ask
<1>7. CASE Drafts!ReadSections(w)
  <2>1. Steady => OwnIds(Drafts!ActiveSections) BY <1>0, ActiveIds
  <2>2. ScriptAskRight(Drafts!Parsed(asked[w].blocks, Drafts!ActiveSections, asked[w].key), Steady)
    BY <1>0, <2>1, ParsedRight
  <2> QED BY <1>7, <2>2, AsksForScript DEF Drafts!ReadSections
<1> QED BY <1>2, <1>3, <1>4, <1>5, <1>6, <1>7

(* A draft is written that is right, or was there.                         *)
LEMMA WriteDraftKeeps ==
  ASSUME ScriptsHold, NEW w \in Authors, Drafts!WriteDraft(w) PROVE ScriptsHold'
<1> DEFINE row == asked[w].row
<1>1. /\ DraftRight(row, Steady) /\ DraftsInv /\ DOMAIN asked = Authors
      /\ asked' = [asked EXCEPT ![w] = [op |-> "idle"]] /\ UNCHANGED <<plans, shelf>>
  BY DEF Drafts!WriteDraft, ScriptsHold, ScriptAskRight, Drafts!Answered, Drafts!Idle
<1>2. drafts' = IF Drafts!Saved(Drafts!Range(drafts), row.key) THEN drafts ELSE Append(drafts, row)
  BY DEF Drafts!WriteDraft, Drafts!SaveDraft
<1>3. Drafts!Range(drafts) = Range(drafts) BY DEF Drafts!Range, Range
<1>4. \A steady : ScriptAskRight([op |-> "idle"], steady) BY DEF ScriptAskRight
<1>5. CASE drafts' = drafts
  <2>1. ScriptAskRight([op |-> "idle"], Steady) BY <1>4
  <2> QED BY <1>1, <1>5, <2>1, AsksForScript
<1>6. CASE drafts' = Append(drafts, row) /\ ~ Drafts!Saved(Range(drafts), row.key)
  <2>1. drafts \in Seq(Range(drafts)) /\ Drafts!KeysOnce(drafts) BY <1>1 DEF DraftsInv
  <2>2. /\ drafts' \in Seq(Range(drafts')) /\ DOMAIN drafts = 1..Len(drafts) /\ Len(drafts) \in Nat
        /\ DOMAIN drafts' = 1..(Len(drafts) + 1) /\ drafts'[Len(drafts) + 1] = row
        /\ \A i \in 1..Len(drafts) : drafts'[i] = drafts[i]
    BY <2>1, <1>6, Grown
  <2>3. Drafts!KeysOnce(drafts)' BY <2>1, <1>6, KeyOnce DEF Drafts!KeysOnce
  <2>4. 1..Len(drafts) \subseteq 1..(Len(drafts) + 1) /\ Len(drafts) + 1 \in 1..(Len(drafts) + 1)
        /\ \A i \in 1..(Len(drafts) + 1) : i \in 1..Len(drafts) \/ i = Len(drafts) + 1
    BY <2>2
  <2>5. Steady' => Steady BY <2>2, <2>4 DEF Steady
  <2>6. \A r : DraftRight(r, Steady) => DraftRight(r, Steady') BY <2>5 DEF DraftRight
  <2>7. \A i \in DOMAIN drafts' : DraftRight(drafts'[i], Steady')
    <3>1. \A i \in 1..Len(drafts) : DraftRight(drafts[i], Steady) BY <1>1, <2>2 DEF DraftsInv
    <3> QED BY <3>1, <1>1, <2>2, <2>4, <2>6
  <2>8. DraftsInv' BY <2>2, <2>3, <2>7 DEF DraftsInv
  <2>9. /\ DOMAIN asked' = Authors
        /\ \A q \in Authors : asked'[q] = IF q = w THEN [op |-> "idle"] ELSE asked[q]
    BY <1>1
  <2>10. \A q \in Authors : ScriptAskRight(asked'[q], Steady')
    <3>1. \A q \in Authors : ScriptAskRight(asked[q], Steady) BY DEF ScriptsHold
    <3>2. \A q \in Authors : ScriptAskRight(asked[q], Steady') BY <3>1, <2>6 DEF ScriptAskRight
    <3> QED BY <3>2, <2>9, <1>4
  <2>11. PlansInv' /\ ShelfInv' BY <1>1, WordsStay DEF ScriptsHold
  <2> QED BY <2>8, <2>9, <2>10, <2>11 DEF ScriptsHold, Authors
<1> QED BY <1>2, <1>3, <1>5, <1>6

(* Every step of the scripts.                                              *)
LEMMA ScriptsKeep == ScriptsHold /\ (Drafts!ScriptStep \/ Drafts!Move) => ScriptsHold'
<1> SUFFICES ASSUME ScriptsHold, Drafts!ScriptStep \/ Drafts!Move PROVE ScriptsHold' OBVIOUS
<1>1. CASE Drafts!Move
  <2>1. UNCHANGED <<drafts, plans, asked, shelf>> BY <1>1 DEF Drafts!Move
  <2>2. DraftsInv' /\ PlansInv' /\ ShelfInv' /\ Steady' = Steady BY <2>1, WordsStay DEF ScriptsHold
  <2> QED BY <2>1, <2>2 DEF ScriptsHold, Authors
<1>2. CASE Drafts!ScriptStep
  <2>1. Writers \subseteq Authors /\ Deliveries \subseteq Authors BY DEF Authors
  <2> QED BY <1>2, <2>1, ScriptBegins, WriteDraftKeeps DEF Drafts!ScriptStep, Authors
<1> QED BY <1>1, <1>2

(* One asks for something that would be right.                             *)
LEMMA AsksForPlan ==
  ASSUME PlansHold, UNCHANGED <<drafts, plans, shelf>>, NEW w \in Authors, NEW ask,
         asked' = [asked EXCEPT ![w] = ask], PlanAskRight(ask)
  PROVE  PlansHold'
<1>1. DraftsInv' /\ PlansInv' /\ ShelfInv' BY WordsStay DEF PlansHold
<1>2. DOMAIN asked' = Authors /\ \A q \in Authors : asked'[q] = IF q = w THEN ask ELSE asked[q]
  BY DEF PlansHold
<1>3. \A q \in Authors : PlanAskRight(asked'[q]) BY <1>2 DEF PlansHold
<1>4. \A q \in Authors : PlanAskRight(asked[q])' BY <1>3 DEF PlanAskRight, Patched
<1> QED BY <1>1, <1>2, <1>4 DEF PlansHold, Authors

(* The first step of everybody who writes a plan.                          *)
LEMMA PlanBeginsRight ==
  ASSUME PlansHold, NEW w \in Authors,
         Drafts!ReplaceVisualPlan(w) \/ Drafts!PatchScene(w) \/ Drafts!DeliverPlan(w)
  PROVE  PlansHold'
<1>0. plans \in Seq(Range(plans)) /\ Len(plans) \in Nat BY DEF PlansHold, PlansInv
<1>1. ASSUME NEW ask, ask.op = "plan", ask.expected = 0, ask.row.by # "guarded"
      PROVE PlanAskRight(ask)
  BY <1>0, <1>1 DEF PlanAskRight
<1>2. CASE Drafts!DeliverPlan(w)
  <2>1. PICK answered :
          Drafts!Ask(w, [op |-> "plan", expected |-> 0,
            row |-> Drafts!PlanRow(Drafts!PlanScenes(Drafts!ActiveSections, answered), KeyOf[w],
                                   "model", 0)])
    BY <1>2 DEF Drafts!DeliverPlan, Drafts!AnyVersion
  <2> DEFINE ask == [op |-> "plan", expected |-> 0,
               row |-> Drafts!PlanRow(Drafts!PlanScenes(Drafts!ActiveSections, answered), KeyOf[w],
                                      "model", 0)]
  <2>2. ask.op = "plan" /\ ask.expected = 0 /\ ask.row.by = "model" BY DEF Drafts!PlanRow
  <2>3. Drafts!Ask(w, ask) BY <2>1
  <2> HIDE DEF ask
  <2>4. PlanAskRight(ask) BY <1>1, <2>2
  <2> QED BY <2>3, <2>4, AsksForPlan DEF Drafts!Ask
<1>3. CASE Drafts!ReplaceVisualPlan(w)
  <2> DEFINE ask == [op |-> "plan", expected |-> 0,
               row |-> Drafts!PlanRow([Drafts!Last(plans).scenes EXCEPT ![1].prompt = "replaced"],
                                      Drafts!Unset, "replaced", 0)]
  <2>1. Drafts!Ask(w, ask) BY <1>3 DEF Drafts!ReplaceVisualPlan, Drafts!AnyVersion
  <2>2. ask.op = "plan" /\ ask.expected = 0 /\ ask.row.by = "replaced" BY DEF Drafts!PlanRow
  <2> HIDE DEF ask
  <2>4. PlanAskRight(ask) BY <1>1, <2>2
  <2> QED BY <2>1, <2>4, AsksForPlan DEF Drafts!Ask
<1>4. CASE Drafts!PatchScene(w)
  <2> DEFINE scenes == Drafts!Last(plans).scenes
             row(at, e) == Drafts!PlanRow([scenes EXCEPT ![at].prompt = w], Drafts!Unset,
                             IF e = 0 THEN "patch" ELSE "guarded", at)
             ask(at, e) == [op |-> "plan", expected |-> e, row |-> row(at, e)]
  <2>1. PICK e \in {0, Len(plans)}, i \in DOMAIN scenes :
          Drafts!Ask(w, ask(Drafts!FirstScene(scenes, scenes[i].id), e))
    BY <1>4 DEF Drafts!PatchScene, Drafts!AnyVersion
  <2>2. plans # <<>> BY <1>4 DEF Drafts!PatchScene
  <2>3. Len(plans) > 0 BY <1>0, <2>2
  <2>4. scenes = plans[Len(plans)].scenes BY DEF Drafts!Last
  <2>5. PICK at : Drafts!Ask(w, ask(at, e)) BY <2>1
  <2> HIDE DEF scenes
  <2>6. /\ ask(at, e).op = "plan" /\ ask(at, e).expected = e
        /\ ask(at, e).row.by = (IF e = 0 THEN "patch" ELSE "guarded")
        /\ ask(at, e).row.key = Drafts!Unset /\ ask(at, e).row.scene = at
        /\ ask(at, e).row.scenes = [scenes EXCEPT ![at].prompt = w]
    BY DEF Drafts!PlanRow
  <2>7. Drafts!Ask(w, ask(at, e)) BY <2>5
  <2> HIDE DEF ask
  <2>8. PlanAskRight(ask(at, e))
    <3>1. CASE e = 0 BY <3>1, <2>6, <1>1
    <3>2. CASE e # 0
      <4>1. e = Len(plans) BY <3>2
      <4>2. Patched(ask(at, e).row, scenes) BY <2>6 DEF Patched
      <4> QED BY <4>1, <4>2, <3>2, <2>4, <2>6, <1>0 DEF PlanAskRight
    <3> QED BY <3>1, <3>2
  <2> QED BY <2>7, <2>8, AsksForPlan DEF Drafts!Ask
<1> QED BY <1>2, <1>3, <1>4

(* A plan is written: whole, or on the version it was made from.           *)
LEMMA WritePlanKeeps ==
  ASSUME PlansHold, NEW w \in Authors, Drafts!WritePlan(w) PROVE PlansHold'
<1> DEFINE row == asked[w].row
           e == asked[w].expected
<1>1. /\ PlanAskRight(asked[w]) /\ asked[w].op = "plan" /\ DOMAIN asked = Authors
      /\ asked' = [asked EXCEPT ![w] = [op |-> "idle"]] /\ UNCHANGED <<drafts, shelf>>
      /\ plans \in Seq(Range(plans)) /\ Drafts!KeysOnce(plans) /\ Drafts!GuardedPatchesLoseNothing
  BY DEF Drafts!WritePlan, PlansHold, PlansInv, Drafts!Answered, Drafts!Idle
<1>2. \/ plans' = plans
      \/ plans' = Append(plans, row) /\ e = 0 /\ ~ Drafts!Saved(Range(plans), row.key)
      \/ plans' = Append(plans, row) /\ e # 0 /\ e = Len(plans)
  BY DEF Drafts!WritePlan, Drafts!SavePlan, Drafts!SavePlanIfVersion, Drafts!AnyVersion,
     Drafts!Range, Range
<1>3. /\ e \in 0..Len(plans) /\ (row.by = "guarded" <=> e # 0)
      /\ e # 0 => row.key = Drafts!Unset /\ Patched(row, plans[e].scenes)
  BY <1>1 DEF PlanAskRight
<1>4. \A q \in Authors : PlanAskRight(asked[q]) BY DEF PlansHold
<1>5. DraftsInv' /\ ShelfInv' BY <1>1, WordsStay DEF PlansHold
<1>6. /\ DOMAIN asked' = Authors
      /\ \A q \in Authors : asked'[q] = IF q = w THEN [op |-> "idle"] ELSE asked[q]
  BY <1>1
<1>7. CASE plans' = plans
  <2>1. PlanAskRight([op |-> "idle"]) BY DEF PlanAskRight
  <2> QED BY <1>1, <1>7, <2>1, AsksForPlan
<1>8. CASE plans' = Append(plans, row) /\ plans' # plans
  <2> HIDE DEF row, e
  <2>1. ~ Drafts!Saved(Range(plans), row.key) BY <1>2, <1>3, <1>8 DEF Drafts!Saved
  <2>2. /\ plans' \in Seq(Range(plans')) /\ DOMAIN plans = 1..Len(plans) /\ Len(plans) \in Nat
        /\ DOMAIN plans' = 1..(Len(plans) + 1) /\ plans'[Len(plans) + 1] = row
        /\ Len(plans') = Len(plans) + 1 /\ \A i \in 1..Len(plans) : plans'[i] = plans[i]
    BY <1>1, <1>8, Grown
  <2>3. Drafts!KeysOnce(plans)' BY <2>1, <1>1, <1>8, KeyOnce DEF Drafts!KeysOnce
  <2>4. ASSUME NEW n \in DOMAIN plans', plans'[n].by = "guarded"
        PROVE  /\ n > 1 /\ DOMAIN plans'[n].scenes = DOMAIN plans'[n - 1].scenes
               /\ \A i \in DOMAIN plans'[n].scenes \ {plans'[n].scene} :
                    plans'[n].scenes[i] = plans'[n - 1].scenes[i]
    <3>1. CASE n \in 1..Len(plans)
      <4>1. plans'[n] = plans[n] BY <3>1, <2>2
      <4>2. /\ n > 1 /\ DOMAIN plans[n].scenes = DOMAIN plans[n - 1].scenes
            /\ \A i \in DOMAIN plans[n].scenes \ {plans[n].scene} :
                 plans[n].scenes[i] = plans[n - 1].scenes[i]
        BY <4>1, <3>1, <2>2, <2>4, <1>1 DEF Drafts!GuardedPatchesLoseNothing
      <4>3. n - 1 \in 1..Len(plans) BY <4>2, <3>1, <2>2
      <4>4. plans'[n - 1] = plans[n - 1] BY <4>3, <2>2
      <4> QED BY <4>1, <4>2, <4>4
    <3>2. CASE n = Len(plans) + 1
      <4>1. plans'[n] = row BY <3>2, <2>2
      <4>2. e # 0 /\ e = Len(plans) BY <4>1, <2>4, <1>2, <1>3, <1>8
      <4>3. n > 1 /\ n - 1 = Len(plans) /\ Len(plans) \in 1..Len(plans) BY <4>2, <3>2, <2>2
      <4>4. plans'[n - 1] = plans[e] BY <4>2, <4>3, <2>2
      <4> QED BY <4>1, <4>2, <4>3, <4>4, <1>3 DEF Patched
    <3>3. n \in 1..Len(plans) \/ n = Len(plans) + 1 BY <2>2
    <3> QED BY <3>1, <3>2, <3>3
  <2>5. PlansInv' BY <2>2, <2>3, <2>4 DEF PlansInv, Drafts!GuardedPatchesLoseNothing
  <2>6. \A q \in Authors : PlanAskRight(asked[q])'
    <3>1. SUFFICES ASSUME NEW q \in Authors, asked'[q].op = "plan"
                   PROVE  PlanAskRight(asked[q])'
      BY <1>4, <1>6 DEF PlanAskRight
    <3>2. asked'[q] = asked[q] /\ PlanAskRight(asked[q]) BY <3>1, <1>4, <1>6
    <3>3. asked[q].expected \in 0..Len(plans) BY <3>1, <3>2 DEF PlanAskRight
    <3>4. asked[q].expected \in 0..Len(plans') BY <3>3, <2>2
    <3>5. asked[q].expected # 0 => plans'[asked[q].expected] = plans[asked[q].expected]
      BY <3>3, <2>2
    <3> QED BY <3>1, <3>2, <3>4, <3>5 DEF PlanAskRight, Patched
  <2> QED BY <2>5, <2>6, <1>5, <1>6 DEF PlansHold, Authors
<1> QED BY <1>2, <1>7, <1>8

(* Every step of the plans.                                                *)
LEMMA PlansKeep == PlansHold /\ (Drafts!PlanStep \/ Drafts!Move) => PlansHold'
<1> SUFFICES ASSUME PlansHold, Drafts!PlanStep \/ Drafts!Move PROVE PlansHold' OBVIOUS
<1>1. CASE Drafts!Move
  <2>1. UNCHANGED <<drafts, plans, asked, shelf>> BY <1>1 DEF Drafts!Move
  <2>2. DraftsInv' /\ PlansInv' /\ ShelfInv' BY <2>1, WordsStay DEF PlansHold
  <2>3. \A w \in Authors : PlanAskRight(asked[w])'
    BY <2>1 DEF PlansHold, PlanAskRight, Patched
  <2> QED BY <2>1, <2>2, <2>3 DEF PlansHold, Authors
<1>2. CASE Drafts!PlanStep
  <2>1. Writers \subseteq Authors /\ Deliveries \subseteq Authors BY DEF Authors
  <2> QED BY <1>2, <2>1, PlanBeginsRight, WritePlanKeeps DEF Drafts!PlanStep, Authors
<1> QED BY <1>1, <1>2

(* A number above all versions is free.                                    *)
LEMMA FreeVersion ==
  ASSUME NEW rows, rows \subseteq AssetRow
  PROVE  /\ Drafts!NextVersion(rows) \in Nat \ {0}
         /\ \A r \in rows : r.version < Drafts!NextVersion(rows)
<1> DEFINE V == {0} \cup {r.version : r \in rows}
           T == {n \in Nat : \E v \in V : n = LastAsset - v}
<1>0. LastAsset \in Nat BY DraftsAssumption
<1>1. \A v \in V : v \in 0..LastAsset BY <1>0 DEF AssetRow
<1>2. T \subseteq Nat /\ LastAsset - 0 \in T BY <1>0
<1>3. PICK n \in T : \A m \in T : ~(m < n) BY <1>2, LeastNumber
<1>4. PICK v \in V : n = LastAsset - v BY <1>3
<1>5. ASSUME NEW u \in V PROVE v >= u
  <2>1. u \in 0..LastAsset /\ v \in 0..LastAsset BY <1>1
  <2>2. LastAsset - u \in T BY <2>1, <1>0
  <2>3. ~(LastAsset - u < LastAsset - v) BY <2>2, <1>3, <1>4
  <2> QED BY <2>1, <2>3, <1>0
<1>6. Drafts!Max(V) \in V /\ \A u \in V : Drafts!Max(V) >= u BY <1>4, <1>5 DEF Drafts!Max
<1>7. Drafts!NextVersion(rows) = 1 + Drafts!Max(V) BY DEF Drafts!NextVersion
<1>8. \A r \in rows : r.version \in V OBVIOUS
<1> HIDE DEF V
<1>9. \A r \in rows : Drafts!Max(V) \in Int /\ r.version \in Int /\ Drafts!Max(V) >= r.version
  BY <1>1, <1>6, <1>8
<1>10. Drafts!Max(V) \in Nat BY <1>0, <1>1, <1>6
<1> QED BY <1>7, <1>9, <1>10

(* One image active, and no other.                                         *)
LEMMA OnlyOne ==
  ASSUME NEW rows, RowsRight(rows), NEW version
  PROVE  /\ RowsRight(Drafts!OnlyActive(rows, version))
         /\ \A r \in Drafts!OnlyActive(rows, version) :
              (r.active <=> r.version = version) /\ \E q \in rows : r.version = q.version
         /\ Drafts!SetActivePg(rows, version) = Drafts!OnlyActive(rows, version)
<1> DEFINE Only(r) == [r EXCEPT !.active = r.version = version]
           Clear(r) == [r EXCEPT !.active = FALSE]
           Twice(r) == IF Clear(r).version = version THEN [Clear(r) EXCEPT !.active = TRUE]
                                                     ELSE Clear(r)
<1>1. \A r \in rows : /\ Only(r) \in AssetRow /\ Only(r).version = r.version
                      /\ Only(r).active <=> r.version = version
  BY DEF RowsRight, AssetRow
<1>2. Drafts!OnlyActive(rows, version) = {Only(r) : r \in rows} BY DEF Drafts!OnlyActive
<1>3. \A r, q \in rows : r.version = q.version => r = q BY DEF RowsRight
<1>4. ASSUME NEW r \in rows PROVE Twice(r) = Only(r) BY <1>4 DEF RowsRight, AssetRow
<1>5. Drafts!SetActivePg(rows, version) = {Twice(r) : r \in rows} BY DEF Drafts!SetActivePg
<1> HIDE DEF Twice
<1>6. Drafts!SetActivePg(rows, version) = {Only(r) : r \in rows} BY <1>4, <1>5
<1> HIDE DEF Only
<1>7. RowsRight({Only(r) : r \in rows})
  <2>1. {Only(r) : r \in rows} \subseteq AssetRow BY <1>1
  <2>2. ASSUME NEW r \in rows, NEW q \in rows,
               Only(r).version = Only(q).version \/ (Only(r).active /\ Only(q).active)
        PROVE  Only(r) = Only(q)
    <3>1. r.version = q.version BY <2>2, <1>1
    <3> QED BY <3>1, <1>3
  <2> QED BY <2>1, <2>2 DEF RowsRight
<1> QED BY <1>1, <1>2, <1>6, <1>7

(* An image more has a version of its own.                                 *)
LEMMA OneMore ==
  ASSUME NEW rows, RowsRight(rows), NEW active \in BOOLEAN,
         NEW key \in {KeyOf[d] : d \in Deliveries} \cup {Drafts!Unset},
         Drafts!NextVersion(rows) <= LastAsset
  PROVE  RowsRight(Drafts!WithAsset(rows, key, active))
<1>1. CASE Drafts!Saved(rows, key) BY <1>1 DEF Drafts!WithAsset
<1>2. CASE ~ Drafts!Saved(rows, key)
  <2> DEFINE version == Drafts!NextVersion(rows)
             others == IF active THEN Drafts!OnlyActive(rows, version) ELSE rows
             row == [version |-> version, active |-> active, key |-> key]
  <2>1. Drafts!WithAsset(rows, key, active) = others \cup {row} BY <1>2 DEF Drafts!WithAsset
  <2>2. version \in Nat \ {0} /\ version <= LastAsset /\ \A r \in rows : r.version < version
    BY FreeVersion DEF RowsRight
  <2>3. \A r \in rows : r.version # version BY <2>2 DEF RowsRight, AssetRow
  <2>4. row \in AssetRow BY <2>2, DraftsAssumption DEF AssetRow
  <2> HIDE DEF version
  <2>5. RowsRight(others) BY OnlyOne
  <2>6. \A r \in others : r.version # version /\ (active => ~ r.active) BY <2>3, OnlyOne
  <2>7. row.version = version /\ row.active = active OBVIOUS
  <2> HIDE DEF others, row
  <2>8. others \cup {row} \subseteq AssetRow BY <2>4, <2>5 DEF RowsRight
  <2>9. ASSUME NEW r \in others \cup {row}, NEW q \in others \cup {row},
               r.version = q.version \/ (r.active /\ q.active)
        PROVE  r = q
    <3>1. CASE r \in others /\ q \in others BY <3>1, <2>5, <2>9 DEF RowsRight
    <3>2. CASE r = row /\ q \in others BY <3>2, <2>6, <2>7, <2>9
    <3>3. CASE q = row /\ r \in others BY <3>3, <2>6, <2>7, <2>9
    <3>4. CASE r = row /\ q = row BY <3>4
    <3> QED BY <3>1, <3>2, <3>3, <3>4
  <2> QED BY <2>1, <2>8, <2>9 DEF RowsRight
<1> QED BY <1>1, <1>2

(* Every step of the shelf.                                                *)
LEMMA ShelfKeeps == ShelfHolds /\ Drafts!ShelfStep => ShelfHolds'
<1> SUFFICES ASSUME ShelfHolds, Drafts!ShelfStep PROVE ShelfHolds' OBVIOUS
<1>0. ShelfInv /\ RowsRight(shelf.pg) /\ shelf.double = shelf.pg /\ DOMAIN asked = Authors
  BY DEF ShelfHolds, ShelfInv
<1>1. ASSUME NEW pg, RowsRight(pg), Drafts!Shelve(pg, pg), DOMAIN asked' = Authors
      PROVE  ShelfHolds'
  <2>1. UNCHANGED <<drafts, plans>> /\ shelf' = [pg |-> pg, double |-> pg]
    BY <1>1 DEF Drafts!Shelve
  <2>2. DraftsInv' /\ PlansInv' BY <2>1, WordsStay DEF ShelfHolds
  <2>3. DOMAIN shelf' = {"pg", "double"} /\ shelf'.pg = pg /\ shelf'.double = pg BY <2>1
  <2>4. ShelfInv' BY <2>3, <1>1 DEF ShelfInv, RowsRight, AssetRow
  <2> QED BY <2>2, <2>4, <1>1 DEF ShelfHolds, Authors
<1>2. ASSUME NEW key \in {KeyOf[d] : d \in Deliveries} \cup {Drafts!Unset}, NEW active \in BOOLEAN,
             Drafts!CreateAsset(key, active)
      PROVE  ShelfHolds'
  BY <1>0, <1>1, <1>2, OneMore DEF Drafts!CreateAsset
<1>3. ASSUME NEW w \in Writers, Drafts!SelectActive(w) PROVE ShelfHolds'
  <2>1. UNCHANGED <<drafts, plans, shelf>> /\ DOMAIN asked' = DOMAIN asked
    BY <1>3 DEF Drafts!SelectActive, Drafts!Ask
  <2>2. DraftsInv' /\ PlansInv' /\ ShelfInv' BY <2>1, WordsStay DEF ShelfHolds
  <2> QED BY <2>1, <2>2, <1>0 DEF ShelfHolds, Authors
<1>4. ASSUME NEW w \in Writers, Drafts!SetActive(w) PROVE ShelfHolds'
  <2>1. Drafts!Shelve(Drafts!OnlyActive(shelf.pg, asked[w].version),
                      Drafts!OnlyActive(shelf.pg, asked[w].version))
    BY <1>0, <1>4, OnlyOne DEF Drafts!SetActive, Drafts!SetActiveDouble
  <2>2. DOMAIN asked' = Authors BY <1>0, <1>4 DEF Drafts!SetActive, Drafts!Answered
  <2> QED BY <2>1, <2>2, <1>0, <1>1, OnlyOne
<1>5. ASSUME NEW version, Drafts!DeleteAsset(version) PROVE ShelfHolds'
  <2>1. RowsRight(Drafts!DropVersion(shelf.pg, version)) BY <1>0 DEF RowsRight, Drafts!DropVersion
  <2> QED BY <2>1, <1>0, <1>1, <1>5 DEF Drafts!DeleteAsset
<1> QED BY <1>2, <1>3, <1>4, <1>5 DEF Drafts!ShelfStep

(* The drafts begin right.                                                 *)
LEMMA WordsBeginRight ==
  /\ Drafts!ScriptsBegin => ScriptsHold
  /\ Drafts!PlansBegin => PlansHold
  /\ Drafts!ShelfBegins => ShelfHolds
<1>1. ASSUME NEW first, NEW scripts, Drafts!DraftsBegin(first, scripts)
      PROVE  PlansInv /\ ShelfInv /\ drafts \in scripts
  <2>1. plans = <<>> /\ shelf = [pg |-> {}, double |-> {}] /\ drafts \in scripts
    BY <1>1 DEF Drafts!DraftsBegin
  <2>2. DOMAIN plans = {} /\ Range(plans) = {} /\ plans \in Seq({}) BY <2>1 DEF Range
  <2>3. PlansInv BY <2>2 DEF PlansInv, Drafts!KeysOnce, Drafts!GuardedPatchesLoseNothing
  <2>4. shelf.pg = {} /\ shelf.double = {} /\ DOMAIN shelf = {"pg", "double"} BY <2>1
  <2>5. ShelfInv BY <2>4 DEF ShelfInv, RowsRight
  <2> QED BY <2>1, <2>3, <2>5
<1>2. drafts = <<>> => DraftsInv
  <2>1. DOMAIN <<>> = {} /\ Range(<<>>) = {} /\ <<>> \in Seq({}) BY DEF Range
  <2> QED BY <2>1 DEF DraftsInv, Drafts!KeysOnce
<1>3. /\ DOMAIN Drafts!NobodyAsks = Authors
      /\ \A w \in Authors : Drafts!NobodyAsks[w] = [op |-> "idle"]
  BY DEF Drafts!NobodyAsks, Drafts!Idle, Authors
<1>4. Steady \in BOOLEAN BY DEF Steady
<1>5. ScriptAskRight([op |-> "idle"], Steady) /\ PlanAskRight([op |-> "idle"])
  BY DEF ScriptAskRight, PlanAskRight
<1>6. ASSUME Drafts!ScriptsBegin PROVE ScriptsHold
  <2>1. \/ Drafts!DraftsBegin("IDEA_READY", {<<>>}) /\ asked = Drafts!NobodyAsks
        \/ /\ Drafts!DraftsBegin("SCRIPT_REVIEW", {<<>>})
           /\ \E w \in Writers, import \in Drafts!ImportMarkdown \cup Drafts!ImportJson :
                asked = [Drafts!NobodyAsks EXCEPT ![w] = import]
    BY <1>6 DEF Drafts!ScriptsBegin
  <2>2. PlansInv /\ ShelfInv /\ drafts \in {<<>>} BY <2>1, <1>1
  <2>3. DraftsInv BY <2>2, <1>2
  <2>4. CASE asked = Drafts!NobodyAsks BY <2>2, <2>3, <2>4, <1>3, <1>5 DEF ScriptsHold
  <2>5. CASE \E w \in Writers, import \in Drafts!ImportMarkdown \cup Drafts!ImportJson :
                asked = [Drafts!NobodyAsks EXCEPT ![w] = import]
    <3>1. PICK w \in Writers, import \in Drafts!ImportMarkdown \cup Drafts!ImportJson :
                asked = [Drafts!NobodyAsks EXCEPT ![w] = import]
      BY <2>5
    <3>2. ScriptAskRight(import, Steady)
      <4>1. CASE import \in Drafts!ImportMarkdown
        BY <4>1 DEF Drafts!ImportMarkdown, ScriptAskRight
      <4>2. CASE import \in Drafts!ImportJson
        <5>1. PICK scenes \in Scripts : import = Drafts!Sections(Drafts!ParseJsonScenes(scenes), FALSE)
          BY <4>2 DEF Drafts!ImportJson
        <5> QED BY <5>1, <1>4, JsonIds, SectionsRight
      <4> QED BY <3>1, <4>1, <4>2
    <3>3. /\ DOMAIN asked = Authors
          /\ \A q \in Authors : asked[q] = IF q = w THEN import ELSE [op |-> "idle"]
      BY <3>1, <1>3
    <3> QED BY <3>2, <3>3, <2>2, <2>3, <1>5 DEF ScriptsHold
  <2> QED BY <2>1, <2>4, <2>5
<1>7. ASSUME Drafts!PlansBegin PROVE PlansHold
  <2>1. /\ Drafts!DraftsBegin("VISUAL_PLAN_SETUP",
             {<<Drafts!Sections(Drafts!ParseJsonScenes(s), FALSE).row>> : s \in Scripts})
        /\ asked = Drafts!NobodyAsks
    BY <1>7 DEF Drafts!PlansBegin
  <2>2. PlansInv /\ ShelfInv
        /\ drafts \in {<<Drafts!Sections(Drafts!ParseJsonScenes(s), FALSE).row>> : s \in Scripts}
    BY <2>1, <1>1
  <2>3. PICK s \in Scripts : drafts = <<Drafts!Sections(Drafts!ParseJsonScenes(s), FALSE).row>>
    BY <2>2
  <2> DEFINE row == Drafts!Sections(Drafts!ParseJsonScenes(s), FALSE).row
  <2>4. DraftRight(row, Steady) BY <1>4, JsonIds, SectionsRight
  <2>5. drafts = <<row>> BY <2>3
  <2> HIDE DEF row
  <2>6. DOMAIN drafts = {1} /\ drafts[1] = row /\ drafts \in Seq({row}) BY <2>5
  <2>7. Range(drafts) = {row} BY <2>6 DEF Range
  <2>8. DraftsInv BY <2>4, <2>6, <2>7 DEF DraftsInv, Drafts!KeysOnce
  <2> QED BY <2>1, <2>2, <2>8, <1>3, <1>5 DEF PlansHold
<1>8. ASSUME Drafts!ShelfBegins PROVE ShelfHolds
  BY <1>1, <1>2, <1>3, <1>8 DEF Drafts!ShelfBegins, ShelfHolds
<1> QED BY <1>6, <1>7, <1>8

(* What is kept, of each part.                                             *)
WordsInv ==
  /\ part = "scripts" => ScriptsHold
  /\ part = "plans" => PlansHold
  /\ part = "shelf" => ShelfHolds

(* It holds at the start.                                                  *)
LEMMA WordsBegins == EditorInit => WordsInv
<1> SUFFICES ASSUME EditorInit PROVE WordsInv OBVIOUS
<1>1. CASE part \in {"scripts", "plans", "shelf"}
  <2>1. WordsBegin BY <1>1 DEF EditorInit, PagesBegin
  <2> QED BY <2>1, WordsBeginRight DEF WordsBegin, WordsInv
<1>2. CASE part \notin {"scripts", "plans", "shelf"} BY <1>2 DEF WordsInv
<1> QED BY <1>1, <1>2

(* It is kept by every step.                                               *)
LEMMA WordsKeep == WordsInv /\ [EditorNext]_editorVars => WordsInv'
<1> SUFFICES ASSUME WordsInv, [EditorNext]_editorVars PROVE WordsInv' OBVIOUS
<1>1. part' = part /\ (UNCHANGED draftVars \/ DraftsMove)
  BY DEF EditorNext, editorVars
<1>2. CASE UNCHANGED draftVars
  <2>1. UNCHANGED <<drafts, plans, asked, shelf>> BY <1>2 DEF draftVars
  <2>2. ASSUME ScriptsHold PROVE ScriptsHold'
    <3>1. DraftsInv' /\ PlansInv' /\ ShelfInv' /\ Steady' = Steady
      BY <2>1, <2>2, WordsStay DEF ScriptsHold
    <3> QED BY <2>1, <2>2, <3>1 DEF ScriptsHold, Authors
  <2>3. ASSUME PlansHold PROVE PlansHold'
    <3>1. DraftsInv' /\ PlansInv' /\ ShelfInv' BY <2>1, <2>3, WordsStay DEF PlansHold
    <3>2. \A w \in Authors : PlanAskRight(asked[w])'
      BY <2>1, <2>3 DEF PlansHold, PlanAskRight, Patched
    <3> QED BY <2>1, <2>3, <3>1, <3>2 DEF PlansHold, Authors
  <2>4. ASSUME ShelfHolds PROVE ShelfHolds'
    <3>1. DraftsInv' /\ PlansInv' /\ ShelfInv' BY <2>1, <2>4, WordsStay DEF ShelfHolds
    <3> QED BY <2>1, <2>4, <3>1 DEF ShelfHolds, Authors
  <2> QED BY <1>1, <2>2, <2>3, <2>4 DEF WordsInv
<1>3. CASE DraftsMove
  <2>1. CASE part = "scripts" BY <1>1, <1>3, <2>1, ScriptsKeep DEF DraftsMove, WordsInv
  <2>2. CASE part = "plans" BY <1>1, <1>3, <2>2, PlansKeep DEF DraftsMove, WordsInv
  <2>3. CASE part = "shelf" BY <1>1, <1>3, <2>3, ShelfKeeps DEF DraftsMove, WordsInv
  <2> QED BY <1>3, <2>1, <2>2, <2>3 DEF DraftsMove
<1> QED BY <1>1, <1>2, <1>3

(* What follows from it for the user.                                      *)
LEMMA WordsPromise == WordsInv => DraftsKept
<1>1. DraftsInv => Drafts!SectionIdsAreDistinct /\ Drafts!ReparsingIsStable
  <2> SUFFICES ASSUME DraftsInv PROVE Drafts!SectionIdsAreDistinct /\ Drafts!ReparsingIsStable
    OBVIOUS
  <2>1. Drafts!ReparsingIsStable BY DEF DraftsInv, DraftRight, Drafts!ReparsingIsStable
  <2>2. ASSUME Steady, NEW n \in DOMAIN drafts
        PROVE  Drafts!IsInjective([i \in DOMAIN drafts[n].sections |-> drafts[n].sections[i].id])
    <3>1. OwnIds(drafts[n].sections) BY <2>2 DEF DraftsInv, DraftRight, Steady
    <3> QED BY <3>1 DEF OwnIds, Drafts!IsInjective
  <2> QED BY <2>1, <2>2 DEF Drafts!SectionIdsAreDistinct, Steady
<1>2. ShelfInv => Drafts!OneActiveImage
  <2> SUFFICES ASSUME ShelfInv PROVE Drafts!OneActiveImage OBVIOUS
  <2> DEFINE A == {r \in shelf.pg : r.active}
  <2>1. \A r, q \in A : r = q BY DEF ShelfInv, RowsRight
  <2>2. A = {} \/ \E r : A = {r}
    <3> HIDE DEF A
    <3> QED BY <2>1
  <2> HIDE DEF A
  <2>3. Cardinality(A) = 0 \/ Cardinality(A) = 1
    <3>1. CASE A = {} BY <3>1, FS_EmptySet
    <3>2. CASE \E r : A = {r} BY <3>2, FS_Singleton
    <3> QED BY <2>2, <3>1, <3>2
  <2>4. Drafts!Cardinality(A) = Cardinality(A) BY DEF Drafts!Cardinality, Cardinality
  <2> QED BY <2>3, <2>4 DEF A, ShelfInv, Drafts!OneActiveImage
<1>3. DraftsInv /\ PlansInv => Drafts!OneVersionPerTask /\ Drafts!GuardedPatchesLoseNothing
  BY DEF DraftsInv, PlansInv, Drafts!OneVersionPerTask
<1> QED BY <1>1, <1>2, <1>3
    DEF WordsInv, ScriptsHold, PlansHold, ShelfHolds, DraftsKept, Drafts!DraftsAreKept

(* No version of a script or a plan, no section and no image of a scene is *)
(* lost or doubled by readers, writers and redelivered tasks that overlap. *)
THEOREM DraftsAreSafe == EditorSpec => []DraftsKept
<1>1. EditorSpec => []WordsInv BY WordsBegins, WordsKeep, PTL DEF EditorSpec
<1> QED BY <1>1, WordsPromise, PTL

-----------------------------------------------------------------------------
(* The session.  What a command makes of an orderly timeline has its       *)
(* segments in order and within their sources, whether the server accepts  *)
(* it or not; that durations are positive is what it is accepted for.      *)
Shaped(s) ==
  /\ DOMAIN s = {"id", "scene", "asset", "start", "dur", "ts", "te", "tr"}
  /\ s.asset \in Assets /\ s.start \in Int /\ s.dur \in Int
  /\ s.ts \in {None} \cup Nat /\ s.te \in {None} \cup Nat
  /\ Kind[s.asset] = "video" => WithinSource(s) /\ From(s) + s.dur <= Length[s.asset]
Sorted(segs) == \A i, j \in DOMAIN segs : i < j => segs[i].start <= segs[j].start
Arranged(segs) ==
  segs \in Seq(Range(segs)) /\ Sorted(segs) /\ \A i \in DOMAIN segs : Shaped(segs[i])

(* What holds of every orderly timeline.                                   *)
LEMMA OrderlyFacts ==
  ASSUME NEW segs, Orderly(segs)
  PROVE  /\ Len(segs) \in Nat /\ DOMAIN segs = 1..Len(segs) /\ segs \in Seq(Range(segs))
         /\ \A i \in 1..Len(segs) : /\ Fits(segs[i]) /\ Shaped(segs[i])
                                    /\ segs[i].start \in Nat /\ segs[i].dur \in Nat
                                    /\ segs[i].dur > 0
         /\ \A i, j \in 1..Len(segs) : i < j => segs[i].start + segs[i].dur <= segs[j].start
<1>1. segs \in Seq(Range(segs)) BY DEF Orderly
<1>2. Len(segs) \in Nat /\ DOMAIN segs = 1..Len(segs) BY <1>1
<1>3. \A i \in 1..Len(segs) : Fits(segs[i]) BY <1>2 DEF Orderly
<1>4. \A s : Fits(s) => Shaped(s) /\ s.start \in Nat /\ s.dur \in Nat /\ s.dur > 0
  BY DEF Fits, Shaped
<1>5. \A i, j \in 1..Len(segs) : i < j => segs[i].start + segs[i].dur <= segs[j].start
  BY <1>2 DEF Orderly, InOrder, End
<1> QED BY <1>1, <1>2, <1>3, <1>4, <1>5

(* An accepted arrangement is orderly.                                     *)
LEMMA ValidIsOrderly ==
  ASSUME NEW segs, Arranged(segs), Valid(segs)
  PROVE  Orderly(segs)
<1>1. segs \in Seq(Range(segs)) /\ \A i \in DOMAIN segs : Shaped(segs[i]) BY DEF Arranged
<1>2. \A i \in DOMAIN segs : segs[i].start >= 0 /\ segs[i].dur > 0 BY DEF Valid, SoundSegment
<1>3. \A s : Shaped(s) /\ s.start >= 0 /\ s.dur > 0 => Fits(s) BY DEF Shaped, Fits
<1>4. ASSUME NEW i \in DOMAIN segs, NEW j \in DOMAIN segs, i < j
      PROVE  End(segs[i]) <= segs[j].start
  <2>1. i # j BY <1>1, <1>4
  <2>2. Disjoint(segs[i], segs[j]) BY <2>1 DEF Valid
  <2>3. segs[i].start <= segs[j].start BY <1>4 DEF Arranged, Sorted
  <2>4. /\ segs[i].start \in Int /\ segs[j].start \in Int
        /\ segs[i].dur \in Int /\ segs[j].dur \in Int
    BY <1>1 DEF Shaped
  <2> QED BY <1>2, <2>2, <2>3, <2>4 DEF Disjoint, End
<1> QED BY <1>1, <1>2, <1>3, <1>4 DEF Orderly, InOrder

(* A sequence is one of what is in it.                                     *)
LEMMA OfItsOwn == ASSUME NEW S, NEW s \in Seq(S) PROVE s \in Seq(Range(s))
<1>1. Len(s) \in Nat /\ DOMAIN s = 1..Len(s) /\ s \in [1..Len(s) -> S] OBVIOUS
<1>2. \A i \in 1..Len(s) : s[i] \in Range(s) BY <1>1 DEF Range
<1>3. s \in [1..Len(s) -> Range(s)] BY <1>1, <1>2
<1> QED BY <1>1, <1>3

(* A function on the first numbers is a sequence.                          *)
LEMMA Listed ==
  ASSUME NEW n \in Nat, NEW f, f = [i \in 1..n |-> f[i]]
  PROVE  f \in Seq(Range(f)) /\ Len(f) = n /\ DOMAIN f = 1..n
<1>1. DOMAIN f = 1..n OBVIOUS
<1>2. \A i \in 1..n : f[i] \in Range(f) BY <1>1 DEF Range
<1>3. f \in [1..n -> Range(f)] BY <1>2
<1>4. f \in Seq(Range(f)) BY <1>3
<1>5. Len(f) \in Nat /\ DOMAIN f = 1..Len(f) BY <1>4
<1>6. Len(f) = n BY <1>1, <1>5
<1> QED BY <1>1, <1>4, <1>6

(* One segment is exchanged: with the same start the order stays.          *)
LEMMA Exchanged ==
  ASSUME NEW segs, Orderly(segs), NEW k \in DOMAIN segs, NEW new, Shaped(new),
         new.start = segs[k].start
  PROVE  Arranged([segs EXCEPT ![k] = new])
<1> DEFINE t == [segs EXCEPT ![k] = new]
<1>1. /\ Len(segs) \in Nat /\ DOMAIN segs = 1..Len(segs)
      /\ \A i \in 1..Len(segs) : Shaped(segs[i]) /\ segs[i].start \in Nat
      /\ \A i, j \in 1..Len(segs) : i < j => segs[i].start <= segs[j].start
  <2>1. \A i, j \in 1..Len(segs) : i < j => segs[i].start <= segs[j].start
    BY OrderlyFacts
  <2> QED BY <2>1, OrderlyFacts
<1>2. DOMAIN t = 1..Len(segs) /\ t = [i \in 1..Len(segs) |-> IF i = k THEN new ELSE segs[i]]
  BY <1>1
<1>3. \A i \in 1..Len(segs) : t[i] = IF i = k THEN new ELSE segs[i] BY <1>2
<1>4. t = [i \in 1..Len(segs) |-> t[i]] BY <1>2
<1> HIDE DEF t
<1>5. t \in Seq(Range(t)) BY <1>1, <1>4, Listed
<1>6. \A i \in 1..Len(segs) : t[i].start = segs[i].start BY <1>3
<1>7. Sorted(t) BY <1>1, <1>2, <1>6 DEF Sorted
<1>8. \A i \in DOMAIN t : Shaped(t[i]) BY <1>1, <1>2, <1>3
<1> QED BY <1>5, <1>7, <1>8 DEF Arranged, t

(* Trimming leaves a segment in its place and within its source.           *)
LEMMA TrimArranges ==
  ASSUME NEW segs, Orderly(segs), NEW c, c.from \in Nat, c.to \in Nat,
         NEW t \in ApplyTrim(lib, segs, c)
  PROVE  Arranged(t)
<1>1. PICK i \in Resolved(lib, segs, c.seg) :
        /\ t = [segs EXCEPT ![i] = [@ EXCEPT !.ts = c.from, !.te = c.to, !.dur = c.to - c.from]]
        /\ c.from <= c.to /\ (Bounded(lib, segs[i]) => c.to <= Length[segs[i].asset])
  BY DEF ApplyTrim
<1>2. i \in DOMAIN segs BY <1>1 DEF Resolved, At
<1>3. Shaped(segs[i]) BY <1>2, OrderlyFacts
<1> DEFINE new == [segs[i] EXCEPT !.ts = c.from, !.te = c.to, !.dur = c.to - c.from]
<1>4. /\ DOMAIN new = DOMAIN segs[i] /\ new.ts = c.from /\ new.te = c.to
      /\ new.dur = c.to - c.from /\ new.start = segs[i].start /\ new.asset = segs[i].asset
  BY <1>3 DEF Shaped
<1>5. t = [segs EXCEPT ![i] = new] BY <1>1, <1>2
<1> HIDE DEF new
<1>6. From(new) + new.dur = c.to /\ SourceEnd(new) = c.to
  BY <1>4 DEF From, SourceEnd, None
<1>7. Shaped(new)
  <2>1. c.to - c.from \in Int OBVIOUS
  <2> QED BY <1>1, <1>3, <1>4, <1>6, <2>1 DEF Shaped, Bounded, WithinSource
<1> QED BY <1>2, <1>4, <1>5, <1>7, Exchanged

(* A transition touches neither time nor source.                           *)
LEMMA TransitionArranges ==
  ASSUME NEW segs, Orderly(segs), NEW c, NEW t \in ApplyTransition(segs, c)
  PROVE  Arranged(t)
<1>1. PICK i \in At(segs, c.seg) : t = [segs EXCEPT ![i].tr = c.tr]
  BY DEF ApplyTransition
<1>2. i \in DOMAIN segs BY <1>1 DEF At
<1>3. Shaped(segs[i]) BY <1>2, OrderlyFacts
<1> DEFINE new == [segs[i] EXCEPT !.tr = c.tr]
<1>4. /\ DOMAIN new = DOMAIN segs[i] /\ new.ts = segs[i].ts /\ new.te = segs[i].te
      /\ new.dur = segs[i].dur /\ new.start = segs[i].start /\ new.asset = segs[i].asset
  BY <1>3 DEF Shaped
<1>5. t = [segs EXCEPT ![i] = new] BY <1>1, <1>2
<1> HIDE DEF new
<1>6. Shaped(new) BY <1>3, <1>4 DEF Shaped, WithinSource, SourceEnd, From
<1> QED BY <1>2, <1>4, <1>5, <1>6, Exchanged

(* An asset that replaces another is cut to what it has.                   *)
LEMMA ReplaceArranges ==
  ASSUME NEW segs, Orderly(segs), lib \subseteq Assets, NEW c, NEW t \in ApplyReplace(lib, segs, c)
  PROVE  Arranged(t)
<1>1. PICK i \in At(segs, c.seg) : t = [segs EXCEPT ![i] = Refitted(@, c.asset)] /\ c.asset \in lib
  BY DEF ApplyReplace
<1>2. i \in DOMAIN segs /\ c.asset \in Assets BY <1>1 DEF At
<1> DEFINE s == segs[i]
           from == Least(From(s), Most(0, Length[c.asset] - 1))
           wanted == IF s.te # None THEN s.te ELSE from + s.dur
           to == Least(wanted, Length[c.asset])
           kept == [s EXCEPT !.asset = c.asset]
           cut == [kept EXCEPT !.ts = from, !.te = to, !.dur = to - from]
           new == Refitted(s, c.asset)
<1>3. Shaped(s) /\ s.dur \in Nat BY <1>2, OrderlyFacts
<1>4. /\ DOMAIN kept = DOMAIN s /\ kept.asset = c.asset /\ kept.ts = s.ts /\ kept.te = s.te
      /\ kept.start = s.start /\ kept.dur = s.dur
  BY <1>3 DEF Shaped
<1>5. /\ DOMAIN cut = DOMAIN s /\ cut.asset = c.asset /\ cut.ts = from /\ cut.te = to
      /\ cut.start = s.start /\ cut.dur = to - from
  BY <1>3 DEF Shaped
<1>6. new = IF /\ Kind[c.asset] = "video"
               /\ to < wanted \/ From(s) # from \/ s.dur > to - from
            THEN cut ELSE kept
  BY DEF Refitted
<1>7. t = [segs EXCEPT ![i] = new] BY <1>1, <1>2
<1>8. Length[c.asset] \in Nat BY <1>2, EditsAssumption
<1>9. From(s) \in Nat BY <1>3 DEF From, Shaped
<1>10. from \in Nat /\ wanted \in Nat
  <2>1. from \in Nat BY <1>8, <1>9 DEF Least, Most
  <2> QED BY <2>1, <1>3 DEF Shaped
<1>11. to \in Nat /\ to <= Length[c.asset] /\ to <= wanted BY <1>8, <1>10 DEF Least
<1> HIDE DEF new, cut, kept, to, from
<1>12. Shaped(cut)
  <2>1. From(cut) + cut.dur = to /\ SourceEnd(cut) = to
    BY <1>5, <1>10, <1>11 DEF From, SourceEnd, None
  <2>2. to - from \in Int BY <1>10, <1>11
  <2> QED BY <1>2, <1>3, <1>5, <1>10, <1>11, <2>1, <2>2 DEF Shaped, WithinSource
<1>13. CASE Kind[c.asset] = "video" => /\ ~(to < wanted) /\ From(s) = from /\ s.dur <= to - from
  <2>1. From(kept) = From(s) /\ SourceEnd(kept) = IF s.te # None THEN s.te ELSE From(s) + s.dur
    BY <1>4 DEF From, SourceEnd
  <2>2. Kind[c.asset] = "video" => /\ SourceEnd(kept) <= Length[c.asset]
                                   /\ From(kept) + kept.dur <= Length[c.asset]
    <3> SUFFICES ASSUME Kind[c.asset] = "video"
                 PROVE  /\ SourceEnd(kept) <= Length[c.asset]
                        /\ From(kept) + kept.dur <= Length[c.asset]
      OBVIOUS
    <3>1. to = wanted /\ From(s) = from /\ s.dur <= to - from BY <1>10, <1>11, <1>13
    <3>2. SourceEnd(kept) = wanted BY <2>1, <3>1
    <3> QED BY <1>4, <1>3, <1>8, <1>9, <1>10, <1>11, <2>1, <3>1, <3>2
  <2>3. Shaped(kept) BY <1>2, <1>3, <1>4, <2>2 DEF Shaped, WithinSource
  <2>4. new = cut \/ new = kept BY <1>6
  <2> QED BY <1>2, <1>4, <1>5, <1>7, <1>12, <2>3, <2>4, Exchanged
<1>14. CASE ~(Kind[c.asset] = "video" => /\ ~(to < wanted) /\ From(s) = from /\ s.dur <= to - from)
  <2>1. s.dur > to - from \/ s.dur <= to - from BY <1>3, <1>10, <1>11
  <2>2. new = cut BY <1>6, <1>14, <2>1
  <2> QED BY <1>2, <1>5, <1>7, <1>12, <2>2, Exchanged
<1> QED BY <1>13, <1>14

(* What is left when one is taken out.                                     *)
LEMMA TakenOut ==
  ASSUME NEW s, s \in Seq(Range(s)), NEW k \in 1..Len(s)
  PROVE  LET r == RemoveAt(s, k)
         IN  /\ r \in Seq(Range(s)) /\ Len(r) = Len(s) - 1 /\ Len(r) \in Nat
             /\ DOMAIN r = 1..(Len(s) - 1)
             /\ \A i \in 1..(Len(s) - 1) : r[i] = IF i < k THEN s[i] ELSE s[i + 1]
<1> DEFINE left == SubSeq(s, 1, k - 1)
           right == SubSeq(s, k + 1, Len(s))
           r == RemoveAt(s, k)
<1>1. r = left \o right BY DEF RemoveAt
<1>2. Len(s) \in Nat OBVIOUS
<1>3. /\ left \in Seq(Range(s)) /\ Len(left) = k - 1
      /\ \A i \in 1..(k - 1) : left[i] = s[i]
  BY <1>2
<1>4. /\ right \in Seq(Range(s)) /\ Len(right) = Len(s) - k
      /\ \A i \in 1..(Len(s) - k) : right[i] = s[k + i]
  BY <1>2
<1> HIDE DEF left, right, r
<1>8. /\ r \in Seq(Range(s)) /\ Len(r) = Len(left) + Len(right)
      /\ \A i \in 1..(Len(left) + Len(right)) :
           r[i] = IF i <= Len(left) THEN left[i] ELSE right[i - Len(left)]
  BY <1>1, <1>3, <1>4, ConcatProperties
<1>9. k \in Int /\ Len(left) + Len(right) = Len(s) - 1 BY <1>2, <1>3, <1>4
<1>5. r \in Seq(Range(s)) /\ Len(r) = Len(s) - 1 BY <1>8, <1>9
<1>6. DOMAIN r = 1..(Len(s) - 1) BY <1>5
<1>7. ASSUME NEW i \in 1..(Len(s) - 1) PROVE r[i] = IF i < k THEN s[i] ELSE s[i + 1]
  <2>1. r[i] = IF i <= Len(left) THEN left[i] ELSE right[i - Len(left)]
    BY <1>8, <1>9
  <2>2. CASE i < k
    <3>1. i \in 1..(k - 1) BY <1>2, <2>2
    <3> QED BY <2>1, <3>1, <1>3, <2>2
  <2>3. CASE ~(i < k)
    <3>1. i - (k - 1) \in 1..(Len(s) - k) /\ ~(i <= k - 1) BY <1>2, <2>3
    <3>2. k + (i - (k - 1)) = i + 1 BY <1>2
    <3>3. r[i] = right[i - (k - 1)] BY <2>1, <3>1, <1>3
    <3>4. right[i - (k - 1)] = s[k + (i - (k - 1))] BY <3>1, <1>4
    <3> QED BY <2>3, <3>2, <3>3, <3>4
  <2> QED BY <2>2, <2>3
<1> QED BY <1>2, <1>5, <1>6, <1>7 DEF r

(* A segment elsewhere in time is the same of its source.                  *)
LEMMA ShiftedShape ==
  ASSUME NEW s, Shaped(s), NEW by \in Int
  PROVE  Shaped(Shifted(s, by)) /\ Shifted(s, by).start = s.start + by
<1> DEFINE new == Shifted(s, by)
<1>1. /\ DOMAIN new = DOMAIN s /\ new.ts = s.ts /\ new.te = s.te /\ new.dur = s.dur
      /\ new.start = s.start + by /\ new.asset = s.asset
  BY DEF Shaped, Shifted
<1> HIDE DEF new
<1>2. Shaped(new) BY <1>1 DEF Shaped, WithinSource, SourceEnd, From
<1> QED BY <1>1, <1>2 DEF new

(* A ripple closes the gap of what is deleted and nothing else.            *)
LEMMA DeleteArranges ==
  ASSUME NEW segs, Orderly(segs), NEW c, NEW t \in ApplyDelete(segs, c)
  PROVE  Arranged(t)
<1>1. PICK k \in At(segs, c.seg) :
        t = LET rest == RemoveAt(segs, k)
            IN  IF c.policy = "gap" THEN rest
                ELSE [j \in DOMAIN rest |->
                        IF rest[j].start >= segs[k].start
                        THEN Shifted(rest[j], -segs[k].dur) ELSE rest[j]]
  BY DEF ApplyDelete
<1> DEFINE rest == RemoveAt(segs, k)
           n == Len(segs) - 1
           Moved(s) == IF s.start >= segs[k].start THEN Shifted(s, -segs[k].dur) ELSE s
           rippled == [j \in DOMAIN rest |-> Moved(rest[j])]
<1>2. /\ Len(segs) \in Nat /\ DOMAIN segs = 1..Len(segs) /\ segs \in Seq(Range(segs))
      /\ k \in 1..Len(segs)
  BY <1>1, OrderlyFacts DEF At
<1>3. /\ rest \in Seq(Range(segs)) /\ n \in Nat /\ DOMAIN rest = 1..n /\ Len(rest) = n
      /\ \A i \in 1..n : rest[i] = IF i < k THEN segs[i] ELSE segs[i + 1]
  BY <1>2, TakenOut
<1>4. t = IF c.policy = "gap" THEN rest ELSE rippled BY <1>1
<1> HIDE DEF rest
<1>5. \A i, j \in 1..Len(segs) : i < j => segs[i].start + segs[i].dur <= segs[j].start
  BY OrderlyFacts
<1>6. \A i \in 1..Len(segs) : /\ Shaped(segs[i]) /\ segs[i].start \in Nat
                              /\ segs[i].dur \in Nat /\ segs[i].dur > 0
  BY OrderlyFacts
<1>7. \A i \in 1..n : (i < k => i \in 1..Len(segs)) /\ (~(i < k) => i + 1 \in 1..Len(segs) /\ k < i + 1)
  BY <1>2, <1>3
<1>8. \A i \in 1..n : Shaped(rest[i]) /\ rest[i].start \in Nat /\ rest[i].dur \in Nat
  BY <1>3, <1>6, <1>7
<1>9. \A i, j \in 1..n : i < j => rest[i].start <= rest[j].start
  <2> SUFFICES ASSUME NEW i \in 1..n, NEW j \in 1..n, i < j
               PROVE  rest[i].start <= rest[j].start
    OBVIOUS
  <2> DEFINE p == IF i < k THEN i ELSE i + 1
             q == IF j < k THEN j ELSE j + 1
  <2>1. p \in 1..Len(segs) /\ q \in 1..Len(segs) /\ p < q BY <1>2, <1>7
  <2>2. rest[i] = segs[p] /\ rest[j] = segs[q] BY <1>3
  <2> HIDE DEF p, q
  <2>3. segs[p].start + segs[p].dur <= segs[q].start BY <1>5, <2>1
  <2>4. segs[p].start \in Nat /\ segs[p].dur \in Nat /\ segs[q].start \in Nat BY <1>6, <2>1
  <2>5. segs[p].start <= segs[q].start BY <2>3, <2>4
  <2> QED BY <2>2, <2>5
<1>10. Arranged(rest)
  <2>1. rest \in Seq(Range(rest)) BY <1>3, OfItsOwn
  <2> QED BY <2>1, <1>3, <1>8, <1>9 DEF Arranged, Sorted
<1>11. Arranged(rippled)
  <2>1. DOMAIN rippled = 1..n /\ \A i \in 1..n : rippled[i] = Moved(rest[i]) BY <1>3
  <2>2. rippled = [i \in 1..n |-> rippled[i]] BY <1>3
  <2> HIDE DEF rippled
  <2>3. rippled \in Seq(Range(rippled)) BY <1>3, <2>2, Listed
  <2>4. \A i \in 1..n : rest[i].start >= segs[k].start <=> ~(i < k)
    <3> SUFFICES ASSUME NEW i \in 1..n PROVE rest[i].start >= segs[k].start <=> ~(i < k)
      OBVIOUS
    <3>1. CASE i < k
      <4>1. rest[i] = segs[i] /\ i \in 1..Len(segs) BY <1>3, <1>7, <3>1
      <4>2. segs[i].start + segs[i].dur <= segs[k].start BY <1>2, <1>5, <3>1, <4>1
      <4> QED BY <1>2, <1>6, <3>1, <4>1, <4>2
    <3>2. CASE ~(i < k)
      <4>1. rest[i] = segs[i + 1] /\ i + 1 \in 1..Len(segs) /\ k < i + 1 BY <1>3, <1>7, <3>2
      <4>2. segs[k].start + segs[k].dur <= segs[i + 1].start BY <1>2, <1>5, <4>1
      <4> QED BY <1>2, <1>6, <3>2, <4>1, <4>2
    <3> QED BY <3>1, <3>2
  <2>5. -segs[k].dur \in Int BY <1>2, <1>6
  <2>6. \A i \in 1..n : /\ Shaped(rippled[i])
                        /\ rippled[i].start = IF i < k THEN rest[i].start
                                              ELSE rest[i].start + (-segs[k].dur)
    BY <1>8, <2>1, <2>4, <2>5, ShiftedShape
  <2>7. ASSUME NEW i \in 1..n, NEW j \in 1..n, i < j
        PROVE  rippled[i].start <= rippled[j].start
    <3>1. rest[i].start <= rest[j].start /\ rest[i].start \in Nat /\ rest[j].start \in Nat
      BY <1>8, <1>9, <2>7
    <3>0. i \in Int /\ j \in Int /\ k \in Int /\ segs[k].dur \in Nat BY <1>2, <1>6
    <3>5. /\ rippled[i].start = IF i < k THEN rest[i].start ELSE rest[i].start + (-segs[k].dur)
          /\ rippled[j].start = IF j < k THEN rest[j].start ELSE rest[j].start + (-segs[k].dur)
      BY <2>6
    <3>2. CASE j < k BY <2>7, <3>0, <3>1, <3>2, <3>5
    <3>3. CASE ~(i < k)
      <4>1. ~(j < k) BY <2>7, <3>0, <3>3
      <4>2. /\ rippled[i].start = rest[i].start + (-segs[k].dur)
            /\ rippled[j].start = rest[j].start + (-segs[k].dur)
        BY <3>3, <3>5, <4>1
      <4> QED BY <3>0, <3>1, <4>2
    <3>4. CASE i < k /\ ~(j < k)
      <4>1. rest[i] = segs[i] /\ rest[j] = segs[j + 1] /\ i \in 1..Len(segs) /\ j + 1 \in 1..Len(segs)
            /\ k < j + 1
        BY <1>3, <1>7, <3>4
      <4>2. segs[i].start + segs[i].dur <= segs[k].start BY <1>2, <1>5, <3>4, <4>1
      <4>3. segs[k].start + segs[k].dur <= segs[j + 1].start BY <1>2, <1>5, <4>1
      <4>4. /\ segs[i].start \in Nat /\ segs[i].dur \in Nat /\ segs[k].start \in Nat
            /\ segs[k].dur \in Nat /\ segs[j + 1].start \in Nat
        BY <1>2, <1>6, <4>1
      <4>5. segs[i].start <= segs[k].start BY <4>2, <4>4
      <4>6. segs[k].start <= segs[j + 1].start + (-segs[k].dur)
        <5> DEFINE next == segs[j + 1].start
                   here == segs[k].start
                   taken == segs[k].dur
        <5>1. next \in Nat /\ here \in Nat /\ taken \in Nat /\ here + taken <= next
          BY <4>3, <4>4
        <5> HIDE DEF next, here, taken
        <5>2. here <= next + (-taken) BY <5>1
        <5> QED BY <5>2 DEF next, here, taken
      <4>7. rippled[i].start = segs[i].start /\ rippled[j].start = segs[j + 1].start + (-segs[k].dur)
        BY <3>4, <3>5, <4>1
      <4>8. segs[i].start <= segs[j + 1].start + (-segs[k].dur)
        <5> DEFINE to == segs[j + 1].start + (-segs[k].dur)
        <5>1. segs[j + 1].start \in Nat /\ segs[k].dur \in Nat BY <4>4
        <5>2. to \in Int BY <5>1
        <5>3. segs[k].start <= to BY <4>6
        <5> HIDE DEF to
        <5>4. segs[i].start <= to BY <4>4, <4>5, <5>2, <5>3
        <5> QED BY <5>4 DEF to
      <4> QED BY <4>7, <4>8
    <3> QED BY <3>2, <3>3, <3>4
  <2> QED BY <2>1, <2>3, <2>6, <2>7 DEF Arranged, Sorted
<1> QED BY <1>4, <1>10, <1>11

(* What is there when one is replaced by two.                              *)
LEMMA ReplacedByTwo ==
  ASSUME NEW s, s \in Seq(Range(s)), NEW k \in 1..Len(s), NEW a, NEW b
  PROVE  LET r == Replaced(s, k, <<a, b>>)
         IN  /\ r \in Seq(Range(r)) /\ DOMAIN r = 1..(Len(s) + 1)
             /\ \A i \in 1..(Len(s) + 1) :
                  r[i] = IF i < k THEN s[i] ELSE IF i = k THEN a ELSE IF i = k + 1 THEN b
                         ELSE s[i - 1]
<1> DEFINE S == Range(s) \cup {a, b}
           left == SubSeq(s, 1, k - 1)
           right == SubSeq(s, k + 1, Len(s))
           mid == left \o <<a, b>>
           r == Replaced(s, k, <<a, b>>)
<1>1. r = mid \o right BY DEF Replaced
<1>2. Len(s) \in Nat /\ k \in Int OBVIOUS
<1>3. /\ left \in Seq(Range(s)) /\ Len(left) = k - 1
      /\ \A i \in 1..(k - 1) : left[i] = s[i]
  BY <1>2
<1>4. /\ right \in Seq(Range(s)) /\ Len(right) = Len(s) - k
      /\ \A i \in 1..(Len(s) - k) : right[i] = s[k + i]
  BY <1>2
<1>5. \A x : x \in Seq(Range(s)) => x \in Seq(S)
  <2> SUFFICES ASSUME NEW x, x \in Seq(Range(s)) PROVE x \in Seq(S) OBVIOUS
  <2>1. x \in [1..Len(x) -> Range(s)] /\ Len(x) \in Nat OBVIOUS
  <2>2. x \in [1..Len(x) -> S] BY <2>1
  <2> QED BY <2>1, <2>2
<1>6. left \in Seq(S) /\ right \in Seq(S) BY <1>3, <1>4, <1>5
<1>7. <<a, b>> \in Seq(S) /\ Len(<<a, b>>) = 2 /\ <<a, b>>[1] = a /\ <<a, b>>[2] = b
  <2>1. a \in S /\ b \in S OBVIOUS
  <2> HIDE DEF S
  <2> QED BY <2>1
<1> DEFINE two == <<a, b>>
<1> HIDE DEF left, right, S, two, r
<1>8. /\ mid \in Seq(S) /\ Len(mid) = k + 1
      /\ \A i \in 1..(k + 1) : mid[i] = IF i < k THEN left[i] ELSE two[i - k + 1]
  <2>1. mid = left \o two BY DEF two
  <2>2. two \in Seq(S) /\ Len(two) = 2 BY <1>7 DEF two
  <2> HIDE DEF mid
  <2>5. /\ mid \in Seq(S) /\ Len(mid) = Len(left) + Len(two)
        /\ \A i \in 1..(Len(left) + Len(two)) :
             mid[i] = IF i <= Len(left) THEN left[i] ELSE two[i - Len(left)]
    BY <1>6, <2>1, <2>2, ConcatProperties
  <2>6. Len(left) + Len(two) = k + 1 BY <1>2, <1>3, <2>2
  <2>3. mid \in Seq(S) /\ Len(mid) = k + 1 BY <2>5, <2>6
  <2>4. ASSUME NEW i \in 1..(k + 1) PROVE mid[i] = IF i < k THEN left[i] ELSE two[i - k + 1]
    <3>1. mid[i] = IF i <= Len(left) THEN left[i] ELSE two[i - Len(left)]
      BY <2>5, <2>6
    <3>2. (i <= k - 1) <=> i < k BY <1>2
    <3>3. i - (k - 1) = i - k + 1 BY <1>2
    <3> QED BY <1>3, <3>1, <3>2, <3>3
  <2> QED BY <2>3, <2>4
<1> HIDE DEF mid
<1>13. /\ r \in Seq(S) /\ Len(r) = Len(mid) + Len(right)
       /\ \A i \in 1..(Len(mid) + Len(right)) :
            r[i] = IF i <= Len(mid) THEN mid[i] ELSE right[i - Len(mid)]
  BY <1>1, <1>6, <1>8, ConcatProperties
<1>14. Len(mid) = k + 1 /\ Len(mid) + Len(right) = Len(s) + 1 BY <1>2, <1>4, <1>8
<1>9. r \in Seq(S) /\ Len(r) = Len(s) + 1 BY <1>13, <1>14
<1>10. DOMAIN r = 1..(Len(s) + 1) BY <1>9
<1>11. ASSUME NEW i \in 1..(Len(s) + 1)
       PROVE  r[i] = IF i < k THEN s[i] ELSE IF i = k THEN a ELSE IF i = k + 1 THEN b ELSE s[i - 1]
  <2>0. i \in Int BY <1>2
  <2>1. r[i] = IF i <= k + 1 THEN mid[i] ELSE right[i - (k + 1)]
    BY <1>13, <1>14
  <2>2. CASE i < k
    <3>1. i \in 1..(k - 1) /\ i \in 1..(k + 1) /\ i <= k + 1 BY <1>2, <2>0, <2>2
    <3> QED BY <1>3, <1>8, <2>1, <2>2, <3>1
  <2>3. CASE i = k
    <3>1. i \in 1..(k + 1) /\ i <= k + 1 /\ ~(i < k) /\ i - k + 1 = 1 BY <1>2, <2>0, <2>3
    <3>2. r[i] = two[1] BY <1>8, <2>1, <3>1
    <3> QED BY <1>7, <2>3, <3>1, <3>2 DEF two
  <2>4. CASE i = k + 1
    <3>1. i \in 1..(k + 1) /\ i <= k + 1 /\ ~(i < k) /\ i # k /\ i - k + 1 = 2 BY <1>2, <2>0, <2>4
    <3>2. r[i] = two[2] BY <1>8, <2>1, <3>1
    <3> QED BY <1>7, <2>4, <3>1, <3>2 DEF two
  <2>5. CASE i > k + 1
    <3>1. /\ ~(i <= k + 1) /\ ~(i < k) /\ i # k /\ i # k + 1
          /\ i - (k + 1) \in 1..(Len(s) - k) /\ k + (i - (k + 1)) = i - 1
      BY <1>2, <2>0, <2>5
    <3>2. r[i] = right[i - (k + 1)] BY <2>1, <3>1
    <3>3. right[i - (k + 1)] = s[k + (i - (k + 1))] BY <1>4, <3>1
    <3>4. r[i] = s[i - 1] BY <3>1, <3>2, <3>3
    <3> QED BY <3>1, <3>4
  <2> QED BY <1>2, <2>0, <2>2, <2>3, <2>4, <2>5
<1>12. r \in Seq(Range(r)) BY <1>9, OfItsOwn
<1> QED BY <1>10, <1>11, <1>12 DEF r

(* The halves of a segment show what it showed.                            *)
LEMMA HalvesShape ==
  ASSUME NEW s, Shaped(s), s.start \in Nat, s.dur \in Nat, NEW at \in Nat,
         s.start < at, at < s.start + s.dur
  PROVE  \E a, b : /\ Halves(s, at) = <<a, b>> /\ Shaped(a) /\ Shaped(b)
                   /\ a.start = s.start /\ b.start = at
<1> DEFINE cut == IF s.ts = None THEN None ELSE s.ts + at - s.start
           a == [s EXCEPT !.id = Append(@, "a"), !.dur = at - s.start, !.te = cut]
           b == [s EXCEPT !.id = Append(@, "b"), !.dur = End(s) - at, !.ts = cut, !.start = at]
<1>1. Halves(s, at) = <<a, b>> BY DEF Halves
<1>2. /\ DOMAIN a = DOMAIN s /\ a.asset = s.asset /\ a.start = s.start /\ a.dur = at - s.start
      /\ a.ts = s.ts /\ a.te = cut
  BY DEF Shaped
<1>3. /\ DOMAIN b = DOMAIN s /\ b.asset = s.asset /\ b.start = at /\ b.dur = s.start + s.dur - at
      /\ b.ts = cut /\ b.te = s.te
  BY DEF Shaped, End
<1>4. cut \in {None} \cup Nat /\ (s.ts # None => cut = s.ts + at - s.start /\ s.ts \in Nat)
  <2>1. s.ts \in {None} \cup Nat BY DEF Shaped
  <2>2. CASE s.ts = None BY <2>2
  <2>3. CASE s.ts # None
    <3>1. s.ts \in Nat BY <2>1, <2>3
    <3>2. s.ts + at - s.start \in Nat BY <3>1
    <3> QED BY <2>3, <3>1, <3>2
  <2> QED BY <2>2, <2>3
<1>5. s.ts = None => cut = None OBVIOUS
<1> HIDE DEF cut, a, b
<1>6. /\ at - s.start \in Int /\ s.start + s.dur - at \in Int /\ at - s.start <= s.dur
      /\ s.start + s.dur - at <= s.dur /\ at \in Int
  OBVIOUS
<1>7. Kind[s.asset] = "video" =>
        /\ Length[s.asset] \in Nat /\ From(s) + s.dur <= Length[s.asset]
        /\ s.te # None => s.te <= Length[s.asset]
        /\ s.te = None => From(s) + s.dur <= Length[s.asset]
  BY EditsAssumption DEF Shaped, WithinSource, SourceEnd
<1>8. From(s) \in Nat BY DEF From, Shaped
<1>9. Shaped(a)
  <2>1. From(a) = From(s) BY <1>2 DEF From
  <2>2. SourceEnd(a) = From(s) + (at - s.start)
    <3>1. CASE s.ts = None BY <1>2, <1>5, <2>1, <3>1 DEF SourceEnd
    <3>2. CASE s.ts # None
      <4>1. cut # None BY <1>4, <3>2 DEF None
      <4>2. From(s) = s.ts BY <3>2 DEF From
      <4>3. SourceEnd(a) = s.ts + at - s.start BY <1>2, <1>4, <3>2, <4>1 DEF SourceEnd
      <4> QED BY <1>4, <3>2, <4>2, <4>3
    <3> QED BY <3>1, <3>2
  <2>3. Kind[s.asset] = "video" => From(s) + (at - s.start) <= Length[s.asset]
    BY <1>6, <1>7, <1>8
  <2> QED BY <1>2, <1>4, <1>6, <2>1, <2>2, <2>3 DEF Shaped, WithinSource
<1>10. Shaped(b)
  <2>1. Kind[s.asset] = "video" => From(b) + b.dur <= Length[s.asset]
    <3>1. CASE s.ts = None
      <4>1. From(b) = 0 /\ From(s) = 0 BY <1>3, <1>5, <3>1 DEF From
      <4> QED BY <1>3, <1>6, <1>7, <4>1
    <3>2. CASE s.ts # None
      <4>1. cut # None BY <1>4, <3>2 DEF None
      <4>2. From(b) = s.ts + at - s.start /\ From(s) = s.ts BY <1>3, <1>4, <3>2, <4>1 DEF From
      <4>3. From(b) + b.dur = s.ts + s.dur BY <1>3, <1>4, <3>2, <4>2
      <4> QED BY <1>7, <4>2, <4>3
    <3> QED BY <3>1, <3>2
  <2>2. Kind[s.asset] = "video" => SourceEnd(b) <= Length[s.asset]
    BY <1>3, <1>7, <2>1 DEF SourceEnd
  <2> QED BY <1>3, <1>4, <1>6, <2>1, <2>2 DEF Shaped, WithinSource
<1> QED BY <1>1, <1>2, <1>3, <1>9, <1>10

(* A cut lies between the start of what is cut and that of what follows.   *)
LEMMA SplitArranges ==
  ASSUME NEW segs, Orderly(segs), NEW c, c.at \in Nat, NEW t \in ApplySplit(segs, c)
  PROVE  Arranged(t)
<1>1. PICK k \in At(segs, c.seg) : /\ t = Replaced(segs, k, Halves(segs[k], c.at))
                                   /\ segs[k].start < c.at /\ c.at < End(segs[k])
  BY DEF ApplySplit
<1> DEFINE n == Len(segs)
<1>2. /\ n \in Nat /\ DOMAIN segs = 1..n /\ segs \in Seq(Range(segs))
      /\ k \in 1..n
  BY <1>1, OrderlyFacts DEF At
<1>3. \A i, j \in 1..n : i < j => segs[i].start + segs[i].dur <= segs[j].start
  BY OrderlyFacts
<1>4. \A i \in 1..n : /\ Shaped(segs[i]) /\ segs[i].start \in Nat
                      /\ segs[i].dur \in Nat /\ segs[i].dur > 0
  BY OrderlyFacts
<1>5. PICK a, b : /\ Halves(segs[k], c.at) = <<a, b>> /\ Shaped(a) /\ Shaped(b)
                  /\ a.start = segs[k].start /\ b.start = c.at
  BY <1>1, <1>2, <1>4, HalvesShape DEF End
<1>6. /\ t \in Seq(Range(t)) /\ DOMAIN t = 1..(n + 1)
      /\ \A i \in 1..(n + 1) :
           t[i] = IF i < k THEN segs[i] ELSE IF i = k THEN a ELSE IF i = k + 1 THEN b
                  ELSE segs[i - 1]
  BY <1>1, <1>2, <1>5, ReplacedByTwo
<1> HIDE DEF n
<1>7. ASSUME NEW i \in 1..(n + 1)
      PROVE  /\ i < k => i \in 1..n
             /\ i > k + 1 => i - 1 \in 1..n /\ k < i - 1
             /\ i < k \/ i = k \/ i = k + 1 \/ i > k + 1
  BY <1>2
<1>8. \A i \in 1..(n + 1) : Shaped(t[i]) BY <1>2, <1>4, <1>5, <1>6, <1>7
<1>9. \A i \in 1..(n + 1) :
        /\ i <= k => t[i].start = segs[i].start /\ i \in 1..n
        /\ i = k + 1 => t[i].start = c.at
        /\ i > k + 1 => t[i].start = segs[i - 1].start /\ i - 1 \in 1..n
  <2> SUFFICES ASSUME NEW i \in 1..(n + 1)
               PROVE  /\ i <= k => t[i].start = segs[i].start /\ i \in 1..n
                      /\ i = k + 1 => t[i].start = c.at
                      /\ i > k + 1 => t[i].start = segs[i - 1].start /\ i - 1 \in 1..n
    OBVIOUS
  <2>0. i \in Int /\ k \in Int BY <1>2
  <2>1. CASE i < k BY <1>6, <1>7, <2>0, <2>1
  <2>2. CASE i = k BY <1>2, <1>5, <1>6, <2>0, <2>2
  <2>3. CASE i = k + 1 BY <1>5, <1>6, <2>0, <2>3
  <2>4. CASE i > k + 1 BY <1>6, <1>7, <2>0, <2>4
  <2> QED BY <1>7, <2>1, <2>2, <2>3, <2>4
<1>10. ASSUME NEW i \in 1..(n + 1), NEW j \in 1..(n + 1), i < j
       PROVE  t[i].start <= t[j].start
  <2>0. i \in Int /\ j \in Int /\ k \in Int BY <1>2
  <2>1. \A p, q \in 1..n : p < q => segs[p].start <= segs[q].start BY <1>3, <1>4
  <2>2. CASE j <= k BY <1>9, <1>10, <2>0, <2>1, <2>2
  <2>3. CASE j = k + 1
    <3>1. i <= k /\ t[i].start = segs[i].start /\ t[j].start = c.at /\ i \in 1..n
      BY <1>9, <1>10, <2>0, <2>3
    <3>2. segs[i].start <= segs[k].start
      <4>1. CASE i = k BY <1>2, <1>4, <4>1
      <4>2. CASE i < k BY <1>2, <2>1, <3>1, <4>2
      <4> QED BY <2>0, <3>1, <4>1, <4>2
    <3>3. segs[i].start \in Nat /\ segs[k].start \in Nat BY <1>2, <1>4, <3>1
    <3> QED BY <1>1, <3>1, <3>2, <3>3
  <2>4. CASE j > k + 1 /\ i <= k
    <3>1. i \in 1..n /\ j - 1 \in 1..n /\ i < j - 1 BY <1>9, <2>0, <2>4
    <3>2. t[i].start = segs[i].start /\ t[j].start = segs[j - 1].start BY <1>9, <2>4
    <3> QED BY <2>1, <3>1, <3>2
  <2>5. CASE j > k + 1 /\ i = k + 1
    <3>1. k \in 1..n /\ j - 1 \in 1..n /\ k < j - 1 BY <1>2, <1>9, <2>0, <2>5
    <3>2. t[i].start = c.at /\ t[j].start = segs[j - 1].start BY <1>9, <2>5
    <3>3. segs[k].start + segs[k].dur <= segs[j - 1].start BY <1>3, <3>1
    <3>4. c.at < segs[k].start + segs[k].dur BY <1>1 DEF End
    <3>5. segs[k].start \in Nat /\ segs[k].dur \in Nat /\ segs[j - 1].start \in Nat BY <1>4, <3>1
    <3> QED BY <2>0, <3>2, <3>3, <3>4, <3>5
  <2>6. CASE j > k + 1 /\ i > k + 1
    <3>1. i - 1 \in 1..n /\ j - 1 \in 1..n /\ i - 1 < j - 1 BY <1>9, <1>10, <2>0, <2>6
    <3>2. t[i].start = segs[i - 1].start /\ t[j].start = segs[j - 1].start BY <1>9, <2>6
    <3> QED BY <2>1, <3>1, <3>2
  <2> QED BY <2>0, <2>2, <2>3, <2>4, <2>5, <2>6
<1> QED BY <1>6, <1>8, <1>10 DEF Arranged, Sorted

(* Resizing pushes what follows by what the segment grows.                 *)
LEMMA ResizeArranges ==
  ASSUME NEW segs, Orderly(segs), NEW c, c.dur \in Nat, NEW t \in ApplyResize(lib, segs, c)
  PROVE  Arranged(t)
<1> DEFINE n == Len(segs)
<1>1. PICK k \in Resolved(lib, segs, c.seg) :
        /\ t = [j \in DOMAIN segs |->
                  IF j = k
                  THEN [segs[k] EXCEPT !.dur = c.dur,
                          !.te = IF Bounded(lib, segs[k]) /\ @ # None THEN From(segs[k]) + c.dur ELSE @]
                  ELSE IF j > k THEN Shifted(segs[j], c.dur - segs[k].dur) ELSE segs[j]]
        /\ Bounded(lib, segs[k]) => c.dur <= Length[segs[k].asset] - From(segs[k])
  BY DEF ApplyResize
<1>2. n \in Nat /\ DOMAIN segs = 1..n /\ k \in 1..n
  BY <1>1, OrderlyFacts DEF Resolved, At
<1>3. \A i, j \in 1..n : i < j => segs[i].start + segs[i].dur <= segs[j].start
  BY OrderlyFacts
<1>4. \A i \in 1..n : /\ Shaped(segs[i]) /\ segs[i].start \in Nat
                      /\ segs[i].dur \in Nat /\ segs[i].dur > 0
  BY OrderlyFacts
<1> DEFINE s == segs[k]
           te == IF Bounded(lib, s) /\ s.te # None THEN From(s) + c.dur ELSE s.te
           new == [s EXCEPT !.dur = c.dur,
                            !.te = IF Bounded(lib, s) /\ @ # None THEN From(s) + c.dur ELSE @]
           by == c.dur - s.dur
<1>5. /\ DOMAIN new = DOMAIN s /\ new.asset = s.asset /\ new.start = s.start /\ new.dur = c.dur
      /\ new.ts = s.ts /\ new.te = te
  BY <1>2, <1>4 DEF Shaped
<1>6. /\ DOMAIN t = 1..n
      /\ \A j \in 1..n : t[j] = IF j = k THEN new ELSE IF j > k THEN Shifted(segs[j], by)
                                ELSE segs[j]
  BY <1>1, <1>2
<1>7. t = [j \in 1..n |-> t[j]] BY <1>1, <1>2
<1>8. by \in Int /\ s.dur \in Nat /\ s.start \in Nat /\ Shaped(s) BY <1>2, <1>4
<1> HIDE DEF n, new, by, te, s
<1>9. Shaped(new)
  <2>1. From(s) \in Nat BY <1>8 DEF From, Shaped
  <2>2. From(new) = From(s) BY <1>5 DEF From
  <2>3. te \in {None} \cup Nat BY <1>8, <2>1 DEF te, Shaped
  <2>4. Kind[s.asset] = "video" => From(s) + c.dur <= Length[s.asset]
    <3> SUFFICES ASSUME Kind[s.asset] = "video" PROVE From(s) + c.dur <= Length[s.asset] OBVIOUS
    <3>1. c.dur <= Length[s.asset] - From(s) BY <1>1 DEF Bounded, s
    <3>2. Length[s.asset] \in Nat BY <1>8, EditsAssumption DEF Shaped
    <3> QED BY <2>1, <3>1, <3>2
  <2>5. Kind[s.asset] = "video" => SourceEnd(new) = From(s) + c.dur
    <3>1. CASE s.te = None BY <1>5, <2>2, <3>1 DEF SourceEnd, te
    <3>2. CASE s.te # None BY <1>5, <2>1, <2>2, <3>2 DEF SourceEnd, te, Bounded, None
    <3> QED BY <3>1, <3>2
  <2> QED BY <1>5, <1>8, <2>2, <2>3, <2>4, <2>5 DEF Shaped, WithinSource
<1>10. \A j \in 1..n : /\ Shaped(t[j])
                       /\ t[j].start = IF j > k THEN segs[j].start + by ELSE segs[j].start
  <2> SUFFICES ASSUME NEW j \in 1..n
               PROVE  /\ Shaped(t[j])
                      /\ t[j].start = IF j > k THEN segs[j].start + by ELSE segs[j].start
    OBVIOUS
  <2>0. j \in Int /\ k \in Int BY <1>2
  <2>1. CASE j = k BY <1>5, <1>6, <1>9, <2>0, <2>1 DEF s
  <2>2. CASE j > k
    <3>1. t[j] = Shifted(segs[j], by) BY <1>6, <2>0, <2>2
    <3>2. Shaped(Shifted(segs[j], by)) /\ Shifted(segs[j], by).start = segs[j].start + by
      BY <1>4, <1>8, ShiftedShape
    <3> QED BY <2>2, <3>1, <3>2
  <2>3. CASE j < k BY <1>4, <1>6, <2>0, <2>3
  <2> QED BY <2>0, <2>1, <2>2, <2>3
<1>11. ASSUME NEW i \in 1..n, NEW j \in 1..n, i < j
       PROVE  t[i].start <= t[j].start
  <2>0. i \in Int /\ j \in Int /\ k \in Int BY <1>2
  <2>1. /\ segs[i].start + segs[i].dur <= segs[j].start /\ segs[i].start \in Nat
        /\ segs[i].dur \in Nat /\ segs[j].start \in Nat
    BY <1>3, <1>4, <1>11
  <2>2. CASE j <= k BY <1>10, <1>11, <2>0, <2>1, <2>2
  <2>3. CASE i > k BY <1>8, <1>10, <1>11, <2>0, <2>1, <2>3
  <2>4. CASE i <= k /\ j > k
    <3>1. t[i].start = segs[i].start /\ t[j].start = segs[j].start + by BY <1>10, <2>0, <2>4
    <3>2. segs[i].start <= s.start
      <4>1. CASE i = k BY <1>8, <4>1 DEF s
      <4>2. CASE i < k BY <1>2, <1>3, <1>8, <2>0, <2>1, <4>2 DEF s
      <4> QED BY <2>0, <2>4, <4>1, <4>2
    <3>3. s.start + s.dur <= segs[j].start BY <1>2, <1>3, <2>4 DEF s
    <3>4. by = c.dur - s.dur BY DEF by
    <3> QED BY <1>8, <2>1, <3>1, <3>2, <3>3, <3>4
  <2> QED BY <2>0, <2>2, <2>3, <2>4
<1>12. t \in Seq(Range(t)) BY <1>2, <1>7, Listed
<1> QED BY <1>6, <1>10, <1>11, <1>12 DEF Arranged, Sorted

(* Moving keeps every segment, one after the other.                        *)
LEMMA MoveArranges ==
  ASSUME NEW segs, Orderly(segs), NEW c, c.to \in Nat, NEW t \in ApplyMove(segs, c)
  PROVE  Arranged(t)
<1>1. PICK k \in At(segs, c.seg) :
        /\ t = Resequence(InsertAt(RemoveAt(segs, k), c.to + 1, segs[k]))
        /\ c.to < Len(segs)
  BY DEF ApplyMove
<1> DEFINE S == Range(segs)
           r == RemoveAt(segs, k)
           x == InsertAt(r, c.to + 1, segs[k])
           n == Len(x)
           dur == [i \in DOMAIN x |-> x[i].dur]
<1>2. /\ Len(segs) \in Nat /\ DOMAIN segs = 1..Len(segs) /\ segs \in Seq(S)
      /\ k \in 1..Len(segs)
  BY <1>1, OrderlyFacts DEF At
<1>3. r \in Seq(S) /\ Len(r) = Len(segs) - 1 /\ Len(r) \in Nat BY <1>2, TakenOut
<1>4. segs[k] \in S BY <1>2 DEF Range
<1>5. \A e \in S : Shaped(e) /\ e.dur \in Nat
  <2>1. \A e \in S : \E i \in 1..Len(segs) : e = segs[i] BY <1>2 DEF Range
  <2> QED BY <2>1, OrderlyFacts
<1> HIDE DEF S, r
<1>6. x \in Seq(S)
  <2>1. SubSeq(r, 1, c.to + 1 - 1) \in Seq(S)
    <3>1. c.to + 1 - 1 = c.to OBVIOUS
    <3>2. c.to \in 0..Len(r) BY <1>1, <1>2, <1>3
    <3> QED BY <1>3, <3>1, <3>2
  <2>2. SubSeq(r, c.to + 1, Len(r)) \in Seq(S) BY <1>3
  <2>3. <<segs[k]>> \in Seq(S) BY <1>4
  <2>4. SubSeq(r, 1, c.to + 1 - 1) \o <<segs[k]>> \in Seq(S) BY <2>1, <2>3
  <2> QED BY <2>2, <2>4 DEF InsertAt
<1>7. t = [i \in DOMAIN x |-> [x[i] EXCEPT !.start = SumFunctionOnSet(dur, 1..(i - 1))]]
  <2>1. t = Resequence(x) BY <1>1 DEF r
  <2> HIDE DEF x
  <2> QED BY <2>1 DEF Resequence
<1> HIDE DEF x
<1>8. n \in Nat /\ DOMAIN x = 1..n /\ \A i \in 1..n : x[i] \in S BY <1>6
<1>9. \A i \in 1..n : dur[i] \in Nat BY <1>5, <1>8
<1> HIDE DEF n, dur
<1>10. DOMAIN t = 1..n /\ t = [i \in 1..n |-> t[i]] BY <1>7, <1>8
<1>11. \A i \in 1..n : /\ 1..(i - 1) \subseteq 1..n
                       /\ IsFiniteSet(1..(i - 1))
                       /\ \A j \in 1..(i - 1) : dur[j] \in Nat
  <2> SUFFICES ASSUME NEW i \in 1..n
               PROVE  /\ 1..(i - 1) \subseteq 1..n /\ IsFiniteSet(1..(i - 1))
                      /\ \A j \in 1..(i - 1) : dur[j] \in Nat
    OBVIOUS
  <2>1. i \in Int /\ i - 1 \in Int /\ 1 \in Int /\ 1..(i - 1) \subseteq 1..n BY <1>8
  <2>2. IsFiniteSet(1..(i - 1)) BY <2>1, FS_Interval
  <2> QED BY <1>9, <2>1, <2>2
<1>12. \A i \in 1..n : SumFunctionOnSet(dur, 1..(i - 1)) \in Nat BY <1>11, SumNatural
<1>13. \A i \in 1..n : Shaped(t[i]) /\ t[i].start = SumFunctionOnSet(dur, 1..(i - 1))
  <2> SUFFICES ASSUME NEW i \in 1..n
               PROVE  Shaped(t[i]) /\ t[i].start = SumFunctionOnSet(dur, 1..(i - 1))
    OBVIOUS
  <2> DEFINE at == SumFunctionOnSet(dur, 1..(i - 1))
  <2>1. Shaped(x[i]) BY <1>5, <1>8
  <2>2. t[i] = [x[i] EXCEPT !.start = at] BY <1>7, <1>8
  <2>3. at \in Nat BY <1>12
  <2> HIDE DEF at
  <2>4. /\ DOMAIN t[i] = DOMAIN x[i] /\ t[i].asset = x[i].asset /\ t[i].start = at
        /\ t[i].dur = x[i].dur /\ t[i].ts = x[i].ts /\ t[i].te = x[i].te
    BY <2>1, <2>2 DEF Shaped
  <2>5. at \in Int BY <2>3
  <2>6. Shaped(t[i]) BY <2>1, <2>4, <2>5 DEF Shaped, WithinSource, SourceEnd, From
  <2> QED BY <2>4, <2>6 DEF at
<1>14. ASSUME NEW i \in 1..n, NEW j \in 1..n, i < j
       PROVE  t[i].start <= t[j].start
  <2>1. 1..(i - 1) \in SUBSET (1..(j - 1)) BY <1>8, <1>14
  <2>2. SumFunctionOnSet(dur, 1..(i - 1)) <= SumFunctionOnSet(dur, 1..(j - 1))
    BY <1>11, <2>1, SumPart
  <2> QED BY <1>13, <2>2
<1>15. t \in Seq(Range(t)) BY <1>8, <1>10, Listed
<1> QED BY <1>10, <1>13, <1>14, <1>15 DEF Arranged, Sorted

(* What the server accepts of a well-formed command is orderly.            *)
LEMMA ApplyKeeps ==
  ASSUME NEW segs, Orderly(segs), lib \subseteq Assets, NEW c \in EditorCommand,
         NEW t \in Apply(lib, segs, c)
  PROVE  Orderly(t)
<1>1. t \in Applied(lib, segs, c) /\ Valid(t) BY DEF Apply
<1>2. SUFFICES Arranged(t) BY <1>1, ValidIsOrderly
<1>3. CASE c.type = "trim"
  <2>1. c.from \in Nat /\ c.to \in Nat BY <1>3 DEF EditorCommand
  <2>2. t \in ApplyTrim(lib, segs, c) BY <1>1, <1>3 DEF Applied
  <2> QED BY <2>1, <2>2, TrimArranges
<1>4. CASE c.type = "split"
  <2>1. c.at \in Nat BY <1>4 DEF EditorCommand
  <2>2. t \in ApplySplit(segs, c) BY <1>1, <1>4 DEF Applied
  <2> QED BY <2>1, <2>2, SplitArranges
<1>5. CASE c.type = "delete"
  <2>1. t \in ApplyDelete(segs, c) BY <1>1, <1>5 DEF Applied
  <2> QED BY <2>1, DeleteArranges
<1>6. CASE c.type = "replace"
  <2>1. t \in ApplyReplace(lib, segs, c) BY <1>1, <1>6 DEF Applied
  <2> QED BY <2>1, ReplaceArranges
<1>7. CASE c.type = "move"
  <2>1. c.to \in Nat BY <1>7 DEF EditorCommand
  <2>2. t \in ApplyMove(segs, c) BY <1>1, <1>7 DEF Applied
  <2> QED BY <2>1, <2>2, MoveArranges
<1>8. CASE c.type = "resize"
  <2>1. c.dur \in Nat BY <1>8 DEF EditorCommand
  <2>2. t \in ApplyResize(lib, segs, c) BY <1>1, <1>8 DEF Applied
  <2> QED BY <2>1, <2>2, ResizeArranges
<1>9. CASE c.type = "transition"
  <2>1. t \in ApplyTransition(segs, c) BY <1>1, <1>9 DEF Applied
  <2> QED BY <2>1, TransitionArranges
<1>10. CASE c.type \notin {"trim", "split", "delete", "replace", "move", "resize", "transition"}
  BY <1>1, <1>10 DEF Applied
<1> QED BY <1>3, <1>4, <1>5, <1>6, <1>7, <1>8, <1>9, <1>10

(* The results of the first commands of a batch, one after the other.      *)
Results(f, segs, cs, n) ==
  IF n = 0 THEN {segs} ELSE UNION {Apply(lib, t, cs[n]) : t \in f[n - 1]}
Lands(f, segs, cs, m) == f = [n \in 0..m |-> Results(f, segs, cs, n)]

(* They exist, however many commands there are.                            *)
LEMMA BatchLands ==
  ASSUME NEW segs, NEW cs, NEW m \in Nat
  PROVE  \E f : Lands(f, segs, cs, m)
<1> DEFINE Bad == {n \in Nat : ~\E f : Lands(f, segs, cs, n)}
<1> SUFFICES ASSUME Bad # {} PROVE FALSE OBVIOUS
<1>1. PICK n \in Bad : \A k \in Bad : ~(k < n)
  <2>1. Bad \subseteq Nat OBVIOUS
  <2> HIDE DEF Bad
  <2> QED BY <2>1, LeastNumber
<1>2. n \in Nat /\ ~\E f : Lands(f, segs, cs, n) OBVIOUS
<1>3. CASE n = 0
  <2> DEFINE f == [k \in 0..n |-> {segs}]
  <2>1. \A k \in 0..n : k = 0 BY <1>3
  <2>2. \A k \in 0..n : Results(f, segs, cs, k) = {segs} BY <2>1 DEF Results
  <2>3. f = [k \in 0..n |-> Results(f, segs, cs, k)] BY <2>2
  <2> QED BY <1>2, <2>3 DEF Lands
<1>4. CASE n # 0
  <2>1. n - 1 \in Nat /\ n - 1 < n BY <1>2, <1>4
  <2>2. n - 1 \notin Bad BY <1>1, <2>1
  <2>3. PICK g : Lands(g, segs, cs, n - 1) BY <2>1, <2>2
  <2>4. g = [k \in 0..(n - 1) |-> Results(g, segs, cs, k)] BY <2>3 DEF Lands
  <2>5. \A k \in 0..(n - 1) : g[k] = Results(g, segs, cs, k) BY <2>4
  <2> DEFINE f == [k \in 0..n |-> IF k = n THEN Results(g, segs, cs, n) ELSE g[k]]
  <2>6. \A k \in 0..n : f[k] = IF k = n THEN Results(g, segs, cs, n) ELSE g[k] OBVIOUS
  <2>7. f = [k \in 0..n |-> f[k]] OBVIOUS
  <2> HIDE DEF f
  <2>8. ASSUME NEW k \in 0..n PROVE f[k] = Results(f, segs, cs, k)
    <3>0. k \in Nat /\ k <= n BY <1>2
    <3>1. CASE k = 0
      <4>1. k # n /\ k \in 0..(n - 1) BY <1>2, <1>4, <3>1
      <4> QED BY <2>5, <2>6, <3>1, <4>1 DEF Results
    <3>2. CASE k # 0
      <4>1. k - 1 \in 0..n /\ k - 1 # n /\ k - 1 \in 0..(n - 1) BY <1>2, <3>0, <3>2
      <4>2. f[k - 1] = g[k - 1] BY <2>6, <4>1
      <4>3. Results(f, segs, cs, k) = Results(g, segs, cs, k) BY <4>2 DEF Results
      <4>4. k = n \/ k \in 0..(n - 1) BY <1>2, <3>0
      <4> QED BY <2>5, <2>6, <4>3, <4>4
    <3> QED BY <3>1, <3>2
  <2>9. Lands(f, segs, cs, n) BY <2>7, <2>8 DEF Lands
  <2> QED BY <1>2, <2>9
<1> QED BY <1>3, <1>4

(* A batch of well-formed commands lands on an orderly timeline.           *)
LEMMA BatchKeeps ==
  ASSUME NEW segs, Orderly(segs), lib \subseteq Assets, NEW cs \in Seq(EditorCommand),
         NEW t \in Batch(lib, segs, cs)
  PROVE  Orderly(t)
<1> DEFINE G == CHOOSE f : Lands(f, segs, cs, Len(cs))
<1>1. Len(cs) \in Nat OBVIOUS
<1>2. Lands(G, segs, cs, Len(cs)) BY <1>1, BatchLands
<1>3. Batch(lib, segs, cs) = IF cs = <<>> THEN {} ELSE G[Len(cs)]
  BY DEF Batch, Lands, Results
<1> HIDE DEF G
<1>4. t \in G[Len(cs)] BY <1>3
<1>5. \A n \in 0..Len(cs) : G[n] = Results(G, segs, cs, n) BY <1>1, <1>2 DEF Lands
<1> DEFINE Bad == {n \in 0..Len(cs) : ~\A x \in G[n] : Orderly(x)}
<1>6. Bad = {}
  <2> SUFFICES ASSUME Bad # {} PROVE FALSE OBVIOUS
  <2>1. PICK n \in Bad : \A k \in Bad : ~(k < n)
    <3>1. Bad \subseteq Nat BY <1>1
    <3> HIDE DEF Bad
    <3> QED BY <3>1, LeastNumber
  <2>2. n \in 0..Len(cs) /\ n \in Nat BY <1>1
  <2>3. PICK x \in G[n] : ~Orderly(x) OBVIOUS
  <2>4. x \in Results(G, segs, cs, n) BY <1>5, <2>2, <2>3
  <2>5. n # 0 BY <2>3, <2>4 DEF Results
  <2>6. n - 1 \in 0..Len(cs) /\ n - 1 < n /\ n \in 1..Len(cs) BY <1>1, <2>2, <2>5
  <2>7. n - 1 \notin Bad BY <2>1, <2>6
  <2>8. \A y \in G[n - 1] : Orderly(y) BY <2>6, <2>7
  <2>9. PICK y \in G[n - 1] : x \in Apply(lib, y, cs[n]) BY <2>4, <2>5 DEF Results
  <2>10. cs[n] \in EditorCommand BY <2>6
  <2>11. Orderly(x) BY <2>8, <2>9, <2>10, ApplyKeeps
  <2> QED BY <2>3, <2>11
<1>7. Len(cs) \in 0..Len(cs) BY <1>1
<1> QED BY <1>4, <1>6, <1>7

(* Every timeline of the history is orderly, and a proposal is made of     *)
(* commands the contract admits.                                           *)
SessionInv ==
  /\ lib \subseteq Assets
  /\ past \in Seq(Range(past)) /\ future \in Seq(Range(future))
  /\ \A e \in Entries : Orderly(e.segs)
  /\ proposal # NoProposal => proposal.commands \in Seq(EditorCommand)

(* The last of a history, and what is before it.                           *)
LEMMA LastOfHistory ==
  ASSUME NEW s, s \in Seq(Range(s)), s # <<>>
  PROVE  /\ SeqLast(s) \in Range(s) /\ Range(SeqFront(s)) \subseteq Range(s)
         /\ SeqFront(s) \in Seq(Range(SeqFront(s)))
<1> DEFINE front == SeqFront(s)
<1>1. Len(s) \in Nat /\ Len(s) > 0 /\ DOMAIN s = 1..Len(s) OBVIOUS
<1>2. Len(s) \in DOMAIN s BY <1>1
<1>3. SeqLast(s) \in Range(s) BY <1>2 DEF SeqLast, Range
<1>4. front \in Seq(Range(s)) BY <1>1 DEF SeqFront
<1> HIDE DEF front
<1>5. front \in Seq(Range(front)) BY <1>4, OfItsOwn
<1>6. \A i \in DOMAIN front : front[i] \in Range(s)
  <2>1. DOMAIN front = 1..Len(front) /\ front \in [1..Len(front) -> Range(s)] BY <1>4
  <2> QED BY <2>1
<1>7. Range(front) \subseteq Range(s) BY <1>6 DEF Range
<1> QED BY <1>3, <1>5, <1>7 DEF front

(* Accepting an orderly timeline keeps the history orderly.                *)
LEMMA AcceptKeeps ==
  ASSUME SessionInv, NEW segs, Orderly(segs), Accept(segs)
  PROVE  /\ past' \in Seq(Range(past')) /\ future' \in Seq(Range(future'))
         /\ \A e \in Entries' : Orderly(e.segs)
<1>1. past' = Append(past, now) /\ now' = [segs |-> segs, gen |-> now.gen + 1] /\ future' = <<>>
  BY DEF Accept
<1>2. past' \in Seq(Range(past')) /\ Range(past') = Range(past) \cup {now}
  BY <1>1, Grown DEF SessionInv
<1>3. Range(future') = {} /\ future' \in Seq(Range(future')) BY <1>1 DEF Range
<1>4. now'.segs = segs BY <1>1
<1>5. Entries' = {now'} \cup Range(past') \cup Range(future') BY DEF Entries
<1>6. \A e \in Entries' : e = now' \/ e = now \/ e \in Range(past) BY <1>2, <1>3, <1>5
<1>7. now \in Entries /\ Range(past) \subseteq Entries BY DEF Entries
<1> QED BY <1>2, <1>3, <1>4, <1>6, <1>7 DEF SessionInv

(* Walking through the history loses nothing of it and adds nothing.       *)
LEMMA UndoKeeps ==
  ASSUME SessionInv, Undo \/ Redo
  PROVE  SessionInv'
<1>1. UNCHANGED <<lib, proposal>> BY DEF Undo, Redo
<1>2. SUFFICES /\ past' \in Seq(Range(past')) /\ future' \in Seq(Range(future'))
               /\ Entries' \subseteq Entries
  BY <1>1 DEF SessionInv
<1>3. CASE Undo
  <2>1. /\ past # <<>> /\ future' = Append(future, now) /\ now' = SeqLast(past)
        /\ past' = SeqFront(past)
    BY <1>3 DEF Undo
  <2>2. /\ SeqLast(past) \in Range(past) /\ Range(SeqFront(past)) \subseteq Range(past)
        /\ SeqFront(past) \in Seq(Range(SeqFront(past)))
    BY <2>1, LastOfHistory DEF SessionInv
  <2>3. future' \in Seq(Range(future')) /\ Range(future') = Range(future) \cup {now}
    BY <2>1, Grown DEF SessionInv
  <2>4. past' \in Seq(Range(past')) /\ Range(past') \subseteq Range(past) /\ now' \in Range(past)
    BY <2>1, <2>2
  <2> QED BY <2>3, <2>4 DEF Entries
<1>4. CASE Redo
  <2>1. /\ future # <<>> /\ past' = Append(past, now) /\ now' = SeqLast(future)
        /\ future' = SeqFront(future)
    BY <1>4 DEF Redo
  <2>2. /\ SeqLast(future) \in Range(future) /\ Range(SeqFront(future)) \subseteq Range(future)
        /\ SeqFront(future) \in Seq(Range(SeqFront(future)))
    BY <2>1, LastOfHistory DEF SessionInv
  <2>3. past' \in Seq(Range(past')) /\ Range(past') = Range(past) \cup {now}
    BY <2>1, Grown DEF SessionInv
  <2>4. future' \in Seq(Range(future')) /\ Range(future') \subseteq Range(future)
        /\ now' \in Range(future)
    BY <2>1, <2>2
  <2> QED BY <2>3, <2>4 DEF Entries
<1> QED BY <1>3, <1>4

(* What the server does with one command of a user or a panel.             *)
LEMMA EditKeeps ==
  ASSUME SessionInv, NEW c \in EditorCommand, NEW segs \in Apply(lib, now.segs, c), Accept(segs),
         UNCHANGED <<lib, proposal>>
  PROVE  SessionInv'
<1>1. Orderly(now.segs) /\ lib \subseteq Assets BY DEF SessionInv, Entries
<1>2. Orderly(segs) BY <1>1, ApplyKeeps
<1> QED BY <1>2, AcceptKeeps DEF SessionInv

(* No step of a session takes the order of a timeline.                     *)
LEMMA SessionKeeps == SessionInv /\ SessionNext => SessionInv'
<1> SUFFICES ASSUME SessionInv, SessionNext PROVE SessionInv' OBVIOUS
<1>1. ASSUME NEW c, UserEdit(c) PROVE SessionInv'
  <2>1. PICK segs \in Apply(lib, now.segs, c) : Accept(segs) BY <1>1 DEF UserEdit
  <2>2. c \in EditorCommand /\ UNCHANGED <<lib, proposal>> BY <1>1 DEF UserEdit
  <2> QED BY <2>1, <2>2, EditKeeps
<1>2. CASE Undo \/ Redo BY <1>2, UndoKeeps
<1>3. ASSUME NEW r, Propose(r) PROVE SessionInv'
  <2>1. PICK cs \in Seq(EditorCommand) :
          proposal' = [kind |-> r.kind, base |-> now.gen, commands |-> cs,
                       seen |-> now.segs, of |-> r]
    BY <1>3 DEF Propose
  <2>2. proposal'.commands = cs BY <2>1
  <2>3. UNCHANGED <<past, now, future, lib>> BY <1>3 DEF Propose
  <2>4. Entries' = Entries BY <2>3 DEF Entries
  <2> QED BY <2>2, <2>3, <2>4 DEF SessionInv
<1>4. CASE ApplyProposal
  <2>1. proposal # NoProposal /\ proposal' = NoProposal /\ lib' = lib BY <1>4 DEF ApplyProposal
  <2>2. CASE UNCHANGED <<past, now, future>>
    <3>1. Entries' = Entries BY <2>2 DEF Entries
    <3> QED BY <2>1, <2>2, <3>1 DEF SessionInv
  <2>3. CASE \E segs \in Batch(lib, now.segs, proposal.commands) : Accept(segs)
    <3>1. PICK segs \in Batch(lib, now.segs, proposal.commands) : Accept(segs) BY <2>3
    <3>2. Orderly(now.segs) /\ lib \subseteq Assets /\ proposal.commands \in Seq(EditorCommand)
      BY <2>1 DEF SessionInv, Entries
    <3>3. Orderly(segs) BY <3>1, <3>2, BatchKeeps
    <3> QED BY <2>1, <3>1, <3>3, AcceptKeeps DEF SessionInv
  <2> QED BY <1>4, <2>2, <2>3 DEF ApplyProposal
<1>5. ASSUME NEW a, AssetGoes(a) PROVE SessionInv'
  <2>1. lib' = lib \ {a} /\ UNCHANGED <<past, now, future, proposal>> BY <1>5 DEF AssetGoes
  <2>2. Entries' = Entries BY <2>1 DEF Entries
  <2> QED BY <2>1, <2>2 DEF SessionInv
<1> QED BY <1>1, <1>2, <1>3, <1>4, <1>5 DEF SessionNext

(* Nor does a panel that has its edits accepted.                           *)
LEMMA PanelKeeps == SessionInv /\ PanelNext => SessionInv'
<1> SUFFICES ASSUME SessionInv, PanelNext PROVE SessionInv' OBVIOUS
<1>1. ASSUME UNCHANGED <<past, now, future, lib, proposal>> PROVE SessionInv'
  <2>1. Entries' = Entries BY <1>1 DEF Entries
  <2> QED BY <1>1, <2>1 DEF SessionInv
<1>2. ASSUME NEW c, PanelEdit(c) PROVE SessionInv'
  <2>1. c \in EditorCommand /\ UNCHANGED <<lib, proposal>> BY <1>2 DEF PanelEdit
  <2>2. \/ UNCHANGED <<past, now, future>>
        \/ \E segs \in Apply(lib, now.segs, c) : Accept(segs)
    BY <1>2 DEF PanelEdit
  <2> QED BY <1>1, <2>1, <2>2, EditKeeps
<1>3. CASE PanelUndo \/ PanelRedo BY <1>3, UndoKeeps DEF PanelUndo, PanelRedo
<1>4. CASE UNCHANGED sessionVars BY <1>1, <1>4 DEF sessionVars
<1> QED BY <1>2, <1>3, <1>4 DEF PanelNext

(* A session begins with a timeline it may load.                           *)
LEMMA SessionBegins == EditorInit => SessionInv
<1> SUFFICES ASSUME EditorInit PROVE SessionInv OBVIOUS
<1>1. SessionInit BY DEF EditorInit
<1>2. PICK segs \in FirstCut : now = [segs |-> segs, gen |-> 0] BY <1>1 DEF SessionInit
<1>3. /\ past = <<>> /\ future = <<>> /\ lib = Assets /\ proposal = NoProposal
  BY <1>1 DEF SessionInit
<1>4. Orderly(now.segs) BY <1>2, SessionAssumption
<1>5. Range(past) = {} /\ Range(future) = {} BY <1>3 DEF Range
<1>6. past \in Seq(Range(past)) /\ future \in Seq(Range(future)) BY <1>3
<1>7. Entries = {now} BY <1>5 DEF Entries
<1> QED BY <1>3, <1>4, <1>6, <1>7 DEF SessionInv

(* A step of the editor is one of the session, of a panel or of none.      *)
LEMMA SessionStays == SessionInv /\ [EditorNext]_editorVars => SessionInv'
<1> SUFFICES ASSUME SessionInv, [EditorNext]_editorVars PROVE SessionInv' OBVIOUS
<1>1. ASSUME UNCHANGED sessionVars PROVE SessionInv'
  <2>1. UNCHANGED <<past, now, future, lib, proposal>> BY <1>1 DEF sessionVars
  <2>2. Entries' = Entries BY <2>1 DEF Entries
  <2> QED BY <2>1, <2>2 DEF SessionInv
<1>2. SessionNext \/ PanelNext \/ UNCHANGED sessionVars BY DEF EditorNext, editorVars
<1> QED BY <1>1, <1>2, SessionKeeps, PanelKeeps

(* However edits, batches, undo and redo are combined, every timeline of   *)
(* the history keeps its segments one after the other in time and within   *)
(* their sources.                                                          *)
THEOREM EditsAreSound == EditorSpec => []EditsKeepTimelinesSound
<1>1. SessionInv => EditsKeepTimelinesSound
  <2> SUFFICES ASSUME SessionInv, NEW e \in Entries
               PROVE  InOrder(e.segs) /\ (e.segs # <<>> => Compiles(Assets, e.segs))
    BY DEF EditsKeepTimelinesSound
  <2>1. Orderly(e.segs) BY DEF SessionInv
  <2>2. \A s : Fits(s) => s.asset \in Assets /\ WithinSource(s) BY DEF Fits, WithinSource
  <2> QED BY <2>1, <2>2 DEF Orderly, Compiles
<1> QED BY <1>1, SessionBegins, SessionStays, PTL DEF EditorSpec
=============================================================================
