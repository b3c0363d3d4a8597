---------------------------- MODULE EditorClient ----------------------------
(***************************************************************************)
(* The asynchronous controllers of the web client's editor: the debounced  *)
(* save (autosave.ts, api/timeline.ts) against the revision check of the   *)
(* server, and the bar that asks a model for edits (aiCommandBar.ts).      *)
(* A save may be answered late, out of order, or not at all although the   *)
(* server has stored it.  Another client may save as well.                 *)
(***************************************************************************)
EXTENDS Naturals, FiniteSets

CONSTANTS
  MaxEdits,   \* bound: edits the user makes, numbered in order
  MaxSaves,   \* bound: saves the controller starts
  MaxTheirs,  \* bound: saves of another client
  MaxAsks     \* bound: requests the bar sends

ASSUME ClientAssumption == {MaxEdits, MaxSaves, MaxTheirs, MaxAsks} \subseteq Nat

VARIABLES
  edits,   \* number of the last edit
  auto,    \* the Autosave controller
  wire,    \* saves under way: [gen, edit, expected, reply]
  server,  \* [rev, edit, stored]; edit 0 is the loaded or another's timeline
  bar,     \* the AICommandBar controller
  asks,    \* requests of the bar that the model has not answered
  emitted  \* how often each request's proposal was handed to onApply

clientVars == <<edits, auto, wire, server, bar, asks, emitted>>

Unsaved == 0
NoAsk == 0
Waiting == "waiting"

ClientInit ==
  /\ edits = 0
  /\ auto = [status |-> "idle", rev |-> 0, pending |-> Unsaved, busy |-> FALSE,
             gen |-> 0, timer |-> FALSE]
  /\ wire = {}
  /\ server = [rev |-> 0, edit |-> 0, stored |-> {}]
  /\ bar = [status |-> "idle", proposal |-> NoAsk, applied |-> FALSE,
            controller |-> NoAsk, last |-> NoAsk]
  /\ asks = [live |-> {}, aborted |-> {}, sent |-> 0]
  /\ emitted = [a \in 1..MaxAsks |-> 0]

-----------------------------------------------------------------------------
(* Autosave.                                                                 *)

\* The controller a after _flush, and the save it starts.
CanFlush(a) == ~a.busy /\ a.pending # Unsaved
Flushed(a) == [a EXCEPT !.gen = @ + 1, !.busy = TRUE, !.status = "saving"]
Save(a) == [gen |-> a.gen + 1, edit |-> a.pending, expected |-> a.rev, reply |-> Waiting]

FlushOr(a, others) ==
  IF CanFlush(a)
  THEN a.gen < MaxSaves /\ auto' = Flushed(a) /\ wire' = others \cup {Save(a)}
  ELSE auto' = a /\ wire' = others

Schedule ==
  /\ edits < MaxEdits
  /\ edits' = edits + 1
  /\ auto' = [auto EXCEPT !.pending = edits + 1, !.timer = TRUE]
  /\ UNCHANGED <<wire, server>>

TimerFires ==
  /\ auto.timer
  /\ FlushOr([auto EXCEPT !.timer = FALSE], wire)
  /\ UNCHANGED <<edits, server>>

\* Supersedes the save under way, which is not called back.
ForceRetry ==
  /\ auto.pending # Unsaved
  /\ FlushOr([auto EXCEPT !.busy = FALSE], wire)
  /\ UNCHANGED <<edits, server>>

\* TimelineService.save checks the revision and bumps it.
ServerSaves(r) ==
  /\ r.reply = Waiting
  /\ LET ok == r.expected = server.rev
         reply == IF ok THEN "ok" ELSE "conflict"
     IN  /\ server' = IF ok THEN [rev |-> server.rev + 1, edit |-> r.edit,
                                  stored |-> server.stored \cup {r.edit}] ELSE server
         /\ \E heard \in {reply, "error"} :
              wire' = (wire \ {r}) \cup {[r EXCEPT !.reply = heard]}
  /\ UNCHANGED <<edits, auto>>

TheySave ==
  /\ server.rev < MaxTheirs
  /\ server' = [server EXCEPT !.rev = @ + 1, !.edit = 0]
  /\ UNCHANGED <<edits, auto, wire>>

RequestFails(r) ==
  /\ r.reply = Waiting
  /\ wire' = (wire \ {r}) \cup {[r EXCEPT !.reply = "error"]}
  /\ UNCHANGED <<edits, auto, server>>

NothingPending(r) == Unsaved
StillPending(r) == IF auto.pending = r.edit THEN Unsaved ELSE auto.pending

\* What _flush does when its save settles.
Settle(r) ==
  /\ r.reply # Waiting
  /\ LET free == [auto EXCEPT !.busy = FALSE]
         saved == [free EXCEPT !.rev = r.expected + 1, !.pending = StillPending(r),
                               !.status = "saved"]
     IN  CASE r.gen # auto.gen -> auto' = auto /\ wire' = wire \ {r}
           [] r.gen = auto.gen /\ r.reply = "ok" -> FlushOr(saved, wire \ {r})
           [] OTHER -> auto' = [free EXCEPT !.status = r.reply] /\ wire' = wire \ {r}
  /\ UNCHANGED <<edits, server>>

AutosaveNext ==
  /\ \/ Schedule \/ TimerFires \/ ForceRetry \/ TheySave
     \/ \E r \in wire : ServerSaves(r) \/ RequestFails(r) \/ Settle(r)
  /\ UNCHANGED <<bar, asks, emitted>>

-----------------------------------------------------------------------------
(* The command bar.  Requests are numbered; the older one is not aborted     *)
(* when another is sent.                                                     *)

Run ==
  /\ asks.sent < MaxAsks
  /\ asks' = [asks EXCEPT !.sent = @ + 1, !.live = @ \cup {asks.sent + 1}]
  /\ bar' = [bar EXCEPT !.status = "requesting", !.proposal = NoAsk, !.applied = FALSE,
                        !.controller = asks.sent + 1, !.last = asks.sent + 1]

Submit == Run /\ UNCHANGED emitted
Retry == bar.last # NoAsk /\ Run /\ UNCHANGED emitted

Released(b, a) == [b EXCEPT !.controller = IF @ = a THEN NoAsk ELSE @]

Answer(a) ==
  /\ asks' = [asks EXCEPT !.live = @ \ {a}]
  /\ \/ a \in asks.aborted /\ bar' = Released(bar, a)
     \/ a \notin asks.aborted /\ bar' = [Released(bar, a) EXCEPT !.proposal = a,
                                                               !.status = "proposal"]
     \/ a \notin asks.aborted /\ bar' = [Released(bar, a) EXCEPT !.status = "error"]
  /\ UNCHANGED emitted

Cancel ==
  /\ asks' = [asks EXCEPT !.aborted = @ \cup ({bar.controller} \ {NoAsk})]
  /\ bar' = [bar EXCEPT !.controller = NoAsk, !.proposal = NoAsk, !.status = "idle"]
  /\ UNCHANGED emitted

ApplyBar ==
  /\ bar.proposal # NoAsk /\ ~bar.applied
  /\ bar' = [bar EXCEPT !.applied = TRUE]
  /\ emitted' = [emitted EXCEPT ![bar.proposal] = @ + 1]
  /\ UNCHANGED asks

Dismiss ==
  /\ bar' = [bar EXCEPT !.proposal = NoAsk, !.applied = FALSE, !.status = "idle"]
  /\ UNCHANGED <<asks, emitted>>

BarNext ==
  /\ \/ Submit \/ Retry \/ Cancel \/ ApplyBar \/ Dismiss
     \/ \E a \in asks.live : Answer(a)
  /\ UNCHANGED <<edits, auto, wire, server>>

-----------------------------------------------------------------------------
(* Properties.                                                               *)

\* "saved" with nothing pending means that the server has stored the last
\* edit, in whatever order answers arrive and saves are superseded; the last
\* edit is otherwise still pending, so it can be saved again
\* (autosave.ts:8-16).
SavedMeansStored ==
  edits # 0 => \/ auto.pending = edits
               \/ auto.pending = Unsaved /\ edits \in server.stored

\* A request's proposal is handed over once, with cancelled, repeated and
\* overlapping requests (aiCommandBar.ts:106-116).
EmittedOnce == \A a \in 1..MaxAsks : emitted[a] <= 1

\* No edit is lost by the autosave and none is applied twice by the bar.
ControllersKeepEdits == SavedMeansStored /\ EmittedOnce

\* autosave.ts:9 says that only one save is in flight at a time.
OneSaveInFlight == Cardinality({r \in wire : r.reply = Waiting}) <= 1

\* aiCommandBar.ts:92 says that cancel returns to idle: nothing arrives later.
CancelledIsQuiet ==
  [][bar.status = "idle" /\ bar'.status # "idle" => bar'.status = "requesting"]_clientVars
=============================================================================
