---------------------------- MODULE UsageLedger ----------------------------
(***************************************************************************)
(* The monthly ledger of provider spend, for several workspaces, units and *)
(* months.  It exists twice: the statements of postgres_usage_storage.py,  *)
(* which drive the state here, and InMemoryUsageStorage, which the tests   *)
(* of everything above run on; an operation is written once, with what the *)
(* twins do differently.  Each Postgres operation is one transaction under *)
(* advisory locks, so it is one step.                                      *)
(***************************************************************************)
EXTENDS Integers, FiniteSets, Functions

CONSTANTS
  Owners,      \* owners of reservations (task ids)
  Home,        \* Owner -> workspace
  Operation,   \* Owner -> operation type
  Estimate,    \* Owner -> maximum cost reserved
  Units,       \* Owner -> units reserved
  Attempts,    \* provider attempts of one owner
  Key,         \* Owner -> attempt -> idempotency key of its event
  CallCost,    \* Owner -> cost of one attempt
  UnownedOperations, \* operations called without an owner
  MonthlyCost, \* workspace -> monthly_cost_usd
  GlobalCost,  \* GLOBAL_MONTHLY_ESTIMATED_BUDGET_USD
  MonthlyCount,\* bucket -> monthly limit of a workspace
  LastMonth,   \* bound: months the calendar reaches
  MaxUnowned   \* bound: calls made without an owner

VARIABLES
  books,   \* Postgres' tables
  month,   \* the calendar month
  granted, \* attempts that were authorized: the provider may be called
  loose,   \* unowned reservations of this month not yet given back
  stray    \* history: a reservation was given back that nobody held

ledgerVars == <<books, month, granted, loose, stray>>

Workspaces == {Home[o] : o \in Owners}
Nobody == "nobody"
Shared == {"tts", "stt", "render"}
Bucket(op) == IF op \in Shared THEN "tts_requests" ELSE op
Buckets == {"llm", "image_gen", "tts_requests"}
Live == {"reserved", "consumed"}
Positive(n) == IF n > 0 THEN n ELSE 0

LedgerInit ==
  /\ books =
       [owned |-> [o \in Owners |-> [status |-> "none", month |-> 0, est |-> 0,
                                     settled |-> 0, units |-> 0]],
        tried |-> [o \in Owners |-> [a \in Attempts |-> "none"]],
        held |-> [w \in Workspaces |-> [m \in 1..LastMonth |-> [b \in Buckets |-> 0]]],
        events |-> {}]
  /\ month = 1 /\ granted = {} /\ stray = FALSE
  /\ loose = [w \in Workspaces |-> [b \in Buckets |-> 0]]

(* What the limits are compared with. *)
Costs(events) == [e \in events |-> e.cost]
Booked(l, ws) ==
  SumFunctionOnSet(Costs(l.events), {e \in l.events : e.ws \in ws /\ e.month = month})
Residual(l, o) == Positive(l.owned[o].est - l.owned[o].settled)
Outstanding(l, ws) ==
  SumFunctionOnSet([o \in Owners |-> Residual(l, o)],
    {o \in Owners : Home[o] \in ws /\ l.owned[o].month = month
                    /\ l.owned[o].status \in Live \cup {"billable_unknown"}})
AffordableHere(l, w, amount) == Booked(l, {w}) + Outstanding(l, {w}) + amount <= MonthlyCost[w]
Affordable(l, w, amount) ==
  /\ Booked(l, {w}) + Outstanding(l, {w}) + amount <= MonthlyCost[w]
  /\ Booked(l, Workspaces) + Outstanding(l, Workspaces) + amount <= GlobalCost
Used(l, w, ops) == Cardinality({e \in l.events : e.ws = w /\ e.month = month /\ e.op \in ops})
SameBucket(op) == IF op \in Shared THEN Shared ELSE {op}
Countable(l, w, ops, n) ==
  LET b == Bucket(CHOOSE op \in ops : TRUE)
  IN  Used(l, w, ops) + l.held[w][month][b] + n <= MonthlyCount[b]

Answer(yes, l) == [yes |-> yes, l |-> l]
Held(l, w, m, b, n) == [l EXCEPT !.held[w][m][b] = n]
InBucket(l, o, m) == l.held[Home[o]][m][Bucket(Operation[o])]

(* try_reserve_owned: money first, then the count of the bucket.  Asked    *)
(* again in a later month Postgres refuses, the double does not look.      *)
Reserve(t, l, o) ==
  LET r == l.owned[o]
      taken == [l EXCEPT !.owned[o] = [status |-> "reserved", month |-> month,
                                       est |-> Estimate[o], settled |-> 0, units |-> Units[o]]]
  IN  IF r.status # "none"
      THEN Answer(r.status \in Live /\ (t = "postgres" => r.month = month), l)
      ELSE IF Affordable(l, Home[o], Estimate[o])
                /\ Countable(l, Home[o], SameBucket(Operation[o]), Units[o])
      THEN Answer(TRUE, Held(taken, Home[o], month, Bucket(Operation[o]),
                             InBucket(l, o, month) + Units[o]))
      ELSE Answer(FALSE, l)

(* The bucket gets the owner's units back; the double goes below zero and  *)
(* keeps the owner's own count.                                            *)
Returned(t, l, o) ==
  LET r == l.owned[o]
      left == InBucket(l, o, r.month) - r.units
  IN  IF t = "postgres"
      THEN Held([l EXCEPT !.owned[o].units = 0], Home[o], r.month, Bucket(Operation[o]),
                Positive(left))
      ELSE Held(l, Home[o], r.month, Bucket(Operation[o]), left)

CancelKeepingUnits(t, l, o) ==
  IF l.owned[o].status # "reserved" THEN Answer(FALSE, l)
  ELSE Answer(TRUE, [(IF t = "memory" THEN l ELSE Returned(t, l, o))
                       EXCEPT !.owned[o].status = "cancelled"])
Cancel(t, l, o) ==
  IF l.owned[o].status # "reserved" THEN Answer(FALSE, l)
  ELSE Answer(TRUE, [Returned(t, l, o) EXCEPT !.owned[o].status = "cancelled"])

Open(l, o) == {a \in Attempts : l.tried[o][a] = "authorized"}

(* settle_owned: attempts nobody recorded become unknown and stay charged. *)
(* A reserved owner that used some of its units is settled by Postgres and *)
(* refused by the double.                                                  *)
Settle(t, l, o, unknown) ==
  LET r == l.owned[o]
      retained == IF unknown THEN r.est ELSE r.settled + CallCost[o] * Cardinality(Open(l, o))
      charged == unknown \/ Open(l, o) # {}
      back == IF t = "postgres" \/ r.status = "reserved" THEN Returned(t, l, o) ELSE l
      closed == [back EXCEPT !.owned[o].status = IF charged THEN "billable_unknown" ELSE "settled",
                             !.owned[o].est = retained]
  IN  IF \/ r.status \notin Live
         \/ r.status = "reserved" /\ ~charged /\ (t = "postgres" => r.settled <= 0)
      THEN Answer(FALSE, l)
      ELSE Answer(TRUE,
             IF t = "postgres"
             THEN [closed EXCEPT !.tried[o] = [a \in Attempts |->
                     IF a \in Open(l, o) THEN "unknown" ELSE @[a]]]
             ELSE closed)

FinalizeRevoked(t, l, o) ==
  IF \E a \in Attempts : l.tried[o][a] \in {"authorized", "accounted"}
  THEN Settle(t, l, o, FALSE) ELSE Cancel(t, l, o)

(* readmit_owned: what is left of the reservation moves to this month.     *)
(* Postgres counts only events of the owner's own operation.               *)
Readmit(t, l, o) ==
  LET r == l.owned[o]
      b == Bucket(Operation[o])
      ops == IF t = "postgres" THEN {Operation[o]} ELSE SameBucket(Operation[o])
      left == Held(l, Home[o], r.month, b, Positive(InBucket(l, o, r.month) - r.units))
      moved == IF r.status = "reserved"
               THEN Held(left, Home[o], month, b, InBucket(l, o, month) + r.units) ELSE l
  IN  IF r.status \notin Live THEN Answer(FALSE, l)
      ELSE IF r.month = month THEN Answer(TRUE, l)
      ELSE IF /\ Affordable(l, Home[o], Residual(l, o))
              /\ r.status = "reserved" => Countable(l, Home[o], ops, r.units)
      THEN Answer(TRUE, [moved EXCEPT !.owned[o].month = month])
      ELSE Answer(FALSE, l)

(* authorize_owned_attempt: Postgres answers for a known attempt before it *)
(* looks at the owner's status, the double after.                          *)
Authorize(t, l, o, a) ==
  LET live == l.owned[o].status \in Live
      known == l.tried[o][a] # "none"
      sum == CallCost[o] * Cardinality({b \in Attempts : l.tried[o][b] # "none"})
  IN  IF known /\ (t = "postgres" \/ live) THEN Answer(TRUE, l)
      ELSE IF ~known /\ live /\ sum + CallCost[o] <= l.owned[o].est
      THEN Answer(TRUE, [l EXCEPT !.tried[o][a] = "authorized"])
      ELSE Answer(FALSE, l)

(* record_owned_event.  An event is written once per key; Postgres accepts *)
(* it for an open attempt only, the double for any, and the double takes a *)
(* unit and reopens the owner whatever its status was.                     *)
Record(t, l, o, key, a) ==
  LET r == l.owned[o]
      seen == \E e \in l.events : e.owner = o /\ e.key = key
      event == [owner |-> o, key |-> key, ws |-> Home[o], op |-> Operation[o], month |-> month,
                cost |-> CallCost[o], promised |-> r.month = month]
      takes == r.units > 0 /\ (t = "postgres" => r.status = "reserved")
      left == r.units - 1
      written == [l EXCEPT !.events = @ \cup {event}, !.tried[o][a] = "accounted",
                           !.owned[o].settled =
                              IF t = "postgres" /\ @ + CallCost[o] > r.est THEN r.est
                              ELSE @ + CallCost[o]]
      paid == IF takes
              THEN Held([written EXCEPT !.owned[o].units = left], Home[o], r.month,
                        Bucket(Operation[o]), InBucket(l, o, r.month) - 1)
              ELSE written
      status == IF t = "memory" THEN IF paid.owned[o].units = 0 THEN "consumed" ELSE "reserved"
                ELSE IF takes /\ left = 0 THEN "consumed" ELSE r.status
  IN  IF r.status \in {"none", "cancelled"} THEN Answer(FALSE, l)
      ELSE IF seen THEN Answer(TRUE, l)
      ELSE IF l.tried[o][a] = "none" \/ (t = "postgres" /\ l.tried[o][a] # "authorized")
      THEN Answer(FALSE, l)
      ELSE Answer(TRUE, [paid EXCEPT !.owned[o].status = status])

(* Calls without an owner: the synchronous dispatch (check_quota,          *)
(* try_reserve_quota) and record_usage of a call nobody reserved.          *)
ReserveUnowned(l, w, op) ==
  IF Booked(l, {w}) < MonthlyCost[w] /\ Countable(l, w, SameBucket(op), 1)
  THEN Answer(TRUE, Held(l, w, month, Bucket(op), l.held[w][month][Bucket(op)] + 1))
  ELSE Answer(FALSE, l)

ReservedOwners(l, w, b) ==
  Cardinality({o \in Owners : Home[o] = w /\ Bucket(Operation[o]) = b
                              /\ l.owned[o].month = month /\ l.owned[o].status = "reserved"})

\* _decrement_reservation: never below the number of reserved owners, which
\* is not the number of their units.
GiveBack(t, l, w, op) ==
  LET lowered(b) == l.held[w][month][b] - (IF b = Bucket(op) THEN 1 ELSE 0)
      floored(b) == IF lowered(b) < ReservedOwners(l, w, b) THEN ReservedOwners(l, w, b)
                    ELSE lowered(b)
  IN  [l EXCEPT !.held[w][month] = [b \in Buckets |->
         IF b = Bucket(op) \/ t = "postgres" THEN floored(b) ELSE @[b]]]

UnownedEvents(l) == {e \in l.events : e.owner = Nobody}
RecordUnowned(t, l, w, op) ==
  GiveBack(t, [l EXCEPT !.events = @ \cup
    {[owner |-> Nobody, key |-> Cardinality(UnownedEvents(l)) + 1, ws |-> w, op |-> op,
      month |-> month, cost |-> 1, promised |-> FALSE]}], w, op)

Row(o) == books.owned[o]
Becomes(result) == books' = result.l
Kept == UNCHANGED <<month, granted, loose, stray>>

ReserveOwned(o) == Becomes(Reserve("postgres", books, o)) /\ Kept
CancelOwned(o) == Becomes(Cancel("postgres", books, o)) /\ Kept
SettleOwned(o) ==
  (\E unknown \in BOOLEAN : Becomes(Settle("postgres", books, o, unknown))) /\ Kept
FinalizeRevokedOwned(o) == Becomes(FinalizeRevoked("postgres", books, o)) /\ Kept
ReadmitOwned(o) == Becomes(Readmit("postgres", books, o)) /\ Kept

AuthorizeAttempt(o, a) ==
  LET result == Authorize("postgres", books, o, a)
  IN  /\ Becomes(result)
      /\ granted' = IF result.yes THEN granted \cup {<<o, a>>} ELSE granted
      /\ UNCHANGED <<month, loose, stray>>

RecordEvent(o, a) ==
  /\ <<o, a>> \in granted
  /\ Becomes(Record("postgres", books, o, Key[o][a], a)) /\ Kept

CheckQuota(w, op) ==
  LET result == ReserveUnowned(books, w, op)
  IN  /\ loose[w][Bucket(op)] < MaxUnowned
      /\ Becomes(result)
      /\ loose' = IF result.yes THEN [loose EXCEPT ![w][Bucket(op)] = @ + 1] ELSE loose
      /\ UNCHANGED <<month, granted, stray>>

GivenBack(w, op) ==
  IF loose[w][Bucket(op)] > 0
  THEN loose' = [loose EXCEPT ![w][Bucket(op)] = @ - 1] /\ UNCHANGED stray
  ELSE stray' = TRUE /\ UNCHANGED loose

CancelUnowned(w, op) ==
  /\ books' = GiveBack("postgres", books, w, op)
  /\ GivenBack(w, op) /\ UNCHANGED <<month, granted>>

RecordCall(w, op) ==
  /\ Cardinality(UnownedEvents(books)) < MaxUnowned
  /\ books' = RecordUnowned("postgres", books, w, op)
  /\ GivenBack(w, op) /\ UNCHANGED <<month, granted>>

MonthEnds ==
  /\ month < LastMonth /\ month' = month + 1
  /\ loose' = [w \in Workspaces |-> [b \in Buckets |-> 0]]
  /\ UNCHANGED <<books, granted, stray>>

\* `os' are the owners and `ops' the unowned operations at work.
LedgerStep(os, ops) ==
  \/ \E o \in os :
       \/ ReserveOwned(o) \/ CancelOwned(o) \/ SettleOwned(o) \/ FinalizeRevokedOwned(o)
       \/ ReadmitOwned(o)
       \/ \E a \in Attempts : AuthorizeAttempt(o, a) \/ RecordEvent(o, a)
  \/ \E w \in Workspaces, op \in ops :
       CheckQuota(w, op) \/ CancelUnowned(w, op) \/ RecordCall(w, op)
  \/ MonthEnds

LedgerNext == LedgerStep(Owners, UnownedOperations)
LedgerSpec == LedgerInit /\ [][LedgerNext]_ledgerVars

Promised(ws) ==
  SumFunctionOnSet(Costs(books.events),
    {e \in books.events : e.ws \in ws /\ e.month = month /\ e.promised})

\* What this month's reservations have spent and may still spend fits the
\* workspace's budget and the global one, whatever was settled, readmitted,
\* cancelled or retried (try_reserve_owned, readmit_owned).
MoneyKept ==
  /\ \A w \in Workspaces : Promised({w}) + Outstanding(books, {w}) <= MonthlyCost[w]
  /\ Promised(Workspaces) + Outstanding(books, Workspaces) <= GlobalCost

\* An owner is charged at most what was reserved for it, and what was called
\* and not recorded stays charged (settle_owned).
ChargesKept ==
  \A o \in Owners :
    LET paid == SumFunctionOnSet(Costs(books.events), {e \in books.events : e.owner = o})
    IN  /\ paid <= Estimate[o]
        /\ Row(o).status = "billable_unknown" =>
             paid + CallCost[o] * Cardinality({a \in Attempts : books.tried[o][a] = "unknown"})
               <= Row(o).est

\* As long as nobody gives back what nobody reserved, a month's counter is
\* the sum of the units still reserved and of the unowned reservations.
UnitsKept ==
  ~stray =>
    \A w \in Workspaces, b \in Buckets :
      books.held[w][month][b] =
        loose[w][b] + SumFunctionOnSet([o \in Owners |-> Row(o).units],
          {o \in Owners : Home[o] = w /\ Bucket(Operation[o]) = b /\ Row(o).month = month
                          /\ Row(o).status = "reserved"})

\* The double's view of the same tables: it has no attempts marked unknown.
AsMemory(l) ==
  [l EXCEPT !.tried = [o \in Owners |-> [a \in Attempts |->
     IF @[o][a] = "unknown" THEN "authorized" ELSE @[o][a]]]]

Alike(Op(_, _)) ==
  LET p == Op("postgres", books)
      m == Op("memory", AsMemory(books))
      seen(r) == <<r.status, r.month, r.est, r.settled>>
  IN  /\ p.yes = m.yes
      /\ \A o \in Owners : seen(p.l.owned[o]) = seen(m.l.owned[o])
      /\ ~stray => p.l.held = m.l.held
      /\ p.l.events = m.l.events

Late(o) == Row(o).month # month
Closed(o) == Row(o).status \notin Live
PartlyUsed(o) == Row(o).status = "reserved" /\ Row(o).settled > 0 /\ Open(books, o) = {}
OtherSpeech(o) ==
  Used(books, Home[o], SameBucket(Operation[o])) # Used(books, Home[o], {Operation[o]})

\* The double the tests run on answers every call as Postgres does and leaves
\* the same rows, except where the guard says so (README, "Twins"):
\* a dispatch repeated in a later month, an owner settled after some of its
\* units, a readmission into a shared bucket, and attempts of an owner that
\* is closed (usage_service.py, InMemoryUsageStorage).
TwinsAgree ==
  \A o \in Owners :
    /\ (Late(o) /\ ~Closed(o)) \/ Alike(LAMBDA t, l : Reserve(t, l, o))
    /\ Alike(LAMBDA t, l : Cancel(t, l, o))
    /\ Alike(LAMBDA t, l : Settle(t, l, o, TRUE))
    /\ PartlyUsed(o) \/ Alike(LAMBDA t, l : Settle(t, l, o, FALSE))
    /\ PartlyUsed(o) \/ Alike(LAMBDA t, l : FinalizeRevoked(t, l, o))
    /\ (Late(o) /\ OtherSpeech(o)) \/ Alike(LAMBDA t, l : Readmit(t, l, o))
    /\ \A a \in Attempts :
         \/ Closed(o)
         \/ /\ Alike(LAMBDA t, l : Authorize(t, l, o, a))
            /\ <<o, a>> \in granted =>
                 Alike(LAMBDA t, l : Record(t, l, o, Key[o][a], a))

\* usage_service.py:258-260: speech recognition and rendering "intentionally
\* share the TTS reservation bucket"; the comment calls this conservative.
SharedBucketKept ==
  ~stray =>
    \A w \in Workspaces, b \in Buckets :
      books.held[w][month][b]
        + Cardinality({e \in books.events : e.ws = w /\ e.month = month /\ e.promised
                                         /\ Bucket(e.op) = b}) <= MonthlyCount[b]
=============================================================================
