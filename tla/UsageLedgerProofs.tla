------------------------- MODULE UsageLedgerProofs -------------------------
(***************************************************************************)
(* Proofs about the ledger of provider spend, for every set of owners,     *)
(* every price, budget and limit, and any number of months: the budgets    *)
(* hold, an owner is charged at most its reservation, and the counter of a *)
(* month is the sum of what is reserved.  The totals of the statements are *)
(* sums over rows; each transaction changes one row, so it moves a total   *)
(* by what that row's share changes.                                       *)
(***************************************************************************)
EXTENDS UsageLedger, SumTheorems

(* What the callers give the ledger: prices are not negative, a            *)
(* reservation has at least one unit (reservation_units), and a bucket is  *)
(* one of the three of Bucket.                                             *)
SoundConstants ==
  /\ IsFiniteSet(Owners) /\ IsFiniteSet(Attempts) /\ Nobody \notin Owners
  /\ \A o \in Owners :
       /\ Estimate[o] \in Nat /\ CallCost[o] \in Nat /\ Units[o] \in Nat \ {0}
       /\ Bucket(Operation[o]) \in Buckets
  /\ \A op \in UnownedOperations : Bucket(op) \in Buckets
  /\ \A w \in Workspaces : MonthlyCost[w] \in Nat
  /\ GlobalCost \in Nat /\ LastMonth \in Nat \ {0}

OwnerRows ==
  [status : {"none", "reserved", "consumed", "cancelled", "settled", "billable_unknown"},
   month : 0..LastMonth, est : Nat, settled : Nat, units : Nat]
AttemptRows == [Attempts -> {"none", "authorized", "accounted", "unknown"}]
Counters == [Workspaces -> [1..LastMonth -> [Buckets -> Int]]]
IsBooks(l) ==
  l = [owned |-> l.owned, tried |-> l.tried, held |-> l.held, events |-> l.events]
EventsOK(events, m) ==
  /\ IsFiniteSet(events)
  /\ \A e \in events : e.cost \in Nat /\ e.month \in 1..m

TypeOK ==
  /\ IsBooks(books)
  /\ books.owned \in [Owners -> OwnerRows]
  /\ books.tried \in [Owners -> AttemptRows]
  /\ books.held \in Counters
  /\ EventsOK(books.events, month)
  /\ month \in 1..LastMonth
  /\ loose \in [Workspaces -> [Buckets -> Nat]]
  /\ stray \in BOOLEAN

(* The share of one row in a total. *)
Owes(r, m) ==
  IF r.month = m /\ r.status \in Live \cup {"billable_unknown"}
  THEN Positive(r.est - r.settled) ELSE 0
Share(o, r, ws, m) == IF Home[o] \in ws THEN Owes(r, m) ELSE 0
Owed(owned, ws, m) ==
  SumFunctionOnSet([o \in Owners |-> Share(o, owned[o], ws, m)], Owners)
Spent(events, ws, m) ==
  SumFunctionOnSet(Costs(events), {e \in events : e.ws \in ws /\ e.month = m /\ e.promised})
Paid(events, o) == SumFunctionOnSet(Costs(events), {e \in events : e.owner = o})
Takes(o, r, w, b, m) ==
  IF Home[o] = w /\ Bucket(Operation[o]) = b /\ r.month = m /\ r.status = "reserved"
  THEN r.units ELSE 0
Taken(owned, w, b, m) ==
  SumFunctionOnSet([o \in Owners |-> Takes(o, owned[o], w, b, m)], Owners)

-----------------------------------------------------------------------------
(* Totals and shares. *)

(* The outstanding amount is the sum of the shares of all owners.          *)
LEMMA OwedIsOutstanding ==
  ASSUME SoundConstants, NEW owned \in [Owners -> OwnerRows], NEW ws, NEW m \in 0..LastMonth
  PROVE SumFunctionOnSet([o \in Owners |-> Positive(owned[o].est - owned[o].settled)],
          {o \in Owners : Home[o] \in ws /\ owned[o].month = m
                          /\ owned[o].status \in Live \cup {"billable_unknown"}})
          = Owed(owned, ws, m)
<1> DEFINE f == [o \in Owners |-> Positive(owned[o].est - owned[o].settled)]
           T == {o \in Owners : Home[o] \in ws /\ owned[o].month = m
                                /\ owned[o].status \in Live \cup {"billable_unknown"}}
           kept == [o \in Owners |-> IF o \in T THEN f[o] ELSE 0]
           share == [o \in Owners |-> Share(o, owned[o], ws, m)]
<1>1. \A o \in Owners : f[o] \in Int /\ kept[o] = share[o]
  BY DEF OwnerRows, Positive, Share, Owes
<1>2. T \subseteq Owners OBVIOUS
<1>3. Summable(f, Owners) BY <1>1 DEF Summable, SoundConstants
<1>4. kept = share BY <1>1
<1> HIDE DEF f, T, share
<1>5. SumFunctionOnSet(f, T) = SumFunctionOnSet(kept, Owners) BY <1>2, <1>3, SumFilter
<1>6. SumFunctionOnSet(f, T) = SumFunctionOnSet(share, Owners) BY <1>4, <1>5
<1> QED BY <1>6 DEF Owed, f, T, share

(* The units of the reserved owners of a bucket are such a sum, too.       *)
LEMMA TakenIsReserved ==
  ASSUME SoundConstants, NEW owned \in [Owners -> OwnerRows], NEW w, NEW b, NEW m \in 0..LastMonth
  PROVE SumFunctionOnSet([o \in Owners |-> owned[o].units],
          {o \in Owners : Home[o] = w /\ Bucket(Operation[o]) = b /\ owned[o].month = m
                          /\ owned[o].status = "reserved"})
          = Taken(owned, w, b, m)
<1> DEFINE f == [o \in Owners |-> owned[o].units]
           T == {o \in Owners : Home[o] = w /\ Bucket(Operation[o]) = b /\ owned[o].month = m
                                /\ owned[o].status = "reserved"}
           kept == [o \in Owners |-> IF o \in T THEN f[o] ELSE 0]
           share == [o \in Owners |-> Takes(o, owned[o], w, b, m)]
<1>1. \A o \in Owners : f[o] \in Int /\ kept[o] = share[o] BY DEF OwnerRows, Takes
<1>2. T \subseteq Owners OBVIOUS
<1>3. Summable(f, Owners) BY <1>1 DEF Summable, SoundConstants
<1>4. kept = share BY <1>1
<1> HIDE DEF f, T, share
<1>5. SumFunctionOnSet(f, T) = SumFunctionOnSet(kept, Owners) BY <1>2, <1>3, SumFilter
<1>6. SumFunctionOnSet(f, T) = SumFunctionOnSet(share, Owners) BY <1>4, <1>5
<1> QED BY <1>6 DEF Taken, f, T, share

(* One row changes: the total changes by the change of its share.          *)
LEMMA OwedMoves ==
  ASSUME SoundConstants, NEW owned \in [Owners -> OwnerRows], NEW o \in Owners,
         NEW r \in OwnerRows, NEW ws, NEW m \in 0..LastMonth
  PROVE /\ Owed(owned, ws, m) \in Nat
        /\ Owed([owned EXCEPT ![o] = r], ws, m)
             = Owed(owned, ws, m) - Share(o, owned[o], ws, m) + Share(o, r, ws, m)
<1> DEFINE f == [p \in Owners |-> Share(p, owned[p], ws, m)]
           new == [owned EXCEPT ![o] = r]
           g == [p \in Owners |-> Share(p, new[p], ws, m)]
<1>1. \A p \in Owners : f[p] \in Nat BY DEF OwnerRows, Share, Owes, Positive
<1>2. new[o] = r /\ \A p \in Owners \ {o} : new[p] = owned[p] OBVIOUS
<1>3. f[o] = Share(o, owned[o], ws, m) OBVIOUS
<1> HIDE DEF new
<1>4. g[o] = Share(o, r, ws, m) /\ \A p \in Owners \ {o} : f[p] = g[p] BY <1>2
<1>5. g[o] \in Int BY <1>4 DEF OwnerRows, Share, Owes, Positive
<1>6. Owed(owned, ws, m) = SumFunctionOnSet(f, Owners) BY DEF Owed
<1>7. Owed(new, ws, m) = SumFunctionOnSet(g, Owners) BY DEF Owed
<1> HIDE DEF f, g
<1>8. Summable(f, Owners) BY <1>1 DEF Summable, SoundConstants
<1>9. SumFunctionOnSet(g, Owners) = SumFunctionOnSet(f, Owners) - f[o] + g[o]
  BY <1>4, <1>5, <1>8, SumChange
<1>10. SumFunctionOnSet(f, Owners) \in Nat BY <1>1, SumNatural DEF SoundConstants
<1> QED BY <1>3, <1>4, <1>6, <1>7, <1>9, <1>10 DEF new

(* So does the number of reserved units, of which a row's are a part.      *)
LEMMA TakenMoves ==
  ASSUME SoundConstants, NEW owned \in [Owners -> OwnerRows], NEW o \in Owners,
         NEW r \in OwnerRows, NEW w, NEW b, NEW m \in 0..LastMonth
  PROVE /\ Taken(owned, w, b, m) \in Nat
        /\ Takes(o, owned[o], w, b, m) <= Taken(owned, w, b, m)
        /\ Taken([owned EXCEPT ![o] = r], w, b, m)
             = Taken(owned, w, b, m) - Takes(o, owned[o], w, b, m) + Takes(o, r, w, b, m)
<1> DEFINE f == [p \in Owners |-> Takes(p, owned[p], w, b, m)]
           new == [owned EXCEPT ![o] = r]
           g == [p \in Owners |-> Takes(p, new[p], w, b, m)]
<1>1. \A p \in Owners : f[p] \in Nat BY DEF OwnerRows, Takes
<1>2. new[o] = r /\ \A p \in Owners \ {o} : new[p] = owned[p] OBVIOUS
<1>3. f[o] = Takes(o, owned[o], w, b, m) OBVIOUS
<1> HIDE DEF new
<1>4. g[o] = Takes(o, r, w, b, m) /\ \A p \in Owners \ {o} : f[p] = g[p] BY <1>2
<1>5. g[o] \in Int BY <1>4 DEF OwnerRows, Takes
<1>6. Taken(owned, w, b, m) = SumFunctionOnSet(f, Owners) BY DEF Taken
<1>7. Taken(new, w, b, m) = SumFunctionOnSet(g, Owners) BY DEF Taken
<1> HIDE DEF f, g
<1>8. Summable(f, Owners) BY <1>1 DEF Summable, SoundConstants
<1>9. SumFunctionOnSet(g, Owners) = SumFunctionOnSet(f, Owners) - f[o] + g[o]
  BY <1>4, <1>5, <1>8, SumChange
<1>10. SumFunctionOnSet(f, Owners) \in Nat BY <1>1, SumNatural DEF SoundConstants
<1>11. f[o] <= SumFunctionOnSet(f, Owners)
  <2>1. SumFunctionOnSet(f, Owners) = f[o] + SumFunctionOnSet(f, Owners \ {o}) BY <1>8, SumOne
  <2>2. IsFiniteSet(Owners \ {o}) BY FS_RemoveElement DEF SoundConstants
  <2>3. SumFunctionOnSet(f, Owners \ {o}) \in Nat BY <1>1, <2>2, SumNatural
  <2> QED BY <1>1, <2>1, <2>3
<1> QED BY <1>3, <1>4, <1>6, <1>7, <1>9, <1>10, <1>11 DEF new

(* What was spent of this month's promises is part of what is booked.      *)
LEMMA SpentIsBooked ==
  ASSUME NEW events, NEW m \in Nat, EventsOK(events, m), NEW ws
  PROVE /\ Spent(events, ws, m) \in Nat
        /\ Spent(events, ws, m)
             <= SumFunctionOnSet(Costs(events), {e \in events : e.ws \in ws /\ e.month = m})
<1> DEFINE S == {e \in events : e.ws \in ws /\ e.month = m}
           T == {e \in events : e.ws \in ws /\ e.month = m /\ e.promised}
<1>1. T \subseteq S /\ S \subseteq events OBVIOUS
<1>2. \A e \in events : Costs(events)[e] \in Nat BY DEF EventsOK, Costs
<1>3. Spent(events, ws, m) = SumFunctionOnSet(Costs(events), T) BY DEF Spent
<1> HIDE DEF S, T
<1>4. IsFiniteSet(S) /\ IsFiniteSet(T) BY <1>1, FS_Subset DEF EventsOK
<1>5. SumFunctionOnSet(Costs(events), T) <= SumFunctionOnSet(Costs(events), S)
  BY <1>1, <1>2, <1>4, SumPart
<1>6. SumFunctionOnSet(Costs(events), T) \in Nat BY <1>1, <1>2, <1>4, SumNatural
<1> QED BY <1>3, <1>5, <1>6 DEF S

(* An event more keeps the table of events in order.                       *)
LEMMA EventFits ==
  ASSUME NEW events, NEW m \in Nat, EventsOK(events, m), NEW e, e.cost \in Nat, e.month \in 1..m
  PROVE EventsOK(events \cup {e}, m)
BY FS_AddElement DEF EventsOK

(* The sum over other events does not see it.                              *)
LEMMA EventIsApart ==
  ASSUME NEW events, IsFiniteSet(events), \A d \in events : d.cost \in Nat, NEW e,
         NEW T, T \subseteq events
  PROVE SumFunctionOnSet(Costs(events \cup {e}), T) = SumFunctionOnSet(Costs(events), T)
<1> DEFINE f == Costs(events)
           g == Costs(events \cup {e})
<1>1. \A d \in events : f[d] = g[d] /\ f[d] \in Nat BY DEF Costs
<1> HIDE DEF f, g
<1>2. IsFiniteSet(T) BY FS_Subset
<1>3. Summable(f, T) BY <1>1, <1>2 DEF Summable
<1>4. SumFunctionOnSet(f, T) = SumFunctionOnSet(g, T) BY <1>1, <1>3, SumCongruence
<1> QED BY <1>4 DEF f, g

(* A sum over events counts a new event when it is one of those summed.    *)
LEMMA EventAdds ==
  ASSUME NEW events, NEW m \in Nat, EventsOK(events, m), NEW e, e.cost \in Nat, e.month \in 1..m,
         NEW T \in SUBSET events
  PROVE /\ e \notin events =>
             SumFunctionOnSet(Costs(events \cup {e}), T \cup {e})
               = SumFunctionOnSet(Costs(events), T) + e.cost
<1> DEFINE f == Costs(events)
           g == Costs(events \cup {e})
<1>2. \A d \in events : f[d] = g[d] /\ f[d] \in Nat BY DEF EventsOK, Costs
<1>3. g[e] = e.cost BY DEF Costs
<1> HIDE DEF f, g
<1>4. IsFiniteSet(T) BY FS_Subset DEF EventsOK
<1>5. Summable(f, T) BY <1>2, <1>4 DEF Summable
<1>6. SumFunctionOnSet(f, T) = SumFunctionOnSet(g, T) BY <1>2, <1>5, SumCongruence
<1>7. ASSUME e \notin events
      PROVE SumFunctionOnSet(g, T \cup {e}) = SumFunctionOnSet(f, T) + e.cost
  <2>1. IsFiniteSet(T \cup {e}) BY <1>4, FS_AddElement
  <2>2. \A d \in T \cup {e} : g[d] \in Int BY <1>2, <1>3
  <2>3. Summable(g, T \cup {e}) BY <2>1, <2>2 DEF Summable
  <2>4. SumFunctionOnSet(g, T \cup {e}) = g[e] + SumFunctionOnSet(g, (T \cup {e}) \ {e})
    BY <2>3, SumOne
  <2>5. (T \cup {e}) \ {e} = T BY <1>7
  <2>6. SumFunctionOnSet(f, T) \in Int BY <1>5, SumType
  <2>7. SumFunctionOnSet(g, (T \cup {e}) \ {e}) = SumFunctionOnSet(f, T) BY <1>6, <2>5
  <2>8. SumFunctionOnSet(g, T \cup {e}) = e.cost + SumFunctionOnSet(f, T) BY <1>3, <2>4, <2>7
  <2> HIDE DEF f, g
  <2> QED BY <2>6, <2>8
<1> QED BY <1>7 DEF f, g

(* A new event of an owner adds its cost to what the owner paid, and to    *)
(* what was spent of the month's promises when it belongs to them.         *)
LEMMA EventCounts ==
  ASSUME NEW events, NEW m \in Nat, EventsOK(events, m), NEW e, e.cost \in Nat, e.month \in 1..m,
         e \notin events \/ ~e.promised
  PROVE \A ws : Spent(events \cup {e}, ws, m)
          = Spent(events, ws, m)
              + IF e.ws \in ws /\ e.month = m /\ e.promised THEN e.cost ELSE 0
<1> SUFFICES ASSUME NEW ws
             PROVE Spent(events \cup {e}, ws, m)
               = Spent(events, ws, m)
                   + IF e.ws \in ws /\ e.month = m /\ e.promised THEN e.cost ELSE 0
  OBVIOUS
<1> DEFINE T == {d \in events : d.ws \in ws /\ d.month = m /\ d.promised}
           U == {d \in events \cup {e} : d.ws \in ws /\ d.month = m /\ d.promised}
           yes == e.ws \in ws /\ e.month = m /\ e.promised
<1>1. T \subseteq events OBVIOUS
<1>2. yes => U = T \cup {e} /\ e \notin events OBVIOUS
<1>3. ~yes => U = T OBVIOUS
<1>4. Spent(events, ws, m) = SumFunctionOnSet(Costs(events), T) BY DEF Spent
<1>5. Spent(events \cup {e}, ws, m) = SumFunctionOnSet(Costs(events \cup {e}), U) BY DEF Spent
<1>6. Spent(events, ws, m) \in Nat BY SpentIsBooked
<1> HIDE DEF T, U
<1>9. SumFunctionOnSet(Costs(events \cup {e}), T) = SumFunctionOnSet(Costs(events), T)
  BY <1>1, EventIsApart DEF EventsOK
<1>7. yes => Spent(events \cup {e}, ws, m) = Spent(events, ws, m) + e.cost
  BY <1>1, <1>2, <1>4, <1>5, EventAdds
<1>8. ~yes => Spent(events \cup {e}, ws, m) = Spent(events, ws, m)
  BY <1>3, <1>4, <1>5, <1>9
<1> QED BY <1>6, <1>7, <1>8

(* ... and nothing to what the others paid.                                *)
LEMMA EventPays ==
  ASSUME NEW events, NEW m \in Nat, EventsOK(events, m), NEW e, e.cost \in Nat, e.month \in 1..m
  PROVE /\ \A o : e.owner # o => Paid(events \cup {e}, o) = Paid(events, o)
        /\ \A o : Paid(events, o) \in Nat
        /\ e \notin events =>
             Paid(events \cup {e}, e.owner) = Paid(events, e.owner) + e.cost
<1> DEFINE T(o) == {d \in events : d.owner = o}
           U(o) == {d \in events \cup {e} : d.owner = o}
<1>1. \A o : T(o) \subseteq events OBVIOUS
<1>2. U(e.owner) = T(e.owner) \cup {e} OBVIOUS
<1>3. \A o : e.owner # o => U(o) = T(o) OBVIOUS
<1>4. \A o : Paid(events, o) = SumFunctionOnSet(Costs(events), T(o)) BY DEF Paid
<1>5. \A o : Paid(events \cup {e}, o) = SumFunctionOnSet(Costs(events \cup {e}), U(o)) BY DEF Paid
<1> HIDE DEF T, U
<1>6. ASSUME NEW o PROVE Paid(events, o) \in Nat
  <2>1. IsFiniteSet(T(o)) BY <1>1, FS_Subset DEF EventsOK
  <2>2. \A d \in T(o) : Costs(events)[d] \in Nat BY <1>1 DEF EventsOK, Costs
  <2>3. SumFunctionOnSet(Costs(events), T(o)) \in Nat BY <2>1, <2>2, SumNatural
  <2> QED BY <1>4, <2>3
<1>7. ASSUME NEW o
      PROVE SumFunctionOnSet(Costs(events \cup {e}), T(o)) = SumFunctionOnSet(Costs(events), T(o))
  <2>1. T(o) \subseteq events BY <1>1
  <2> QED BY <2>1, EventIsApart DEF EventsOK
<1>8. e \notin events => SumFunctionOnSet(Costs(events \cup {e}), T(e.owner) \cup {e})
                           = SumFunctionOnSet(Costs(events), T(e.owner)) + e.cost
  BY <1>1, EventAdds
<1> QED BY <1>2, <1>3, <1>4, <1>5, <1>6, <1>7, <1>8

-----------------------------------------------------------------------------
(* The inductive invariant.                                                *)

Accounted(q) == {a \in Attempts : q[a] = "accounted"}
Known(q) == {a \in Attempts : q[a] # "none"}

(* A row, the attempts of its owner and what the owner paid.               *)
RowSound(o, r, q, paid, m) ==
  /\ r.month <= m
  /\ r.status = "none" => \A a \in Attempts : q[a] = "none"
  /\ r.status # "none" => r.month \in 1..m
  /\ r.est <= Estimate[o]
  /\ r.settled = CallCost[o] * Cardinality(Accounted(q)) /\ paid = r.settled
  /\ CallCost[o] * Cardinality(Known(q)) <= r.est
  /\ r.status \in {"settled", "billable_unknown"} => \A a \in Attempts : q[a] # "authorized"
  /\ r.status \in Live => \A a \in Attempts : q[a] # "unknown"
  /\ r.status = "reserved" <=> r.units > 0

RowsSound ==
  \A o \in Owners : RowSound(o, books.owned[o], books.tried[o], Paid(books.events, o), month)
FutureIsFree ==
  \A w \in Workspaces, m \in 1..LastMonth, b \in Buckets : m > month => books.held[w][m][b] = 0
CountersSound ==
  ~stray => \A w \in Workspaces, b \in Buckets :
    books.held[w][month][b] = loose[w][b] + Taken(books.owned, w, b, month)
Fits(ws, limit) == Spent(books.events, ws, month) + Owed(books.owned, ws, month) <= limit
MoneySound ==
  /\ \A w \in Workspaces : Fits({w}, MonthlyCost[w])
  /\ Fits(Workspaces, GlobalCost)
PastCovered ==
  ~stray => \A w \in Workspaces, m \in 1..LastMonth, b \in Buckets :
    m < month => Taken(books.owned, w, b, m) <= books.held[w][m][b]
Noticed(o, q, events) ==
  \A a \in Accounted(q) : \E e \in events : e.owner = o /\ e.key = Key[o][a]
EventsSound == \A o \in Owners : Noticed(o, books.tried[o], books.events)

LedgerInv ==
  /\ TypeOK /\ RowsSound /\ FutureIsFree /\ CountersSound /\ MoneySound
  /\ PastCovered /\ EventsSound

(* A transaction about one owner: its row, its attempts, the counters and  *)
(* the events that it leaves.                                              *)
OwnerStep(o, r, q, n, ev) ==
  /\ IsBooks(books')
  /\ books'.owned = [books.owned EXCEPT ![o] = r]
  /\ books'.tried = [books.tried EXCEPT ![o] = q]
  /\ books'.held = n /\ books'.events = ev
  /\ month' = month /\ loose' = loose /\ stray' = stray

(* Such a step keeps the types ...                                         *)
LEMMA OwnerStepTypes ==
  ASSUME TypeOK, NEW o \in Owners, NEW r \in OwnerRows, NEW q \in AttemptRows,
         NEW n \in Counters, NEW ev, EventsOK(ev, month), OwnerStep(o, r, q, n, ev)
  PROVE TypeOK'
<1>1. books'.owned \in [Owners -> OwnerRows] BY DEF TypeOK, OwnerStep
<1>2. books'.tried \in [Owners -> AttemptRows] BY DEF TypeOK, OwnerStep
<1> QED BY <1>1, <1>2 DEF TypeOK, OwnerStep

(* ... the rows, if it leaves its own row sound ...                        *)
LEMMA OwnerStepRows ==
  ASSUME TypeOK, RowsSound, NEW o \in Owners, NEW r \in OwnerRows, NEW q \in AttemptRows,
         NEW n, NEW ev, OwnerStep(o, r, q, n, ev),
         RowSound(o, r, q, Paid(ev, o), month),
         \A p \in Owners \ {o} : Paid(ev, p) = Paid(books.events, p)
  PROVE RowsSound'
<1> SUFFICES ASSUME NEW p \in Owners
             PROVE RowSound(p, books'.owned[p], books'.tried[p], Paid(books'.events, p), month')
  BY DEF RowsSound
<1>1. CASE p = o
  <2>1. books'.owned[p] = r /\ books'.tried[p] = q BY <1>1 DEF TypeOK, OwnerStep
  <2> QED BY <1>1, <2>1 DEF OwnerStep
<1>2. CASE p # o
  <2>1. books'.owned[p] = books.owned[p] /\ books'.tried[p] = books.tried[p]
    BY <1>2 DEF TypeOK, OwnerStep
  <2>2. Paid(books'.events, p) = Paid(books.events, p) BY <1>2 DEF OwnerStep
  <2>3. month' = month BY DEF OwnerStep
  <2>4. RowSound(p, books.owned[p], books.tried[p], Paid(books.events, p), month)
    BY DEF RowsSound
  <2> QED BY <2>1, <2>2, <2>3, <2>4
<1> QED BY <1>1, <1>2

(* ... the counters, if the bucket moves by what the row takes ...         *)
LEMMA OwnerStepCounters ==
  ASSUME SoundConstants, TypeOK, FutureIsFree, CountersSound,
         NEW o \in Owners, NEW r \in OwnerRows, NEW q,
         NEW n \in Counters, NEW ev, OwnerStep(o, r, q, n, ev),
         \A w \in Workspaces, m \in 1..LastMonth, b \in Buckets :
           m > month => n[w][m][b] = books.held[w][m][b],
         ~stray => \A w \in Workspaces, b \in Buckets :
           n[w][month][b] = books.held[w][month][b]
                              - Takes(o, books.owned[o], w, b, month) + Takes(o, r, w, b, month)
  PROVE FutureIsFree' /\ CountersSound'
<1>1. FutureIsFree' BY DEF FutureIsFree, OwnerStep
<1>2. ASSUME ~stray, NEW w \in Workspaces, NEW b \in Buckets
      PROVE n[w][month][b] = loose[w][b] + Taken(books'.owned, w, b, month)
  <2>1. month \in 0..LastMonth /\ books.owned \in [Owners -> OwnerRows] BY DEF TypeOK
  <2>2. Taken(books'.owned, w, b, month)
          = Taken(books.owned, w, b, month) - Takes(o, books.owned[o], w, b, month)
              + Takes(o, r, w, b, month)
    BY <2>1, TakenMoves DEF OwnerStep
  <2>3. Taken(books.owned, w, b, month) \in Nat BY <2>1, TakenMoves
  <2>4. Takes(o, books.owned[o], w, b, month) \in Nat /\ Takes(o, r, w, b, month) \in Nat
    BY <2>1 DEF Takes, OwnerRows
  <2>5. books.held[w][month][b] = loose[w][b] + Taken(books.owned, w, b, month)
    BY <1>2 DEF CountersSound
  <2>6. loose[w][b] \in Nat BY DEF TypeOK
  <2>7. n[w][month][b] = books.held[w][month][b]
                           - Takes(o, books.owned[o], w, b, month) + Takes(o, r, w, b, month)
    BY <1>2
  <2> QED BY <2>2, <2>3, <2>4, <2>5, <2>6, <2>7
<1>3. CountersSound' BY <1>2 DEF CountersSound, OwnerStep
<1> QED BY <1>1, <1>3

(* ... and the budgets, if the row owes no more than before, or no more    *)
(* than what was found affordable.                                         *)
LEMMA OwnerStepMoney ==
  ASSUME SoundConstants, TypeOK, MoneySound,
         NEW o \in Owners, NEW r \in OwnerRows, NEW q, NEW n, NEW ev, OwnerStep(o, r, q, n, ev),
         \A ws : Spent(ev, ws, month) \in Nat,
         \/ \A ws : Spent(ev, ws, month) + Share(o, r, ws, month)
                      <= Spent(books.events, ws, month) + Share(o, books.owned[o], ws, month)
         \/ /\ ev = books.events
            /\ Affordable(books, Home[o], Owes(r, month) - Owes(books.owned[o], month))
  PROVE MoneySound'
<1>1. month \in 0..LastMonth /\ month \in Nat /\ books.owned \in [Owners -> OwnerRows]
      /\ EventsOK(books.events, month)
  BY DEF TypeOK
<1>2. Home[o] \in Workspaces BY DEF Workspaces
<1> DEFINE old(ws) == Share(o, books.owned[o], ws, month)
           new(ws) == Share(o, r, ws, month)
           owed(ws) == Owed(books.owned, ws, month)
           spent(ws) == Spent(books.events, ws, month)
<1>3. \A ws : old(ws) \in Nat /\ new(ws) \in Nat
  BY <1>1 DEF Share, Owes, Positive, OwnerRows
<1>4. \A ws : owed(ws) \in Nat /\ spent(ws) \in Nat BY <1>1, OwedMoves, SpentIsBooked
<1>5. \A ws : Owed(books'.owned, ws, month) = owed(ws) - old(ws) + new(ws)
  BY <1>1, OwedMoves DEF OwnerStep
<1>7. CASE \A ws : Spent(ev, ws, month) + new(ws) <= spent(ws) + old(ws)
  <2>1. ASSUME NEW ws, NEW limit \in Nat, Fits(ws, limit) PROVE Fits(ws, limit)'
    <3>1. Spent(ev, ws, month) + new(ws) <= spent(ws) + old(ws) BY <1>7
    <3>2. spent(ws) + owed(ws) <= limit BY <2>1 DEF Fits
    <3>3. Owed(books'.owned, ws, month) = owed(ws) - old(ws) + new(ws) BY <1>5
    <3>4. Spent(ev, ws, month) \in Nat /\ old(ws) \in Nat /\ new(ws) \in Nat
          /\ owed(ws) \in Nat /\ spent(ws) \in Nat
      BY <1>3, <1>4
    <3> HIDE DEF old, new, owed, spent
    <3>5. Spent(ev, ws, month) + Owed(books'.owned, ws, month) <= limit
      BY <3>1, <3>2, <3>3, <3>4
    <3> QED BY <3>5 DEF Fits, OwnerStep
  <2> QED BY <2>1 DEF MoneySound, SoundConstants
<1>8. CASE /\ ev = books.events
           /\ Affordable(books, Home[o], Owes(r, month) - Owes(books.owned[o], month))
  <2> DEFINE more == Owes(r, month) - Owes(books.owned[o], month)
  <2>1. \A ws : /\ Booked(books, ws) \in Int /\ spent(ws) <= Booked(books, ws)
                /\ Outstanding(books, ws) = owed(ws)
    <3>1. ASSUME NEW ws PROVE Outstanding(books, ws) = owed(ws)
      BY <1>1, OwedIsOutstanding DEF Outstanding, Residual
    <3>2. ASSUME NEW ws PROVE spent(ws) <= Booked(books, ws)
      BY <1>1, SpentIsBooked DEF Booked
    <3>3. ASSUME NEW ws PROVE Booked(books, ws) \in Int
      <4> DEFINE T == {e \in books.events : e.ws \in ws /\ e.month = month}
      <4>1. T \subseteq books.events OBVIOUS
      <4>2. Booked(books, ws) = SumFunctionOnSet(Costs(books.events), T) BY DEF Booked
      <4> HIDE DEF T
      <4>3. IsFiniteSet(T) BY <1>1, <4>1, FS_Subset DEF EventsOK
      <4>4. \A e \in T : Costs(books.events)[e] \in Nat BY <1>1, <4>1 DEF EventsOK, Costs
      <4> QED BY <4>2, <4>3, <4>4, SumNatural
    <3> QED BY <3>1, <3>2, <3>3
  <2>2. ASSUME NEW ws, NEW limit \in Nat, Home[o] \in ws,
               Booked(books, ws) + Outstanding(books, ws) + more <= limit
        PROVE Fits(ws, limit)'
    <3>1. new(ws) - old(ws) = more BY <2>2 DEF Share
    <3>2. Owed(books'.owned, ws, month) = owed(ws) - old(ws) + new(ws) BY <1>5
    <3>3. old(ws) \in Nat /\ new(ws) \in Nat /\ owed(ws) \in Nat /\ spent(ws) \in Nat
      BY <1>3, <1>4
    <3>4. Booked(books, ws) \in Int /\ spent(ws) <= Booked(books, ws)
          /\ Outstanding(books, ws) = owed(ws)
      BY <2>1
    <3>5. Booked(books, ws) + owed(ws) + more <= limit BY <2>2, <3>4
    <3> HIDE DEF old, new, owed, spent, more
    <3>6. spent(ws) + Owed(books'.owned, ws, month) <= limit BY <3>1, <3>2, <3>3, <3>4, <3>5
    <3> QED BY <3>6, <1>8 DEF Fits, OwnerStep, spent
  <2>3. Fits({Home[o]}, MonthlyCost[Home[o]])' BY <1>2, <1>8, <2>2 DEF Affordable, SoundConstants
  <2>4. Fits(Workspaces, GlobalCost)' BY <1>2, <1>8, <2>2 DEF Affordable, SoundConstants
  <2>5. ASSUME NEW w \in Workspaces, w # Home[o] PROVE Fits({w}, MonthlyCost[w])'
    <3>1. old({w}) = 0 /\ new({w}) = 0 BY <2>5 DEF Share
    <3>2. Owed(books'.owned, {w}, month) = owed({w}) - old({w}) + new({w}) BY <1>5
    <3>3. owed({w}) \in Nat BY <1>4
    <3>4. Owed(books'.owned, {w}, month) = owed({w})
      <4> HIDE DEF old, new, owed
      <4> QED BY <3>1, <3>2, <3>3
    <3>5. Fits({w}, MonthlyCost[w]) BY DEF MoneySound
    <3> QED BY <3>4, <3>5, <1>8 DEF Fits, OwnerStep
  <2> QED BY <2>3, <2>4, <2>5 DEF MoneySound
<1> QED BY <1>7, <1>8

-----------------------------------------------------------------------------
(* The pieces transactions are made of.                                    *)

CounterWith(h, w, m, b, n) == [h EXCEPT ![w][m][b] = n]

(* A counter is a number.                                                  *)
LEMMA CounterIsInt ==
  ASSUME NEW h \in Counters, NEW w \in Workspaces, NEW m \in 1..LastMonth, NEW b \in Buckets
  PROVE h[w][m][b] \in Int
BY DEF Counters

(* One counter of one bucket changes.                                      *)
LEMMA CounterChanges ==
  ASSUME NEW h \in Counters, NEW w \in Workspaces, NEW m \in 1..LastMonth, NEW b \in Buckets,
         NEW n \in Int
  PROVE CounterWith(h, w, m, b, n) \in Counters
BY DEF CounterWith, Counters

(* The others do not.                                                      *)
LEMMA CounterReads ==
  ASSUME NEW h \in Counters, NEW w \in Workspaces, NEW m \in 1..LastMonth, NEW b \in Buckets,
         NEW n \in Int, NEW v \in Workspaces, NEW k \in 1..LastMonth, NEW c \in Buckets
  PROVE /\ CounterWith(h, w, m, b, n)[v][k][c] = IF v = w /\ k = m /\ c = b THEN n ELSE h[v][k][c]
        /\ h[v][k][c] \in Int
BY DEF CounterWith, Counters

(* What Held leaves of the tables.                                         *)
LEMMA HeldLeaves ==
  ASSUME NEW l, IsBooks(l), l.held \in Counters, NEW w \in Workspaces, NEW m \in 1..LastMonth,
         NEW b \in Buckets, NEW n \in Int
  PROVE LET k == Held(l, w, m, b, n)
        IN  /\ IsBooks(k) /\ k.owned = l.owned /\ k.tried = l.tried /\ k.events = l.events
            /\ k.held = CounterWith(l.held, w, m, b, n)
<1> DEFINE k == Held(l, w, m, b, n)
           h == CounterWith(l.held, w, m, b, n)
<1>1. k = [l EXCEPT !.held = h] BY DEF Held, CounterWith, IsBooks
<1> HIDE DEF h, k
<1>2. IsBooks(k) /\ k.owned = l.owned /\ k.tried = l.tried /\ k.events = l.events /\ k.held = h
  BY <1>1 DEF IsBooks
<1> QED BY <1>2 DEF h, k

(* The counter of an owner's bucket is one that exists.                    *)
LEMMA BucketOf ==
  ASSUME SoundConstants, TypeOK, RowsSound, NEW o \in Owners
  PROVE /\ Home[o] \in Workspaces /\ Bucket(Operation[o]) \in Buckets
        /\ \A m \in 1..LastMonth : InBucket(books, o, m) \in Int
        /\ Row(o) \in OwnerRows /\ month \in 1..LastMonth
        /\ Row(o).status # "none" => Row(o).month \in 1..LastMonth /\ Row(o).month <= month
<1>1. Home[o] \in Workspaces BY DEF Workspaces
<1>2. Bucket(Operation[o]) \in Buckets BY DEF SoundConstants
<1>3. \A m \in 1..LastMonth : InBucket(books, o, m) \in Int
  <2> DEFINE w == Home[o]  b == Bucket(Operation[o])
  <2>1. w \in Workspaces /\ b \in Buckets BY <1>1, <1>2
  <2>2. \A m \in 1..LastMonth : InBucket(books, o, m) = books.held[w][m][b] BY DEF InBucket
  <2> HIDE DEF w, b
  <2>3. books.held \in Counters BY DEF TypeOK
  <2>4. \A m \in 1..LastMonth : books.held[w][m][b] \in Int BY <2>1, <2>3, CounterIsInt
  <2> QED BY <2>2, <2>4
<1>4. RowSound(o, Row(o), books.tried[o], Paid(books.events, o), month) BY DEF RowsSound, Row
<1>5. Row(o) \in OwnerRows BY DEF TypeOK, Row
<1> QED BY <1>1, <1>2, <1>3, <1>4, <1>5 DEF TypeOK, RowSound, OwnerRows

(* What Returned leaves of the tables.                                     *)
LEMMA ReturnedLeaves ==
  ASSUME SoundConstants, TypeOK, RowsSound, NEW o \in Owners, Row(o).status # "none"
  PROVE LET k == Returned("postgres", books, o)
        IN  /\ IsBooks(k) /\ k.owned = [books.owned EXCEPT ![o].units = 0]
            /\ k.tried = books.tried /\ k.events = books.events
            /\ k.held = CounterWith(books.held, Home[o], Row(o).month, Bucket(Operation[o]),
                          Positive(InBucket(books, o, Row(o).month) - Row(o).units))
<1> DEFINE l == [books EXCEPT !.owned[o].units = 0]
           n == Positive(InBucket(books, o, Row(o).month) - Row(o).units)
           b == Bucket(Operation[o])
<1>1. IsBooks(l) /\ l.owned = [books.owned EXCEPT ![o].units = 0] /\ l.tried = books.tried
      /\ l.events = books.events /\ l.held = books.held
  BY DEF TypeOK, IsBooks
<1>2. Home[o] \in Workspaces /\ b \in Buckets /\ Row(o).month \in 1..LastMonth /\ n \in Int
  BY BucketOf DEF Positive, OwnerRows
<1>3. Returned("postgres", books, o) = Held(l, Home[o], Row(o).month, b, n)
  BY DEF Returned, Row
<1> HIDE DEF l, n, b
<1>4. l.held \in Counters BY <1>1 DEF TypeOK
<1> DEFINE k == Held(l, Home[o], Row(o).month, b, n)
<1>5. IsBooks(k) /\ k.owned = l.owned /\ k.tried = l.tried /\ k.events = l.events
      /\ k.held = CounterWith(l.held, Home[o], Row(o).month, b, n)
  BY <1>1, <1>2, <1>4, HeldLeaves
<1> HIDE DEF k
<1> QED BY <1>1, <1>3, <1>5 DEF k, n, b

(* Giving an owner's units back is what the counters need of a row that is *)
(* reserved no more.                                                       *)
LEMMA ReturnedCounts ==
  ASSUME SoundConstants, TypeOK, RowsSound, CountersSound, NEW o \in Owners,
         Row(o).status # "none", NEW r \in OwnerRows, r.status # "reserved"
  PROVE LET n == CounterWith(books.held, Home[o], Row(o).month, Bucket(Operation[o]),
                   Positive(InBucket(books, o, Row(o).month) - Row(o).units))
        IN  /\ n \in Counters
            /\ \A w \in Workspaces, m \in 1..LastMonth, b \in Buckets :
                 m > month => n[w][m][b] = books.held[w][m][b]
            /\ \A w \in Workspaces, m \in 1..LastMonth, b \in Buckets :
                 n[w][m][b] >= books.held[w][m][b]
                   - Takes(o, books.owned[o], w, b, m) + Takes(o, r, w, b, m)
            /\ ~stray => \A w \in Workspaces, b \in Buckets :
                 n[w][month][b] = books.held[w][month][b]
                   - Takes(o, books.owned[o], w, b, month) + Takes(o, r, w, b, month)
<1> DEFINE v == Home[o]
           c == Bucket(Operation[o])
           left == Positive(InBucket(books, o, Row(o).month) - Row(o).units)
           n == CounterWith(books.held, v, Row(o).month, c, left)
<1>1. v \in Workspaces /\ c \in Buckets /\ Row(o).month \in 1..LastMonth /\ Row(o).month <= month
      /\ left \in Int /\ month \in 1..LastMonth /\ Row(o) \in OwnerRows
  BY BucketOf DEF Positive, OwnerRows
<1>2. books.held \in Counters BY DEF TypeOK
<1>3. InBucket(books, o, Row(o).month) = books.held[v][Row(o).month][c] BY DEF InBucket
<1>4. left = Positive(books.held[v][Row(o).month][c] - Row(o).units) BY <1>3
<1> HIDE DEF v, c, left
<1>5. n \in Counters BY <1>1, <1>2, CounterChanges
<1>6. \A w \in Workspaces, m \in 1..LastMonth, b \in Buckets :
        n[w][m][b] = IF w = v /\ m = Row(o).month /\ b = c THEN left ELSE books.held[w][m][b]
  <2> SUFFICES ASSUME NEW w \in Workspaces, NEW m \in 1..LastMonth, NEW b \in Buckets
               PROVE n[w][m][b] = IF w = v /\ m = Row(o).month /\ b = c
                                  THEN left ELSE books.held[w][m][b]
    OBVIOUS
  <2> QED BY <1>1, <1>2, CounterReads
<1> HIDE DEF n
<1>7. ASSUME ~stray, NEW w \in Workspaces, NEW b \in Buckets
      PROVE n[w][month][b] = books.held[w][month][b]
              - Takes(o, books.owned[o], w, b, month) + Takes(o, r, w, b, month)
  <2>1. Takes(o, r, w, b, month) = 0 BY DEF Takes
  <2>2. books.held[w][month][b] \in Int BY <1>1, <1>2, CounterIsInt
  <2>3. RowSound(o, Row(o), books.tried[o], Paid(books.events, o), month) BY DEF RowsSound, Row
  <2>4. Row(o).status # "reserved" => Row(o).units = 0 BY <1>1, <2>3 DEF RowSound, OwnerRows
  <2>5. CASE w = v /\ b = c /\ Row(o).month = month
    <3>1. Takes(o, books.owned[o], w, b, month) = Row(o).units
      BY <2>4, <2>5 DEF Takes, Row, v, c
    <3>2. books.held[w][month][b] = loose[w][b] + Taken(books.owned, w, b, month)
      BY <1>7 DEF CountersSound
    <3>3. Takes(o, books.owned[o], w, b, month) <= Taken(books.owned, w, b, month)
          /\ Taken(books.owned, w, b, month) \in Nat
      BY <1>1, TakenMoves DEF TypeOK
    <3>4. loose[w][b] \in Nat BY DEF TypeOK
    <3>5. Row(o).units \in Nat BY <1>1 DEF OwnerRows
    <3>6. books.held[w][month][b] - Row(o).units >= 0 BY <3>1, <3>2, <3>3, <3>4, <3>5
    <3>7. left = books.held[w][month][b] - Row(o).units
      BY <1>4, <2>2, <2>5, <3>5, <3>6 DEF Positive
    <3>8. n[w][month][b] = left BY <1>1, <1>6, <2>5
    <3> QED BY <2>1, <2>2, <3>1, <3>5, <3>7, <3>8
  <2>6. CASE ~(w = v /\ b = c /\ Row(o).month = month)
    <3>1. Takes(o, books.owned[o], w, b, month) = 0 BY <2>6 DEF Takes, Row, v, c
    <3>2. n[w][month][b] = books.held[w][month][b] BY <1>1, <1>6, <2>6
    <3> QED BY <2>1, <2>2, <3>1, <3>2
  <2> QED BY <2>5, <2>6
<1>8. \A w \in Workspaces, m \in 1..LastMonth, b \in Buckets :
        m > month => n[w][m][b] = books.held[w][m][b]
  BY <1>1, <1>6
<1>9. ASSUME NEW w \in Workspaces, NEW m \in 1..LastMonth, NEW b \in Buckets
      PROVE n[w][m][b] >= books.held[w][m][b]
              - Takes(o, books.owned[o], w, b, m) + Takes(o, r, w, b, m)
  <2>1. Takes(o, r, w, b, m) = 0 BY DEF Takes
  <2>2. books.held[w][m][b] \in Int BY <1>2, CounterIsInt
  <2>3. RowSound(o, Row(o), books.tried[o], Paid(books.events, o), month) BY DEF RowsSound, Row
  <2>4. Row(o).units \in Nat /\ (Row(o).status # "reserved" => Row(o).units = 0)
    BY <1>1, <2>3 DEF RowSound, OwnerRows
  <2>5. Takes(o, books.owned[o], w, b, m)
          = IF w = v /\ m = Row(o).month /\ b = c THEN Row(o).units ELSE 0
    BY <2>4 DEF Takes, Row, v, c
  <2>6. w = v /\ m = Row(o).month /\ b = c => left >= books.held[w][m][b] - Row(o).units
    BY <1>4, <2>2, <2>4 DEF Positive
  <2> QED BY <1>6, <2>1, <2>2, <2>4, <2>5, <2>6
<1> QED BY <1>5, <1>7, <1>8, <1>9 DEF n, v, c, left

(* The counters' part of a step, and all parts together.                   *)
PastMoves(o, r, n) ==
  \A w \in Workspaces, m \in 1..LastMonth, b \in Buckets :
    m < month => n[w][m][b] >= books.held[w][m][b]
                                 - Takes(o, books.owned[o], w, b, m) + Takes(o, r, w, b, m)
CountersMove(o, r, n) ==
  /\ \A w \in Workspaces, m \in 1..LastMonth, b \in Buckets :
       m > month => n[w][m][b] = books.held[w][m][b]
  /\ PastMoves(o, r, n)
  /\ ~stray => \A w \in Workspaces, b \in Buckets :
       n[w][month][b] = books.held[w][month][b]
         - Takes(o, books.owned[o], w, b, month) + Takes(o, r, w, b, month)
MoneyMoves(o, r, ev) ==
  \/ \A ws : Spent(ev, ws, month) + Share(o, r, ws, month)
               <= Spent(books.events, ws, month) + Share(o, books.owned[o], ws, month)
  \/ /\ ev = books.events
     /\ Affordable(books, Home[o], Owes(r, month) - Owes(books.owned[o], month))

(* The months that are over lose no more than the row gives back.          *)
LEMMA OwnerStepPast ==
  ASSUME SoundConstants, TypeOK, PastCovered,
         NEW o \in Owners, NEW r \in OwnerRows, NEW q,
         NEW n \in Counters, NEW ev, OwnerStep(o, r, q, n, ev), PastMoves(o, r, n)
  PROVE PastCovered'
<1> SUFFICES ASSUME ~stray, NEW w \in Workspaces, NEW m \in 1..LastMonth, NEW b \in Buckets,
                    m < month
             PROVE Taken(books'.owned, w, b, m) <= n[w][m][b]
  BY DEF PastCovered, OwnerStep
<1>1. m \in 0..LastMonth /\ books.owned \in [Owners -> OwnerRows] BY DEF TypeOK
<1>2. /\ Taken(books.owned, w, b, m) \in Nat
      /\ Taken(books'.owned, w, b, m)
           = Taken(books.owned, w, b, m) - Takes(o, books.owned[o], w, b, m) + Takes(o, r, w, b, m)
  BY <1>1, TakenMoves DEF OwnerStep
<1>3. Takes(o, books.owned[o], w, b, m) \in Nat /\ Takes(o, r, w, b, m) \in Nat
  BY <1>1 DEF Takes, OwnerRows
<1>4. Taken(books.owned, w, b, m) <= books.held[w][m][b] BY DEF PastCovered
<1>5. books.held[w][m][b] \in Int /\ n[w][m][b] \in Int
  BY CounterIsInt DEF TypeOK
<1>6. n[w][m][b] >= books.held[w][m][b] - Takes(o, books.owned[o], w, b, m) + Takes(o, r, w, b, m)
  BY DEF PastMoves
<1> QED BY <1>2, <1>3, <1>4, <1>5, <1>6

(* A step about one owner keeps the invariant when its row stays sound,    *)
(* its bucket moves by what the row takes and its debt does not grow       *)
(* unasked.                                                                *)
LEMMA OwnerStepKeeps ==
  ASSUME SoundConstants, LedgerInv, NEW o \in Owners, NEW r \in OwnerRows, NEW q \in AttemptRows,
         NEW n \in Counters, NEW ev, OwnerStep(o, r, q, n, ev), EventsOK(ev, month),
         RowSound(o, r, q, Paid(ev, o), month),
         \A p \in Owners \ {o} : Paid(ev, p) = Paid(books.events, p),
         CountersMove(o, r, n), MoneyMoves(o, r, ev),
         books.events \subseteq ev, Noticed(o, q, ev)
  PROVE LedgerInv'
<1>1. TypeOK' BY OwnerStepTypes DEF LedgerInv
<1>2. RowsSound' BY OwnerStepRows DEF LedgerInv
<1>3. FutureIsFree' /\ CountersSound' BY OwnerStepCounters DEF LedgerInv, CountersMove
<1>4. MoneySound'
  <2>1. month \in Nat BY DEF LedgerInv, TypeOK
  <2>2. \A ws : Spent(ev, ws, month) \in Nat BY <2>1, SpentIsBooked
  <2> QED BY <2>2, OwnerStepMoney DEF LedgerInv, MoneyMoves
<1>5. PastCovered' BY OwnerStepPast DEF LedgerInv, CountersMove
<1>6. EventsSound'
  <2> SUFFICES ASSUME NEW p \in Owners PROVE Noticed(p, books'.tried[p], books'.events)
    BY DEF EventsSound
  <2>1. books'.events = ev /\ books'.tried[p] = IF p = o THEN q ELSE books.tried[p]
    BY DEF OwnerStep, LedgerInv, TypeOK
  <2>2. Noticed(p, books.tried[p], books.events) BY DEF LedgerInv, EventsSound
  <2>3. Noticed(p, books.tried[p], ev) BY <2>2 DEF Noticed
  <2> QED BY <2>1, <2>3
<1> QED BY <1>1, <1>2, <1>3, <1>4, <1>5, <1>6 DEF LedgerInv

(* Attempts, counted.                                                      *)
LEMMA AttemptsCount ==
  ASSUME SoundConstants, NEW q \in AttemptRows
  PROVE /\ Cardinality(Accounted(q)) \in Nat /\ Cardinality(Known(q)) \in Nat
        /\ Cardinality(Accounted(q)) <= Cardinality(Known(q))
<1>1. IsFiniteSet(Attempts) BY DEF SoundConstants
<1>2. Known(q) \subseteq Attempts /\ Accounted(q) \subseteq Known(q) BY DEF Known, Accounted
<1>3. IsFiniteSet(Known(q)) BY <1>1, <1>2, FS_Subset
<1>4. IsFiniteSet(Accounted(q)) /\ Cardinality(Accounted(q)) <= Cardinality(Known(q))
  BY <1>2, <1>3, FS_Subset
<1> QED BY <1>3, <1>4, FS_CardinalityType

(* An attempt that is authorized is a known one more.                      *)
LEMMA AttemptAuthorized ==
  ASSUME SoundConstants, NEW q \in AttemptRows, NEW a \in Attempts, q[a] = "none"
  PROVE LET p == [q EXCEPT ![a] = "authorized"]
        IN  /\ p \in AttemptRows /\ Accounted(p) = Accounted(q)
            /\ Cardinality(Known(p)) = Cardinality(Known(q)) + 1
<1> DEFINE p == [q EXCEPT ![a] = "authorized"]
<1>1. p \in AttemptRows BY DEF AttemptRows
<1>2. \A b \in Attempts : p[b] = IF b = a THEN "authorized" ELSE q[b] BY DEF AttemptRows
<1> HIDE DEF p
<1>3. Accounted(p) = Accounted(q) BY <1>2 DEF Accounted
<1>4. Known(p) = Known(q) \cup {a} /\ a \notin Known(q) BY <1>2 DEF Known
<1>5. Known(q) \subseteq Attempts /\ IsFiniteSet(Attempts) BY DEF Known, SoundConstants
<1>6. IsFiniteSet(Known(q)) BY <1>5, FS_Subset
<1>7. Cardinality(Known(p)) = Cardinality(Known(q)) + 1 BY <1>4, <1>6, FS_AddElement
<1> QED BY <1>1, <1>3, <1>7 DEF p

(* An authorized attempt that is recorded is an accounted one more.        *)
LEMMA AttemptRecorded ==
  ASSUME SoundConstants, NEW q \in AttemptRows, NEW a \in Attempts, q[a] = "authorized"
  PROVE LET p == [q EXCEPT ![a] = "accounted"]
        IN  /\ p \in AttemptRows /\ Known(p) = Known(q)
            /\ Cardinality(Accounted(p)) = Cardinality(Accounted(q)) + 1
<1> DEFINE p == [q EXCEPT ![a] = "accounted"]
<1>1. p \in AttemptRows BY DEF AttemptRows
<1>2. \A b \in Attempts : p[b] = IF b = a THEN "accounted" ELSE q[b] BY DEF AttemptRows
<1> HIDE DEF p
<1>3. Known(p) = Known(q) BY <1>2 DEF Known
<1>4. Accounted(p) = Accounted(q) \cup {a} /\ a \notin Accounted(q) BY <1>2 DEF Accounted
<1>5. Accounted(q) \subseteq Attempts /\ IsFiniteSet(Attempts) BY DEF Accounted, SoundConstants
<1>6. IsFiniteSet(Accounted(q)) BY <1>5, FS_Subset
<1>7. Cardinality(Accounted(p)) = Cardinality(Accounted(q)) + 1 BY <1>4, <1>6, FS_AddElement
<1> QED BY <1>1, <1>3, <1>7 DEF p

(* When attempts nobody recorded become unknown, nothing else changes, and *)
(* they are what is known and not accounted, if none was unknown before.   *)
LEMMA AttemptsClosed ==
  ASSUME SoundConstants, NEW q \in AttemptRows, \A a \in Attempts : q[a] # "unknown"
  PROVE LET open == {a \in Attempts : q[a] = "authorized"}
            p == [a \in Attempts |-> IF a \in open THEN "unknown" ELSE q[a]]
        IN  /\ p \in AttemptRows /\ Known(p) = Known(q) /\ Accounted(p) = Accounted(q)
            /\ \A a \in Attempts : p[a] # "authorized"
            /\ Cardinality(open) \in Nat
            /\ Cardinality(Known(q)) = Cardinality(Accounted(q)) + Cardinality(open)
<1> DEFINE open == {a \in Attempts : q[a] = "authorized"}
           p == [a \in Attempts |-> IF a \in open THEN "unknown" ELSE q[a]]
<1>1. p \in AttemptRows BY DEF AttemptRows
<1>2. Known(p) = Known(q) /\ Accounted(p) = Accounted(q) BY DEF Known, Accounted
<1>3. \A a \in Attempts : p[a] # "authorized" OBVIOUS
<1>4. Known(q) = Accounted(q) \cup open /\ Accounted(q) \cap open = {}
  BY DEF Known, Accounted, AttemptRows
<1>5. Accounted(q) \subseteq Attempts /\ open \subseteq Attempts /\ IsFiniteSet(Attempts)
  BY DEF Accounted, SoundConstants
<1> HIDE DEF open, p
<1>6. IsFiniteSet(Accounted(q)) /\ IsFiniteSet(open) BY <1>5, FS_Subset
<1>7. Cardinality(Known(q)) = Cardinality(Accounted(q)) + Cardinality(open)
                                - Cardinality(Accounted(q) \cap open)
  BY <1>4, <1>6, FS_Union
<1>8. Cardinality(Accounted(q) \cap open) = 0 BY <1>4, FS_EmptySet
<1>9. Cardinality(Accounted(q)) \in Nat /\ Cardinality(open) \in Nat BY <1>6, FS_CardinalityType
<1>10. Cardinality(Known(q)) = Cardinality(Accounted(q)) + Cardinality(open) BY <1>7, <1>8, <1>9
<1> QED BY <1>1, <1>2, <1>3, <1>9, <1>10 DEF open, p

-----------------------------------------------------------------------------
(* The transactions about one owner.                                       *)

(* The row, the attempts and the events an operation finds.                *)
LEMMA RowFound ==
  ASSUME SoundConstants, LedgerInv, NEW o \in Owners
  PROVE /\ Row(o) \in OwnerRows /\ books.owned[o] = Row(o)
        /\ books.tried[o] \in AttemptRows
        /\ RowSound(o, Row(o), books.tried[o], Paid(books.events, o), month)
        /\ EventsOK(books.events, month) /\ month \in 1..LastMonth /\ month \in Nat
        /\ IsBooks(books) /\ books.held \in Counters
        /\ TypeOK /\ RowsSound /\ CountersSound
BY DEF LedgerInv, TypeOK, RowsSound, Row

(* Money does not move when a row owes no more and no event is written.    *)
LEMMA OwesLess ==
  ASSUME SoundConstants, LedgerInv, NEW o \in Owners, NEW r \in OwnerRows,
         Owes(r, month) <= Owes(Row(o), month)
  PROVE MoneyMoves(o, r, books.events)
<1>1. Row(o) \in OwnerRows /\ books.owned[o] = Row(o) /\ month \in Nat
      /\ EventsOK(books.events, month)
  BY RowFound
<1>2. ASSUME NEW ws
      PROVE Spent(books.events, ws, month) + Share(o, r, ws, month)
              <= Spent(books.events, ws, month) + Share(o, books.owned[o], ws, month)
  <2>1. Share(o, r, ws, month) <= Share(o, books.owned[o], ws, month)
    BY <1>1 DEF Share
  <2>2. Share(o, r, ws, month) \in Nat /\ Share(o, books.owned[o], ws, month) \in Nat
    BY <1>1 DEF Share, Owes, Positive, OwnerRows
  <2>3. Spent(books.events, ws, month) \in Nat BY <1>1, SpentIsBooked
  <2> QED BY <2>1, <2>2, <2>3
<1> QED BY <1>2 DEF MoneyMoves

(* try_reserve_owned.                                                      *)
LEMMA ReserveKeeps ==
  ASSUME SoundConstants, LedgerInv, NEW o \in Owners, ReserveOwned(o)
  PROVE LedgerInv' \/ UNCHANGED ledgerVars
<1>1. month' = month /\ granted' = granted /\ loose' = loose /\ stray' = stray
  BY DEF ReserveOwned, Kept
<1>2. CASE books' = books BY <1>1, <1>2 DEF ledgerVars
<1> DEFINE r == [status |-> "reserved", month |-> month, est |-> Estimate[o], settled |-> 0,
                 units |-> Units[o]]
           taken == [books EXCEPT !.owned[o] = r]
           c == Bucket(Operation[o])
           n == InBucket(books, o, month) + Units[o]
           h == CounterWith(books.held, Home[o], month, c, n)
<1>3. CASE /\ Row(o).status = "none" /\ Affordable(books, Home[o], Estimate[o])
           /\ books' = Held(taken, Home[o], month, c, n)
  <2>1. Row(o) \in OwnerRows /\ books.owned[o] = Row(o) /\ books.tried[o] \in AttemptRows
        /\ RowSound(o, Row(o), books.tried[o], Paid(books.events, o), month)
        /\ EventsOK(books.events, month) /\ month \in 1..LastMonth /\ month \in Nat
        /\ IsBooks(books) /\ books.held \in Counters
        /\ TypeOK /\ RowsSound /\ CountersSound
    BY RowFound
  <2>2. r \in OwnerRows BY <2>1 DEF OwnerRows, SoundConstants
  <2>3. Home[o] \in Workspaces /\ c \in Buckets /\ n \in Int
    BY <2>1, BucketOf DEF SoundConstants
  <2>4. /\ IsBooks(taken) /\ taken.owned = [books.owned EXCEPT ![o] = r]
        /\ taken.tried = books.tried /\ taken.events = books.events /\ taken.held = books.held
    BY <2>1 DEF IsBooks
  <2>5. /\ IsBooks(books') /\ books'.owned = taken.owned /\ books'.tried = taken.tried
        /\ books'.events = taken.events /\ books'.held = h
    <3> HIDE DEF taken, n, c
    <3>1. taken.held \in Counters BY <2>1, <2>4
    <3> DEFINE k == Held(taken, Home[o], month, c, n)
    <3>2. IsBooks(k) /\ k.owned = taken.owned /\ k.tried = taken.tried
          /\ k.events = taken.events /\ k.held = CounterWith(taken.held, Home[o], month, c, n)
      BY <2>1, <2>3, <2>4, <3>1, HeldLeaves
    <3> HIDE DEF k
    <3>3. books' = k BY <1>3 DEF k
    <3> QED BY <2>4, <3>2, <3>3
  <2>6. books.tried = [books.tried EXCEPT ![o] = books.tried[o]] BY <2>1 DEF TypeOK
  <2> HIDE DEF taken, h
  <2>7. OwnerStep(o, r, books.tried[o], h, books.events)
    BY <1>1, <2>4, <2>5, <2>6 DEF OwnerStep
  <2>8. RowSound(o, r, books.tried[o], Paid(books.events, o), month)
    <3>1. \A a \in Attempts : books.tried[o][a] = "none" BY <1>3, <2>1 DEF RowSound
    <3>2. Accounted(books.tried[o]) = {} /\ Known(books.tried[o]) = {}
      BY <3>1 DEF Accounted, Known
    <3>3. Cardinality(Accounted(books.tried[o])) = 0 /\ Cardinality(Known(books.tried[o])) = 0
      BY <3>2, FS_EmptySet
    <3>4. Estimate[o] \in Nat /\ CallCost[o] \in Nat /\ Units[o] \in Nat \ {0}
      BY DEF SoundConstants
    <3>5. Paid(books.events, o) = 0 BY <2>1, <3>3, <3>4 DEF RowSound
    <3> QED BY <2>1, <3>1, <3>3, <3>4, <3>5 DEF RowSound, Live
  <2>9. h \in Counters BY <2>1, <2>3, CounterChanges DEF h
  <2>10. CountersMove(o, r, h)
    <3>1. ASSUME NEW w \in Workspaces, NEW m \in 1..LastMonth, NEW b \in Buckets
          PROVE h[w][m][b] = IF w = Home[o] /\ m = month /\ b = c THEN n ELSE books.held[w][m][b]
      BY <2>1, <2>3, CounterReads DEF h
    <3>2. n = books.held[Home[o]][month][c] + Units[o] BY DEF InBucket
    <3>3. \A w, b : Takes(o, books.owned[o], w, b, month) = 0 BY <1>3, <2>1 DEF Takes
    <3>4. \A w, b : Takes(o, r, w, b, month) = IF w = Home[o] /\ b = c THEN Units[o] ELSE 0
      BY DEF Takes
    <3>5. \A w \in Workspaces, m \in 1..LastMonth, b \in Buckets : books.held[w][m][b] \in Int
      BY <2>1, CounterIsInt
    <3>6. Units[o] \in Nat BY DEF SoundConstants
    <3> HIDE DEF n, c, r
    <3>7. \A w \in Workspaces, m \in 1..LastMonth, b \in Buckets :
            m > month => h[w][m][b] = books.held[w][m][b]
      BY <2>1, <3>1
    <3>8. ASSUME NEW w \in Workspaces, NEW b \in Buckets
          PROVE h[w][month][b] = books.held[w][month][b]
                  - Takes(o, books.owned[o], w, b, month) + Takes(o, r, w, b, month)
      BY <2>1, <3>1, <3>2, <3>3, <3>4, <3>5, <3>6
    <3>9. ASSUME NEW w \in Workspaces, NEW m \in 1..LastMonth, NEW b \in Buckets, m < month
          PROVE h[w][m][b] >= books.held[w][m][b]
                  - Takes(o, books.owned[o], w, b, m) + Takes(o, r, w, b, m)
      <4>1. Takes(o, books.owned[o], w, b, m) = 0 BY <1>3, <2>1 DEF Takes
      <4>2. Takes(o, r, w, b, m) = 0 BY <2>1, <3>9 DEF Takes, r
      <4>3. h[w][m][b] = books.held[w][m][b] BY <2>1, <3>1, <3>9
      <4> QED BY <3>5, <4>1, <4>2, <4>3
    <3> QED BY <3>7, <3>8, <3>9 DEF CountersMove, PastMoves
  <2>11. MoneyMoves(o, r, books.events)
    <3>1. Owes(books.owned[o], month) = 0 BY <1>3, <2>1 DEF Owes, Live
    <3>2. Owes(r, month) = Estimate[o] BY DEF Owes, Live, Positive, SoundConstants
    <3>3. Owes(r, month) - Owes(books.owned[o], month) = Estimate[o]
      BY <3>1, <3>2 DEF SoundConstants
    <3> QED BY <1>3, <3>3 DEF MoneyMoves
  <2>12. Noticed(o, books.tried[o], books.events) BY DEF LedgerInv, EventsSound
  <2> HIDE DEF r, n, c
  <2> QED BY <2>1, <2>2, <2>7, <2>8, <2>9, <2>10, <2>11, <2>12, OwnerStepKeeps
<1> QED BY <1>2, <1>3 DEF ReserveOwned, Becomes, Reserve, Answer, Row

(* An owner whose units are given back and whose row ends: what cancelling *)
(* and settling have in common.                                            *)
LEMMA ReturnedKeeps ==
  ASSUME SoundConstants, LedgerInv, NEW o \in Owners, Row(o).status # "none",
         NEW r \in OwnerRows, NEW q \in AttemptRows, r.status # "reserved",
         IsBooks(books'), books'.owned = [books.owned EXCEPT ![o] = r],
         books'.tried = [books.tried EXCEPT ![o] = q],
         books'.held = Returned("postgres", books, o).held, books'.events = books.events,
         month' = month, loose' = loose, stray' = stray,
         RowSound(o, r, q, Paid(books.events, o), month),
         Accounted(q) = Accounted(books.tried[o]),
         Owes(r, month) <= Owes(Row(o), month)
  PROVE LedgerInv'
<1> DEFINE n == CounterWith(books.held, Home[o], Row(o).month, Bucket(Operation[o]),
                  Positive(InBucket(books, o, Row(o).month) - Row(o).units))
<1>1. EventsOK(books.events, month) /\ TypeOK /\ RowsSound /\ CountersSound BY RowFound
<1>2. books'.held = n BY <1>1, ReturnedLeaves
<1>3. n \in Counters /\ CountersMove(o, r, n) BY <1>1, ReturnedCounts DEF CountersMove, PastMoves
<1> HIDE DEF n
<1>4. OwnerStep(o, r, q, n, books.events) BY <1>2 DEF OwnerStep
<1>5. MoneyMoves(o, r, books.events) BY OwesLess
<1>6. Noticed(o, q, books.events) BY DEF LedgerInv, EventsSound, Noticed
<1> QED BY <1>1, <1>3, <1>4, <1>5, <1>6, OwnerStepKeeps

(* cancel_owned.                                                           *)
LEMMA CancelMoves ==
  ASSUME SoundConstants, LedgerInv, NEW o \in Owners, Becomes(Cancel("postgres", books, o)), Kept
  PROVE LedgerInv' \/ UNCHANGED ledgerVars
<1>1. month' = month /\ granted' = granted /\ loose' = loose /\ stray' = stray BY DEF Kept
<1>2. CASE books' = books BY <1>1, <1>2 DEF ledgerVars
<1> DEFINE k == Returned("postgres", books, o)
           r == [Row(o) EXCEPT !.units = 0, !.status = "cancelled"]
<1>3. CASE Row(o).status = "reserved" /\ books' = [k EXCEPT !.owned[o].status = "cancelled"]
  <2>1. Row(o) \in OwnerRows /\ books.owned[o] = Row(o) /\ books.tried[o] \in AttemptRows
        /\ RowSound(o, Row(o), books.tried[o], Paid(books.events, o), month)
        /\ TypeOK /\ RowsSound /\ CountersSound
    BY RowFound
  <2>2. r \in OwnerRows BY <2>1 DEF OwnerRows
  <2>3. IsBooks(k) /\ k.owned = [books.owned EXCEPT ![o].units = 0]
        /\ k.tried = books.tried /\ k.events = books.events
    BY <1>3, <2>1, ReturnedLeaves
  <2> HIDE DEF k
  <2>4. /\ IsBooks(books') /\ books'.owned = [k.owned EXCEPT ![o].status = "cancelled"]
        /\ books'.tried = k.tried /\ books'.events = k.events /\ books'.held = k.held
    BY <1>3, <2>3 DEF IsBooks
  <2>5. books'.owned = [books.owned EXCEPT ![o] = r]
    BY <2>1, <2>3, <2>4 DEF TypeOK, OwnerRows
  <2>6. books'.tried = [books.tried EXCEPT ![o] = books.tried[o]]
    BY <2>1, <2>3, <2>4 DEF TypeOK
  <2>7. r.month = Row(o).month /\ r.est = Row(o).est /\ r.settled = Row(o).settled
        /\ r.units = 0 /\ r.status = "cancelled"
    BY <2>1 DEF OwnerRows
  <2> HIDE DEF r
  <2>8. RowSound(o, r, books.tried[o], Paid(books.events, o), month)
    BY <1>3, <2>1, <2>7 DEF RowSound, Live
  <2>9. Owes(r, month) <= Owes(Row(o), month)
    BY <2>1, <2>7 DEF Owes, Live, Positive, OwnerRows
  <2> QED BY <1>1, <1>3, <2>1, <2>2, <2>3, <2>4, <2>5, <2>6, <2>7, <2>8, <2>9, ReturnedKeeps DEF k
<1> QED BY <1>2, <1>3 DEF Becomes, Cancel, Answer, Row

(* The row that settling leaves: no units, a final status, what is         *)
(* retained; and the tables with it.                                       *)
EndedRow(r, ends, retained) == [r EXCEPT !.units = 0, !.status = ends, !.est = retained]
Ended(l, o, ends, retained) ==
  [l EXCEPT !.owned[o].status = ends, !.owned[o].est = retained]

(* Settling ends one row and leaves the rest of the tables.                *)
LEMMA RowEnds ==
  ASSUME NEW l, IsBooks(l), NEW owned \in [Owners -> OwnerRows], NEW o \in Owners,
         l.owned = [owned EXCEPT ![o].units = 0], NEW ends, NEW retained
  PROVE /\ IsBooks(Ended(l, o, ends, retained))
        /\ Ended(l, o, ends, retained).tried = l.tried
        /\ Ended(l, o, ends, retained).events = l.events
        /\ Ended(l, o, ends, retained).held = l.held
        /\ Ended(l, o, ends, retained).owned
             = [owned EXCEPT ![o] = EndedRow(owned[o], ends, retained)]
<1> DEFINE d == [l EXCEPT !.owned[o].status = ends]
           c == [l EXCEPT !.owned[o].status = ends, !.owned[o].est = retained]
           u == [owned[o] EXCEPT !.units = 0]
           v == [u EXCEPT !.status = ends]
           x == [v EXCEPT !.est = retained]
           r == [owned[o] EXCEPT !.units = 0, !.status = ends, !.est = retained]
<1>1. r = x OBVIOUS
<1>2. c = [d EXCEPT !.owned[o].est = retained] OBVIOUS
<1>3. l.owned = [owned EXCEPT ![o] = u] OBVIOUS
<1>4. IsBooks(d) /\ d.tried = l.tried /\ d.events = l.events /\ d.held = l.held
      /\ d.owned = [l.owned EXCEPT ![o].status = ends]
  BY DEF IsBooks
<1> HIDE DEF u, r, c, d
<1>5. d.owned = [owned EXCEPT ![o] = v] BY <1>3, <1>4
<1>6. IsBooks(c) /\ c.tried = d.tried /\ c.events = d.events /\ c.held = d.held
      /\ c.owned = [d.owned EXCEPT ![o].est = retained]
  BY <1>2, <1>4 DEF IsBooks
<1> HIDE DEF v
<1>7. c.owned = [owned EXCEPT ![o] = x] BY <1>5, <1>6
<1> HIDE DEF x
<1>8. c.owned = [owned EXCEPT ![o] = r] BY <1>1, <1>7
<1>9. c = Ended(l, o, ends, retained) BY DEF c, Ended
<1>10. r = EndedRow(owned[o], ends, retained) BY DEF r, EndedRow
<1> QED BY <1>4, <1>6, <1>8, <1>9, <1>10

(* settle_owned: what stays charged is the price of the attempts that were *)
(* made, or the whole estimate.                                            *)
LEMMA SettleMoves ==
  ASSUME SoundConstants, LedgerInv, NEW o \in Owners, NEW unknown \in BOOLEAN,
         Becomes(Settle("postgres", books, o, unknown)), Kept
  PROVE LedgerInv' \/ UNCHANGED ledgerVars
<1>1. month' = month /\ granted' = granted /\ loose' = loose /\ stray' = stray BY DEF Kept
<1>2. CASE books' = books BY <1>1, <1>2 DEF ledgerVars
<1> DEFINE k == Returned("postgres", books, o)
           open == {a \in Attempts : books.tried[o][a] = "authorized"}
           q == [a \in Attempts |-> IF a \in open THEN "unknown" ELSE books.tried[o][a]]
           charged == unknown \/ open # {}
           retained == IF unknown THEN Row(o).est
                       ELSE Row(o).settled + CallCost[o] * Cardinality(open)
           ends == IF charged THEN "billable_unknown" ELSE "settled"
           closed == Ended(k, o, ends, retained)
           r == EndedRow(Row(o), ends, retained)
<1>3. CASE /\ Row(o).status \in Live
           /\ books' = [closed EXCEPT !.tried[o] = [a \in Attempts |->
                          IF a \in open THEN "unknown" ELSE @[a]]]
  <2>1. Row(o) \in OwnerRows /\ books.owned[o] = Row(o) /\ books.tried[o] \in AttemptRows
        /\ RowSound(o, Row(o), books.tried[o], Paid(books.events, o), month)
        /\ TypeOK /\ RowsSound /\ CountersSound
    BY RowFound
  <2>2. Row(o).status # "none" BY <1>3 DEF Live
  <2>3. IsBooks(k) /\ k.owned = [books.owned EXCEPT ![o].units = 0]
        /\ k.tried = books.tried /\ k.events = books.events
    BY <2>1, <2>2, ReturnedLeaves
  <2>4. \A a \in Attempts : books.tried[o][a] # "unknown" BY <1>3, <2>1 DEF RowSound
  <2>5. /\ q \in AttemptRows /\ Known(q) = Known(books.tried[o])
        /\ Accounted(q) = Accounted(books.tried[o])
        /\ \A a \in Attempts : q[a] # "authorized"
        /\ Cardinality(open) \in Nat
        /\ Cardinality(Known(books.tried[o]))
             = Cardinality(Accounted(books.tried[o])) + Cardinality(open)
    BY <2>1, <2>4, AttemptsClosed
  <2> HIDE DEF k, open
  <2>6. IsBooks(closed) /\ closed.tried = k.tried /\ closed.events = k.events
        /\ closed.held = k.held /\ closed.owned = [books.owned EXCEPT ![o] = r]
    <3>1. books.owned \in [Owners -> OwnerRows] BY <2>1 DEF TypeOK
    <3> HIDE DEF retained, ends
    <3>2. IsBooks(closed) /\ closed.tried = k.tried /\ closed.events = k.events
          /\ closed.held = k.held
          /\ closed.owned = [books.owned EXCEPT ![o] = EndedRow(books.owned[o], ends, retained)]
      BY <2>3, <3>1, RowEnds
    <3> QED BY <3>2, <2>1
  <2>7. /\ IsBooks(books') /\ books'.owned = closed.owned /\ books'.events = closed.events
        /\ books'.held = closed.held
        /\ books'.tried = [closed.tried EXCEPT ![o] = [a \in Attempts |->
                             IF a \in open THEN "unknown" ELSE @[a]]]
    <3> HIDE DEF closed
    <3> QED BY <1>3, <2>6 DEF IsBooks
  <2> HIDE DEF closed
  <2>8. books'.tried = [books.tried EXCEPT ![o] = q] BY <2>3, <2>6, <2>7
  <2>9. Cardinality(Accounted(books.tried[o])) \in Nat /\ CallCost[o] \in Nat
    BY <2>1, AttemptsCount DEF SoundConstants
  <2>10. Row(o).settled \in Nat /\ Row(o).est \in Nat BY <2>1 DEF OwnerRows
  <2>11. CallCost[o] * Cardinality(Known(books.tried[o]))
           = CallCost[o] * Cardinality(Accounted(books.tried[o])) + CallCost[o] * Cardinality(open)
    BY <2>5, <2>9
  <2>12. CallCost[o] * Cardinality(open) \in Nat BY <2>5, <2>9
  <2>13. /\ Row(o).settled = CallCost[o] * Cardinality(Accounted(books.tried[o]))
         /\ CallCost[o] * Cardinality(Known(books.tried[o])) <= Row(o).est
         /\ Row(o).est <= Estimate[o]
    BY <2>1 DEF RowSound
  <2>14. retained \in Nat /\ retained <= Row(o).est
         /\ CallCost[o] * Cardinality(Known(books.tried[o])) <= retained
    <3> DEFINE x == CallCost[o] * Cardinality(open)
               y == CallCost[o] * Cardinality(Accounted(books.tried[o]))
               z == CallCost[o] * Cardinality(Known(books.tried[o]))
    <3>1. z = y + x /\ x \in Nat /\ Row(o).settled = y /\ z <= Row(o).est
      BY <2>11, <2>12, <2>13
    <3> HIDE DEF x, y, z
    <3>2. (IF unknown THEN Row(o).est ELSE Row(o).settled + x) \in Nat
          /\ (IF unknown THEN Row(o).est ELSE Row(o).settled + x) <= Row(o).est
          /\ z <= (IF unknown THEN Row(o).est ELSE Row(o).settled + x)
      BY <3>1, <2>10
    <3> QED BY <3>2 DEF x, z
  <2> HIDE DEF retained
  <2>15. r \in OwnerRows BY <2>1, <2>14 DEF OwnerRows, EndedRow
  <2>16. books'.owned = [books.owned EXCEPT ![o] = r] BY <2>6, <2>7
  <2>17. r.month = Row(o).month /\ r.est = retained /\ r.settled = Row(o).settled
         /\ r.units = 0 /\ r.status = ends /\ ends \in {"settled", "billable_unknown"}
    BY <2>1 DEF OwnerRows, EndedRow
  <2> HIDE DEF r, ends, q
  <2>18. RowSound(o, r, q, Paid(books.events, o), month)
    <3>1. retained <= Estimate[o]
      BY <2>10, <2>13, <2>14 DEF SoundConstants
    <3> QED BY <3>1, <2>1, <2>2, <2>5, <2>14, <2>17 DEF RowSound, Live
  <2>19. Owes(r, month) <= Owes(Row(o), month)
    BY <1>3, <2>10, <2>14, <2>17 DEF Owes, Live, Positive
  <2>20. books'.held = Returned("postgres", books, o).held BY <2>6, <2>7 DEF k
  <2>21. books'.events = books.events BY <2>3, <2>6, <2>7
  <2>22. r.status # "reserved" BY <2>17
  <2> QED
    BY <1>1, <2>2, <2>5, <2>7, <2>8, <2>15, <2>16, <2>18, <2>19, <2>20, <2>21, <2>22, ReturnedKeeps
<1> QED BY <1>2, <1>3 DEF Becomes, Settle, Answer, Row, Open, Ended

(* finalize_revoked: one of the two.                                       *)
LEMMA FinalizeMoves ==
  ASSUME SoundConstants, LedgerInv, NEW o \in Owners, FinalizeRevokedOwned(o)
  PROVE LedgerInv' \/ UNCHANGED ledgerVars
<1>1. Kept BY DEF FinalizeRevokedOwned
<1>2. CASE Becomes(Settle("postgres", books, o, FALSE)) BY <1>1, <1>2, SettleMoves
<1>3. CASE Becomes(Cancel("postgres", books, o)) BY <1>1, <1>3, CancelMoves
<1> QED BY <1>2, <1>3 DEF FinalizeRevokedOwned, FinalizeRevoked, Becomes

(* The row stays and the counters stay: what authorizing an attempt does.  *)
LEMMA CountersStay ==
  ASSUME SoundConstants, LedgerInv, NEW o \in Owners
  PROVE CountersMove(o, Row(o), books.held)
<1>1. TypeOK /\ books.held \in Counters /\ month \in 1..LastMonth /\ Row(o) \in OwnerRows
      /\ books.owned[o] = Row(o)
  BY RowFound
<1>2. ASSUME NEW w \in Workspaces, NEW b \in Buckets
      PROVE books.held[w][month][b] = books.held[w][month][b]
              - Takes(o, books.owned[o], w, b, month) + Takes(o, Row(o), w, b, month)
  <2>1. books.held[w][month][b] \in Int BY <1>1, CounterIsInt
  <2>2. Takes(o, Row(o), w, b, month) \in Nat BY <1>1 DEF Takes, OwnerRows
  <2> QED BY <1>1, <2>1, <2>2
<1>3. ASSUME NEW w \in Workspaces, NEW m \in 1..LastMonth, NEW b \in Buckets
      PROVE books.held[w][m][b] >= books.held[w][m][b]
              - Takes(o, books.owned[o], w, b, m) + Takes(o, Row(o), w, b, m)
  <2>1. books.held[w][m][b] \in Int BY <1>1, CounterIsInt
  <2>2. Takes(o, Row(o), w, b, m) \in Nat BY <1>1 DEF Takes, OwnerRows
  <2> QED BY <1>1, <2>1, <2>2
<1> QED BY <1>2, <1>3 DEF CountersMove, PastMoves

(* authorize_owned_attempt.                                                *)
LEMMA AuthorizeKeeps ==
  ASSUME SoundConstants, LedgerInv, NEW o \in Owners, NEW a \in Attempts, AuthorizeAttempt(o, a)
  PROVE LedgerInv'
<1> DEFINE q == [books.tried[o] EXCEPT ![a] = "authorized"]
           known == Cardinality(Known(books.tried[o]))
<1>1. month' = month /\ loose' = loose /\ stray' = stray BY DEF AuthorizeAttempt
<1>2. CASE books' = books
  <2>1. Row(o) \in OwnerRows /\ books.owned[o] = Row(o) /\ books.tried[o] \in AttemptRows
        /\ RowSound(o, Row(o), books.tried[o], Paid(books.events, o), month)
        /\ EventsOK(books.events, month) /\ IsBooks(books) /\ books.held \in Counters
        /\ TypeOK
    BY RowFound
  <2>2. OwnerStep(o, Row(o), books.tried[o], books.held, books.events)
    BY <1>1, <1>2, <2>1 DEF OwnerStep, TypeOK
  <2>3. CountersMove(o, Row(o), books.held) BY CountersStay
  <2>4. MoneyMoves(o, Row(o), books.events)
    <3>1. Owes(Row(o), month) <= Owes(Row(o), month) BY <2>1 DEF Owes, Positive, OwnerRows
    <3> QED BY <2>1, <3>1, OwesLess
  <2>5. Noticed(o, books.tried[o], books.events) BY DEF LedgerInv, EventsSound
  <2> QED BY <2>1, <2>2, <2>3, <2>4, <2>5, OwnerStepKeeps
<1>3. CASE /\ books.tried[o][a] = "none" /\ Row(o).status \in Live
           /\ CallCost[o] * known + CallCost[o] <= Row(o).est
           /\ books' = [books EXCEPT !.tried[o][a] = "authorized"]
  <2>1. Row(o) \in OwnerRows /\ books.owned[o] = Row(o) /\ books.tried[o] \in AttemptRows
        /\ RowSound(o, Row(o), books.tried[o], Paid(books.events, o), month)
        /\ EventsOK(books.events, month) /\ IsBooks(books) /\ books.held \in Counters
        /\ TypeOK
    BY RowFound
  <2>2. q \in AttemptRows /\ Accounted(q) = Accounted(books.tried[o])
        /\ Cardinality(Known(q)) = known + 1
    BY <1>3, <2>1, AttemptAuthorized
  <2>3. IsBooks(books') /\ books'.owned = books.owned /\ books'.held = books.held
        /\ books'.events = books.events /\ books'.tried = [books.tried EXCEPT ![o] = q]
    BY <1>3, <2>1 DEF IsBooks
  <2>4. books'.owned = [books.owned EXCEPT ![o] = Row(o)] BY <2>1, <2>3 DEF TypeOK
  <2>5. OwnerStep(o, Row(o), q, books.held, books.events)
    BY <1>1, <2>3, <2>4 DEF OwnerStep
  <2>6. \A b \in Attempts : q[b] = IF b = a THEN "authorized" ELSE books.tried[o][b]
    BY <2>1 DEF AttemptRows
  <2>7. known \in Nat /\ CallCost[o] \in Nat BY <2>1, AttemptsCount DEF SoundConstants
  <2> HIDE DEF q, known
  <2>8. CallCost[o] * Cardinality(Known(q)) <= Row(o).est
    <3>1. \A c \in Nat, k \in Nat : c * (k + 1) = c * k + c OBVIOUS
    <3>2. CallCost[o] * (known + 1) = CallCost[o] * known + CallCost[o] BY <2>7, <3>1
    <3> QED BY <1>3, <2>2, <3>2
  <2>9. RowSound(o, Row(o), q, Paid(books.events, o), month)
    BY <1>3, <2>1, <2>2, <2>6, <2>8 DEF RowSound, Live
  <2>10. CountersMove(o, Row(o), books.held) BY CountersStay
  <2>11. MoneyMoves(o, Row(o), books.events)
    <3>1. Owes(Row(o), month) <= Owes(Row(o), month) BY <2>1 DEF Owes, Positive, OwnerRows
    <3> QED BY <2>1, <3>1, OwesLess
  <2>12. Noticed(o, q, books.events) BY <2>2 DEF LedgerInv, EventsSound, Noticed
  <2> QED BY <2>1, <2>2, <2>5, <2>9, <2>10, <2>11, <2>12, OwnerStepKeeps
<1> QED BY <1>2, <1>3 DEF AuthorizeAttempt, Becomes, Authorize, Answer, Row, Known

(* Two fields of a row, written alone.                                     *)
WithUnits(l, o, n) == [l EXCEPT !.owned[o].units = n]
WithStatus(l, o, s) == [l EXCEPT !.owned[o].status = s]

(* The units of a row are written.                                         *)
LEMMA UnitsWritten ==
  ASSUME NEW l, IsBooks(l), NEW owned, NEW R, owned \in [Owners -> R], NEW o \in Owners, NEW x,
         l.owned = [owned EXCEPT ![o] = x], NEW n
  PROVE /\ IsBooks(WithUnits(l, o, n)) /\ WithUnits(l, o, n).tried = l.tried
        /\ WithUnits(l, o, n).events = l.events /\ WithUnits(l, o, n).held = l.held
        /\ WithUnits(l, o, n).owned = [owned EXCEPT ![o] = [x EXCEPT !.units = n]]
<1> DEFINE c == WithUnits(l, o, n)
<1>1. IsBooks(c) /\ c.tried = l.tried /\ c.events = l.events /\ c.held = l.held
      /\ c.owned = [l.owned EXCEPT ![o].units = n]
  BY DEF IsBooks, WithUnits
<1> HIDE DEF c
<1>2. c.owned = [owned EXCEPT ![o] = [x EXCEPT !.units = n]] BY <1>1
<1> QED BY <1>1, <1>2 DEF c

(* The status of a row is written.                                         *)
LEMMA StatusWritten ==
  ASSUME NEW l, IsBooks(l), NEW owned, NEW R, owned \in [Owners -> R], NEW o \in Owners, NEW x,
         l.owned = [owned EXCEPT ![o] = x], NEW s
  PROVE /\ IsBooks(WithStatus(l, o, s)) /\ WithStatus(l, o, s).tried = l.tried
        /\ WithStatus(l, o, s).events = l.events /\ WithStatus(l, o, s).held = l.held
        /\ WithStatus(l, o, s).owned = [owned EXCEPT ![o] = [x EXCEPT !.status = s]]
<1> DEFINE c == WithStatus(l, o, s)
<1>1. IsBooks(c) /\ c.tried = l.tried /\ c.events = l.events /\ c.held = l.held
      /\ c.owned = [l.owned EXCEPT ![o].status = s]
  BY DEF IsBooks, WithStatus
<1> HIDE DEF c
<1>2. c.owned = [owned EXCEPT ![o] = [x EXCEPT !.status = s]] BY <1>1
<1> QED BY <1>1, <1>2 DEF c

(* An event, its attempt and what the owner paid are written together.     *)
Noted(l, o, a, e, sum) ==
  [l EXCEPT !.events = @ \cup {e}, !.tried[o][a] = "accounted", !.owned[o].settled = sum]

(* What a row is after its attempt was recorded.                           *)
PaidRow(r, cost, takes) ==
  [r EXCEPT !.settled = @ + cost, !.units = IF takes THEN @ - 1 ELSE @,
            !.status = IF takes /\ r.units = 1 THEN "consumed" ELSE @]

(* Its bucket and its debt move as the counters and the budgets need.      *)
LEMMA PaidRowFits ==
  ASSUME SoundConstants, NEW o \in Owners, NEW r \in OwnerRows, NEW takes \in BOOLEAN,
         takes <=> r.status = "reserved", r.status = "reserved" <=> r.units > 0, r.status \in Live,
         NEW cost \in Nat, r.settled + cost <= r.est, NEW m \in Nat
  PROVE /\ PaidRow(r, cost, takes) \in OwnerRows
        /\ PaidRow(r, cost, takes).month = r.month /\ PaidRow(r, cost, takes).est = r.est
        /\ PaidRow(r, cost, takes).settled = r.settled + cost
        /\ PaidRow(r, cost, takes).status \in Live
        /\ PaidRow(r, cost, takes).status = "reserved" <=> PaidRow(r, cost, takes).units > 0
        /\ \A w, b, k : Takes(o, PaidRow(r, cost, takes), w, b, k)
             = Takes(o, r, w, b, k)
                 - IF takes /\ Home[o] = w /\ Bucket(Operation[o]) = b /\ r.month = k THEN 1 ELSE 0
        /\ Owes(PaidRow(r, cost, takes), m)
             = Owes(r, m) - IF r.month = m THEN cost ELSE 0
<1> DEFINE p == PaidRow(r, cost, takes)
<1> DEFINE left == IF takes THEN r.units - 1 ELSE r.units
           s == IF takes /\ r.units = 1 THEN "consumed" ELSE r.status
<1>5. p = [status |-> s, month |-> r.month, est |-> r.est, settled |-> r.settled + cost,
           units |-> left]
  <2>1. r = [status |-> r.status, month |-> r.month, est |-> r.est, settled |-> r.settled,
             units |-> r.units]
    BY DEF OwnerRows
  <2>2. PaidRow(r, cost, takes)
          = [r EXCEPT !.settled = r.settled + cost, !.units = left, !.status = s]
    BY <2>1 DEF PaidRow
  <2> HIDE DEF left, s
  <2> QED BY <2>1, <2>2
<1>6. left \in Nat /\ s \in {"none", "reserved", "consumed", "cancelled", "settled",
                             "billable_unknown"}
  BY DEF OwnerRows
<1>1. p \in OwnerRows /\ p.month = r.month /\ p.est = r.est /\ p.settled = r.settled + cost
      /\ p.units = (IF takes THEN r.units - 1 ELSE r.units)
      /\ p.status = (IF takes /\ r.units = 1 THEN "consumed" ELSE r.status)
  <2> HIDE DEF p
  <2>1. r.month \in 0..LastMonth /\ r.est \in Nat /\ r.settled + cost \in Nat BY DEF OwnerRows
  <2>2. p \in OwnerRows
    <3> HIDE DEF left, s
    <3> QED BY <1>5, <1>6, <2>1 DEF OwnerRows
  <2> QED BY <1>5, <2>2
<1> HIDE DEF p
<1>2. p.status \in Live /\ (p.status = "reserved" <=> p.units > 0)
  BY <1>1 DEF OwnerRows, Live
<1>3. ASSUME NEW w, NEW b, NEW k
      PROVE Takes(o, p, w, b, k) = Takes(o, r, w, b, k)
              - IF takes /\ Home[o] = w /\ Bucket(Operation[o]) = b /\ r.month = k THEN 1 ELSE 0
  BY <1>1 DEF Takes, OwnerRows
<1>4. Owes(p, m) = Owes(r, m) - IF r.month = m THEN cost ELSE 0
  <2>1. r.settled \in Nat /\ r.est \in Nat BY DEF OwnerRows
  <2>2. Positive(p.est - p.settled) = Positive(r.est - r.settled) - cost
    BY <1>1, <2>1 DEF Positive
  <2>3. r.month # m => Owes(p, m) = 0 /\ Owes(r, m) = 0 BY <1>1 DEF Owes
  <2>4. r.month = m => Owes(p, m) = Positive(p.est - p.settled)
                       /\ Owes(r, m) = Positive(r.est - r.settled)
    BY <1>1, <1>2 DEF Owes
  <2> QED BY <2>2, <2>3, <2>4
<1> QED BY <1>1, <1>2, <1>3, <1>4 DEF p

(* A unit taken from the bucket of the owner's month.                      *)
LEMMA UnitTaken ==
  ASSUME SoundConstants, LedgerInv, NEW o \in Owners, Row(o).status # "none",
         NEW r \in OwnerRows, NEW takes \in BOOLEAN,
         \A w, b, m : Takes(o, r, w, b, m) = Takes(o, Row(o), w, b, m)
           - IF takes /\ Home[o] = w /\ Bucket(Operation[o]) = b /\ Row(o).month = m
             THEN 1 ELSE 0
  PROVE LET n == IF takes
                 THEN CounterWith(books.held, Home[o], Row(o).month, Bucket(Operation[o]),
                        InBucket(books, o, Row(o).month) - 1)
                 ELSE books.held
        IN  n \in Counters /\ CountersMove(o, r, n)
<1> DEFINE v == Home[o]
           c == Bucket(Operation[o])
           left == InBucket(books, o, Row(o).month) - 1
           k == CounterWith(books.held, v, Row(o).month, c, left)
           n == IF takes THEN k ELSE books.held
<1>1. v \in Workspaces /\ c \in Buckets /\ Row(o).month \in 1..LastMonth /\ Row(o).month <= month
      /\ left \in Int /\ month \in 1..LastMonth /\ Row(o) \in OwnerRows
  BY BucketOf DEF LedgerInv
<1>2. books.held \in Counters /\ books.owned[o] = Row(o) BY RowFound
<1>3. left = books.held[v][Row(o).month][c] - 1 BY DEF InBucket
<1>4. \A w, b, m : Takes(o, r, w, b, m) = Takes(o, books.owned[o], w, b, m)
        - IF takes /\ v = w /\ c = b /\ Row(o).month = m THEN 1 ELSE 0
  BY <1>2
<1>5. \A w, b, m : Takes(o, books.owned[o], w, b, m) \in Nat BY <1>1, <1>2 DEF Takes, OwnerRows
<1>6. \A w \in Workspaces, m \in 1..LastMonth, b \in Buckets : books.held[w][m][b] \in Int
  BY <1>2, CounterIsInt
<1> HIDE DEF v, c, left
<1>7. k \in Counters BY <1>1, <1>2, CounterChanges
<1>8. ASSUME NEW w \in Workspaces, NEW m \in 1..LastMonth, NEW b \in Buckets
      PROVE k[w][m][b] = IF w = v /\ m = Row(o).month /\ b = c THEN left ELSE books.held[w][m][b]
  BY <1>1, <1>2, CounterReads
<1> HIDE DEF k
<1>9. \A w \in Workspaces, m \in 1..LastMonth, b \in Buckets :
        n[w][m][b] = books.held[w][m][b]
          - IF takes /\ v = w /\ c = b /\ Row(o).month = m THEN 1 ELSE 0
  BY <1>3, <1>6, <1>8
<1>10. n \in Counters BY <1>2, <1>7
<1> HIDE DEF n
<1>11. \A w \in Workspaces, m \in 1..LastMonth, b \in Buckets :
         m > month => n[w][m][b] = books.held[w][m][b]
  BY <1>1, <1>6, <1>9
<1>12. \A w \in Workspaces, m \in 1..LastMonth, b \in Buckets : n[w][m][b] = books.held[w][m][b]
         - Takes(o, books.owned[o], w, b, m) + Takes(o, r, w, b, m)
  <2> SUFFICES ASSUME NEW w \in Workspaces, NEW m \in 1..LastMonth, NEW b \in Buckets
               PROVE n[w][m][b] = books.held[w][m][b]
                       - Takes(o, books.owned[o], w, b, m) + Takes(o, r, w, b, m)
    OBVIOUS
  <2>1. books.held[w][m][b] \in Int /\ Takes(o, books.owned[o], w, b, m) \in Nat BY <1>5, <1>6
  <2>2. Takes(o, r, w, b, m) = Takes(o, books.owned[o], w, b, m)
          - IF takes /\ v = w /\ c = b /\ Row(o).month = m THEN 1 ELSE 0
    BY <1>4
  <2> QED BY <1>9, <2>1, <2>2
<1>14. PastMoves(o, r, n)
  <2> SUFFICES ASSUME NEW w \in Workspaces, NEW m \in 1..LastMonth, NEW b \in Buckets
               PROVE n[w][m][b] >= books.held[w][m][b]
                       - Takes(o, books.owned[o], w, b, m) + Takes(o, r, w, b, m)
    BY DEF PastMoves
  <2>1. books.held[w][m][b] \in Int /\ Takes(o, books.owned[o], w, b, m) \in Nat BY <1>5, <1>6
  <2>2. Takes(o, r, w, b, m) \in Int BY <1>4, <2>1
  <2> QED BY <1>12, <2>1, <2>2
<1>13. CountersMove(o, r, n) BY <1>1, <1>11, <1>12, <1>14 DEF CountersMove
<1> QED BY <1>10, <1>13 DEF n, k, v, c, left

(* The event of an attempt that was not recorded yet is a new one, and the *)
(* budgets do not feel it: what was promised becomes what was spent.       *)
LEMMA EventPaysPromise ==
  ASSUME SoundConstants, LedgerInv, NEW o \in Owners, NEW r \in OwnerRows,
         NEW e, e.cost \in Nat, e.month = month, e.ws = Home[o],
         e.promised <=> Row(o).month = month, e \notin books.events,
         Owes(r, month) = Owes(Row(o), month) - IF Row(o).month = month THEN e.cost ELSE 0
  PROVE MoneyMoves(o, r, books.events \cup {e})
<1>1. Row(o) \in OwnerRows /\ books.owned[o] = Row(o) /\ month \in Nat
      /\ EventsOK(books.events, month) /\ month \in 1..LastMonth
  BY RowFound
<1>2. e.month \in 1..month BY <1>1
<1>4. \A ws : Spent(books.events \cup {e}, ws, month)
        = Spent(books.events, ws, month)
            + IF e.ws \in ws /\ e.month = month /\ e.promised THEN e.cost ELSE 0
  <2> DEFINE events == books.events
  <2>1. EventsOK(events, month) /\ e.cost \in Nat /\ e.month \in 1..month /\ month \in Nat
        /\ (e \notin events \/ ~e.promised)
    BY <1>1, <1>2
  <2> HIDE DEF events
  <2>2. \A ws : Spent(events \cup {e}, ws, month)
          = Spent(events, ws, month)
              + IF e.ws \in ws /\ e.month = month /\ e.promised THEN e.cost ELSE 0
    BY ONLY <2>1, EventCounts
  <2> QED BY <2>2 DEF events
<1>3. ASSUME NEW ws
      PROVE Spent(books.events \cup {e}, ws, month) + Share(o, r, ws, month)
              <= Spent(books.events, ws, month) + Share(o, books.owned[o], ws, month)
  <2>1. Spent(books.events \cup {e}, ws, month)
          = Spent(books.events, ws, month)
              + IF e.ws \in ws /\ e.month = month /\ e.promised THEN e.cost ELSE 0
    BY <1>4
  <2>2. Spent(books.events, ws, month) \in Nat BY <1>1, SpentIsBooked
  <2>3. Owes(Row(o), month) \in Nat /\ Owes(r, month) \in Nat
    BY <1>1 DEF Owes, Positive, OwnerRows
  <2>4. Share(o, r, ws, month) = IF Home[o] \in ws THEN Owes(r, month) ELSE 0 BY DEF Share
  <2>5. Share(o, books.owned[o], ws, month) = IF Home[o] \in ws THEN Owes(Row(o), month) ELSE 0
    BY <1>1 DEF Share
  <2>6. Spent(books.events \cup {e}, ws, month)
          = Spent(books.events, ws, month)
              + IF Home[o] \in ws /\ Row(o).month = month THEN e.cost ELSE 0
    BY <2>1
  <2> QED BY <2>2, <2>3, <2>4, <2>5, <2>6
<1> QED BY <1>3 DEF MoneyMoves

(* The row of an open attempt is live, and its price fits the reservation. *)
LEMMA OpenFits ==
  ASSUME SoundConstants, LedgerInv, NEW o \in Owners, NEW a \in Attempts,
         books.tried[o][a] = "authorized", Row(o).status # "cancelled"
  PROVE /\ Row(o).status \in Live
        /\ Row(o).settled + CallCost[o] <= Row(o).est
        /\ LET q == [books.tried[o] EXCEPT ![a] = "accounted"]
           IN  /\ q \in AttemptRows /\ Known(q) = Known(books.tried[o])
               /\ CallCost[o] * Cardinality(Accounted(q)) = Row(o).settled + CallCost[o]
<1> DEFINE q == [books.tried[o] EXCEPT ![a] = "accounted"]
           acc == Cardinality(Accounted(books.tried[o]))
<1>1. Row(o) \in OwnerRows /\ books.tried[o] \in AttemptRows
      /\ RowSound(o, Row(o), books.tried[o], Paid(books.events, o), month)
  BY RowFound
<1>2. Row(o).status \in Live BY <1>1 DEF RowSound, Live, OwnerRows
<1>3. q \in AttemptRows /\ Known(q) = Known(books.tried[o])
      /\ Cardinality(Accounted(q)) = acc + 1
  BY <1>1, AttemptRecorded
<1> HIDE DEF q
<1>4. Cardinality(Accounted(q)) <= Cardinality(Known(q)) /\ Cardinality(Known(q)) \in Nat
      /\ acc \in Nat /\ CallCost[o] \in Nat
  BY <1>1, <1>3, AttemptsCount DEF SoundConstants
<1>5. Row(o).settled = CallCost[o] * acc
      /\ CallCost[o] * Cardinality(Known(q)) <= Row(o).est
  BY <1>1, <1>3 DEF RowSound
<1> HIDE DEF acc
<1>6. \A c, m, n \in Nat : m <= n => c * m <= c * n OBVIOUS
<1>7. \A c, m \in Nat : c * (m + 1) = c * m + c /\ c * m \in Nat OBVIOUS
<1>8. CallCost[o] * Cardinality(Accounted(q)) <= CallCost[o] * Cardinality(Known(q))
  BY <1>3, <1>4, <1>6
<1>9. CallCost[o] * Cardinality(Accounted(q)) = Row(o).settled + CallCost[o]
  BY <1>3, <1>4, <1>5, <1>7
<1>10. Row(o).est \in Nat /\ Row(o).settled \in Nat BY <1>1 DEF OwnerRows
<1>11. CallCost[o] * Cardinality(Known(q)) \in Nat BY <1>4, <1>7
<1>12. Row(o).settled + CallCost[o] <= Row(o).est
  BY <1>4, <1>5, <1>8, <1>9, <1>10, <1>11
<1> QED BY <1>2, <1>3, <1>9, <1>12 DEF q

(* Tables that differ from Postgres' in the attempts alone, like those of  *)
(* the double the tests run on.                                            *)
TwinTables(l) ==
  IsBooks(l) /\ l.owned = books.owned /\ l.held = books.held /\ l.events = books.events

(* The tables after recording: the event and the attempt, the unit, the    *)
(* status.                                                                 *)
Paying(l, o, a, e, sum, takes) ==
  IF takes THEN Held(WithUnits(Noted(l, o, a, e, sum), o, Row(o).units - 1),
                     Home[o], Row(o).month, Bucket(Operation[o]),
                     InBucket(books, o, Row(o).month) - 1)
  ELSE Noted(l, o, a, e, sum)
Recorded(l, o, a, e, sum, takes, s) == WithStatus(Paying(l, o, a, e, sum, takes), o, s)

(* What they are.                                                          *)
WritesEvent(k, l, o, a, e, takes) ==
  /\ IsBooks(k) /\ k.events = books.events \cup {e}
  /\ k.tried = [l.tried EXCEPT ![o] = [l.tried[o] EXCEPT ![a] = "accounted"]]
  /\ k.held = IF takes
              THEN CounterWith(books.held, Home[o], Row(o).month, Bucket(Operation[o]),
                     InBucket(books, o, Row(o).month) - 1)
              ELSE books.held
RecordLeaves(k, l, o, a, e, takes) ==
  /\ WritesEvent(k, l, o, a, e, takes)
  /\ k.owned = [books.owned EXCEPT ![o] = PaidRow(Row(o), CallCost[o], takes)]

Charged(r, sum, takes) ==
  IF takes THEN [[r EXCEPT !.settled = sum] EXCEPT !.units = r.units - 1]
  ELSE [r EXCEPT !.settled = sum]

(* The event, the attempt and the unit.                                    *)
LEMMA PayingWrites ==
  ASSUME SoundConstants, LedgerInv, NEW l, TwinTables(l), NEW o \in Owners, NEW a \in Attempts,
         NEW e, Row(o).status # "none", NEW takes \in BOOLEAN, NEW sum
  PROVE /\ WritesEvent(Paying(l, o, a, e, sum, takes), l, o, a, e, takes)
        /\ Paying(l, o, a, e, sum, takes).owned
             = [books.owned EXCEPT ![o] = Charged(Row(o), sum, takes)]
<1> DEFINE w == Noted(l, o, a, e, sum)
           u == WithUnits(w, o, Row(o).units - 1)
           n == InBucket(books, o, Row(o).month) - 1
           c == Bucket(Operation[o])
           h == Held(u, Home[o], Row(o).month, c, n)
           x == [Row(o) EXCEPT !.settled = sum]
           y == [x EXCEPT !.units = Row(o).units - 1]
           k == Paying(l, o, a, e, sum, takes)
<1>1. Row(o) \in OwnerRows /\ books.owned[o] = Row(o) /\ IsBooks(l) /\ books.held \in Counters
      /\ TypeOK /\ books.owned \in [Owners -> OwnerRows]
      /\ l.owned = books.owned /\ l.held = books.held /\ l.events = books.events
  BY RowFound DEF TypeOK, TwinTables
<1>2. IsBooks(w) /\ w.held = books.held /\ w.events = books.events \cup {e}
      /\ w.tried = [l.tried EXCEPT ![o][a] = "accounted"]
      /\ w.owned = [books.owned EXCEPT ![o].settled = sum]
  <2> DEFINE t == [l.tried EXCEPT ![o][a] = "accounted"]
             p == [l.owned EXCEPT ![o].settled = sum]
             v == [owned |-> p, tried |-> t, held |-> l.held, events |-> l.events \cup {e}]
  <2>1. l = [owned |-> l.owned, tried |-> l.tried, held |-> l.held, events |-> l.events]
    BY <1>1 DEF IsBooks
  <2>2. w = [[[l EXCEPT !.events = @ \cup {e}] EXCEPT !.tried[o][a] = "accounted"]
               EXCEPT !.owned[o].settled = sum]
    BY DEF Noted
  <2>3. [l EXCEPT !.events = @ \cup {e}]
          = [owned |-> l.owned, tried |-> l.tried, held |-> l.held, events |-> l.events \cup {e}]
    BY <2>1
  <2>4. w = v BY <2>2, <2>3
  <2>5. IsBooks(v) BY DEF IsBooks
  <2> QED BY <1>1, <2>4, <2>5
<1> HIDE DEF w
<1>3. w.owned = [books.owned EXCEPT ![o] = x] BY <1>1, <1>2
<1>4. w.tried = [l.tried EXCEPT ![o] = [l.tried[o] EXCEPT ![a] = "accounted"]] BY <1>2
<1> HIDE DEF x
<1>5. IsBooks(u) /\ u.tried = w.tried /\ u.events = w.events /\ u.held = w.held
      /\ u.owned = [books.owned EXCEPT ![o] = y]
  BY <1>1, <1>2, <1>3, UnitsWritten
<1> HIDE DEF u, y
<1>6. IsBooks(h) /\ h.owned = u.owned /\ h.tried = u.tried /\ h.events = u.events
      /\ h.held = CounterWith(u.held, Home[o], Row(o).month, c, n)
  <2>1. Home[o] \in Workspaces /\ c \in Buckets /\ Row(o).month \in 1..LastMonth /\ n \in Int
    BY <1>1, BucketOf DEF LedgerInv
  <2>2. u.held \in Counters BY <1>1, <1>2, <1>5
  <2> HIDE DEF c, n
  <2> QED BY <1>5, <2>1, <2>2, HeldLeaves
<1>7. k = IF takes THEN h ELSE w BY DEF Paying, h, u, w, c, n
<1> HIDE DEF h, c, n, k
<1>8. WritesEvent(k, l, o, a, e, takes)
  BY <1>2, <1>4, <1>5, <1>6, <1>7 DEF WritesEvent, c, n
<1>9. k.owned = [books.owned EXCEPT ![o] = IF takes THEN y ELSE x]
  BY <1>3, <1>5, <1>6, <1>7
<1>10. (IF takes THEN y ELSE x) = Charged(Row(o), sum, takes) BY DEF Charged, x, y
<1> QED BY <1>8, <1>9, <1>10 DEF k

(* The tables that recording leaves.                                       *)
LEMMA RecordWrites ==
  ASSUME SoundConstants, LedgerInv, NEW l, TwinTables(l), NEW o \in Owners, NEW a \in Attempts,
         NEW e, Row(o).status # "none",
         NEW takes \in BOOLEAN, NEW sum, sum = Row(o).settled + CallCost[o], NEW s,
         s = (IF takes /\ Row(o).units = 1 THEN "consumed" ELSE Row(o).status),
         NEW k, k = Recorded(l, o, a, e, sum, takes, s)
  PROVE RecordLeaves(k, l, o, a, e, takes)
<1> DEFINE z == Charged(Row(o), sum, takes)
           p == Paying(l, o, a, e, sum, takes)
<1>1. Row(o) \in OwnerRows /\ books.owned \in [Owners -> OwnerRows] BY RowFound DEF TypeOK, LedgerInv
<1>2. WritesEvent(p, l, o, a, e, takes) /\ p.owned = [books.owned EXCEPT ![o] = z]
  BY PayingWrites
<1>3. k = WithStatus(p, o, s) BY DEF Recorded
<1>4. [z EXCEPT !.status = s] = PaidRow(Row(o), CallCost[o], takes)
  BY <1>1 DEF PaidRow, Charged, OwnerRows
<1> HIDE DEF p, z
<1>5. IsBooks(k) /\ k.tried = p.tried /\ k.events = p.events /\ k.held = p.held
      /\ k.owned = [books.owned EXCEPT ![o] = [z EXCEPT !.status = s]]
  BY <1>1, <1>2, <1>3, StatusWritten DEF WritesEvent
<1> QED BY <1>2, <1>4, <1>5 DEF RecordLeaves, WritesEvent

(* record_owned_event.                                                     *)
LEMMA RecordKeeps ==
  ASSUME SoundConstants, LedgerInv, NEW o \in Owners, NEW a \in Attempts, RecordEvent(o, a)
  PROVE LedgerInv' \/ UNCHANGED ledgerVars
<1> DEFINE e == [owner |-> o, key |-> Key[o][a], ws |-> Home[o], op |-> Operation[o],
                 month |-> month, cost |-> CallCost[o], promised |-> Row(o).month = month]
           takes == Row(o).units > 0 /\ ("postgres" = "postgres" => Row(o).status = "reserved")
           sum == IF "postgres" = "postgres" /\ Row(o).settled + CallCost[o] > Row(o).est
                  THEN Row(o).est ELSE Row(o).settled + CallCost[o]
           paid == IF takes
                   THEN Held(WithUnits(Noted(books, o, a, e, sum), o, Row(o).units - 1),
                             Home[o], Row(o).month, Bucket(Operation[o]),
                             InBucket(books, o, Row(o).month) - 1)
                   ELSE Noted(books, o, a, e, sum)
           s == IF "postgres" = "memory"
                THEN IF paid.owned[o].units = 0 THEN "consumed" ELSE "reserved"
                ELSE IF takes /\ Row(o).units - 1 = 0 THEN "consumed" ELSE Row(o).status
           k == WithStatus(paid, o, s)
<1>1. month' = month /\ granted' = granted /\ loose' = loose /\ stray' = stray
  BY DEF RecordEvent, Kept
<1>2. CASE books' = books BY <1>1, <1>2 DEF ledgerVars
<1>3. CASE /\ Row(o).status \notin {"none", "cancelled"} /\ e \notin books.events
           /\ books.tried[o][a] = "authorized" /\ books' = k
  <2> DEFINE r == PaidRow(Row(o), CallCost[o], takes)
             q == [books.tried[o] EXCEPT ![a] = "accounted"]
             n == IF takes THEN CounterWith(books.held, Home[o], Row(o).month,
                                  Bucket(Operation[o]), InBucket(books, o, Row(o).month) - 1)
                  ELSE books.held
             events == books.events \cup {e}
  <2>1. Row(o) \in OwnerRows /\ books.owned[o] = Row(o) /\ books.tried[o] \in AttemptRows
        /\ RowSound(o, Row(o), books.tried[o], Paid(books.events, o), month)
        /\ EventsOK(books.events, month) /\ month \in Nat /\ month \in 1..LastMonth
    BY RowFound
  <2>2. /\ Row(o).status \in Live /\ Row(o).settled + CallCost[o] <= Row(o).est
        /\ q \in AttemptRows /\ Known(q) = Known(books.tried[o])
        /\ CallCost[o] * Cardinality(Accounted(q)) = Row(o).settled + CallCost[o]
    BY <1>3, OpenFits
  <2>3. CallCost[o] \in Nat BY DEF SoundConstants
  <2>4. sum = Row(o).settled + CallCost[o] BY <2>1, <2>2, <2>3 DEF OwnerRows
  <2>5. takes \in BOOLEAN /\ (takes <=> Row(o).status = "reserved")
        /\ (Row(o).status = "reserved" <=> Row(o).units > 0)
    BY <2>1 DEF RowSound
  <2>6. s = (IF takes /\ Row(o).units = 1 THEN "consumed" ELSE Row(o).status)
    BY <2>1 DEF OwnerRows
  <2>7. e.cost = CallCost[o] /\ e.month = month /\ e.ws = Home[o] /\ e.owner = o
        /\ (e.promised <=> Row(o).month = month)
    OBVIOUS
  <2>8. \A b \in Attempts : q[b] = IF b = a THEN "accounted" ELSE books.tried[o][b]
    BY <2>1 DEF AttemptRows
  <2>16. k = Recorded(books, o, a, e, sum, takes, s) BY DEF Recorded, Paying
  <2>18. TwinTables(books) BY DEF TwinTables, LedgerInv, TypeOK
  <2>17. e.key = Key[o][a] OBVIOUS
  <2> HIDE DEF takes, sum, s, e, k
  <2>9. IsBooks(k) /\ k.events = events /\ k.tried = [books.tried EXCEPT ![o] = q]
        /\ k.owned = [books.owned EXCEPT ![o] = r] /\ k.held = n
    <3> HIDE DEF r, q, n
    <3>1. Row(o).status # "none" BY <1>3
    <3>2. RecordLeaves(k, books, o, a, e, takes)
      BY <2>4, <2>5, <2>6, <2>16, <2>18, <3>1, RecordWrites
    <3> QED BY <3>2 DEF RecordLeaves, WritesEvent, r, q, n
  <2> HIDE DEF q
  <2>10. /\ r \in OwnerRows /\ r.month = Row(o).month /\ r.est = Row(o).est
         /\ r.settled = Row(o).settled + CallCost[o] /\ r.status \in Live
         /\ r.status = "reserved" <=> r.units > 0
         /\ \A w, b, m : Takes(o, r, w, b, m) = Takes(o, Row(o), w, b, m)
              - IF takes /\ Home[o] = w /\ Bucket(Operation[o]) = b /\ Row(o).month = m
                THEN 1 ELSE 0
         /\ Owes(r, month) = Owes(Row(o), month) - IF Row(o).month = month
                                                   THEN CallCost[o] ELSE 0
    BY <2>1, <2>2, <2>3, <2>5, PaidRowFits
  <2> HIDE DEF r
  <2>11. n \in Counters /\ CountersMove(o, r, n)
    BY <1>3, <2>5, <2>10, UnitTaken
  <2>12. MoneyMoves(o, r, events) BY <1>3, <2>3, <2>7, <2>10, EventPaysPromise
  <2>13. /\ EventsOK(events, month)
         /\ \A p \in Owners \ {o} : Paid(events, p) = Paid(books.events, p)
         /\ Paid(events, o) = Paid(books.events, o) + CallCost[o]
         /\ books.events \subseteq events /\ Noticed(o, q, events)
    <3>1. e.cost \in Nat /\ e.month \in 1..month BY <2>1, <2>3, <2>7
    <3>2. EventsOK(events, month) BY <2>1, <3>1, EventFits
    <3>3. \A p : o # p => Paid(events, p) = Paid(books.events, p)
      BY <2>1, <2>7, <3>1, EventPays
    <3>4. Paid(events, o) = Paid(books.events, o) + CallCost[o]
      BY <1>3, <2>1, <2>7, <3>1, EventPays
    <3>5. Noticed(o, books.tried[o], books.events) BY DEF LedgerInv, EventsSound
    <3>6. Noticed(o, q, events) BY <2>7, <2>8, <2>17, <3>5 DEF Noticed, Accounted
    <3> QED BY <3>2, <3>3, <3>4, <3>6
  <2> HIDE DEF n, events
  <2>14. OwnerStep(o, r, q, n, events) BY <1>1, <1>3, <2>9 DEF OwnerStep
  <2>15. RowSound(o, r, q, Paid(events, o), month)
    BY <2>1, <2>2, <2>3, <2>8, <2>10, <2>13 DEF RowSound, Live
  <2> QED BY <2>2, <2>10, <2>11, <2>12, <2>13, <2>14, <2>15, OwnerStepKeeps
<1>4. (\E d \in books.events : d.owner = o /\ d.key = Key[o][a]) \/ e \notin books.events
  OBVIOUS
<1> HIDE DEF e
<1> DEFINE seen == \E d \in books.events : d.owner = o /\ d.key = Key[o][a]
           closed == \/ books.tried[o][a] = "none"
                     \/ "postgres" = "postgres" /\ books.tried[o][a] # "authorized"
           rec == Record("postgres", books, o, Key[o][a], a)
<1>5. rec = IF Row(o).status \in {"none", "cancelled"} THEN Answer(FALSE, books)
            ELSE IF seen THEN Answer(TRUE, books)
            ELSE IF closed THEN Answer(FALSE, books)
            ELSE Answer(TRUE, k)
  BY DEF Record, Row, e, Noted, WithUnits, WithStatus
<1>6. books' = rec.l BY DEF RecordEvent, Becomes
<1> HIDE DEF k, rec
<1>7. \/ books' = books
      \/ /\ Row(o).status \notin {"none", "cancelled"} /\ books.tried[o][a] = "authorized"
         /\ ~seen /\ books' = k
  BY <1>5, <1>6 DEF Answer
<1> QED BY <1>2, <1>3, <1>4, <1>7

(* readmit_owned.                                                          *)
LEMMA ReadmitKeeps ==
  ASSUME SoundConstants, LedgerInv, NEW o \in Owners, ReadmitOwned(o)
  PROVE LedgerInv' \/ UNCHANGED ledgerVars
<1> DEFINE b == Bucket(Operation[o])
           w == Home[o]
           left == Positive(InBucket(books, o, Row(o).month) - Row(o).units)
           here == InBucket(books, o, month) + Row(o).units
           f == Held(books, w, Row(o).month, b, left)
           g == Held(f, w, month, b, here)
           moved == IF Row(o).status = "reserved" THEN g ELSE books
           k == [moved EXCEPT !.owned[o].month = month]
           r == [Row(o) EXCEPT !.month = month]
           q == books.tried[o]
           h == CounterWith(books.held, w, Row(o).month, b, left)
           n == IF Row(o).status = "reserved" THEN CounterWith(h, w, month, b, here)
                ELSE books.held
<1>1. month' = month /\ granted' = granted /\ loose' = loose /\ stray' = stray
  BY DEF ReadmitOwned, Kept
<1>2. CASE books' = books BY <1>1, <1>2 DEF ledgerVars
<1>3. CASE /\ Row(o).status \in Live /\ Row(o).month # month
           /\ Affordable(books, Home[o], Residual(books, o)) /\ books' = k
  <2>1. Row(o) \in OwnerRows /\ books.owned[o] = Row(o) /\ books.tried[o] \in AttemptRows
        /\ RowSound(o, Row(o), books.tried[o], Paid(books.events, o), month)
        /\ EventsOK(books.events, month) /\ month \in 1..LastMonth
        /\ IsBooks(books) /\ books.held \in Counters /\ TypeOK /\ RowsSound
        /\ books.owned \in [Owners -> OwnerRows]
    BY RowFound DEF TypeOK
  <2>2. w \in Workspaces /\ b \in Buckets /\ Row(o).month \in 1..LastMonth /\ left \in Int
        /\ here \in Int /\ Row(o).month <= month
    BY <1>3, <2>1, BucketOf DEF Positive, OwnerRows, Live
  <2>3. r \in OwnerRows /\ r.month = month /\ r.status = Row(o).status /\ r.est = Row(o).est
        /\ r.settled = Row(o).settled /\ r.units = Row(o).units
    BY <2>1 DEF OwnerRows
  <2>4. here = books.held[w][month][b] + Row(o).units BY DEF InBucket
  <2>5. \A v, c : Takes(o, Row(o), v, c, month) = 0
                  /\ Takes(o, r, v, c, month)
                       = IF v = w /\ c = b /\ Row(o).status = "reserved" THEN Row(o).units ELSE 0
    BY <1>3, <2>3 DEF Takes
  <2>6. Owes(Row(o), month) = 0 /\ Owes(r, month) = Residual(books, o)
    BY <1>3, <2>1, <2>3 DEF Owes, Residual, Live
  <2> HIDE DEF left, here, w, b, r
  <2>7. /\ IsBooks(moved) /\ moved.owned = books.owned /\ moved.tried = books.tried
        /\ moved.events = books.events /\ moved.held = n
    <3>1. IsBooks(f) /\ f.owned = books.owned /\ f.tried = books.tried /\ f.events = books.events
          /\ f.held = h
      BY <2>1, <2>2, HeldLeaves
    <3>2. h \in Counters BY <2>1, <2>2, CounterChanges
    <3> HIDE DEF f, h
    <3>3. IsBooks(g) /\ g.owned = f.owned /\ g.tried = f.tried /\ g.events = f.events
          /\ g.held = CounterWith(f.held, w, month, b, here)
      BY <2>1, <2>2, <3>1, <3>2, HeldLeaves
    <3> HIDE DEF g
    <3> QED BY <2>1, <3>1, <3>3
  <2> HIDE DEF moved
  <2>8. IsBooks(books') /\ books'.owned = [books.owned EXCEPT ![o].month = month]
        /\ books'.tried = books.tried /\ books'.events = books.events /\ books'.held = n
    BY <1>3, <2>7 DEF IsBooks
  <2>9. books'.owned = [books.owned EXCEPT ![o] = r] BY <2>1, <2>8 DEF r
  <2>10. books'.tried = [books.tried EXCEPT ![o] = q] BY <2>1, <2>8 DEF TypeOK
  <2>11. \A v \in Workspaces, m \in 1..LastMonth, c \in Buckets :
           /\ books.held[v][m][c] \in Int
           /\ m >= month => n[v][m][c] = books.held[v][m][c]
                + IF v = w /\ m = month /\ c = b /\ Row(o).status = "reserved"
                  THEN Row(o).units ELSE 0
    <3> SUFFICES ASSUME NEW v \in Workspaces, NEW m \in 1..LastMonth, NEW c \in Buckets
                 PROVE /\ books.held[v][m][c] \in Int
                       /\ m >= month => n[v][m][c] = books.held[v][m][c]
                            + IF v = w /\ m = month /\ c = b /\ Row(o).status = "reserved"
                              THEN Row(o).units ELSE 0
      OBVIOUS
    <3>1. books.held[v][m][c] \in Int BY <2>1, CounterIsInt
    <3>2. h \in Counters BY <2>1, <2>2, CounterChanges
    <3>3. h[v][m][c] = IF v = w /\ m = Row(o).month /\ c = b THEN left ELSE books.held[v][m][c]
      BY <2>1, <2>2, CounterReads
    <3> HIDE DEF h
    <3>4. CounterWith(h, w, month, b, here)[v][m][c]
            = IF v = w /\ m = month /\ c = b THEN here ELSE h[v][m][c]
      BY <2>1, <2>2, <3>2, CounterReads
    <3>5. Row(o).month < month BY <1>3, <2>1, <2>2
    <3> QED BY <2>1, <2>2, <2>4, <3>1, <3>3, <3>4, <3>5
  <2>18. \A v \in Workspaces, m \in 1..LastMonth, c \in Buckets :
           m < month =>
             n[v][m][c] = IF v = w /\ c = b /\ m = Row(o).month /\ Row(o).status = "reserved"
                          THEN left ELSE books.held[v][m][c]
    <3> SUFFICES ASSUME NEW v \in Workspaces, NEW m \in 1..LastMonth, NEW c \in Buckets, m < month
                 PROVE n[v][m][c] = IF v = w /\ c = b /\ m = Row(o).month
                                         /\ Row(o).status = "reserved"
                                    THEN left ELSE books.held[v][m][c]
      OBVIOUS
    <3>1. h \in Counters BY <2>1, <2>2, CounterChanges
    <3>2. h[v][m][c] = IF v = w /\ m = Row(o).month /\ c = b THEN left ELSE books.held[v][m][c]
      BY <2>1, <2>2, CounterReads
    <3> HIDE DEF h
    <3>3. CounterWith(h, w, month, b, here)[v][m][c]
            = IF v = w /\ m = month /\ c = b THEN here ELSE h[v][m][c]
      BY <2>1, <2>2, <3>1, CounterReads
    <3> QED BY <2>1, <3>2, <3>3
  <2>12. n \in Counters
    <3>1. h \in Counters BY <2>1, <2>2, CounterChanges
    <3> HIDE DEF h
    <3> QED BY <2>1, <2>2, <3>1, CounterChanges
  <2> HIDE DEF n, q, k
  <2>13. CountersMove(o, r, n)
    <3>1. \A v \in Workspaces, m \in 1..LastMonth, c \in Buckets :
            m > month => n[v][m][c] = books.held[v][m][c]
      BY <2>1, <2>11
    <3>2. ASSUME NEW v \in Workspaces, NEW c \in Buckets
          PROVE n[v][month][c] = books.held[v][month][c]
                  - Takes(o, books.owned[o], v, c, month) + Takes(o, r, v, c, month)
      <4>1. Row(o).units \in Nat BY <2>1 DEF OwnerRows
      <4>2. books.held[v][month][c] \in Int
            /\ n[v][month][c] = books.held[v][month][c]
                 + IF v = w /\ c = b /\ Row(o).status = "reserved" THEN Row(o).units ELSE 0
        BY <2>1, <2>11
      <4>3. Takes(o, books.owned[o], v, c, month) = 0
            /\ Takes(o, r, v, c, month)
                 = IF v = w /\ c = b /\ Row(o).status = "reserved" THEN Row(o).units ELSE 0
        BY <2>1, <2>5
      <4> QED BY <4>1, <4>2, <4>3
    <3>3. ASSUME NEW v \in Workspaces, NEW m \in 1..LastMonth, NEW c \in Buckets, m < month
          PROVE n[v][m][c] >= books.held[v][m][c]
                  - Takes(o, books.owned[o], v, c, m) + Takes(o, r, v, c, m)
      <4>1. Takes(o, r, v, c, m) = 0 BY <2>1, <2>3, <3>3 DEF Takes
      <4>2. Row(o).units \in Nat /\ books.held[v][m][c] \in Int BY <2>1, <2>11 DEF OwnerRows
      <4>3. Takes(o, books.owned[o], v, c, m)
              = IF v = w /\ c = b /\ m = Row(o).month /\ Row(o).status = "reserved"
                THEN Row(o).units ELSE 0
        BY <2>1 DEF Takes, w, b
      <4>4. /\ n[v][m][c] \in Int
            /\ n[v][m][c] = IF v = w /\ c = b /\ m = Row(o).month /\ Row(o).status = "reserved"
                            THEN left ELSE books.held[v][m][c]
        BY <2>1, <2>2, <2>18, <3>3, <4>2
      <4>5. left >= books.held[w][Row(o).month][b] - Row(o).units
        <5>1. books.held[w][Row(o).month][b] \in Int BY <2>2, <2>11
        <5> QED BY <4>2, <5>1 DEF left, Positive, InBucket, w, b
      <4> QED BY <4>1, <4>2, <4>3, <4>4, <4>5
    <3> QED BY <3>1, <3>2, <3>3 DEF CountersMove, PastMoves
  <2>14. MoneyMoves(o, r, books.events)
    <3>1. Residual(books, o) \in Int BY <2>1 DEF Residual, Positive, OwnerRows
    <3>2. Owes(r, month) - Owes(books.owned[o], month) = Residual(books, o)
      BY <2>1, <2>6, <3>1
    <3> QED BY <1>3, <3>2 DEF MoneyMoves
  <2>15. RowSound(o, r, q, Paid(books.events, o), month)
    BY <2>1, <2>3 DEF RowSound, q
  <2>16. OwnerStep(o, r, q, n, books.events) BY <1>1, <2>8, <2>9, <2>10 DEF OwnerStep
  <2>17. q \in AttemptRows /\ Noticed(o, q, books.events)
    BY <2>1 DEF q, LedgerInv, EventsSound
  <2> QED BY <2>1, <2>3, <2>12, <2>13, <2>14, <2>15, <2>16, <2>17, OwnerStepKeeps
<1> QED BY <1>2, <1>3 DEF ReadmitOwned, Becomes, Readmit, Answer, Row

-----------------------------------------------------------------------------
(* The calls without an owner, and the calendar.                           *)

(* A step that leaves the owners alone and books at most a call nobody     *)
(* reserved.                                                               *)
CallStep(n, ev) ==
  /\ IsBooks(books')
  /\ books'.owned = books.owned /\ books'.tried = books.tried
  /\ books'.held = n /\ books'.events = ev
  /\ month' = month

(* It leaves the rows and the budgets as they are.                         *)
LEMMA CallStepKeeps ==
  ASSUME SoundConstants, LedgerInv, NEW n \in Counters, NEW ev, CallStep(n, ev),
         \/ ev = books.events
         \/ \E e : ev = books.events \cup {e} /\ e.cost \in Nat /\ e.month = month
                   /\ ~e.promised /\ e.owner = Nobody,
         \A w \in Workspaces, m \in 1..LastMonth, b \in Buckets :
           m # month => n[w][m][b] = books.held[w][m][b],
         loose' \in [Workspaces -> [Buckets -> Nat]], stray' \in BOOLEAN,
         ~stray' => ~stray,
         ~stray' => \A w \in Workspaces, b \in Buckets :
           n[w][month][b] = loose'[w][b] + Taken(books.owned, w, b, month)
  PROVE LedgerInv'
<1>1. month \in Nat /\ month \in 1..LastMonth /\ TypeOK /\ EventsOK(books.events, month)
      /\ RowsSound /\ FutureIsFree /\ MoneySound
  BY DEF LedgerInv, TypeOK
<1>2. /\ EventsOK(ev, month)
      /\ \A ws : Spent(ev, ws, month) = Spent(books.events, ws, month)
      /\ \A o \in Owners : Paid(ev, o) = Paid(books.events, o)
  <2>1. CASE ev = books.events BY <1>1, <2>1
  <2>2. ASSUME NEW e, ev = books.events \cup {e}, e.cost \in Nat, e.month = month,
               ~e.promised, e.owner = Nobody
        PROVE /\ EventsOK(ev, month)
              /\ \A ws : Spent(ev, ws, month) = Spent(books.events, ws, month)
              /\ \A o \in Owners : Paid(ev, o) = Paid(books.events, o)
    <3>1. e.month \in 1..month BY <1>1, <2>2
    <3>2. EventsOK(ev, month) BY <1>1, <2>2, <3>1, EventFits
    <3> DEFINE events == books.events
    <3>3. EventsOK(events, month) /\ e.cost \in Nat /\ e.month \in 1..month /\ month \in Nat
          /\ (e \notin events \/ ~e.promised)
      BY <1>1, <2>2, <3>1
    <3> HIDE DEF events
    <3>4. \A ws : Spent(events \cup {e}, ws, month)
            = Spent(events, ws, month)
                + IF e.ws \in ws /\ e.month = month /\ e.promised THEN e.cost ELSE 0
      BY ONLY <3>3, EventCounts
    <3>5. \A ws : Spent(events, ws, month) \in Nat BY <3>3, SpentIsBooked
    <3>6. ASSUME NEW ws PROVE Spent(ev, ws, month) = Spent(books.events, ws, month)
      <4>1. Spent(events \cup {e}, ws, month) = Spent(events, ws, month) + 0 BY <2>2, <3>4
      <4>2. Spent(events, ws, month) \in Nat BY <3>5
      <4>3. Spent(events \cup {e}, ws, month) = Spent(events, ws, month) BY <4>1, <4>2
      <4> QED BY <2>2, <4>3 DEF events
    <3>7. \A o : e.owner # o => Paid(events \cup {e}, o) = Paid(events, o) BY <3>3, EventPays
    <3>8. \A o \in Owners : e.owner # o BY <2>2 DEF SoundConstants
    <3> QED BY <2>2, <3>2, <3>6, <3>7, <3>8 DEF events
  <2> QED BY <2>1, <2>2
<1>3. TypeOK' BY <1>1, <1>2 DEF TypeOK, CallStep
<1>4. RowsSound'
  <2> SUFFICES ASSUME NEW o \in Owners
               PROVE RowSound(o, books'.owned[o], books'.tried[o], Paid(books'.events, o), month')
    BY DEF RowsSound
  <2>1. RowSound(o, books.owned[o], books.tried[o], Paid(books.events, o), month)
    BY <1>1 DEF RowsSound
  <2>2. Paid(books'.events, o) = Paid(books.events, o) BY <1>2 DEF CallStep
  <2> QED BY <2>1, <2>2 DEF CallStep
<1>5. FutureIsFree' BY <1>1 DEF FutureIsFree, CallStep
<1>6. CountersSound' BY DEF CountersSound, CallStep
<1>7. MoneySound'
  <2>1. \A ws, limit : Fits(ws, limit) => Fits(ws, limit)' BY <1>2 DEF Fits, CallStep
  <2> QED BY <1>1, <2>1 DEF MoneySound
<1>8. PastCovered'
  <2> SUFFICES ASSUME ~stray', NEW w \in Workspaces, NEW m \in 1..LastMonth, NEW b \in Buckets,
                      m < month
               PROVE Taken(books.owned, w, b, m) <= n[w][m][b]
    BY DEF PastCovered, CallStep
  <2>1. Taken(books.owned, w, b, m) <= books.held[w][m][b] BY DEF LedgerInv, PastCovered
  <2> QED BY <1>1, <2>1
<1>9. EventsSound'
  <2>1. books.events \subseteq ev OBVIOUS
  <2> QED BY <2>1 DEF EventsSound, Noticed, LedgerInv, CallStep
<1> QED BY <1>3, <1>4, <1>5, <1>6, <1>7, <1>8, <1>9 DEF LedgerInv

(* The number of reserved units is a number.                               *)
LEMMA TakenIsNat ==
  ASSUME SoundConstants, NEW owned \in [Owners -> OwnerRows], NEW w, NEW b, NEW m
  PROVE Taken(owned, w, b, m) \in Nat
<1> DEFINE f == [p \in Owners |-> Takes(p, owned[p], w, b, m)]
<1>1. \A p \in Owners : f[p] \in Nat BY DEF Takes, OwnerRows
<1>2. Taken(owned, w, b, m) = SumFunctionOnSet(f, Owners) BY DEF Taken
<1> HIDE DEF f
<1> QED BY <1>1, <1>2, SumNatural DEF SoundConstants

(* check_quota and try_reserve_quota.                                      *)
LEMMA CheckQuotaKeeps ==
  ASSUME SoundConstants, LedgerInv, NEW w \in Workspaces, NEW op \in UnownedOperations,
         CheckQuota(w, op)
  PROVE LedgerInv'
<1> DEFINE b == Bucket(op)
           here == books.held[w][month][b] + 1
           k == Held(books, w, month, b, here)
           n == CounterWith(books.held, w, month, b, here)
<1>1. IsBooks(books) /\ books.held \in Counters /\ month \in 1..LastMonth
      /\ loose \in [Workspaces -> [Buckets -> Nat]] /\ stray \in BOOLEAN
      /\ books.owned \in [Owners -> OwnerRows] /\ CountersSound
  BY DEF LedgerInv, TypeOK
<1>2. month' = month /\ stray' = stray BY DEF CheckQuota
<1>3. b \in Buckets BY DEF SoundConstants
<1>4. CASE books' = books /\ loose' = loose
  <2>1. CallStep(books.held, books.events) BY <1>1, <1>2, <1>4 DEF CallStep
  <2> QED BY <1>1, <1>2, <1>4, <2>1, CallStepKeeps DEF CountersSound
<1>5. CASE books' = k /\ loose' = [loose EXCEPT ![w][b] = @ + 1]
  <2> HIDE DEF b
  <2>1. here \in Int BY <1>1, <1>3, CounterIsInt
  <2> HIDE DEF here
  <2>2. IsBooks(k) /\ k.owned = books.owned /\ k.tried = books.tried /\ k.events = books.events
        /\ k.held = n
    BY <1>1, <1>3, <2>1, HeldLeaves
  <2>3. n \in Counters BY <1>1, <1>3, <2>1, CounterChanges
  <2> HIDE DEF k
  <2>4. CallStep(n, books.events) BY <1>2, <1>5, <2>2 DEF CallStep
  <2>5. \A v \in Workspaces, m \in 1..LastMonth, c \in Buckets :
          n[v][m][c] = IF v = w /\ m = month /\ c = b THEN here ELSE books.held[v][m][c]
    BY <1>1, <1>3, <2>1, CounterReads
  <2> HIDE DEF n
  <2>6. loose' \in [Workspaces -> [Buckets -> Nat]]
        /\ \A v \in Workspaces, c \in Buckets :
             loose'[v][c] = IF v = w /\ c = b THEN loose[v][c] + 1 ELSE loose[v][c]
    BY <1>1, <1>3, <1>5
  <2>7. ASSUME ~stray, NEW v \in Workspaces, NEW c \in Buckets
        PROVE n[v][month][c] = loose'[v][c] + Taken(books.owned, v, c, month)
    <3>1. books.held[v][month][c] = loose[v][c] + Taken(books.owned, v, c, month)
      BY <1>1, <2>7 DEF CountersSound
    <3>2. loose[v][c] \in Nat BY <1>1
    <3>3. n[v][month][c] = IF v = w /\ c = b THEN here ELSE books.held[v][month][c]
      BY <1>1, <2>5
    <3>4. Taken(books.owned, v, c, month) \in Nat BY <1>1, TakenIsNat
    <3>5. loose'[v][c] = IF v = w /\ c = b THEN loose[v][c] + 1 ELSE loose[v][c] BY <2>6
    <3> QED BY <3>1, <3>2, <3>3, <3>4, <3>5 DEF here
  <2>8. \A v \in Workspaces, m \in 1..LastMonth, c \in Buckets :
          m # month => n[v][m][c] = books.held[v][m][c]
    BY <1>1, <2>5
  <2> QED BY <1>1, <1>2, <2>3, <2>4, <2>6, <2>7, <2>8, CallStepKeeps
<1> QED BY <1>4, <1>5 DEF CheckQuota, ReserveUnowned, Becomes, Answer

(* A counter that is right is at least the number of reserved owners and   *)
(* of unowned reservations: the floor of _decrement_reservation is no      *)
(* obstacle.                                                               *)
LEMMA FloorIsBelow ==
  ASSUME SoundConstants, LedgerInv, NEW w \in Workspaces, NEW b \in Buckets, ~stray
  PROVE /\ ReservedOwners(books, w, b) \in Nat
        /\ ReservedOwners(books, w, b) + loose[w][b] <= books.held[w][month][b]
<1> DEFINE S == {o \in Owners : Home[o] = w /\ Bucket(Operation[o]) = b
                               /\ books.owned[o].month = month
                               /\ books.owned[o].status = "reserved"}
           f == [o \in Owners |-> books.owned[o].units]
<1>1. books.owned \in [Owners -> OwnerRows] /\ month \in 0..LastMonth /\ RowsSound
      /\ CountersSound /\ loose[w][b] \in Nat
  BY DEF LedgerInv, TypeOK
<1>2. SumFunctionOnSet(f, S) = Taken(books.owned, w, b, month) BY <1>1, TakenIsReserved
<1>3. \A o \in S : f[o] \in Nat /\ f[o] >= 1
  <2> SUFFICES ASSUME NEW o \in S PROVE f[o] \in Nat /\ f[o] >= 1 OBVIOUS
  <2>1. RowSound(o, books.owned[o], books.tried[o], Paid(books.events, o), month)
    BY <1>1 DEF RowsSound
  <2>2. books.owned[o].units > 0 BY <2>1 DEF RowSound
  <2> QED BY <1>1, <2>2 DEF OwnerRows
<1>4. S \subseteq Owners OBVIOUS
<1>5. ReservedOwners(books, w, b) = Cardinality(S) BY DEF ReservedOwners
<1> HIDE DEF S, f
<1>6. IsFiniteSet(S) BY <1>4, FS_Subset DEF SoundConstants
<1>7. Cardinality(S) \in Nat BY <1>6, FS_CardinalityType
<1>8. Cardinality(S) <= SumFunctionOnSet(f, S) BY <1>3, <1>6, SumCounts
<1>9. books.held[w][month][b] = loose[w][b] + Taken(books.owned, w, b, month)
  BY <1>1 DEF CountersSound
<1>10. Taken(books.owned, w, b, month) \in Nat BY <1>1, TakenIsNat
<1> QED BY <1>1, <1>2, <1>5, <1>7, <1>8, <1>9, <1>10

(* _decrement_reservation, of the tables or of the tables with an event    *)
(* more.                                                                   *)
LEMMA GiveBackKeeps ==
  ASSUME SoundConstants, LedgerInv, NEW w \in Workspaces, NEW op \in UnownedOperations,
         NEW l, IsBooks(l), l.owned = books.owned, l.tried = books.tried, l.held = books.held,
         \/ l.events = books.events
         \/ \E e : l.events = books.events \cup {e} /\ e.cost \in Nat /\ e.month = month
                   /\ ~e.promised /\ e.owner = Nobody,
         books' = GiveBack("postgres", l, w, op), GivenBack(w, op), month' = month
  PROVE LedgerInv'
<1> DEFINE lowered(b) == books.held[w][month][b] - (IF b = Bucket(op) THEN 1 ELSE 0)
           floored(b) == IF lowered(b) < ReservedOwners(books, w, b)
                         THEN ReservedOwners(books, w, b) ELSE lowered(b)
           row == [b \in Buckets |-> floored(b)]
           n == [books.held EXCEPT ![w][month] = row]
<1>1. IsBooks(books) /\ books.held \in Counters /\ month \in 1..LastMonth
      /\ loose \in [Workspaces -> [Buckets -> Nat]] /\ stray \in BOOLEAN
      /\ books.owned \in [Owners -> OwnerRows] /\ CountersSound
  BY DEF LedgerInv, TypeOK
<1>2. Bucket(op) \in Buckets BY DEF SoundConstants
<1>3. \A b : ReservedOwners(l, w, b) = ReservedOwners(books, w, b) BY DEF ReservedOwners
<1>4. GiveBack("postgres", l, w, op)
        = [l EXCEPT !.held[w][month] = [b \in Buckets |->
             LET low == books.held[w][month][b] - (IF b = Bucket(op) THEN 1 ELSE 0)
             IN  IF low < ReservedOwners(books, w, b) THEN ReservedOwners(books, w, b) ELSE low]]
  BY <1>3 DEF GiveBack
<1>5. IsBooks(books') /\ books'.owned = l.owned /\ books'.tried = l.tried
      /\ books'.events = l.events /\ books'.held = n
  BY <1>4 DEF IsBooks
<1> HIDE DEF row
<1>6. ASSUME NEW b \in Buckets PROVE row[b] = floored(b) /\ row[b] \in Int
  <2>1. row[b] = floored(b) BY DEF row
  <2>2. books.held[w][month][b] \in Int BY <1>1, CounterIsInt
  <2>3. ReservedOwners(books, w, b) \in Int
    <3> DEFINE S == {o \in Owners : Home[o] = w /\ Bucket(Operation[o]) = b
                                   /\ books.owned[o].month = month
                                   /\ books.owned[o].status = "reserved"}
    <3>1. S \subseteq Owners /\ ReservedOwners(books, w, b) = Cardinality(S)
      BY DEF ReservedOwners
    <3> HIDE DEF S
    <3> QED BY <3>1, FS_Subset, FS_CardinalityType DEF SoundConstants
  <2> QED BY <2>1, <2>2, <2>3
<1>7. row \in [Buckets -> Int]
  <2>1. row = [b \in Buckets |-> row[b]] BY DEF row
  <2> QED BY <1>6, <2>1
<1>8. n \in Counters BY <1>1, <1>7 DEF Counters
<1>9. \A v \in Workspaces, m \in 1..LastMonth, c \in Buckets :
        n[v][m][c] = IF v = w /\ m = month THEN row[c] ELSE books.held[v][m][c]
  BY <1>1 DEF Counters
<1> HIDE DEF n
<1>10. loose' \in [Workspaces -> [Buckets -> Nat]] /\ stray' \in BOOLEAN
       /\ (~stray' => ~stray /\ loose[w][Bucket(op)] > 0
                      /\ loose' = [loose EXCEPT ![w][Bucket(op)] = @ - 1])
  <2> DEFINE c == Bucket(op)
             less == [loose EXCEPT ![w][c] = @ - 1]
  <2>1. CASE loose[w][c] > 0
    <3>1. loose' = less /\ stray' = stray BY <2>1 DEF GivenBack
    <3>4. c \in Buckets BY <1>2
    <3> HIDE DEF c
    <3>2. loose[w][c] - 1 \in Nat BY <1>1, <3>4, <2>1
    <3>3. less \in [Workspaces -> [Buckets -> Nat]] BY <1>1, <3>4, <3>2
    <3> QED BY <1>1, <2>1, <3>1, <3>3 DEF c
  <2>2. CASE ~(loose[w][c] > 0)
    <3>1. loose' = loose /\ stray' = TRUE BY <2>2 DEF GivenBack
    <3> QED BY <1>1, <3>1
  <2> QED BY <2>1, <2>2
<1>11. ASSUME ~stray', NEW v \in Workspaces, NEW c \in Buckets
       PROVE n[v][month][c] = loose'[v][c] + Taken(books.owned, v, c, month)
  <2>1. books.held[v][month][c] = loose[v][c] + Taken(books.owned, v, c, month)
    BY <1>1, <1>10, <1>11 DEF CountersSound
  <2>2. loose[v][c] \in Nat BY <1>1
  <2>3. Taken(books.owned, v, c, month) \in Nat BY <1>1, TakenIsNat
  <2>4. loose'[v][c] = IF v = w /\ c = Bucket(op) THEN loose[v][c] - 1 ELSE loose[v][c]
    BY <1>1, <1>2, <1>10, <1>11
  <2>5. CASE v # w BY <1>1, <1>9, <2>1, <2>4, <2>5
  <2>6. CASE v = w
    <3>1. ReservedOwners(books, w, c) \in Nat
          /\ ReservedOwners(books, w, c) + loose[w][c] <= books.held[w][month][c]
      BY <1>10, <1>11, FloorIsBelow
    <3>2. n[v][month][c] = floored(c) BY <1>1, <1>6, <1>9, <2>6
    <3>3. c = Bucket(op) => loose[w][c] > 0 BY <1>10, <1>11
    <3>4. floored(c) = lowered(c) BY <2>1, <2>2, <2>3, <2>6, <3>1, <3>3
    <3> QED BY <2>1, <2>2, <2>3, <2>4, <2>6, <3>2, <3>4
  <2> QED BY <2>5, <2>6
<1>12. \A v \in Workspaces, m \in 1..LastMonth, c \in Buckets :
         m # month => n[v][m][c] = books.held[v][m][c]
  BY <1>1, <1>9
<1>13. CallStep(n, l.events) BY <1>5 DEF CallStep
<1> QED BY <1>8, <1>10, <1>11, <1>12, <1>13, CallStepKeeps

(* Cancelling a call, and recording one.                                   *)
LEMMA CallsKeep ==
  ASSUME SoundConstants, LedgerInv, NEW w \in Workspaces, NEW op \in UnownedOperations,
         CancelUnowned(w, op) \/ RecordCall(w, op)
  PROVE LedgerInv'
<1>1. IsBooks(books) /\ month \in 1..LastMonth BY DEF LedgerInv, TypeOK
<1>2. CASE CancelUnowned(w, op)
  <2>1. books' = GiveBack("postgres", books, w, op) /\ GivenBack(w, op) /\ month' = month
    BY <1>2 DEF CancelUnowned
  <2> QED BY <1>1, <2>1, GiveBackKeeps
<1>3. CASE RecordCall(w, op)
  <2> DEFINE e == [owner |-> Nobody, key |-> Cardinality(UnownedEvents(books)) + 1, ws |-> w,
                   op |-> op, month |-> month, cost |-> 1, promised |-> FALSE]
             l == [books EXCEPT !.events = @ \cup {e}]
  <2>1. books' = GiveBack("postgres", l, w, op) /\ GivenBack(w, op) /\ month' = month
    BY <1>3 DEF RecordCall, RecordUnowned
  <2>2. e.cost \in Nat /\ e.month = month /\ ~e.promised /\ e.owner = Nobody OBVIOUS
  <2> HIDE DEF e
  <2>3. IsBooks(l) /\ l.owned = books.owned /\ l.tried = books.tried /\ l.held = books.held
        /\ l.events = books.events \cup {e}
    BY <1>1 DEF IsBooks
  <2> HIDE DEF l
  <2>4. \E d : l.events = books.events \cup {d} /\ d.cost \in Nat /\ d.month = month
               /\ ~d.promised /\ d.owner = Nobody
    BY <2>2, <2>3
  <2> QED BY <2>1, <2>3, <2>4, GiveBackKeeps
<1> QED BY <1>2, <1>3

(* Nothing is owed, spent or taken in a month to come.                     *)
LEMMA FutureIsClean ==
  ASSUME SoundConstants, LedgerInv, NEW m \in 1..LastMonth, m > month
  PROVE /\ \A ws : Owed(books.owned, ws, m) = 0 /\ Spent(books.events, ws, m) = 0
        /\ \A w, b : Taken(books.owned, w, b, m) = 0
<1>1. \A o \in Owners : books.owned[o].month # m
  <2> SUFFICES ASSUME NEW o \in Owners PROVE books.owned[o].month # m OBVIOUS
  <2>1. Row(o) \in OwnerRows /\ books.owned[o] = Row(o) /\ month \in 1..LastMonth
        /\ RowSound(o, Row(o), books.tried[o], Paid(books.events, o), month)
    BY RowFound
  <2> QED BY <2>1 DEF RowSound, OwnerRows
<1>2. IsFiniteSet(Owners) BY DEF SoundConstants
<1>3. ASSUME NEW ws PROVE Owed(books.owned, ws, m) = 0
  <2> DEFINE f == [o \in Owners |-> Share(o, books.owned[o], ws, m)]
  <2>1. \A o \in Owners : f[o] = 0 BY <1>1 DEF Share, Owes
  <2>2. Owed(books.owned, ws, m) = SumFunctionOnSet(f, Owners) BY DEF Owed
  <2> HIDE DEF f
  <2> QED BY <1>2, <2>1, <2>2, SumZero
<1>4. ASSUME NEW ws PROVE Spent(books.events, ws, m) = 0
  <2> DEFINE S == {e \in books.events : e.ws \in ws /\ e.month = m /\ e.promised}
  <2>1. \A e \in books.events : e.month \in 1..month BY DEF LedgerInv, TypeOK, EventsOK
  <2>2. \A e \in books.events : e.month # m
    <3>1. month \in 1..LastMonth BY DEF LedgerInv, TypeOK
    <3> QED BY <2>1, <3>1
  <2>3. S = {} BY <2>2
  <2>4. Spent(books.events, ws, m) = SumFunctionOnSet(Costs(books.events), S) BY DEF Spent
  <2> HIDE DEF S
  <2> QED BY <2>3, <2>4, SumEmpty
<1>5. ASSUME NEW w, NEW b PROVE Taken(books.owned, w, b, m) = 0
  <2> DEFINE f == [o \in Owners |-> Takes(o, books.owned[o], w, b, m)]
  <2>1. \A o \in Owners : f[o] = 0 BY <1>1 DEF Takes
  <2>2. Taken(books.owned, w, b, m) = SumFunctionOnSet(f, Owners) BY DEF Taken
  <2> HIDE DEF f
  <2> QED BY <1>2, <2>1, <2>2, SumZero
<1> QED BY <1>3, <1>4, <1>5

(* A month ends.                                                           *)
LEMMA MonthKeeps ==
  ASSUME SoundConstants, LedgerInv, MonthEnds
  PROVE LedgerInv'
<1> DEFINE m == month + 1
<1>1. month' = m /\ books' = books /\ stray' = stray
      /\ loose' = [w \in Workspaces |-> [b \in Buckets |-> 0]]
  BY DEF MonthEnds
<1>2. TypeOK /\ RowsSound /\ FutureIsFree /\ month \in 1..LastMonth BY DEF LedgerInv, TypeOK
<1>3. m \in 1..LastMonth /\ m > month
  <2>1. month < LastMonth BY DEF MonthEnds
  <2> QED BY <1>2, <2>1 DEF SoundConstants
<1>4. /\ \A ws : Owed(books.owned, ws, m) = 0 /\ Spent(books.events, ws, m) = 0
      /\ \A w, b : Taken(books.owned, w, b, m) = 0
  BY <1>3, FutureIsClean
<1>5. TypeOK'
  <2>1. EventsOK(books.events, m) BY <1>2 DEF TypeOK, EventsOK
  <2>2. loose' \in [Workspaces -> [Buckets -> Nat]] BY <1>1
  <2> HIDE DEF m
  <2> QED BY <1>1, <1>2, <1>3, <2>1, <2>2 DEF TypeOK
<1>6. RowsSound'
  <2> SUFFICES ASSUME NEW o \in Owners
               PROVE RowSound(o, books.owned[o], books.tried[o], Paid(books.events, o), m)
    BY <1>1 DEF RowsSound
  <2>1. Row(o) \in OwnerRows /\ books.owned[o] = Row(o)
        /\ RowSound(o, Row(o), books.tried[o], Paid(books.events, o), month)
    BY RowFound
  <2> QED BY <1>2, <2>1 DEF RowSound, OwnerRows
<1> HIDE DEF m
<1>7. FutureIsFree' BY <1>1, <1>2, <1>3 DEF FutureIsFree
<1>8. CountersSound'
  <2>1. ASSUME NEW w \in Workspaces, NEW b \in Buckets
        PROVE books.held[w][m][b] = loose'[w][b] + Taken(books.owned, w, b, m)
    <3>1. books.held[w][m][b] = 0 BY <1>2, <1>3 DEF FutureIsFree
    <3>2. loose'[w][b] = 0 BY <1>1
    <3> QED BY <1>4, <3>1, <3>2
  <2> QED BY <1>1, <2>1 DEF CountersSound
<1>9. MoneySound'
  <2>1. \A ws : \A limit \in Nat : Fits(ws, limit)' BY <1>1, <1>4 DEF Fits
  <2> QED BY <2>1 DEF MoneySound, SoundConstants
<1>10. PastCovered'
  <2> SUFFICES ASSUME ~stray, NEW w \in Workspaces, NEW k \in 1..LastMonth, NEW b \in Buckets,
                      k < m
               PROVE Taken(books.owned, w, b, k) <= books.held[w][k][b]
    BY <1>1 DEF PastCovered
  <2>1. k < month \/ k = month BY <1>2 DEF m
  <2>2. k < month => Taken(books.owned, w, b, k) <= books.held[w][k][b]
    BY DEF LedgerInv, PastCovered
  <2>3. books.held[w][month][b] = loose[w][b] + Taken(books.owned, w, b, month)
    BY DEF LedgerInv, CountersSound
  <2>4. loose[w][b] \in Nat /\ books.owned \in [Owners -> OwnerRows] BY <1>2 DEF TypeOK
  <2>5. Taken(books.owned, w, b, month) \in Nat BY <2>4, TakenIsNat
  <2> QED BY <2>1, <2>2, <2>3, <2>4, <2>5
<1>11. EventsSound' BY <1>1 DEF LedgerInv, EventsSound
<1> QED BY <1>5, <1>6, <1>7, <1>8, <1>9, <1>10, <1>11 DEF LedgerInv

-----------------------------------------------------------------------------
(* The theorems.                                                           *)

(* Every step keeps the invariant.                                         *)
LEMMA LedgerStepKeeps ==
  ASSUME SoundConstants, LedgerInv, LedgerNext
  PROVE LedgerInv' \/ UNCHANGED ledgerVars
<1>1. ASSUME NEW o \in Owners, ReserveOwned(o) PROVE LedgerInv' \/ UNCHANGED ledgerVars
  BY <1>1, ReserveKeeps
<1>2. ASSUME NEW o \in Owners, CancelOwned(o) PROVE LedgerInv' \/ UNCHANGED ledgerVars
  BY <1>2, CancelMoves DEF CancelOwned
<1>3. ASSUME NEW o \in Owners, SettleOwned(o) PROVE LedgerInv' \/ UNCHANGED ledgerVars
  BY <1>3, SettleMoves DEF SettleOwned
<1>4. ASSUME NEW o \in Owners, FinalizeRevokedOwned(o)
      PROVE LedgerInv' \/ UNCHANGED ledgerVars
  BY <1>4, FinalizeMoves
<1>5. ASSUME NEW o \in Owners, ReadmitOwned(o) PROVE LedgerInv' \/ UNCHANGED ledgerVars
  BY <1>5, ReadmitKeeps
<1>6. ASSUME NEW o \in Owners, NEW a \in Attempts, AuthorizeAttempt(o, a) \/ RecordEvent(o, a)
      PROVE LedgerInv' \/ UNCHANGED ledgerVars
  BY <1>6, AuthorizeKeeps, RecordKeeps
<1>7. ASSUME NEW w \in Workspaces, NEW op \in UnownedOperations,
             CheckQuota(w, op) \/ CancelUnowned(w, op) \/ RecordCall(w, op)
      PROVE LedgerInv' \/ UNCHANGED ledgerVars
  BY <1>7, CheckQuotaKeeps, CallsKeep
<1>8. ASSUME MonthEnds PROVE LedgerInv' \/ UNCHANGED ledgerVars BY <1>8, MonthKeeps
<1> QED BY <1>1, <1>2, <1>3, <1>4, <1>5, <1>6, <1>7, <1>8 DEF LedgerNext, LedgerStep

(* The empty ledger satisfies it.                                          *)
LEMMA LedgerInitKeeps ==
  ASSUME SoundConstants, LedgerInit
  PROVE LedgerInv
<1> DEFINE row == [status |-> "none", month |-> 0, est |-> 0, settled |-> 0, units |-> 0]
           tried == [a \in Attempts |-> "none"]
<1>1. /\ IsBooks(books) /\ books.owned = [o \in Owners |-> row]
      /\ books.tried = [o \in Owners |-> tried]
      /\ books.held = [w \in Workspaces |-> [m \in 1..LastMonth |-> [b \in Buckets |-> 0]]]
      /\ books.events = {}
      /\ month = 1 /\ stray = FALSE
      /\ loose = [w \in Workspaces |-> [b \in Buckets |-> 0]]
  BY DEF LedgerInit, IsBooks
<1>2. month \in 1..LastMonth BY <1>1 DEF SoundConstants
<1>3. row \in OwnerRows /\ row.month = 0 /\ row.status = "none" /\ row.est = 0
      /\ row.settled = 0 /\ row.units = 0
  BY DEF OwnerRows, SoundConstants
<1>4. tried \in AttemptRows /\ Accounted(tried) = {} /\ Known(tried) = {}
      /\ \A a \in Attempts : tried[a] = "none"
  BY DEF AttemptRows, Accounted, Known
<1> HIDE DEF row, tried
<1>5. TypeOK
  <2>1. EventsOK({}, month) BY FS_EmptySet DEF EventsOK
  <2>2. books.owned \in [Owners -> OwnerRows] BY <1>1, <1>3
  <2>3. books.tried \in [Owners -> AttemptRows] BY <1>1, <1>4
  <2>4. books.held \in Counters BY <1>1 DEF Counters
  <2>5. loose \in [Workspaces -> [Buckets -> Nat]] /\ stray \in BOOLEAN BY <1>1
  <2>6. EventsOK(books.events, month) BY <1>1, <2>1
  <2> QED BY <1>1, <1>2, <2>2, <2>3, <2>4, <2>5, <2>6 DEF TypeOK
<1>6. RowsSound
  <2> SUFFICES ASSUME NEW o \in Owners
               PROVE RowSound(o, row, tried, Paid(books.events, o), month)
    BY <1>1 DEF RowsSound
  <2>1. Paid(books.events, o) = 0
    <3> DEFINE S == {e \in books.events : e.owner = o}
    <3>1. S = {} BY <1>1
    <3>2. Paid(books.events, o) = SumFunctionOnSet(Costs(books.events), S) BY DEF Paid
    <3> HIDE DEF S
    <3> QED BY <3>1, <3>2, SumEmpty
  <2>2. Cardinality(Accounted(tried)) = 0 /\ Cardinality(Known(tried)) = 0
    BY <1>4, FS_EmptySet
  <2>3. CallCost[o] * 0 = 0 /\ Estimate[o] \in Nat BY DEF SoundConstants
  <2> QED BY <1>1, <1>2, <1>3, <1>4, <2>1, <2>2, <2>3 DEF RowSound, Live
<1>7. FutureIsFree BY <1>1 DEF FutureIsFree
<1>8. /\ \A ws : Owed(books.owned, ws, month) = 0 /\ Spent(books.events, ws, month) = 0
      /\ \A w, b : Taken(books.owned, w, b, month) = 0
  <2>1. IsFiniteSet(Owners) BY DEF SoundConstants
  <2>2. \A o \in Owners : books.owned[o] = row BY <1>1
  <2>3. ASSUME NEW ws PROVE Owed(books.owned, ws, month) = 0
    <3> DEFINE f == [o \in Owners |-> Share(o, books.owned[o], ws, month)]
    <3>1. \A o \in Owners : f[o] = 0 BY <1>3, <2>2 DEF Share, Owes, Live
    <3>2. Owed(books.owned, ws, month) = SumFunctionOnSet(f, Owners) BY DEF Owed
    <3> HIDE DEF f
    <3> QED BY <2>1, <3>1, <3>2, SumZero
  <2>4. ASSUME NEW ws PROVE Spent(books.events, ws, month) = 0
    <3> DEFINE S == {e \in books.events : e.ws \in ws /\ e.month = month /\ e.promised}
    <3>1. S = {} BY <1>1
    <3>2. Spent(books.events, ws, month) = SumFunctionOnSet(Costs(books.events), S) BY DEF Spent
    <3> HIDE DEF S
    <3> QED BY <3>1, <3>2, SumEmpty
  <2>5. ASSUME NEW w, NEW b PROVE Taken(books.owned, w, b, month) = 0
    <3> DEFINE f == [o \in Owners |-> Takes(o, books.owned[o], w, b, month)]
    <3>1. \A o \in Owners : f[o] = 0 BY <1>3, <2>2 DEF Takes
    <3>2. Taken(books.owned, w, b, month) = SumFunctionOnSet(f, Owners) BY DEF Taken
    <3> HIDE DEF f
    <3> QED BY <2>1, <3>1, <3>2, SumZero
  <2> QED BY <2>3, <2>4, <2>5
<1>9. CountersSound
  <2>1. ASSUME NEW w \in Workspaces, NEW b \in Buckets
        PROVE books.held[w][month][b] = loose[w][b] + Taken(books.owned, w, b, month)
    <3>1. books.held[w][month][b] = 0 /\ loose[w][b] = 0 BY <1>1, <1>2
    <3>2. Taken(books.owned, w, b, month) = 0 BY <1>8
    <3> QED BY <3>1, <3>2
  <2> QED BY <2>1 DEF CountersSound
<1>10. MoneySound
  <2>1. \A ws : \A limit \in Nat : Fits(ws, limit) BY <1>8 DEF Fits
  <2> QED BY <2>1 DEF MoneySound, SoundConstants
<1>11. PastCovered BY <1>1 DEF PastCovered
<1>12. EventsSound BY <1>1, <1>4 DEF EventsSound, Noticed
<1> QED BY <1>5, <1>6, <1>7, <1>9, <1>10, <1>11, <1>12 DEF LedgerInv

(* The invariant implies the properties of the ledger.                     *)
LEMMA InvIsMoneyKept == ASSUME SoundConstants, LedgerInv PROVE MoneyKept
<1>1. books.owned \in [Owners -> OwnerRows] /\ month \in 0..LastMonth /\ MoneySound
  BY DEF LedgerInv, TypeOK
<1>2. \A ws : Outstanding(books, ws) = Owed(books.owned, ws, month)
  BY <1>1, OwedIsOutstanding DEF Outstanding, Residual
<1>3. \A ws : Promised(ws) = Spent(books.events, ws, month) BY DEF Promised, Spent
<1> QED BY <1>1, <1>2, <1>3 DEF MoneyKept, MoneySound, Fits

(* What an owner is charged and what its open calls may cost.              *)
LEMMA InvIsChargesKept == ASSUME SoundConstants, LedgerInv PROVE ChargesKept
<1> SUFFICES ASSUME NEW o \in Owners
             PROVE /\ Paid(books.events, o) <= Estimate[o]
                   /\ Row(o).status = "billable_unknown" =>
                        Paid(books.events, o)
                          + CallCost[o] * Cardinality({a \in Attempts :
                                                        books.tried[o][a] = "unknown"})
                          <= Row(o).est
  BY DEF ChargesKept, Paid
<1> DEFINE q == books.tried[o]
           U == {a \in Attempts : q[a] = "unknown"}
<1>1. Row(o) \in OwnerRows /\ q \in AttemptRows
      /\ RowSound(o, Row(o), q, Paid(books.events, o), month)
  BY RowFound
<1>2. U \cap Accounted(q) = {} /\ U \cup Accounted(q) \subseteq Known(q)
      /\ U \subseteq Attempts /\ Accounted(q) \subseteq Attempts /\ Known(q) \subseteq Attempts
      /\ IsFiniteSet(Attempts)
  BY DEF Accounted, Known, SoundConstants
<1> HIDE DEF U, q
<1>3. IsFiniteSet(U) /\ IsFiniteSet(Accounted(q)) /\ IsFiniteSet(Known(q)) BY <1>2, FS_Subset
<1>4. Cardinality(U \cup Accounted(q)) = Cardinality(U) + Cardinality(Accounted(q))
                                           - Cardinality(U \cap Accounted(q))
  BY <1>3, FS_Union
<1>5. Cardinality(U \cap Accounted(q)) = 0 BY <1>2, FS_EmptySet
<1>6. Cardinality(U \cup Accounted(q)) <= Cardinality(Known(q)) BY <1>2, <1>3, FS_Subset
<1>7. Cardinality(U) \in Nat /\ Cardinality(Accounted(q)) \in Nat
      /\ Cardinality(Known(q)) \in Nat
  BY <1>3, FS_CardinalityType
<1>8. \A c, m, n, k \in Nat : m + n <= k => /\ c * m + c * n <= c * k
                                           /\ c * m \in Nat /\ c * n \in Nat /\ c * k \in Nat
  OBVIOUS
<1>9. CallCost[o] \in Nat /\ Estimate[o] \in Nat BY DEF SoundConstants
<1>10. Cardinality(U) + Cardinality(Accounted(q)) <= Cardinality(Known(q))
  BY <1>4, <1>5, <1>6, <1>7
<1>11. /\ CallCost[o] * Cardinality(U) + CallCost[o] * Cardinality(Accounted(q))
            <= CallCost[o] * Cardinality(Known(q))
       /\ CallCost[o] * Cardinality(U) \in Nat
       /\ CallCost[o] * Cardinality(Accounted(q)) \in Nat
       /\ CallCost[o] * Cardinality(Known(q)) \in Nat
  BY <1>7, <1>8, <1>9, <1>10
<1>12. /\ Paid(books.events, o) = CallCost[o] * Cardinality(Accounted(q))
       /\ CallCost[o] * Cardinality(Known(q)) <= Row(o).est /\ Row(o).est <= Estimate[o]
  BY <1>1 DEF RowSound
<1>13. Row(o).est \in Nat BY <1>1 DEF OwnerRows
<1>14. Paid(books.events, o) <= Estimate[o]
       /\ Paid(books.events, o) + CallCost[o] * Cardinality(U) <= Row(o).est
  <2> DEFINE x == CallCost[o] * Cardinality(U)
             y == CallCost[o] * Cardinality(Accounted(q))
             z == CallCost[o] * Cardinality(Known(q))
  <2>1. x + y <= z /\ x \in Nat /\ y \in Nat /\ z \in Nat /\ Paid(books.events, o) = y
        /\ z <= Row(o).est /\ Row(o).est <= Estimate[o]
    BY <1>11, <1>12
  <2> HIDE DEF x, y, z
  <2>2. Paid(books.events, o) <= Estimate[o] /\ Paid(books.events, o) + x <= Row(o).est
    BY <1>9, <1>13, <2>1
  <2> QED BY <2>2 DEF x
<1> QED BY <1>14 DEF U, q

(* The counter of a month.                                                 *)
LEMMA InvIsUnitsKept == ASSUME SoundConstants, LedgerInv PROVE UnitsKept
<1>1. books.owned \in [Owners -> OwnerRows] /\ month \in 0..LastMonth /\ CountersSound
  BY DEF LedgerInv, TypeOK
<1>2. \A w, b :
        SumFunctionOnSet([o \in Owners |-> Row(o).units],
          {o \in Owners : Home[o] = w /\ Bucket(Operation[o]) = b /\ Row(o).month = month
                          /\ Row(o).status = "reserved"})
          = Taken(books.owned, w, b, month)
  BY <1>1, TakenIsReserved DEF Row
<1> QED BY <1>1, <1>2 DEF UnitsKept, CountersSound

(* The ledger is in order in every state of every behaviour.               *)
THEOREM LedgerIsSound == SoundConstants => (LedgerSpec => []LedgerInv)
<1> SUFFICES ASSUME SoundConstants PROVE LedgerSpec => []LedgerInv OBVIOUS
<1>1. LedgerInit => LedgerInv BY LedgerInitKeeps
<1>2. LedgerInv /\ [LedgerNext]_ledgerVars => LedgerInv'
  <2> SUFFICES ASSUME LedgerInv, [LedgerNext]_ledgerVars PROVE LedgerInv' OBVIOUS
  <2>1. CASE LedgerNext
    <3>1. LedgerInv' \/ UNCHANGED ledgerVars BY <2>1, LedgerStepKeeps
    <3>2. CASE UNCHANGED ledgerVars
      BY <3>2 DEF ledgerVars, LedgerInv, TypeOK, RowsSound, FutureIsFree, CountersSound,
                  MoneySound, Fits, PastCovered, EventsSound
    <3> QED BY <3>1, <3>2
  <2>2. CASE UNCHANGED ledgerVars
    BY <2>2 DEF ledgerVars, LedgerInv, TypeOK, RowsSound, FutureIsFree, CountersSound,
                MoneySound, Fits, PastCovered, EventsSound
  <2> QED BY <2>1, <2>2
<1> QED BY <1>1, <1>2, PTL DEF LedgerSpec

(* What a month's reservations have spent and may still spend fits the     *)
(* budget of the workspace and the global one (try_reserve_owned,          *)
(* readmit_owned), for any number of owners, attempts and months.          *)
THEOREM BudgetsHold == SoundConstants => (LedgerSpec => []MoneyKept)
<1> SUFFICES ASSUME SoundConstants PROVE LedgerSpec => []MoneyKept OBVIOUS
<1>1. LedgerSpec => []LedgerInv BY LedgerIsSound
<1>2. LedgerInv => MoneyKept BY InvIsMoneyKept
<1> QED BY <1>1, <1>2, PTL

(* An owner pays at most what was reserved for it, and calls nobody        *)
(* recorded stay charged (settle_owned, record_owned_event).               *)
THEOREM ChargesHold == SoundConstants => (LedgerSpec => []ChargesKept)
<1> SUFFICES ASSUME SoundConstants PROVE LedgerSpec => []ChargesKept OBVIOUS
<1>1. LedgerSpec => []LedgerInv BY LedgerIsSound
<1>2. LedgerInv => ChargesKept BY InvIsChargesKept
<1> QED BY <1>1, <1>2, PTL

(* A month's counter is the sum of what is reserved, as long as nobody     *)
(* gives back what nobody reserved (_decrement_reservation).               *)
THEOREM UnitsHold == SoundConstants => (LedgerSpec => []UnitsKept)
<1> SUFFICES ASSUME SoundConstants PROVE LedgerSpec => []UnitsKept OBVIOUS
<1>1. LedgerSpec => []LedgerInv BY LedgerIsSound
<1>2. LedgerInv => UnitsKept BY InvIsUnitsKept
<1> QED BY <1>1, <1>2, PTL

-----------------------------------------------------------------------------
(* The double the tests run on.                                            *)

(* Two answers agree in what the twins are compared by.                    *)
Agree(p, m) ==
  /\ p.yes = m.yes
  /\ \A o \in Owners :
       /\ p.l.owned[o].status = m.l.owned[o].status /\ p.l.owned[o].month = m.l.owned[o].month
       /\ p.l.owned[o].est = m.l.owned[o].est /\ p.l.owned[o].settled = m.l.owned[o].settled
  /\ ~stray => p.l.held = m.l.held
  /\ p.l.events = m.l.events

(* The double's tables are such tables.                                    *)
LEMMA MemoryTables ==
  ASSUME TypeOK
  PROVE /\ TwinTables(books) /\ TwinTables(AsMemory(books))
        /\ \A o \in Owners, a \in Attempts :
             AsMemory(books).tried[o][a] =
               IF books.tried[o][a] = "unknown" THEN "authorized" ELSE books.tried[o][a]
<1> DEFINE t == [o \in Owners |-> [a \in Attempts |->
                  IF books.tried[o][a] = "unknown" THEN "authorized" ELSE books.tried[o][a]]]
<1>1. AsMemory(books) = [books EXCEPT !.tried = t] BY DEF AsMemory
<1>2. \A o \in Owners, a \in Attempts :
        t[o][a] = IF books.tried[o][a] = "unknown" THEN "authorized" ELSE books.tried[o][a]
  OBVIOUS
<1> HIDE DEF t
<1>3. IsBooks(books) BY DEF TypeOK
<1>4. AsMemory(books).tried = t /\ TwinTables(AsMemory(books))
  BY <1>1, <1>3 DEF TwinTables, IsBooks
<1> QED BY <1>2, <1>3, <1>4 DEF TwinTables

(* They agree when both stay as they are, ...                              *)
LEMMA BothStay ==
  ASSUME TypeOK, NEW yes
  PROVE Agree(Answer(yes, books), Answer(yes, AsMemory(books)))
BY MemoryTables DEF Agree, Answer, TwinTables

(* ... and when the row of one owner changes alike.                        *)
LEMMA BothChange ==
  ASSUME TypeOK, NEW yes, NEW k, NEW n, NEW o \in Owners, NEW r, NEW s,
         k.owned = [books.owned EXCEPT ![o] = r], n.owned = [books.owned EXCEPT ![o] = s],
         r.status = s.status, r.month = s.month, r.est = s.est, r.settled = s.settled,
         ~stray => k.held = n.held, k.events = n.events
  PROVE Agree(Answer(yes, k), Answer(yes, n))
<1>1. k.owned[o] = r /\ n.owned[o] = s BY DEF TypeOK
<1>2. \A p \in Owners \ {o} : k.owned[p] = n.owned[p] BY DEF TypeOK
<1>3. Answer(yes, k).yes = yes /\ Answer(yes, n).yes = yes
      /\ Answer(yes, k).l = k /\ Answer(yes, n).l = n
  BY DEF Answer
<1> QED BY <1>1, <1>2, <1>3 DEF Agree

(* The limits see no difference between the twins.                         *)
LEMMA TwinLimits ==
  ASSUME NEW l, TwinTables(l)
  PROVE /\ \A w, amount : Affordable(l, w, amount) = Affordable(books, w, amount)
        /\ \A w, ops, n : Countable(l, w, ops, n) = Countable(books, w, ops, n)
<1> DEFINE B(ev, ws) == SumFunctionOnSet(Costs(ev), {e \in ev : e.ws \in ws /\ e.month = month})
           O(owned, ws) ==
             SumFunctionOnSet([o \in Owners |-> Positive(owned[o].est - owned[o].settled)],
               {o \in Owners : Home[o] \in ws /\ owned[o].month = month
                               /\ owned[o].status \in Live \cup {"billable_unknown"}})
           U(ev, w, ops) == Cardinality({e \in ev : e.ws = w /\ e.month = month /\ e.op \in ops})
<1>1. \A ws : Booked(l, ws) = B(l.events, ws) /\ Booked(books, ws) = B(books.events, ws)
  BY DEF Booked
<1>2. \A ws : Outstanding(l, ws) = O(l.owned, ws) /\ Outstanding(books, ws) = O(books.owned, ws)
  BY DEF Outstanding, Residual
<1>3. \A w, ops : /\ Used(l, w, ops) = U(l.events, w, ops)
                  /\ Used(books, w, ops) = U(books.events, w, ops)
  BY DEF Used
<1> HIDE DEF B, O, U
<1>4. l.events = books.events /\ l.owned = books.owned /\ l.held = books.held BY DEF TwinTables
<1>5. \A ws : Booked(l, ws) = Booked(books, ws) /\ Outstanding(l, ws) = Outstanding(books, ws)
  BY <1>1, <1>2, <1>4
<1>6. \A w, ops : Used(l, w, ops) = Used(books, w, ops) BY <1>3, <1>4
<1>7. \A w, amount : Affordable(l, w, amount) = Affordable(books, w, amount)
  BY <1>5 DEF Affordable
<1>8. \A w, ops, n : Countable(l, w, ops, n) = Countable(books, w, ops, n)
  BY <1>4, <1>6 DEF Countable
<1> QED BY <1>7, <1>8
(* The tables that reserving leaves, whichever the twin.                   *)
LEMMA ReserveWrites ==
  ASSUME SoundConstants, LedgerInv, NEW l, TwinTables(l), NEW o \in Owners, NEW r,
         NEW k, k = Held([l EXCEPT !.owned[o] = r], Home[o], month, Bucket(Operation[o]),
                         InBucket(l, o, month) + Units[o])
  PROVE /\ k.owned = [books.owned EXCEPT ![o] = r] /\ k.events = books.events
        /\ k.held = CounterWith(books.held, Home[o], month, Bucket(Operation[o]),
                                InBucket(books, o, month) + Units[o])
<1> DEFINE taken == [l EXCEPT !.owned[o] = r]
           c == Bucket(Operation[o])
           n == InBucket(l, o, month) + Units[o]
<1>1. TypeOK /\ RowsSound /\ month \in 1..LastMonth /\ books.held \in Counters BY RowFound
<1>2. InBucket(l, o, month) = InBucket(books, o, month) BY DEF InBucket, TwinTables
<1>3. Home[o] \in Workspaces /\ c \in Buckets /\ n \in Int
  BY <1>1, <1>2, BucketOf DEF SoundConstants
<1>4. /\ IsBooks(taken) /\ taken.owned = [books.owned EXCEPT ![o] = r]
      /\ taken.events = books.events /\ taken.held = books.held
  BY DEF IsBooks, TwinTables
<1> HIDE DEF taken, n, c
<1> DEFINE h == Held(taken, Home[o], month, c, n)
<1>5. h.owned = taken.owned /\ h.events = taken.events
      /\ h.held = CounterWith(taken.held, Home[o], month, c, n)
  BY <1>1, <1>3, <1>4, HeldLeaves
<1>6. k = h BY DEF taken, n, c
<1> HIDE DEF h
<1> QED BY <1>2, <1>4, <1>5, <1>6 DEF n, c

(* try_reserve_owned: an owner that is live is asked for in its own month. *)
LEMMA ReserveAgrees ==
  ASSUME SoundConstants, LedgerInv, NEW o \in Owners, ~(Late(o) /\ ~Closed(o))
  PROVE Agree(Reserve("postgres", books, o), Reserve("memory", AsMemory(books), o))
<1> DEFINE m == AsMemory(books)
           r == [status |-> "reserved", month |-> month, est |-> Estimate[o], settled |-> 0,
                 units |-> Units[o]]
           New(l) == Held([l EXCEPT !.owned[o] = r], Home[o], month, Bucket(Operation[o]),
                          InBucket(l, o, month) + Units[o])
           Free(l) == Affordable(l, Home[o], Estimate[o])
                        /\ Countable(l, Home[o], SameBucket(Operation[o]), Units[o])
<1>1. TypeOK /\ books.owned[o] = Row(o) BY RowFound
<1>2. TwinTables(books) /\ TwinTables(m) BY <1>1, MemoryTables
<1>3. m.owned[o] = Row(o) BY <1>1, <1>2 DEF TwinTables
<1>4. Free(m) = Free(books) BY <1>2, TwinLimits
<1>5. ASSUME NEW yes PROVE Agree(Answer(yes, New(books)), Answer(yes, New(m)))
  <2>1. ASSUME NEW l, TwinTables(l)
        PROVE /\ New(l).owned = [books.owned EXCEPT ![o] = r] /\ New(l).events = books.events
              /\ New(l).held = CounterWith(books.held, Home[o], month, Bucket(Operation[o]),
                                           InBucket(books, o, month) + Units[o])
    <3> DEFINE k == New(l)
    <3> HIDE DEF r
    <3>1. k = Held([l EXCEPT !.owned[o] = r], Home[o], month, Bucket(Operation[o]),
                   InBucket(l, o, month) + Units[o])
      OBVIOUS
    <3> HIDE DEF k
    <3>2. /\ k.owned = [books.owned EXCEPT ![o] = r] /\ k.events = books.events
          /\ k.held = CounterWith(books.held, Home[o], month, Bucket(Operation[o]),
                                  InBucket(books, o, month) + Units[o])
      BY <2>1, <3>1, ReserveWrites
    <3> QED BY <3>2 DEF k
  <2> HIDE DEF New, m, r
  <2>2. /\ New(books).owned = [books.owned EXCEPT ![o] = r]
        /\ New(m).owned = [books.owned EXCEPT ![o] = r]
        /\ New(books).events = New(m).events /\ New(books).held = New(m).held
    BY <1>2, <2>1
  <2> QED BY <1>1, <2>2, BothChange
<1>6. ASSUME NEW yes PROVE Agree(Answer(yes, books), Answer(yes, m)) BY <1>1, BothStay
<1>7. CASE Row(o).status # "none"
  <2>1. (Row(o).status \in Live /\ ("postgres" = "postgres" => Row(o).month = month))
          = (Row(o).status \in Live /\ ("memory" = "postgres" => Row(o).month = month))
    BY DEF Late, Closed
  <2> HIDE DEF m
  <2>2. Reserve("postgres", books, o)
          = Answer(Row(o).status \in Live /\ ("postgres" = "postgres" => Row(o).month = month), books)
    BY <1>1, <1>7 DEF Reserve
  <2>3. Reserve("memory", m, o)
          = Answer(Row(o).status \in Live /\ ("memory" = "postgres" => Row(o).month = month), m)
    BY <1>3, <1>7 DEF Reserve
  <2> QED BY <1>6, <2>1, <2>2, <2>3 DEF m
<1>8. CASE Row(o).status = "none"
  <2>1. Reserve("postgres", books, o)
          = IF Free(books) THEN Answer(TRUE, New(books)) ELSE Answer(FALSE, books)
    BY <1>1, <1>8 DEF Reserve
  <2> HIDE DEF m
  <2>2. Reserve("memory", m, o) = IF Free(m) THEN Answer(TRUE, New(m)) ELSE Answer(FALSE, m)
    BY <1>3, <1>8 DEF Reserve
  <2> HIDE DEF Free, New
  <2> QED BY <1>4, <1>5, <1>6, <2>1, <2>2 DEF m
<1> QED BY <1>7, <1>8

(* As long as nobody gives back what nobody reserved, a bucket holds the   *)
(* units of each of its owners, in this month and in earlier ones.         *)
LEMMA UnitsCovered ==
  ASSUME SoundConstants, LedgerInv, ~stray, NEW o \in Owners, Row(o).status # "none"
  PROVE Positive(InBucket(books, o, Row(o).month) - Row(o).units)
          = InBucket(books, o, Row(o).month) - Row(o).units
<1> DEFINE w == Home[o]
           b == Bucket(Operation[o])
           m == Row(o).month
<1>1. Row(o) \in OwnerRows /\ books.owned[o] = Row(o) /\ TypeOK /\ RowsSound
      /\ books.owned \in [Owners -> OwnerRows] /\ month \in 1..LastMonth
      /\ RowSound(o, Row(o), books.tried[o], Paid(books.events, o), month)
      /\ CountersSound /\ PastCovered /\ loose \in [Workspaces -> [Buckets -> Nat]]
  BY RowFound DEF LedgerInv, TypeOK
<1>2. w \in Workspaces /\ b \in Buckets /\ m \in 1..LastMonth /\ m <= month
      /\ InBucket(books, o, m) \in Int
  BY <1>1, BucketOf
<1>3. Takes(o, Row(o), w, b, m) = Row(o).units
  BY <1>1 DEF Takes, RowSound, OwnerRows
<1>4. InBucket(books, o, m) = books.held[w][m][b] BY DEF InBucket
<1> HIDE DEF w, b, m
<1>5. Taken(books.owned, w, b, m) \in Nat
      /\ Takes(o, books.owned[o], w, b, m) <= Taken(books.owned, w, b, m)
  BY <1>1, <1>2, TakenMoves
<1>6. Taken(books.owned, w, b, m) <= books.held[w][m][b]
  <2>1. CASE m = month
    <3>1. loose[w][b] \in Nat BY <1>1, <1>2
    <3>2. books.held[w][m][b] = loose[w][b] + Taken(books.owned, w, b, m)
      BY <1>1, <1>2, <2>1 DEF CountersSound
    <3> QED BY <1>5, <3>1, <3>2
  <2>2. CASE m < month BY <1>1, <1>2, <2>2 DEF PastCovered
  <2> QED BY <1>1, <1>2, <2>1, <2>2
<1>7. Row(o).units \in Nat BY <1>1 DEF OwnerRows
<1>8. Row(o).units <= InBucket(books, o, m) BY <1>1, <1>2, <1>3, <1>4, <1>5, <1>6, <1>7
<1> QED BY <1>2, <1>7, <1>8 DEF Positive, m
(* What the double leaves when it gives an owner's units back.             *)
LEMMA MemoryReturned ==
  ASSUME SoundConstants, LedgerInv, NEW l, TwinTables(l), NEW o \in Owners,
         Row(o).status # "none"
  PROVE LET k == Returned("memory", l, o)
        IN  /\ IsBooks(k) /\ k.owned = books.owned /\ k.events = books.events
            /\ ~stray => k.held = Returned("postgres", books, o).held
<1> DEFINE b == Bucket(Operation[o])
           n == InBucket(books, o, Row(o).month) - Row(o).units
           k == Held(l, Home[o], Row(o).month, b, n)
<1>1. Row(o) \in OwnerRows /\ books.owned[o] = Row(o) /\ TypeOK /\ RowsSound
      /\ books.held \in Counters
  BY RowFound
<1>2. Home[o] \in Workspaces /\ b \in Buckets /\ Row(o).month \in 1..LastMonth /\ n \in Int
  BY <1>1, BucketOf DEF OwnerRows
<1>3. IsBooks(l) /\ l.owned = books.owned /\ l.held = books.held /\ l.events = books.events
  BY DEF TwinTables
<1>4. InBucket(l, o, Row(o).month) = InBucket(books, o, Row(o).month) BY <1>3 DEF InBucket
<1>5. Returned("memory", l, o) = k BY <1>1, <1>3, <1>4 DEF Returned
<1>6. Returned("postgres", books, o).held
        = CounterWith(books.held, Home[o], Row(o).month, b,
                      Positive(InBucket(books, o, Row(o).month) - Row(o).units))
  BY <1>1, ReturnedLeaves
<1>7. ~stray => Positive(InBucket(books, o, Row(o).month) - Row(o).units) = n
  BY UnitsCovered
<1> HIDE DEF n, b, k
<1> DEFINE h == Held(l, Home[o], Row(o).month, b, n)
<1>8. IsBooks(h) /\ h.owned = l.owned /\ h.events = l.events
      /\ h.held = CounterWith(l.held, Home[o], Row(o).month, b, n)
  BY <1>1, <1>2, <1>3, HeldLeaves
<1>9. k = h BY DEF k
<1> HIDE DEF h
<1> QED BY <1>3, <1>5, <1>6, <1>7, <1>8, <1>9

(* An owner without units gives nothing back.                              *)
LEMMA NothingReturned ==
  ASSUME SoundConstants, LedgerInv, ~stray, NEW o \in Owners,
         Row(o).status \notin {"none", "reserved"}
  PROVE Returned("postgres", books, o).held = books.held
<1> DEFINE w == Home[o]
           b == Bucket(Operation[o])
           m == Row(o).month
<1>1. Row(o) \in OwnerRows /\ TypeOK /\ RowsSound /\ books.held \in Counters
      /\ RowSound(o, Row(o), books.tried[o], Paid(books.events, o), month)
  BY RowFound
<1>2. w \in Workspaces /\ b \in Buckets /\ m \in 1..LastMonth /\ InBucket(books, o, m) \in Int
  BY <1>1, BucketOf
<1>3. Row(o).units = 0 BY <1>1 DEF RowSound, OwnerRows
<1>4. Positive(InBucket(books, o, m) - Row(o).units) = InBucket(books, o, m)
  BY <1>2, <1>3, UnitsCovered
<1>5. InBucket(books, o, m) = books.held[w][m][b] BY DEF InBucket
<1>6. Returned("postgres", books, o).held
        = CounterWith(books.held, w, m, b, Positive(InBucket(books, o, m) - Row(o).units))
  BY <1>1, ReturnedLeaves
<1> HIDE DEF w, b, m
<1>7. CounterWith(books.held, w, m, b, books.held[w][m][b]) = books.held
  BY <1>1, <1>2 DEF CounterWith, Counters
<1> QED BY <1>4, <1>5, <1>6, <1>7

(* cancel_owned.                                                           *)
LEMMA CancelAgrees ==
  ASSUME SoundConstants, LedgerInv, NEW o \in Owners
  PROVE Agree(Cancel("postgres", books, o), Cancel("memory", AsMemory(books), o))
<1> DEFINE m == AsMemory(books)
           k == Returned("postgres", books, o)
           n == Returned("memory", m, o)
           x == [Row(o) EXCEPT !.units = 0]
           r == [x EXCEPT !.status = "cancelled"]
           s == [Row(o) EXCEPT !.status = "cancelled"]
<1>1. TypeOK /\ RowsSound /\ books.owned[o] = Row(o) /\ Row(o) \in OwnerRows
      /\ books.owned \in [Owners -> OwnerRows]
  BY RowFound DEF TypeOK
<1>2. TwinTables(m) /\ m.owned[o] = Row(o) BY <1>1, MemoryTables DEF TwinTables
<1>3. Agree(Answer(FALSE, books), Answer(FALSE, m)) BY <1>1, BothStay
<1> HIDE DEF m
<1>4. CASE Row(o).status # "reserved"
  <2>1. Cancel("postgres", books, o) = Answer(FALSE, books) BY <1>1, <1>4 DEF Cancel
  <2>2. Cancel("memory", m, o) = Answer(FALSE, m) BY <1>2, <1>4 DEF Cancel
  <2> QED BY <1>3, <2>1, <2>2 DEF m
<1>5. CASE Row(o).status = "reserved"
  <2>1. Cancel("postgres", books, o) = Answer(TRUE, WithStatus(k, o, "cancelled"))
    BY <1>1, <1>5 DEF Cancel, WithStatus
  <2>2. Cancel("memory", m, o) = Answer(TRUE, WithStatus(n, o, "cancelled"))
    BY <1>2, <1>5 DEF Cancel, WithStatus
  <2>3. IsBooks(k) /\ k.owned = [books.owned EXCEPT ![o].units = 0] /\ k.events = books.events
    BY <1>1, <1>5, ReturnedLeaves
  <2>4. IsBooks(n) /\ n.owned = books.owned /\ n.events = books.events
        /\ (~stray => n.held = k.held)
    BY <1>2, <1>5, MemoryReturned
  <2> HIDE DEF k, n
  <2>5. k.owned = [books.owned EXCEPT ![o] = x] BY <1>1, <2>3
  <2>6. n.owned = [books.owned EXCEPT ![o] = Row(o)] BY <1>1, <2>4
  <2>9. r.status = s.status /\ r.month = s.month /\ r.est = s.est /\ r.settled = s.settled
    BY <1>1 DEF OwnerRows
  <2> HIDE DEF x
  <2>7. /\ WithStatus(k, o, "cancelled").events = k.events
        /\ WithStatus(k, o, "cancelled").held = k.held
        /\ WithStatus(k, o, "cancelled").owned = [books.owned EXCEPT ![o] = r]
    BY <1>1, <2>3, <2>5, StatusWritten
  <2>8. /\ WithStatus(n, o, "cancelled").events = n.events
        /\ WithStatus(n, o, "cancelled").held = n.held
        /\ WithStatus(n, o, "cancelled").owned = [books.owned EXCEPT ![o] = s]
    BY <1>1, <2>4, <2>6, StatusWritten
  <2> DEFINE p == WithStatus(k, o, "cancelled")
             q == WithStatus(n, o, "cancelled")
  <2> HIDE DEF r, s
  <2>10. p.owned = [books.owned EXCEPT ![o] = r] /\ q.owned = [books.owned EXCEPT ![o] = s]
         /\ (~stray => p.held = q.held) /\ p.events = q.events
    BY <2>3, <2>4, <2>7, <2>8
  <2> HIDE DEF p, q
  <2>11. \A yes : Agree(Answer(yes, p), Answer(yes, q)) BY <1>1, <2>9, <2>10, BothChange
  <2> QED BY <2>1, <2>2, <2>11 DEF m, p, q
<1> QED BY <1>4, <1>5

(* What a row is once it ended, its units aside, and the tables with it.   *)
Final(r, ends, retained) == [[r EXCEPT !.status = ends] EXCEPT !.est = retained]

(* The tables that settling leaves.                                        *)
LEMMA EndsWritten ==
  ASSUME NEW l, IsBooks(l), NEW owned \in [Owners -> OwnerRows], NEW o \in Owners, NEW x,
         l.owned = [owned EXCEPT ![o] = x], NEW ends, NEW retained
  PROVE /\ IsBooks(Ended(l, o, ends, retained))
        /\ Ended(l, o, ends, retained).events = l.events
        /\ Ended(l, o, ends, retained).held = l.held
        /\ Ended(l, o, ends, retained).owned
             = [owned EXCEPT ![o] = Final(x, ends, retained)]
<1> DEFINE d == WithStatus(l, o, ends)
           v == [x EXCEPT !.status = ends]
           c == [d EXCEPT !.owned[o].est = retained]
<1>1. Ended(l, o, ends, retained) = c BY DEF Ended, WithStatus
<1>2. IsBooks(d) /\ d.events = l.events /\ d.held = l.held /\ d.owned = [owned EXCEPT ![o] = v]
  <2>1. IsBooks(d) /\ d.events = l.events /\ d.held = l.held
        /\ d.owned = [l.owned EXCEPT ![o].status = ends]
    BY DEF IsBooks, WithStatus
  <2> HIDE DEF d
  <2> QED BY <2>1
<1> HIDE DEF d, v
<1>3. IsBooks(c) /\ c.events = d.events /\ c.held = d.held
      /\ c.owned = [d.owned EXCEPT ![o].est = retained]
  BY <1>2 DEF IsBooks
<1> HIDE DEF c
<1>4. c.owned = [owned EXCEPT ![o] = [v EXCEPT !.est = retained]] BY <1>2, <1>3
<1>5. [v EXCEPT !.est = retained] = Final(x, ends, retained) BY DEF v, Final
<1> QED BY <1>1, <1>2, <1>3, <1>4, <1>5

(* The attempts of a live owner are the same in both.                      *)
LEMMA SameAttempts ==
  ASSUME SoundConstants, LedgerInv, NEW o \in Owners, Row(o).status \in Live
  PROVE /\ \A a \in Attempts : AsMemory(books).tried[o][a] = books.tried[o][a]
        /\ Open(AsMemory(books), o) = Open(books, o)
<1>1. TypeOK /\ RowSound(o, Row(o), books.tried[o], Paid(books.events, o), month) BY RowFound
<1>2. \A a \in Attempts : books.tried[o][a] # "unknown" BY <1>1 DEF RowSound
<1>3. \A a \in Attempts : AsMemory(books).tried[o][a] = books.tried[o][a]
  BY <1>1, <1>2, MemoryTables
<1> QED BY <1>3 DEF Open

(* settle_owned: an owner is not settled when some of its units were used  *)
(* and nothing is open.                                                    *)
LEMMA SettleAgrees ==
  ASSUME SoundConstants, LedgerInv, NEW o \in Owners, NEW unknown \in BOOLEAN,
         unknown \/ ~PartlyUsed(o)
  PROVE Agree(Settle("postgres", books, o, unknown), Settle("memory", AsMemory(books), o, unknown))
<1> DEFINE m == AsMemory(books)
           open == Open(books, o)
           retained == IF unknown THEN Row(o).est
                       ELSE Row(o).settled + CallCost[o] * Cardinality(open)
           charged == unknown \/ open # {}
           ends == IF charged THEN "billable_unknown" ELSE "settled"
           k == Returned("postgres", books, o)
           n == IF Row(o).status = "reserved" THEN Returned("memory", m, o) ELSE m
           u == [Row(o) EXCEPT !.units = 0]
           r == Final(u, ends, retained)
           s == Final(Row(o), ends, retained)
<1>1. TypeOK /\ RowsSound /\ books.owned[o] = Row(o) /\ Row(o) \in OwnerRows
      /\ books.owned \in [Owners -> OwnerRows]
  BY RowFound DEF TypeOK
<1>2. TwinTables(m) /\ m.owned[o] = Row(o) BY <1>1, MemoryTables DEF TwinTables
<1>3. Agree(Answer(FALSE, books), Answer(FALSE, m)) BY <1>1, BothStay
<1>4. CASE Row(o).status \notin Live
  <2> HIDE DEF m
  <2>1. Settle("postgres", books, o, unknown) = Answer(FALSE, books) BY <1>1, <1>4 DEF Settle
  <2>2. Settle("memory", m, o, unknown) = Answer(FALSE, m) BY <1>2, <1>4 DEF Settle
  <2> QED BY <1>3, <2>1, <2>2 DEF m
<1>5. CASE Row(o).status \in Live /\ Row(o).status = "reserved" /\ ~charged
  <2>1. Open(m, o) = open BY <1>5, SameAttempts
  <2>2. Row(o).settled <= 0 BY <1>1, <1>5 DEF PartlyUsed, OwnerRows
  <2> HIDE DEF m
  <2>3. Settle("postgres", books, o, unknown) = Answer(FALSE, books)
    BY <1>1, <1>5, <2>2 DEF Settle
  <2>4. Settle("memory", m, o, unknown) = Answer(FALSE, m)
    BY <1>2, <1>5, <2>1 DEF Settle
  <2> QED BY <1>3, <2>3, <2>4 DEF m
<1>6. CASE Row(o).status \in Live /\ ~(Row(o).status = "reserved" /\ ~charged)
  <2>1. Open(m, o) = open BY <1>6, SameAttempts
  <2>2. Row(o).status # "none" BY <1>6 DEF Live
  <2> DEFINE e == Ended(k, o, ends, retained)
             p == [e EXCEPT !.tried[o] = [a \in Attempts |->
                     IF a \in open THEN "unknown" ELSE @[a]]]
             q == Ended(n, o, ends, retained)
  <2>3. Settle("postgres", books, o, unknown) = Answer(TRUE, p)
    <3> DEFINE refused == \/ Row(o).status \notin Live
                          \/ Row(o).status = "reserved" /\ ~charged
                             /\ ("postgres" = "postgres" => Row(o).settled <= 0)
               back == IF "postgres" = "postgres" \/ Row(o).status = "reserved" THEN k ELSE books
               Shut(b) == Ended(b, o, ends, retained)
               Marked(c) == [c EXCEPT !.tried[o] = [a \in Attempts |->
                               IF a \in open THEN "unknown" ELSE @[a]]]
    <3>1. Settle("postgres", books, o, unknown)
            = IF refused THEN Answer(FALSE, books)
              ELSE Answer(TRUE, IF "postgres" = "postgres" THEN Marked(Shut(back)) ELSE Shut(back))
      BY Zenon DEF Settle, Ended, Row
    <3>2. back = k OBVIOUS
    <3>3. ~refused BY <1>6
    <3>4. p = Marked(Shut(k)) OBVIOUS
    <3> HIDE DEF back, Shut, Marked, refused, k, p
    <3> QED BY <3>1, <3>2, <3>3, <3>4
  <2>4. Settle("memory", m, o, unknown) = Answer(TRUE, q)
    <3> HIDE DEF m, open
    <3>1. CASE Row(o).status = "reserved" BY <1>2, <1>6, <2>1, <3>1 DEF Settle, Ended
    <3>2. CASE Row(o).status # "reserved" BY <1>2, <1>6, <2>1, <3>2 DEF Settle, Ended
    <3> QED BY <3>1, <3>2
  <2>5. IsBooks(k) /\ k.owned = [books.owned EXCEPT ![o].units = 0] /\ k.events = books.events
    BY <1>1, <2>2, ReturnedLeaves
  <2>6. IsBooks(n) /\ n.owned = books.owned /\ n.events = books.events
        /\ (~stray => n.held = k.held)
    <3>1. CASE Row(o).status = "reserved" BY <1>2, <2>2, <3>1, MemoryReturned
    <3>2. CASE Row(o).status # "reserved"
      <4> HIDE DEF k, m
      <4>1. ~stray => k.held = books.held BY <2>2, <3>2, NothingReturned DEF k
      <4> QED BY <1>2, <3>2, <4>1 DEF TwinTables
    <3> QED BY <3>1, <3>2
  <2>7. r.status = s.status /\ r.month = s.month /\ r.est = s.est /\ r.settled = s.settled
    <3> HIDE DEF ends, retained
    <3> QED BY <1>1 DEF OwnerRows, Final
  <2> HIDE DEF k, n, ends, retained, open, charged
  <2>8. k.owned = [books.owned EXCEPT ![o] = u] BY <1>1, <2>5
  <2>9. n.owned = [books.owned EXCEPT ![o] = Row(o)] BY <1>1, <2>6
  <2> HIDE DEF u
  <2>10. IsBooks(e) /\ e.events = k.events /\ e.held = k.held
         /\ e.owned = [books.owned EXCEPT ![o] = r]
    BY <1>1, <2>5, <2>8, EndsWritten
  <2>11. q.events = n.events /\ q.held = n.held /\ q.owned = [books.owned EXCEPT ![o] = s]
    BY <1>1, <2>6, <2>9, EndsWritten
  <2> HIDE DEF e, q, r, s
  <2>12. p.owned = e.owned /\ p.events = e.events /\ p.held = e.held BY <2>10 DEF IsBooks
  <2> HIDE DEF p
  <2>13. p.owned = [books.owned EXCEPT ![o] = r] /\ q.owned = [books.owned EXCEPT ![o] = s]
         /\ (~stray => p.held = q.held) /\ p.events = q.events
    BY <2>5, <2>6, <2>10, <2>11, <2>12
  <2>14. \A yes : Agree(Answer(yes, p), Answer(yes, q)) BY <1>1, <2>7, <2>13, BothChange
  <2> QED BY <2>3, <2>4, <2>14 DEF m
<1> QED BY <1>4, <1>5, <1>6

(* finalize_revoked: an owner with unknown attempts is closed.             *)
LEMMA FinalizeAgrees ==
  ASSUME SoundConstants, LedgerInv, NEW o \in Owners, ~PartlyUsed(o)
  PROVE Agree(FinalizeRevoked("postgres", books, o), FinalizeRevoked("memory", AsMemory(books), o))
<1> DEFINE m == AsMemory(books)
           used(l) == \E a \in Attempts : l.tried[o][a] \in {"authorized", "accounted"}
<1>1. TypeOK /\ books.owned[o] = Row(o) BY RowFound
<1>2. m.owned[o] = Row(o) BY <1>1, MemoryTables DEF TwinTables
<1>3. Agree(Settle("postgres", books, o, FALSE), Settle("memory", m, o, FALSE)) BY SettleAgrees
<1>4. Agree(Cancel("postgres", books, o), Cancel("memory", m, o)) BY CancelAgrees
<1>5. CASE Row(o).status \in Live
  <2>1. \A a \in Attempts : m.tried[o][a] = books.tried[o][a] BY <1>5, SameAttempts
  <2> HIDE DEF m
  <2>2. used(m) <=> used(books) BY <2>1
  <2>3. CASE used(books)
    BY <1>3, <2>2, <2>3 DEF FinalizeRevoked, m
  <2>4. CASE ~used(books)
    BY <1>4, <2>2, <2>4 DEF FinalizeRevoked, m
  <2> QED BY <2>3, <2>4
<1>6. CASE Row(o).status \notin Live
  <2>1. Agree(Answer(FALSE, books), Answer(FALSE, m)) BY <1>1, BothStay
  <2> HIDE DEF m
  <2>2. Settle("postgres", books, o, FALSE) = Answer(FALSE, books)
        /\ Cancel("postgres", books, o) = Answer(FALSE, books)
    BY <1>1, <1>6 DEF Settle, Cancel, Live
  <2>3. Settle("memory", m, o, FALSE) = Answer(FALSE, m)
        /\ Cancel("memory", m, o) = Answer(FALSE, m)
    BY <1>2, <1>6 DEF Settle, Cancel, Live
  <2> QED BY <2>1, <2>2, <2>3 DEF FinalizeRevoked, m
<1> QED BY <1>5, <1>6
(* The tables that a readmission leaves, whichever the twin.               *)
Restored(l, o) ==
  Held(l, Home[o], Row(o).month, Bucket(Operation[o]),
       Positive(InBucket(books, o, Row(o).month) - Row(o).units))
MovedOn(l, o) ==
  IF Row(o).status = "reserved"
  THEN Held(Restored(l, o), Home[o], month, Bucket(Operation[o]),
            InBucket(books, o, month) + Row(o).units)
  ELSE l
Readmitted(l, o) == [MovedOn(l, o) EXCEPT !.owned[o].month = month]

(* What they are.                                                          *)
LEMMA ReadmitWrites ==
  ASSUME SoundConstants, LedgerInv, NEW l, TwinTables(l), NEW o \in Owners,
         Row(o).status # "none"
  PROVE /\ Readmitted(l, o).owned = [books.owned EXCEPT ![o].month = month]
        /\ Readmitted(l, o).events = books.events
        /\ Readmitted(l, o).held =
             IF Row(o).status = "reserved"
             THEN CounterWith(
                    CounterWith(books.held, Home[o], Row(o).month, Bucket(Operation[o]),
                      Positive(InBucket(books, o, Row(o).month) - Row(o).units)),
                    Home[o], month, Bucket(Operation[o]),
                    InBucket(books, o, month) + Row(o).units)
             ELSE books.held
<1> DEFINE b == Bucket(Operation[o])
           left == Positive(InBucket(books, o, Row(o).month) - Row(o).units)
           here == InBucket(books, o, month) + Row(o).units
           h == CounterWith(books.held, Home[o], Row(o).month, b, left)
<1>1. TypeOK /\ RowsSound /\ books.held \in Counters /\ Row(o) \in OwnerRows
      /\ month \in 1..LastMonth
  BY RowFound
<1>2. Home[o] \in Workspaces /\ b \in Buckets /\ Row(o).month \in 1..LastMonth /\ left \in Int
      /\ here \in Int
  BY <1>1, BucketOf DEF Positive, OwnerRows
<1>3. IsBooks(l) /\ l.owned = books.owned /\ l.held = books.held /\ l.events = books.events
  BY DEF TwinTables
<1>4. Restored(l, o) = Held(l, Home[o], Row(o).month, b, left) BY DEF Restored
<1>5. MovedOn(l, o) = IF Row(o).status = "reserved"
                      THEN Held(Restored(l, o), Home[o], month, b, here) ELSE l
  BY DEF MovedOn
<1> HIDE DEF left, here, b
<1> DEFINE x == Held(l, Home[o], Row(o).month, b, left)
<1>6. IsBooks(x) /\ x.owned = books.owned /\ x.events = books.events /\ x.held = h
  BY <1>1, <1>2, <1>3, HeldLeaves
<1>7. h \in Counters BY <1>1, <1>2, CounterChanges
<1> HIDE DEF x, h
<1> DEFINE y == Held(x, Home[o], month, b, here)
<1>8. IsBooks(y) /\ y.owned = x.owned /\ y.events = x.events
      /\ y.held = CounterWith(x.held, Home[o], month, b, here)
  BY <1>1, <1>2, <1>6, <1>7, HeldLeaves
<1> HIDE DEF y
<1> DEFINE g == MovedOn(l, o)
           k == Readmitted(l, o)
<1>9. g = IF Row(o).status = "reserved" THEN y ELSE l BY <1>4, <1>5 DEF x, y
<1>12. k = [g EXCEPT !.owned[o].month = month] BY DEF Readmitted
<1> HIDE DEF g, k
<1>10. IsBooks(g) /\ g.owned = books.owned /\ g.events = books.events
       /\ g.held = IF Row(o).status = "reserved" THEN CounterWith(h, Home[o], month, b, here)
                   ELSE books.held
  BY <1>3, <1>6, <1>8, <1>9
<1>11. k.owned = [books.owned EXCEPT ![o].month = month] /\ k.events = g.events
       /\ k.held = g.held
  BY <1>10, <1>12 DEF IsBooks
<1> QED BY <1>10, <1>11 DEF h, left, here, b, k

(* Both count the same, unless another kind of speech was used.            *)
LEMMA SameCount ==
  ASSUME NEW o \in Owners, ~OtherSpeech(o), NEW n
  PROVE Countable(books, Home[o], {Operation[o]}, n)
          = Countable(books, Home[o], SameBucket(Operation[o]), n)
<1> DEFINE S == SameBucket(Operation[o])
<1>1. Bucket(CHOOSE op \in {Operation[o]} : TRUE) = Bucket(Operation[o])
  <2>1. (CHOOSE op \in {Operation[o]} : TRUE) = Operation[o] OBVIOUS
  <2> QED BY <2>1
<1>2. Bucket(CHOOSE op \in S : TRUE) = Bucket(Operation[o])
  <2>1. CASE Operation[o] \in Shared
    <3>1. S = Shared BY <2>1 DEF SameBucket
    <3>2. (CHOOSE op \in S : TRUE) \in Shared BY <2>1, <3>1
    <3> QED BY <2>1, <3>2 DEF Bucket
  <2>2. CASE Operation[o] \notin Shared
    <3>1. S = {Operation[o]} BY <2>2 DEF SameBucket
    <3> QED BY <1>1, <3>1
  <2> QED BY <2>1, <2>2
<1>3. Used(books, Home[o], S) = Used(books, Home[o], {Operation[o]}) BY DEF OtherSpeech
<1> HIDE DEF S
<1>4. Countable(books, Home[o], {Operation[o]}, n) = Countable(books, Home[o], S, n)
  BY <1>1, <1>2, <1>3 DEF Countable
<1> QED BY <1>4 DEF S

(* readmit_owned: no other speech was used in the new month.               *)
LEMMA ReadmitAgrees ==
  ASSUME SoundConstants, LedgerInv, NEW o \in Owners, ~(Late(o) /\ OtherSpeech(o))
  PROVE Agree(Readmit("postgres", books, o), Readmit("memory", AsMemory(books), o))
<1> DEFINE m == AsMemory(books)
           b == Bucket(Operation[o])
           left == Positive(InBucket(books, o, Row(o).month) - Row(o).units)
           here == InBucket(books, o, month) + Row(o).units
           New(l) == Readmitted(l, o)
           Free(l, ops) == /\ Affordable(l, Home[o], Residual(books, o))
                           /\ Row(o).status = "reserved" => Countable(l, Home[o], ops, Row(o).units)
           r == [Row(o) EXCEPT !.month = month]
           h == IF Row(o).status = "reserved"
                THEN CounterWith(CounterWith(books.held, Home[o], Row(o).month, b, left),
                                 Home[o], month, b, here)
                ELSE books.held
<1>1. TypeOK /\ books.owned[o] = Row(o) /\ books.owned \in [Owners -> OwnerRows]
  BY RowFound DEF TypeOK
<1>2. TwinTables(books) /\ TwinTables(m) BY <1>1, MemoryTables
<1>3. m.owned[o] = Row(o) /\ m.held = books.held BY <1>1, <1>2 DEF TwinTables
<1>4. ASSUME NEW yes PROVE Agree(Answer(yes, books), Answer(yes, m)) BY <1>1, BothStay
<1>5. InBucket(m, o, month) = InBucket(books, o, month)
      /\ InBucket(m, o, Row(o).month) = InBucket(books, o, Row(o).month)
      /\ Residual(m, o) = Residual(books, o)
  BY <1>1, <1>3 DEF InBucket, Residual
<1>6. \A ops : Free(m, ops) = Free(books, ops) BY <1>2, TwinLimits
<1>7. Late(o) => Free(books, {Operation[o]}) = Free(books, SameBucket(Operation[o]))
  BY SameCount
<1>8. ASSUME NEW yes, Row(o).status # "none"
      PROVE Agree(Answer(yes, New(books)), Answer(yes, New(m)))
  <2>1. ASSUME NEW l, TwinTables(l)
        PROVE /\ New(l).owned = [books.owned EXCEPT ![o].month = month]
              /\ New(l).events = books.events /\ New(l).held = h
    BY <1>8, <2>1, ReadmitWrites
  <2> HIDE DEF New, m, h
  <2>2. /\ New(books).owned = [books.owned EXCEPT ![o].month = month]
        /\ New(m).owned = [books.owned EXCEPT ![o].month = month]
        /\ New(books).events = New(m).events /\ New(books).held = New(m).held
    BY <1>2, <2>1
  <2>3. [books.owned EXCEPT ![o].month = month] = [books.owned EXCEPT ![o] = r] BY <1>1
  <2> HIDE DEF r
  <2> QED BY <1>1, <2>2, <2>3, BothChange
<1>9. CASE Row(o).status \notin Live
  <2> HIDE DEF m
  <2>1. Readmit("postgres", books, o) = Answer(FALSE, books) BY <1>1, <1>9 DEF Readmit
  <2>2. Readmit("memory", m, o) = Answer(FALSE, m) BY <1>3, <1>9 DEF Readmit
  <2> QED BY <1>4, <2>1, <2>2 DEF m
<1>10. CASE Row(o).status \in Live /\ ~Late(o)
  <2> HIDE DEF m
  <2>1. Readmit("postgres", books, o) = Answer(TRUE, books) BY <1>1, <1>10 DEF Readmit, Late
  <2>2. Readmit("memory", m, o) = Answer(TRUE, m) BY <1>1, <1>3, <1>10 DEF Readmit, Late
  <2> QED BY <1>4, <2>1, <2>2 DEF m
<1>11. CASE Row(o).status \in Live /\ Late(o)
  <2> HIDE DEF m
  <2>1. Readmit("postgres", books, o)
          = IF Free(books, {Operation[o]}) THEN Answer(TRUE, New(books)) ELSE Answer(FALSE, books)
    BY <1>11 DEF Readmit, Readmitted, MovedOn, Restored, Late, Row
  <2>2. Readmit("memory", m, o)
          = IF Free(m, SameBucket(Operation[o])) THEN Answer(TRUE, New(m)) ELSE Answer(FALSE, m)
    BY <1>1, <1>3, <1>5, <1>11 DEF Readmit, Readmitted, MovedOn, Restored, Late
  <2>3. Row(o).status # "none" BY <1>11 DEF Live
  <2> HIDE DEF Free, New
  <2>4. Free(books, {Operation[o]}) = Free(m, SameBucket(Operation[o])) BY <1>6, <1>7, <1>11
  <2> QED BY <1>4, <1>8, <2>1, <2>2, <2>3, <2>4 DEF m
<1> QED BY <1>9, <1>10, <1>11
(* authorize_owned_attempt, for an owner that is live.                     *)
LEMMA AuthorizeAgrees ==
  ASSUME SoundConstants, LedgerInv, NEW o \in Owners, NEW a \in Attempts, ~Closed(o)
  PROVE Agree(Authorize("postgres", books, o, a), Authorize("memory", AsMemory(books), o, a))
<1> DEFINE m == AsMemory(books)
           known(l) == l.tried[o][a] # "none"
           sum(l) == CallCost[o] * Cardinality({b \in Attempts : l.tried[o][b] # "none"})
           fits(l) == ~known(l) /\ sum(l) + CallCost[o] <= Row(o).est
           New(l) == [l EXCEPT !.tried[o][a] = "authorized"]
<1>1. TypeOK /\ books.owned[o] = Row(o) BY RowFound
<1>2. TwinTables(books) /\ TwinTables(m) BY <1>1, MemoryTables
<1>3. m.owned[o] = Row(o) BY <1>1, <1>2 DEF TwinTables
<1>4. Row(o).status \in Live BY DEF Closed
<1>5. \A b \in Attempts : m.tried[o][b] = books.tried[o][b] BY <1>4, SameAttempts
<1>6. {b \in Attempts : m.tried[o][b] # "none"} = {b \in Attempts : books.tried[o][b] # "none"}
  BY <1>5
<1>7. (known(m) <=> known(books)) /\ (fits(m) <=> fits(books)) BY <1>5, <1>6
<1>8. \A yes : Agree(Answer(yes, books), Answer(yes, m)) BY <1>1, BothStay
<1>9. \A yes : Agree(Answer(yes, New(books)), Answer(yes, New(m)))
  <2>1. ASSUME NEW l, TwinTables(l)
        PROVE New(l).owned = books.owned /\ New(l).held = books.held
              /\ New(l).events = books.events
    BY <2>1 DEF TwinTables, IsBooks
  <2> HIDE DEF New, m
  <2>2. New(books).owned = New(m).owned /\ New(books).held = New(m).held
        /\ New(books).events = New(m).events
    BY <1>2, <2>1
  <2> QED BY <2>2 DEF Agree, Answer
<1>10. Authorize("postgres", books, o, a)
         = IF known(books) THEN Answer(TRUE, books)
           ELSE IF fits(books) THEN Answer(TRUE, New(books)) ELSE Answer(FALSE, books)
  BY <1>1, <1>4 DEF Authorize
<1> HIDE DEF m
<1>11. Authorize("memory", m, o, a)
         = IF known(m) THEN Answer(TRUE, m)
           ELSE IF fits(m) THEN Answer(TRUE, New(m)) ELSE Answer(FALSE, m)
  BY <1>3, <1>4 DEF Authorize
<1> HIDE DEF known, fits, New
<1> QED BY <1>7, <1>8, <1>9, <1>10, <1>11 DEF m

(* record_owned_event, for an owner that is live.                          *)
LEMMA RecordAgrees ==
  ASSUME SoundConstants, LedgerInv, NEW o \in Owners, NEW a \in Attempts, ~Closed(o)
  PROVE Agree(Record("postgres", books, o, Key[o][a], a),
              Record("memory", AsMemory(books), o, Key[o][a], a))
<1> DEFINE m == AsMemory(books)
           e == [owner |-> o, key |-> Key[o][a], ws |-> Home[o], op |-> Operation[o],
                 month |-> month, cost |-> CallCost[o], promised |-> Row(o).month = month]
           seen == \E d \in books.events : d.owner = o /\ d.key = Key[o][a]
           pTakes == Row(o).units > 0 /\ ("postgres" = "postgres" => Row(o).status = "reserved")
           mTakes == Row(o).units > 0 /\ ("memory" = "postgres" => Row(o).status = "reserved")
           pSum == IF "postgres" = "postgres" /\ Row(o).settled + CallCost[o] > Row(o).est
                   THEN Row(o).est ELSE Row(o).settled + CallCost[o]
           mSum == IF "memory" = "postgres" /\ Row(o).settled + CallCost[o] > Row(o).est
                   THEN Row(o).est ELSE Row(o).settled + CallCost[o]
           pPaid == Paying(books, o, a, e, pSum, pTakes)
           mPaid == Paying(m, o, a, e, mSum, mTakes)
           pEnd == IF "postgres" = "memory"
                   THEN IF pPaid.owned[o].units = 0 THEN "consumed" ELSE "reserved"
                   ELSE IF pTakes /\ Row(o).units - 1 = 0 THEN "consumed" ELSE Row(o).status
           mEnd == IF "memory" = "memory"
                   THEN IF mPaid.owned[o].units = 0 THEN "consumed" ELSE "reserved"
                   ELSE IF mTakes /\ Row(o).units - 1 = 0 THEN "consumed" ELSE Row(o).status
           p == WithStatus(pPaid, o, pEnd)
           n == WithStatus(mPaid, o, mEnd)
           pShut == \/ books.tried[o][a] = "none"
                    \/ "postgres" = "postgres" /\ books.tried[o][a] # "authorized"
           mShut == \/ m.tried[o][a] = "none"
                    \/ "memory" = "postgres" /\ m.tried[o][a] # "authorized"
<1>1. TypeOK /\ books.owned[o] = Row(o) /\ Row(o) \in OwnerRows
      /\ books.owned \in [Owners -> OwnerRows] /\ books.tried[o] \in AttemptRows
      /\ RowSound(o, Row(o), books.tried[o], Paid(books.events, o), month)
  BY RowFound DEF TypeOK
<1>2. TwinTables(books) /\ TwinTables(m) BY <1>1, MemoryTables
<1>3. m.owned[o] = Row(o) /\ m.events = books.events /\ m.held = books.held
      /\ InBucket(m, o, Row(o).month) = InBucket(books, o, Row(o).month)
  BY <1>1, <1>2 DEF TwinTables, InBucket
<1>4. Row(o).status \in Live /\ Row(o).status \notin {"none", "cancelled"}
  BY DEF Closed, Live
<1>5. m.tried[o][a] = books.tried[o][a] BY <1>4, SameAttempts
<1>6. \A yes : Agree(Answer(yes, books), Answer(yes, m)) BY <1>1, BothStay
<1>7. seen \/ (pShut <=> mShut)
  <2>1. books.tried[o][a] \in {"none", "authorized", "accounted", "unknown"}
        /\ books.tried[o][a] # "unknown"
    BY <1>1, <1>4 DEF AttemptRows, RowSound
  <2>2. books.tried[o][a] = "accounted" => seen
    BY DEF LedgerInv, EventsSound, Noticed, Accounted
  <2> QED BY <1>5, <2>1, <2>2
<1>8. ASSUME ~pShut PROVE \A yes : Agree(Answer(yes, p), Answer(yes, n))
  <2>1. Row(o).settled + CallCost[o] <= Row(o).est /\ CallCost[o] \in Nat
    BY <1>4, <1>8, OpenFits DEF SoundConstants
  <2>2. pSum = Row(o).settled + CallCost[o] /\ mSum = Row(o).settled + CallCost[o]
    BY <1>1, <2>1 DEF OwnerRows
  <2>3. /\ pTakes \in BOOLEAN /\ mTakes \in BOOLEAN /\ (pTakes <=> mTakes)
        /\ (pTakes <=> Row(o).status = "reserved") /\ (pTakes <=> Row(o).units > 0)
    BY <1>1 DEF RowSound
  <2>4. pEnd = (IF pTakes /\ Row(o).units = 1 THEN "consumed" ELSE Row(o).status)
    BY <1>1 DEF OwnerRows
  <2>5. mEnd = (IF mTakes /\ Row(o).units = 1 THEN "consumed" ELSE Row(o).status)
    <3> HIDE DEF e, m, mSum, mTakes
    <3>1. mPaid.owned = [books.owned EXCEPT ![o] = Charged(Row(o), mSum, mTakes)]
      BY <1>2, <1>4, <2>3, PayingWrites
    <3>2. mPaid.owned[o] = Charged(Row(o), mSum, mTakes) BY <1>1, <3>1
    <3>3. mPaid.owned[o].units = IF mTakes THEN Row(o).units - 1 ELSE Row(o).units
      BY <1>1, <3>2 DEF Charged, OwnerRows
    <3>4. Row(o).units \in Nat /\ Row(o).status \in Live BY <1>1, <1>4 DEF OwnerRows
    <3> HIDE DEF mPaid
    <3> QED BY <2>3, <3>3, <3>4 DEF Live
  <2>6. p = Recorded(books, o, a, e, pSum, pTakes, pEnd)
        /\ n = Recorded(m, o, a, e, mSum, mTakes, mEnd)
    BY DEF Recorded
  <2> DEFINE r == PaidRow(Row(o), CallCost[o], pTakes)
             s == PaidRow(Row(o), CallCost[o], mTakes)
  <2>7. r.status = s.status /\ r.month = s.month /\ r.est = s.est /\ r.settled = s.settled
    <3> HIDE DEF pTakes, mTakes
    <3> QED BY <1>1, <2>3 DEF PaidRow, OwnerRows
  <2> HIDE DEF e, m, pSum, mSum, pTakes, mTakes, pEnd, mEnd, p, n, r, s
  <2>8. RecordLeaves(p, books, o, a, e, pTakes)
    BY <1>2, <1>4, <2>2, <2>3, <2>4, <2>6, RecordWrites
  <2>9. RecordLeaves(n, m, o, a, e, mTakes)
    BY <1>2, <1>4, <2>2, <2>3, <2>5, <2>6, RecordWrites
  <2>10. p.owned = [books.owned EXCEPT ![o] = r] /\ n.owned = [books.owned EXCEPT ![o] = s]
         /\ (~stray => p.held = n.held) /\ p.events = n.events
    BY <2>3, <2>8, <2>9 DEF RecordLeaves, WritesEvent, r, s
  <2> QED BY <1>1, <2>7, <2>10, BothChange
<1>9. Record("postgres", books, o, Key[o][a], a)
        = IF Row(o).status \in {"none", "cancelled"} THEN Answer(FALSE, books)
          ELSE IF seen THEN Answer(TRUE, books)
          ELSE IF pShut THEN Answer(FALSE, books) ELSE Answer(TRUE, p)
  BY DEF Record, Row, Paying, Noted, WithUnits, WithStatus
<1>10. Record("memory", m, o, Key[o][a], a)
        = IF Row(o).status \in {"none", "cancelled"} THEN Answer(FALSE, m)
          ELSE IF seen THEN Answer(TRUE, m)
          ELSE IF mShut THEN Answer(FALSE, m) ELSE Answer(TRUE, n)
  <2> HIDE DEF m
  <2> QED BY <1>3 DEF Record, Paying, Noted, WithUnits, WithStatus
<1> HIDE DEF seen, pShut, mShut, p, n, m
<1> QED BY <1>4, <1>6, <1>7, <1>8, <1>9, <1>10 DEF m
(* The double answers every call as Postgres does.                         *)
LEMMA InvIsTwinsAgree == ASSUME SoundConstants, LedgerInv PROVE TwinsAgree
<1> SUFFICES ASSUME NEW o \in Owners
             PROVE /\ (Late(o) /\ ~Closed(o)) \/ Alike(LAMBDA t, l : Reserve(t, l, o))
                   /\ Alike(LAMBDA t, l : Cancel(t, l, o))
                   /\ Alike(LAMBDA t, l : Settle(t, l, o, TRUE))
                   /\ PartlyUsed(o) \/ Alike(LAMBDA t, l : Settle(t, l, o, FALSE))
                   /\ PartlyUsed(o) \/ Alike(LAMBDA t, l : FinalizeRevoked(t, l, o))
                   /\ (Late(o) /\ OtherSpeech(o)) \/ Alike(LAMBDA t, l : Readmit(t, l, o))
                   /\ \A a \in Attempts :
                        \/ Closed(o)
                        \/ /\ Alike(LAMBDA t, l : Authorize(t, l, o, a))
                           /\ <<o, a>> \in granted =>
                                Alike(LAMBDA t, l : Record(t, l, o, Key[o][a], a))
  BY DEF TwinsAgree
<1>1. (Late(o) /\ ~Closed(o)) \/ Alike(LAMBDA t, l : Reserve(t, l, o))
  BY ReserveAgrees DEF Alike, Agree
<1>2. Alike(LAMBDA t, l : Cancel(t, l, o)) BY CancelAgrees DEF Alike, Agree
<1>3. Alike(LAMBDA t, l : Settle(t, l, o, TRUE))
  <2>1. Agree(Settle("postgres", books, o, TRUE), Settle("memory", AsMemory(books), o, TRUE))
    BY SettleAgrees
  <2> QED BY <2>1 DEF Alike, Agree
<1>4. PartlyUsed(o) \/ Alike(LAMBDA t, l : Settle(t, l, o, FALSE))
  <2>1. CASE ~PartlyUsed(o)
    <3>1. Agree(Settle("postgres", books, o, FALSE), Settle("memory", AsMemory(books), o, FALSE))
      BY <2>1, SettleAgrees
    <3> QED BY <3>1 DEF Alike, Agree
  <2> QED BY <2>1
<1>5. PartlyUsed(o) \/ Alike(LAMBDA t, l : FinalizeRevoked(t, l, o))
  BY FinalizeAgrees DEF Alike, Agree
<1>6. (Late(o) /\ OtherSpeech(o)) \/ Alike(LAMBDA t, l : Readmit(t, l, o))
  BY ReadmitAgrees DEF Alike, Agree
<1>7. ASSUME NEW a \in Attempts, ~Closed(o)
      PROVE /\ Alike(LAMBDA t, l : Authorize(t, l, o, a))
            /\ Alike(LAMBDA t, l : Record(t, l, o, Key[o][a], a))
  <2>1. Agree(Authorize("postgres", books, o, a), Authorize("memory", AsMemory(books), o, a))
    BY <1>7, AuthorizeAgrees
  <2>2. Agree(Record("postgres", books, o, Key[o][a], a),
              Record("memory", AsMemory(books), o, Key[o][a], a))
    BY <1>7, RecordAgrees
  <2>3. Alike(LAMBDA t, l : Authorize(t, l, o, a)) BY <2>1 DEF Alike, Agree
  <2>4. Alike(LAMBDA t, l : Record(t, l, o, Key[o][a], a)) BY <2>2 DEF Alike, Agree
  <2> QED BY <2>3, <2>4
<1> QED BY <1>1, <1>2, <1>3, <1>4, <1>5, <1>6, <1>7

(* InMemoryUsageStorage, which the tests of everything above the ledger    *)
(* run on, answers each operation as the statements of Postgres do and     *)
(* leaves the same rows, the same counters and the same events, in every   *)
(* state and for every owner, except where the property says so.           *)
THEOREM LedgerTwinsAgree == SoundConstants => (LedgerSpec => []TwinsAgree)
<1> SUFFICES ASSUME SoundConstants PROVE LedgerSpec => []TwinsAgree OBVIOUS
<1>1. LedgerSpec => []LedgerInv BY LedgerIsSound
<1>2. LedgerInv => TwinsAgree BY InvIsTwinsAgree
<1> QED BY <1>1, <1>2, PTL
=============================================================================
