------------------------------ MODULE SumTheorems ------------------------------
(***************************************************************************)
(* Finite sums.  SumFunctionOnSet is a fold: a function over the subsets   *)
(* of a set that CHOOSE picks by an equation.  Here it is shown that there *)
(* is such a function, that its value does not depend on the set it was    *)
(* picked for, and from there what one expects of a sum.  Where an         *)
(* argument goes by induction it takes a smallest counterexample instead:  *)
(* a set of counterexamples is a set, which the provers can instantiate.   *)
(***************************************************************************)
EXTENDS Integers, FiniteSets, Functions, FiniteSetTheorems, WellFoundedInduction, TLAPS

(* One step of the fold, and the equation CHOOSE solves.                   *)
Chosen(s) == CHOOSE x \in s : TRUE
Step(g, f, s) == IF s = {} THEN 0 ELSE f[Chosen(s)] + g[s \ {Chosen(s)}]
Folds(g, f, S) == g = [s \in SUBSET S |-> Step(g, f, s)]

(* What is picked is there.                                                *)
LEMMA ChosenIn == \A s : s # {} => Chosen(s) \in s
BY DEF Chosen

(* A set of natural numbers has a least one.                               *)
LEMMA LeastNumber ==
  ASSUME NEW T, T \subseteq Nat, T # {}
  PROVE \E n \in T : \A m \in T : ~(m < n)
<1> DEFINE R == OpToRel(<, Nat)
<1>1. R = {ss \in Nat \X Nat : ss[1] < ss[2]} BY DEF OpToRel
<1>2. IsWellFoundedOn(R, Nat) BY NatLessThanWellFounded
<1>3. \A m, n \in Nat : m < n => <<m, n>> \in R BY <1>1
<1> HIDE DEF R
<1>4. \E x \in T : \A y \in T : ~(<<y, x>> \in R) BY <1>2, WFMin
<1> QED BY <1>3, <1>4

(* A family of finite sets has a smallest member.                          *)
LEMMA LeastSet ==
  ASSUME NEW S, IsFiniteSet(S), NEW T, T \subseteq SUBSET S, T # {}
  PROVE \E t \in T : \A s \in T : s \subseteq t => s = t
<1> DEFINE N == {Cardinality(t) : t \in T}
<1>1. \A t \in T : IsFiniteSet(t) /\ Cardinality(t) \in Nat BY FS_Subset, FS_CardinalityType
<1>2. N \subseteq Nat /\ N # {} BY <1>1
<1>3. PICK n \in N : \A m \in N : ~(m < n) BY <1>2, LeastNumber
<1>4. PICK t \in T : Cardinality(t) = n BY <1>3
<1>5. ASSUME NEW s \in T, s \subseteq t PROVE s = t
  <2>1. Cardinality(s) <= Cardinality(t) /\ (Cardinality(t) = Cardinality(s) => t = s)
    BY <1>1, <1>5, FS_Subset
  <2>2. ~(Cardinality(s) < n) BY <1>3
  <2> QED BY <2>1, <2>2, <1>4, <1>1
<1> QED BY <1>5

(* The sum is the value of some function that solves the equation.         *)
LEMMA Unfold ==
  ASSUME NEW f, NEW S, \E g : Folds(g, f, S)
  PROVE \E g : Folds(g, f, S) /\ SumFunctionOnSet(f, S) = g[S]
<1> DEFINE G == CHOOSE g : Folds(g, f, S)
<1>1. Folds(G, f, S) OBVIOUS
<1>2. SumFunctionOnSet(f, S) = G[S]
  BY DEF SumFunctionOnSet, FoldFunctionOnSet, MapThenFoldSet, Folds, Step, Chosen
<1> QED BY <1>1, <1>2

(* A set loses one element in a step.                                      *)
LEMMA Removed ==
  ASSUME NEW S, IsFiniteSet(S), NEW s \in SUBSET S, s # {}
  PROVE /\ Chosen(s) \in S /\ s \ {Chosen(s)} \in SUBSET S
        /\ Cardinality(s) \in Nat /\ Cardinality(s \ {Chosen(s)}) \in Nat
        /\ Cardinality(s \ {Chosen(s)}) < Cardinality(s)
<1>1. Chosen(s) \in s BY ChosenIn
<1>2. IsFiniteSet(s) BY FS_Subset
<1> HIDE DEF Chosen
<1>3. Cardinality(s) \in Nat /\ Cardinality(s \ {Chosen(s)}) = Cardinality(s) - 1
  BY <1>1, <1>2, FS_RemoveElement, FS_CardinalityType
<1>4. Cardinality(s \ {Chosen(s)}) \in Nat BY <1>2, FS_RemoveElement, FS_CardinalityType
<1> QED BY <1>1, <1>3, <1>4

(* The equation at one set.                                                *)
LEMMA FoldsAt ==
  ASSUME NEW g, NEW f, NEW S, Folds(g, f, S), NEW s \in SUBSET S
  PROVE g[s] = Step(g, f, s)
<1> DEFINE h == [u \in SUBSET S |-> Step(g, f, u)]
<1>1. g = h BY DEF Folds
<1>2. h[s] = Step(g, f, s) OBVIOUS
<1> HIDE DEF h
<1> QED BY <1>1, <1>2

(* The equation has a solution.                                            *)
LEMMA FoldExists ==
  ASSUME NEW S, IsFiniteSet(S), NEW f, \A x \in S : f[x] \in Int
  PROVE \E g \in [SUBSET S -> Int] : Folds(g, f, S)
<1> DEFINE Upto(g, n) == \A s \in SUBSET S : Cardinality(s) <= n => g[s] = Step(g, f, s)
           Bad == {n \in Nat : ~\E g \in [SUBSET S -> Int] : Upto(g, n)}
<1>1. Bad = {}
  <2> SUFFICES ASSUME Bad # {} PROVE FALSE OBVIOUS
  <2>1. PICK n \in Bad : \A m \in Bad : ~(m < n) BY LeastNumber
  <2>2. CASE n = 0
    <3> DEFINE g == [s \in SUBSET S |-> 0]
    <3>1. g \in [SUBSET S -> Int] OBVIOUS
    <3>2. Upto(g, 0)
      <4> SUFFICES ASSUME NEW s \in SUBSET S, Cardinality(s) <= 0 PROVE g[s] = Step(g, f, s) OBVIOUS
      <4>1. s = {} BY FS_Subset, FS_CardinalityType, FS_EmptySet
      <4> QED BY <4>1 DEF Step
    <3> QED BY <2>1, <2>2, <3>1, <3>2
  <2>3. CASE n # 0
    <3>0. n \in Nat BY <2>1
    <3>7. n - 1 \in Nat /\ n - 1 < n BY <3>0, <2>3
    <3>1. n - 1 \in Nat /\ n - 1 \notin Bad BY <2>1, <3>7
    <3>2. PICK g \in [SUBSET S -> Int] : Upto(g, n - 1) BY <3>1
    <3> DEFINE h == [s \in SUBSET S |-> Step(g, f, s)]
    <3>3. h \in [SUBSET S -> Int]
      <4> SUFFICES ASSUME NEW s \in SUBSET S PROVE Step(g, f, s) \in Int OBVIOUS
      <4>1. CASE s = {} BY <4>1 DEF Step
      <4>2. CASE s # {}
        <5>1. f[Chosen(s)] \in Int /\ g[s \ {Chosen(s)}] \in Int BY <4>2, Removed, <3>2
        <5> QED BY <4>2, <5>1 DEF Step
      <4> QED BY <4>1, <4>2
    <3>5. \A s \in SUBSET S : h[s] = Step(g, f, s) OBVIOUS
    <3> HIDE DEF h
    <3>4. Upto(h, n)
      <4> SUFFICES ASSUME NEW s \in SUBSET S, Cardinality(s) <= n
                   PROVE Step(g, f, s) = Step(h, f, s)
        BY <3>5
      <4>1. CASE s = {} BY <4>1 DEF Step
      <4>2. CASE s # {}
        <5> DEFINE q == s \ {Chosen(s)}
        <5>1. q \in SUBSET S /\ Cardinality(q) <= n - 1 BY <4>2, Removed
        <5> HIDE DEF q
        <5>2. g[q] = Step(g, f, q) BY <3>2, <5>1
        <5>3. h[q] = g[q] BY <5>1, <5>2, <3>5
        <5> QED BY <5>3, <4>2 DEF Step, q
      <4> QED BY <4>1, <4>2
    <3> QED BY <2>1, <3>3, <3>4
  <2> QED BY <2>2, <2>3
<1>2. PICK g \in [SUBSET S -> Int] : Upto(g, Cardinality(S)) BY <1>1, FS_CardinalityType
<1>3. \A s \in SUBSET S : g[s] = Step(g, f, s) BY <1>2, FS_Subset
<1>5. g = [s \in SUBSET S |-> g[s]] OBVIOUS
<1>6. [s \in SUBSET S |-> g[s]] = [s \in SUBSET S |-> Step(g, f, s)] BY <1>3
<1>4. Folds(g, f, S) BY <1>5, <1>6 DEF Folds
<1> QED BY <1>4

(* Solutions for two sets agree where both are defined.                    *)
LEMMA FoldsAgree ==
  ASSUME NEW S, IsFiniteSet(S), NEW f, NEW g, NEW h, NEW R \in SUBSET S,
         Folds(g, f, S), Folds(h, f, R)
  PROVE \A s \in SUBSET R : g[s] = h[s]
<1> DEFINE Bad == {s \in SUBSET R : g[s] # h[s]}
<1> SUFFICES ASSUME Bad # {} PROVE FALSE OBVIOUS
<1>1. IsFiniteSet(R) BY FS_Subset
<1>2. PICK t \in Bad : \A s \in Bad : s \subseteq t => s = t
  <2>1. Bad \subseteq SUBSET R OBVIOUS
  <2> HIDE DEF Bad
  <2> QED BY <1>1, <2>1, LeastSet
<1>3. g[t] = Step(g, f, t) /\ h[t] = Step(h, f, t)
  <2>1. t \in SUBSET S /\ t \in SUBSET R BY <1>2
  <2>2. g[t] = Step(g, f, t) BY <2>1, FoldsAt
  <2>3. h[t] = Step(h, f, t) BY <2>1, FoldsAt
  <2> QED BY <2>2, <2>3
<1>4. t # {} BY <1>3 DEF Step
<1>5. t \ {Chosen(t)} \notin Bad BY <1>2, <1>4, ChosenIn
<1>6. t \ {Chosen(t)} \in SUBSET R BY <1>2
<1>7. g[t \ {Chosen(t)}] = h[t \ {Chosen(t)}] BY <1>5, <1>6
<1>8. g[t] = h[t] BY <1>3, <1>4, <1>7 DEF Step
<1> QED BY <1>2, <1>8

(* Numbers that can be added; a function that holds every partial sum.     *)
Summable(f, S) == IsFiniteSet(S) /\ \A x \in S : f[x] \in Int

Sums(g, f, S) ==
  g \in [SUBSET S -> Int] /\ Folds(g, f, S) /\ \A s \in SUBSET S : SumFunctionOnSet(f, s) = g[s]

(* So one function holds the sums over all parts of a set.                 *)
LEMMA SumFolds == ASSUME NEW S, NEW f, Summable(f, S) PROVE \E g : Sums(g, f, S)
<1>1. PICK g \in [SUBSET S -> Int] : Folds(g, f, S) BY FoldExists DEF Summable
<1>2. ASSUME NEW s \in SUBSET S PROVE SumFunctionOnSet(f, s) = g[s]
  <2>1. IsFiniteSet(s) /\ \A x \in s : f[x] \in Int BY FS_Subset DEF Summable
  <2>2. PICK h : Folds(h, f, s) /\ SumFunctionOnSet(f, s) = h[s] BY <2>1, FoldExists, Unfold
  <2> QED BY <1>1, <2>2, FoldsAgree DEF Summable
<1> QED BY <1>1, <1>2 DEF Sums

(* Nothing adds up to 0.                                                   *)
LEMMA SumEmpty == \A f : SumFunctionOnSet(f, {}) = 0
<1> SUFFICES ASSUME NEW f PROVE SumFunctionOnSet(f, {}) = 0 OBVIOUS
<1>1. Summable(f, {}) BY FS_EmptySet DEF Summable
<1>2. PICK g : Sums(g, f, {}) BY <1>1, SumFolds
<1>3. SumFunctionOnSet(f, {}) = g[{}] /\ Folds(g, f, {}) BY <1>2 DEF Sums
<1> QED BY <1>3, FoldsAt DEF Step

(* A sum is a number.                                                      *)
LEMMA SumType == ASSUME NEW S, NEW f, Summable(f, S) PROVE SumFunctionOnSet(f, S) \in Int
<1>1. PICK g : Sums(g, f, S) BY SumFolds
<1> QED BY <1>1 DEF Sums

(* The sum with the picked element set apart,                              *)
LEMMA SumPicked ==
  ASSUME NEW S, NEW f, Summable(f, S), S # {}
  PROVE SumFunctionOnSet(f, S) = f[Chosen(S)] + SumFunctionOnSet(f, S \ {Chosen(S)})
<1>1. PICK g : Sums(g, f, S) BY SumFolds
<1>2. Folds(g, f, S) /\ SumFunctionOnSet(f, S) = g[S]
      /\ SumFunctionOnSet(f, S \ {Chosen(S)}) = g[S \ {Chosen(S)}]
  BY <1>1 DEF Sums
<1>3. g[S] = Step(g, f, S) BY <1>2, FoldsAt
<1> QED BY <1>2, <1>3 DEF Step

(* and with any other: the order of the addition does not matter.          *)
LEMMA SumOne ==
  ASSUME NEW S, NEW f, Summable(f, S), NEW e \in S
  PROVE SumFunctionOnSet(f, S) = f[e] + SumFunctionOnSet(f, S \ {e})
<1> DEFINE Bad == {s \in SUBSET S : \E x \in s :
                    SumFunctionOnSet(f, s) # f[x] + SumFunctionOnSet(f, s \ {x})}
<1> SUFFICES ASSUME Bad # {} PROVE FALSE BY DEF Bad
<1>1. PICK t \in Bad : \A s \in Bad : s \subseteq t => s = t
  <2>1. Bad \subseteq SUBSET S /\ IsFiniteSet(S) BY DEF Summable
  <2> HIDE DEF Bad
  <2> QED BY <2>1, LeastSet
<1>2. PICK x \in t : SumFunctionOnSet(f, t) # f[x] + SumFunctionOnSet(f, t \ {x}) BY <1>1
<1> DEFINE p == Chosen(t)
<1>3. p \in t BY <1>2, ChosenIn
<1>4. \A s \in SUBSET S : Summable(f, s) BY FS_Subset DEF Summable
<1> HIDE DEF p
<1>5. SumFunctionOnSet(f, t) = f[p] + SumFunctionOnSet(f, t \ {p}) BY <1>2, <1>4, SumPicked DEF p
<1>6. p # x BY <1>2, <1>5
<1>7. t \ {p} \notin Bad /\ t \ {x} \notin Bad BY <1>1, <1>2, <1>3
<1>8. SumFunctionOnSet(f, t \ {p}) = f[x] + SumFunctionOnSet(f, (t \ {p}) \ {x}) BY <1>7, <1>6, <1>2
<1>9. SumFunctionOnSet(f, t \ {x}) = f[p] + SumFunctionOnSet(f, (t \ {x}) \ {p}) BY <1>7, <1>6, <1>3
<1>10. (t \ {p}) \ {x} = (t \ {x}) \ {p} OBVIOUS
<1>11. SumFunctionOnSet(f, (t \ {p}) \ {x}) \in Int BY <1>4, SumType
<1>12. f[x] \in Int /\ f[p] \in Int BY <1>2, <1>3 DEF Summable
<1>13. SumFunctionOnSet(f, t) = f[x] + SumFunctionOnSet(f, t \ {x})
  <2> DEFINE z == SumFunctionOnSet(f, (t \ {p}) \ {x})
  <2>1. SumFunctionOnSet(f, t) = f[p] + (f[x] + z) BY <1>5, <1>8
  <2>2. SumFunctionOnSet(f, t \ {x}) = f[p] + z BY <1>9, <1>10
  <2>3. z \in Int BY <1>11
  <2> HIDE DEF z
  <2> QED BY <2>1, <2>2, <2>3, <1>12
<1> QED BY <1>2, <1>13
(* Equal terms have equal sums.                                            *)
LEMMA SumCongruence ==
  ASSUME NEW S, NEW f, NEW g, Summable(f, S), \A x \in S : f[x] = g[x]
  PROVE SumFunctionOnSet(f, S) = SumFunctionOnSet(g, S)
<1> DEFINE Bad == {s \in SUBSET S : SumFunctionOnSet(f, s) # SumFunctionOnSet(g, s)}
<1> SUFFICES ASSUME Bad # {} PROVE FALSE BY DEF Bad
<1>1. PICK t \in Bad : \A s \in Bad : s \subseteq t => s = t
  <2>1. Bad \subseteq SUBSET S /\ IsFiniteSet(S) BY DEF Summable
  <2> HIDE DEF Bad
  <2> QED BY <2>1, LeastSet
<1>2. t \in SUBSET S BY <1>1
<1>3. Summable(f, t) /\ Summable(g, t) BY <1>2, FS_Subset DEF Summable
<1>4. t # {} BY <1>1, SumEmpty
<1>5. PICK x \in t : TRUE BY <1>4
<1>6. t \ {x} \notin Bad BY <1>1, <1>5
<1>7. SumFunctionOnSet(f, t \ {x}) = SumFunctionOnSet(g, t \ {x}) BY <1>6, <1>2
<1>8. SumFunctionOnSet(f, t) = f[x] + SumFunctionOnSet(f, t \ {x}) BY <1>3, <1>5, SumOne
<1>9. SumFunctionOnSet(g, t) = g[x] + SumFunctionOnSet(g, t \ {x}) BY <1>3, <1>5, SumOne
<1>10. f[x] = g[x] BY <1>2, <1>5
<1>11. SumFunctionOnSet(f, t) = SumFunctionOnSet(g, t) BY <1>7, <1>8, <1>9, <1>10
<1> QED BY <1>1, <1>11

(* Smaller terms have a smaller sum.                                       *)
LEMMA SumMonotone ==
  ASSUME NEW S, NEW f, NEW g, Summable(f, S), Summable(g, S), \A x \in S : f[x] <= g[x]
  PROVE SumFunctionOnSet(f, S) <= SumFunctionOnSet(g, S)
<1> DEFINE Bad == {s \in SUBSET S : ~(SumFunctionOnSet(f, s) <= SumFunctionOnSet(g, s))}
<1> SUFFICES ASSUME Bad # {} PROVE FALSE BY DEF Bad
<1>1. PICK t \in Bad : \A s \in Bad : s \subseteq t => s = t
  <2>1. Bad \subseteq SUBSET S /\ IsFiniteSet(S) BY DEF Summable
  <2> HIDE DEF Bad
  <2> QED BY <2>1, LeastSet
<1>2. t \in SUBSET S BY <1>1
<1>3. \A s \in SUBSET S : Summable(f, s) /\ Summable(g, s) BY FS_Subset DEF Summable
<1>4. t # {}
  <2> SUFFICES ASSUME t = {} PROVE FALSE OBVIOUS
  <2>1. ~(SumFunctionOnSet(f, t) <= SumFunctionOnSet(g, t)) BY <1>1
  <2> HIDE DEF Bad
  <2> QED BY <2>1, SumEmpty
<1>5. PICK x \in t : TRUE BY <1>4
<1>6. t \ {x} \notin Bad BY <1>1, <1>5
<1>7. SumFunctionOnSet(f, t \ {x}) <= SumFunctionOnSet(g, t \ {x}) BY <1>6, <1>2
<1>8. SumFunctionOnSet(f, t) = f[x] + SumFunctionOnSet(f, t \ {x}) BY <1>2, <1>3, <1>5, SumOne
<1>9. SumFunctionOnSet(g, t) = g[x] + SumFunctionOnSet(g, t \ {x}) BY <1>2, <1>3, <1>5, SumOne
<1>10. f[x] <= g[x] /\ f[x] \in Int /\ g[x] \in Int BY <1>2, <1>5 DEF Summable
<1>11. SumFunctionOnSet(f, t \ {x}) \in Int /\ SumFunctionOnSet(g, t \ {x}) \in Int
  BY <1>2, <1>3, SumType
<1>12. SumFunctionOnSet(f, t) <= SumFunctionOnSet(g, t) BY <1>7, <1>8, <1>9, <1>10, <1>11
<1> QED BY <1>1, <1>12

(* The sum of natural numbers is one.                                      *)
LEMMA SumNatural ==
  ASSUME NEW S, NEW f, IsFiniteSet(S), \A x \in S : f[x] \in Nat
  PROVE SumFunctionOnSet(f, S) \in Nat
<1> DEFINE Bad == {s \in SUBSET S : SumFunctionOnSet(f, s) \notin Nat}
<1> SUFFICES ASSUME Bad # {} PROVE FALSE BY DEF Bad
<1>1. PICK t \in Bad : \A s \in Bad : s \subseteq t => s = t
  <2>1. Bad \subseteq SUBSET S OBVIOUS
  <2> HIDE DEF Bad
  <2> QED BY <2>1, LeastSet
<1>2. t \in SUBSET S BY <1>1
<1>3. Summable(f, t) BY <1>2, FS_Subset DEF Summable
<1>4. t # {}
  <2> SUFFICES ASSUME t = {} PROVE FALSE OBVIOUS
  <2>1. ~(SumFunctionOnSet(f, t) \in Nat) BY <1>1
  <2> HIDE DEF Bad
  <2> QED BY <2>1, SumEmpty
<1>5. PICK x \in t : TRUE BY <1>4
<1>6. t \ {x} \notin Bad BY <1>1, <1>5
<1>7. SumFunctionOnSet(f, t \ {x}) \in Nat BY <1>6, <1>2
<1>8. SumFunctionOnSet(f, t) = f[x] + SumFunctionOnSet(f, t \ {x}) BY <1>3, <1>5, SumOne
<1>9. SumFunctionOnSet(f, t) \in Nat BY <1>7, <1>8, <1>5, <1>2
<1> QED BY <1>1, <1>9

(* To sum over a part is to count the others as 0.                         *)
LEMMA SumFilter ==
  ASSUME NEW S, NEW f, Summable(f, S), NEW T \in SUBSET S
  PROVE SumFunctionOnSet(f, T) = SumFunctionOnSet([x \in S |-> IF x \in T THEN f[x] ELSE 0], S)
<1> DEFINE kept(t) == [x \in S |-> IF x \in t THEN f[x] ELSE 0]
           Bad == {t \in SUBSET S : SumFunctionOnSet(f, t) # SumFunctionOnSet(kept(t), S)}
<1> SUFFICES ASSUME Bad # {} PROVE FALSE BY DEF Bad
<1>1. PICK t \in Bad : \A s \in Bad : s \subseteq t => s = t
  <2>1. Bad \subseteq SUBSET S /\ IsFiniteSet(S) BY DEF Summable
  <2> HIDE DEF Bad
  <2> QED BY <2>1, LeastSet
<1>2. t \in SUBSET S /\ SumFunctionOnSet(f, t) # SumFunctionOnSet(kept(t), S) BY <1>1
<1>3. \A s \in SUBSET S : Summable(kept(s), S) BY DEF Summable
<1>4. Summable(f, t) BY <1>2, FS_Subset DEF Summable
<1>5. t # {}
  <2> SUFFICES ASSUME t = {} PROVE FALSE OBVIOUS
  <2> DEFINE nil == [x \in S |-> 0]
             Odd == {s \in SUBSET S : SumFunctionOnSet(nil, s) # 0}
  <2>1. Odd = {}
    <3> SUFFICES ASSUME Odd # {} PROVE FALSE OBVIOUS
    <3>1. PICK u \in Odd : \A s \in Odd : s \subseteq u => s = u
      <4>1. Odd \subseteq SUBSET S /\ IsFiniteSet(S) BY DEF Summable
      <4> HIDE DEF Odd
      <4> QED BY <4>1, LeastSet
    <3>2. u \in SUBSET S BY <3>1
    <3>3. Summable(nil, u) BY <3>2, FS_Subset DEF Summable
    <3>4. u # {} BY <3>1, SumEmpty
    <3>5. PICK x \in u : TRUE BY <3>4
    <3>6. u \ {x} \notin Odd BY <3>1, <3>5
    <3>7. SumFunctionOnSet(nil, u \ {x}) = 0 BY <3>6, <3>2
    <3>8. nil[x] = 0 BY <3>5, <3>2
    <3> HIDE DEF nil
    <3>9. SumFunctionOnSet(nil, u) = nil[x] + SumFunctionOnSet(nil, u \ {x}) BY <3>3, <3>5, SumOne
    <3>10. SumFunctionOnSet(nil, u) = 0 BY <3>7, <3>8, <3>9
    <3> QED BY <3>1, <3>10
  <2>2. SumFunctionOnSet(nil, S) = 0 BY <2>1
  <2>3. kept(t) = nil OBVIOUS
  <2>4. SumFunctionOnSet(kept(t), S) = 0 BY <2>2, <2>3
  <2> HIDE DEF kept
  <2> QED BY <1>2, <2>4, SumEmpty
<1>6. PICK x \in t : TRUE BY <1>5
<1> DEFINE q == t \ {x}
<1>7. q \in SUBSET S /\ q \notin Bad /\ x \in S /\ f[x] \in Int BY <1>1, <1>2, <1>6 DEF Summable
<1>8. SumFunctionOnSet(f, q) = SumFunctionOnSet(kept(q), S) BY <1>7
<1>9. SumFunctionOnSet(f, t) = f[x] + SumFunctionOnSet(f, q) BY <1>4, <1>6, SumOne
<1>10. kept(t)[x] = f[x] /\ kept(q)[x] = 0 BY <1>6, <1>7
<1>11. \A y \in S \ {x} : kept(t)[y] = kept(q)[y] OBVIOUS
<1> HIDE DEF kept
<1>12. SumFunctionOnSet(kept(t), S) = f[x] + SumFunctionOnSet(kept(t), S \ {x})
  BY <1>2, <1>3, <1>7, <1>10, SumOne
<1>13. SumFunctionOnSet(kept(q), S) = 0 + SumFunctionOnSet(kept(q), S \ {x})
  BY <1>3, <1>7, <1>10, SumOne
<1>14. Summable(kept(t), S \ {x}) /\ Summable(kept(q), S \ {x})
  BY <1>2, <1>3, <1>7, FS_Subset DEF Summable
<1>15. SumFunctionOnSet(kept(t), S \ {x}) = SumFunctionOnSet(kept(q), S \ {x})
  BY <1>11, <1>14, SumCongruence
<1>16. SumFunctionOnSet(kept(q), S \ {x}) \in Int BY <1>14, SumType
<1>17. SumFunctionOnSet(f, t) = SumFunctionOnSet(kept(t), S)
  BY <1>8, <1>9, <1>12, <1>13, <1>15, <1>16
<1> QED BY <1>2, <1>17

(* One term changes: the sum changes by as much.                           *)
LEMMA SumChange ==
  ASSUME NEW S, NEW f, NEW g, Summable(f, S), NEW x \in S, g[x] \in Int,
         \A y \in S \ {x} : f[y] = g[y]
  PROVE SumFunctionOnSet(g, S) = SumFunctionOnSet(f, S) - f[x] + g[x]
<1>1. Summable(g, S) BY DEF Summable
<1>2. Summable(f, S \ {x}) BY FS_Subset DEF Summable
<1>3. SumFunctionOnSet(f, S) = f[x] + SumFunctionOnSet(f, S \ {x}) BY SumOne
<1>4. SumFunctionOnSet(g, S) = g[x] + SumFunctionOnSet(g, S \ {x}) BY <1>1, SumOne
<1>5. SumFunctionOnSet(f, S \ {x}) = SumFunctionOnSet(g, S \ {x}) BY <1>2, SumCongruence
<1>6. SumFunctionOnSet(f, S \ {x}) \in Int BY <1>2, SumType
<1>7. f[x] \in Int BY DEF Summable
<1> QED BY <1>3, <1>4, <1>5, <1>6, <1>7

(* A part adds up to no more than the whole.                               *)
LEMMA SumPart ==
  ASSUME NEW S, NEW f, IsFiniteSet(S), \A x \in S : f[x] \in Nat, NEW T \in SUBSET S
  PROVE SumFunctionOnSet(f, T) <= SumFunctionOnSet(f, S)
<1> DEFINE g == [x \in S |-> IF x \in T THEN f[x] ELSE 0]
<1>1. Summable(f, S) /\ Summable(g, S) BY DEF Summable
<1>2. SumFunctionOnSet(f, T) = SumFunctionOnSet(g, S) BY <1>1, SumFilter
<1>3. \A x \in S : g[x] <= f[x] OBVIOUS
<1> HIDE DEF g
<1>4. SumFunctionOnSet(g, S) <= SumFunctionOnSet(f, S) BY <1>1, <1>3, SumMonotone
<1> QED BY <1>2, <1>4

(* Terms that are all 0 add up to 0.                                       *)
LEMMA SumZero ==
  ASSUME NEW S, NEW f, IsFiniteSet(S), \A x \in S : f[x] = 0
  PROVE SumFunctionOnSet(f, S) = 0
<1> DEFINE g == [x \in S |-> IF x \in {} THEN f[x] ELSE 0]
<1>1. Summable(f, S) BY DEF Summable
<1>2. SumFunctionOnSet(f, {}) = SumFunctionOnSet(g, S)
  <2>1. {} \in SUBSET S OBVIOUS
  <2> QED BY <1>1, <2>1, SumFilter
<1>3. \A x \in S : f[x] = g[x] OBVIOUS
<1> HIDE DEF g
<1>4. SumFunctionOnSet(f, S) = SumFunctionOnSet(g, S) BY <1>1, <1>3, SumCongruence
<1> QED BY <1>2, <1>4, SumEmpty

(* Terms of at least 1 add up to at least their number.                    *)
LEMMA SumCounts ==
  ASSUME NEW S, NEW f, IsFiniteSet(S), \A x \in S : f[x] \in Nat /\ f[x] >= 1
  PROVE Cardinality(S) <= SumFunctionOnSet(f, S)
<1> DEFINE Bad == {s \in SUBSET S : ~(Cardinality(s) <= SumFunctionOnSet(f, s))}
<1> SUFFICES ASSUME Bad # {} PROVE FALSE BY DEF Bad
<1>1. PICK t \in Bad : \A s \in Bad : s \subseteq t => s = t
  <2>1. Bad \subseteq SUBSET S OBVIOUS
  <2> HIDE DEF Bad
  <2> QED BY <2>1, LeastSet
<1>2. t \in SUBSET S /\ ~(Cardinality(t) <= SumFunctionOnSet(f, t)) BY <1>1
<1>3. IsFiniteSet(t) /\ Summable(f, t) BY <1>2, FS_Subset DEF Summable
<1>4. t # {} BY <1>2, SumEmpty, FS_EmptySet
<1>5. PICK x \in t : TRUE BY <1>4
<1>6. t \ {x} \notin Bad BY <1>1, <1>5
<1>7. Cardinality(t \ {x}) <= SumFunctionOnSet(f, t \ {x}) BY <1>6, <1>2
<1>8. SumFunctionOnSet(f, t) = f[x] + SumFunctionOnSet(f, t \ {x}) BY <1>3, <1>5, SumOne
<1>9. Cardinality(t \ {x}) = Cardinality(t) - 1 /\ Cardinality(t) \in Nat
  BY <1>3, <1>5, FS_RemoveElement, FS_CardinalityType
<1>10. SumFunctionOnSet(f, t \ {x}) \in Int
  <2>1. Summable(f, t \ {x}) BY <1>3, FS_RemoveElement DEF Summable
  <2> QED BY <2>1, SumType
<1>11. f[x] \in Nat /\ f[x] >= 1 BY <1>2, <1>5
<1> QED BY <1>2, <1>7, <1>8, <1>9, <1>10, <1>11

=============================================================================
