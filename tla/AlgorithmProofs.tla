--------------------------- MODULE AlgorithmProofs ---------------------------
(***************************************************************************)
(* Theorems about the pure algorithms, for every input, and the lemmas     *)
(* they rest on: induction over the naturals and sums over finite sets.    *)
(***************************************************************************)
EXTENDS Algorithms, WellFoundedInduction, FiniteSetTheorems, TLAPS

LEMMA NatOrder == IsWellFoundedOn({pair \in Nat \X Nat : pair[1] < pair[2]}, Nat)
BY NatLessThanWellFounded, Zenon DEF OpToRel

(* Induction over the naturals: of the numbers that are not in T, one would *)
(* be the least.                                                            *)
LEMMA Induction ==
  ASSUME NEW T \in SUBSET Nat, 0 \in T, \A n \in T : n + 1 \in T
  PROVE  T = Nat
<1> DEFINE Less == {pair \in Nat \X Nat : pair[1] < pair[2]}
<1>1. IsWellFoundedOn(Less, Nat)
  BY NatOrder
<1>2. SUFFICES ASSUME Nat \ T # {} PROVE FALSE
  OBVIOUS
<1>3. PICK x \in Nat \ T : \A y \in Nat \ T : <<y, x>> \notin Less
  <2> HIDE DEF Less
  <2>1. IsWellFoundedOn(Less, Nat \ T)
    BY <1>1 DEF IsWellFoundedOn
  <2> QED
    BY <1>1, <1>2, WFMin
<1>4. x # 0 /\ x - 1 \in Nat /\ x - 1 < x /\ (x - 1) + 1 = x
  BY <1>3
<1>5. x - 1 \in T
  BY <1>3, <1>4
<1> QED
  BY <1>3, <1>4, <1>5

------------------------------------------------------------------------------
(* Sums.  The community modules add up a function over a finite set by a   *)
(* fold that takes its elements in any order.                              *)
AnyOf(s) == CHOOSE x \in s : TRUE
Adds(f, g, s) == IF s = {} THEN 0 ELSE f[AnyOf(s)] + g[s \ {AnyOf(s)}]
IsSum(f, g, S) == g = [s \in SUBSET S |-> Adds(f, g, s)]
Small(S, n) == {s \in SUBSET S : Cardinality(s) <= n}

(* What the fold is, without operators as parameters. *)
LEMMA SumIsRecursive ==
  ASSUME NEW f, NEW S
  PROVE  SumFunctionOnSet(f, S) =
           (CHOOSE g : g = [s \in SUBSET S |-> Adds(f, g, s)])[S]
BY DEF SumFunctionOnSet, FoldFunctionOnSet, MapThenFoldSet, Adds, AnyOf

LEMMA Smaller ==
  ASSUME NEW S, IsFiniteSet(S), NEW s \in SUBSET S, s # {}
  PROVE  /\ IsFiniteSet(s) /\ Cardinality(s) \in Nat /\ Cardinality(s) # 0
         /\ AnyOf(s) \in s
         /\ s \ {AnyOf(s)} \in SUBSET S
         /\ Cardinality(s \ {AnyOf(s)}) = Cardinality(s) - 1
<1>1. IsFiniteSet(s)
  BY FS_Subset
<1>2. AnyOf(s) \in s
  BY DEF AnyOf
<1>3. Cardinality(s) \in Nat /\ Cardinality(s) # 0
  BY <1>1, FS_CardinalityType, FS_EmptySet
<1>4. Cardinality(s \ {AnyOf(s)}) = Cardinality(s) - 1
  BY <1>1, <1>2, FS_RemoveElement
<1> QED
  BY <1>1, <1>2, <1>3, <1>4

(* Only the empty set has no element. *)
LEMMA NoneSmall ==
  ASSUME NEW S, IsFiniteSet(S)
  PROVE  \A s \in Small(S, 0) : s = {}
<1> SUFFICES ASSUME NEW s \in SUBSET S, Cardinality(s) <= 0, s # {} PROVE FALSE
  BY DEF Small
<1>1. Cardinality(s) \in Nat /\ Cardinality(s) # 0
  BY Smaller
<1> QED
  BY <1>1

LEMMA SumExists ==
  ASSUME NEW f, NEW S, IsFiniteSet(S)
  PROVE  \E g : g = [s \in SUBSET S |-> Adds(f, g, s)]
<1> DEFINE Sums(n) == \E g : \A s \in Small(S, n) : s \in DOMAIN g /\ g[s] = Adds(f, g, s)
           T == {n \in Nat : Sums(n)}
<1>0. IsFiniteSet({}) /\ Cardinality({}) = 0
  BY FS_EmptySet
<1>1. 0 \in T
  <2> DEFINE g == [s \in {{}} |-> 0]
  <2>1. \A s \in Small(S, 0) : s = {}
    BY NoneSmall
  <2>2. \A s \in Small(S, 0) : s \in DOMAIN g /\ g[s] = Adds(f, g, s)
    BY <2>1 DEF Adds
  <2> QED
    BY <2>2
<1>2. ASSUME NEW n \in T PROVE n + 1 \in T
  <2>1. PICK g : \A s \in Small(S, n) : s \in DOMAIN g /\ g[s] = Adds(f, g, s)
    OBVIOUS
  <2> DEFINE h == [s \in Small(S, n + 1) |-> IF Cardinality(s) <= n THEN g[s] ELSE Adds(f, g, s)]
  <2>2. ASSUME NEW s \in Small(S, n + 1)
        PROVE  h[s] = Adds(f, h, s)
    <3>1. CASE s = {}
      <4>1. s \in Small(S, n)
        BY <1>0, <3>1 DEF Small
      <4> QED
        BY <2>1, <3>1, <4>1 DEF Adds
    <3>2. CASE s # {}
      <4> DEFINE r == s \ {AnyOf(s)}
      <4>1. /\ Cardinality(s) \in Nat /\ r \in SUBSET S /\ Cardinality(r) = Cardinality(s) - 1
            /\ s \in SUBSET S /\ Cardinality(s) <= n + 1
        BY <3>2, Smaller DEF Small
      <4>2. r \in Small(S, n) /\ r \in Small(S, n + 1) /\ Cardinality(r) <= n
        BY <4>1 DEF Small
      <4>3. h[r] = g[r]
        BY <4>2
      <4>4. h[s] = Adds(f, g, s)
        <5>1. Cardinality(s) <= n => s \in Small(S, n)
          BY <4>1 DEF Small
        <5> QED
          BY <2>1, <5>1
      <4> HIDE DEF h
      <4> QED
        BY <3>2, <4>3, <4>4 DEF Adds
    <3> QED
      BY <3>1, <3>2
  <2>3. \A s \in Small(S, n + 1) : s \in DOMAIN h
    OBVIOUS
  <2>4. Sums(n + 1)
    <3> HIDE DEF h
    <3> QED
      BY <2>2, <2>3
  <2> HIDE DEF Sums
  <2> QED
    BY <2>4
<1>3. T = Nat
  <2>1. T \in SUBSET Nat
    OBVIOUS
  <2> HIDE DEF T
  <2> QED
    BY <1>1, <1>2, <2>1, Induction
<1>4. Cardinality(S) \in Nat /\ Small(S, Cardinality(S)) = SUBSET S
  BY FS_CardinalityType, FS_Subset DEF Small
<1>5. PICK g : \A s \in SUBSET S : s \in DOMAIN g /\ g[s] = Adds(f, g, s)
  BY <1>3, <1>4
<1> DEFINE h == [s \in SUBSET S |-> g[s]]
<1>6. \A s \in SUBSET S : h[s] = Adds(f, h, s)
  <2> SUFFICES ASSUME NEW s \in SUBSET S PROVE h[s] = Adds(f, h, s)
    OBVIOUS
  <2>1. s \ {AnyOf(s)} \in SUBSET S
    OBVIOUS
  <2>2. h[s] = g[s] /\ h[s \ {AnyOf(s)}] = g[s \ {AnyOf(s)}]
    BY <2>1
  <2> HIDE DEF h
  <2> QED
    BY <1>5, <2>2 DEF Adds
<1>7. h = [s \in SUBSET S |-> Adds(f, h, s)]
  <2>1. h = [s \in SUBSET S |-> h[s]]
    OBVIOUS
  <2> HIDE DEF h
  <2> QED
    BY <1>6, <2>1
<1> HIDE DEF h
<1> QED
  BY <1>7

(* Two ways of adding up the same numbers agree where both are defined. *)
LEMMA SumsAgree ==
  ASSUME NEW f, NEW S, IsFiniteSet(S), NEW U, NEW V, S \in SUBSET U, S \in SUBSET V, NEW g, NEW h,
         IsSum(f, g, U), IsSum(f, h, V)
  PROVE  \A s \in SUBSET S : g[s] = h[s]
<1> DEFINE Same(n) == \A s \in Small(S, n) : g[s] = h[s]
           T == {n \in Nat : Same(n)}
<1>1. \A s \in SUBSET S : g[s] = Adds(f, g, s) /\ h[s] = Adds(f, h, s)
  BY DEF IsSum
<1>2. 0 \in T
  <2>2. ASSUME NEW s \in Small(S, 0) PROVE g[s] = h[s]
    <3>1. s = {} /\ s \in SUBSET S
      BY NoneSmall
    <3> QED
      BY <1>1, <3>1 DEF Adds
  <2> QED
    BY <2>2
<1>3. ASSUME NEW n \in T PROVE n + 1 \in T
  <2>1. ASSUME NEW s \in Small(S, n + 1) PROVE g[s] = h[s]
    <3>0. s \in SUBSET S /\ Cardinality(s) <= n + 1
      BY DEF Small
    <3>1. CASE s = {}
      BY <1>1, <3>0, <3>1 DEF Adds
    <3>2. CASE s # {}
      <4> DEFINE r == s \ {AnyOf(s)}
      <4>1. Cardinality(s) \in Nat /\ r \in SUBSET S /\ Cardinality(r) = Cardinality(s) - 1
        BY <3>0, <3>2, Smaller
      <4>2. r \in Small(S, n)
        BY <3>0, <4>1 DEF Small
      <4>3. g[r] = h[r]
        BY <4>2
      <4> QED
        BY <1>1, <3>0, <3>2, <4>3 DEF Adds
    <3> QED
      BY <3>1, <3>2
  <2>2. n \in Nat /\ Same(n + 1)
    BY <2>1
  <2> HIDE DEF Same
  <2> QED
    BY <2>2
<1>4. T = Nat
  <2>1. T \in SUBSET Nat
    OBVIOUS
  <2> HIDE DEF T
  <2> QED
    BY <1>2, <1>3, <2>1, Induction
<1>5. Cardinality(S) \in Nat /\ Small(S, Cardinality(S)) = SUBSET S
  BY FS_CardinalityType, FS_Subset DEF Small
<1> QED
  BY <1>4, <1>5

LEMMA SumOfNone == ASSUME NEW f PROVE SumFunctionOnSet(f, {}) = 0
<1> DEFINE g == CHOOSE g : g = [s \in SUBSET {} |-> Adds(f, g, s)]
<1>1. g = [s \in SUBSET {} |-> Adds(f, g, s)]
  BY FS_EmptySet, SumExists
<1>2. SumFunctionOnSet(f, {}) = g[{}]
  BY SumIsRecursive
<1> HIDE DEF g
<1> QED
  BY <1>1, <1>2 DEF Adds

LEMMA SumStep ==
  ASSUME NEW f, NEW S, IsFiniteSet(S), S # {}
  PROVE  SumFunctionOnSet(f, S) = f[AnyOf(S)] + SumFunctionOnSet(f, S \ {AnyOf(S)})
<1> DEFINE r == S \ {AnyOf(S)}
           g == CHOOSE g : g = [s \in SUBSET S |-> Adds(f, g, s)]
           h == CHOOSE h : h = [s \in SUBSET r |-> Adds(f, h, s)]
<1>1. g = [s \in SUBSET S |-> Adds(f, g, s)]
  BY SumExists
<1>2. IsFiniteSet(r) /\ r \in SUBSET S /\ r \in SUBSET r /\ S \in SUBSET S
  BY FS_Subset
<1>3. h = [s \in SUBSET r |-> Adds(f, h, s)]
  BY <1>2, SumExists
<1>4. SumFunctionOnSet(f, S) = g[S] /\ SumFunctionOnSet(f, r) = h[r]
  BY SumIsRecursive
<1> HIDE DEF g, h
<1>5. g[S] = f[AnyOf(S)] + g[r]
  BY <1>1, <1>2 DEF Adds
<1>6. g[r] = h[r]
  <2> HIDE DEF r
  <2>1. IsSum(f, g, S) /\ IsSum(f, h, r)
    BY <1>1, <1>3 DEF IsSum
  <2>2. \A s \in SUBSET r : g[s] = h[s]
    BY <1>2, <2>1, SumsAgree
  <2> QED
    BY <1>2, <2>2
<1> QED
  BY <1>4, <1>5, <1>6

(* Which element is added last does not matter. *)
LEMMA SumRemove ==
  ASSUME NEW S, IsFiniteSet(S), NEW f \in [S -> Int]
  PROVE  /\ SumFunctionOnSet(f, S) \in Int
         /\ \A x \in S : SumFunctionOnSet(f, S) = f[x] + SumFunctionOnSet(f, S \ {x})
<1> DEFINE Total(s) == SumFunctionOnSet(f, s)
           Good(s) == Total(s) \in Int /\ \A x \in s : Total(s) = f[x] + Total(s \ {x})
           T == {n \in Nat : \A s \in Small(S, n) : Good(s)}
<1>1. 0 \in T
  <2>2. \A s \in Small(S, 0) : s = {}
    BY NoneSmall
  <2>3. Good({})
    BY SumOfNone
  <2> HIDE DEF Good
  <2> QED
    BY <2>2, <2>3
<1>2. ASSUME NEW n \in T PROVE n + 1 \in T
  <2>1. ASSUME NEW s \in Small(S, n + 1) PROVE Good(s)
    <3>0. s \in SUBSET S /\ Cardinality(s) <= n + 1
      BY DEF Small
    <3>1. CASE s = {}
      BY <3>1, SumOfNone
    <3>2. CASE s # {}
      <4> DEFINE c == AnyOf(s)
                 r == s \ {c}
      <4>1. /\ IsFiniteSet(s) /\ c \in s
            /\ Cardinality(s) \in Nat /\ r \in SUBSET S /\ Cardinality(r) = Cardinality(s) - 1
        BY <3>0, <3>2, Smaller
      <4>2. Good(r)
        BY <3>0, <4>1 DEF Small
      <4>3. Total(s) = f[c] + Total(r)
        BY <3>2, <4>1, SumStep
      <4>4. Total(s) \in Int
        BY <3>0, <4>1, <4>2, <4>3
      <4>5. ASSUME NEW x \in s, x # c
            PROVE  Total(s) = f[x] + Total(s \ {x})
        <5> DEFINE d == AnyOf(s \ {x})
                   t == s \ {x}
        <5>1. /\ t \in SUBSET S /\ c \in t /\ x \in r /\ t \ {c} = r \ {x}
              /\ IsFiniteSet(t) /\ Cardinality(t) = Cardinality(s) - 1
          BY <3>0, <4>1, <4>5, FS_Subset, FS_RemoveElement
        <5>2. Good(t)
          <6>1. t \in Small(S, n)
            BY <3>0, <4>1, <5>1 DEF Small
          <6> HIDE DEF Good, t
          <6> QED
            BY <6>1
        <5>3. Total(t) = f[c] + Total(t \ {c}) /\ Total(r) = f[x] + Total(r \ {x})
          BY <4>2, <5>1, <5>2
        <5>4. Good(r \ {x})
          <6>1. r \ {x} \in SUBSET S /\ IsFiniteSet(r) /\ Cardinality(r) \in Nat
            BY <4>1, FS_Subset, FS_CardinalityType
          <6>2. Cardinality(r \ {x}) = Cardinality(r) - 1
            BY <5>1, <6>1, FS_RemoveElement
          <6>3. Cardinality(r \ {x}) <= n
            BY <3>0, <4>1, <6>1, <6>2
          <6> QED
            BY <6>1, <6>3 DEF Small
        <5>5. f[c] \in Int /\ f[x] \in Int /\ Total(r \ {x}) \in Int
          BY <3>0, <4>1, <4>5, <5>4
        <5> HIDE DEF Total
        <5>6. Total(s) = f[c] + (f[x] + Total(r \ {x})) /\ Total(t) = f[c] + Total(r \ {x})
          BY <4>3, <5>1, <5>3
        <5> HIDE DEF c, r
        <5> QED
          BY <5>5, <5>6
      <4> HIDE DEF Total
      <4> QED
        BY <4>3, <4>4, <4>5
    <3> QED
      BY <3>1, <3>2
  <2> HIDE DEF Good
  <2> QED
    BY <2>1
<1>3. T = Nat
  <2>1. T \in SUBSET Nat
    OBVIOUS
  <2> HIDE DEF T
  <2> QED
    BY <1>1, <1>2, <2>1, Induction
<1>4. Cardinality(S) \in Nat /\ S \in Small(S, Cardinality(S))
  BY FS_CardinalityType DEF Small
<1>5. Good(S)
  <2> HIDE DEF Good
  <2> QED
    BY <1>3, <1>4
<1> QED
  BY <1>5

LEMMA SumCovers ==
  ASSUME NEW S, IsFiniteSet(S), NEW f \in [S -> Nat]
  PROVE  SumFunctionOnSet(f, S) \in Nat /\ \A x \in S : f[x] <= SumFunctionOnSet(f, S)
<1> DEFINE Total(s) == SumFunctionOnSet(f, s)
           Natural(n) == \A s \in Small(S, n) : Total(s) \in Nat
           T == {n \in Nat : Natural(n)}
<1>1. 0 \in T
  <2>2. \A s \in Small(S, 0) : s = {}
    BY NoneSmall
  <2>3. Total({}) \in Nat
    BY SumOfNone
  <2>4. Natural(0)
    <3> HIDE DEF Total
    <3> QED
      BY <2>2, <2>3
  <2> HIDE DEF Natural
  <2> QED
    BY <2>4
<1>2. ASSUME NEW n \in T PROVE n + 1 \in T
  <2>1. ASSUME NEW s \in Small(S, n + 1) PROVE Total(s) \in Nat
    <3>0. s \in SUBSET S /\ Cardinality(s) <= n + 1
      BY DEF Small
    <3>1. CASE s = {}
      BY <3>1, SumOfNone
    <3>2. CASE s # {}
      <4> DEFINE r == s \ {AnyOf(s)}
      <4>1. /\ IsFiniteSet(s) /\ AnyOf(s) \in s
            /\ Cardinality(s) \in Nat /\ r \in SUBSET S /\ Cardinality(r) = Cardinality(s) - 1
        BY <3>0, <3>2, Smaller
      <4>2. Total(r) \in Nat
        BY <3>0, <4>1 DEF Small
      <4>3. Total(s) = f[AnyOf(s)] + Total(r)
        BY <3>2, <4>1, SumStep
      <4>4. f[AnyOf(s)] \in Nat
        BY <3>0, <4>1
      <4> HIDE DEF Total, r
      <4> QED
        BY <4>2, <4>3, <4>4
    <3> QED
      BY <3>1, <3>2
  <2>2. n \in Nat /\ Natural(n + 1)
    BY <2>1
  <2> HIDE DEF Natural
  <2> QED
    BY <2>2
<1>3. T = Nat
  <2>1. T \in SUBSET Nat
    OBVIOUS
  <2> HIDE DEF T
  <2> QED
    BY <1>1, <1>2, <2>1, Induction
<1>4. \A s \in SUBSET S : Total(s) \in Nat
  <2> HIDE DEF Total
  <2>1. \A s \in SUBSET S : Cardinality(s) \in Nat /\ s \in Small(S, Cardinality(s))
    BY FS_CardinalityType, FS_Subset DEF Small
  <2> QED
    BY <1>3, <2>1
<1>5. ASSUME NEW x \in S PROVE f[x] <= Total(S)
  <2>1. f[x] \in Nat /\ f \in [S -> Int] /\ Total(S \ {x}) \in Nat
    BY <1>4
  <2>2. Total(S) = f[x] + Total(S \ {x})
    BY <2>1, SumRemove
  <2> HIDE DEF Total
  <2> QED
    BY <2>1, <2>2
<1> QED
  BY <1>4, <1>5

(* The states a machine passes through in n steps.                         *)
Trace(f, n, State, base, step) ==
  /\ f \in [0..n -> State]
  /\ f[0] = base
  /\ \A i \in 1..n : f[i] = step[<<i, f[i - 1]>>]

Stepping(n, State, base, step) ==
  n \in Nat /\ base \in State /\ step \in [(1..n) \X State -> State]

(* A function defined step by step over 0..n exists, whatever the steps,   *)
(* as long as they stay among the states.                                  *)
LEMMA StepsExist ==
  ASSUME NEW n, NEW State, NEW base, NEW step, Stepping(n, State, base, step)
  PROVE  \E f : Trace(f, n, State, base, step)
<1> USE DEF Stepping
<1> DEFINE Reaches(m) == m <= n => \E f \in [0..m -> State] :
                           f[0] = base /\ \A i \in 1..m : f[i] = step[<<i, f[i - 1]>>]
           T == {m \in Nat : Reaches(m)}
<1>1. 0 \in T
  <2> DEFINE f == [i \in 0..0 |-> base]
  <2>1. f \in [0..0 -> State] /\ f[0] = base /\ \A i \in 1..0 : FALSE
    OBVIOUS
  <2>2. Reaches(0)
    <3> HIDE DEF f
    <3> QED
      BY <2>1
  <2> HIDE DEF Reaches
  <2> QED
    BY <2>2
<1>2. ASSUME NEW m \in T PROVE m + 1 \in T
  <2>1. ASSUME m + 1 <= n PROVE \E f \in [0..m + 1 -> State] :
               f[0] = base /\ \A i \in 1..m + 1 : f[i] = step[<<i, f[i - 1]>>]
    <3>1. m \in Nat /\ m <= n
      BY <2>1
    <3>2. PICK f \in [0..m -> State] : f[0] = base /\ \A i \in 1..m : f[i] = step[<<i, f[i - 1]>>]
      BY <3>1
    <3> DEFINE g == [i \in 0..m + 1 |-> IF i <= m THEN f[i] ELSE step[<<m + 1, f[m]>>]]
    <3>3. m \in 0..m /\ f[m] \in State /\ <<m + 1, f[m]>> \in (1..n) \X State
      BY <2>1, <3>1
    <3>4. step[<<m + 1, f[m]>>] \in State
      BY <3>3
    <3>5. \A i \in 0..m : i \in 0..m + 1 /\ g[i] = f[i]
      BY <3>1
    <3>6. m + 1 \in 0..m + 1 /\ g[m + 1] = step[<<m + 1, f[m]>>]
      BY <3>1
    <3>7. \A i \in 0..m + 1 : i \in 0..m \/ i = m + 1
      BY <3>1
    <3>8. g \in [0..m + 1 -> State]
      <4>1. \A i \in 0..m + 1 : g[i] \in State
        <5> HIDE DEF g
        <5> QED
          BY <3>4, <3>5, <3>6, <3>7
      <4>2. g = [i \in 0..m + 1 |-> g[i]]
        OBVIOUS
      <4> HIDE DEF g
      <4> QED
        BY <4>1, <4>2
    <3> HIDE DEF g
    <3>9. g[0] = base
      BY <3>1, <3>2, <3>5
    <3>10. ASSUME NEW i \in 1..m + 1 PROVE g[i] = step[<<i, g[i - 1]>>]
      <4>1. i - 1 \in 0..m /\ g[i - 1] = f[i - 1]
        BY <3>1, <3>5
      <4>2. CASE i \in 1..m
        BY <3>2, <3>5, <4>1, <4>2
      <4>3. CASE i = m + 1
        <5>1. i - 1 = m
          BY <3>1, <4>3
        <5> QED
          BY <3>6, <4>1, <4>3, <5>1
      <4> QED
        BY <3>1, <4>2, <4>3
    <3> QED
      BY <3>8, <3>9, <3>10
  <2>2. m + 1 \in Nat /\ Reaches(m + 1)
    BY <2>1
  <2> HIDE DEF Reaches
  <2> QED
    BY <2>2
<1>3. T = Nat
  <2>1. T \in SUBSET Nat
    OBVIOUS
  <2> HIDE DEF T
  <2> QED
    BY <1>1, <1>2, <2>1, Induction
<1>4. Reaches(n)
  <2> HIDE DEF Reaches
  <2> QED
    BY <1>3
<1> QED
  BY <1>4 DEF Trace

------------------------------------------------------------------------------
(* Evidence: for any values, cap, reported total and treatment of          *)
(* aggregates.                                                             *)
(* What has been collected when the first i values have been looked at.    *)
Collects(c, values, i, cap, aggregates) ==
  /\ c.elements \in Seq(Range(values))
  /\ Len(c.elements) <= cap /\ Len(c.elements) <= i
  /\ c.over => Len(c.elements) = cap /\ cap + 1 <= i
  /\ IsInjective(c.elements)
  /\ c.over \in BOOLEAN
  /\ \A p \in Range(c.elements) : Evaluate!Retained(p, aggregates)
  /\ ~c.over => \A k \in 1..i : Evaluate!Retained(values[k], aggregates) => values[k] \in Range(c.elements)

LEMMA Appended ==
  ASSUME NEW S, NEW s \in Seq(S), NEW x \in S
  PROVE  /\ Append(s, x) \in Seq(S) /\ Len(Append(s, x)) = Len(s) + 1
         /\ Range(Append(s, x)) = Range(s) \cup {x}
         /\ IsInjective(s) /\ x \notin Range(s) => IsInjective(Append(s, x))
<1> DEFINE t == Append(s, x)
<1>1. /\ t \in Seq(S) /\ Len(s) \in Nat /\ Len(t) = Len(s) + 1
      /\ DOMAIN s = 1..Len(s) /\ DOMAIN t = 1..(Len(s) + 1)
      /\ t[Len(s) + 1] = x /\ \A i \in DOMAIN s : t[i] = s[i]
  OBVIOUS
<1> HIDE DEF t
<1>2. \A i \in DOMAIN t : i \in DOMAIN s \/ i = Len(s) + 1
  BY <1>1
<1>3. Len(s) + 1 \in DOMAIN t /\ DOMAIN s \subseteq DOMAIN t
  BY <1>1
<1>4. Range(t) = Range(s) \cup {x}
  BY <1>1, <1>2, <1>3 DEF Range
<1>5. ASSUME IsInjective(s), x \notin Range(s) PROVE IsInjective(t)
  <2>1. \A i \in DOMAIN s : t[i] = s[i] /\ s[i] # x
    BY <1>1, <1>5 DEF Range
  <2> QED
    BY <1>1, <1>2, <1>5, <2>1 DEF IsInjective
<1> QED
  BY <1>1, <1>4, <1>5 DEF t

LEMMA NoticeCollects ==
  ASSUME NEW values, NEW cap \in Nat, NEW aggregates, NEW i \in Nat, i + 1 \in DOMAIN values,
         NEW c \in [elements : Seq(Range(values)), over : BOOLEAN], Collects(c, values, i, cap, aggregates)
  PROVE  LET d == Evaluate!Notice(c, values[i + 1], cap, aggregates)
         IN  /\ d \in [elements : Seq(Range(values)), over : BOOLEAN]
             /\ Collects(d, values, i + 1, cap, aggregates)
<1> DEFINE p == values[i + 1]
           d == Evaluate!Notice(c, p, cap, aggregates)
<1>0. p \in Range(values) /\ Evaluate!ToSet(c.elements) = Range(c.elements)
  BY DEF Range, Evaluate!ToSet
<1>1. \A k \in 1..i + 1 : k \in 1..i \/ k = i + 1
  OBVIOUS
<1>2. CASE ~Evaluate!Retained(p, aggregates) \/ p \in Range(c.elements)
  <2>1. d = c
    BY <1>0, <1>2 DEF Evaluate!Notice
  <2> QED
    BY <1>1, <1>2, <2>1 DEF Collects
<1>3. CASE Evaluate!Retained(p, aggregates) /\ p \notin Range(c.elements) /\ Len(c.elements) < cap
  <2> DEFINE t == Append(c.elements, p)
  <2>1. d = [c EXCEPT !.elements = t]
    BY <1>0, <1>3 DEF Evaluate!Notice
  <2>2. /\ t \in Seq(Range(values)) /\ Len(t) = Len(c.elements) + 1
        /\ Range(t) = Range(c.elements) \cup {p} /\ IsInjective(t)
    BY <1>0, <1>3, Appended DEF Collects
  <2> HIDE DEF t, p
  <2>3. d = [elements |-> t, over |-> c.over]
    BY <2>1
  <2>4. d.elements = t /\ d.over = c.over /\ d \in [elements : Seq(Range(values)), over : BOOLEAN]
    BY <2>2, <2>3
  <2>5. Len(t) <= cap /\ Len(t) <= i + 1 /\ ~c.over
    BY <1>3, <2>2 DEF Collects
  <2>6. \A q \in Range(t) : Evaluate!Retained(q, aggregates)
    BY <1>3, <2>2 DEF Collects
  <2>7. ~c.over => \A k \in 1..i + 1 : Evaluate!Retained(values[k], aggregates) => values[k] \in Range(t)
    BY <1>1, <2>2 DEF Collects, p
  <2> HIDE DEF d
  <2>8. Collects(d, values, i + 1, cap, aggregates)
    BY <2>2, <2>4, <2>5, <2>6, <2>7 DEF Collects
  <2> QED
    BY <2>4, <2>8 DEF d, p
<1>4. CASE Evaluate!Retained(p, aggregates) /\ p \notin Range(c.elements) /\ ~(Len(c.elements) < cap)
  <2>1. d = [c EXCEPT !.over = TRUE]
    BY <1>0, <1>4 DEF Evaluate!Notice
  <2>2. d.elements = c.elements /\ d.over = TRUE /\ d \in [elements : Seq(Range(values)), over : BOOLEAN]
    BY <2>1
  <2>3. Len(c.elements) = cap /\ cap + 1 <= i + 1
    BY <1>4 DEF Collects
  <2> QED
    BY <2>2, <2>3 DEF Collects
<1> QED
  BY <1>2, <1>3, <1>4

LEMMA CollectedIs ==
  ASSUME NEW Values, NEW values \in Seq(Values), NEW cap \in Nat, NEW aggregates
  PROVE  Collects(Evaluate!Collected(values, cap, aggregates), values, Len(values), cap, aggregates)
<1> DEFINE State == [elements : Seq(Range(values)), over : BOOLEAN]
           none == [elements |-> <<>>, over |-> FALSE]
           n == Len(values)
           Look(c, i) == Evaluate!Notice(c, values[i], cap, aggregates)
           Entry(f, i) == IF i = 0 THEN none ELSE Look(f[i - 1], i)
           read == CHOOSE f : f = [i \in 0..n |-> Entry(f, i)]
           Good(i) == read[i] \in State /\ Collects(read[i], values, i, cap, aggregates)
           U == {i \in Nat : i <= n => Good(i)}
<1>1. n \in Nat /\ DOMAIN values = 1..n
  OBVIOUS
<1>2. none \in State
  OBVIOUS
<1>3. \A c \in State : \A i \in 1..n : Look(c, i) \in State
  <2> SUFFICES ASSUME NEW c \in State, NEW i \in 1..n PROVE Look(c, i) \in State
    OBVIOUS
  <2>1. values[i] \in Range(values)
    BY <1>1 DEF Range
  <2>2. Append(c.elements, values[i]) \in Seq(Range(values))
    BY <2>1
  <2> QED
    BY <2>2 DEF Evaluate!Notice
<1>4. read = [i \in 0..n |-> Entry(read, i)]
  <2> DEFINE step == [a \in (1..n) \X State |-> Look(a[2], a[1])]
  <2>1. step \in [(1..n) \X State -> State]
    BY <1>3
  <2>2. \A i \in 1..n : \A c \in State : step[<<i, c>>] = Look(c, i)
    OBVIOUS
  <2> HIDE DEF step, Look, State, none
  <2>3. PICK f \in [0..n -> State] : f[0] = none /\ \A i \in 1..n : f[i] = step[<<i, f[i - 1]>>]
    <3> HIDE DEF n, Entry, read, Good, U
    <3>1. Stepping(n, State, none, step)
      BY <1>1, <1>2, <2>1 DEF Stepping
    <3>2. \E f : Trace(f, n, State, none, step)
      BY <3>1, StepsExist
    <3> QED
      BY <3>2 DEF Trace
  <2>4. \A i \in 0..n : f[i] = Entry(f, i)
    <3>1. \A i \in 0..n : i # 0 => i \in 1..n /\ i - 1 \in 0..n
      BY <1>1
    <3> QED
      BY <2>2, <2>3, <3>1
  <2>5. f = [i \in 0..n |-> Entry(f, i)]
    <3> HIDE DEF Entry
    <3> QED
      BY <2>3, <2>4
  <2> HIDE DEF Entry
  <2> QED
    BY <2>5
<1> HIDE DEF read
<1>5. 0 \in U
  <2>1. read[0] = none
    BY <1>1, <1>4
  <2>2. Collects(none, values, 0, cap, aggregates)
    <3>1. <<>> \in Seq(Range(values)) /\ Len(<<>>) = 0 /\ DOMAIN <<>> = {}
      OBVIOUS
    <3>2. IsInjective(<<>>) /\ Range(<<>>) = {}
      BY <3>1 DEF IsInjective, Range
    <3> QED
      BY <3>1, <3>2 DEF Collects
  <2> HIDE DEF none, State
  <2> QED
    BY <1>2, <2>1, <2>2
<1>6. ASSUME NEW i \in U PROVE i + 1 \in U
  <2>1. SUFFICES ASSUME i + 1 <= n PROVE Good(i + 1)
    OBVIOUS
  <2>2. i \in Nat /\ i <= n /\ i + 1 \in DOMAIN values /\ i + 1 \in 0..n /\ i + 1 # 0 /\ (i + 1) - 1 = i
    BY <1>1, <2>1
  <2>3. Good(i)
    BY <2>2
  <2>4. read[i + 1] = Look(read[i], i + 1)
    <3> HIDE DEF Look
    <3> QED
      BY <1>4, <2>2
  <2> QED
    BY <2>2, <2>3, <2>4, NoticeCollects
<1>7. Good(n)
  <2>1. U \in SUBSET Nat
    OBVIOUS
  <2> HIDE DEF Good
  <2>2. U = Nat
    <3> HIDE DEF U
    <3> QED
      BY <1>5, <1>6, <2>1, Induction
  <2> QED
    BY <1>1, <2>2
<1>8. Evaluate!Collected(values, cap, aggregates) = read[n]
  BY DEF Evaluate!Collected, read
<1> QED
  BY <1>7, <1>8

(* Algorithms, of any values, cap, reported total and treatment of           *)
(* aggregates (engine/evaluator.py:995-1055).                               *)
THEOREM EvidenceListsEverything ==
  ASSUME NEW Values, NEW values \in Seq(Values), NEW cap \in Nat, NEW total \in Nat, NEW aggregates
  PROVE  EvidenceListsAll(values, cap, total, aggregates)
<1> DEFINE n == Len(values)
           c == Evaluate!Collected(values, cap, aggregates)
           e == Evaluate!EvidenceOf(values, cap, total, aggregates)
           known == IF c.over THEN cap + 1 ELSE Len(c.elements)
           count == IF total > known THEN total ELSE known
<1>1. n \in Nat /\ DOMAIN values = 1..n
  OBVIOUS
<1>7. Collects(c, values, n, cap, aggregates)
  BY CollectedIs
<1>9. e = [elements |-> c.elements, total |-> count, truncated |-> count > Len(c.elements)]
  BY DEF Evaluate!EvidenceOf, Evaluate!Noticed
<1> HIDE DEF c
<1>10. c.elements \in Seq(Range(values)) /\ Len(c.elements) \in Nat /\ Len(c.elements) <= cap
       /\ IsInjective(c.elements) /\ Range(c.elements) \subseteq Range(values)
  BY <1>7 DEF Collects, Range
<1>11. known \in Nat /\ Len(c.elements) <= known /\ known <= count /\ count \in Nat
  BY <1>10
<1>12. Range(c.elements) \subseteq {p \in Range(values) : Evaluate!Retained(p, aggregates)}
  BY <1>7, <1>10 DEF Collects
<1>13. ASSUME ~(count > Len(c.elements))
       PROVE  {p \in Range(values) : Evaluate!Retained(p, aggregates)} \subseteq Range(c.elements)
  <2>1. ~c.over
    BY <1>10, <1>11, <1>13
  <2> QED
    BY <1>1, <1>7, <2>1 DEF Collects, Range
<1>14. e.elements = c.elements /\ e.total = count /\ e.truncated = (count > Len(c.elements))
  <2> HIDE DEF count, c, e
  <2> QED
    BY <1>9
<1> DEFINE retained == {p \in Range(values) : Evaluate!Retained(p, aggregates)}
<1>15. /\ Len(e.elements) <= cap /\ Len(e.elements) <= e.total
       /\ IsInjective(e.elements) /\ Range(e.elements) \subseteq retained
  <2> HIDE DEF count, c, e, known, retained
  <2>1. Len(c.elements) <= count
    BY <1>10, <1>11
  <2> QED
    BY <1>10, <1>12, <1>14, <2>1 DEF retained
<1>16. ~e.truncated => Range(e.elements) = retained
  <2> HIDE DEF count, c, e, known
  <2> QED
    BY <1>12, <1>13, <1>14
<1> HIDE DEF count, c, known
<1> QED
  BY <1>15, <1>16 DEF EvidenceListsAll

(* How much evidence counts: what it was told, unless the values were more; *)
(* and it names something as soon as there is something to name.            *)
CountsEvidence(e, values, total, aggregates) ==
  /\ Len(e.elements) \in Nat
  /\ Len(values) <= total => e.total = total
  /\ e.truncated <=> e.total > Len(e.elements)
  /\ e.elements = <<>> <=> \A k \in DOMAIN values : ~Evaluate!Retained(values[k], aggregates)

LEMMA EvidenceCounts ==
  ASSUME NEW Values, NEW values \in Seq(Values), NEW cap \in Nat \ {0}, NEW total \in Nat, NEW aggregates
  PROVE  CountsEvidence(Evaluate!EvidenceOf(values, cap, total, aggregates), values, total, aggregates)
<1> DEFINE n == Len(values)
           c == Evaluate!Collected(values, cap, aggregates)
           e == Evaluate!EvidenceOf(values, cap, total, aggregates)
           known == IF c.over THEN cap + 1 ELSE Len(c.elements)
           count == IF total > known THEN total ELSE known
<1>1. n \in Nat /\ DOMAIN values = 1..n /\ cap \in Nat /\ cap > 0
  OBVIOUS
<1>2. Collects(c, values, n, cap, aggregates)
  BY CollectedIs
<1>3. e = [elements |-> c.elements, total |-> count, truncated |-> count > Len(c.elements)]
  BY DEF Evaluate!EvidenceOf, Evaluate!Noticed
<1>4. e.elements = c.elements /\ e.total = count /\ e.truncated = (count > Len(c.elements))
  <2> HIDE DEF count, c, e
  <2> QED
    BY <1>3
<1> HIDE DEF c, e
<1>5. Len(c.elements) \in Nat /\ known \in Nat /\ known <= n
  BY <1>1, <1>2 DEF Collects
<1>6. n <= total => e.total = total
  <2> HIDE DEF known
  <2> QED
    BY <1>1, <1>4, <1>5
<1>7. ASSUME c.elements = <<>>, NEW k \in DOMAIN values PROVE ~Evaluate!Retained(values[k], aggregates)
  <2>1. Len(c.elements) = 0 /\ Range(c.elements) = {}
    BY <1>7 DEF Range
  <2>2. ~c.over
    BY <1>1, <1>2, <2>1 DEF Collects
  <2> QED
    BY <1>1, <1>2, <2>1, <2>2 DEF Collects
<1>8. ASSUME \A k \in DOMAIN values : ~Evaluate!Retained(values[k], aggregates), c.elements # <<>> PROVE FALSE
  <2>1. c.elements[1] \in Range(c.elements) /\ c.elements[1] \in Range(values)
    BY <1>2, <1>8 DEF Collects, Range
  <2> QED
    BY <1>2, <1>8, <2>1 DEF Collects, Range
<1> QED
  BY <1>4, <1>5, <1>6, <1>7, <1>8 DEF e, CountsEvidence

(* What is marked of a sequence: the same places whatever lies there.       *)
MarkedUpTo(i, marks, kept) ==
  /\ kept \in Seq(1..i) /\ IsInjective(kept) /\ Len(kept) <= i
  /\ Range(kept) = {j \in 1..i : marks[j]}

Through(kept, s) == [j \in 1..Len(kept) |-> s[kept[j]]]

LEMMA ThroughAppends ==
  ASSUME NEW i \in Nat, NEW kept \in Seq(1..i), NEW V, NEW s, \A j \in 1..i + 1 : s[j] \in V
  PROVE  /\ Through(Append(kept, i + 1), s) = Append(Through(kept, s), s[i + 1])
         /\ Append(kept, i + 1) \in Seq(1..i + 1)
<1> DEFINE t == Append(kept, i + 1)
<1>1. /\ Len(kept) \in Nat /\ Len(t) = Len(kept) + 1 /\ t[Len(kept) + 1] = i + 1
      /\ \A j \in 1..Len(kept) : t[j] = kept[j]
  OBVIOUS
<1>2. kept \in Seq(1..i + 1) /\ i + 1 \in 1..i + 1
  <2>1. \A j \in 1..Len(kept) : kept[j] \in 1..i + 1
    OBVIOUS
  <2> QED
    BY <2>1
<1>3. t \in Seq(1..i + 1)
  BY <1>2
<1>4. Through(t, s) = [j \in 1..Len(kept) + 1 |-> s[t[j]]]
  BY <1>1 DEF Through
<1> DEFINE u == Through(kept, s)
<1>5. u \in Seq(V) /\ Len(u) = Len(kept) /\ \A j \in 1..Len(kept) : u[j] = s[kept[j]]
  <2>1. \A j \in 1..Len(kept) : kept[j] \in 1..i + 1
    BY <1>2
  <2> QED
    BY <1>1, <2>1 DEF Through
<1>6. /\ Append(u, s[i + 1]) = [j \in 1..Len(kept) + 1 |-> IF j <= Len(kept) THEN u[j] ELSE s[i + 1]]
  BY <1>1, <1>5
<1> HIDE DEF t, u
<1>7. \A j \in 1..Len(kept) + 1 : s[t[j]] = IF j <= Len(kept) THEN u[j] ELSE s[i + 1]
  BY <1>1, <1>5
<1>8. Through(t, s) = Append(u, s[i + 1])
  BY <1>4, <1>6, <1>7
<1> QED
  BY <1>3, <1>8 DEF t, u

Keeps(f, m, s, marks) ==
  /\ f[0] = <<>>
  /\ \A i \in 1..m : f[i] = IF marks[i] THEN Append(f[i - 1], s[i]) ELSE f[i - 1]

LEMMA MarkedSteps ==
  ASSUME NEW m \in Nat, NEW marks, NEW V, NEW s \in [1..m -> V]
  PROVE  \E f : Keeps(f, m, s, marks) /\ Evaluate!Marked(s, marks) = f[m]
<1> DEFINE State == Seq(V)
           Look(c, i) == IF marks[i] THEN Append(c, s[i]) ELSE c
           Entry(f, i) == IF i = 0 THEN <<>> ELSE Look(f[i - 1], i)
           kept == CHOOSE f : f = [i \in 0..m |-> Entry(f, i)]
<1>1. Len(s) = m
  OBVIOUS
<1>2. \A c \in State : \A i \in 1..m : Look(c, i) \in State
  OBVIOUS
<1>3. <<>> \in State
  OBVIOUS
<1>4. kept = [i \in 0..m |-> Entry(kept, i)]
  <2> DEFINE step == [a \in (1..m) \X State |-> Look(a[2], a[1])]
  <2>1. step \in [(1..m) \X State -> State]
    BY <1>2
  <2>2. \A i \in 1..m : \A c \in State : step[<<i, c>>] = Look(c, i)
    OBVIOUS
  <2> HIDE DEF step, Look, State
  <2>3. PICK f : Trace(f, m, State, <<>>, step)
    BY <1>3, <2>1, StepsExist DEF Stepping
  <2>4. \A i \in 0..m : f[i] = Entry(f, i)
    <3>1. \A i \in 0..m : i # 0 => i \in 1..m /\ i - 1 \in 0..m
      OBVIOUS
    <3> QED
      BY <2>2, <2>3, <3>1 DEF Trace
  <2>5. f = [i \in 0..m |-> Entry(f, i)]
    <3> HIDE DEF Entry
    <3> QED
      BY <2>3, <2>4 DEF Trace
  <2> HIDE DEF Entry
  <2> QED
    BY <2>5
<1>5. Evaluate!Marked(s, marks) = kept[m]
  BY <1>1 DEF Evaluate!Marked
<1> HIDE DEF kept
<1>6. kept[0] = <<>> /\ \A i \in 1..m : kept[i] = Look(kept[i - 1], i)
  <2>1. \A i \in 0..m : kept[i] = Entry(kept, i)
    <3> HIDE DEF Entry
    <3> QED
      BY <1>4
  <2>2. 0 \in 0..m /\ \A i \in 1..m : i \in 0..m /\ i # 0
    OBVIOUS
  <2> HIDE DEF Look
  <2> QED
    BY <2>1, <2>2
<1>7. Keeps(kept, m, s, marks)
  BY <1>6 DEF Keeps
<1> QED
  BY <1>5, <1>7

EveryPlace(m) == [j \in 1..m |-> j]

MarksAgree(m, marks, other) == \A j \in 1..m : marks[j] \in BOOLEAN /\ other[j] = marks[j]

LEMMA MarkedIs ==
  ASSUME NEW m \in Nat, NEW marks, NEW other, MarksAgree(m, marks, other), NEW V, NEW s \in [1..m -> V]
  PROVE  /\ MarkedUpTo(m, marks, Evaluate!Marked(EveryPlace(m), marks))
         /\ Evaluate!Marked(s, other) = Through(Evaluate!Marked(EveryPlace(m), marks), s)
<1> DEFINE places == EveryPlace(m)
<1>0. \A j \in 1..m : marks[j] \in BOOLEAN /\ other[j] = marks[j]
  BY DEF MarksAgree
<1>1. places \in [1..m -> 1..m] /\ \A j \in 1..m : places[j] = j
  BY DEF EveryPlace
<1> HIDE DEF places
<1>2. PICK f : Keeps(f, m, places, marks) /\ Evaluate!Marked(places, marks) = f[m]
  BY <1>1, MarkedSteps
<1>3. PICK g : Keeps(g, m, s, other) /\ Evaluate!Marked(s, other) = g[m]
  BY MarkedSteps
<1> DEFINE Good(i) == MarkedUpTo(i, marks, f[i]) /\ g[i] = Through(f[i], s)
           U == {i \in Nat : i <= m => Good(i)}
<1>4. 0 \in U
  <2>1. f[0] = <<>> /\ g[0] = <<>>
    BY <1>2, <1>3 DEF Keeps
  <2>2. <<>> \in Seq(1..0) /\ Len(<<>>) = 0 /\ DOMAIN <<>> = {} /\ 1..0 = {}
    OBVIOUS
  <2>3. IsInjective(<<>>) /\ Range(<<>>) = {}
    BY <2>2 DEF IsInjective, Range
  <2>4. MarkedUpTo(0, marks, <<>>)
    BY <2>2, <2>3 DEF MarkedUpTo
  <2>5. Through(<<>>, s) = <<>>
    BY <2>2 DEF Through
  <2> QED
    BY <2>1, <2>4, <2>5
<1>5. ASSUME NEW i \in U PROVE i + 1 \in U
  <2>1. SUFFICES ASSUME i + 1 <= m PROVE Good(i + 1)
    OBVIOUS
  <2>2. i \in Nat /\ i + 1 \in 1..m /\ (i + 1) - 1 = i /\ i <= m
    BY <2>1
  <2>3. MarkedUpTo(i, marks, f[i]) /\ g[i] = Through(f[i], s)
    BY <2>2
  <2>4. f[i + 1] = (IF marks[i + 1] THEN Append(f[i], i + 1) ELSE f[i])
    BY <1>1, <1>2, <2>2 DEF Keeps
  <2>5. g[i + 1] = (IF marks[i + 1] THEN Append(g[i], s[i + 1]) ELSE g[i])
    <3>1. other[i + 1] = marks[i + 1]
      BY <1>0, <2>2
    <3> QED
      BY <3>1, <1>3, <2>2 DEF Keeps
  <2>6. \A j : j \in 1..i + 1 <=> j \in 1..i \/ j = i + 1
    BY <2>2
  <2>7. f[i] \in Seq(1..i) /\ IsInjective(f[i]) /\ Len(f[i]) <= i /\ Range(f[i]) = {j \in 1..i : marks[j]}
    BY <2>3 DEF MarkedUpTo
  <2>8. CASE marks[i + 1]
    <3>1. \A j \in 1..i + 1 : s[j] \in V
      BY <2>2
    <3>2. Through(Append(f[i], i + 1), s) = Append(Through(f[i], s), s[i + 1])
          /\ Append(f[i], i + 1) \in Seq(1..i + 1)
      BY <2>2, <2>7, <3>1, ThroughAppends
    <3>3. f[i] \in Seq(Nat)
      <4>1. \A j \in 1..Len(f[i]) : f[i][j] \in Nat
        BY <2>7
      <4> QED
        BY <2>7, <4>1
    <3>4. i + 1 \notin Range(f[i])
      BY <2>2, <2>7
    <3>5. /\ Len(Append(f[i], i + 1)) = Len(f[i]) + 1
          /\ Range(Append(f[i], i + 1)) = Range(f[i]) \cup {i + 1}
          /\ IsInjective(Append(f[i], i + 1))
      BY <2>2, <2>7, <3>3, <3>4, Appended
    <3>6. Len(f[i]) + 1 <= i + 1
      BY <2>2, <2>7
    <3>7. Range(f[i]) \cup {i + 1} = {j \in 1..i + 1 : marks[j]}
      BY <2>6, <2>7, <2>8
    <3>8. MarkedUpTo(i + 1, marks, Append(f[i], i + 1))
      BY <3>2, <3>5, <3>6, <3>7 DEF MarkedUpTo
    <3> QED
      BY <2>3, <2>4, <2>5, <2>8, <3>2, <3>8
  <2>9. CASE ~marks[i + 1]
    <3>1. f[i] \in Seq(1..i + 1)
      <4>1. \A j \in 1..Len(f[i]) : f[i][j] \in 1..i + 1
        BY <2>2, <2>7
      <4> QED
        BY <2>7, <4>1
    <3>2. Len(f[i]) <= i + 1
      BY <2>2, <2>7
    <3>3. Range(f[i]) = {j \in 1..i + 1 : marks[j]}
      BY <2>6, <2>7, <2>9
    <3>4. MarkedUpTo(i + 1, marks, f[i])
      BY <2>7, <3>1, <3>2, <3>3 DEF MarkedUpTo
    <3> QED
      BY <2>3, <2>4, <2>5, <2>9, <3>4
  <2>10. marks[i + 1] \in BOOLEAN
    BY <1>0, <2>2
  <2> QED
    BY <2>8, <2>9, <2>10
<1>6. Good(m)
  <2>1. U \in SUBSET Nat
    OBVIOUS
  <2> HIDE DEF Good
  <2>2. U = Nat
    <3> HIDE DEF U
    <3> QED
      BY <1>4, <1>5, <2>1, Induction
  <2> QED
    BY <2>2
<1> QED
  BY <1>2, <1>3, <1>6 DEF places

(* Records that point at one element each.                                  *)
FirstOf(p, i) == [j \in 1..i |-> p[j]]

LEMMA FirstGrows ==
  ASSUME NEW k \in Nat, NEW V, NEW p \in [1..k -> V], NEW i \in 1..k
  PROVE  FirstOf(p, i - 1) \o <<p[i]>> = FirstOf(p, i)
<1>1. i - 1 \in Nat /\ \A j \in 1..i : j \in 1..k /\ p[j] \in V
  OBVIOUS
<1>2. PICK s \in Seq(V) : s = FirstOf(p, i - 1) /\ Len(s) = i - 1 /\ \A j \in 1..i - 1 : s[j] = p[j]
  <2> DEFINE s == FirstOf(p, i - 1)
  <2>1. s \in [1..i - 1 -> V] /\ \A j \in 1..i - 1 : s[j] = p[j]
    BY <1>1 DEF FirstOf
  <2>2. s \in Seq(V) /\ Len(s) = i - 1
    BY <1>1, <2>1
  <2> HIDE DEF s
  <2> QED
    BY <2>1, <2>2 DEF s
<1>3. PICK x \in V : x = p[i]
  BY <1>1
<1>4. /\ s \o <<x>> \in Seq(V) /\ Len(s \o <<x>>) = i
      /\ \A j \in 1..i : (s \o <<x>>)[j] = IF j = i THEN x ELSE s[j]
  BY <1>1, <1>2
<1>5. s \o <<x>> = [j \in 1..i |-> p[j]]
  <2>1. \A j \in 1..i : (s \o <<x>>)[j] = p[j]
    BY <1>2, <1>3, <1>4
  <2>2. s \o <<x>> = [j \in 1..i |-> (s \o <<x>>)[j]]
    BY <1>4
  <2> QED
    BY <2>1, <2>2
<1> QED
  BY <1>2, <1>3, <1>5 DEF FirstOf

LEMMA OnePointerEach ==
  ASSUME NEW k \in Nat, NEW records, DOMAIN records = 1..k, NEW V, NEW p \in [1..k -> V],
         \A j \in 1..k : records[j].pointers = <<p[j]>>
  PROVE  Evaluate!Pointers(records) = p
<1> DEFINE seqs == [i \in DOMAIN records |-> records[i].pointers]
           Entry(f, i) == IF i = 1 THEN seqs[i] ELSE f[i - 1] \o seqs[i]
           flatten == CHOOSE f : f = [i \in 1..k |-> Entry(f, i)]
           prefixes == [i \in 1..k |-> FirstOf(p, i)]
<1>1. DOMAIN seqs = 1..k /\ Len(seqs) = k /\ \A i \in 1..k : seqs[i] = <<p[i]>>
  OBVIOUS
<1>2. Evaluate!Pointers(records) = IF k = 0 THEN seqs ELSE flatten[k]
  <2>1. Evaluate!Pointers(records) = Evaluate!FlattenSeq(seqs)
    BY DEF Evaluate!Pointers
  <2>2. Evaluate!FlattenSeq(seqs) = IF Len(seqs) = 0 THEN seqs
                                    ELSE (CHOOSE f : f = [i \in 1..Len(seqs) |-> Entry(f, i)])[Len(seqs)]
    BY DEF Evaluate!FlattenSeq
  <2> HIDE DEF seqs
  <2> QED
    BY <1>1, <2>1, <2>2
<1> HIDE DEF seqs
<1>3. \A i \in 1..k : prefixes[i] = Entry(prefixes, i)
  <2> SUFFICES ASSUME NEW i \in 1..k PROVE prefixes[i] = Entry(prefixes, i)
    OBVIOUS
  <2>1. prefixes[i] = FirstOf(p, i - 1) \o seqs[i]
    <3>1. prefixes[i] = FirstOf(p, i)
      OBVIOUS
    <3> QED
      BY <1>1, <3>1, FirstGrows
  <2>2. CASE i = 1
    <3>1. PICK x \in V : x = p[i]
      OBVIOUS
    <3>2. prefixes[i] = [j \in 1..1 |-> p[j]]
      BY <2>2 DEF FirstOf
    <3>3. prefixes[i] = <<x>>
      BY <2>2, <3>1, <3>2
    <3> HIDE DEF prefixes
    <3> QED
      BY <1>1, <2>2, <3>1, <3>3
  <2>3. CASE i # 1
    <3>1. i - 1 \in 1..k /\ prefixes[i - 1] = FirstOf(p, i - 1)
      BY <2>3
    <3> HIDE DEF prefixes
    <3> QED
      BY <2>1, <2>3, <3>1
  <2> QED
    BY <2>2, <2>3
<1>4. flatten = [i \in 1..k |-> Entry(flatten, i)]
  <2>1. prefixes = [i \in 1..k |-> Entry(prefixes, i)]
    <3>1. prefixes = [i \in 1..k |-> prefixes[i]]
      OBVIOUS
    <3> HIDE DEF prefixes, Entry
    <3> QED
      BY <1>3, <3>1
  <2> HIDE DEF prefixes, Entry
  <2> QED
    BY <2>1
<1> HIDE DEF flatten
<1>5. \A i \in 1..k : flatten[i] = Entry(flatten, i)
  <2> HIDE DEF Entry
  <2> QED
    BY <1>4
<1> DEFINE U == {i \in Nat : i + 1 <= k => flatten[i + 1] = FirstOf(p, i + 1)}
<1>6. 0 \in U
  <2>1. ASSUME 1 <= k PROVE flatten[1] = FirstOf(p, 1)
    <3>1. 1 \in 1..k
      BY <2>1
    <3>2. flatten[1] = seqs[1] /\ prefixes[1] = seqs[1] /\ prefixes[1] = FirstOf(p, 1)
      BY <1>3, <1>5, <3>1
    <3> QED
      BY <3>2
  <2> QED
    BY <2>1
<1>7. ASSUME NEW i \in U PROVE i + 1 \in U
  <2>1. ASSUME (i + 1) + 1 <= k PROVE flatten[(i + 1) + 1] = FirstOf(p, (i + 1) + 1)
    <3>1. i \in Nat /\ (i + 1) + 1 \in 1..k /\ (i + 1) + 1 # 1 /\ ((i + 1) + 1) - 1 = i + 1
      BY <2>1
    <3>2. flatten[i + 1] = FirstOf(p, i + 1)
      BY <3>1
    <3>3. flatten[(i + 1) + 1] = flatten[i + 1] \o seqs[(i + 1) + 1]
      BY <1>5, <3>1
    <3>4. FirstOf(p, i + 1) \o <<p[(i + 1) + 1]>> = FirstOf(p, (i + 1) + 1)
      BY <3>1, FirstGrows
    <3> QED
      BY <1>1, <3>1, <3>2, <3>3, <3>4
  <2> QED
    BY <2>1
<1>8. U = Nat
  <2>1. U \in SUBSET Nat
    OBVIOUS
  <2> HIDE DEF U
  <2> QED
    BY <1>6, <1>7, <2>1, Induction
<1>9. p = FirstOf(p, k)
  BY DEF FirstOf
<1>10. CASE k = 0
  <2>1. seqs = p
    BY <1>10 DEF seqs
  <2> QED
    BY <1>2, <1>10, <2>1
<1>11. CASE k # 0
  <2>1. k - 1 \in Nat /\ (k - 1) + 1 = k
    BY <1>11
  <2>2. flatten[k] = FirstOf(p, k)
    <3>1. k - 1 \in U
      BY <1>8, <2>1
    <3> QED
      BY <2>1, <3>1
  <2> QED
    BY <1>2, <1>9, <1>11, <2>2
<1> QED
  BY <1>10, <1>11

(* A question about a verdict: elements that violate a check or not.        *)
AsksVerdict(q) ==
  /\ q.check \in Evaluate!Coverage \cup Evaluate!Provenance \cup Evaluate!Sampled \cup Evaluate!Plain
  /\ q.violates \in Seq(BOOLEAN) /\ q.empty \in BOOLEAN
  /\ q.exhaustive \in Nat /\ q.size \in Nat \ {0} /\ q.cap \in Nat \ {0}

LEMMA DecidedIs ==
  ASSUME NEW n \in Nat, NEW ex \in Nat, NEW k \in Nat, k > 0
  PROVE  \E s \in Nat : /\ Sample!Decide(n, ex, k).size = s /\ s <= n /\ (n > 0 => s > 0)
                        /\ (n <= ex => s = n)
                        /\ (Sample!IsEstimated(Sample!Decide(n, ex, k)) <=> s < n)
<1> DEFINE exact == n <= ex \/ n <= k
<1>1. CASE exact
  <2>1. Sample!Decide(n, ex, k) = [population |-> n, size |-> n, exact |-> TRUE]
    BY <1>1 DEF Sample!Decide
  <2>2. Sample!Decide(n, ex, k).size = n /\ Sample!Decide(n, ex, k).exact = TRUE
    BY <2>1
  <2> QED
    BY <2>2 DEF Sample!IsEstimated
<1>2. CASE ~exact
  <2>1. Sample!Decide(n, ex, k) = [population |-> n, size |-> k, exact |-> FALSE]
    BY <1>2 DEF Sample!Decide
  <2>2. Sample!Decide(n, ex, k).size = k /\ Sample!Decide(n, ex, k).exact = FALSE
    BY <2>1
  <2>3. k < n /\ ~(n <= ex)
    BY <1>2
  <2> QED
    BY <2>2, <2>3 DEF Sample!IsEstimated
<1> QED
  BY <1>1, <1>2

FindsAsked(q, n, s, bad) ==
  /\ Len(q.violates) = n /\ DOMAIN q.violates = 1..n
  /\ Decision(q).size = s /\ s <= n /\ (n > 0 => s > 0)
  /\ (q.check \notin Evaluate!Sampled \cup {"hub_outlier"} => s = n)
  /\ (Sample!IsEstimated(Decision(q)) <=> s < n)
  /\ bad = Found(q) /\ MarkedUpTo(s, q.violates, bad)
  /\ Len(bad) \in Nat /\ Len(bad) <= s /\ DOMAIN bad = 1..Len(bad)
  /\ \A j \in 1..Len(bad) : bad[j] \in 1..s

LEMMA FoundIs ==
  ASSUME NEW q, AsksVerdict(q)
  PROVE  \E n, s \in Nat : FindsAsked(q, n, s, Found(q))
<1>1. PICK n \in Nat : n = Len(q.violates) /\ DOMAIN q.violates = 1..n /\ q.violates \in [1..n -> BOOLEAN]
  BY DEF AsksVerdict
<1>2. q.exhaustive \in Nat /\ q.size \in Nat /\ q.size > 0
  BY DEF AsksVerdict
<1>3. PICK s \in Nat : /\ Decision(q).size = s /\ s <= n /\ (n > 0 => s > 0)
                       /\ (q.check \notin Evaluate!Sampled \cup {"hub_outlier"} => s = n)
                       /\ (Sample!IsEstimated(Decision(q)) <=> s < n)
  <2>1. CASE q.check \in Evaluate!Sampled \cup {"hub_outlier"}
    <3>1. Decision(q) = Sample!Decide(n, q.exhaustive, q.size)
      BY <1>1, <2>1 DEF Decision
    <3>2. PICK x, k \in Nat : x = q.exhaustive /\ k = q.size /\ k > 0
      BY <1>2
    <3>3. PICK s \in Nat : /\ Sample!Decide(n, x, k).size = s /\ s <= n /\ (n > 0 => s > 0)
                        /\ (n <= x => s = n)
                        /\ (Sample!IsEstimated(Sample!Decide(n, x, k)) <=> s < n)
      BY <3>2, DecidedIs
    <3> QED
      BY <2>1, <3>1, <3>2, <3>3
  <2>2. CASE q.check \notin Evaluate!Sampled \cup {"hub_outlier"}
    <3>1. Decision(q) = Sample!Decide(n, n, 1)
      BY <1>1, <2>2 DEF Decision
    <3>2. n <= n /\ 1 \in Nat /\ 1 > 0
      BY <1>1
    <3>3. PICK s \in Nat : /\ Sample!Decide(n, n, 1).size = s /\ s <= n /\ (n > 0 => s > 0)
                        /\ (n <= n => s = n)
                        /\ (Sample!IsEstimated(Sample!Decide(n, n, 1)) <=> s < n)
      BY <3>2, DecidedIs
    <3> QED
      BY <3>1, <3>2, <3>3
  <2> QED
    BY <2>1, <2>2
<1>4. \A j \in 1..s : q.violates[j] \in BOOLEAN
  BY <1>1, <1>3
<1>5. MarkedUpTo(s, q.violates, Found(q))
  <2>1. EveryPlace(s) \in [1..s -> Nat]
    BY DEF EveryPlace
  <2>3. MarksAgree(s, q.violates, q.violates)
    BY <1>4 DEF MarksAgree
  <2>2. MarkedUpTo(s, q.violates, Evaluate!Marked(EveryPlace(s), q.violates))
    BY <2>1, <2>3, MarkedIs
  <2> QED
    BY <1>3, <2>2 DEF Found, EveryPlace
<1>6. PICK bad : bad = Found(q)
  OBVIOUS
<1>7. /\ Len(bad) \in Nat /\ Len(bad) <= s /\ DOMAIN bad = 1..Len(bad)
      /\ \A j \in 1..Len(bad) : bad[j] \in 1..s
  BY <1>5, <1>6 DEF MarkedUpTo
<1>8. FindsAsked(q, n, s, bad)
  BY <1>1, <1>3, <1>5, <1>6, <1>7 DEF FindsAsked
<1> QED
  BY <1>6, <1>8

(* The evidence that a query lists for the elements found: as many as the   *)
(* cap allows, or all of them.                                              *)
Nodes(bad, l) == [j \in 1..l |-> [kind |-> "node", id |-> bad[j]]]
Named(e) == {p.id : p \in Range(e.elements)}

FoundNamed(e, bad) ==
  /\ e.elements # <<>> /\ e.total = Len(bad)
  /\ Named(e) \subseteq Range(bad)
  /\ (~e.truncated => Named(e) = Range(bad))

LEMMA FoundIsNamed ==
  ASSUME NEW m \in Nat, NEW marks, NEW bad, MarkedUpTo(m, marks, bad), bad # <<>>, NEW cap \in Nat \ {0},
         NEW l \in Nat, l = Len(bad) \/ (l = cap /\ l <= Len(bad))
  PROVE  FoundNamed(Evaluate!EvidenceOf(Nodes(bad, l), cap, Len(bad), FALSE), bad)
<1> DEFINE node(i) == [kind |-> "node", id |-> i]
           Values == {node(i) : i \in 1..m}
           values == Nodes(bad, l)
           e == Evaluate!EvidenceOf(values, cap, Len(bad), FALSE)
           retained == {p \in Range(values) : Evaluate!Retained(p, FALSE)}
<1>1. Len(bad) \in Nat /\ Len(bad) # 0 /\ DOMAIN bad = 1..Len(bad) /\ \A j \in 1..Len(bad) : bad[j] \in 1..m
  BY DEF MarkedUpTo
<1>2. l <= Len(bad) /\ l # 0 /\ cap \in Nat /\ cap # 0
  <2>1. cap \in Nat /\ cap # 0
    OBVIOUS
  <2>2. CASE l = Len(bad)
    BY <1>1, <2>1, <2>2
  <2>3. CASE l = cap /\ l <= Len(bad)
    BY <2>1, <2>3
  <2> QED
    BY <2>1, <2>2, <2>3
<1>3. \A j \in 1..l : j \in 1..Len(bad) /\ values[j] = node(bad[j])
  <2>1. \A j \in 1..l : j \in 1..Len(bad)
    <3>1. PICK t \in Nat : t = Len(bad) /\ l <= t
      BY <1>1, <1>2
    <3> QED
      BY <3>1
  <2>2. \A j \in 1..l : values[j] = node(bad[j])
    BY DEF Nodes
  <2> QED
    BY <2>1, <2>2
<1>4. values \in [1..l -> Values]
  <2>1. \A j \in 1..l : values[j] \in Values
    BY <1>1, <1>3
  <2>2. values = [j \in 1..l |-> values[j]]
    BY DEF Nodes
  <2> HIDE DEF values, Values
  <2> QED
    BY <2>1, <2>2
<1>5. values \in Seq(Values) /\ Len(values) = l /\ DOMAIN values = 1..l
  <2> HIDE DEF values, Values
  <2> QED
    BY <1>4
<1>6. \A i : Evaluate!Retained(node(i), FALSE) /\ node(i).id = i
  BY DEF Evaluate!Retained, Evaluate!NoPointer
<1> HIDE DEF values, Values, node
<1>7. EvidenceListsAll(values, cap, Len(bad), FALSE)
  BY <1>1, <1>2, <1>5, EvidenceListsEverything
<1>8. /\ Len(e.elements) <= cap /\ Range(e.elements) \subseteq retained
      /\ ~e.truncated => Range(e.elements) = retained
  BY <1>7 DEF EvidenceListsAll
<1>9. CountsEvidence(e, values, Len(bad), FALSE)
  BY <1>1, <1>2, <1>5, EvidenceCounts
<1> HIDE DEF e
<1>10. /\ Len(e.elements) \in Nat /\ e.total = Len(bad)
       /\ (e.truncated <=> e.total > Len(e.elements))
       /\ (e.elements = <<>> <=> \A k \in 1..l : ~Evaluate!Retained(values[k], FALSE))
  BY <1>2, <1>5, <1>9 DEF CountsEvidence
<1>11. e.elements # <<>>
  <2>1. 1 \in 1..l
    <3>1. l \in Nat /\ l # 0
      BY <1>2
    <3> QED
      BY <3>1
  <2>2. values[1] = node(bad[1])
    BY <1>3, <2>1
  <2>3. Evaluate!Retained(values[1], FALSE)
    BY <1>6, <2>2
  <2> QED
    BY <1>10, <2>1, <2>3
<1>12. \A p \in Range(e.elements) : \E j \in 1..l : p = node(bad[j]) /\ bad[j] \in Range(bad)
  <2>1. \A p \in Range(values) : \E j \in 1..l : p = values[j]
    BY <1>5 DEF Range
  <2>2. \A j \in 1..l : bad[j] \in Range(bad)
    BY <1>1, <1>3 DEF Range
  <2> QED
    BY <1>3, <1>8, <2>1, <2>2
<1>13. Named(e) \subseteq Range(bad)
  BY <1>6, <1>12 DEF Named
<1>14. ASSUME ~e.truncated, NEW x \in Range(bad) PROVE x \in Named(e)
  <2>1. l = Len(bad)
    <3>1. PICK k, t \in Nat : k = Len(e.elements) /\ t = Len(bad) /\ (l = t \/ (l = cap /\ l <= t))
      BY <1>1, <1>10
    <3>2. ~(t > k)
      BY <1>10, <1>14, <3>1
    <3>3. t <= cap
      BY <1>2, <1>8, <3>1, <3>2
    <3>4. l = t
      BY <1>2, <3>1, <3>3
    <3> QED
      BY <3>1, <3>4
  <2>2. PICK j \in 1..l : x = bad[j]
    BY <1>1, <2>1 DEF Range
  <2>3. node(x) \in Range(values)
    BY <1>3, <1>5, <2>2 DEF Range
  <2>4. node(x) \in Range(e.elements)
    BY <1>6, <1>8, <1>14, <2>3
  <2> QED
    BY <1>6, <2>4 DEF Named
<1> QED
  BY <1>10, <1>11, <1>13, <1>14 DEF e, values, FoundNamed


(* The summary a query gives of them.                                       *)
Shown(q, bad) == IF Len(bad) < q.cap THEN Len(bad) ELSE q.cap

Honest(q, n, s, bad, row) ==
  /\ (n = 0 => row.schema = "missing") /\ (n # 0 => row.schema = "ok")
  /\ row.population = n /\ row.sample = s /\ row.violations = Len(bad) /\ row.conforming = n - Len(bad)
  /\ (n = 0 => row.coverage = <<1, 1>>) /\ (n # 0 => row.coverage = <<n - Len(bad), n>>)
  /\ (q.check \in Evaluate!Sampled => row.records = [i \in 1..s |-> Element(q, i)])
  /\ (q.check \notin Evaluate!Sampled => row.records = [i \in 1..Shown(q, bad) |-> Element(q, bad[i])])

LEMMA SummaryIs ==
  ASSUME NEW q, NEW n \in Nat, NEW s \in Nat, NEW bad, FindsAsked(q, n, s, bad)
  PROVE  Honest(q, n, s, bad, Summary(q))
<1>1. Len(q.violates) = n /\ Decision(q).size = s /\ Found(q) = bad
  BY DEF FindsAsked
<1> DEFINE coverage == IF n = 0 THEN <<1, 1>> ELSE <<n - Len(bad), n>>
           schema == IF n = 0 THEN "missing" ELSE "ok"
           records == IF q.check \in Evaluate!Sampled THEN [i \in 1..s |-> Element(q, i)]
                      ELSE [i \in 1..(IF Len(bad) < q.cap THEN Len(bad) ELSE q.cap) |-> Element(q, bad[i])]
<1>2. Summary(q) = [schema |-> schema, population |-> n, sample |-> s,
                    violations |-> Len(bad), conforming |-> n - Len(bad),
                    coverage |-> coverage, records |-> records]
  BY <1>1 DEF Summary
<1>3. /\ (n = 0 => coverage = <<1, 1>>) /\ (n # 0 => coverage = <<n - Len(bad), n>>)
      /\ (n = 0 => schema = "missing") /\ (n # 0 => schema = "ok")
      /\ (q.check \in Evaluate!Sampled => records = [i \in 1..s |-> Element(q, i)])
  OBVIOUS
<1>4. q.check \notin Evaluate!Sampled => records = [i \in 1..Shown(q, bad) |-> Element(q, bad[i])]
  BY DEF Shown
<1> HIDE DEF coverage, schema, records
<1>5. PICK row : row = [schema |-> schema, population |-> n, sample |-> s,
                    violations |-> Len(bad), conforming |-> n - Len(bad),
                    coverage |-> coverage, records |-> records]
  OBVIOUS
<1>6. /\ row.schema = schema /\ row.population = n /\ row.sample = s /\ row.violations = Len(bad)
      /\ row.conforming = n - Len(bad) /\ row.coverage = coverage /\ row.records = records
  BY <1>5
<1>7. Honest(q, n, s, bad, row)
  BY <1>3, <1>4, <1>6 DEF Honest
<1> QED
  BY <1>2, <1>5, <1>7

LEMMA CompiledIs ==
  ASSUME NEW q, NEW n \in Nat, NEW s \in Nat, NEW bad, FindsAsked(q, n, s, bad)
  PROVE  /\ (Compiled(q).sampled <=> q.check = "hub_outlier") /\ Compiled(q).preflight = {n}
         /\ Compiled(q).cap = q.cap /\ Compiled(q).size = s /\ Compiled(q).threshold = <<2, 3>>
BY DEF FindsAsked, Compiled

(* What each record points at.                                              *)
LEMMA ElementIs ==
  ASSUME NEW q, NEW i
  PROVE  /\ Element(q, i).complete = TRUE /\ Element(q, i).matches = q.violates[i]
         /\ Element(q, i).pointers = <<[kind |-> "node", id |-> i]>>
BY DEF Element

LEMMA ListedAre ==
  ASSUME NEW q, NEW l \in Nat, NEW bad, NEW S, \A j \in 1..l : bad[j] \in S,
         NEW records, DOMAIN records = 1..l, \A j \in 1..l : records[j] = Element(q, bad[j])
  PROVE  Evaluate!Pointers(records) = Nodes(bad, l)
<1> DEFINE V == {[kind |-> "node", id |-> i] : i \in S}
           p == Nodes(bad, l)
<1>1. \A j \in 1..l : p[j] = [kind |-> "node", id |-> bad[j]]
  BY DEF Nodes
<1>2. p \in [1..l -> V]
  <2>1. \A j \in 1..l : p[j] \in V
    BY <1>1
  <2>2. p = [j \in 1..l |-> p[j]]
    BY DEF Nodes
  <2> HIDE DEF p, V
  <2> QED
    BY <2>1, <2>2
<1>3. \A j \in 1..l : records[j].pointers = <<p[j]>>
  <2> SUFFICES ASSUME NEW j \in 1..l PROVE records[j].pointers = <<p[j]>>
    OBVIOUS
  <2>1. Element(q, bad[j]).pointers = <<[kind |-> "node", id |-> bad[j]]>>
    <3>1. PICK i : i = bad[j]
      OBVIOUS
    <3>2. Element(q, i).pointers = <<[kind |-> "node", id |-> i]>>
      BY ElementIs
    <3> QED
      BY <3>1, <3>2
  <2>2. records[j] = Element(q, bad[j])
    OBVIOUS
  <2> HIDE DEF p
  <2> QED
    BY <1>1, <2>1, <2>2
<1> HIDE DEF p, V
<1>4. Evaluate!Pointers(records) = p
  BY <1>2, <1>3, OnePointerEach
<1> QED
  BY <1>4 DEF p

(* Candidates that match are the elements found.                            *)
LEMMA MatchingIs ==
  ASSUME NEW q, AsksVerdict(q), NEW n \in Nat, NEW s \in Nat, NEW bad, FindsAsked(q, n, s, bad),
         NEW row, row.records = [i \in 1..s |-> Element(q, i)]
  PROVE  /\ Evaluate!Matching(row) = [j \in 1..Len(bad) |-> Evaluate!Matching(row)[j]]
         /\ DOMAIN Evaluate!Matching(row) = 1..Len(bad)
         /\ \A j \in 1..Len(bad) : Evaluate!Matching(row)[j] = Element(q, bad[j])
<1> DEFINE V == {Element(q, i) : i \in 1..s}
           records == [i \in 1..s |-> Element(q, i)]
           other == [i \in DOMAIN records |-> records[i].matches]
<1>1. DOMAIN records = 1..s /\ records \in [1..s -> V] /\ \A i \in 1..s : records[i] = Element(q, i)
  OBVIOUS
<1>2. \A i \in 1..s : other[i] = q.violates[i]
  <2> SUFFICES ASSUME NEW i \in 1..s PROVE other[i] = q.violates[i]
    OBVIOUS
  <2>1. Element(q, i).matches = q.violates[i]
    BY ElementIs
  <2>2. other[i] = records[i].matches
    BY <1>1
  <2> HIDE DEF other, records
  <2> QED
    BY <1>1, <2>1, <2>2
<1>3. \A i \in 1..s : q.violates[i] \in BOOLEAN
  <2>1. s <= n /\ Len(q.violates) = n /\ q.violates \in Seq(BOOLEAN)
    BY DEF FindsAsked, AsksVerdict
  <2> QED
    BY <2>1
<1>4. Evaluate!Matching(row) = Evaluate!Marked(records, other)
  BY DEF Evaluate!Matching
<1> HIDE DEF records, other, V
<1>5. Evaluate!Marked(records, other) = Through(Evaluate!Marked(EveryPlace(s), q.violates), records)
  <2>1. PICK marks : marks = q.violates
    OBVIOUS
  <2>2. MarksAgree(s, marks, other)
    BY <1>2, <1>3, <2>1 DEF MarksAgree
  <2>3. Evaluate!Marked(records, other) = Through(Evaluate!Marked(EveryPlace(s), marks), records)
    BY <1>1, <2>2, MarkedIs
  <2> QED
    BY <2>1, <2>3
<1>6. bad = Evaluate!Marked(EveryPlace(s), q.violates)
  BY DEF FindsAsked, Found, EveryPlace
<1>7. Evaluate!Matching(row) = [j \in 1..Len(bad) |-> records[bad[j]]]
  BY <1>4, <1>5, <1>6 DEF Through
<1>8. \A j \in 1..Len(bad) : bad[j] \in 1..s
  BY DEF FindsAsked
<1>9. PICK found : found = Evaluate!Matching(row)
  OBVIOUS
<1>10. found = [j \in 1..Len(bad) |-> found[j]]
  BY <1>7, <1>9
<1> QED
  BY <1>1, <1>7, <1>8, <1>9, <1>10

(* The checks are read in one way each.                                     *)
LEMMA ReadOneWay ==
  ASSUME NEW check, NEW compiled, NEW row
  PROVE  /\ check \in Evaluate!Coverage => 
              /\ check \notin Evaluate!Sampled /\ check # "hub_outlier"
              /\ (Evaluate!Agrees(check, compiled, row) <=>
                    Evaluate!CoverageAgrees(row) /\ Evaluate!SampleAgrees(compiled, row))
              /\ (Evaluate!Violated(check, compiled, row) <=>
                    ~Evaluate!AtLeast(row.coverage, compiled.threshold))
         /\ check \in Evaluate!Plain =>
              /\ check \notin Evaluate!Sampled /\ check \notin Evaluate!Coverage
              /\ (Evaluate!Agrees(check, compiled, row) <=>
                    Evaluate!PlainAgrees(row) /\ Evaluate!SampleAgrees(compiled, row))
              /\ (Evaluate!Violated(check, compiled, row) <=> row.violations > 0)
         /\ check \in Evaluate!Provenance =>
              /\ check \notin Evaluate!Sampled /\ check \notin Evaluate!Coverage
              /\ check # "hub_outlier" /\ check # "label_explosion"
              /\ (Evaluate!Agrees(check, compiled, row) <=> Evaluate!ReportAgrees(check, compiled, row))
              /\ (Evaluate!Violated(check, compiled, row) <=> row.violations > 0)
         /\ check \in Evaluate!Sampled =>
              /\ check \notin Evaluate!Coverage /\ check \notin Evaluate!Provenance /\ check # "hub_outlier"
              /\ (Evaluate!Agrees(check, compiled, row) <=> Evaluate!CandidatesAgree(check, compiled, row))
              /\ (Evaluate!Violated(check, compiled, row) <=> Evaluate!Matching(row) # <<>>)
<1> USE DEF Evaluate!Coverage, Evaluate!Plain, Evaluate!Provenance, Evaluate!Sampled, Evaluate!Reported
<1>1. ASSUME check \in Evaluate!Coverage
      PROVE  /\ check \notin Evaluate!Sampled /\ check # "hub_outlier"
             /\ check \notin Evaluate!Plain /\ check \notin Evaluate!Reported
  BY <1>1
<1>2. ASSUME check \in Evaluate!Plain
      PROVE  check \notin Evaluate!Coverage /\ check \notin Evaluate!Reported /\ check \notin Evaluate!Sampled
  BY <1>2
<1>3. ASSUME check \in Evaluate!Provenance
      PROVE  /\ check \notin Evaluate!Coverage /\ check \notin Evaluate!Plain /\ check \notin Evaluate!Sampled
             /\ check \in Evaluate!Reported /\ check # "hub_outlier" /\ check # "label_explosion"
  BY <1>3
<1>4. ASSUME check \in Evaluate!Sampled
      PROVE  /\ check \notin Evaluate!Coverage /\ check \notin Evaluate!Plain /\ check \notin Evaluate!Reported
             /\ check \notin Evaluate!Provenance /\ check # "hub_outlier"
  BY <1>4
<1> HIDE DEF Evaluate!Coverage, Evaluate!Plain, Evaluate!Provenance, Evaluate!Sampled, Evaluate!Reported
<1>5. ASSUME check \in Evaluate!Coverage
      PROVE  /\ (Evaluate!Agrees(check, compiled, row) <=>
                    Evaluate!CoverageAgrees(row) /\ Evaluate!SampleAgrees(compiled, row))
             /\ (Evaluate!Violated(check, compiled, row) <=>
                    ~Evaluate!AtLeast(row.coverage, compiled.threshold))
  BY <1>1, <1>5 DEF Evaluate!Agrees, Evaluate!Violated
<1>6. ASSUME check \in Evaluate!Plain
      PROVE  /\ (Evaluate!Agrees(check, compiled, row) <=>
                    Evaluate!PlainAgrees(row) /\ Evaluate!SampleAgrees(compiled, row))
             /\ (Evaluate!Violated(check, compiled, row) <=> row.violations > 0)
  BY <1>2, <1>6 DEF Evaluate!Agrees, Evaluate!Violated
<1>7. ASSUME check \in Evaluate!Provenance
      PROVE  /\ (Evaluate!Agrees(check, compiled, row) <=> Evaluate!ReportAgrees(check, compiled, row))
             /\ (Evaluate!Violated(check, compiled, row) <=> row.violations > 0)
  BY <1>3, <1>7 DEF Evaluate!Agrees, Evaluate!Violated
<1>8. ASSUME check \in Evaluate!Sampled
      PROVE  /\ (Evaluate!Agrees(check, compiled, row) <=> Evaluate!CandidatesAgree(check, compiled, row))
             /\ (Evaluate!Violated(check, compiled, row) <=> Evaluate!Matching(row) # <<>>)
  BY <1>4, <1>8 DEF Evaluate!Agrees, Evaluate!Violated
<1> QED
  BY <1>1, <1>2, <1>3, <1>4, <1>5, <1>6, <1>7, <1>8

(* What a row of the kind is refused for, and what becomes of it.           *)
LEMMA RowsAreJudged ==
  ASSUME NEW check, NEW compiled, NEW row, NEW empty \in BOOLEAN,
         row.schema = "ok" \/ (row.schema = "missing" /\ empty)
  PROVE  Evaluate!Conformance(check, compiled, row, empty) =
           IF ~Evaluate!Agrees(check, compiled, row) THEN Evaluate!Refused
           ELSE IF ~Evaluate!Violated(check, compiled, row) THEN Evaluate!Passing
           ELSE Evaluate!Failing(Evaluate!EvidenceFor(check, compiled, row))
BY DEF Evaluate!Conformance

Poor(q, n, bad) == IF q.check \in Evaluate!Coverage THEN 3 * (n - Len(bad)) < 2 * n ELSE bad # <<>>

Follows(q, n, bad, row) ==
  /\ Evaluate!Agrees(q.check, Compiled(q), row)
  /\ (Evaluate!Violated(q.check, Compiled(q), row) <=> Poor(q, n, bad))

LEMMA CoverageFollows ==
  ASSUME NEW q, AsksVerdict(q), NEW n \in Nat, NEW s \in Nat, NEW bad, FindsAsked(q, n, s, bad),
         NEW row, Honest(q, n, s, bad, row), q.check \in Evaluate!Coverage
  PROVE  Follows(q, n, bad, row)
<1>1. PICK b \in Nat : b = Len(bad) /\ b <= n
  BY DEF FindsAsked
<1>2. /\ row.population = n /\ row.violations = b /\ row.conforming = n - b
      /\ (n = 0 => row.coverage = <<1, 1>>) /\ (n # 0 => row.coverage = <<n - b, n>>)
  BY <1>1 DEF Honest
<1>3. Evaluate!SampleAgrees(Compiled(q), row)
  BY ReadOneWay, CompiledIs DEF Evaluate!SampleAgrees
<1>4. Compiled(q).threshold = <<2, 3>>
  BY CompiledIs
<1>5. n # -1 /\ b # -1 /\ n - b # -1 /\ (n - b) + b = n /\ n - b >= 0 /\ n - b <= n
  BY <1>1
<1>6. CASE n = 0
  <2>1. row.coverage[1] = 1 /\ row.coverage[2] = 1
    BY <1>2, <1>6
  <2>2. Evaluate!CoverageAgrees(row)
    BY <1>2, <1>5, <1>6, <2>1 DEF Evaluate!CoverageAgrees, Evaluate!IsCount, Evaluate!NotCounted, Evaluate!IsShare
  <2>3. Evaluate!AtLeast(row.coverage, Compiled(q).threshold)
    BY <1>4, <2>1 DEF Evaluate!AtLeast
  <2>4. ~Poor(q, n, bad)
    BY <1>1, <1>6 DEF Poor
  <2> QED
    BY <1>3, <2>2, <2>3, <2>4, ReadOneWay DEF Follows
<1>7. CASE n # 0
  <2>1. row.coverage[1] = n - b /\ row.coverage[2] = n /\ row.coverage = <<n - b, n>>
    BY <1>2, <1>7
  <2>2. Evaluate!SameShare(row.coverage, <<n - b, n>>)
    BY <2>1 DEF Evaluate!SameShare
  <2>3. Evaluate!CoverageAgrees(row)
    BY <1>2, <1>5, <1>7, <2>1, <2>2 DEF Evaluate!CoverageAgrees, Evaluate!IsCount, Evaluate!NotCounted, Evaluate!IsShare
  <2>4. Evaluate!AtLeast(row.coverage, Compiled(q).threshold) <=> (n - b) * 3 >= 2 * n
    BY <1>4, <2>1 DEF Evaluate!AtLeast
  <2>5. Poor(q, n, bad) <=> 3 * (n - b) < 2 * n
    BY <1>1 DEF Poor
  <2>6. ~Evaluate!AtLeast(row.coverage, Compiled(q).threshold) <=> Poor(q, n, bad)
    BY <1>1, <2>4, <2>5
  <2> QED
    BY <1>3, <2>3, <2>6, ReadOneWay DEF Follows
<1> QED
  BY <1>6, <1>7

LEMMA PlainFollows ==
  ASSUME NEW q, AsksVerdict(q), NEW n \in Nat, NEW s \in Nat, NEW bad, FindsAsked(q, n, s, bad),
         NEW row, Honest(q, n, s, bad, row), q.check \in Evaluate!Plain
  PROVE  Follows(q, n, bad, row)
<1>1. PICK b \in Nat : b = Len(bad) /\ b <= s /\ s <= n /\ (bad # <<>> <=> b > 0)
  BY DEF FindsAsked
<1>2. row.population = n /\ row.violations = b /\ row.sample = s
  BY <1>1 DEF Honest
<1>3. n # -1 /\ b # -1 /\ s # -1
  BY <1>1
<1>4. Evaluate!SampleAgrees(Compiled(q), row)
  <2>1. Compiled(q).preflight = {n}
    BY CompiledIs
  <2> QED
    BY <1>1, <1>2, <1>3, <2>1 DEF Evaluate!SampleAgrees, Evaluate!IsCount, Evaluate!NotCounted
<1>5. Evaluate!PlainAgrees(row)
  BY <1>2, <1>3 DEF Evaluate!PlainAgrees, Evaluate!IsCount, Evaluate!NotCounted
<1>6. row.violations > 0 <=> Poor(q, n, bad)
  BY <1>1, <1>2, ReadOneWay DEF Poor
<1> QED
  BY <1>4, <1>5, <1>6, ReadOneWay DEF Follows

LEMMA ProvenanceFollows ==
  ASSUME NEW q, AsksVerdict(q), NEW n \in Nat, NEW s \in Nat, NEW bad, FindsAsked(q, n, s, bad),
         NEW row, Honest(q, n, s, bad, row), q.check \in Evaluate!Provenance
  PROVE  Follows(q, n, bad, row)
<1>1. PICK b \in Nat : b = Len(bad) /\ b <= s /\ s <= n /\ (bad # <<>> <=> b > 0)
  BY DEF FindsAsked
<1>2. row.population = n /\ row.violations = b /\ row.sample = s
  BY <1>1 DEF Honest
<1>3. n # -1 /\ b # -1 /\ b <= n
  BY <1>1
<1>4. PICK cap \in Nat : cap = q.cap /\ cap # 0
  BY DEF AsksVerdict
<1>5. PICK l \in Nat : l = Shown(q, bad) /\ l <= cap /\ (b > 0 => l > 0)
  BY <1>1, <1>4 DEF Shown
<1>6. row.records = [i \in 1..l |-> Element(q, bad[i])]
  BY <1>5, ReadOneWay DEF Honest
<1>7. Len(row.records) = l /\ DOMAIN row.records = 1..l
  BY <1>6
<1>8. \A i \in DOMAIN row.records : row.records[i].complete
  <2> SUFFICES ASSUME NEW i \in 1..l PROVE row.records[i].complete
    BY <1>7
  <2>1. row.records[i] = Element(q, bad[i])
    BY <1>6
  <2> QED
    BY <2>1 DEF Element
<1>9. Evaluate!ReportAgrees(q.check, Compiled(q), row)
  <2>1. b > 0 => row.records # <<>>
    BY <1>5, <1>7
  <2>2. Compiled(q).cap = cap
    BY <1>4, CompiledIs
  <2> QED
    BY <1>2, <1>3, <1>5, <1>7, <1>8, <2>1, <2>2 DEF Evaluate!ReportAgrees, Evaluate!IsCount, Evaluate!NotCounted
<1>10. row.violations > 0 <=> Poor(q, n, bad)
  BY <1>1, <1>2, ReadOneWay DEF Poor
<1> QED
  BY <1>9, <1>10, ReadOneWay DEF Follows

LEMMA SampledFollows ==
  ASSUME NEW q, AsksVerdict(q), NEW n \in Nat, NEW s \in Nat, NEW bad, FindsAsked(q, n, s, bad),
         NEW row, Honest(q, n, s, bad, row), q.check \in Evaluate!Sampled
  PROVE  Follows(q, n, bad, row)
<1>1. s <= n /\ (n > 0 => s > 0) /\ Len(bad) \in Nat /\ DOMAIN bad = 1..Len(bad)
  BY DEF FindsAsked
<1>2. row.population = n /\ row.sample = s /\ row.records = [i \in 1..s |-> Element(q, i)]
  BY DEF Honest
<1>3. n # -1 /\ s # -1
  OBVIOUS
<1>4. Len(row.records) = s /\ DOMAIN row.records = 1..s /\ \A i \in 1..s : row.records[i] = Element(q, i)
  BY <1>2
<1>5. \A i \in 1..s : /\ row.records[i].complete /\ row.records[i].pointers = <<[kind |-> "node", id |-> i]>>
  <2> SUFFICES ASSUME NEW i \in 1..s
               PROVE  row.records[i].complete /\ row.records[i].pointers = <<[kind |-> "node", id |-> i]>>
    OBVIOUS
  <2>1. row.records[i] = Element(q, i)
    BY <1>4
  <2> QED
    BY <2>1 DEF Element
<1>6. \A i \in 1..s : row.records[i].pointers[1].kind = "node" /\ row.records[i].pointers[1].id = i
  <2> SUFFICES ASSUME NEW i \in 1..s
               PROVE  row.records[i].pointers[1].kind = "node" /\ row.records[i].pointers[1].id = i
    OBVIOUS
  <2>1. row.records[i].pointers[1] = [kind |-> "node", id |-> i]
    BY <1>5
  <2> QED
    BY <2>1
<1>7. \A i, j \in 1..s : row.records[i].pointers = row.records[j].pointers => i = j
  <2> SUFFICES ASSUME NEW i \in 1..s, NEW j \in 1..s, row.records[i].pointers = row.records[j].pointers PROVE i = j
    OBVIOUS
  <2>1. row.records[i].pointers[1].id = i /\ row.records[j].pointers[1].id = j
    BY <1>6
  <2> QED
    BY <2>1
<1>8. \A i \in DOMAIN row.records : row.records[i].complete /\ row.records[i].pointers[1].kind = "node"
  BY <1>4, <1>5, <1>6
<1>9. \A i, j \in DOMAIN row.records : row.records[i].pointers = row.records[j].pointers => i = j
  BY <1>4, <1>7
<1>10. Compiled(q).preflight = {n} /\ Compiled(q).size = s
  BY CompiledIs
<1>11. Evaluate!CandidatesAgree(q.check, Compiled(q), row)
  BY <1>1, <1>2, <1>3, <1>4, <1>8, <1>9, <1>10
     DEF Evaluate!CandidatesAgree, Evaluate!IsCount, Evaluate!NotCounted
<1>12. Evaluate!Matching(row) # <<>> <=> bad # <<>>
  <2>1. DOMAIN Evaluate!Matching(row) = 1..Len(bad)
    BY <1>2, MatchingIs
  <2>2. DOMAIN Evaluate!Matching(row) = DOMAIN bad
    BY <1>1, <2>1
  <2> QED
    <3>1. CASE bad = <<>>
      <4>1. Len(bad) = 0 /\ 1..0 = {}
        BY <3>1
      <4>2. Evaluate!Matching(row) = [j \in {} |-> Evaluate!Matching(row)[j]]
        BY <1>2, <4>1, MatchingIs
      <4>3. \A f : f = [j \in {} |-> f[j]] => f = <<>>
        OBVIOUS
      <4> QED
        BY <3>1, <4>2, <4>3
    <3>2. CASE bad # <<>>
      <4>1. DOMAIN bad # {}
        BY <1>1, <3>2 DEF FindsAsked, MarkedUpTo
      <4>2. DOMAIN <<>> = {}
        OBVIOUS
      <4> QED
        BY <2>2, <3>2, <4>1, <4>2
    <3> QED
      BY <3>1, <3>2
<1> QED
  BY <1>11, <1>12, ReadOneWay DEF Follows, Poor

(* What a failing row lists as its evidence.                                *)
LEMMA EvidenceForIs ==
  ASSUME NEW q, AsksVerdict(q), NEW n \in Nat, NEW s \in Nat, NEW bad, FindsAsked(q, n, s, bad),
         NEW row, Honest(q, n, s, bad, row), bad # <<>>
  PROVE  FoundNamed(Evaluate!EvidenceFor(q.check, Compiled(q), row), bad)
<1>1. /\ Len(bad) \in Nat /\ MarkedUpTo(s, q.violates, bad)
      /\ \A j \in 1..Len(bad) : bad[j] \in 1..s
  BY DEF FindsAsked
<1>2. q.cap \in Nat \ {0} /\ Compiled(q).cap = q.cap
  BY CompiledIs DEF AsksVerdict
<1>3. CASE q.check \in Evaluate!Sampled
  <2>1. PICK found : found = Evaluate!Matching(row)
    OBVIOUS
  <2>2. row.records = [i \in 1..s |-> Element(q, i)]
    BY <1>3 DEF Honest
  <2>3. /\ DOMAIN found = 1..Len(bad) /\ found = [j \in 1..Len(bad) |-> found[j]]
        /\ \A j \in 1..Len(bad) : found[j] = Element(q, bad[j])
    BY <2>1, <2>2, MatchingIs
  <2>4. Len(found) = Len(bad)
    BY <1>1, <2>3
  <2>5. Evaluate!Pointers(found) = Nodes(bad, Len(bad))
    BY <1>1, <2>3, ListedAre
  <2>6. Evaluate!EvidenceFor(q.check, Compiled(q), row)
          = Evaluate!EvidenceOf(Nodes(bad, Len(bad)), q.cap, Len(bad), FALSE)
    BY <1>2, <1>3, <2>1, <2>4, <2>5 DEF Evaluate!EvidenceFor
  <2> QED
    BY <1>1, <1>2, <2>6, FoundIsNamed
<1>4. CASE q.check \notin Evaluate!Sampled
  <2>1. PICK l \in Nat : l = Shown(q, bad) /\ (l = Len(bad) \/ (l = q.cap /\ l <= Len(bad))) /\ l <= Len(bad)
    BY <1>1, <1>2 DEF Shown
  <2>2. row.records = [i \in 1..l |-> Element(q, bad[i])] /\ row.violations = Len(bad)
    BY <1>4, <2>1 DEF Honest
  <2>3. \A j \in 1..l : bad[j] \in 1..s
    BY <1>1, <2>1
  <2>4. PICK records : records = row.records
    OBVIOUS
  <2>5. DOMAIN records = 1..l /\ \A j \in 1..l : records[j] = Element(q, bad[j])
    BY <2>2, <2>4
  <2>6. Evaluate!Pointers(records) = Nodes(bad, l)
    BY <2>3, <2>5, ListedAre
  <2>7. Evaluate!EvidenceFor(q.check, Compiled(q), row)
          = Evaluate!EvidenceOf(Nodes(bad, l), q.cap, Len(bad), FALSE)
    BY <1>2, <1>4, <2>2, <2>4, <2>6 DEF Evaluate!EvidenceFor
  <2>8. FoundNamed(Evaluate!EvidenceOf(Nodes(bad, l), q.cap, Len(bad), FALSE), bad)
    BY <1>1, <1>2, <2>1, FoundIsNamed
  <2> QED
    BY <2>7, <2>8
<1> QED
  BY <1>3, <1>4

(* A row that counts more violations than there are elements.               *)
LEMMA BrokenRefused ==
  ASSUME NEW q, AsksVerdict(q), NEW n \in Nat, NEW s \in Nat, NEW bad, FindsAsked(q, n, s, bad),
         NEW row, Honest(q, n, s, bad, row), NEW broken,
         broken.violations = n + 1, broken.population = n, broken.conforming = n - Len(bad), broken.sample = s,
         q.check \in Evaluate!Coverage \cup Evaluate!Provenance \cup {"hub_outlier"}
  PROVE  ~Evaluate!Agrees(q.check, Compiled(q), broken)
<1>1. PICK b \in Nat : b = Len(bad) /\ b <= s /\ s <= n
  BY DEF FindsAsked
<1>2. CASE q.check \in Evaluate!Coverage
  <2>1. broken.conforming + broken.violations = (n - b) + (n + 1)
    BY <1>1
  <2>2. (n - b) + (n + 1) # n
    BY <1>1
  <2>3. ~Evaluate!CoverageAgrees(broken)
    BY <2>1, <2>2 DEF Evaluate!CoverageAgrees
  <2> QED
    BY <1>2, <2>3, ReadOneWay
<1>3. CASE q.check \in Evaluate!Provenance
  <2>1. ~(broken.violations <= broken.population)
    OBVIOUS
  <2>2. ~Evaluate!ReportAgrees(q.check, Compiled(q), broken)
    BY <1>3, <2>1, ReadOneWay DEF Evaluate!ReportAgrees
  <2> QED
    BY <1>3, <2>2, ReadOneWay
<1>4. CASE q.check = "hub_outlier"
  <2>1. ~(broken.violations <= broken.sample)
    BY <1>1
  <2>2. Compiled(q).sampled
    BY <1>4, CompiledIs
  <2>3. ~Evaluate!SampleAgrees(Compiled(q), broken)
    BY <2>1, <2>2 DEF Evaluate!SampleAgrees
  <2>4. q.check \in Evaluate!Plain
    BY <1>4 DEF Evaluate!Plain
  <2> QED
    BY <2>3, <2>4, ReadOneWay
<1> QED
  BY <1>2, <1>3, <1>4

(* A verdict follows the elements, whatever the check, however many elements *)
(* there are, and however they are sampled.                                 *)
THEOREM VerdictsFollow ==
  ASSUME NEW q, AsksVerdict(q)
  PROVE  VerdictFollows(q)
<1>1. PICK n, s \in Nat : FindsAsked(q, n, s, Found(q))
  BY FoundIs
<1>2. PICK bad : bad = Found(q)
  OBVIOUS
<1>3. FindsAsked(q, n, s, bad)
  BY <1>1, <1>2
<1>4. PICK row : row = Summary(q)
  OBVIOUS
<1>5. Honest(q, n, s, bad, row)
  BY <1>3, <1>4, SummaryIs
<1>6. PICK broken : broken = [row EXCEPT !.violations = n + 1]
  OBVIOUS
<1>7. /\ broken.violations = n + 1 /\ broken.population = n /\ broken.conforming = n - Len(bad)
      /\ broken.sample = s /\ broken.schema = row.schema
  <2> DEFINE coverage == IF n = 0 THEN <<1, 1>> ELSE <<n - Len(bad), n>>
             schema == IF n = 0 THEN "missing" ELSE "ok"
             records == IF q.check \in Evaluate!Sampled THEN [i \in 1..s |-> Element(q, i)]
                      ELSE [i \in 1..(IF Len(bad) < q.cap THEN Len(bad) ELSE q.cap) |-> Element(q, bad[i])]
  <2>1. row = [schema |-> schema, population |-> n, sample |-> s,
                    violations |-> Len(bad), conforming |-> n - Len(bad),
                    coverage |-> coverage, records |-> records]
    BY <1>3, <1>4 DEF Summary, FindsAsked
  <2> HIDE DEF coverage, schema, records
  <2> QED
    BY <1>6, <2>1
<1>8. PICK verdict : verdict = Evaluate!Conformance(q.check, Compiled(q), row, q.empty)
  OBVIOUS
<1>9. PICK refused : refused = Evaluate!Conformance(q.check, Compiled(q), broken, q.empty)
  OBVIOUS
<1>10. q.empty \in BOOLEAN
  BY DEF AsksVerdict
<1>11. (n = 0 => row.schema = "missing") /\ (n # 0 => row.schema = "ok")
  BY <1>5 DEF Honest
<1>12. ASSUME n = 0, ~q.empty PROVE verdict.outcome = "schema_reference_missing"
  <2>1. verdict = Evaluate!Unresolved
    BY <1>8, <1>11, <1>12 DEF Evaluate!Conformance
  <2> QED
    BY <2>1 DEF Evaluate!Unresolved
<1>13. ASSUME ~(n = 0 /\ ~q.empty)
       PROVE  row.schema = "ok" \/ (row.schema = "missing" /\ q.empty)
  BY <1>10, <1>11, <1>13
<1>14. Follows(q, n, bad, row)
  <2>1. \/ q.check \in Evaluate!Coverage \/ q.check \in Evaluate!Provenance
        \/ q.check \in Evaluate!Sampled \/ q.check \in Evaluate!Plain
    BY DEF AsksVerdict
  <2> QED
    BY <1>3, <1>5, <2>1, CoverageFollows, ProvenanceFollows, SampledFollows, PlainFollows
<1>15. ASSUME Poor(q, n, bad) PROVE bad # <<>>
  <2>1. CASE q.check \in Evaluate!Coverage
    <3>1. Len(bad) # 0
      BY <1>15, <2>1 DEF Poor
    <3> QED
      BY <3>1
  <2>2. CASE q.check \notin Evaluate!Coverage
    BY <1>15, <2>2 DEF Poor
  <2> QED
    BY <2>1, <2>2
<1>16. ASSUME ~(n = 0 /\ ~q.empty), Poor(q, n, bad)
       PROVE  /\ verdict.outcome = "fail" /\ verdict.evidence.total = Len(bad)
              /\ Named(verdict.evidence) \subseteq Range(bad)
              /\ (~verdict.evidence.truncated => Named(verdict.evidence) = Range(bad))
  <2>1. PICK e : e = Evaluate!EvidenceFor(q.check, Compiled(q), row)
    OBVIOUS
  <2>2. FoundNamed(e, bad)
    BY <1>3, <1>5, <1>15, <1>16, <2>1, EvidenceForIs
  <2>3. verdict = Evaluate!Failing(e)
    BY <1>8, <1>10, <1>13, <1>14, <1>16, <2>1, RowsAreJudged DEF Follows
  <2>4. verdict = [outcome |-> "fail", evidence |-> e]
    BY <2>2, <2>3 DEF FoundNamed, Evaluate!Failing
  <2>5. verdict.outcome = "fail" /\ verdict.evidence = e
    BY <2>4
  <2> QED
    BY <2>2, <2>5 DEF FoundNamed
<1>17. ASSUME ~(n = 0 /\ ~q.empty), ~Poor(q, n, bad) PROVE verdict.outcome = "pass"
  <2>1. verdict = Evaluate!Passing
    BY <1>8, <1>10, <1>13, <1>14, <1>17, RowsAreJudged DEF Follows
  <2> QED
    BY <2>1 DEF Evaluate!Passing
<1>18. Evaluate!Estimated(q.check, Compiled(q), row) <=> Sample!IsEstimated(Decision(q))
  <2>1. row.sample = s /\ row.population = n
    BY <1>5 DEF Honest
  <2>2. (Sample!IsEstimated(Decision(q)) <=> s < n)
        /\ (q.check \notin Evaluate!Sampled \cup {"hub_outlier"} => s = n)
    BY <1>3 DEF FindsAsked
  <2>3. Compiled(q).sampled <=> q.check = "hub_outlier"
    BY <1>3, CompiledIs
  <2> QED
    BY <2>1, <2>2, <2>3 DEF Evaluate!Estimated
<1>19. ASSUME ~Sample!IsEstimated(Decision(q)), bad = <<>>, NEW i \in DOMAIN q.violates PROVE ~q.violates[i]
  <2>1. s = n /\ DOMAIN q.violates = 1..n /\ MarkedUpTo(s, q.violates, bad)
    BY <1>3, <1>19 DEF FindsAsked
  <2>2. Range(bad) = {}
    BY <1>19 DEF Range
  <2> QED
    BY <2>1, <2>2 DEF MarkedUpTo
<1>20. ASSUME ~(n = 0 /\ ~q.empty), q.check \in Evaluate!Coverage \cup Evaluate!Provenance \cup {"hub_outlier"}
       PROVE  refused.outcome = "invalid_query_result"
  <2>1. ~Evaluate!Agrees(q.check, Compiled(q), broken)
    BY <1>3, <1>5, <1>7, <1>20, BrokenRefused
  <2>2. broken.schema = "ok" \/ (broken.schema = "missing" /\ q.empty)
    BY <1>7, <1>13, <1>20
  <2>3. refused = Evaluate!Refused
    BY <1>9, <1>10, <2>1, <2>2, RowsAreJudged
  <2> QED
    BY <2>3 DEF Evaluate!Refused
<1>21. n = Len(q.violates)
  BY <1>3 DEF FindsAsked
<1> HIDE DEF Evaluate!Refused
<1> DEFINE poor == IF q.check \in Evaluate!Coverage THEN 3 * (n - Len(bad)) < 2 * n ELSE bad # <<>>
<1>22. poor <=> Poor(q, n, bad)
  BY DEF Poor
<1>23. IF n = 0 /\ ~q.empty THEN verdict.outcome = "schema_reference_missing"
       ELSE /\ verdict.outcome = IF poor THEN "fail" ELSE "pass"
            /\ poor => /\ verdict.evidence.total = Len(bad)
                       /\ Named(verdict.evidence) \subseteq Range(bad)
                       /\ ~verdict.evidence.truncated => Named(verdict.evidence) = Range(bad)
            /\ Evaluate!Estimated(q.check, Compiled(q), row) <=> Sample!IsEstimated(Decision(q))
            /\ ~Sample!IsEstimated(Decision(q)) /\ bad = <<>> => \A i \in DOMAIN q.violates : ~q.violates[i]
            /\ q.check \in Evaluate!Coverage \cup Evaluate!Provenance \cup {"hub_outlier"} =>
                 refused.outcome = "invalid_query_result"
  <2> HIDE DEF poor
  <2> QED
    BY <1>12, <1>16, <1>17, <1>18, <1>19, <1>20, <1>22
<1> QED
  BY <1>2, <1>4, <1>6, <1>8, <1>9, <1>21, <1>23 DEF VerdictFollows, Named

------------------------------------------------------------------------------
(* Drift: any two measurements under any limits.                            *)
AsksDrift(q) ==
  /\ q.metric \in {"node_count", "property_coverage"}
  /\ q.current \in Nat /\ q.recorded \in Nat
  /\ q.metric = "property_coverage" => {q.current, q.recorded} \subseteq 0..100
  /\ q.limits \in [max_drop_pct : SUBSET Nat, max_increase_pct : SUBSET Nat, max_change_pct : SUBSET Nat,
                   max_delta : SUBSET Nat, absolute : SUBSET Nat, min : SUBSET Int, max : SUBSET Int]

(* The limits that a change exceeds.                                        *)
Dropped(delta, baseline, p) == delta < 0 /\ Evaluate!Exceeds(-delta, baseline, p)
Increased(delta, baseline, p) == delta > 0 /\ Evaluate!Exceeds(delta, baseline, p)
Changed(delta, baseline, p) == delta # 0 /\ Evaluate!Exceeds(Evaluate!Magnitude(delta), baseline, p)
Bound(limits) == IF limits.max_delta # {} THEN limits.max_delta ELSE limits.absolute

WithinLimits(current, baseline, limits) ==
  /\ \A p \in limits.max_drop_pct : ~Dropped(current - baseline, baseline, p)
  /\ \A p \in limits.max_increase_pct : ~Increased(current - baseline, baseline, p)
  /\ \A p \in limits.max_change_pct : ~Changed(current - baseline, baseline, p)
  /\ \A p \in Bound(limits) : ~(Evaluate!Magnitude(current - baseline) > p)
  /\ \A p \in limits.min : ~(current < p)
  /\ \A p \in limits.max : ~(current > p)

LEMMA FailuresAre ==
  ASSUME NEW current, NEW baseline, NEW limits
  PROVE  Evaluate!DriftFailures(current, baseline, limits) = {} <=> WithinLimits(current, baseline, limits)
<1> DEFINE delta == current - baseline
           a == {q \in limits.max_drop_pct : delta < 0 /\ Evaluate!Exceeds(-delta, baseline, q)}
           b == {q \in limits.max_increase_pct : delta > 0 /\ Evaluate!Exceeds(delta, baseline, q)}
           c == {q \in limits.max_change_pct : delta # 0 /\ Evaluate!Exceeds(Evaluate!Magnitude(delta), baseline, q)}
           absolute == IF limits.max_delta # {} THEN limits.max_delta ELSE limits.absolute
           d == {q \in absolute : Evaluate!Magnitude(delta) > q}
           e == {q \in limits.min : current < q}
           f == {q \in limits.max : current > q}
<1>1. Evaluate!DriftFailures(current, baseline, limits)
        = {"drop" : p \in a} \cup {"increase" : p \in b} \cup {"change" : p \in c}
          \cup {"delta" : p \in d} \cup {"min" : p \in e} \cup {"max" : p \in f}
  BY DEF Evaluate!DriftFailures
<1>2. WithinLimits(current, baseline, limits) <=> a = {} /\ b = {} /\ c = {} /\ d = {} /\ e = {} /\ f = {}
  <2>1. (\A p \in limits.max_drop_pct : ~Dropped(delta, baseline, p)) <=> a = {}
    BY DEF Dropped
  <2>2. (\A p \in limits.max_increase_pct : ~Increased(delta, baseline, p)) <=> b = {}
    BY DEF Increased
  <2>3. (\A p \in limits.max_change_pct : ~Changed(delta, baseline, p)) <=> c = {}
    BY DEF Changed
  <2>4. (\A p \in Bound(limits) : ~(Evaluate!Magnitude(delta) > p)) <=> d = {}
    BY DEF Bound
  <2>5. (\A p \in limits.min : ~(current < p)) <=> e = {}
    OBVIOUS
  <2>6. (\A p \in limits.max : ~(current > p)) <=> f = {}
    OBVIOUS
  <2> HIDE DEF a, b, c, d, e, f
  <2> QED
    BY <2>1, <2>2, <2>3, <2>4, <2>5, <2>6 DEF WithinLimits
<1> HIDE DEF a, b, c, d, e, f
<1> QED
  BY <1>1, <1>2

(* An unchanged value exceeds no limit on its change.                       *)
LEMMA UnchangedIsWithin ==
  ASSUME NEW value \in Nat, NEW limits, Bound(limits) \subseteq Nat,
         limits.min = {}, limits.max = {}
  PROVE  WithinLimits(value, value, limits)
<1>1. value - value = 0
  OBVIOUS
<1>2. Evaluate!Magnitude(0) = 0
  BY DEF Evaluate!Magnitude
<1>3. /\ \A p : ~Dropped(0, value, p) /\ ~Increased(0, value, p) /\ ~Changed(0, value, p)
  BY DEF Dropped, Increased, Changed
<1>4. \A p \in Bound(limits) : ~(Evaluate!Magnitude(0) > p)
  BY <1>2
<1> QED
  BY <1>1, <1>3, <1>4 DEF WithinLimits

(* A change is a drop or an increase.                                       *)
LEMMA ChangedIs ==
  ASSUME NEW delta \in Int, NEW baseline, NEW p
  PROVE  Changed(delta, baseline, p) <=> Dropped(delta, baseline, p) \/ Increased(delta, baseline, p)
<1>1. CASE delta < 0
  <2>1. Evaluate!Magnitude(delta) = -delta
    BY <1>1 DEF Evaluate!Magnitude
  <2> QED
    BY <1>1, <2>1 DEF Changed, Dropped, Increased
<1>2. CASE ~(delta < 0)
  <2>1. Evaluate!Magnitude(delta) = delta
    BY <1>2 DEF Evaluate!Magnitude
  <2> QED
    BY <1>2, <2>1 DEF Changed, Dropped, Increased
<1> QED
  BY <1>1, <1>2

LEMMA MagnitudeIs ==
  ASSUME NEW m \in Nat, NEW n \in Nat
  PROVE  /\ Evaluate!Magnitude(m - n) \in Nat
         /\ m >= n => Evaluate!Magnitude(m - n) = m - n
         /\ m < n => Evaluate!Magnitude(m - n) = n - m
BY DEF Evaluate!Magnitude

(* The names that appeared or went are as many as the difference says.      *)
Aggregates(names) == {[kind |-> "aggregate", id |-> x] : x \in names}

LEMMA ListingCounts ==
  ASSUME NEW lo \in Nat, NEW k \in Nat
  PROVE  /\ Evaluate!SetToSeq(Aggregates(lo + 1..lo + k)) \in [1..k -> Aggregates(lo + 1..lo + k)]
<1> DEFINE names == lo + 1..lo + k
           entry(i) == [kind |-> "aggregate", id |-> lo + i]
           S == Aggregates(names)
           f == [i \in 1..k |-> entry(i)]
<1>1. \A x \in names : \E i \in 1..k : x = lo + i
  <2> SUFFICES ASSUME NEW x \in names PROVE \E i \in 1..k : x = lo + i
    OBVIOUS
  <2>1. x - lo \in 1..k /\ x = lo + (x - lo)
    OBVIOUS
  <2> QED
    BY <2>1
<1>2. \A i \in 1..k : lo + i \in names
  OBVIOUS
<1>3. \A i, j \in 1..k : entry(i) = entry(j) => i = j
  <2> SUFFICES ASSUME NEW i \in 1..k, NEW j \in 1..k, entry(i) = entry(j) PROVE i = j
    OBVIOUS
  <2>1. entry(i).id = lo + i /\ entry(j).id = lo + j
    OBVIOUS
  <2>2. lo + i = lo + j
    BY <2>1
  <2> QED
    BY <2>2
<1>4. \A i \in 1..k : entry(i) \in S
  BY <1>2 DEF Aggregates
<1>5. \A y \in S : \E i \in 1..k : y = entry(i)
  BY <1>1 DEF Aggregates
<1> HIDE DEF S, entry, names
<1>6. f \in [1..k -> S] /\ DOMAIN f = 1..k /\ \A i \in 1..k : f[i] = entry(i)
  BY <1>4
<1> HIDE DEF f
<1>7. f \in Bijection(1..k, S)
  BY <1>3, <1>5, <1>6 DEF Bijection, Injection, Surjection, IsInjective
<1>8. Cardinality(S) = k
  BY <1>7, FS_CountingElements DEF ExistsBijection
<1>9. Evaluate!Cardinality(S) = k
  BY <1>8 DEF Evaluate!Cardinality, Cardinality
<1>10. Evaluate!IsInjective(f)
  BY <1>3, <1>6 DEF Evaluate!IsInjective
<1>11. Evaluate!SetToSeq(S) \in [1..k -> S]
  BY <1>6, <1>9, <1>10 DEF Evaluate!SetToSeq
<1> QED
  BY <1>11 DEF S, names

IsListing(pointers, k) ==
  /\ pointers \in Seq(Range(pointers)) /\ Len(pointers) = k /\ DOMAIN pointers = 1..k
  /\ \A i \in 1..k : Evaluate!Retained(pointers[i], TRUE)

LEMMA InventoryLists ==
  ASSUME NEW m \in Nat, NEW n \in Nat, NEW limits
  PROVE  \E k \in Nat : \E pointers :
           /\ k = Evaluate!Magnitude(m - n) /\ IsListing(pointers, k)
           /\ Evaluate!InventoryDrift(1..m, 1..n, limits, 1) =
                IF Evaluate!DriftFailures(k, 0, limits) = {} THEN Evaluate!Passing
                ELSE Evaluate!Failing(Evaluate!EvidenceOf(pointers, 1, k, TRUE))
<1> DEFINE changed == ((1..m) \ (1..n)) \cup ((1..n) \ (1..m))
<1>1. PICK lo, k \in Nat : changed = lo + 1..lo + k /\ k = Evaluate!Magnitude(m - n)
  <2>1. CASE m >= n
    <3>1. (1..n) \ (1..m) = {} /\ (1..m) \ (1..n) = n + 1..n + (m - n) /\ m - n \in Nat
      BY <2>1
    <3> QED
      BY <2>1, <3>1, MagnitudeIs
  <2>2. CASE m < n
    <3>1. (1..m) \ (1..n) = {} /\ (1..n) \ (1..m) = m + 1..m + (n - m) /\ n - m \in Nat
      BY <2>2
    <3> QED
      BY <2>2, <3>1, MagnitudeIs
  <2> QED
    BY <2>1, <2>2
<1> DEFINE pointers == Evaluate!SetToSeq(Aggregates(changed))
<1> HIDE DEF changed
<1>2. pointers \in [1..k -> Aggregates(changed)]
  BY <1>1, ListingCounts
<1>3. \A y \in Aggregates(changed) : Evaluate!Retained(y, TRUE)
  BY DEF Aggregates, Evaluate!Retained, Evaluate!NoPointer
<1>4. Evaluate!InventoryDrift(1..m, 1..n, limits, 1) =
        IF Evaluate!DriftFailures(Len(pointers), 0, limits) = {} THEN Evaluate!Passing
        ELSE Evaluate!Failing(Evaluate!EvidenceOf(pointers, 1, Len(pointers), TRUE))
  BY DEF Evaluate!InventoryDrift, changed, Aggregates
<1> HIDE DEF pointers
<1>5. Len(pointers) = k /\ DOMAIN pointers = 1..k /\ pointers \in Seq(Range(pointers))
  <2>1. \A i \in 1..k : pointers[i] \in Range(pointers)
    BY <1>2 DEF Range
  <2>2. pointers = [i \in 1..k |-> pointers[i]]
    BY <1>2
  <2>3. pointers \in [1..k -> Range(pointers)]
    BY <2>1, <2>2
  <2> QED
    BY <2>3
<1>6. \A i \in 1..k : Evaluate!Retained(pointers[i], TRUE)
  <2>1. \A i \in 1..k : pointers[i] \in Aggregates(changed)
    BY <1>2
  <2> QED
    BY <1>3, <2>1
<1>7. IsListing(pointers, k)
  BY <1>5, <1>6 DEF IsListing
<1> QED
  BY <1>1, <1>4, <1>5, <1>7

(* A failing evaluation names something as soon as something is to be named. *)
FailsWith(verdict, total) ==
  /\ verdict.outcome = "fail" /\ verdict.evidence.total = total

LEMMA ListingFails ==
  ASSUME NEW pointers, NEW k \in Nat, IsListing(pointers, k)
  PROVE  LET verdict == Evaluate!Failing(Evaluate!EvidenceOf(pointers, 1, k, TRUE))
         IN  IF k = 0 THEN verdict.outcome = "evidence_missing" ELSE FailsWith(verdict, k)
<1> DEFINE e == Evaluate!EvidenceOf(pointers, 1, k, TRUE)
<1>1. /\ pointers \in Seq(Range(pointers)) /\ Len(pointers) = k /\ DOMAIN pointers = 1..k
      /\ \A i \in 1..k : Evaluate!Retained(pointers[i], TRUE)
  BY DEF IsListing
<1>2. CountsEvidence(e, pointers, k, TRUE)
  <2>1. 1 \in Nat \ {0}
    OBVIOUS
  <2> QED
    BY <1>1, <2>1, EvidenceCounts
<1> HIDE DEF e
<1>3. e.total = k /\ (e.elements = <<>> <=> \A i \in 1..k : ~Evaluate!Retained(pointers[i], TRUE))
  <2>1. e.total = k
    <3>1. Len(pointers) <= k
      BY <1>1
    <3> QED
      BY <1>2, <3>1 DEF CountsEvidence
  <2>2. e.elements = <<>> <=> \A i \in 1..k : ~Evaluate!Retained(pointers[i], TRUE)
    BY <1>1, <1>2 DEF CountsEvidence
  <2> QED
    BY <2>1, <2>2
<1>4. CASE k = 0
  <2>1. e.elements = <<>>
    BY <1>3, <1>4
  <2>2. Evaluate!Failing(e) = [outcome |-> "evidence_missing"]
    BY <2>1 DEF Evaluate!Failing
  <2>3. Evaluate!Failing(e).outcome = "evidence_missing"
    BY <2>2
  <2> QED
    BY <1>4, <2>3 DEF e
<1>5. CASE k # 0
  <2>1. 1 \in 1..k
    BY <1>5
  <2>2. e.elements # <<>>
    BY <1>1, <1>3, <2>1
  <2>3. Evaluate!Failing(e) = [outcome |-> "fail", evidence |-> e]
    BY <2>2 DEF Evaluate!Failing
  <2>4. FailsWith(Evaluate!Failing(e), k)
    BY <1>3, <2>3 DEF FailsWith
  <2> QED
    BY <1>5, <2>4 DEF e
<1> QED
  BY <1>4, <1>5

(* An inventory is measured against no change at all.                       *)
ExplainsInventory(drift, changed, limits) ==
  /\ drift.outcome = "fail" => drift.evidence.total = changed
  /\ drift.outcome = "evidence_missing" => changed = 0 /\ (limits.min # {} \/ \E x \in limits.max : x < 0)
  /\ 0 \in limits.absolute /\ limits.max_delta = {} /\ changed > 0 => drift.outcome = "fail"

LEMMA InventoryIsExplained ==
  ASSUME NEW m \in Nat, NEW n \in Nat, NEW limits, Bound(limits) \subseteq Nat, limits.max \subseteq Int,
         NEW drift, drift = Evaluate!InventoryDrift(1..m, 1..n, limits, 1),
         NEW changed, changed = Evaluate!Magnitude(m - n)
  PROVE  ExplainsInventory(drift, changed, limits)
<1> SUFFICES /\ drift.outcome = "fail" => drift.evidence.total = changed
             /\ drift.outcome = "evidence_missing" => changed = 0 /\ (limits.min # {} \/ \E x \in limits.max : x < 0)
             /\ 0 \in limits.absolute /\ limits.max_delta = {} /\ changed > 0 => drift.outcome = "fail"
  BY DEF ExplainsInventory
<1>0. PICK k \in Nat : \E pointers :
           /\ k = Evaluate!Magnitude(m - n) /\ IsListing(pointers, k)
           /\ Evaluate!InventoryDrift(1..m, 1..n, limits, 1) =
                IF Evaluate!DriftFailures(k, 0, limits) = {} THEN Evaluate!Passing
                ELSE Evaluate!Failing(Evaluate!EvidenceOf(pointers, 1, k, TRUE))
  BY InventoryLists
<1>1. PICK pointers :
           /\ k = Evaluate!Magnitude(m - n) /\ IsListing(pointers, k)
           /\ Evaluate!InventoryDrift(1..m, 1..n, limits, 1) =
                IF Evaluate!DriftFailures(k, 0, limits) = {} THEN Evaluate!Passing
                ELSE Evaluate!Failing(Evaluate!EvidenceOf(pointers, 1, k, TRUE))
  BY <1>0
<1>2. Evaluate!DriftFailures(k, 0, limits) = {} <=> WithinLimits(k, 0, limits)
  BY FailuresAre
<1>3. CASE WithinLimits(k, 0, limits)
  <2>1. drift = Evaluate!Passing
    BY <1>1, <1>2, <1>3
  <2>2. drift.outcome = "pass"
    BY <2>1 DEF Evaluate!Passing
  <2>3. ASSUME 0 \in limits.absolute, limits.max_delta = {}, changed > 0 PROVE FALSE
    <3>1. 0 \in Bound(limits)
      BY <2>3 DEF Bound
    <3>2. ~(Evaluate!Magnitude(k - 0) > 0)
      BY <1>3, <3>1 DEF WithinLimits
    <3>3. Evaluate!Magnitude(k - 0) = k /\ k > 0
      <4>1. k > 0
        BY <1>1, <2>3
      <4>2. k - 0 = k
        OBVIOUS
      <4> QED
        BY <4>1, <4>2 DEF Evaluate!Magnitude
    <3> QED
      BY <3>2, <3>3
  <2> QED
    BY <2>2, <2>3
<1>4. CASE ~WithinLimits(k, 0, limits)
  <2>1. drift = Evaluate!Failing(Evaluate!EvidenceOf(pointers, 1, k, TRUE))
    BY <1>1, <1>2, <1>4
  <2>2. IF k = 0 THEN drift.outcome = "evidence_missing" ELSE FailsWith(drift, k)
    BY <1>1, <2>1, ListingFails
  <2>3. CASE k = 0
    <3>1. limits.min # {} \/ \E x \in limits.max : x < 0
      <4>1. SUFFICES ASSUME limits.min = {}, \A x \in limits.max : ~(x < 0) PROVE FALSE
        OBVIOUS
      <4>2. WithinLimits(0, 0, limits)
        <5>1. Evaluate!Magnitude(0 - 0) = 0
          BY DEF Evaluate!Magnitude
        <5>2. \A p : ~Dropped(0 - 0, 0, p) /\ ~Increased(0 - 0, 0, p) /\ ~Changed(0 - 0, 0, p)
          BY DEF Dropped, Increased, Changed
        <5>3. \A p \in limits.max : ~(0 > p)
          BY <4>1
        <5>4. \A p \in Bound(limits) : ~(Evaluate!Magnitude(0 - 0) > p)
          BY <5>1
        <5> QED
          BY <4>1, <5>2, <5>3, <5>4 DEF WithinLimits
      <4> QED
        BY <1>4, <2>3, <4>2
    <3> QED
      BY <1>1, <2>2, <2>3, <3>1
  <2>4. CASE k # 0
    BY <1>1, <2>2, <2>4 DEF FailsWith
  <2> QED
    BY <2>3, <2>4
<1> QED
  BY <1>3, <1>4

(* A measurement's verdict: nothing is named where nothing is lacking.      *)
DriftRow(q, pointers) == [schema |-> "ok", current |-> q.current, population |-> 100, pointers |-> pointers]

LEMMA MeasuredFails ==
  ASSUME NEW values, NEW total \in Nat, NEW aggregates, NEW x, values = <<>> \/ values = <<x>>,
         Evaluate!Retained(x, aggregates)
  PROVE  Evaluate!Failing(Evaluate!EvidenceOf(values, 1, total, aggregates)).outcome =
           IF values = <<>> THEN "evidence_missing" ELSE "fail"
<1> DEFINE e == Evaluate!EvidenceOf(values, 1, total, aggregates)
<1>1. values \in Seq({x}) /\ (values = <<x>> => 1 \in DOMAIN values /\ values[1] = x)
      /\ (values = <<>> => DOMAIN values = {}) /\ (values = <<x>> => values # <<>>)
  <2>1. <<>> \in Seq({x}) /\ <<x>> \in Seq({x}) /\ DOMAIN <<>> = {} /\ <<x>> # <<>>
    OBVIOUS
  <2>2. 1 \in DOMAIN <<x>> /\ <<x>>[1] = x
    OBVIOUS
  <2> QED
    BY <2>1, <2>2
<1>2. CountsEvidence(e, values, total, aggregates)
  <2>1. 1 \in Nat \ {0}
    OBVIOUS
  <2> QED
    BY <1>1, <2>1, EvidenceCounts
<1> HIDE DEF e
<1>3. e.elements = <<>> <=> \A i \in DOMAIN values : ~Evaluate!Retained(values[i], aggregates)
  BY <1>2 DEF CountsEvidence
<1>4. CASE values = <<>>
  <2>1. e.elements = <<>>
    BY <1>1, <1>3, <1>4
  <2>2. Evaluate!Failing(e) = [outcome |-> "evidence_missing"]
    BY <2>1 DEF Evaluate!Failing
  <2>3. Evaluate!Failing(e).outcome = "evidence_missing"
    BY <2>2
  <2> QED
    BY <1>4, <2>3 DEF e
<1>5. CASE values = <<x>>
  <2>1. e.elements # <<>>
    BY <1>1, <1>3, <1>5
  <2>2. Evaluate!Failing(e) = [outcome |-> "fail", evidence |-> e]
    BY <2>1 DEF Evaluate!Failing
  <2>3. Evaluate!Failing(e).outcome = "fail"
    BY <2>2
  <2> QED
    BY <1>1, <1>5, <2>3 DEF e
<1> QED
  BY <1>4, <1>5

LEMMA MeasurementIsExplained ==
  ASSUME NEW q, AsksDrift(q), NEW whole, whole = (q.metric = "property_coverage" /\ 100 - q.current = 0),
         NEW pointers,
         pointers = IF q.metric = "node_count" \/ whole THEN <<>> ELSE <<[kind |-> "node", id |-> 100 - q.current]>>,
         NEW verdict,
         verdict = Evaluate!Drift(q.metric, "none", DriftRow(q, pointers),
                                  [value |-> q.recorded, pointers |-> <<>>], q.limits, 1)
  PROVE  verdict.outcome = IF Evaluate!DriftFailures(q.current, q.recorded, q.limits) = {} THEN "pass"
                           ELSE IF whole THEN "evidence_missing" ELSE "fail"
<1> DEFINE row == DriftRow(q, pointers)
           base == [value |-> q.recorded, pointers |-> <<>>]
           node == [kind |-> "node", id |-> 100 - q.current]
           scope == [kind |-> "aggregate", id |-> 0]
<1>1. /\ row.schema = "ok" /\ row.current = q.current /\ row.population = 100 /\ row.pointers = pointers
      /\ base.value = q.recorded /\ base.pointers = <<>>
  BY DEF DriftRow
<1>2. \/ q.metric = "node_count" \/ q.metric = "property_coverage"
  BY DEF AsksDrift
<1>3. Evaluate!Retained(node, FALSE) /\ Evaluate!Retained(scope, TRUE)
  BY DEF Evaluate!Retained, Evaluate!NoPointer
<1>4. q.metric = "property_coverage" => {q.current, q.recorded} \subseteq 0..100
  BY DEF AsksDrift
<1> HIDE DEF row, base, node, scope
<1>5. CASE Evaluate!DriftFailures(q.current, q.recorded, q.limits) = {}
  <2>1. verdict = Evaluate!Passing
    BY <1>1, <1>4, <1>5 DEF Evaluate!Drift, row, base
  <2>2. verdict.outcome = "pass"
    BY <2>1 DEF Evaluate!Passing
  <2> QED
    BY <1>5, <2>2
<1>6. CASE Evaluate!DriftFailures(q.current, q.recorded, q.limits) # {}
  <2>1. CASE q.metric = "node_count"
    <3>1. ~whole /\ pointers = <<>> /\ Evaluate!IsAggregate(q.metric, "none")
      BY <2>1 DEF Evaluate!IsAggregate
    <3>2. <<scope>> \o (pointers \o <<>>) = <<scope>>
      <4>1. <<>> \o <<>> = <<>> /\ \A y : <<y>> \o <<>> = <<y>>
        OBVIOUS
      <4> QED
        BY <3>1, <4>1
    <3>3. verdict = Evaluate!Failing(Evaluate!EvidenceOf(<<scope>> \o (pointers \o <<>>), 1, 1, TRUE))
      BY <1>1, <1>6, <2>1, <3>1 DEF Evaluate!Drift, row, base, scope
    <3>4. verdict = Evaluate!Failing(Evaluate!EvidenceOf(<<scope>>, 1, 1, TRUE)) /\ <<scope>> # <<>>
      BY <3>2, <3>3
    <3>5. verdict.outcome = "fail"
      <4>1. PICK values : values = <<scope>>
        OBVIOUS
      <4>2. values = <<>> \/ values = <<scope>>
        BY <4>1
      <4>3. 1 \in Nat
        OBVIOUS
      <4>4. Evaluate!Failing(Evaluate!EvidenceOf(values, 1, 1, TRUE)).outcome =
              IF values = <<>> THEN "evidence_missing" ELSE "fail"
        BY <1>3, <4>2, <4>3, MeasuredFails
      <4> QED
        BY <3>4, <4>1, <4>4
    <3> QED
      BY <1>6, <3>1, <3>5
  <2>2. CASE q.metric = "property_coverage"
    <3>1. Evaluate!IsAggregate(q.metric, "none") = FALSE
      BY <2>2 DEF Evaluate!IsAggregate
    <3>2. (whole => pointers = <<>>) /\ (~whole => pointers = <<node>>) /\ <<node>> # <<>>
      BY <2>2 DEF node
    <3>3. pointers \o <<>> = pointers
      BY <3>2
    <3>4. verdict = Evaluate!Failing(Evaluate!EvidenceOf(pointers \o <<>>, 1, 100, FALSE))
      <4>1. {row.current, base.value} \subseteq 0..100
        BY <1>1, <1>4, <2>2
      <4>2. verdict = Evaluate!Drift(q.metric, "none", row, base, q.limits, 1)
        BY DEF row, base
      <4>3. Evaluate!DriftFailures(row.current, base.value, q.limits) # {}
        BY <1>1, <1>6
      <4> QED
        BY <1>1, <3>1, <4>1, <4>2, <4>3 DEF Evaluate!Drift
    <3>5. verdict.outcome = IF pointers = <<>> THEN "evidence_missing" ELSE "fail"
      <4>1. pointers = <<>> \/ pointers = <<node>>
        BY <1>2, <3>2, <2>2
      <4>2. 100 \in Nat
        OBVIOUS
      <4>3. Evaluate!Failing(Evaluate!EvidenceOf(pointers, 1, 100, FALSE)).outcome =
              IF pointers = <<>> THEN "evidence_missing" ELSE "fail"
        BY <1>3, <4>1, <4>2, MeasuredFails
      <4> QED
        BY <3>3, <3>4, <4>3
    <3> QED
      BY <1>6, <3>2, <3>5
  <2> QED
    BY <1>2, <2>1, <2>2
<1> QED
  BY <1>5, <1>6

(* A drift verdict explains itself, whatever was measured and recorded and  *)
(* whatever the limits.                                                     *)
THEOREM DriftsAreExplained ==
  ASSUME NEW q, AsksDrift(q)
  PROVE  DriftExplained(q)
<1> DEFINE fails(limits) == Evaluate!DriftFailures(q.current, q.recorded, limits)
           none == [k \in DOMAIN q.limits |-> {}]
           delta == q.current - q.recorded
           unbounded == [q.limits EXCEPT !.min = {}, !.max = {}]
<1>1. q.current \in Nat /\ q.recorded \in Nat /\ delta \in Int
  BY DEF AsksDrift
<1>2. q.limits \in [max_drop_pct : SUBSET Nat, max_increase_pct : SUBSET Nat, max_change_pct : SUBSET Nat,
                    max_delta : SUBSET Nat, absolute : SUBSET Nat, min : SUBSET Int, max : SUBSET Int]
  BY DEF AsksDrift
<1>3. Bound(q.limits) \subseteq Nat /\ q.limits.max \subseteq Int
  BY <1>2 DEF Bound
<1>4. ASSUME q.current = q.recorded PROVE fails(unbounded) = {}
  <2>1. /\ unbounded.min = {} /\ unbounded.max = {}
        /\ unbounded.max_delta = q.limits.max_delta /\ unbounded.absolute = q.limits.absolute
    BY <1>2
  <2>2. Bound(unbounded) \subseteq Nat
    BY <1>3, <2>1 DEF Bound
  <2>3. WithinLimits(q.recorded, q.recorded, unbounded)
    BY <1>1, <2>1, <2>2, UnchangedIsWithin
  <2> HIDE DEF unbounded
  <2> QED
    BY <1>4, <2>3, FailuresAre
<1>5. ASSUME NEW p \in q.limits.max_change_pct
      PROVE  (fails([none EXCEPT !.max_change_pct = {p}]) # {}) <=>
              (fails([none EXCEPT !.max_drop_pct = {p}, !.max_increase_pct = {p}]) # {})
  <2>1. DOMAIN q.limits = {"max_drop_pct", "max_increase_pct", "max_change_pct", "max_delta", "absolute", "min", "max"}
    BY <1>2
  <2>2. PICK one : one = [none EXCEPT !.max_change_pct = {p}]
    OBVIOUS
  <2>3. PICK two : two = [none EXCEPT !.max_drop_pct = {p}, !.max_increase_pct = {p}]
    OBVIOUS
  <2>4. /\ one.max_change_pct = {p} /\ one.max_drop_pct = {} /\ one.max_increase_pct = {}
        /\ one.max_delta = {} /\ one.absolute = {} /\ one.min = {} /\ one.max = {}
    BY <2>1, <2>2
  <2>5. /\ two.max_change_pct = {} /\ two.max_drop_pct = {p} /\ two.max_increase_pct = {p}
        /\ two.max_delta = {} /\ two.absolute = {} /\ two.min = {} /\ two.max = {}
    BY <2>1, <2>3
  <2>6. WithinLimits(q.current, q.recorded, one) <=> ~Changed(delta, q.recorded, p)
    BY <2>4 DEF WithinLimits, Bound
  <2>7. WithinLimits(q.current, q.recorded, two) <=> ~Dropped(delta, q.recorded, p) /\ ~Increased(delta, q.recorded, p)
    BY <2>5 DEF WithinLimits, Bound
  <2>8. Changed(delta, q.recorded, p) <=> Dropped(delta, q.recorded, p) \/ Increased(delta, q.recorded, p)
    BY <1>1, ChangedIs
  <2>9. (fails(one) # {}) <=> (fails(two) # {})
    BY <2>6, <2>7, <2>8, FailuresAre
  <2> QED
    BY <2>2, <2>3, <2>9
<1>6. PICK whole : whole = (q.metric = "property_coverage" /\ 100 - q.current = 0)
  OBVIOUS
<1>7. PICK pointers :
        pointers = IF q.metric = "node_count" \/ whole THEN <<>> ELSE <<[kind |-> "node", id |-> 100 - q.current]>>
  OBVIOUS
<1>8. PICK verdict : verdict = Evaluate!Drift(q.metric, "none", DriftRow(q, pointers),
                                  [value |-> q.recorded, pointers |-> <<>>], q.limits, 1)
  OBVIOUS
<1>9. verdict.outcome = IF fails(q.limits) = {} THEN "pass" ELSE IF whole THEN "evidence_missing" ELSE "fail"
  BY <1>6, <1>7, <1>8, MeasurementIsExplained
<1>10. PICK drift : drift = Evaluate!InventoryDrift(1..q.current, 1..q.recorded, q.limits, 1)
  OBVIOUS
<1>11. PICK changed : changed = Evaluate!Magnitude(q.current - q.recorded)
  OBVIOUS
<1>12. /\ drift.outcome = "fail" => drift.evidence.total = changed
       /\ drift.outcome = "evidence_missing" => changed = 0 /\ (q.limits.min # {} \/ \E x \in q.limits.max : x < 0)
       /\ 0 \in q.limits.absolute /\ q.limits.max_delta = {} /\ changed > 0 => drift.outcome = "fail"
  <2>1. PICK m, n \in Nat : m = q.current /\ n = q.recorded
    BY <1>1
  <2> QED
    <3>1. drift = Evaluate!InventoryDrift(1..m, 1..n, q.limits, 1) /\ changed = Evaluate!Magnitude(m - n)
      BY <1>10, <1>11, <2>1
    <3>2. PICK limits : limits = q.limits
      OBVIOUS
    <3>3. Bound(limits) \subseteq Nat /\ limits.max \subseteq Int
      BY <1>3, <3>2
    <3>4. drift = Evaluate!InventoryDrift(1..m, 1..n, limits, 1) /\ changed = Evaluate!Magnitude(m - n)
      BY <3>1, <3>2
    <3>5. ExplainsInventory(drift, changed, limits)
      BY <3>3, <3>4, InventoryIsExplained
    <3> QED
      BY <3>2, <3>5 DEF ExplainsInventory
<1>13. verdict = Evaluate!Drift(q.metric, "none",
                   [schema |-> "ok", current |-> q.current, population |-> 100,
                    pointers |-> IF q.metric = "node_count" \/ whole THEN <<>>
                                 ELSE <<[kind |-> "node", id |-> 100 - q.current]>>],
                   [value |-> q.recorded, pointers |-> <<>>], q.limits, 1)
  BY <1>7, <1>8 DEF DriftRow
<1> QED
  BY <1>4, <1>5, <1>6, <1>9, <1>10, <1>11, <1>12, <1>13 DEF DriftExplained

------------------------------------------------------------------------------
(* Diff: for any two profiles, however large.                               *)
LEMMA MapsEqual ==
  ASSUME NEW f, NEW g, IsMap(f), IsMap(g), DOMAIN f = DOMAIN g, \A x \in DOMAIN f : f[x] = g[x]
  PROVE  f = g
BY DEF IsMap

LEMMA CountsEmpty ==
  ASSUME NEW f, NEW g, IsMap(f), IsMap(g)
  PROVE  Compare!Empty(Compare!Counts(f, g)) <=> f = g
<1>1. ASSUME f = g PROVE Compare!Empty(Compare!Counts(f, g))
  BY <1>1 DEF Compare!Empty, Compare!Counts, Compare!Added, Compare!Removed, Compare!Shared
<1>2. ASSUME Compare!Empty(Compare!Counts(f, g)) PROVE f = g
  <2>1. Compare!Added(f, g) = {} /\ Compare!Removed(f, g) = {} /\ {x \in Compare!Shared(f, g) : f[x] # g[x]} = {}
    BY <1>2 DEF Compare!Empty, Compare!Counts
  <2>2. DOMAIN f = DOMAIN g
    BY <2>1 DEF Compare!Added, Compare!Removed
  <2>3. \A x \in DOMAIN f : f[x] = g[x]
    BY <2>1, <2>2 DEF Compare!Shared
  <2> QED
    BY <2>2, <2>3, MapsEqual
<1> QED
  BY <1>1, <1>2

(* Definitions: nothing is listed when what is kept is everything.          *)
LEMMA DefinitionsEmpty ==
  ASSUME NEW f, NEW g, NEW kept, kept \subseteq DOMAIN f \cap DOMAIN g
  PROVE  Compare!Empty(Compare!Definitions(f, g, kept)) <=> (DOMAIN f = kept /\ DOMAIN g = kept)
<1> DEFINE d == Compare!Definitions(f, g, kept)
<1>1. d.changed = {} /\ d.added = DOMAIN g \ kept /\ d.removed = DOMAIN f \ kept
  BY DEF Compare!Definitions
<1> HIDE DEF d
<1> QED
  BY <1>1 DEF Compare!Empty, d

(* Labels are the same when their counts, properties and degrees are.       *)
LEMMA LabelsSame ==
  ASSUME NEW a, NEW b, IsProfile(a), IsProfile(b),
         Compare!LabelCounts(a) = Compare!LabelCounts(b),
         Compare!Empty(Compare!Properties(a.labels, b.labels)),
         {l \in Compare!Shared(a.labels, b.labels) : a.labels[l].degree # b.labels[l].degree} = {}
  PROVE  a.labels = b.labels
<1> DEFINE A == a.labels
           B == b.labels
           shared == Compare!Shared(A, B)
           names(p) == UNION {{<<l, q>> : q \in DOMAIN p[l].properties} : l \in shared}
<1>1. DOMAIN A = DOMAIN B /\ \A l \in DOMAIN A : A[l].count = B[l].count
  <2>1. /\ DOMAIN Compare!LabelCounts(a) = DOMAIN A /\ DOMAIN Compare!LabelCounts(b) = DOMAIN B
        /\ \A l \in DOMAIN A : Compare!LabelCounts(a)[l] = A[l].count
        /\ \A l \in DOMAIN B : Compare!LabelCounts(b)[l] = B[l].count
    BY DEF Compare!LabelCounts
  <2> HIDE DEF A, B
  <2> QED
    BY <2>1
<1>2. shared = DOMAIN A
  BY <1>1 DEF Compare!Shared
<1>3. /\ names(B) \ names(A) = {} /\ names(A) \ names(B) = {}
      /\ \A x \in names(A) \cap names(B) : A[x[1]].properties[x[2]] = B[x[1]].properties[x[2]]
  BY DEF Compare!Empty, Compare!Properties
<1>4. ASSUME NEW l \in DOMAIN A PROVE A[l] = B[l]
  <2>1. \A q : /\ q \in DOMAIN A[l].properties <=> <<l, q>> \in names(A)
               /\ q \in DOMAIN B[l].properties <=> <<l, q>> \in names(B)
    <3> HIDE DEF A, B, shared
    <3> QED
      BY <1>2, <1>4
  <2> HIDE DEF names, shared
  <2>2. DOMAIN A[l].properties = DOMAIN B[l].properties
    BY <1>3, <2>1
  <2>3. \A q \in DOMAIN A[l].properties : A[l].properties[q] = B[l].properties[q]
    <3> SUFFICES ASSUME NEW q \in DOMAIN A[l].properties PROVE A[l].properties[q] = B[l].properties[q]
      OBVIOUS
    <3> DEFINE x == <<l, q>>
    <3>1. x \in names(A) \cap names(B) /\ x[1] = l /\ x[2] = q
      BY <1>3, <2>1
    <3> QED
      BY <1>3, <3>1
  <2>4. IsMap(A[l].properties) /\ IsMap(B[l].properties)
    BY <1>1, <1>4 DEF IsProfile
  <2>5. A[l].properties = B[l].properties
    BY <2>2, <2>3, <2>4, MapsEqual
  <2>6. A[l].degree = B[l].degree
    BY <1>2, <1>4 DEF shared
  <2>7. /\ A[l] = [count |-> A[l].count, properties |-> A[l].properties, degree |-> A[l].degree]
        /\ B[l] = [count |-> B[l].count, properties |-> B[l].properties, degree |-> B[l].degree]
    BY <1>1, <1>4 DEF IsProfile
  <2> HIDE DEF A, B
  <2> QED
    BY <1>1, <1>4, <2>5, <2>6, <2>7
<1> QED
  BY <1>1, <1>4, MapsEqual DEF IsProfile

(* What is left out of the definitions kept is what one side only has, or   *)
(* what was replaced; it is the same from either side.                      *)
LEMMA DefinitionsMirrored ==
  ASSUME NEW f, NEW g, NEW kept
  PROVE  Compare!Definitions(g, f, kept) = Compare!Mirrored(Compare!Definitions(f, g, kept))
BY DEF Compare!Definitions, Compare!Mirrored

LEMMA CountsMirrored ==
  ASSUME NEW f, NEW g
  PROVE  Compare!Counts(g, f) = Compare!Mirrored(Compare!Counts(f, g))
BY DEF Compare!Counts, Compare!Mirrored, Compare!Added, Compare!Removed, Compare!Shared

LEMMA PropertiesMirrored ==
  ASSUME NEW f, NEW g
  PROVE  Compare!Properties(g, f) = Compare!Mirrored(Compare!Properties(f, g))
<1>1. Compare!Shared(g, f) = Compare!Shared(f, g)
  BY DEF Compare!Shared
<1> QED
  BY <1>1 DEF Compare!Properties, Compare!Mirrored

LEMMA SameIndexMirrored ==
  ASSUME NEW x, NEW y
  PROVE  Compare!SameIndex(x, y) <=> Compare!SameIndex(y, x)
BY DEF Compare!SameIndex

(* Algorithms, of any two profiles: a diff lists something exactly when it  *)
(* reports drift, none means that nothing differs, and it reads the same    *)
(* from either side (diff.py:46-320).                                       *)
THEOREM DiffsListDrift ==
  ASSUME NEW a, NEW b, IsProfile(a), IsProfile(b)
  PROVE  ListsWhatDrifted(a, b)
<1> DEFINE keptC == {x \in Compare!Shared(a.constraints, b.constraints) : a.constraints[x] = b.constraints[x]}
           keptI == {x \in Compare!Shared(a.indexes, b.indexes) : Compare!SameIndex(a.indexes[x], b.indexes[x])}
           r == Compare!Report(a, b)
           back == Compare!Report(b, a)
<1>1. /\ r.labels = Compare!Counts(Compare!LabelCounts(a), Compare!LabelCounts(b))
      /\ r.types = Compare!Counts(a.types, b.types)
      /\ r.constraints = Compare!Definitions(a.constraints, b.constraints, keptC)
      /\ r.indexes = Compare!Definitions(a.indexes, b.indexes, keptI)
      /\ r.coverage = Compare!Counts(a.coverage, b.coverage)
      /\ r.properties = Compare!Properties(a.labels, b.labels)
      /\ r.totals = {t \in {"nodes", "rels"} : a[t] # b[t]}
      /\ r.degrees = {l \in Compare!Shared(a.labels, b.labels) : a.labels[l].degree # b.labels[l].degree}
      /\ r.fingerprint = (Compare!Fingerprint(a) # Compare!Fingerprint(b))
  BY DEF Compare!Report
<1>2. /\ back.labels = Compare!Counts(Compare!LabelCounts(b), Compare!LabelCounts(a))
      /\ back.types = Compare!Counts(b.types, a.types)
      /\ back.constraints = Compare!Definitions(b.constraints, a.constraints, keptC)
      /\ back.indexes = Compare!Definitions(b.indexes, a.indexes, keptI)
      /\ back.coverage = Compare!Counts(b.coverage, a.coverage)
      /\ back.properties = Compare!Properties(b.labels, a.labels)
  <2>1. /\ keptC = {x \in Compare!Shared(b.constraints, a.constraints) : b.constraints[x] = a.constraints[x]}
        /\ keptI = {x \in Compare!Shared(b.indexes, a.indexes) : Compare!SameIndex(b.indexes[x], a.indexes[x])}
    BY SameIndexMirrored DEF Compare!Shared
  <2> HIDE DEF keptC, keptI
  <2> QED
    BY <2>1 DEF Compare!Report
<1> HIDE DEF r, back
<1>3. /\ IsMap(Compare!LabelCounts(a)) /\ IsMap(Compare!LabelCounts(b))
      /\ a.labels = b.labels => Compare!LabelCounts(a) = Compare!LabelCounts(b)
  BY DEF IsMap, Compare!LabelCounts
<1>4. /\ Compare!Empty(r.labels) <=> Compare!LabelCounts(a) = Compare!LabelCounts(b)
      /\ Compare!Empty(r.types) <=> a.types = b.types
      /\ Compare!Empty(r.coverage) <=> a.coverage = b.coverage
  BY <1>1, <1>3, CountsEmpty DEF IsProfile
<1>5. Compare!Empty(r.constraints) <=> a.constraints = b.constraints
  <2>1. keptC \subseteq DOMAIN a.constraints \cap DOMAIN b.constraints
    BY DEF Compare!Shared
  <2>2. (DOMAIN a.constraints = keptC /\ DOMAIN b.constraints = keptC) <=> a.constraints = b.constraints
    <3>1. ASSUME DOMAIN a.constraints = keptC, DOMAIN b.constraints = keptC PROVE a.constraints = b.constraints
      <4>1. \A x \in keptC : a.constraints[x] = b.constraints[x]
        OBVIOUS
      <4> HIDE DEF keptC
      <4> QED
        BY <3>1, <4>1, MapsEqual DEF IsProfile
    <3>2. ASSUME a.constraints = b.constraints PROVE keptC = DOMAIN a.constraints
      BY <3>2 DEF Compare!Shared
    <3> HIDE DEF keptC
    <3> QED
      BY <3>1, <3>2
  <2> HIDE DEF keptC
  <2> QED
    BY <1>1, <2>1, <2>2, DefinitionsEmpty
<1>6. Compare!Empty(r.indexes) =>
        \A i \in DOMAIN a.indexes \cup DOMAIN b.indexes : Compare!SameIndex(a.indexes[i], b.indexes[i])
  <2>1. keptI \subseteq DOMAIN a.indexes \cap DOMAIN b.indexes
        /\ \A i \in keptI : Compare!SameIndex(a.indexes[i], b.indexes[i])
    BY DEF Compare!Shared
  <2> HIDE DEF keptI
  <2> QED
    BY <1>1, <2>1, DefinitionsEmpty
<1>7. a.labels = b.labels => Compare!Empty(r.properties) /\ r.degrees = {}
  BY <1>1 DEF Compare!Properties, Compare!Empty
<1>8. Compare!Empty(r.labels) /\ Compare!Empty(r.properties) /\ r.degrees = {} => a.labels = b.labels
  BY <1>1, <1>4, LabelsSame
<1>9. r.totals = {} <=> a.nodes = b.nodes /\ a.rels = b.rels
  BY <1>1
<1>10. r.fingerprint <=> ~(a.labels = b.labels /\ a.types = b.types /\ a.nodes = b.nodes /\ a.rels = b.rels)
  BY <1>1 DEF Compare!Fingerprint
<1>11. Compare!DriftDetected(r) <=> \/ r.fingerprint \/ r.totals # {} \/ r.degrees # {}
                                    \/ ~Compare!Empty(r.labels) \/ ~Compare!Empty(r.types)
                                    \/ ~Compare!Empty(r.constraints) \/ ~Compare!Empty(r.indexes)
                                    \/ ~Compare!Empty(r.coverage)
  BY DEF Compare!DriftDetected
<1>12. Compare!Rendered(r) # {} <=> \/ ~Compare!Empty(r.labels) \/ ~Compare!Empty(r.types)
                                    \/ ~Compare!Empty(r.constraints) \/ ~Compare!Empty(r.indexes)
                                    \/ ~Compare!Empty(r.coverage) \/ ~Compare!Empty(r.properties)
                                    \/ r.totals # {} \/ r.degrees # {}
  BY DEF Compare!Rendered
<1>13. Compare!DriftDetected(r) <=> Compare!Rendered(r) # {}
  BY <1>4, <1>7, <1>8, <1>9, <1>10, <1>11, <1>12
<1>14. ASSUME ~Compare!DriftDetected(r)
       PROVE  /\ a.labels = b.labels /\ a.types = b.types /\ a.nodes = b.nodes /\ a.rels = b.rels
              /\ a.constraints = b.constraints /\ a.coverage = b.coverage
              /\ \A i \in DOMAIN a.indexes \cup DOMAIN b.indexes :
                   Compare!SameIndex(a.indexes[i], b.indexes[i])
  BY <1>4, <1>5, <1>6, <1>10, <1>11, <1>14
<1>15. /\ back.labels = Compare!Mirrored(r.labels) /\ back.types = Compare!Mirrored(r.types)
       /\ back.coverage = Compare!Mirrored(r.coverage)
  BY <1>1, <1>2, CountsMirrored
<1>16. /\ back.constraints = Compare!Mirrored(r.constraints) /\ back.indexes = Compare!Mirrored(r.indexes)
       /\ back.properties = Compare!Mirrored(r.properties)
  BY <1>1, <1>2, DefinitionsMirrored, PropertiesMirrored
<1>17. \A s \in {"labels", "types", "constraints", "indexes", "coverage", "properties"} :
         back[s] = Compare!Mirrored(r[s])
  BY <1>15, <1>16
<1>18. ~Compare!DriftDetected(r) =>
         /\ \A part \in {"labels", "types", "nodes", "rels", "constraints", "coverage"} : a[part] = b[part]
         /\ \A i \in DOMAIN a.indexes \cup DOMAIN b.indexes : Compare!SameIndex(a.indexes[i], b.indexes[i])
  BY <1>14
<1> QED
  BY <1>13, <1>17, <1>18 DEF ListsWhatDrifted, r, back

------------------------------------------------------------------------------
(* Packs: for any finite graph, labels, types, directions and values.       *)
(* An instance counts as the module it instantiates does.                   *)
LEMMA Counting == ASSUME NEW S PROVE Query!Cardinality(S) = Cardinality(S)
BY DEF Query!Cardinality, Cardinality

LEMMA Matched ==
  ASSUME NEW g, NEW labels, IsFiniteSet(DOMAIN g.labels)
  PROVE  /\ Query!Matching(g, labels) \subseteq DOMAIN g.labels
         /\ IsFiniteSet(Query!Matching(g, labels))
<1>1. Query!Matching(g, labels) \subseteq DOMAIN g.labels
  BY DEF Query!Matching, Query!Nodes
<1> QED
  BY <1>1, FS_Subset

(* A set of elements is no larger than the set it is chosen from.           *)
LEMMA Chosen ==
  ASSUME NEW S, IsFiniteSet(S), NEW s \in SUBSET S
  PROVE  IsFiniteSet(s) /\ Cardinality(s) \in Nat /\ Cardinality(s) <= Cardinality(S) /\ Cardinality(S) \in Nat
BY FS_Subset, FS_CardinalityType

(* The one query's CASE WHEN and the other's AND: what is violating and     *)
(* what is not of the population is told by truth values.                   *)
TruthValues == 0..2

Judged(judged) ==
  /\ IsFiniteSet(DOMAIN judged)
  /\ \A n \in DOMAIN judged : judged[n][1] \in TruthValues /\ judged[n][2] \in TruthValues

Violating(judged) == {n \in DOMAIN judged : judged[n][1] = 2 /\ judged[n][2] = 2}

LEMMA NodePlanAgrees ==
  ASSUME NEW judged, Judged(judged)
  PROVE  /\ Query!Agree(Query!NodePlan(judged))
         /\ Query!NodePlan(judged).population = Cardinality({n \in DOMAIN judged : judged[n][1] = 2})
         /\ Query!NodePlan(judged).violations = Cardinality(Violating(judged))
         /\ Query!NodePlan(judged).evidence = Violating(judged)
<1> USE DEF Judged
<1> DEFINE plan == Query!NodePlan(judged)
           members == {n \in DOMAIN judged : judged[n][1] = 2}
           violating == Violating(judged)
<1>1. \A n \in DOMAIN judged : Query!And(judged[n][1], judged[n][2]) = 2 <=> judged[n][1] = 2 /\ judged[n][2] = 2
  BY DEF Query!And, TruthValues
<1>2. \A x : Query!Holds(x) <=> x = 2
  BY DEF Query!Holds, Query!True
<1>3. /\ plan.population = Cardinality({n \in DOMAIN judged : Query!Holds(judged[n][1])})
      /\ plan.violations = Cardinality({n \in {k \in DOMAIN judged : Query!Holds(judged[k][1])} :
                                         Query!Holds(judged[n][2])})
      /\ plan.evidence = {n \in DOMAIN judged : Query!Holds(Query!And(judged[n][1], judged[n][2]))}
  BY Counting DEF Query!NodePlan
<1>4. /\ {n \in DOMAIN judged : Query!Holds(judged[n][1])} = members
      /\ {n \in members : Query!Holds(judged[n][2])} = violating
      /\ {n \in DOMAIN judged : Query!Holds(Query!And(judged[n][1], judged[n][2]))} = violating
  BY <1>1, <1>2 DEF Violating
<1>5. IsFiniteSet(members) /\ violating \in SUBSET members
  BY FS_Subset DEF Violating
<1> HIDE DEF plan, members, violating
<1>6. plan.population = Cardinality(members) /\ plan.violations = Cardinality(violating) /\ plan.evidence = violating
  BY <1>3, <1>4
<1>7. Cardinality(violating) <= Cardinality(members)
  BY <1>5, Chosen
<1>8. Query!Agree(plan)
  BY <1>6, <1>7, Counting DEF Query!Agree
<1> QED
  BY <1>6, <1>8 DEF plan, members, violating

LEMMA Truths ==
  /\ \A b \in BOOLEAN : Query!Truth(b) \in TruthValues /\ (Query!Truth(b) = 2 <=> b)
  /\ \A x \in TruthValues : Query!Not(x) \in TruthValues /\ (Query!Not(x) = 2 <=> x = 0)
  /\ \A x, y \in TruthValues : Query!And(x, y) \in TruthValues /\ (Query!And(x, y) = 2 <=> x = 2 /\ y = 2)
  /\ \A x \in TruthValues : Query!Coalesce(x) \in TruthValues /\ (Query!Coalesce(x) = 2 <=> x = 2)
                            /\ (Query!Coalesce(x) = 0 <=> x # 2)
  /\ Query!Unknown \in TruthValues /\ Query!True \in TruthValues /\ Query!True = 2 /\ Query!Unknown = 1
BY DEF Query!Truth, Query!Not, Query!And, Query!Coalesce, Query!Unknown, Query!True, Query!False, TruthValues

LEMMA NullTruths ==
  /\ \A v : Query!IsNull(v) \in TruthValues /\ (Query!IsNull(v) = 2 <=> v = Query!Absent)
  /\ \A v : Query!Not(Query!IsNull(v)) \in TruthValues /\ (Query!Not(Query!IsNull(v)) = 2 <=> v # Query!Absent)
BY DEF Query!IsNull, Query!Not, Query!Truth, Query!True, Query!False, TruthValues

Mistyped(g, label, kind) ==
  {n \in Query!Matching(g, {label}) : g.values[n] # Query!Absent /\ g.values[n].kind # kind}

Convertible(kind) == kind \notin {"list", "absent"}

LEMMA PropertyTypeAgrees ==
  ASSUME NEW g, IsGraph(g), NEW label, NEW kind, Convertible(kind)
  PROVE  /\ Query!Agree(Query!PropertyType(g, {label}, kind))
         /\ Query!PropertyType(g, {label}, kind).evidence = Mistyped(g, label, kind)
<1> USE DEF Convertible
<1> DEFINE of == Query!Matching(g, {label})
           population(n) == Query!Not(Query!IsNull(g.values[n]))
           violation(n) == Query!Not(Query!Coalesce(Query!HasKind(g.values[n], kind)))
           judged == [n \in of |-> <<population(n), violation(n)>>]
<1>1. IsFiniteSet(of)
  BY Matched DEF IsGraph
<1>2. \A n \in of : population(n) \in TruthValues /\ (population(n) = 2 <=> g.values[n] # Query!Absent)
  BY NullTruths
<1>3. \A n \in of : violation(n) \in TruthValues /\ (violation(n) = 2 <=> g.values[n].kind # kind)
  BY DEF Query!HasKind, Query!Not, Query!Coalesce, Query!Truth, Query!True, Query!False, Query!Unknown, TruthValues
<1>4. Query!PropertyType(g, {label}, kind) = Query!NodePlan(judged)
  BY DEF Query!PropertyType
<1> HIDE DEF of, population, violation
<1>5. DOMAIN judged = of /\ \A n \in of : judged[n][1] = population(n) /\ judged[n][2] = violation(n)
  OBVIOUS
<1> HIDE DEF judged
<1>6. Judged(judged)
  BY <1>1, <1>2, <1>3, <1>5 DEF Judged
<1>7. Violating(judged) = Mistyped(g, label, kind)
  BY <1>2, <1>3, <1>5 DEF Violating, Mistyped, of
<1> QED
  BY <1>4, <1>6, <1>7, NodePlanAgrees

LEMMA PropertyFormatAgrees ==
  ASSUME NEW g, IsGraph(g), NEW label, NEW format
  PROVE  Query!Agree(Query!PropertyFormat(g, {label}, format))
<1> DEFINE of == Query!Matching(g, {label})
           population(n) == Query!Not(Query!IsNull(g.values[n]))
           violation(n) == Query!Not(Query!Coalesce(Query!And(Query!HasKind(g.values[n], "string"), Query!Truth(g.values[n].v \in format))))
           judged == [n \in of |-> <<population(n), violation(n)>>]
<1>1. IsFiniteSet(of)
  BY Matched DEF IsGraph, Query!Nodes
<1>2. \A n \in of : population(n) \in TruthValues
  BY DEF Query!And, Query!Not, Query!IsNull, Query!Truth, Query!True, Query!False, TruthValues
<1>3. \A n \in of : violation(n) \in TruthValues
  BY DEF Query!HasKind, Query!Less, Query!And, Query!Not, Query!Coalesce, Query!Truth, Query!True, Query!False,
         Query!Unknown, TruthValues
<1>4. Query!PropertyFormat(g, {label}, format) = Query!NodePlan(judged)
  BY DEF Query!PropertyFormat
<1> HIDE DEF of, population, violation
<1>5. Judged(judged)
  BY <1>1, <1>2, <1>3 DEF Judged
<1> QED
  BY <1>4, <1>5, NodePlanAgrees

LEMMA ValueInSetAgrees ==
  ASSUME NEW g, IsGraph(g), NEW label, NEW values
  PROVE  Query!Agree(Query!ValueInSet(g, {label}, values))
<1> DEFINE of == Query!Matching(g, {label})
           population(n) == Query!Not(Query!IsNull(g.values[n]))
           violation(n) == IF g.values[n] = Query!Absent THEN Query!Unknown ELSE Query!Truth(g.values[n] \notin values)
           judged == [n \in of |-> <<population(n), violation(n)>>]
<1>1. IsFiniteSet(of)
  BY Matched DEF IsGraph, Query!Nodes
<1>2. \A n \in of : population(n) \in TruthValues
  BY DEF Query!And, Query!Not, Query!IsNull, Query!Truth, Query!True, Query!False, TruthValues
<1>3. \A n \in of : violation(n) \in TruthValues
  BY DEF Query!HasKind, Query!Less, Query!And, Query!Not, Query!Coalesce, Query!Truth, Query!True, Query!False,
         Query!Unknown, TruthValues
<1>4. Query!ValueInSet(g, {label}, values) = Query!NodePlan(judged)
  BY DEF Query!ValueInSet
<1> HIDE DEF of, population, violation
<1>5. Judged(judged)
  BY <1>1, <1>2, <1>3 DEF Judged
<1> QED
  BY <1>4, <1>5, NodePlanAgrees

LEMMA TemporalSanityAgrees ==
  ASSUME NEW g, IsGraph(g), NEW label, NEW ends
  PROVE  Query!Agree(Query!TemporalSanity(g, {label}, ends))
<1> DEFINE of == Query!Matching(g, {label})
           population(n) == Query!And(Query!Not(Query!IsNull(g.values[n])), Query!Not(Query!IsNull(ends[n])))
           violation(n) == Query!Less(ends[n], g.values[n])
           judged == [n \in of |-> <<population(n), violation(n)>>]
<1>1. IsFiniteSet(of)
  BY Matched DEF IsGraph, Query!Nodes
<1>2. \A n \in of : population(n) \in TruthValues
  BY DEF Query!And, Query!Not, Query!IsNull, Query!Truth, Query!True, Query!False, TruthValues
<1>3. \A n \in of : violation(n) \in TruthValues
  BY DEF Query!HasKind, Query!Less, Query!And, Query!Not, Query!Coalesce, Query!Truth, Query!True, Query!False,
         Query!Unknown, TruthValues
<1>4. Query!TemporalSanity(g, {label}, ends) = Query!NodePlan(judged)
  BY DEF Query!TemporalSanity
<1> HIDE DEF of, population, violation
<1>5. Judged(judged)
  BY <1>1, <1>2, <1>3 DEF Judged
<1> QED
  BY <1>4, <1>5, NodePlanAgrees

LEMMA CooccurrenceAgrees ==
  ASSUME NEW g, IsGraph(g), NEW label, NEW other
  PROVE  Query!Agree(Query!Cooccurrence(g, label, other))
<1> DEFINE of == Query!Nodes(g)
           population(n) == Query!Truth({label, other} \cap g.labels[n] # {})
           violation(n) == Query!Truth({label, other} \subseteq g.labels[n])
           judged == [n \in of |-> <<population(n), violation(n)>>]
<1>1. IsFiniteSet(of)
  BY Matched DEF IsGraph, Query!Nodes
<1>2. \A n \in of : population(n) \in TruthValues
  BY DEF Query!And, Query!Not, Query!IsNull, Query!Truth, Query!True, Query!False, TruthValues
<1>3. \A n \in of : violation(n) \in TruthValues
  BY DEF Query!HasKind, Query!Less, Query!And, Query!Not, Query!Coalesce, Query!Truth, Query!True, Query!False,
         Query!Unknown, TruthValues
<1>4. Query!Cooccurrence(g, label, other) = Query!NodePlan(judged)
  BY DEF Query!Cooccurrence
<1> HIDE DEF of, population, violation
<1>5. Judged(judged)
  BY <1>1, <1>2, <1>3 DEF Judged
<1> QED
  BY <1>4, <1>5, NodePlanAgrees

LEMMA CompletenessAgrees ==
  ASSUME NEW g, IsGraph(g), NEW label
  PROVE  /\ Query!Agree(Query!Completeness(g, {label}))
         /\ Query!Completeness(g, {label}) = Query!BatchCompleteness(g, {label})
<1> DEFINE of == Query!Matching(g, {label})
           judged == [n \in of |-> <<Query!True, Query!IsNull(g.values[n])>>]
           there == {n \in of : g.values[n] # Query!Absent}
           absent == {n \in of : g.values[n] = Query!Absent}
           plan == Query!Completeness(g, {label})
<1>1. IsFiniteSet(of)
  BY Matched DEF IsGraph
<1>2. plan = Query!NodePlan(judged)
  BY DEF Query!Completeness
<1>3. \A n \in of : Query!IsNull(g.values[n]) \in TruthValues /\ (Query!IsNull(g.values[n]) = 2 <=> g.values[n] = Query!Absent)
  BY NullTruths
<1>4. Query!True = 2 /\ Query!True \in TruthValues
  BY Truths
<1> HIDE DEF of
<1>5. Judged(judged)
  BY <1>1, <1>3, <1>4 DEF Judged
<1>6. Violating(judged) = absent /\ {n \in DOMAIN judged : judged[n][1] = 2} = of
  BY <1>3, <1>4 DEF Violating
<1>7. /\ Query!Agree(plan) /\ plan.population = Cardinality(of)
      /\ plan.violations = Cardinality(absent) /\ plan.evidence = absent
  <2> HIDE DEF judged, absent, plan
  <2> QED
    BY <1>2, <1>5, <1>6, NodePlanAgrees
<1>8. plan = [population |-> plan.population, violations |-> plan.violations, evidence |-> plan.evidence]
  BY <1>2 DEF Query!NodePlan
<1>9. Cardinality(absent) = Cardinality(of) - Cardinality(there)
  <2>1. absent = of \ there /\ there \in SUBSET of
    OBVIOUS
  <2>2. of \cap there = there
    BY <2>1
  <2> HIDE DEF absent, there
  <2>3. IsFiniteSet(there) /\ Cardinality(of) \in Nat /\ Cardinality(there) \in Nat
    BY <1>1, <2>1, Chosen
  <2> QED
    BY <1>1, <2>1, <2>2, <2>3, FS_Difference
<1>10. Query!BatchCompleteness(g, {label}) =
         [population |-> Cardinality(of), violations |-> Cardinality(of) - Cardinality(there), evidence |-> absent]
  BY Counting DEF Query!BatchCompleteness, of
<1> HIDE DEF plan, absent, there
<1> QED
  BY <1>7, <1>8, <1>9, <1>10 DEF plan

LEMMA Summing == ASSUME NEW f PROVE Query!SumFunction(f) = SumFunctionOnSet(f, DOMAIN f)
BY DEF Query!SumFunction, Query!SumFunctionOnSet, Query!FoldFunctionOnSet, Query!MapThenFoldSet,
       SumFunctionOnSet, FoldFunctionOnSet, MapThenFoldSet

(* What is counted group by group is counted once, if no two groups share   *)
(* an element.                                                              *)
LEMMA GroupsAddUp ==
  ASSUME NEW V, IsFiniteSet(V), NEW N, IsFiniteSet(N), NEW h \in [V -> SUBSET N],
         \A v, w \in V : v # w => h[v] \cap h[w] = {},
         NEW f, \A v \in V : f[v] = Cardinality(h[v])
  PROVE  SumFunctionOnSet(f, V) = Cardinality(UNION {h[v] : v \in V})
<1> DEFINE All(s) == UNION {h[v] : v \in s}
           Adding(n) == \A s \in Small(V, n) : SumFunctionOnSet(f, s) = Cardinality(All(s))
           T == {n \in Nat : Adding(n)}
<1>1. ASSUME NEW s \in SUBSET V PROVE IsFiniteSet(All(s)) /\ Cardinality(All(s)) \in Nat
  <2>1. All(s) \in SUBSET N
    OBVIOUS
  <2> HIDE DEF All
  <2> QED
    BY <2>1, Chosen
<1>2. SumFunctionOnSet(f, {}) = Cardinality(All({}))
  <2>1. All({}) = {}
    OBVIOUS
  <2> QED
    BY <2>1, SumOfNone, FS_EmptySet
<1>3. ASSUME NEW s \in SUBSET V, s # {},
             SumFunctionOnSet(f, s \ {AnyOf(s)}) = Cardinality(All(s \ {AnyOf(s)}))
      PROVE  SumFunctionOnSet(f, s) = Cardinality(All(s))
  <2> DEFINE x == AnyOf(s)
             r == s \ {x}
  <2>1. IsFiniteSet(s) /\ x \in s /\ r \in SUBSET V
    BY <1>3, Smaller
  <2>2. SumFunctionOnSet(f, s) = f[x] + SumFunctionOnSet(f, r)
    BY <1>3, <2>1, SumStep
  <2> HIDE DEF x
  <2>3. All(s) = h[x] \cup All(r) /\ h[x] \cap All(r) = {}
    <3>1. \A v \in s : v = x \/ v \in r
      OBVIOUS
    <3>2. \A v \in r : v \in V /\ v # x
      OBVIOUS
    <3>3. r \subseteq s
      OBVIOUS
    <3> HIDE DEF r
    <3> QED
      BY <2>1, <3>1, <3>2, <3>3
  <2>4. IsFiniteSet(h[x]) /\ Cardinality(h[x]) \in Nat
    BY <2>1, Chosen
  <2>5. IsFiniteSet(All(r)) /\ Cardinality(All(r)) \in Nat
    BY <1>1, <2>1
  <2>6. SumFunctionOnSet(f, r) = Cardinality(All(r))
    BY <1>3 DEF x
  <2> HIDE DEF All, r
  <2>7. Cardinality(h[x] \cup All(r)) = Cardinality(h[x]) + Cardinality(All(r)) - Cardinality({})
    BY <2>3, <2>4, <2>5, FS_Union
  <2> QED
    BY <2>1, <2>2, <2>3, <2>4, <2>5, <2>6, <2>7, FS_EmptySet
<1> HIDE DEF All
<1>4. 0 \in T
  <2>1. Adding(0)
    BY <1>2, NoneSmall
  <2> QED
    BY <2>1
<1>5. ASSUME NEW n \in T PROVE n + 1 \in T
  <2>1. ASSUME NEW s \in Small(V, n + 1) PROVE SumFunctionOnSet(f, s) = Cardinality(All(s))
    <3>1. CASE s = {}
      BY <1>2, <3>1
    <3>2. CASE s # {}
      <4> DEFINE r == s \ {AnyOf(s)}
      <4>1. s \in SUBSET V /\ Cardinality(s) <= n + 1
        BY DEF Small
      <4>2. Cardinality(s) \in Nat /\ r \in SUBSET V /\ Cardinality(r) = Cardinality(s) - 1
        BY <3>2, <4>1, Smaller
      <4>3. r \in Small(V, n)
        BY <4>1, <4>2 DEF Small
      <4>4. SumFunctionOnSet(f, r) = Cardinality(All(r))
        BY <4>3
      <4> QED
        BY <1>3, <3>2, <4>1, <4>4
    <3> QED
      BY <3>1, <3>2
  <2>2. n + 1 \in Nat /\ Adding(n + 1)
    BY <2>1
  <2> HIDE DEF Adding
  <2> QED
    BY <2>2
<1>6. T = Nat
  <2>1. T \in SUBSET Nat
    OBVIOUS
  <2> HIDE DEF T
  <2> QED
    BY <1>4, <1>5, <2>1, Induction
<1>7. Cardinality(V) \in Nat /\ Adding(Cardinality(V))
  <2> HIDE DEF Adding
  <2> QED
    BY <1>6, FS_CardinalityType
<1>8. V \in Small(V, Cardinality(V))
  BY <1>7 DEF Small
<1> QED
  BY <1>7, <1>8 DEF All

(* Values counted by frequency, nodes listed one by one.                    *)
LEMMA UniquenessAgrees ==
  ASSUME NEW g, IsGraph(g), NEW label
  PROVE  LET plan == Query!Uniqueness(g, {label})
             present == {n \in Query!Matching(g, {label}) : g.values[n] # Query!Absent}
         IN  /\ Query!Agree(plan)
             /\ plan.evidence = {n \in present : \E m \in present \ {n} : g.values[m] = g.values[n]}
<1> DEFINE of == Query!Matching(g, {label})
           members == {n \in of : g.values[n] # Query!Absent}
           having(v) == {n \in members : g.values[n] = v}
           values == {g.values[n] : n \in members}
           repeated == {v \in values : Cardinality(having(v)) > 1}
           f == [v \in repeated |-> Cardinality(having(v))]
           h == [v \in repeated |-> having(v)]
           equals == {n \in members : \E m \in of : m # n /\ Query!Holds(Query!Equal(g.values[m], g.values[n]))}
           twins == {n \in members : \E m \in members \ {n} : g.values[m] = g.values[n]}
           plan == Query!Uniqueness(g, {label})
<1>1. IsFiniteSet(of) /\ IsFiniteSet(members) /\ members \in SUBSET of
  <2>1. IsFiniteSet(of)
    BY Matched DEF IsGraph
  <2> HIDE DEF of
  <2> QED
    BY <2>1, FS_Subset
<1>2. /\ plan.population = Cardinality(members)
      /\ plan.violations = SumFunctionOnSet(f, repeated)
      /\ plan.evidence = equals
  <2>1. plan.population = Cardinality(members) /\ plan.evidence = equals
    BY Counting DEF Query!Uniqueness
  <2>2. plan.violations = Query!SumFunction(f)
    BY Counting DEF Query!Uniqueness
  <2>3. DOMAIN f = repeated
    OBVIOUS
  <2> HIDE DEF plan, f, repeated
  <2> QED
    BY <2>1, <2>2, <2>3, Summing
<1> HIDE DEF of, plan
<1>3. equals = twins
  <2>1. ASSUME NEW n \in members, NEW m \in of
        PROVE  Query!Holds(Query!Equal(g.values[m], g.values[n])) <=> m \in members /\ g.values[m] = g.values[n]
    BY DEF Query!Holds, Query!Equal, Query!Truth, Query!True, Query!False, Query!Unknown
  <2> HIDE DEF members
  <2> QED
    BY <1>1, <2>1
<1>4. IsFiniteSet(repeated)
  <2>1. IsFiniteSet(values)
    <3> DEFINE w == [n \in members |-> g.values[n]]
    <3>1. w \in Surjection(members, values)
      <4>1. w \in [members -> values] /\ \A v \in values : \E n \in members : w[n] = v
        OBVIOUS
      <4> HIDE DEF w, values, members
      <4> QED
        BY <4>1 DEF Surjection
    <3> HIDE DEF values, members, w
    <3> QED
      BY <1>1, <3>1, FS_Surjection
  <2>2. repeated \subseteq values
    OBVIOUS
  <2> HIDE DEF repeated, values
  <2> QED
    BY <2>1, <2>2, FS_Subset
<1>5. SumFunctionOnSet(f, repeated) = Cardinality(UNION {h[v] : v \in repeated})
  <2>1. h \in [repeated -> SUBSET members] /\ \A v \in repeated : h[v] = having(v) /\ f[v] = Cardinality(h[v])
    OBVIOUS
  <2>2. \A v, w : v # w => having(v) \cap having(w) = {}
    OBVIOUS
  <2> HIDE DEF h, f, repeated, members, having
  <2>3. \A v, w \in repeated : v # w => h[v] \cap h[w] = {}
    BY <2>1, <2>2
  <2> QED
    BY <1>1, <1>4, <2>1, <2>3, GroupsAddUp
<1>6. \A v : Cardinality(having(v)) > 1 <=> \E n, m \in having(v) : n # m
  <2> SUFFICES ASSUME NEW v PROVE Cardinality(having(v)) > 1 <=> \E n, m \in having(v) : n # m
    OBVIOUS
  <2>1. having(v) \in SUBSET members
    OBVIOUS
  <2> HIDE DEF having, members
  <2>2. IsFiniteSet(having(v)) /\ Cardinality(having(v)) \in Nat
    BY <1>1, <2>1, Chosen
  <2> DEFINE H == having(v)
  <2>3. ASSUME NEW n \in H, H \subseteq {n} PROVE Cardinality(H) = 1
    <3>1. H = {n}
      BY <2>3
    <3> QED
      BY <3>1, FS_Singleton
  <2>4. ASSUME NEW n \in H, NEW m \in H, n # m PROVE Cardinality(H) > 1
    <3>1. IsFiniteSet({n, m}) /\ Cardinality({n, m}) = 2
      <4>1. {n, m} = {n} \cup {m} /\ m \notin {n} /\ IsFiniteSet({n}) /\ Cardinality({n}) = 1
        BY <2>4, FS_Singleton
      <4> QED
        BY <4>1, FS_AddElement
    <3>2. {n, m} \in SUBSET H
      BY <2>4
    <3> QED
      BY <2>2, <3>1, <3>2, Chosen
  <2> QED
    BY <2>2, <2>3, <2>4, FS_EmptySet
<1>7. UNION {h[v] : v \in repeated} = twins
  <2>1. \A v \in repeated : h[v] = having(v)
    OBVIOUS
  <2>2. \A n \in members : g.values[n] \in values
    OBVIOUS
  <2>3. \A n \in members : g.values[n] \in repeated <=> \E m \in members \ {n} : g.values[m] = g.values[n]
    BY <1>6
  <2>4. \A n : n \in UNION {h[v] : v \in repeated} <=> n \in members /\ g.values[n] \in repeated
    <3> HIDE DEF repeated, members, h
    <3> QED
      BY <2>1
  <2> HIDE DEF repeated, members, h
  <2> QED
    BY <2>3, <2>4
<1>8. Cardinality(twins) <= Cardinality(members)
  <2>1. twins \in SUBSET members
    OBVIOUS
  <2> HIDE DEF members, twins
  <2> QED
    BY <1>1, <2>1, Chosen
<1>9. Query!Agree(plan)
  <2> HIDE DEF members, equals, repeated, f, h, twins
  <2> QED
    BY <1>2, <1>3, <1>5, <1>7, <1>8, Counting DEF Query!Agree
<1> QED
  BY <1>2, <1>3, <1>9 DEF of, plan

(* Algorithms, of any graph and check on values: the counting query and the *)
(* evidence query of each check agree, and where Cypher's nulls lie in wait *)
(* they find what the check is about (engine/core_pack.py:151-485, 643-700; *)
(* engine/compiler.py:140-210).                                             *)
THEOREM ValueChecksAreExact ==
  ASSUME NEW g, IsGraph(g), NEW check, check.kind \notin {"list", "absent"}
  PROVE  ValuesAreJudged(g, check)
<1> DEFINE of == Query!Matching(g, {check.label})
           present == {n \in of : g.values[n] # Query!Absent}
           typed == Query!PropertyType(g, {check.label}, check.kind)
           unique == Query!Uniqueness(g, {check.label})
           complete == Query!Completeness(g, {check.label})
<1>1. Query!Agree(typed) /\ typed.evidence = {n \in present : g.values[n].kind # check.kind}
  <2>1. Query!Agree(typed) /\ typed.evidence = Mistyped(g, check.label, check.kind)
    <3>1. Convertible(check.kind)
      BY DEF Convertible
    <3> QED
      BY <3>1, PropertyTypeAgrees
  <2>2. Mistyped(g, check.label, check.kind) = {n \in present : g.values[n].kind # check.kind}
    BY DEF Mistyped
  <2> QED
    BY <2>1, <2>2
<1>2. /\ Query!Agree(unique)
      /\ unique.evidence = {n \in present : \E m \in present \ {n} : g.values[m] = g.values[n]}
  BY UniquenessAgrees
<1>3. Query!Agree(complete) /\ complete = Query!BatchCompleteness(g, {check.label})
  BY CompletenessAgrees
<1>4. /\ Query!Agree(Query!PropertyFormat(g, {check.label}, check.format))
      /\ Query!Agree(Query!ValueInSet(g, {check.label}, check.values))
      /\ Query!Agree(Query!TemporalSanity(g, {check.label}, check.ends))
      /\ Query!Agree(Query!Cooccurrence(g, check.label, check.other))
  BY PropertyFormatAgrees, ValueInSetAgrees, TemporalSanityAgrees, CooccurrenceAgrees
<1> QED
  BY <1>1, <1>2, <1>3, <1>4 DEF ValuesAreJudged

------------------------------------------------------------------------------
(* Packs on relationships.                                                  *)
Ways == {"in", "out", "any"}

LEMMA Reversed ==
  ASSUME NEW g, NEW a, NEW b, NEW type, NEW d \in Ways
  PROVE  /\ Query!Reverse(d) \in Ways
         /\ Linked(g, a, b, type, Query!Reverse(d)) <=> Linked(g, b, a, type, d)
<1>1. CASE d = "in"
  BY <1>1 DEF Query!Reverse, Linked, Ways
<1>2. CASE d = "out"
  BY <1>2 DEF Query!Reverse, Linked, Ways
<1>3. CASE d = "any"
  BY <1>3 DEF Query!Reverse, Linked, Ways
<1> QED
  BY <1>1, <1>2, <1>3 DEF Ways

(* A path to a label is a relationship with one of its nodes.               *)
LEMMA PathsLink ==
  ASSUME NEW g, IsGraph(g), NEW n, NEW d \in Ways, NEW type, NEW label
  PROVE  Query!Paths(g, n, d, {type}, {label}) # {} <=>
           \E c \in Query!Matching(g, {label}) : Linked(g, n, c, type, d)
<1>1. \A have, x : Query!Fits(have, {x}) <=> x \in have
  BY DEF Query!Fits, Query!All
<1>2. Query!Matching(g, {label}) = {c \in DOMAIN g.labels : label \in g.labels[c]}
  BY <1>1 DEF Query!Matching, Query!Nodes
<1>3. Query!Paths(g, n, d, {type}, {label}) =
        {r \in g.rels : /\ r.type = type
                        /\ \/ d # "in" /\ r.src = n /\ label \in g.labels[r.dst]
                           \/ d # "out" /\ r.dst = n /\ label \in g.labels[r.src]}
  BY <1>1 DEF Query!Paths
<1> QED
  BY <1>2, <1>3 DEF Linked, IsGraph

LEMMA NoPaths ==
  ASSUME NEW g, IsGraph(g), NEW n, NEW d, NEW types, NEW labels
  PROVE  /\ Query!Degree(g, n, d, types, labels) \in Nat
         /\ Query!Degree(g, n, d, types, labels) = 0 <=> Query!Paths(g, n, d, types, labels) = {}
<1> DEFINE P == Query!Paths(g, n, d, types, labels)
<1>1. P \in SUBSET g.rels
  BY DEF Query!Paths
<1>2. Query!Degree(g, n, d, types, labels) = Cardinality(P)
  BY Counting DEF Query!Degree
<1> HIDE DEF P
<1>3. IsFiniteSet(P)
  BY <1>1, Chosen DEF IsGraph
<1> QED
  BY <1>2, <1>3, FS_CardinalityType, FS_EmptySet DEF P

(* Every matched node is of the population.                                 *)
LEMMA DegreePlanAgrees ==
  ASSUME NEW violating, IsFiniteSet(DOMAIN violating), \A n \in DOMAIN violating : violating[n] \in BOOLEAN
  PROVE  /\ Query!Agree(Query!DegreePlan(violating))
         /\ Query!DegreePlan(violating).evidence = {n \in DOMAIN violating : violating[n]}
         /\ Query!DegreePlan(violating).population = Cardinality(DOMAIN violating)
         /\ Query!DegreePlan(violating).violations = Cardinality({n \in DOMAIN violating : violating[n]})
<1> DEFINE judged == [n \in DOMAIN violating |-> <<Query!True, Query!Truth(violating[n])>>]
<1>1. Query!DegreePlan(violating) = Query!NodePlan(judged)
  BY DEF Query!DegreePlan
<1>2. \A n \in DOMAIN violating : judged[n][1] = Query!True /\ judged[n][2] = Query!Truth(violating[n])
  OBVIOUS
<1>3. DOMAIN judged = DOMAIN violating
  OBVIOUS
<1> HIDE DEF judged
<1>4. \A n \in DOMAIN violating : judged[n][1] = 2 /\ judged[n][2] \in TruthValues /\ (judged[n][2] = 2 <=> violating[n])
  BY <1>2, Truths
<1>5. Judged(judged)
  BY <1>3, <1>4 DEF Judged, TruthValues
<1>6. /\ Violating(judged) = {n \in DOMAIN violating : violating[n]}
      /\ {n \in DOMAIN judged : judged[n][1] = 2} = DOMAIN violating
  BY <1>3, <1>4 DEF Violating
<1> QED
  BY <1>1, <1>5, <1>6, NodePlanAgrees

(* What has no relationship of a type with a node of another label, is      *)
(* found from its side.                                                     *)
Alone(g, label, other, type, d) ==
  {n \in Query!Matching(g, {label}) : \A c \in Query!Matching(g, {other}) : ~Linked(g, n, c, type, d)}

LEMMA OrphansAgree ==
  ASSUME NEW g, IsGraph(g), NEW label, NEW other, NEW type, NEW d \in Ways
  PROVE  /\ Query!Agree(Query!OrphanSide(g, label, other, type, d))
         /\ Query!OrphanSide(g, label, other, type, d).evidence = Alone(g, label, other, type, d)
         /\ Query!OrphanSide(g, label, other, type, d).population = Cardinality(Query!Matching(g, {label}))
         /\ Query!OrphanSide(g, label, other, type, d).violations = Cardinality(Alone(g, label, other, type, d))
<1> DEFINE of == Query!Matching(g, {label})
           violating == [n \in of |-> Query!Degree(g, n, d, {type}, {other}) = 0]
           alone == Alone(g, label, other, type, d)
<1>1. Query!OrphanSide(g, label, other, type, d) = Query!DegreePlan(violating)
  BY DEF Query!OrphanSide, Query!NoOrphans
<1>2. IsFiniteSet(of)
  BY Matched DEF IsGraph
<1>3. DOMAIN violating = of /\ \A n \in of : violating[n] = (Query!Degree(g, n, d, {type}, {other}) = 0)
  OBVIOUS
<1>4. \A n \in of : violating[n] <=> \A c \in Query!Matching(g, {other}) : ~Linked(g, n, c, type, d)
  <2> SUFFICES ASSUME NEW n \in of
               PROVE  violating[n] <=> \A c \in Query!Matching(g, {other}) : ~Linked(g, n, c, type, d)
    OBVIOUS
  <2>1. Query!Degree(g, n, d, {type}, {other}) = 0 <=> Query!Paths(g, n, d, {type}, {other}) = {}
    BY NoPaths
  <2>2. Query!Paths(g, n, d, {type}, {other}) # {} <=>
          \E c \in Query!Matching(g, {other}) : Linked(g, n, c, type, d)
    BY PathsLink
  <2>3. violating[n] = (Query!Degree(g, n, d, {type}, {other}) = 0)
    OBVIOUS
  <2> HIDE DEF violating
  <2> QED
    BY <2>1, <2>2, <2>3
<1>5. \A n \in of : violating[n] \in BOOLEAN
  BY <1>3
<1> HIDE DEF of, violating
<1>6. {n \in DOMAIN violating : violating[n]} = alone
  BY <1>3, <1>4 DEF Alone, of
<1> HIDE DEF alone
<1> QED
  BY <1>1, <1>2, <1>3, <1>5, <1>6, DegreePlanAgrees DEF of, alone

LEMMA SubsetAgrees ==
  ASSUME NEW members, IsFiniteSet(members), NEW found \in SUBSET members
  PROVE  Query!Agree([population |-> Cardinality(members), violations |-> Cardinality(found), evidence |-> found])
BY Chosen, Counting DEF Query!Agree

LEMMA DirectionAgrees ==
  ASSUME NEW g, IsGraph(g), NEW from, NEW type, NEW to
  PROVE  Query!Agree(Query!Direction(g, from, type, to))
<1> DEFINE pointing(r, x, y) == x \in g.labels[r.src] /\ y \in g.labels[r.dst]
           members == {r \in g.rels : r.type = type /\ (pointing(r, from, to) \/ pointing(r, to, from))}
           wrong == {r \in members : pointing(r, to, from)}
<1>1. IsFiniteSet(members)
  BY FS_Subset DEF IsGraph
<1>2. wrong \in SUBSET members
  OBVIOUS
<1>3. Query!Direction(g, from, type, to) =
        [population |-> Cardinality(members), violations |-> Cardinality(wrong), evidence |-> wrong]
  BY Counting DEF Query!Direction
<1> HIDE DEF members, wrong
<1> QED
  BY <1>1, <1>2, <1>3, SubsetAgrees

LEMMA CardinalAgrees ==
  ASSUME NEW g, IsGraph(g), NEW from, NEW types, NEW to, NEW direction, NEW exactly
  PROVE  Query!Agree(Query!Cardinal(g, from, types, to, direction, exactly))
<1> DEFINE of == Query!Matching(g, from)
           violating == [n \in of |-> Query!Degree(g, n, direction, types, to) # exactly]
<1>1. Query!Cardinal(g, from, types, to, direction, exactly) = Query!DegreePlan(violating)
  BY DEF Query!Cardinal
<1>2. IsFiniteSet(of)
  BY Matched DEF IsGraph
<1>3. DOMAIN violating = of /\ \A n \in of : violating[n] \in BOOLEAN
  OBVIOUS
<1> HIDE DEF of, violating
<1> QED
  BY <1>1, <1>2, <1>3, DegreePlanAgrees

(* Finitely many labels and types are in use, so the rare ones can be       *)
(* counted.                                                                 *)
LEMMA LabelExplosionAgrees ==
  ASSUME NEW g, IsGraph(g), NEW threshold
  PROVE  Query!Agree(Query!LabelExplosion(g, threshold))
<1> DEFINE few(S) == Query!Cardinality(S) <= threshold
           labels == {k \in Query!LabelsInUse(g) : few(Query!Matching(g, {k}))}
           types == {u \in Query!TypesInUse(g) : few({r \in g.rels : r.type = u})}
           rareLabels == {<<"label", l>> : l \in labels}
           rareTypes == {<<"relationship_type", t>> : t \in types}
           rare == rareLabels \cup rareTypes
<1>1. IsFiniteSet(labels)
  <2> DEFINE sets == {g.labels[n] : n \in DOMAIN g.labels}
             w == [n \in DOMAIN g.labels |-> g.labels[n]]
  <2>1. w \in Surjection(DOMAIN g.labels, sets)
    BY DEF Surjection
  <2>2. \A s \in sets : IsFiniteSet(s)
    BY DEF IsGraph
  <2>3. IsFiniteSet(DOMAIN g.labels)
    BY DEF IsGraph
  <2>4. Query!LabelsInUse(g) = UNION sets
    BY DEF Query!LabelsInUse, Query!Nodes
  <2>5. labels \subseteq UNION sets
    BY <2>4
  <2> HIDE DEF sets, w, labels
  <2>6. IsFiniteSet(sets)
    BY <2>1, <2>3, FS_Surjection
  <2>7. IsFiniteSet(UNION sets)
    BY <2>2, <2>6, FS_UNION
  <2> QED
    BY <2>5, <2>7, FS_Subset
<1>2. IsFiniteSet(types)
  <2> DEFINE used == {r.type : r \in g.rels}
             w == [r \in g.rels |-> r.type]
  <2>1. w \in Surjection(g.rels, used)
    BY DEF Surjection
  <2>2. types \subseteq used
    BY DEF Query!TypesInUse
  <2> HIDE DEF used, w, types
  <2>3. IsFiniteSet(used)
    BY <2>1, FS_Surjection DEF IsGraph
  <2> QED
    BY <2>2, <2>3, FS_Subset
<1> HIDE DEF labels, types
<1>3. IsFiniteSet(rareLabels)
  <2> DEFINE w == [l \in labels |-> <<"label", l>>]
  <2>1. w \in Surjection(labels, rareLabels)
    BY DEF Surjection
  <2> HIDE DEF w, rareLabels
  <2> QED
    BY <1>1, <2>1, FS_Surjection
<1>4. IsFiniteSet(rareTypes)
  <2> DEFINE w == [t \in types |-> <<"relationship_type", t>>]
  <2>1. w \in Surjection(types, rareTypes)
    BY DEF Surjection
  <2> HIDE DEF w, rareTypes
  <2> QED
    BY <1>2, <2>1, FS_Surjection
<1>5. Query!LabelExplosion(g, threshold) =
        [population |-> Cardinality(rare), violations |-> Cardinality(rare), evidence |-> rare]
  BY Counting DEF Query!LabelExplosion, labels, types
<1> HIDE DEF rareLabels, rareTypes
<1>6. IsFiniteSet(rare)
  BY <1>3, <1>4, FS_Union
<1> HIDE DEF rare
<1> QED
  BY <1>5, <1>6, SubsetAgrees

LEMMA ChunkCoverageAgrees ==
  ASSUME NEW g, IsGraph(g), NEW m, m.mentioning \in Ways
  PROVE  /\ Query!Agree(Query!ChunkCoverage(g, m))
         /\ Query!ChunkCoverage(g, m).evidence =
              {c \in Query!Matching(g, {m.chunk}) :
                 \A e \in Query!Matching(g, {m.entity}) : ~Linked(g, c, e, m.mentions, m.mentioning)}
<1> DEFINE of == Query!Matching(g, {m.chunk})
           none(n) == Query!Paths(g, n, m.mentioning, {m.mentions}, {m.entity}) = {}
           judged == [n \in of |-> <<Query!True, Query!Truth(none(n))>>]
           alone == {c \in of : \A e \in Query!Matching(g, {m.entity}) : ~Linked(g, c, e, m.mentions, m.mentioning)}
<1>1. Query!ChunkCoverage(g, m) = Query!NodePlan(judged)
  BY DEF Query!ChunkCoverage
<1>2. IsFiniteSet(of)
  BY Matched DEF IsGraph
<1>3. \A n \in of : none(n) <=> \A e \in Query!Matching(g, {m.entity}) : ~Linked(g, n, e, m.mentions, m.mentioning)
  BY PathsLink
<1>4. DOMAIN judged = of /\ \A n \in of : judged[n][1] = Query!True /\ judged[n][2] = Query!Truth(none(n))
  OBVIOUS
<1>5. \A n \in of : none(n) \in BOOLEAN
  OBVIOUS
<1> HIDE DEF judged, of, none
<1>6. \A n \in of : judged[n][1] = 2 /\ judged[n][2] \in TruthValues /\ (judged[n][2] = 2 <=> none(n))
  BY <1>4, <1>5, Truths
<1>7. Judged(judged) /\ Violating(judged) = {n \in of : none(n)}
  BY <1>2, <1>4, <1>6 DEF Judged, Violating, TruthValues
<1>8. {n \in of : none(n)} = alone
  BY <1>3
<1> HIDE DEF alone
<1> QED
  BY <1>1, <1>7, <1>8, NodePlanAgrees DEF alone, of

(* Relationships between entities, an end of which no chunk mentions.       *)
LEMMA DanglingAgrees ==
  ASSUME NEW g, IsGraph(g), NEW m, m.mentioning \in Ways
  PROVE  LET of(label) == Query!Matching(g, {label})
             unmentioned == {e \in of(m.entity) : \A c \in of(m.chunk) : ~Linked(g, c, e, m.mentions, m.mentioning)}
             plan == Query!DanglingExtraction(g, m, Query!All)
         IN  /\ Query!Agree(plan)
             /\ plan.evidence =
                  {r \in g.rels : {r.src, r.dst} \subseteq of(m.entity) /\ {r.src, r.dst} \cap unmentioned # {}}
<1> DEFINE entities == Query!Matching(g, {m.entity})
           chunks == Query!Matching(g, {m.chunk})
           unmentioned == {e \in entities : \A c \in chunks : ~Linked(g, c, e, m.mentions, m.mentioning)}
           mentioned(n) == Query!Paths(g, n, Query!Reverse(m.mentioning), {m.mentions}, {m.chunk}) # {}
           members == {r \in g.rels : /\ m.entity \in g.labels[r.src] /\ m.entity \in g.labels[r.dst]
                                      /\ Query!Fits({r.type}, Query!All)}
           dangling == {r \in members : ~mentioned(r.src) \/ ~mentioned(r.dst)}
           found == {r \in g.rels : {r.src, r.dst} \subseteq entities /\ {r.src, r.dst} \cap unmentioned # {}}
<1>1. Query!DanglingExtraction(g, m, Query!All) =
        [population |-> Cardinality(members), violations |-> Cardinality(dangling), evidence |-> dangling]
  BY Counting DEF Query!DanglingExtraction
<1>2. IsFiniteSet(members) /\ dangling \in SUBSET members
  BY FS_Subset DEF IsGraph
<1>3. \A n \in entities : ~mentioned(n) <=> n \in unmentioned
  <2> SUFFICES ASSUME NEW n \in entities PROVE mentioned(n) <=> \E c \in chunks : Linked(g, c, n, m.mentions, m.mentioning)
    OBVIOUS
  <2>1. Query!Reverse(m.mentioning) \in Ways
        /\ \A c : Linked(g, n, c, m.mentions, Query!Reverse(m.mentioning)) <=> Linked(g, c, n, m.mentions, m.mentioning)
    BY Reversed
  <2>2. mentioned(n) <=> \E c \in chunks : Linked(g, n, c, m.mentions, Query!Reverse(m.mentioning))
    BY <2>1, PathsLink
  <2> HIDE DEF chunks, mentioned
  <2> QED
    BY <2>1, <2>2
<1>4. \A r \in g.rels : /\ m.entity \in g.labels[r.src] <=> r.src \in entities
                        /\ m.entity \in g.labels[r.dst] <=> r.dst \in entities
                        /\ Query!Fits({r.type}, Query!All)
  BY DEF IsGraph, Query!Matching, Query!Nodes, Query!Fits, Query!All
<1>5. dangling = found
  <2> HIDE DEF entities, unmentioned, mentioned
  <2> QED
    BY <1>3, <1>4
<1> DEFINE plan == Query!DanglingExtraction(g, m, Query!All)
<1>6. Query!Agree(plan) /\ plan.evidence = found
  <2> HIDE DEF members, dangling, found
  <2> QED
    BY <1>1, <1>2, <1>5, SubsetAgrees
<1> HIDE DEF plan
<1> QED
  BY <1>6 DEF plan

(* Chunks and documents that nothing connects, in one sum: told apart, they *)
(* are counted once each.                                                   *)
LEMMA TaggedCount ==
  ASSUME NEW S, IsFiniteSet(S), NEW tag
  PROVE  LET T == {<<tag, n>> : n \in S}
         IN IsFiniteSet(T) /\ Cardinality(T) = Cardinality(S)
<1> DEFINE T == {<<tag, n>> : n \in S}
           w == [n \in S |-> <<tag, n>>]
<1>1. w \in [S -> T] /\ \A n \in S : w[n] = <<tag, n>>
  OBVIOUS
<1>2. w \in Surjection(S, T)
  BY <1>1 DEF Surjection
<1>3. w \in Injection(S, T)
  BY <1>1 DEF Injection, IsInjective
<1> HIDE DEF w, T
<1>4. IsFiniteSet(T) /\ Cardinality(T) = Cardinality(S)
  BY <1>2, <1>3, FS_Surjection
<1> QED
  BY <1>4 DEF T

LEMMA OrphanChunksAgree ==
  ASSUME NEW g, IsGraph(g), NEW m, m.containing \in Ways
  PROVE  LET of(label) == Query!Matching(g, {label})
             plan == Query!OrphanChunks(g, m)
         IN  /\ Query!Agree(plan)
             /\ plan.evidence =
                  {<<"document", n>> : n \in {x \in of(m.document) :
                                                \A c \in of(m.chunk) : ~Linked(g, x, c, m.contains, m.containing)}}
                    \cup {<<"chunk", n>> : n \in {c \in of(m.chunk) :
                                                \A x \in of(m.document) : ~Linked(g, x, c, m.contains, m.containing)}}
<1> DEFINE D == Query!Matching(g, {m.document})
           C == Query!Matching(g, {m.chunk})
           documents == Query!OrphanSide(g, m.document, m.chunk, m.contains, m.containing)
           chunks == Query!OrphanSide(g, m.chunk, m.document, m.contains, Query!Reverse(m.containing))
           loneD == Alone(g, m.document, m.chunk, m.contains, m.containing)
           loneC == {c \in C : \A x \in D : ~Linked(g, x, c, m.contains, m.containing)}
           backC == Alone(g, m.chunk, m.document, m.contains, Query!Reverse(m.containing))
           taggedD == {<<"document", n>> : n \in loneD}
           taggedC == {<<"chunk", n>> : n \in loneC}
           plan == Query!OrphanChunks(g, m)
<1>1. documents.evidence = loneD /\ documents.population = Cardinality(D) /\ documents.violations = Cardinality(loneD)
  BY OrphansAgree
<1>2. Query!Reverse(m.containing) \in Ways
      /\ \A c, x : Linked(g, c, x, m.contains, Query!Reverse(m.containing)) <=> Linked(g, x, c, m.contains, m.containing)
  BY Reversed
<1>3. chunks.evidence = backC /\ chunks.population = Cardinality(C) /\ chunks.violations = Cardinality(backC)
  BY <1>2, OrphansAgree
<1>4. backC = loneC
  BY <1>2 DEF Alone
<1>5. /\ plan.population = chunks.population + documents.population
      /\ plan.violations = chunks.violations + documents.violations
      /\ plan.evidence = {<<"chunk", n>> : n \in chunks.evidence} \cup {<<"document", n>> : n \in documents.evidence}
  BY DEF Query!OrphanChunks
<1>6. IsFiniteSet(D) /\ IsFiniteSet(C)
  BY Matched DEF IsGraph
<1>7. loneD \in SUBSET D /\ loneC \in SUBSET C
  BY DEF Alone
<1>8. taggedC \cap taggedD = {}
  OBVIOUS
<1> HIDE DEF D, C, documents, chunks, loneD, loneC, backC, plan
<1>9. plan.evidence = taggedD \cup taggedC
  BY <1>1, <1>3, <1>4, <1>5
<1>10. /\ IsFiniteSet(loneD) /\ Cardinality(loneD) \in Nat /\ Cardinality(loneD) <= Cardinality(D)
       /\ IsFiniteSet(loneC) /\ Cardinality(loneC) \in Nat /\ Cardinality(loneC) <= Cardinality(C)
       /\ Cardinality(D) \in Nat /\ Cardinality(C) \in Nat
  BY <1>6, <1>7, Chosen
<1>11. /\ IsFiniteSet(taggedD) /\ Cardinality(taggedD) = Cardinality(loneD)
       /\ IsFiniteSet(taggedC) /\ Cardinality(taggedC) = Cardinality(loneC)
  BY <1>10, TaggedCount
<1> HIDE DEF taggedC, taggedD
<1>12. Cardinality(taggedD \cup taggedC) = Cardinality(loneD) + Cardinality(loneC)
  <2>1. taggedD \cap taggedC = {}
    BY <1>8
  <2>2. Cardinality(taggedD \cup taggedC) = Cardinality(taggedD) + Cardinality(taggedC) - Cardinality({})
    BY <1>11, <2>1, FS_Union
  <2> QED
    BY <1>10, <1>11, <2>2, FS_EmptySet
<1>13. Query!Agree(plan)
  <2>1. /\ plan.population = Cardinality(C) + Cardinality(D)
        /\ plan.violations = Cardinality(loneC) + Cardinality(loneD)
        /\ Cardinality(plan.evidence) = plan.violations
    <3>1. plan.population = Cardinality(C) + Cardinality(D)
      BY <1>1, <1>3, <1>5
    <3>2. plan.violations = Cardinality(loneC) + Cardinality(loneD)
      BY <1>1, <1>3, <1>4, <1>5
    <3>3. Cardinality(plan.evidence) = Cardinality(loneD) + Cardinality(loneC)
      BY <1>9, <1>12
    <3> QED
      BY <1>10, <3>1, <3>2, <3>3
  <2>2. plan.violations <= plan.population
    BY <1>10, <2>1
  <2> QED
    BY <2>1, <2>2, Counting DEF Query!Agree
<1> QED
  BY <1>9, <1>13 DEF plan, taggedD, taggedC, loneD, loneC, D, C, Alone

(* Algorithms, of any graph and any model of its provenance: counting and   *)
(* evidence queries agree, and provenance is one relation, whichever end a  *)
(* check looks from and whichever direction the model declares              *)
(* (engine/core_pack.py:199-315, engine/graphrag_pack.py:96-240, 347-392).  *)
THEOREM LinkChecksAreExact ==
  ASSUME NEW g, IsGraph(g), NEW m, m.containing \in Ways, m.mentioning \in Ways, NEW exactly, NEW threshold
  PROVE  LinksAreJudged(g, m, exactly, threshold)
<1> DEFINE of(label) == Query!Matching(g, {label})
           unmentioned == {e \in of(m.entity) : \A c \in of(m.chunk) : ~Linked(g, c, e, m.mentions, m.mentioning)}
           orphans == Query!OrphanChunks(g, m)
           unprovenanced == Query!WithoutProvenance(g, m)
           coverage == Query!ChunkCoverage(g, m)
           dangling == Query!DanglingExtraction(g, m, Query!All)
<1>1. /\ Query!Agree(orphans)
      /\ orphans.evidence =
           {<<"document", n>> : n \in {x \in of(m.document) :
                                         \A c \in of(m.chunk) : ~Linked(g, x, c, m.contains, m.containing)}}
             \cup {<<"chunk", n>> : n \in {c \in of(m.chunk) :
                                         \A x \in of(m.document) : ~Linked(g, x, c, m.contains, m.containing)}}
  BY OrphanChunksAgree
<1>2. Query!Agree(unprovenanced) /\ unprovenanced.evidence = unmentioned
  <2> DEFINE back == Alone(g, m.entity, m.chunk, m.mentions, Query!Reverse(m.mentioning))
  <2>1. Query!Reverse(m.mentioning) \in Ways
        /\ \A e, c : Linked(g, e, c, m.mentions, Query!Reverse(m.mentioning)) <=> Linked(g, c, e, m.mentions, m.mentioning)
    BY Reversed
  <2>2. back = unmentioned
    BY <2>1 DEF Alone
  <2>3. unprovenanced = Query!OrphanSide(g, m.entity, m.chunk, m.mentions, Query!Reverse(m.mentioning))
    BY DEF Query!WithoutProvenance
  <2> HIDE DEF unprovenanced, unmentioned
  <2>4. Query!Agree(unprovenanced) /\ unprovenanced.evidence = back
    <3>1. PICK d, entity, chunk, mentions :
             d \in Ways /\ d = Query!Reverse(m.mentioning) /\ entity = m.entity /\ chunk = m.chunk /\ mentions = m.mentions
      BY <2>1
    <3>2. /\ Query!Agree(Query!OrphanSide(g, entity, chunk, mentions, d))
          /\ Query!OrphanSide(g, entity, chunk, mentions, d).evidence = Alone(g, entity, chunk, mentions, d)
      <4>1. Query!Agree(Query!OrphanSide(g, entity, chunk, mentions, d))
        BY <3>1, OrphansAgree
      <4>2. /\ Query!OrphanSide(g, entity, chunk, mentions, d).evidence = Alone(g, entity, chunk, mentions, d)
            /\ Query!OrphanSide(g, entity, chunk, mentions, d).population = Cardinality(Query!Matching(g, {entity}))
        BY <3>1, OrphansAgree
      <4> QED
        BY <4>1, <4>2
    <3>3. back = Alone(g, entity, chunk, mentions, d)
      BY <3>1
    <3>4. unprovenanced = Query!OrphanSide(g, entity, chunk, mentions, d)
      BY <2>3, <3>1
    <3> HIDE DEF back
    <3> QED
      BY <3>2, <3>3, <3>4
  <2> QED
    BY <2>2, <2>4
<1>3. /\ Query!Agree(coverage)
      /\ coverage.evidence = {c \in of(m.chunk) : \A e \in of(m.entity) : ~Linked(g, c, e, m.mentions, m.mentioning)}
  BY ChunkCoverageAgrees
<1>4. /\ Query!Agree(dangling)
      /\ dangling.evidence =
           {r \in g.rels : {r.src, r.dst} \subseteq of(m.entity) /\ {r.src, r.dst} \cap unmentioned # {}}
  BY DanglingAgrees
<1>5. /\ Query!Agree(Query!Direction(g, m.document, m.contains, m.chunk))
      /\ Query!Agree(Query!Cardinal(g, {m.document}, {m.contains}, {m.chunk}, m.containing, exactly))
      /\ Query!Agree(Query!LabelExplosion(g, threshold))
  BY DirectionAgrees, CardinalAgrees, LabelExplosionAgrees
<1> QED
  BY <1>1, <1>2, <1>3, <1>4, <1>5 DEF LinksAreJudged

LEMMA Products ==
  /\ \A c, x, y \in Nat : x <= y => c * x <= c * y
  /\ \A x, y \in Nat : x <= y => x * x <= y * y
  /\ \A x \in Nat : x * x \in Nat
<1>1. ASSUME NEW c \in Nat, NEW x \in Nat, NEW y \in Nat, x <= y PROVE c * x <= c * y
  <2> DEFINE k == y - x
  <2>1. k \in Nat /\ y = x + k
    BY <1>1
  <2> HIDE DEF k
  <2>2. c * y = c * x + c * k
    BY <2>1
  <2>3. c * k \in Nat /\ c * x \in Nat
    BY <2>1
  <2> QED
    BY <2>2, <2>3
<1>2. ASSUME NEW x \in Nat, NEW y \in Nat, x <= y PROVE x * x <= y * y
  <2>1. x * x <= x * y /\ y * x <= y * y
    BY <1>1, <1>2
  <2>2. x * y = y * x
    OBVIOUS
  <2> QED
    BY <2>1, <2>2
<1> QED
  BY <1>1, <1>2

(* Algorithms, of any graph: the queries for hubs agree, and a hub has a    *)
(* higher degree than any node of its label that is none, however wide the  *)
(* threshold (engine/core_pack.py:500-600).                                 *)
THEOREM HubsAreExact ==
  ASSUME NEW g, IsGraph(g), NEW label, NEW direction, NEW z \in Nat
  PROVE  HubsStandOut(g, label, direction, z)
<1> DEFINE members == Query!Matching(g, {label})
           count == Cardinality(members)
           degree(n) == Query!Degree(g, n, direction, Query!All, Query!All)
           degrees == [n \in members |-> degree(n)]
           squares == [n \in members |-> degree(n) * degree(n)]
           sum == SumFunctionOnSet(degrees, members)
           variance == count * SumFunctionOnSet(squares, members) - sum * sum
           above(n) == count * degree(n) - sum
           found == {n \in members : variance > 0 /\ above(n) > 0 /\ above(n) * above(n) > z * z * variance}
           hubs == Query!Hubs(g, {label}, Query!All, direction, z)
<1>1. hubs = [population |-> count, violations |-> Cardinality(found), evidence |-> found]
  <2>1. DOMAIN degrees = members /\ DOMAIN squares = members
    OBVIOUS
  <2>2. Query!SumFunction(degrees) = sum /\ Query!SumFunction(squares) = SumFunctionOnSet(squares, members)
    <3> HIDE DEF degrees, squares, members
    <3> QED
      BY <2>1, Summing
  <2> DEFINE variance2 == count * Query!SumFunction(squares) - Query!SumFunction(degrees) * Query!SumFunction(degrees)
             above2(n) == count * degree(n) - Query!SumFunction(degrees)
             found2 == {n \in members : variance2 > 0 /\ above2(n) > 0 /\ above2(n) * above2(n) > z * z * variance2}
  <2>3. hubs = [population |-> count, violations |-> Cardinality(found2), evidence |-> found2]
    BY Counting DEF Query!Hubs
  <2>4. variance2 = variance /\ \A n : above2(n) = above(n)
    <3> HIDE DEF degrees, squares, members
    <3> QED
      BY <2>2
  <2>5. found2 = found
    <3> HIDE DEF variance, variance2, above, above2, members
    <3> QED
      BY <2>4
  <2> HIDE DEF found, found2, hubs
  <2> QED
    BY <2>3, <2>5
<1>2. IsFiniteSet(members) /\ count \in Nat
  BY Matched, FS_CardinalityType DEF IsGraph
<1>3. \A n \in members : degree(n) \in Nat
  BY NoPaths
<1>4. sum \in Nat /\ SumFunctionOnSet(squares, members) \in Nat
  <2> HIDE DEF degree, members
  <2>1. degrees \in [members -> Nat] /\ squares \in [members -> Nat]
    BY <1>3, Products
  <2> HIDE DEF degrees, squares
  <2> QED
    BY <1>2, <2>1, SumCovers
<1>5. variance \in Int /\ \A n \in members : above(n) \in Int
  <2> HIDE DEF members, degree, sum, squares
  <2> QED
    BY <1>2, <1>3, <1>4
<1>6. found \in SUBSET members
  OBVIOUS
<1>7. ASSUME NEW h \in found, NEW n \in members \ found PROVE degree(h) > degree(n)
  <2>1. h \in members /\ n \in members
    OBVIOUS
  <2>2. PICK a \in Int, b \in Int, k \in Int : a = above(h) /\ b = above(n) /\ k = z * z * variance
    <3> HIDE DEF above, variance, members, found
    <3> QED
      BY <1>5, <2>1
  <2>3. a > 0 /\ a * a > k /\ (b <= 0 \/ b * b <= k)
    <3> HIDE DEF above, members
    <3>1. variance > 0 /\ above(h) > 0 /\ above(h) * above(h) > z * z * variance
      BY <1>7
    <3>2. ~(variance > 0 /\ above(n) > 0 /\ above(n) * above(n) > z * z * variance)
      BY <1>7, <2>1
    <3> HIDE DEF variance
    <3>3. a > 0 /\ a * a > k
      BY <2>2, <3>1
    <3>4. ~(b > 0 /\ b * b > k)
      BY <2>2, <3>1, <3>2
    <3> QED
      BY <3>3, <3>4
  <2>4. a > b
    <3> SUFFICES ASSUME ~(a > b) PROVE FALSE
      OBVIOUS
    <3>1. a \in Nat /\ b \in Nat /\ a <= b
      BY <2>3
    <3>2. a * a <= b * b
      BY <3>1, Products
    <3> QED
      BY <2>3, <3>1, <3>2
  <2>5. PICK c \in Nat, x \in Nat, y \in Nat, s \in Nat : c = count /\ x = degree(h) /\ y = degree(n) /\ s = sum
    <3> HIDE DEF count, degree, sum, members, found
    <3> QED
      BY <1>2, <1>3, <1>4, <2>1
  <2>6. a = c * x - s /\ b = c * y - s
    <3> HIDE DEF count, degree, sum, members, found
    <3> QED
      BY <2>2, <2>5
  <2>7. x > y
    <3> SUFFICES ASSUME x <= y PROVE FALSE
      OBVIOUS
    <3>1. c * x <= c * y /\ c * x \in Int /\ c * y \in Int
      BY Products
    <3> QED
      BY <2>4, <2>6, <3>1
  <2> HIDE DEF degree
  <2> QED
    BY <2>5, <2>7
<1>8. Query!Agree(hubs) /\ hubs.evidence = found
  <2> HIDE DEF members, found, hubs
  <2> QED
    BY <1>1, <1>2, <1>6, SubsetAgrees
<1> HIDE DEF found, hubs
<1> QED
  BY <1>7, <1>8 DEF HubsStandOut, hubs

LEMMA LeastExists ==
  ASSUME NEW S \in SUBSET Nat, S # {}
  PROVE  \E x \in S : \A y \in S : x <= y
<1> DEFINE Less == {pair \in Nat \X Nat : pair[1] < pair[2]}
<1>1. IsWellFoundedOn(Less, S)
  BY NatOrder DEF IsWellFoundedOn
<1>2. \A x, y \in S : <<y, x>> \notin Less => x <= y
  OBVIOUS
<1> HIDE DEF Less
<1>3. PICK x \in S : \A y \in S : <<y, x>> \notin Less
  BY <1>1, WFMin
<1> QED
  BY <1>2, <1>3

(* Some element of a set has the most of something bounded.                 *)
LEMMA MostExists ==
  ASSUME NEW S, S # {}, NEW f \in [S -> Nat], NEW c \in Nat, \A x \in S : f[x] <= c
  PROVE  \E x \in S : \A y \in S : f[x] >= f[y]
<1> DEFINE G == {c - f[x] : x \in S}
<1>1. G \in SUBSET Nat /\ G # {}
  OBVIOUS
<1>2. PICK l \in G : \A y \in G : l <= y
  <2> HIDE DEF G
  <2> QED
    BY <1>1, LeastExists
<1>3. PICK x \in S : l = c - f[x]
  OBVIOUS
<1>4. \A y \in S : c - f[x] <= c - f[y] /\ f[x] \in Nat /\ f[y] \in Nat
  BY <1>2, <1>3
<1> QED
  BY <1>4

(* Vectors as they are read: sound ones with a dimension, others with what  *)
(* is wrong with them.                                                      *)
AreVectors(vectors) ==
  /\ IsFiniteSet(DOMAIN vectors)
  /\ \A n \in DOMAIN vectors : /\ vectors[n] = [defect |-> vectors[n].defect, dimension |-> vectors[n].dimension]
                               /\ vectors[n].dimension \in Nat
                               /\ vectors[n].defect # "wrong_dimension"

(* Algorithms, of any finite set of vectors: a vector is said to have the   *)
(* wrong dimension only if the one it is measured against is at least as    *)
(* frequent, and one is right whenever another is wrong                     *)
(* (engine/graphrag_pack.py:25-68).                                         *)
THEOREM MajoritiesAreRight ==
  ASSUME NEW vectors, AreVectors(vectors)
  PROVE  MajorityIsRight(vectors)
<1> DEFINE N == DOMAIN vectors
           sound == {n \in N : vectors[n].defect = "none"}
           having(d) == {n \in sound : vectors[n].dimension = d}
           dimensions == {vectors[n].dimension : n \in sound}
           modes == {d \in dimensions : \A e \in dimensions : Cardinality(having(d)) >= Cardinality(having(e))}
           alike(n) == {k \in N : vectors[k] = vectors[n]}
           wrong == {n \in N : Query!Defect(vectors, n) = "wrong_dimension"}
           right == {n \in N : Query!Defect(vectors, n) = "none"}
           defective == {n \in N : Query!Defect(vectors, n) # "none"}
           m == Query!Min(modes)
<1>1. IsFiniteSet(N) /\ IsFiniteSet(sound)
  BY FS_Subset DEF AreVectors
<1>2. Query!Agree(Query!Embeddings(vectors))
  <2>1. Query!Embeddings(vectors) = [population |-> Cardinality(N), violations |-> Cardinality(defective), evidence |-> defective]
    BY Counting DEF Query!Embeddings
  <2>2. defective \in SUBSET N
    OBVIOUS
  <2> HIDE DEF N, defective
  <2> QED
    BY <1>1, <2>1, <2>2, SubsetAgrees
<1>3. \A d : Cardinality(having(d)) \in Nat /\ Cardinality(having(d)) <= Cardinality(sound) /\ Cardinality(sound) \in Nat
  <2> SUFFICES ASSUME NEW d
               PROVE  /\ Cardinality(having(d)) \in Nat /\ Cardinality(having(d)) <= Cardinality(sound)
                      /\ Cardinality(sound) \in Nat
    OBVIOUS
  <2>1. having(d) \in SUBSET sound
    OBVIOUS
  <2> HIDE DEF having, sound
  <2> QED
    BY <1>1, <2>1, Chosen
<1>4. dimensions \in SUBSET Nat
  BY DEF AreVectors
<1>5. ASSUME sound # {}
      PROVE  m \in modes /\ \A e \in modes : m <= e
  <2>1. dimensions # {}
    BY <1>5
  <2>2. modes # {}
    <3> DEFINE f == [d \in dimensions |-> Cardinality(having(d))]
    <3>1. f \in [dimensions -> Nat] /\ \A d \in dimensions : f[d] = Cardinality(having(d)) /\ f[d] <= Cardinality(sound)
      <4> HIDE DEF having, dimensions, sound
      <4> QED
        BY <1>3
    <3> HIDE DEF f, having, dimensions, sound
    <3>2. PICK d \in dimensions : \A e \in dimensions : f[d] >= f[e]
      BY <1>3, <2>1, <3>1, MostExists
    <3> QED
      BY <3>1, <3>2
  <2>3. modes \in SUBSET Nat
    BY <1>4
  <2> HIDE DEF modes
  <2>4. PICK x \in modes : \A y \in modes : x <= y
    BY <2>2, <2>3, LeastExists
  <2>5. m = CHOOSE y \in modes : \A z \in modes : y <= z
    BY DEF Query!Min
  <2> HIDE DEF m
  <2> QED
    BY <2>4, <2>5
<1>6. Query!Reference(vectors) = IF sound = {} THEN {} ELSE {m}
  BY Counting DEF Query!Reference
<1> HIDE DEF m
<1>7. ASSUME NEW n \in N
      PROVE  /\ n \in wrong <=> n \in sound /\ vectors[n].dimension # m
             /\ n \in right <=> n \in sound /\ vectors[n].dimension = m
  <2>1. CASE n \in sound
    <3>1. Query!Reference(vectors) = {m}
      BY <1>6, <2>1
    <3> QED
      BY <2>1, <3>1 DEF Query!Defect
  <2>2. CASE n \notin sound
    BY <2>2 DEF Query!Defect, AreVectors
  <2> QED
    BY <2>1, <2>2
<1>8. ASSUME NEW n \in sound PROVE alike(n) = having(vectors[n].dimension)
  <2>1. n \in N /\ vectors[n].defect = "none"
    OBVIOUS
  <2>2. \A k \in N : vectors[k] = vectors[n] <=> vectors[k].defect = "none" /\ vectors[k].dimension = vectors[n].dimension
    BY <2>1 DEF AreVectors
  <2> QED
    BY <2>2
<1> HIDE DEF wrong, right
<1>9. ASSUME NEW n \in wrong, NEW k \in right
      PROVE  \/ Cardinality(alike(k)) > Cardinality(alike(n))
             \/ Cardinality(alike(k)) = Cardinality(alike(n)) /\ vectors[k].dimension < vectors[n].dimension
  <2>1. n \in N /\ k \in N
    BY DEF wrong, right
  <2>2. n \in sound /\ k \in sound /\ vectors[n].dimension # m /\ vectors[k].dimension = m
    BY <1>7, <2>1
  <2> DEFINE d == vectors[n].dimension
  <2>3. alike(k) = having(m) /\ alike(n) = having(d)
    BY <1>8, <2>2
  <2>4. d \in dimensions /\ m \in modes /\ m \in dimensions
    BY <1>5, <2>2
  <2>5. Cardinality(having(m)) >= Cardinality(having(d))
    BY <2>4
  <2>6. Cardinality(having(m)) = Cardinality(having(d)) => d \in modes
    <3> HIDE DEF having, dimensions
    <3>1. \A e \in dimensions : Cardinality(having(m)) >= Cardinality(having(e))
      BY <2>4
    <3> QED
      BY <2>4, <3>1
  <2>7. d \in modes => m <= d
    BY <1>5, <2>2
  <2>8. d \in Nat /\ m \in Nat /\ Cardinality(having(m)) \in Nat /\ Cardinality(having(d)) \in Nat
    <3> HIDE DEF dimensions, having
    <3> QED
      BY <1>3, <1>4, <2>4
  <2> HIDE DEF having, modes, dimensions, sound, alike
  <2> QED
    BY <2>2, <2>3, <2>5, <2>6, <2>7, <2>8
<1>10. wrong # {} => right # {}
  <2> SUFFICES ASSUME NEW n \in wrong PROVE right # {}
    OBVIOUS
  <2>1. n \in sound
    BY <1>7 DEF wrong
  <2>2. m \in dimensions
    BY <1>5, <2>1
  <2>3. PICK k \in sound : vectors[k].dimension = m
    BY <2>2
  <2> QED
    BY <1>7, <2>3
<1> QED
  BY <1>2, <1>9, <1>10, Counting DEF MajorityIsRight, wrong, right
------------------------------------------------------------------------------
(* Sums over a finite set.                                                   *)
(* Induction over a finite set, one element at a time.                      *)
LEMMA SetInduction ==
  ASSUME NEW S, IsFiniteSet(S), NEW G, {} \in G,
         \A T \in SUBSET S : \A x \in S \ T : T \in G => T \cup {x} \in G
  PROVE  S \in G
<1> DEFINE Good(n) == \A T \in SUBSET S : Cardinality(T) = n => T \in G
           N == {n \in Nat : Good(n)}
<1>1. \A T \in SUBSET S : IsFiniteSet(T) /\ Cardinality(T) \in Nat
  BY FS_Subset, FS_CardinalityType
<1>2. 0 \in N
  BY <1>1, FS_EmptySet
<1>3. ASSUME NEW n \in N PROVE n + 1 \in N
  <2>1. ASSUME NEW T \in SUBSET S, Cardinality(T) = n + 1 PROVE T \in G
    <3>1. T # {}
      <4>1. Cardinality(T) # 0
        BY <2>1
      <4> QED
        BY <4>1, FS_EmptySet
    <3>2. PICK x \in T : TRUE
      BY <3>1
    <3>3. Cardinality(T \ {x}) = n
      BY <1>1, <2>1, FS_RemoveElement
    <3>4. T \ {x} \in G /\ x \in S \ (T \ {x}) /\ T \ {x} \in SUBSET S
      BY <3>3
    <3>5. (T \ {x}) \cup {x} \in G
      BY <3>4
    <3>6. (T \ {x}) \cup {x} = T
      BY <3>2
    <3> QED
      BY <3>5, <3>6
  <2> QED
    BY <2>1
<1>4. N = Nat
  <2>1. N \in SUBSET Nat
    OBVIOUS
  <2> HIDE DEF N
  <2> QED
    BY <1>2, <1>3, <2>1, Induction
<1> QED
  BY <1>1, <1>4

(* A sum depends on what is added up only.                                  *)
LEMMA SumSame ==
  ASSUME NEW T, IsFiniteSet(T), NEW f, NEW h, \A x \in T : f[x] = h[x]
  PROVE  SumFunctionOnSet(f, T) = SumFunctionOnSet(h, T)
<1> DEFINE F == CHOOSE g : g = [s \in SUBSET T |-> Adds(f, g, s)]
           H == CHOOSE g : g = [s \in SUBSET T |-> Adds(h, g, s)]
<1>1. F = [s \in SUBSET T |-> Adds(f, F, s)]
  BY SumExists
<1>2. H = [s \in SUBSET T |-> Adds(h, H, s)]
  BY SumExists
<1>3. SumFunctionOnSet(f, T) = F[T] /\ SumFunctionOnSet(h, T) = H[T]
  BY SumIsRecursive
<1> HIDE DEF F, H
<1>4. \A s \in SUBSET T : Adds(h, H, s) = Adds(f, H, s)
  <2> SUFFICES ASSUME NEW s \in SUBSET T, s # {} PROVE f[AnyOf(s)] = h[AnyOf(s)]
    BY DEF Adds
  <2> QED
    BY Smaller
<1>5. [s \in SUBSET T |-> Adds(h, H, s)] = [s \in SUBSET T |-> Adds(f, H, s)]
  BY <1>4
<1>6. IsSum(f, F, T) /\ IsSum(f, H, T)
  BY <1>1, <1>2, <1>5 DEF IsSum
<1>7. F[T] = H[T]
  BY <1>6, SumsAgree
<1> QED
  BY <1>3, <1>7

(* One more member adds its number.                                         *)
LEMMA SumGrows ==
  ASSUME NEW S, IsFiniteSet(S), NEW f \in [S -> Int], NEW T \in SUBSET S
  PROVE  /\ SumFunctionOnSet(f, T) \in Int
         /\ \A x \in S \ T : SumFunctionOnSet(f, T \cup {x}) = SumFunctionOnSet(f, T) + f[x]
<1>1. ASSUME NEW U \in SUBSET S
      PROVE  /\ SumFunctionOnSet(f, U) \in Int
             /\ \A x \in U : SumFunctionOnSet(f, U) = f[x] + SumFunctionOnSet(f, U \ {x})
  <2> DEFINE h == [x \in U |-> f[x]]
  <2>1. h \in [U -> Int] /\ IsFiniteSet(U)
    BY FS_Subset
  <2>2. SumFunctionOnSet(h, U) = SumFunctionOnSet(f, U)
    BY <2>1, SumSame
  <2>3. ASSUME NEW x \in U PROVE SumFunctionOnSet(h, U \ {x}) = SumFunctionOnSet(f, U \ {x}) /\ h[x] = f[x]
    <3>1. IsFiniteSet(U \ {x}) /\ \A y \in U \ {x} : h[y] = f[y]
      BY <2>1, FS_Subset
    <3> QED
      BY <3>1, SumSame
  <2> HIDE DEF h
  <2>4. SumFunctionOnSet(h, U) \in Int /\ \A x \in U : SumFunctionOnSet(h, U) = h[x] + SumFunctionOnSet(h, U \ {x})
    BY <2>1, SumRemove
  <2> QED
    BY <2>2, <2>3, <2>4
<1>2. ASSUME NEW x \in S \ T PROVE SumFunctionOnSet(f, T \cup {x}) = SumFunctionOnSet(f, T) + f[x]
  <2>1. (T \cup {x}) \ {x} = T /\ T \cup {x} \in SUBSET S
    OBVIOUS
  <2>2. SumFunctionOnSet(f, T \cup {x}) = f[x] + SumFunctionOnSet(f, T)
    BY <1>1, <2>1
  <2>3. f[x] \in Int /\ SumFunctionOnSet(f, T) \in Int
    BY <1>1
  <2> QED
    BY <2>2, <2>3
<1> QED
  BY <1>1, <1>2

(* Sums are linear.                                                         *)
LEMMA SumLinear ==
  ASSUME NEW S, IsFiniteSet(S), NEW f \in [S -> Int], NEW g \in [S -> Int], NEW h \in [S -> Int], NEW c \in Int,
         \A x \in S : h[x] = c * f[x] + g[x]
  PROVE  SumFunctionOnSet(h, S) = c * SumFunctionOnSet(f, S) + SumFunctionOnSet(g, S)
<1> DEFINE F(T) == SumFunctionOnSet(f, T)
           G(T) == SumFunctionOnSet(g, T)
           H(T) == SumFunctionOnSet(h, T)
           Good == {T \in SUBSET S : H(T) = c * F(T) + G(T)}
<1>1. {} \in Good
  <2>1. F({}) = 0 /\ G({}) = 0 /\ H({}) = 0
    BY SumOfNone
  <2> HIDE DEF F, G, H
  <2> QED
    BY <2>1
<1>2. ASSUME NEW T \in SUBSET S, NEW x \in S \ T, T \in Good PROVE T \cup {x} \in Good
  <2>1. /\ F(T \cup {x}) = F(T) + f[x] /\ F(T) \in Int
        /\ G(T \cup {x}) = G(T) + g[x] /\ G(T) \in Int
        /\ H(T \cup {x}) = H(T) + h[x] /\ H(T) \in Int
    BY SumGrows
  <2>2. H(T) = c * F(T) + G(T) /\ h[x] = c * f[x] + g[x] /\ f[x] \in Int /\ g[x] \in Int
    BY <1>2
  <2> HIDE DEF F, G, H
  <2>3. \A a, b, p, q \in Int : (c * a + b) + (c * p + q) = c * (a + p) + (b + q)
    BY SMT
  <2> QED
    BY <2>1, <2>2, <2>3
<1> HIDE DEF F, G, H
<1>3. S \in Good
  <2> HIDE DEF Good
  <2> QED
    BY <1>1, <1>2, SetInduction
<1> QED
  BY <1>3 DEF F, G, H

(* Counting is adding ones.                                                 *)
LEMMA SumCounts ==
  ASSUME NEW S, IsFiniteSet(S), NEW f \in [S -> Int], NEW A \in SUBSET S,
         \A x \in S : f[x] = IF x \in A THEN 1 ELSE 0
  PROVE  SumFunctionOnSet(f, S) = Cardinality(A)
<1> DEFINE F(T) == SumFunctionOnSet(f, T)
           Good == {T \in SUBSET S : F(T) = Cardinality(T \cap A)}
<1>1. {} \in Good
  BY SumOfNone, FS_EmptySet
<1>2. ASSUME NEW T \in SUBSET S, NEW x \in S \ T, T \in Good PROVE T \cup {x} \in Good
  <2>1. F(T \cup {x}) = F(T) + f[x]
    BY SumGrows
  <2>2. IsFiniteSet(T \cap A) /\ Cardinality(T \cap A) \in Nat
    BY FS_Subset, FS_CardinalityType
  <2>3. Cardinality((T \cup {x}) \cap A) = Cardinality(T \cap A) + f[x]
    <3>1. CASE x \in A
      <4>1. (T \cup {x}) \cap A = (T \cap A) \cup {x} /\ x \notin T \cap A
        BY <3>1
      <4> QED
        BY <2>2, <3>1, <4>1, FS_AddElement
    <3>2. CASE x \notin A
      <4>1. (T \cup {x}) \cap A = T \cap A
        BY <3>2
      <4>2. f[x] = 0
        BY <3>2
      <4>3. Cardinality((T \cup {x}) \cap A) = Cardinality(T \cap A)
        BY <4>1, Zenon
      <4>4. \A n \in Nat : n = n + 0
        OBVIOUS
      <4> QED
        BY <2>2, <4>2, <4>3, <4>4, Zenon
    <3> QED
      BY <3>1, <3>2
  <2> HIDE DEF F
  <2> QED
    BY <1>2, <2>1, <2>3
<1>3. S \in Good
  <2> HIDE DEF Good
  <2> QED
    BY <1>1, <1>2, SetInduction
<1>4. S \cap A = A
  OBVIOUS
<1> QED
  BY <1>3, <1>4

(* Numbers below a bound add up to less than as many times the bound.       *)
LEMMA SumBelow ==
  ASSUME NEW S, IsFiniteSet(S), NEW L \in Nat, NEW f \in [S -> Nat], \A x \in S : f[x] < L
  PROVE  /\ SumFunctionOnSet(f, S) \in Nat
         /\ SumFunctionOnSet(f, S) <= L * Cardinality(S)
         /\ S # {} => SumFunctionOnSet(f, S) < L * Cardinality(S)
<1> DEFINE F(T) == SumFunctionOnSet(f, T)
           Within(T) == /\ F(T) \in Nat /\ F(T) <= L * Cardinality(T)
                        /\ T # {} => F(T) < L * Cardinality(T)
           Good == {T \in SUBSET S : Within(T)}
<1>1. {} \in Good
  BY SumOfNone, FS_EmptySet
<1>2. ASSUME NEW T \in SUBSET S, NEW x \in S \ T, T \in Good PROVE T \cup {x} \in Good
  <2>1. F(T \cup {x}) = F(T) + f[x]
    BY SumGrows
  <2>2. Cardinality(T) \in Nat /\ Cardinality(T \cup {x}) = Cardinality(T) + 1
    BY FS_Subset, FS_CardinalityType, FS_AddElement
  <2>3. F(T) \in Nat /\ F(T) <= L * Cardinality(T)
    BY <1>2
  <2>4. f[x] \in Nat /\ f[x] < L
    OBVIOUS
  <2> HIDE DEF F
  <2>5. ASSUME NEW k \in Nat PROVE L * (k + 1) = L * k + L
    BY SMT
  <2> DEFINE k == Cardinality(T)
             m == L * k
  <2>6. m \in Nat /\ L * (k + 1) = m + L /\ F(T) <= m
    BY <2>2, <2>3, <2>5
  <2>7. F(T \cup {x}) \in Nat /\ F(T \cup {x}) < L * Cardinality(T \cup {x})
    <3> HIDE DEF m, k
    <3>1. Cardinality(T \cup {x}) = k + 1
      BY <2>2 DEF k
    <3> QED
      BY <2>1, <2>3, <2>4, <2>6, <3>1
  <2>8. L * Cardinality(T \cup {x}) \in Nat
    BY <2>2
  <2> QED
    BY <2>7, <2>8
<1> HIDE DEF F
<1>3. S \in Good
  <2> HIDE DEF Good
  <2> QED
    BY <1>1, <1>2, SetInduction
<1> QED
  BY <1>3 DEF F
------------------------------------------------------------------------------
(* Counting functions, and what is spread evenly.                          *)
(* There are n numbers below n.                                             *)
LEMMA Below ==
  ASSUME NEW n \in Nat
  PROVE  IsFiniteSet(0..n - 1) /\ Cardinality(0..n - 1) = n
<1>1. PICK z \in Int : z = 0
  OBVIOUS
<1>2. PICK m \in Int : m = n - 1
  OBVIOUS
<1>3. IsFiniteSet(z..m) /\ Cardinality(z..m) = IF z > m THEN 0 ELSE m - z + 1
  BY FS_Interval
<1> QED
  BY <1>1, <1>2, <1>3

(* A set that is spread evenly over another one.                            *)
Evenly(S, X, f, c) == \A x \in X : Cardinality({s \in S : f[s] = x}) = c

LEMMA Fibers ==
  ASSUME NEW S, IsFiniteSet(S), NEW X, IsFiniteSet(X), NEW f \in [S -> X], NEW c \in Nat, Evenly(S, X, f, c)
  PROVE  Cardinality(S) = c * Cardinality(X)
<1> DEFINE Above(Y) == {s \in S : f[s] \in Y}
           G == {Y \in SUBSET X : Cardinality(Above(Y)) = c * Cardinality(Y)}
<1>1. {} \in G
  <2>1. Above({}) = {}
    OBVIOUS
  <2>2. c * 0 = 0
    OBVIOUS
  <2> QED
    BY <2>1, <2>2, FS_EmptySet
<1>2. ASSUME NEW Y \in SUBSET X, NEW x \in X \ Y, Y \in G PROVE Y \cup {x} \in G
  <2> DEFINE one == {s \in S : f[s] = x}
  <2>1. Above(Y \cup {x}) = Above(Y) \cup one /\ Above(Y) \cap one = {}
    OBVIOUS
  <2>2. IsFiniteSet(Above(Y)) /\ IsFiniteSet(one) /\ IsFiniteSet(Y)
    BY FS_Subset
  <2> HIDE DEF Above, one
  <2>3. Cardinality(Above(Y \cup {x})) = Cardinality(Above(Y)) + Cardinality(one)
    <3>1. Cardinality(Above(Y) \cup one) = Cardinality(Above(Y)) + Cardinality(one) - Cardinality(Above(Y) \cap one)
      BY <2>2, FS_Union
    <3>2. Cardinality(Above(Y) \cap one) = 0
      BY <2>1, FS_EmptySet
    <3>3. Cardinality(Above(Y)) \in Nat /\ Cardinality(one) \in Nat
      BY <2>2, FS_CardinalityType
    <3>4. Cardinality(Above(Y \cup {x})) = Cardinality(Above(Y) \cup one)
      BY <2>1, Zenon
    <3> QED
      BY <3>1, <3>2, <3>3, <3>4
  <2>4. Cardinality(one) = c
    BY DEF one, Evenly
  <2>5. Cardinality(Y \cup {x}) = Cardinality(Y) + 1 /\ Cardinality(Y) \in Nat
    BY <2>2, FS_AddElement, FS_CardinalityType
  <2>6. Cardinality(Above(Y)) = c * Cardinality(Y)
    BY <1>2
  <2>7. \A k \in Nat : c * (k + 1) = c * k + c
    OBVIOUS
  <2> QED
    BY <2>3, <2>4, <2>5, <2>6, <2>7
<1>3. X \in G
  <2> HIDE DEF G
  <2> QED
    BY <1>1, <1>2, SetInduction
<1>4. Above(X) = S
  OBVIOUS
<1> QED
  BY <1>3, <1>4

(* A function is one of the sets of pairs.                                  *)
LEMMA FunctionsAreFinite ==
  ASSUME NEW S, IsFiniteSet(S), NEW T, IsFiniteSet(T)
  PROVE  IsFiniteSet([S -> T])
<1> DEFINE graph == [f \in [S -> T] |-> {<<x, f[x]>> : x \in S}]
<1>1. IsFiniteSet(SUBSET (S \X T))
  BY FS_Product, FS_SUBSET
<1>2. graph \in [[S -> T] -> SUBSET (S \X T)]
  OBVIOUS
<1>3. ASSUME NEW f \in [S -> T], NEW g \in [S -> T], graph[f] = graph[g] PROVE f = g
  <2>1. \A x \in S : <<x, f[x]>> \in graph[g]
    BY <1>3
  <2>2. \A x \in S : f[x] = g[x]
    BY <2>1
  <2> QED
    BY <2>2
<1> HIDE DEF graph
<1>4. graph \in Injection([S -> T], SUBSET (S \X T))
  BY <1>2, <1>3 DEF Injection, IsInjective
<1> QED
  BY <1>1, <1>4, FS_Injection

------------------------------------------------------------------------------
(* Floyd's algorithm: what is selected after each draw.                     *)
Passage(f, n, k, d) ==
  /\ f \in [0..k -> SUBSET (0..n - 1)]
  /\ f[0] = {}
  /\ \A i \in 1..k : f[i] = Sample!Pick(f[i - 1], n - k + i - 1, d[i])

DrawsOf(n, k) == {d \in [1..k -> 0..n - 1] : \A i \in 1..k : d[i] <= n - k + i - 1}

LEMMA DrawsAre ==
  ASSUME NEW n \in Nat, NEW k \in Nat
  PROVE  Sample!Draws(n, k) = DrawsOf(n, k)
<1>1. \A i \in 1..k : Sample!Tops(n, k)[i] = n - k + i - 1
  BY DEF Sample!Tops
<1> QED
  BY <1>1 DEF Sample!Draws, DrawsOf

LEMMA DrawsAreFinite ==
  ASSUME NEW n \in Nat, NEW k \in Nat
  PROVE  IsFiniteSet(DrawsOf(n, k))
<1>1. PICK u \in Int : u = 1
  OBVIOUS
<1>2. PICK z \in Int : z = 0
  OBVIOUS
<1>3. PICK m \in Int : m = n - 1
  OBVIOUS
<1>4. IsFiniteSet(u..k) /\ IsFiniteSet(z..m)
  BY FS_Interval
<1>5. IsFiniteSet([u..k -> z..m])
  BY <1>4, FunctionsAreFinite
<1>6. DrawsOf(n, k) \in SUBSET [u..k -> z..m]
  BY <1>1, <1>2, <1>3 DEF DrawsOf
<1> QED
  BY <1>5, <1>6, FS_Subset

LEMMA SelectedIs ==
  ASSUME NEW n \in Nat, NEW k \in Nat, k <= n, NEW d \in DrawsOf(n, k)
  PROVE  \E f : Passage(f, n, k, d) /\ Sample!Selected(n, k, d) = f[k]
<1> DEFINE State == SUBSET (0..n - 1)
           Look(c, i) == Sample!Pick(c, Sample!Tops(n, k)[i], d[i])
           Entry(f, i) == IF i = 0 THEN {} ELSE Look(f[i - 1], i)
           chosen == CHOOSE f : f = [i \in 0..k |-> Entry(f, i)]
<1>1. \A i \in 1..k : Sample!Tops(n, k)[i] = n - k + i - 1 /\ n - k + i - 1 \in 0..n - 1 /\ d[i] \in 0..n - 1
  BY DEF Sample!Tops, DrawsOf
<1>2. \A c \in State : \A i \in 1..k : Look(c, i) \in State
  BY <1>1 DEF Sample!Pick
<1>3. {} \in State
  OBVIOUS
<1>4. chosen = [i \in 0..k |-> Entry(chosen, i)]
  <2> DEFINE step == [a \in (1..k) \X State |-> Look(a[2], a[1])]
  <2>1. step \in [(1..k) \X State -> State]
    BY <1>2
  <2>2. \A i \in 1..k : \A c \in State : step[<<i, c>>] = Look(c, i)
    OBVIOUS
  <2> HIDE DEF step, Look, State
  <2>3. PICK f : Trace(f, k, State, {}, step)
    BY <1>3, <2>1, StepsExist DEF Stepping
  <2>4. \A i \in 0..k : f[i] = Entry(f, i)
    <3>1. \A i \in 0..k : i # 0 => i \in 1..k /\ i - 1 \in 0..k
      OBVIOUS
    <3> QED
      BY <2>2, <2>3, <3>1 DEF Trace
  <2>5. f = [i \in 0..k |-> Entry(f, i)]
    <3> HIDE DEF Entry
    <3> QED
      BY <2>3, <2>4 DEF Trace
  <2> HIDE DEF Entry
  <2> QED
    BY <2>5
<1>5. Sample!Selected(n, k, d) = chosen[k]
  BY DEF Sample!Selected
<1> HIDE DEF chosen
<1> HIDE DEF Look
<1>6. DOMAIN chosen = 0..k /\ chosen[0] = {} /\ \A i \in 1..k : chosen[i] = Look(chosen[i - 1], i)
  <2>1. DOMAIN chosen = 0..k /\ \A i \in 0..k : chosen[i] = Entry(chosen, i)
    <3> HIDE DEF Entry
    <3> QED
      BY <1>4
  <2>2. 0 \in 0..k /\ \A i \in 1..k : i \in 0..k /\ i # 0
    OBVIOUS
  <2> QED
    BY <2>1, <2>2
<1>7. \A i \in 0..k : chosen[i] \in State
  <2> DEFINE U == {i \in Nat : i <= k => chosen[i] \in State}
  <2>1. 0 \in U
    BY <1>6
  <2>2. ASSUME NEW i \in U PROVE i + 1 \in U
    <3>1. i + 1 <= k => i + 1 \in 1..k /\ (i + 1) - 1 = i /\ i <= k
      OBVIOUS
    <3> HIDE DEF State
    <3> QED
      BY <1>2, <1>6, <3>1
  <2>3. U = Nat
    <3> HIDE DEF U
    <3>1. U \in SUBSET Nat
      BY DEF U
    <3> QED
      BY <2>1, <2>2, <3>1, Induction
  <2> QED
    BY <2>3
<1>8. chosen \in [0..k -> State]
  BY <1>4, <1>7
<1>9. Passage(chosen, n, k, d)
  BY <1>1, <1>6, <1>8 DEF Passage, Look
<1> QED
  BY <1>5, <1>9

(* What is selected after i draws depends on these only.                    *)
Alike(m, d, e) == \A i \in 1..m : d[i] = e[i]

LEMMA SamePassage ==
  ASSUME NEW n \in Nat, NEW k \in Nat, NEW m \in 0..k, NEW d, NEW e, Alike(m, d, e),
         NEW f, Passage(f, n, k, d), NEW g, Passage(g, n, k, e)
  PROVE  \A i \in 0..m : f[i] = g[i]
<1> DEFINE U == {i \in Nat : i <= m => f[i] = g[i]}
<1>1. 0 \in U
  BY DEF Passage
<1>2. ASSUME NEW i \in U PROVE i + 1 \in U
  <2>1. i + 1 <= m => i + 1 \in 1..m /\ i + 1 \in 1..k /\ (i + 1) - 1 = i /\ i <= m
    OBVIOUS
  <2> QED
    BY <2>1 DEF Passage, Alike
<1>3. U = Nat
  <2> HIDE DEF U
  <2>1. U \in SUBSET Nat
    BY DEF U
  <2> QED
    BY <1>1, <1>2, <2>1, Induction
<1> QED
  BY <1>3

(* What is selected is below the next top, and one more with each draw.     *)
LEMMA SelectedGrows ==
  ASSUME NEW n \in Nat, NEW k \in Nat, k <= n, NEW d \in DrawsOf(n, k), NEW f, Passage(f, n, k, d), NEW i \in 0..k
  PROVE  f[i] \in SUBSET (0..n - k + i - 1) /\ IsFiniteSet(f[i]) /\ Cardinality(f[i]) = i
<1> DEFINE Good(j) == f[j] \in SUBSET (0..n - k + j - 1) /\ IsFiniteSet(f[j]) /\ Cardinality(f[j]) = j
           U == {j \in Nat : j <= k => Good(j)}
<1>1. 0 \in U
  BY FS_EmptySet DEF Passage
<1>2. ASSUME NEW j \in U PROVE j + 1 \in U
  <2>1. SUFFICES ASSUME j + 1 <= k PROVE Good(j + 1)
    OBVIOUS
  <2>2. j + 1 \in 1..k /\ (j + 1) - 1 = j /\ j <= k /\ Good(j)
    BY <2>1
  <2> DEFINE m == n - k + j
             x == d[j + 1]
  <2>3. m = n - k + (j + 1) - 1 /\ m \in Nat /\ x \in 0..m
    BY <2>2 DEF DrawsOf
  <2>4. f[j + 1] = f[j] \cup {IF x \in f[j] THEN m ELSE x}
    BY <2>2, <2>3 DEF Passage, Sample!Pick
  <2> DEFINE y == IF x \in f[j] THEN m ELSE x
  <2>5. y \in 0..m /\ y \notin f[j] /\ f[j] \in SUBSET (0..m - 1)
    BY <2>2, <2>3
  <2>6. IsFiniteSet(f[j] \cup {y}) /\ Cardinality(f[j] \cup {y}) = j + 1
    BY <2>2, <2>5, FS_AddElement
  <2> QED
    BY <2>3, <2>4, <2>5, <2>6
<1>3. U = Nat
  <2> HIDE DEF U
  <2>1. U \in SUBSET Nat
    BY DEF U
  <2> QED
    BY <1>1, <1>2, <2>1, Induction
<1> QED
  BY <1>3

(* Which draws lead from a selection to another.                            *)
LEMMA WithoutTop ==
  ASSUME NEW m \in Nat, NEW T \in SUBSET (0..m), NEW S \in SUBSET T, m \notin S
  PROVE  S \in SUBSET (0..m - 1)
OBVIOUS

Rest(m, T, x) == IF m \in T THEN T \ {m} ELSE T \ {x}

LEMMA PickInverts ==
  ASSUME NEW m \in Nat, NEW R \in SUBSET (0..m - 1), NEW x \in 0..m, NEW T
  PROVE  Sample!Pick(R, m, x) = T <=> x \in T /\ R = Rest(m, T, x)
<1>1. m \notin R
  OBVIOUS
<1>2. ASSUME Sample!Pick(R, m, x) = T PROVE x \in T /\ R = (IF m \in T THEN T \ {m} ELSE T \ {x})
  BY <1>1, <1>2 DEF Sample!Pick
<1>3. ASSUME x \in T, R = (IF m \in T THEN T \ {m} ELSE T \ {x}) PROVE Sample!Pick(R, m, x) = T
  <2>1. CASE m \in T
    <3>1. T = R \cup {m}
      BY <1>3, <2>1
    <3>2. x \in R \/ x = m
      BY <1>3, <3>1
    <3> QED
      BY <1>1, <3>1, <3>2 DEF Sample!Pick
  <2>2. CASE m \notin T
    <3>1. T = R \cup {x} /\ x \notin R
      BY <1>3, <2>2
    <3> QED
      BY <3>1 DEF Sample!Pick
  <2> QED
    BY <2>1, <2>2
<1> QED
  BY <1>2, <1>3 DEF Rest

(* The draws that lead to a selection, cut after the first i and continued   *)
(* with zeros.                                                              *)
PassageOf(n, k, d) == CHOOSE f : Passage(f, n, k, d)

Leading(n, k, i, T) ==
  {d \in DrawsOf(n, k) : (\A j \in i + 1..k : d[j] = 0) /\ PassageOf(n, k, d)[i] = T}

LastIs(n, k, i, T, x) == {d \in Leading(n, k, i, T) : d[i] = x}

LEMMA PassageExists ==
  ASSUME NEW n \in Nat, NEW k \in Nat, k <= n, NEW d \in DrawsOf(n, k)
  PROVE  Passage(PassageOf(n, k, d), n, k, d) /\ Sample!Selected(n, k, d) = PassageOf(n, k, d)[k]
<1>1. PICK f : Passage(f, n, k, d) /\ Sample!Selected(n, k, d) = f[k]
  BY SelectedIs
<1>2. Passage(PassageOf(n, k, d), n, k, d)
  BY <1>1 DEF PassageOf
<1>4. k \in 0..k
  OBVIOUS
<1> DEFINE P == PassageOf(n, k, d)
<1>5. \A i \in 0..k : P[i] = f[i]
  <2>1. Passage(P, n, k, d) /\ Passage(f, n, k, d) /\ Alike(k, d, d)
    BY <1>1, <1>2 DEF Alike
  <2> HIDE DEF P
  <2> QED
    BY <1>4, <2>1, SamePassage
<1> QED
  BY <1>1, <1>2, <1>4, <1>5

(* One more draw: each member of the selection may have been drawn last,    *)
(* and the rest was selected before.                                        *)
LEMMA LastDraw ==
  ASSUME NEW n \in Nat, NEW k \in Nat, k <= n, NEW i \in Nat, i + 1 <= k,
         NEW T \in SUBSET (0..n - k + i), NEW x \in T
  PROVE  Cardinality(LastIs(n, k, i + 1, T, x)) = Cardinality(Leading(n, k, i, Rest(n - k + i, T, x)))
<1> DEFINE m == n - k + i
           S == Rest(m, T, x)
           A == {d \in Leading(n, k, i + 1, T) : d[i + 1] = x}
           B == Leading(n, k, i, S)
           P(d) == PassageOf(n, k, d)
           with(d, y) == [d EXCEPT ![i + 1] = y]
<1>1. /\ m \in Nat /\ m = n - k + (i + 1) - 1 /\ m <= n - 1 /\ x \in 0..m
      /\ i \in 0..k /\ i + 1 \in 1..k /\ (i + 1) - 1 = i
  OBVIOUS
<1>2. ASSUME NEW d \in DrawsOf(n, k), NEW y \in 0..m
      PROVE  /\ with(d, y) \in DrawsOf(n, k) /\ with(d, y)[i + 1] = y
             /\ \A j \in (1..k) \ {i + 1} : with(d, y)[j] = d[j]
             /\ P(with(d, y))[i] = P(d)[i]
  <2>1. d \in [1..k -> 0..n - 1] /\ y \in 0..n - 1 /\ \A j \in 1..k : d[j] <= n - k + j - 1
    BY <1>1 DEF DrawsOf
  <2>2. with(d, y) \in [1..k -> 0..n - 1] /\ with(d, y)[i + 1] = y /\ \A j \in (1..k) \ {i + 1} : with(d, y)[j] = d[j]
    BY <1>1, <2>1
  <2>3. \A j \in 1..k : with(d, y)[j] <= n - k + j - 1
    <3> HIDE DEF with
    <3>1. y <= n - k + (i + 1) - 1
      BY <1>1
    <3> QED
      BY <2>1, <2>2, <3>1
  <2>4. with(d, y) \in DrawsOf(n, k)
    BY <2>2, <2>3 DEF DrawsOf
  <2>5. \A j \in 1..i : with(d, y)[j] = d[j]
    <3>1. \A j \in 1..i : j \in (1..k) \ {i + 1}
      BY <1>1
    <3> HIDE DEF with
    <3> QED
      BY <2>2, <3>1
  <2> DEFINE e == with(d, y)
  <2> HIDE DEF with, P
  <2>6. Passage(P(e), n, k, e) /\ Passage(P(d), n, k, d)
    BY <2>4, PassageExists DEF P
  <2>7. i \in 0..i
    BY <1>1
  <2>8. P(e)[i] = P(d)[i]
    <3> DEFINE f == P(e)
               g == P(d)
    <3>1. Passage(f, n, k, e) /\ Passage(g, n, k, d) /\ Alike(i, e, d)
      BY <2>5, <2>6 DEF Alike
    <3>2. i \in 0..k
      BY <1>1
    <3> HIDE DEF f, g, e
    <3>3. \A j \in 0..i : f[j] = g[j]
      BY <3>1, <3>2, SamePassage
    <3> QED
      BY <2>7, <3>3 DEF f, g
  <2> QED
    BY <2>2, <2>4, <2>8
<1>3. ASSUME NEW d \in DrawsOf(n, k), d[i + 1] = x
      PROVE  P(d)[i + 1] = T <=> P(d)[i] = S
  <2>1. Passage(P(d), n, k, d)
    BY PassageExists
  <2>2. P(d)[i + 1] = Sample!Pick(P(d)[i], m, x)
    BY <1>1, <1>3, <2>1 DEF Passage
  <2>3. P(d)[i] \in SUBSET (0..m - 1)
    BY <1>1, <2>1, SelectedGrows
  <2> DEFINE R == P(d)[i]
  <2>4. m \in Nat /\ x \in 0..m /\ R \in SUBSET (0..m - 1)
    BY <1>1, <2>3
  <2> HIDE DEF R, m
  <2>5. Sample!Pick(R, m, x) = T <=> x \in T /\ R = Rest(m, T, x)
    BY <2>4, PickInverts
  <2> QED
    BY <2>2, <2>5 DEF R
<1> HIDE DEF P, S, with
<1>b. \A d \in DrawsOf(n, k) : /\ with(d, x) \in DrawsOf(n, k) /\ with(d, x)[i + 1] = x
                               /\ \A j \in (1..k) \ {i + 1} : with(d, x)[j] = d[j]
                               /\ P(with(d, x))[i] = P(d)[i]
  BY <1>1, <1>2
<1> DEFINE h == [d \in B |-> with(d, x)]
<1>4. ASSUME NEW d \in B PROVE with(d, x) \in A
  <2>1. d \in DrawsOf(n, k) /\ P(d)[i] = S /\ \A j \in i + 1..k : d[j] = 0
    BY DEF Leading, P
  <2>2. \A j \in (i + 1) + 1..k : j \in (1..k) \ {i + 1} /\ j \in i + 1..k
    BY <1>1
  <2>3. \A j \in (i + 1) + 1..k : with(d, x)[j] = 0
    BY <1>b, <2>1, <2>2
  <2>4. with(d, x) \in DrawsOf(n, k) /\ with(d, x)[i + 1] = x /\ P(with(d, x))[i] = S
    BY <1>b, <2>1
  <2>5. P(with(d, x))[i + 1] = T
    BY <1>3, <2>4
  <2> QED
    BY <2>3, <2>4, <2>5 DEF Leading, P
<1>5. ASSUME NEW d \in B, NEW e \in B, with(d, x) = with(e, x) PROVE d = e
  <2>1. d \in DrawsOf(n, k) /\ e \in DrawsOf(n, k) /\ d[i + 1] = 0 /\ e[i + 1] = 0
    <3>1. i + 1 \in i + 1..k
      BY <1>1
    <3> QED
      BY <3>1 DEF Leading
  <2>2. \A j \in (1..k) \ {i + 1} : with(d, x)[j] = d[j] /\ with(e, x)[j] = e[j]
    BY <1>b, <2>1
  <2>3. \A j \in 1..k : d[j] = e[j]
    BY <1>5, <2>1, <2>2
  <2>4. d \in [1..k -> 0..n - 1] /\ e \in [1..k -> 0..n - 1]
    BY <2>1 DEF DrawsOf
  <2> QED
    BY <2>3, <2>4
<1>6. ASSUME NEW e \in A PROVE \E d \in B : with(d, x) = e
  <2>1. e \in DrawsOf(n, k) /\ e[i + 1] = x /\ P(e)[i + 1] = T /\ \A j \in (i + 1) + 1..k : e[j] = 0
    BY DEF Leading, P
  <2>2. P(e)[i] = S
    BY <1>3, <2>1
  <2> DEFINE d == with(e, 0)
  <2>3. 0 \in 0..m
    BY <1>1
  <2>4. d \in DrawsOf(n, k) /\ d[i + 1] = 0 /\ P(d)[i] = S /\ \A j \in (1..k) \ {i + 1} : d[j] = e[j]
    BY <1>2, <2>1, <2>2, <2>3
  <2> HIDE DEF d
  <2>5. \A j \in i + 1..k : d[j] = 0
    <3>1. \A j \in i + 1..k : j = i + 1 \/ (j \in (i + 1) + 1..k /\ j \in (1..k) \ {i + 1})
      BY <1>1
    <3> QED
      BY <2>1, <2>4, <3>1
  <2>6. d \in B
    BY <2>4, <2>5 DEF Leading, P
  <2>7. with(d, x) \in [1..k -> 0..n - 1] /\ e \in [1..k -> 0..n - 1]
    BY <1>b, <2>1, <2>4 DEF DrawsOf
  <2>8. \A j \in 1..k : with(d, x)[j] = e[j]
    BY <1>b, <2>1, <2>4
  <2>9. with(d, x) = e
    BY <2>7, <2>8
  <2> QED
    BY <2>6, <2>9
<1>7. h \in Bijection(B, A)
  <2> HIDE DEF A, B
  <2> QED
    BY <1>4, <1>5, <1>6 DEF Bijection, Injection, Surjection, IsInjective
<1>8. IsFiniteSet(B)
  <2>1. B \in SUBSET DrawsOf(n, k)
    BY DEF Leading
  <2> QED
    BY <2>1, DrawsAreFinite, FS_Subset
<1>9. Cardinality(A) = Cardinality(B)
  <2> HIDE DEF A, B, h
  <2> QED
    BY <1>7, <1>8, FS_Bijection DEF ExistsBijection
<1> QED
  BY <1>9 DEF S, LastIs

(* So equal shares lead to equal shares.                                    *)
LEMMA EqualShares ==
  ASSUME NEW n \in Nat, NEW k \in Nat, k <= n, NEW i \in 0..k
  PROVE  \E c \in Nat : \A T \in SUBSET (0..n - k + i - 1) : Cardinality(T) = i => Cardinality(Leading(n, k, i, T)) = c
<1> DEFINE Equal(j) == \E c \in Nat : \A T \in SUBSET (0..n - k + j - 1) :
                         Cardinality(T) = j => Cardinality(Leading(n, k, j, T)) = c
           U == {j \in Nat : j <= k => Equal(j)}
<1>a. \A j, T : IsFiniteSet(Leading(n, k, j, T)) /\ Cardinality(Leading(n, k, j, T)) \in Nat
  <2> SUFFICES ASSUME NEW j, NEW T
               PROVE  IsFiniteSet(Leading(n, k, j, T)) /\ Cardinality(Leading(n, k, j, T)) \in Nat
    OBVIOUS
  <2>1. Leading(n, k, j, T) \in SUBSET DrawsOf(n, k)
    BY DEF Leading
  <2> QED
    BY <2>1, DrawsAreFinite, FS_Subset, FS_CardinalityType
<1>b. \A j \in Nat : j <= k => \A T \in SUBSET (0..n - k + j - 1) : IsFiniteSet(T)
  <2> SUFFICES ASSUME NEW j \in Nat, j <= k, NEW T \in SUBSET (0..n - k + j - 1) PROVE IsFiniteSet(T)
    OBVIOUS
  <2>1. n - k + j \in Nat
    OBVIOUS
  <2>2. IsFiniteSet(0..n - k + j - 1)
    BY <2>1, Below
  <2> DEFINE X == 0..n - k + j - 1
  <2>3. IsFiniteSet(X) /\ T \in SUBSET X
    BY <2>2
  <2> HIDE DEF X
  <2> QED
    BY <2>3, FS_Subset
<1>1. 0 \in U
  <2>1. \A T \in SUBSET (0..n - k + 0 - 1) : Cardinality(T) = 0 => T = {}
    BY <1>b, FS_EmptySet
  <2>2. \A T \in SUBSET (0..n - k + 0 - 1) : Cardinality(T) = 0 => Cardinality(Leading(n, k, 0, T)) = Cardinality(Leading(n, k, 0, {}))
    BY <2>1
  <2>3. Equal(0)
    BY <1>a, <2>2
  <2> HIDE DEF Equal
  <2> QED
    BY <2>3
<1>2. ASSUME NEW j \in U PROVE j + 1 \in U
  <2>1. SUFFICES ASSUME j + 1 <= k PROVE Equal(j + 1)
    OBVIOUS
  <2>2. PICK c \in Nat : \A T \in SUBSET (0..n - k + j - 1) : Cardinality(T) = j => Cardinality(Leading(n, k, j, T)) = c
    BY <2>1
  <2> DEFINE m == n - k + j
  <2>3. m \in Nat /\ n - k + (j + 1) - 1 = m
    BY <2>1
  <2>4. c * (j + 1) \in Nat
    BY <2>1
  <2>5. ASSUME NEW T \in SUBSET (0..m), Cardinality(T) = j + 1
        PROVE  Cardinality(Leading(n, k, j + 1, T)) = c * (j + 1)
    <3> DEFINE L == Leading(n, k, j + 1, T)
               f == [d \in L |-> d[j + 1]]
    <3>1. ASSUME NEW x \in T PROVE Cardinality({d \in L : d[j + 1] = x}) = c
      <4> DEFINE y == IF m \in T THEN m ELSE x
                 S == Rest(m, T, x)
      <4>0. S = T \ {y}
        BY DEF Rest
      <4>1. S \in SUBSET (0..m - 1)
        <5>1. m \in Nat /\ T \in SUBSET (0..m)
          BY <2>3
        <5>2. m \notin S
          BY DEF Rest
        <5>3. S \in SUBSET T
          BY <4>0
        <5> HIDE DEF m, U, Equal, S, y
        <5> QED
          BY <5>1, <5>2, <5>3, WithoutTop
      <4>2. IsFiniteSet(T) /\ y \in T
        BY <1>b, <2>1, <2>3
      <4>3. Cardinality(S) = j
        BY <2>5, <4>0, <4>2, FS_RemoveElement
      <4>4. Cardinality(Leading(n, k, j, S)) = c
        BY <2>2, <4>1, <4>3
      <4>5. Cardinality(LastIs(n, k, j + 1, T, x)) = Cardinality(Leading(n, k, j, S))
        BY <2>1, <2>3, LastDraw
      <4> QED
        BY <4>4, <4>5 DEF LastIs
    <3>2. ASSUME NEW d \in L PROVE d[j + 1] \in T
      <4> DEFINE P == PassageOf(n, k, d)
      <4>1. d \in DrawsOf(n, k) /\ P[j + 1] = T
        BY DEF Leading
      <4>2. Passage(P, n, k, d)
        BY <2>1, <4>1, PassageExists
      <4>3. j + 1 \in 1..k /\ (j + 1) - 1 = j /\ j \in 0..k
        BY <2>1
      <4>4. P[j + 1] = Sample!Pick(P[j], m, d[j + 1])
        BY <2>3, <4>2, <4>3 DEF Passage
      <4>5. P[j] \in SUBSET (0..m - 1)
        BY <4>1, <4>2, <4>3, SelectedGrows
      <4>6. d[j + 1] \in 0..m
        BY <2>3, <4>1, <4>3 DEF DrawsOf
      <4> DEFINE R == P[j]
                 y == d[j + 1]
      <4>7. m \in Nat /\ R \in SUBSET (0..m - 1) /\ y \in 0..m /\ Sample!Pick(R, m, y) = T
        BY <2>3, <4>1, <4>4, <4>5, <4>6
      <4> HIDE DEF R, y, m
      <4>8. y \in T
        BY <4>7, PickInverts
      <4> QED
        BY <4>8 DEF y
    <3>3. IsFiniteSet(L) /\ IsFiniteSet(T) /\ f \in [L -> T]
      BY <1>a, <1>b, <2>1, <2>3, <3>2
    <3>4. Evenly(L, T, f, c)
      <4> SUFFICES ASSUME NEW x \in T PROVE Cardinality({d \in L : f[d] = x}) = c
        BY DEF Evenly
      <4>1. {d \in L : f[d] = x} = {d \in L : d[j + 1] = x}
        OBVIOUS
      <4> QED
        BY <3>1, <4>1
    <3>5. Cardinality(L) = c * Cardinality(T)
      <4> HIDE DEF L, f, m, U, Equal
      <4> QED
        BY <3>3, <3>4, Fibers
    <3> QED
      BY <2>5, <3>5 DEF L
  <2>6. \A T \in SUBSET (0..n - k + (j + 1) - 1) : Cardinality(T) = j + 1 => Cardinality(Leading(n, k, j + 1, T)) = c * (j + 1)
    BY <2>3, <2>5
  <2> QED
    BY <2>4, <2>6
<1>3. U = Nat
  <2> HIDE DEF U
  <2>1. U \in SUBSET Nat
    BY DEF U
  <2> QED
    BY <1>1, <1>2, <2>1, Induction
<1>4. Equal(i)
  <2> HIDE DEF Equal
  <2> QED
    BY <1>3
<1> QED
  BY <1>4

(* Algorithms: Floyd's algorithm gives every subset of the size asked for   *)
(* the same number of draws, whatever the population                        *)
(* (engine/sampling.py:117-145).                                            *)
THEOREM SubsetsAreEquallyLikely ==
  ASSUME NEW n \in Nat, NEW k \in Nat, k <= n
  PROVE  DrawsAreFair(n, k)
<1> DEFINE subsets == {c \in SUBSET (0..n - 1) : Cardinality(c) = k}
           D == DrawsOf(n, k)
           ways(c) == {d \in D : Sample!Selected(n, k, d) = c}
           f == [d \in D |-> Sample!Selected(n, k, d)]
<1>1. k \in 0..k /\ n - k + k - 1 = n - 1
  OBVIOUS
<1>2. PICK w \in Nat : \A T \in SUBSET (0..n - k + k - 1) : Cardinality(T) = k => Cardinality(Leading(n, k, k, T)) = w
  BY <1>1, EqualShares
<1>3. ASSUME NEW c \in subsets PROVE Cardinality(ways(c)) = w
  <2>1. \A d \in D : Sample!Selected(n, k, d) = PassageOf(n, k, d)[k]
    BY PassageExists
  <2>2. ways(c) = Leading(n, k, k, c)
    <3>1. k + 1..k = {}
      OBVIOUS
    <3> QED
      BY <2>1, <3>1 DEF Leading
  <2> QED
    BY <1>1, <1>2, <2>2
<1>4. ASSUME NEW d \in D PROVE Sample!Selected(n, k, d) \in subsets
  BY <1>1, PassageExists, SelectedGrows
<1>5. IsFiniteSet(subsets) /\ IsFiniteSet(D)
  <2>1. IsFiniteSet(0..n - 1)
    BY Below
  <2>2. IsFiniteSet(SUBSET (0..n - 1)) /\ subsets \in SUBSET SUBSET (0..n - 1)
    BY <2>1, FS_SUBSET
  <2> QED
    BY <2>2, FS_Subset, DrawsAreFinite
<1>6. Evenly(D, subsets, f, w)
  <2> SUFFICES ASSUME NEW c \in subsets PROVE Cardinality({d \in D : f[d] = c}) = w
    BY DEF Evenly
  <2>1. {d \in D : f[d] = c} = ways(c)
    OBVIOUS
  <2> QED
    BY <1>3, <2>1
<1>7. f \in [D -> subsets]
  BY <1>4
<1>8. Cardinality(D) = w * Cardinality(subsets)
  <2> HIDE DEF D, subsets, f
  <2> QED
    BY <1>5, <1>6, <1>7, Fibers
<1>9. \A c \in subsets : Cardinality(ways(c)) * Cardinality(subsets) = Cardinality(D)
  BY <1>3, <1>8
<1> QED
  BY <1>9, DrawsAre DEF DrawsAreFair

------------------------------------------------------------------------------
(* Arithmetic modulo a prime.                                               *)
Multiple(p, x) == \E q \in Int : x = p * q

LEMMA Remainder ==
  ASSUME NEW p \in Nat \ {0}, NEW x \in Int
  PROVE  x % p \in Int /\ x % p \in 0..p - 1 /\ \E q \in Int : x = p * q + (x % p)
<1>1. x \div p \in Int /\ x % p \in 0..p - 1 /\ x = p * (x \div p) + (x % p)
  BY SMT
<1>2. x % p \in Int
  BY <1>1
<1> QED
  BY <1>1, <1>2, Zenon

LEMMA SumsOfMultiples ==
  ASSUME NEW p \in Nat, NEW x \in Int, NEW y \in Int, NEW k \in Int, Multiple(p, x), Multiple(p, y)
  PROVE  Multiple(p, x + y) /\ Multiple(p, x - y) /\ Multiple(p, k * x)
<1>1. PICK q \in Int : x = p * q
  BY DEF Multiple
<1>2. PICK r \in Int : y = p * r
  BY DEF Multiple
<1>3. \A a, b, c \in Int : a * b + a * c = a * (b + c) /\ a * b - a * c = a * (b - c) /\ c * (a * b) = a * (c * b)
  BY SMT
<1>4. p \in Int /\ q + r \in Int /\ q - r \in Int /\ k * q \in Int
  OBVIOUS
<1>5. x + y = p * (q + r) /\ x - y = p * (q - r) /\ k * x = p * (k * q)
  BY <1>1, <1>2, <1>3, <1>4
<1> QED
  BY <1>4, <1>5 DEF Multiple

LEMMA Difference ==
  ASSUME NEW p \in Nat, NEW x \in Int, NEW y \in Int, Multiple(p, x), Multiple(p, y)
  PROVE  Multiple(p, x - y)
<1>1. PICK k \in Int : k = 0
  OBVIOUS
<1> QED
  BY <1>1, SumsOfMultiples

LEMMA Scaled ==
  ASSUME NEW p \in Nat, NEW x \in Int, NEW k \in Int, Multiple(p, x)
  PROVE  Multiple(p, k * x)
BY SumsOfMultiples

LEMMA SmallMultiple ==
  ASSUME NEW p \in Nat \ {0}, NEW x \in Int, Multiple(p, x), -p < x, x < p
  PROVE  x = 0
<1>1. PICK q \in Int : x = p * q
  BY DEF Multiple
<1>2. CASE q >= 1
  <2>1. p * q >= p
    BY <1>2
  <2> QED
    BY <1>1, <2>1
<1>3. CASE q <= -1
  <2>1. p * q <= -p
    BY <1>3
  <2> QED
    BY <1>1, <2>1
<1>4. CASE q = 0
  BY <1>1, <1>4
<1> QED
  BY <1>2, <1>3, <1>4

LEMMA PrimeFactor ==
  ASSUME NEW p, IsPrime(p), NEW x \in Int, NEW y \in Int, Multiple(p, x * y)
  PROVE  Multiple(p, x) \/ Multiple(p, y)
<1>0. p \in Nat \ {0}
  BY DEF IsPrime
<1> DEFINE a == x % p
           b == y % p
<1>1. a \in 0..p - 1 /\ b \in 0..p - 1
  BY <1>0, Remainder
<1>2. PICK q \in Int : x = p * q + a
  BY <1>0, Remainder
<1>3. PICK r \in Int : y = p * r + b
  BY <1>0, Remainder
<1> HIDE DEF a, b
<1>4. CASE a = 0
  BY <1>0, <1>2, <1>4 DEF Multiple
<1>5. CASE b = 0
  BY <1>0, <1>3, <1>5 DEF Multiple
<1>6. CASE a # 0 /\ b # 0
  <2>1. a \in 1..p - 1 /\ b \in 1..p - 1
    BY <1>0, <1>1, <1>6
  <2>2. (a * b) % p # 0
    BY <2>1 DEF IsPrime
  <2>3. PICK s \in Int : x * y = p * s
    BY DEF Multiple
  <2>4. \A k, l, m, n \in Int : (k * l + m) * (k * n + b) = k * (l * (k * n + b) + m * n) + m * b
    BY <1>1, SMT
  <2>5. p \in Int /\ a \in Int /\ b \in Int /\ a * b \in Int
    BY <1>0, <1>1
  <2>6. x * y = p * (q * (p * r + b) + a * r) + a * b
    BY <1>2, <1>3, <2>4, <2>5
  <2> DEFINE u == q * (p * r + b) + a * r
  <2>7. u \in Int
    BY <2>5
  <2> HIDE DEF u
  <2>8. a * b = p * (s - u)
    <3>1. p * (s - u) = p * s - p * u
      BY <2>5, <2>7
    <3> QED
      BY <2>3, <2>5, <2>6, <2>7, <3>1 DEF u
  <2>9. PICK c \in Int : a * b = p * c + ((a * b) % p)
    BY <1>0, <2>5, Remainder
  <2> DEFINE z == (a * b) % p
  <2>10. z \in 0..p - 1
    BY <1>0, <2>5, Remainder
  <2>14. a * b = p * c + z
    BY <2>9
  <2> HIDE DEF z
  <2>11. z = p * (s - u - c)
    <3>1. p * (s - u - c) = p * (s - u) - p * c
      BY <2>5, <2>7
    <3> QED
      BY <2>5, <2>7, <2>8, <2>10, <2>14, <3>1
  <2>12. Multiple(p, z)
    BY <2>7, <2>11 DEF Multiple
  <2>13. z = 0
    BY <1>0, <2>10, <2>12, SmallMultiple
  <2> QED
    BY <2>2, <2>13 DEF z
<1> QED
  BY <1>4, <1>5, <1>6

(* A factor that is not a multiple can be divided by.                       *)
LEMMA Cancelled ==
  ASSUME NEW p, IsPrime(p), NEW a \in 0..p - 1, NEW b \in 0..p - 1, a # b, NEW y \in Int, Multiple(p, (a - b) * y)
  PROVE  Multiple(p, y)
<1>1. p \in Nat \ {0} /\ a - b \in Int /\ a - b # 0 /\ -p < a - b /\ a - b < p
  BY DEF IsPrime
<1>2. ~Multiple(p, a - b)
  BY <1>1, SmallMultiple
<1> DEFINE d == a - b
<1> HIDE DEF d
<1>3. d \in Int /\ Multiple(p, d * y) /\ ~Multiple(p, d)
  BY <1>1, <1>2 DEF d
<1> QED
  BY <1>3, PrimeFactor

------------------------------------------------------------------------------
(* The ranking hash: a cubic modulo a prime.                                *)
Cubic(c, v) == c[1] * (v * v * v) + c[2] * (v * v) + c[3] * v + c[4]

LEMMA HornerSteps ==
  ASSUME NEW w \in Int, NEW x \in Int, NEW y \in Int, NEW z \in Int, NEW e \in Int, NEW n \in Int,
         NEW i \in Int, NEW j \in Int, NEW k \in Int, NEW f \in Int, NEW g \in Int, NEW h \in Int,
         x * w + y = n * i + f, f * w + z = n * j + g, g * w + e = n * k + h
  PROVE  (x * (w * w * w) + y * (w * w) + z * w + e) - h = n * (i * (w * w) + j * w + k)
<1>1. (x * w + y) * (w * w) = x * (w * w * w) + y * (w * w)
  BY SMT
<1>2. (n * i + f) * (w * w) = n * (i * (w * w)) + (f * w) * w
  BY SMT
<1>3. (f * w + z) * w = (f * w) * w + z * w
  BY SMT
<1>4. (n * j + g) * w = n * (j * w) + g * w
  BY SMT
<1>5. n * (i * (w * w) + j * w + k) = n * (i * (w * w)) + n * (j * w) + n * k
  BY SMT
<1> DEFINE t1 == x * (w * w * w)
           t2 == y * (w * w)
           t3 == n * (i * (w * w))
           t4 == (f * w) * w
           t5 == z * w
           t6 == n * (j * w)
           t7 == g * w
           t8 == n * k
<1>6. /\ t1 \in Int /\ t2 \in Int /\ t3 \in Int /\ t4 \in Int /\ t5 \in Int /\ t6 \in Int /\ t7 \in Int /\ t8 \in Int
      /\ h \in Int
  OBVIOUS
<1>7. t1 + t2 = t3 + t4 /\ t4 + t5 = t6 + t7 /\ t7 + e = t8 + h /\ n * (i * (w * w) + j * w + k) = t3 + t6 + t8
  BY <1>1, <1>2, <1>3, <1>4, <1>5
<1> HIDE DEF t1, t2, t3, t4, t5, t6, t7, t8
<1>8. t1 + t2 + t5 + e - h = t3 + t6 + t8
  BY <1>6, <1>7
<1> QED
  BY <1>7, <1>8 DEF t1, t2, t5

LEMMA HashIsCubic ==
  ASSUME NEW p \in Nat \ {0}, NEW c \in [1..4 -> Int], NEW value \in Int
  PROVE  /\ Sample!Hash(value, c, p) \in 0..p - 1
         /\ Multiple(p, Cubic(c, value % p) - Sample!Hash(value, c, p))
<1> DEFINE v == value % p
           A == c[1] * v + c[2]
           a == A % p
           B == a * v + c[3]
           b == B % p
           C == b * v + c[4]
           h == C % p
<1>1. v \in Int /\ c[1] \in Int /\ c[2] \in Int /\ c[3] \in Int /\ c[4] \in Int
  BY Remainder
<1> HIDE DEF v
<1>2. A \in Int
  BY <1>1
<1>3. a \in Int /\ \E q \in Int : A = p * q + a
  <2> HIDE DEF A
  <2> QED
    BY <1>2, Remainder, Zenon
<1> HIDE DEF a
<1>4. B \in Int
  BY <1>1, <1>3
<1>5. b \in Int /\ \E q \in Int : B = p * q + b
  <2> HIDE DEF B
  <2> QED
    BY <1>4, Remainder, Zenon
<1> HIDE DEF b
<1>6. C \in Int
  BY <1>1, <1>5
<1>7. h \in 0..p - 1 /\ \E q \in Int : C = p * q + h
  <2> HIDE DEF C
  <2> QED
    BY <1>6, Remainder, Zenon
<1> HIDE DEF h
<1>8. PICK q \in Int, r \in Int, s \in Int : A = p * q + a /\ B = p * r + b /\ C = p * s + h
  BY <1>3, <1>5, <1>7
<1>10. p \in Int /\ q * (v * v) + r * v + s \in Int
  BY <1>1
<1>11. Cubic(c, v) - h = p * (q * (v * v) + r * v + s)
  <2> DEFINE x == c[1]
             y == c[2]
             z == c[3]
             e == c[4]
  <2>1. /\ x \in Int /\ y \in Int /\ z \in Int /\ e \in Int /\ h \in Int
        /\ x * v + y = p * q + a /\ a * v + z = p * r + b /\ b * v + e = p * s + h
    BY <1>1, <1>7, <1>8
  <2> HIDE DEF x, y, z, e
  <2>2. (x * (v * v * v) + y * (v * v) + z * v + e) - h = p * (q * (v * v) + r * v + s)
    BY <1>1, <1>3, <1>5, <1>10, <2>1, HornerSteps
  <2> QED
    <3>1. Cubic(c, v) = x * (v * v * v) + y * (v * v) + z * v + e
      BY DEF Cubic, x, y, z, e
    <3> QED
      BY <2>2, <3>1, Zenon
<1>12. Multiple(p, Cubic(c, v) - h)
  BY <1>10, <1>11 DEF Multiple
<1>13. Sample!Hash(value, c, p) = h
  BY DEF Sample!Hash, h, b, a, v
<1> QED
  BY <1>7, <1>12, <1>13 DEF v

LEMMA CubicsSubtract ==
  ASSUME NEW c \in [1..4 -> Int], NEW d \in [1..4 -> Int], NEW e \in [1..4 -> Int], NEW m \in Int,
         \A i \in 1..4 : e[i] = c[i] - d[i]
  PROVE  Cubic(e, m) = Cubic(c, m) - Cubic(d, m)
<1>1. \A a, b, k \in Int : (a - b) * k = a * k - b * k
  BY SMT
<1>2. /\ c[1] \in Int /\ c[2] \in Int /\ c[3] \in Int /\ c[4] \in Int
      /\ d[1] \in Int /\ d[2] \in Int /\ d[3] \in Int /\ d[4] \in Int
      /\ e[1] = c[1] - d[1] /\ e[2] = c[2] - d[2] /\ e[3] = c[3] - d[3] /\ e[4] = c[4] - d[4]
  OBVIOUS
<1> DEFINE k == m * m * m
           l == m * m
<1>3. k \in Int /\ l \in Int
  OBVIOUS
<1>4. \A f : Cubic(f, m) = f[1] * k + f[2] * l + f[3] * m + f[4]
  BY DEF Cubic
<1> HIDE DEF k, l
<1>5. e[1] * k = c[1] * k - d[1] * k /\ e[2] * l = c[2] * l - d[2] * l /\ e[3] * m = c[3] * m - d[3] * m
  BY <1>1, <1>2, <1>3
<1>6. \A i \in 1..4 : c[i] * k \in Int /\ d[i] * k \in Int /\ c[i] * l \in Int /\ d[i] * l \in Int
                      /\ c[i] * m \in Int /\ d[i] * m \in Int
  BY <1>3
<1> QED
  BY <1>2, <1>4, <1>5, <1>6

(* A cubic that vanishes at four residues vanishes.                         *)
LEMMA FourRoots ==
  ASSUME NEW p, IsPrime(p), NEW c \in [1..4 -> Int],
         NEW s \in 0..p - 1, NEW t \in 0..p - 1, NEW u \in 0..p - 1, NEW v \in 0..p - 1,
         s # t, s # u, s # v, t # u, t # v, u # v,
         Multiple(p, Cubic(c, s)), Multiple(p, Cubic(c, t)), Multiple(p, Cubic(c, u)), Multiple(p, Cubic(c, v))
  PROVE  \A i \in 1..4 : Multiple(p, c[i])
<1> DEFINE P(x) == Cubic(c, x)
           F(x, y) == c[1] * (x * x + x * y + y * y) + c[2] * (x + y) + c[3]
           G(x, y, z) == c[1] * (x + y + z) + c[2]
<1>1. p \in Nat \ {0} /\ c[1] \in Int /\ c[2] \in Int /\ c[3] \in Int /\ c[4] \in Int
  BY DEF IsPrime
<1>2. s \in Int /\ t \in Int /\ u \in Int /\ v \in Int
  OBVIOUS
<1>3. \A x, y, z \in Int : /\ P(x) \in Int /\ F(x, y) \in Int /\ G(x, y, z) \in Int
  BY <1>1 DEF Cubic
<1>4. \A x, y \in Int : P(x) - P(y) = (x - y) * F(x, y)
  BY <1>1, SMT DEF Cubic
<1>5. \A x, y, z \in Int : F(x, y) - F(x, z) = (y - z) * G(x, y, z)
  BY <1>1, SMT
<1>6. \A x, y, z, w \in Int : G(x, y, z) - G(x, y, w) = (z - w) * c[1]
  BY <1>1, SMT
<1>p. Multiple(p, P(s)) /\ Multiple(p, P(t)) /\ Multiple(p, P(u)) /\ Multiple(p, P(v))
  OBVIOUS
<1> HIDE DEF P, F, G
<1>7. Multiple(p, F(s, t)) /\ Multiple(p, F(s, u)) /\ Multiple(p, F(s, v))
  <2>1. Multiple(p, P(s) - P(t)) /\ Multiple(p, P(s) - P(u)) /\ Multiple(p, P(s) - P(v))
    BY <1>1, <1>2, <1>3, <1>p, Difference
  <2>2. Multiple(p, (s - t) * F(s, t)) /\ Multiple(p, (s - u) * F(s, u)) /\ Multiple(p, (s - v) * F(s, v))
    BY <1>2, <1>4, <2>1
  <2> QED
    BY <1>2, <1>3, <2>2, Cancelled
<1>8. Multiple(p, G(s, t, u)) /\ Multiple(p, G(s, t, v))
  <2>1. Multiple(p, F(s, t) - F(s, u)) /\ Multiple(p, F(s, t) - F(s, v))
    BY <1>1, <1>2, <1>3, <1>7, Difference
  <2>2. Multiple(p, (t - u) * G(s, t, u)) /\ Multiple(p, (t - v) * G(s, t, v))
    BY <1>2, <1>5, <2>1
  <2> QED
    BY <1>2, <1>3, <2>2, Cancelled
<1>9. Multiple(p, c[1])
  <2>1. Multiple(p, G(s, t, u) - G(s, t, v))
    BY <1>1, <1>2, <1>3, <1>8, Difference
  <2>2. Multiple(p, (u - v) * c[1])
    BY <1>2, <1>6, <2>1
  <2> QED
    BY <1>1, <2>2, Cancelled
<1>11. Multiple(p, c[2])
  <2> DEFINE x == s + t + u
             y == x * c[1]
             g == G(s, t, u)
  <2>0. x \in Int
    BY <1>2
  <2>a. Multiple(p, y)
    <3> HIDE DEF x
    <3> QED
      BY <1>1, <1>9, <2>0, Scaled
  <2>1. y \in Int /\ g \in Int /\ Multiple(p, y) /\ Multiple(p, g)
    <3>1. g \in Int /\ Multiple(p, g)
      BY <1>2, <1>3, <1>8
    <3>2. y \in Int
      <4> HIDE DEF x
      <4> QED
        BY <1>1, <2>0
    <3> HIDE DEF g, y
    <3> QED
      BY <2>a, <3>1, <3>2
  <2>2. c[2] = g - y
    BY <1>1, <1>2, SMT DEF G
  <2> HIDE DEF x, y, g
  <2>3. Multiple(p, g - y)
    BY <1>1, <2>1, Difference
  <2> QED
    BY <2>2, <2>3
<1>13. Multiple(p, c[3])
  <2> DEFINE i == s * s + s * t + t * t
             j == s + t
             y == i * c[1]
             z == j * c[2]
             f == F(s, t)
  <2>0. i \in Int /\ j \in Int
    BY <1>2
  <2>a. Multiple(p, y)
    <3> HIDE DEF i
    <3> QED
      BY <1>1, <1>9, <2>0, Scaled
  <2>b. Multiple(p, z)
    <3> HIDE DEF j
    <3> QED
      BY <1>1, <1>11, <2>0, Scaled
  <2>1. y \in Int /\ z \in Int /\ f \in Int /\ Multiple(p, y) /\ Multiple(p, z) /\ Multiple(p, f)
    <3>1. f \in Int /\ Multiple(p, f)
      BY <1>2, <1>3, <1>7
    <3>2. y \in Int /\ z \in Int
      <4> HIDE DEF i, j
      <4> QED
        BY <1>1, <2>0
    <3> HIDE DEF f, y, z
    <3> QED
      BY <2>a, <2>b, <3>1, <3>2
  <2>2. c[3] = (f - y) - z
    BY <1>1, <1>2, SMT DEF F
  <2> HIDE DEF y, z, f
  <2>3. Multiple(p, f - y)
    BY <1>1, <2>1, Difference
  <2>4. Multiple(p, (f - y) - z)
    BY <1>1, <2>1, <2>3, Difference
  <2> QED
    BY <2>2, <2>4
<1>15. Multiple(p, c[4])
  <2> DEFINE i == s * s * s
             j == s * s
             x == i * c[1]
             y == j * c[2]
             z == s * c[3]
             f == P(s)
  <2>0. i \in Int /\ j \in Int
    BY <1>2
  <2>a. Multiple(p, x)
    <3> HIDE DEF i
    <3> QED
      BY <1>1, <1>9, <2>0, Scaled
  <2>b. Multiple(p, y)
    <3> HIDE DEF j
    <3> QED
      BY <1>1, <1>11, <2>0, Scaled
  <2>c. Multiple(p, z)
    BY <1>1, <1>2, <1>13, Scaled
  <2>1. /\ x \in Int /\ y \in Int /\ z \in Int /\ f \in Int
        /\ Multiple(p, x) /\ Multiple(p, y) /\ Multiple(p, z) /\ Multiple(p, f)
    <3>1. f \in Int /\ Multiple(p, f)
      BY <1>2, <1>3, <1>p
    <3>2. x \in Int /\ y \in Int /\ z \in Int
      <4> HIDE DEF i, j
      <4> QED
        BY <1>1, <1>2, <2>0
    <3> HIDE DEF f, x, y, z
    <3> QED
      BY <2>a, <2>b, <2>c, <3>1, <3>2
  <2>2. c[4] = ((f - x) - y) - z
    BY <1>1, <1>2, SMT DEF P, Cubic
  <2> HIDE DEF x, y, z, f
  <2>3. Multiple(p, f - x)
    BY <1>1, <2>1, Difference
  <2>4. Multiple(p, (f - x) - y)
    BY <1>1, <2>1, <2>3, Difference
  <2>5. Multiple(p, ((f - x) - y) - z)
    <3> DEFINE k == (f - x) - y
    <3>1. k \in Int
      BY <2>1
    <3> HIDE DEF k
    <3>2. Multiple(p, k)
      BY <2>4 DEF k
    <3>3. Multiple(p, k - z)
      BY <1>1, <2>1, <3>1, <3>2, Difference
    <3> QED
      BY <3>3 DEF k
  <2> QED
    BY <2>2, <2>5
<1>16. \A i \in 1..4 : i = 1 \/ i = 2 \/ i = 3 \/ i = 4
  OBVIOUS
<1> QED
  BY <1>9, <1>11, <1>13, <1>15, <1>16

(* Algorithms: whatever the prime and four values of which no two are equal *)
(* modulo it, each combination of four ranks comes from exactly one cubic   *)
(* (engine/sampling.py:148-195).                                            *)
THEOREM RanksAreFourWiseIndependent ==
  ASSUME NEW p, IsPrime(p), NEW values \in [1..4 -> Int],
         \A i, j \in 1..4 : i # j => values[i] % p # values[j] % p
  PROVE  RanksAreIndependent(values, p)
<1>0. p \in Nat \ {0}
  BY DEF IsPrime
<1> DEFINE K == [1..4 -> 0..p - 1]
           ranks(c) == [i \in 1..4 |-> Sample!Hash(values[i], c, p)]
           h == [c \in K |-> ranks(c)]
           R == {ranks(c) : c \in K}
<1>1. Sample!Coefficients(p) = K
  BY DEF Sample!Coefficients
<1>2. IsFiniteSet(K)
  <2>1. IsFiniteSet(0..p - 1)
    BY <1>0, Below
  <2>2. PICK n \in Int : n = 4
    OBVIOUS
  <2>3. PICK u \in Int : u = 1
    OBVIOUS
  <2>4. IsFiniteSet(u..n)
    BY FS_Interval
  <2>5. IsFiniteSet(1..4)
    BY <2>2, <2>3, <2>4
  <2> QED
    BY <2>1, <2>5, FunctionsAreFinite
<1>3. ASSUME NEW c \in K, NEW d \in K, ranks(c) = ranks(d) PROVE c = d
  <2> DEFINE e == [i \in 1..4 |-> c[i] - d[i]]
             w(i) == values[i] % p
  <2>1. c \in [1..4 -> Int] /\ d \in [1..4 -> Int] /\ e \in [1..4 -> Int]
    BY <1>0
  <2>2. ASSUME NEW i \in 1..4 PROVE w(i) \in 0..p - 1 /\ Multiple(p, Cubic(e, w(i)))
    <3>1. w(i) \in 0..p - 1 /\ values[i] \in Int
      BY <1>0, Remainder
    <3> DEFINE r == Sample!Hash(values[i], c, p)
    <3>2. Sample!Hash(values[i], d, p) = r
      <4>1. ranks(c)[i] = ranks(d)[i]
        BY <1>3
      <4> QED
        BY <4>1
    <3> DEFINE x == Cubic(c, w(i)) - r
               y == Cubic(d, w(i)) - r
    <3>3. r \in Int /\ Multiple(p, x) /\ Multiple(p, y)
      BY <1>0, <2>1, <3>1, <3>2, HashIsCubic
    <3>4. Cubic(c, w(i)) \in Int /\ Cubic(d, w(i)) \in Int
      BY <2>1, <3>1 DEF Cubic
    <3> HIDE DEF w, r
    <3>5. x \in Int /\ y \in Int /\ Cubic(c, w(i)) - Cubic(d, w(i)) = x - y
      BY <3>3, <3>4
    <3>6. Multiple(p, x - y)
      <4> HIDE DEF x, y
      <4> QED
        BY <1>0, <3>3, <3>5, SumsOfMultiples
    <3>8. Cubic(e, w(i)) = Cubic(c, w(i)) - Cubic(d, w(i))
      <4> DEFINE m == w(i)
      <4>1. m \in Int /\ \A j \in 1..4 : e[j] = c[j] - d[j]
        BY <3>1
      <4> HIDE DEF e, m
      <4>2. Cubic(e, m) = Cubic(c, m) - Cubic(d, m)
        BY <2>1, <4>1, CubicsSubtract
      <4> QED
        BY <4>2 DEF m
    <3> QED
      BY <3>1, <3>5, <3>6, <3>8
  <2>3. \A i, j \in 1..4 : i # j => w(i) # w(j)
    OBVIOUS
  <2> HIDE DEF e, w
  <2>4. \A i \in 1..4 : Multiple(p, e[i])
    <3>1. /\ w(1) \in 0..p - 1 /\ w(2) \in 0..p - 1 /\ w(3) \in 0..p - 1 /\ w(4) \in 0..p - 1
          /\ Multiple(p, Cubic(e, w(1))) /\ Multiple(p, Cubic(e, w(2)))
          /\ Multiple(p, Cubic(e, w(3))) /\ Multiple(p, Cubic(e, w(4)))
      BY <2>2
    <3>2. w(1) # w(2) /\ w(1) # w(3) /\ w(1) # w(4) /\ w(2) # w(3) /\ w(2) # w(4) /\ w(3) # w(4)
      BY <2>3
    <3> DEFINE s == w(1)
               t == w(2)
               u == w(3)
               v == w(4)
    <3>3. /\ s \in 0..p - 1 /\ t \in 0..p - 1 /\ u \in 0..p - 1 /\ v \in 0..p - 1
          /\ s # t /\ s # u /\ s # v /\ t # u /\ t # v /\ u # v
          /\ Multiple(p, Cubic(e, s)) /\ Multiple(p, Cubic(e, t)) /\ Multiple(p, Cubic(e, u)) /\ Multiple(p, Cubic(e, v))
      BY <3>1, <3>2
    <3> HIDE DEF s, t, u, v
    <3> QED
      BY <2>1, <3>3, FourRoots
  <2>5. ASSUME NEW i \in 1..4 PROVE c[i] = d[i]
    <3>1. c[i] \in 0..p - 1 /\ d[i] \in 0..p - 1 /\ e[i] = c[i] - d[i]
      BY DEF e
    <3>2. e[i] \in Int /\ -p < e[i] /\ e[i] < p
      BY <1>0, <3>1
    <3>3. e[i] = 0
      BY <1>0, <2>4, <3>2, SmallMultiple
    <3> QED
      BY <3>1, <3>3
  <2> QED
    BY <2>5
<1>4. h \in Bijection(K, R)
  <2> HIDE DEF K, ranks
  <2> QED
    BY <1>3 DEF Bijection, Injection, Surjection, IsInjective
<1>5. Cardinality(R) = Cardinality(K)
  <2> HIDE DEF K, R, h
  <2> QED
    BY <1>2, <1>4, FS_Bijection DEF ExistsBijection
<1> QED
  BY <1>1, <1>5 DEF RanksAreIndependent

------------------------------------------------------------------------------
(* Statistics: what is measured on a graph and what a profile recorded.    *)
LEMMA StatisticSums == ASSUME NEW f PROVE Statistic!SumFunction(f) = SumFunctionOnSet(f, DOMAIN f)
BY DEF Statistic!SumFunction, Statistic!SumFunctionOnSet, Statistic!FoldFunctionOnSet, Statistic!MapThenFoldSet,
       SumFunctionOnSet, FoldFunctionOnSet, MapThenFoldSet

LEMMA StatisticCounts ==
  /\ \A S : Statistic!Cardinality(S) = Cardinality(S)
  /\ \A f : Statistic!Range(f) = Range(f)
  /\ \A f : Statistic!IsInjective(f) <=> IsInjective(f)
BY DEF Statistic!Cardinality, Cardinality, Statistic!Range, Range, Statistic!IsInjective, IsInjective

LEMMA StatisticDegrees ==
  /\ \A g, labels : Statistic!Matching(g, labels) = Query!Matching(g, labels)
  /\ \A g, n, d, types, labels : Statistic!Paths(g, n, d, types, labels) = Query!Paths(g, n, d, types, labels)
  /\ \A g, n, d, types, labels : Statistic!Degree(g, n, d, types, labels) = Query!Degree(g, n, d, types, labels)
<1>1. /\ \A have, wanted : Statistic!Fits(have, wanted) = Query!Fits(have, wanted)
      /\ \A g : Statistic!Nodes(g) = Query!Nodes(g)
  BY DEF Statistic!Fits, Query!Fits, Statistic!All, Query!All, Statistic!Nodes, Query!Nodes
<1>2. \A g, n, d, types, labels : Statistic!Paths(g, n, d, types, labels) = Query!Paths(g, n, d, types, labels)
  BY <1>1 DEF Statistic!Paths, Query!Paths
<1> QED
  BY <1>1, <1>2, StatisticCounts, Counting DEF Statistic!Matching, Query!Matching, Statistic!Degree, Query!Degree

LEMMA ImageIsFinite ==
  ASSUME NEW S, IsFiniteSet(S), NEW T, NEW f \in [S -> T]
  PROVE  IsFiniteSet(Range(f)) /\ Range(f) \in SUBSET T /\ Range(f) = {f[x] : x \in S}
<1>1. Range(f) = {f[x] : x \in S}
  BY DEF Range
<1>2. f \in Surjection(S, Range(f))
  BY <1>1 DEF Surjection
<1> QED
  BY <1>1, <1>2, FS_Surjection

(* The bars of a histogram add up to the nodes they stand for.              *)
LEMMA BarsAddUp ==
  ASSUME NEW N, IsFiniteSet(N), NEW deg \in [N -> Nat], NEW V \in SUBSET Range(deg),
         NEW h, DOMAIN h = V, \A v \in V : h[v] = Cardinality({n \in N : deg[n] = v})
  PROVE  Statistic!SizeOf(h) = Cardinality({n \in N : deg[n] \in V})
<1> DEFINE at == [v \in V |-> {n \in N : deg[n] = v}]
<1>1. IsFiniteSet(V)
  BY ImageIsFinite, FS_Subset
<1>2. at \in [V -> SUBSET N] /\ (\A v, w \in V : v # w => at[v] \cap at[w] = {})
  OBVIOUS
<1>3. \A v \in V : h[v] = Cardinality(at[v])
  OBVIOUS
<1>4. UNION {at[v] : v \in V} = {n \in N : deg[n] \in V}
  OBVIOUS
<1> HIDE DEF at
<1>5. SumFunctionOnSet(h, V) = Cardinality(UNION {at[v] : v \in V})
  BY <1>1, <1>2, <1>3, GroupsAddUp
<1> QED
  BY <1>4, <1>5, StatisticSums DEF Statistic!SizeOf

(* A percentile, of the degrees one by one.                                 *)
Middle(deg, quantile) ==
  IF quantile = "max" THEN Statistic!Max(Range(deg))
  ELSE Statistic!Min({v \in Range(deg) : Cardinality({n \in DOMAIN deg : deg[n] <= v})
                                           >= Statistic!Rank(quantile, Cardinality(DOMAIN deg))})

LEMMA QuantilesAgree ==
  ASSUME NEW N, IsFiniteSet(N), N # {}, NEW deg \in [N -> Nat], NEW quantile
  PROVE  Statistic!QuantileOf(Statistic!Histogram(deg), quantile) = Middle(deg, quantile)
<1> DEFINE h == Statistic!Histogram(deg)
           upTo(v) == Statistic!SizeOf([u \in {w \in DOMAIN h : w <= v} |-> h[u]])
<1>1. h = [v \in Range(deg) |-> Cardinality({n \in N : deg[n] = v})]
  BY StatisticCounts DEF Statistic!Histogram
<1>2. DOMAIN h = Range(deg) /\ \A v \in Range(deg) : h[v] = Cardinality({n \in N : deg[n] = v})
  BY <1>1
<1>3. Range(deg) # {} /\ Range(deg) \in SUBSET Nat /\ \A n \in N : deg[n] \in Range(deg)
  BY ImageIsFinite
<1> HIDE DEF h
<1>4. h # <<>>
  <2>1. DOMAIN <<>> = {}
    OBVIOUS
  <2> QED
    BY <1>2, <1>3, <2>1
<1>5. Statistic!SizeOf(h) = Cardinality(N)
  <2>1. Statistic!SizeOf(h) = Cardinality({n \in N : deg[n] \in Range(deg)})
    BY <1>2, BarsAddUp
  <2>2. {n \in N : deg[n] \in Range(deg)} = N
    BY <1>3
  <2> QED
    BY <2>1, <2>2
<1>6. ASSUME NEW v \in Range(deg) PROVE upTo(v) = Cardinality({n \in N : deg[n] <= v})
  <2> DEFINE V == {w \in DOMAIN h : w <= v}
             part == [u \in V |-> h[u]]
  <2>1. V \in SUBSET Range(deg) /\ DOMAIN part = V /\ \A w \in V : part[w] = Cardinality({n \in N : deg[n] = w})
    BY <1>2
  <2>2. {n \in N : deg[n] \in V} = {n \in N : deg[n] <= v}
    BY <1>2, <1>3
  <2>3. upTo(v) = Statistic!SizeOf(part)
    OBVIOUS
  <2> HIDE DEF V, part, upTo
  <2>4. Statistic!SizeOf(part) = Cardinality({n \in N : deg[n] \in V})
    BY <2>1, BarsAddUp
  <2> QED
    BY <2>2, <2>3, <2>4
<1>7. CASE quantile = "max"
  BY <1>2, <1>4, <1>7 DEF Statistic!QuantileOf, Middle, h
<1>8. CASE quantile # "max"
  <2>1. Statistic!QuantileOf(h, quantile) = Statistic!Percentile(h, quantile)
    BY <1>4, <1>8 DEF Statistic!QuantileOf
  <2>2. Statistic!Percentile(h, quantile) =
          Statistic!Min({v \in Range(deg) : upTo(v) >= Statistic!Rank(quantile, Cardinality(N))})
    BY <1>2, <1>5 DEF Statistic!Percentile
  <2> HIDE DEF upTo
  <2>3. {v \in Range(deg) : upTo(v) >= Statistic!Rank(quantile, Cardinality(N))} =
          {v \in Range(deg) : Cardinality({n \in N : deg[n] <= v}) >= Statistic!Rank(quantile, Cardinality(N))}
    BY <1>6
  <2> QED
    BY <1>8, <2>1, <2>2, <2>3 DEF Middle, h
<1> QED
  BY <1>7, <1>8 DEF h
(* Where nothing has a degree, every quantile is zero: the rank lies within *)
(* the population.                                                          *)
LEMMA MiddleOfZeros ==
  ASSUME NEW N, IsFiniteSet(N), N # {}, NEW deg \in [N -> Nat], \A n \in N : deg[n] = 0,
         NEW quantile \in Statistic!Quantiles
  PROVE  Middle(deg, quantile) = 0
<1>1. Range(deg) = {0}
  BY ImageIsFinite
<1>2. CASE quantile = "max"
  BY <1>1, <1>2 DEF Middle, Statistic!Max
<1>3. CASE quantile # "max"
  <2> DEFINE c == Cardinality(N)
             rank == Statistic!Rank(quantile, c)
  <2>1. c \in Nat /\ c >= 1
    BY FS_CardinalityType, FS_EmptySet
  <2>2. {n \in DOMAIN deg : deg[n] <= 0} = N /\ DOMAIN deg = N
    OBVIOUS
  <2> HIDE DEF c
  <2>3. rank <= c
    <3> DEFINE p == Statistic!Percent(quantile)
               q == (p * c + 99) \div 100
    <3>1. p = 50 \/ p = 95
      BY DEF Statistic!Percent
    <3>2. q \in Nat /\ q <= c
      BY <2>1, <3>1
    <3>3. rank = Statistic!Max({1, q})
      BY DEF Statistic!Rank
    <3> HIDE DEF rank, q
    <3>4. rank \in {1, q}
      <4>1. \E x \in {1, q} : \A y \in {1, q} : x >= y
        BY <3>2
      <4> QED
        BY <3>3, <4>1 DEF Statistic!Max
    <3> QED
      BY <2>1, <3>2, <3>4
  <2> HIDE DEF rank
  <2>4. {v \in Range(deg) : Cardinality({n \in DOMAIN deg : deg[n] <= v}) >= rank} = {0}
    <3>1. rank <= Cardinality({n \in DOMAIN deg : deg[n] <= 0})
      BY <2>2, <2>3 DEF c
    <3>2. Cardinality({n \in DOMAIN deg : deg[n] <= 0}) >= rank
      BY <2>1, <2>2, <2>3 DEF c
    <3> QED
      BY <1>1, <3>2
  <2>5. Middle(deg, quantile) = Statistic!Min({0})
    BY <1>3, <2>2, <2>4 DEF Middle, rank, c
  <2> QED
    BY <2>5 DEF Statistic!Min
<1> QED
  BY <1>2, <1>3

(* The pad of zeros restores the nodes that were left out.                  *)
LEMMA PadRestores ==
  ASSUME NEW N, IsFiniteSet(N), NEW deg \in [N -> Nat], NEW some,
         some = {n \in N : deg[n] > 0}
  PROVE  Statistic!Padded(Statistic!Histogram([n \in some |-> deg[n]]), Cardinality(N)) = Statistic!Histogram(deg)
<1> DEFINE part == [n \in some |-> deg[n]]
           h == Statistic!Histogram(part)
           none == {n \in N : deg[n] = 0}
           zeros == Cardinality(N) - Statistic!SizeOf(h)
<1>1. part \in [some -> Nat] /\ some \in SUBSET N /\ IsFiniteSet(some)
  BY FS_Subset
<1>2. /\ Range(part) = {deg[n] : n \in some} /\ Range(part) \in SUBSET Nat
      /\ \A v \in Range(part) : v > 0
  <2>1. \A n \in some : part[n] = deg[n] /\ deg[n] \in Nat /\ deg[n] > 0
    OBVIOUS
  <2> HIDE DEF part
  <2>2. Range(part) = {part[n] : n \in some}
    BY <1>1, ImageIsFinite
  <2> QED
    BY <2>1, <2>2
<1>3. h = [v \in Range(part) |-> Cardinality({n \in some : part[n] = v})]
  BY StatisticCounts DEF Statistic!Histogram
<1>4. DOMAIN h = Range(part) /\ \A v \in Range(part) : h[v] = Cardinality({n \in N : deg[n] = v})
  <2>1. \A v \in Range(part) : {n \in some : part[n] = v} = {n \in N : deg[n] = v}
    BY <1>2
  <2> HIDE DEF h
  <2>2. \A v \in Range(part) : h[v] = Cardinality({n \in some : part[n] = v})
    BY <1>3
  <2> QED
    BY <1>3, <2>1, <2>2
<1>5. Statistic!SizeOf(h) = Cardinality(some)
  <2>1. \A v \in Range(part) : h[v] = Cardinality({n \in some : part[n] = v})
    BY <1>3
  <2>2. {n \in some : part[n] \in Range(part)} = some
    BY DEF Range
  <2> HIDE DEF h, part
  <2>3. Statistic!SizeOf(h) = Cardinality({n \in some : part[n] \in Range(part)})
    BY <1>1, <1>4, <2>1, BarsAddUp
  <2> QED
    BY <2>2, <2>3
<1>6. zeros = Cardinality(none) /\ Cardinality(none) \in Nat /\ (Cardinality(none) > 0 <=> none # {})
  <2>1. none = N \ some /\ N \cap some = some
    OBVIOUS
  <2> HIDE DEF none, h
  <2>2. IsFiniteSet(none) /\ Cardinality(none) = Cardinality(N) - Cardinality(some)
    BY <2>1, FS_Difference
  <2> QED
    BY <1>5, <2>2, FS_CardinalityType, FS_EmptySet
<1>7. Range(deg) = IF none # {} THEN Range(part) \cup {0} ELSE Range(part)
  BY <1>2, ImageIsFinite
<1>8. Statistic!Histogram(deg) = [v \in Range(deg) |-> Cardinality({n \in N : deg[n] = v})]
  BY StatisticCounts DEF Statistic!Histogram
<1>9. Statistic!Padded(h, Cardinality(N)) =
        IF zeros > 0 THEN [v \in DOMAIN h \cup {0} |-> IF v = 0 THEN zeros ELSE h[v]] ELSE h
  BY DEF Statistic!Padded
<1>10. h = [v \in DOMAIN h |-> h[v]]
  BY <1>3
<1>11. CASE none # {}
  <2>1. Statistic!Padded(h, Cardinality(N)) =
          [v \in Range(part) \cup {0} |-> IF v = 0 THEN Cardinality(none) ELSE h[v]]
    <3> HIDE DEF h, none, part, zeros
    <3> QED
      BY <1>4, <1>6, <1>9, <1>11
  <2>2. Range(deg) = Range(part) \cup {0}
    BY <1>7, <1>11
  <2>3. \A v \in Range(part) \cup {0} :
          (IF v = 0 THEN Cardinality(none) ELSE h[v]) = Cardinality({n \in N : deg[n] = v})
    <3> HIDE DEF h, part
    <3> QED
      BY <1>2, <1>4
  <2> HIDE DEF h, part, none
  <2> QED
    BY <1>8, <2>1, <2>2, <2>3 DEF h, part
<1>12. CASE none = {}
  <2>1. Statistic!Padded(h, Cardinality(N)) = h /\ Range(deg) = Range(part)
    <3> HIDE DEF h, none, part, zeros
    <3> QED
      BY <1>6, <1>7, <1>9, <1>12
  <2>2. \A v \in Range(part) : h[v] = Cardinality({n \in N : deg[n] = v})
    BY <1>4
  <2> HIDE DEF h, part, none
  <2> QED
    BY <1>4, <1>8, <1>10, <2>1, <2>2 DEF h, part
<1> QED
  BY <1>11, <1>12
(* The degrees that a target is about.                                      *)
DegreesOf(g, t, nodes) ==
  [n \in nodes |-> Statistic!Degree(g, n, Statistic!Directed(t.direction), Statistic!One(t.type), Statistic!All)]

LEMMA DegreesAreTyped ==
  ASSUME NEW g, IsGraph(g), NEW t, NEW nodes
  PROVE  DegreesOf(g, t, nodes) \in [nodes -> Nat]
BY StatisticDegrees, NoPaths DEF DegreesOf

LEMMA CountedIsFinite ==
  ASSUME NEW g, IsGraph(g), NEW t
  PROVE  IsFiniteSet(Statistic!Counted(g, t))
<1>1. IsFiniteSet(DOMAIN g.labels)
  BY DEF IsGraph
<1>2. Statistic!Sources(g, t.type, Statistic!Directed(t.direction)) \in SUBSET DOMAIN g.labels
  BY DEF Statistic!Sources, Statistic!Nodes
<1>3. Statistic!Matching(g, {t.label}) \in SUBSET DOMAIN g.labels
  BY DEF Statistic!Matching, Statistic!Nodes
<1>4. Statistic!Counted(g, t) \in SUBSET DOMAIN g.labels
  BY <1>2, <1>3 DEF Statistic!Counted
<1> QED
  BY <1>1, <1>4, FS_Subset

LEMMA LiveIsMiddle ==
  ASSUME NEW g, IsGraph(g), NEW t
  PROVE  Statistic!LiveDegree(g, t) = Middle(DegreesOf(g, t, Statistic!Counted(g, t)), t.quantile)
<1> DEFINE nodes == Statistic!Counted(g, t)
           degree(n) == Statistic!Degree(g, n, Statistic!Directed(t.direction), Statistic!One(t.type), Statistic!All)
           deg == DegreesOf(g, t, nodes)
           values == {degree(n) : n \in nodes}
           rank == Statistic!Rank(t.quantile, Cardinality(nodes))
<1>1. DOMAIN deg = nodes /\ \A n \in nodes : deg[n] = degree(n)
  BY DEF DegreesOf
<1>2. Range(deg) = values
  BY <1>1 DEF Range
<1>3. \A v : {n \in nodes : degree(n) <= v} = {n \in DOMAIN deg : deg[n] <= v}
  BY <1>1
<1>4. Statistic!LiveDegree(g, t) =
        IF t.quantile = "max" THEN Statistic!Max(values)
        ELSE Statistic!Min({v \in values : Cardinality({n \in nodes : degree(n) <= v}) >= rank})
  BY StatisticCounts DEF Statistic!LiveDegree
<1> HIDE DEF nodes, degree, deg, values
<1> QED
  BY <1>1, <1>2, <1>3, <1>4 DEF Middle, deg, nodes

(* A recorded histogram is that of the nodes counted live.                  *)
LEMMA HistogramIsWhole ==
  ASSUME NEW g, IsGraph(g), NEW t, Statistic!DegreeTarget(t)
  PROVE  Statistic!HistogramFor(g, t) = Statistic!Histogram(DegreesOf(g, t, Statistic!Counted(g, t)))
<1> DEFINE degree(n) == Statistic!Degree(g, n, Statistic!Directed(t.direction), Statistic!One(t.type), Statistic!All)
           labelled == Statistic!Matching(g, {t.label})
           sources == Statistic!Sources(g, t.type, Statistic!Directed(t.direction))
           some == {n \in labelled : degree(n) > 0}
<1>1. CASE t.label = Statistic!None
  <2>1. Statistic!HistogramFor(g, t) = Statistic!Histogram([n \in sources |-> degree(n)])
    <3>1. t.type # Statistic!None
      BY <1>1 DEF Statistic!DegreeTarget
    <3> QED
      BY <1>1, <3>1 DEF Statistic!HistogramFor
  <2>2. Statistic!Counted(g, t) = sources
    BY <1>1 DEF Statistic!Counted
  <2> QED
    BY <2>1, <2>2 DEF DegreesOf
<1>2. CASE t.label # Statistic!None /\ t.type = Statistic!None
  <2>1. Statistic!HistogramFor(g, t) = Statistic!Histogram([n \in labelled |-> degree(n)])
    BY <1>2 DEF Statistic!HistogramFor
  <2>2. Statistic!Counted(g, t) = labelled
    BY <1>2 DEF Statistic!Counted
  <2> QED
    BY <2>1, <2>2 DEF DegreesOf
<1>3. CASE t.label # Statistic!None /\ t.type # Statistic!None
  <2> DEFINE deg == DegreesOf(g, t, labelled)
  <2>1. Statistic!HistogramFor(g, t) =
          Statistic!Padded(Statistic!Histogram([n \in some |-> degree(n)]), Cardinality(labelled))
    BY <1>3, StatisticCounts DEF Statistic!HistogramFor
  <2>2. Statistic!Counted(g, t) = labelled
    BY <1>3 DEF Statistic!Counted
  <2>3. deg \in [labelled -> Nat]
    BY DegreesAreTyped
  <2>4. IsFiniteSet(labelled)
    BY <2>2, CountedIsFinite
  <2>5. \A n \in labelled : deg[n] = degree(n)
    BY DEF DegreesOf
  <2> HIDE DEF deg, labelled, degree
  <2>6. some = {n \in labelled : deg[n] > 0} /\ [n \in some |-> degree(n)] = [n \in some |-> deg[n]]
    BY <2>5
  <2> HIDE DEF some
  <2>7. Statistic!Padded(Statistic!Histogram([n \in some |-> deg[n]]), Cardinality(labelled)) = Statistic!Histogram(deg)
    BY <2>3, <2>4, <2>6, PadRestores
  <2> QED
    BY <2>1, <2>2, <2>6, <2>7 DEF deg
<1> QED
  BY <1>1, <1>2, <1>3

LEMMA RecordedDegree ==
  ASSUME NEW g, IsGraph(g), NEW t, Statistic!DegreeTarget(t), Statistic!Counted(g, t) # {}
  PROVE  Statistic!ProfiledDegree(g, t) = Statistic!LiveDegree(g, t)
<1> DEFINE nodes == Statistic!Counted(g, t)
           deg == DegreesOf(g, t, nodes)
<1>1. IsFiniteSet(nodes) /\ nodes # {} /\ deg \in [nodes -> Nat]
  BY CountedIsFinite, DegreesAreTyped
<1>2. Statistic!ProfiledDegree(g, t) = Statistic!QuantileOf(Statistic!Histogram(deg), t.quantile)
  BY HistogramIsWhole DEF Statistic!ProfiledDegree
<1>3. Statistic!LiveDegree(g, t) = Middle(deg, t.quantile)
  BY LiveIsMiddle
<1> HIDE DEF nodes, deg
<1> QED
  BY <1>1, <1>2, <1>3, QuantilesAgree
(* What is not recorded is zero, or the profile is partial.                 *)
LEMMA LiveOfZeros ==
  ASSUME NEW g, IsGraph(g), NEW t, t.quantile \in Statistic!Quantiles, Statistic!Counted(g, t) # {},
         \A n \in Statistic!Counted(g, t) : DegreesOf(g, t, Statistic!Counted(g, t))[n] = 0
  PROVE  Statistic!LiveDegree(g, t) = 0
<1> DEFINE nodes == Statistic!Counted(g, t)
           deg == DegreesOf(g, t, nodes)
<1>1. IsFiniteSet(nodes) /\ nodes # {} /\ deg \in [nodes -> Nat] /\ \A n \in nodes : deg[n] = 0
  BY CountedIsFinite, DegreesAreTyped
<1>2. Statistic!LiveDegree(g, t) = Middle(deg, t.quantile)
  BY LiveIsMiddle
<1> HIDE DEF nodes, deg
<1> QED
  BY <1>1, <1>2, MiddleOfZeros

(* A finite set can be listed by a number, the largest first.               *)
Sorted(s, f) == IsInjective(s) /\ \A i \in DOMAIN s : \A j \in 1..i : f[s[j]] >= f[s[i]]

LEMMA CanBeSorted ==
  ASSUME NEW S, IsFiniteSet(S), NEW f \in [S -> Nat]
  PROVE  \E s \in [1..Cardinality(S) -> S] : Sorted(s, f)
<1> DEFINE Listed(T) == \E s \in [1..Cardinality(T) -> T] : Sorted(s, f)
           All(n) == \A T \in SUBSET S : Cardinality(T) = n => Listed(T)
           G == {n \in Nat : All(n)}
<1>1. 0 \in G
  <2>1. ASSUME NEW T \in SUBSET S, Cardinality(T) = 0 PROVE Listed(T)
    <3>1. <<>> \in [1..0 -> T] /\ DOMAIN <<>> = {}
      OBVIOUS
    <3>2. Sorted(<<>>, f)
      BY DEF Sorted, IsInjective
    <3> QED
      BY <2>1, <3>1, <3>2
  <2> HIDE DEF Listed
  <2> QED
    BY <2>1
<1>2. ASSUME NEW n \in G PROVE n + 1 \in G
  <2>1. ASSUME NEW T \in SUBSET S, Cardinality(T) = n + 1 PROVE Listed(T)
    <3>1. n \in Nat /\ All(n)
      OBVIOUS
    <3>2. IsFiniteSet(T) /\ T # {}
      BY <2>1, <3>1, FS_Subset, FS_EmptySet
    <3>3. PICK x \in T : \A y \in T : f[x] <= f[y]
      <4> DEFINE V == {f[y] : y \in T}
      <4>1. V \in SUBSET Nat /\ V # {}
        BY <3>2
      <4>2. PICK v \in V : \A w \in V : v <= w
        <5> HIDE DEF V
        <5> QED
          BY <4>1, LeastExists
      <4>3. PICK x \in T : v = f[x]
        OBVIOUS
      <4> QED
        BY <4>2, <4>3
    <3> DEFINE R == T \ {x}
    <3>4. Cardinality(R) = n /\ R \in SUBSET S
      <4>1. Cardinality(R) = Cardinality(T) - 1
        BY <3>2, FS_RemoveElement
      <4> QED
        BY <2>1, <3>1, <4>1
    <3>5. Listed(R)
      <4> HIDE DEF Listed, R
      <4> QED
        BY <3>1, <3>4
    <3>6. PICK r \in [1..n -> R] : Sorted(r, f)
      BY <3>4, <3>5
    <3> DEFINE s == [i \in 1..n + 1 |-> IF i = n + 1 THEN x ELSE r[i]]
    <3>7. s \in [1..n + 1 -> T]
      BY <3>1
    <3>8. \A i \in 1..n : s[i] = r[i] /\ s[i] \in T /\ s[i] # x
      BY <3>1
    <3>9. s[n + 1] = x
      BY <3>1
    <3> HIDE DEF s, R
    <3>10. \A i \in 1..n + 1 : i = n + 1 \/ i \in 1..n
      BY <3>1
    <3>11. IsInjective(s)
      <4>1. \A i, j \in 1..n : r[i] = r[j] => i = j
        BY <3>6 DEF Sorted, IsInjective
      <4>2. \A i, j \in 1..n + 1 : s[i] = s[j] => i = j
        BY <3>8, <3>9, <3>10, <4>1
      <4> QED
        BY <3>7, <4>2 DEF IsInjective
    <3>12. ASSUME NEW i \in 1..n + 1, NEW j \in 1..i PROVE f[s[j]] >= f[s[i]]
      <4>1. j \in 1..n + 1 /\ s[i] \in T /\ s[j] \in T /\ f[s[i]] \in Nat /\ f[s[j]] \in Nat
        <5>1. j \in 1..n + 1
          BY <3>1
        <5> QED
          BY <3>7, <5>1
      <4>2. CASE i = n + 1
        BY <3>3, <3>9, <4>1, <4>2
      <4>3. CASE i \in 1..n
        <5>1. j \in 1..n
          BY <3>1, <4>3
        <5>2. f[r[j]] >= f[r[i]]
          BY <3>6, <4>3 DEF Sorted
        <5> QED
          BY <3>8, <4>3, <5>1, <5>2
      <4> QED
        BY <3>10, <4>2, <4>3
    <3>13. Sorted(s, f)
      BY <3>7, <3>11, <3>12 DEF Sorted
    <3> QED
      BY <2>1, <3>7, <3>13
  <2>2. n + 1 \in Nat /\ All(n + 1)
    <3> HIDE DEF Listed
    <3> QED
      BY <2>1
  <2> HIDE DEF All
  <2> QED
    BY <2>2
<1>3. G = Nat
  <2>1. G \in SUBSET Nat
    OBVIOUS
  <2> HIDE DEF G
  <2> QED
    BY <1>1, <1>2, <2>1, Induction
<1>4. Cardinality(S) \in Nat
  BY FS_CardinalityType
<1>5. All(Cardinality(S))
  <2> HIDE DEF All
  <2> QED
    BY <1>3, <1>4
<1> HIDE DEF Listed
<1>6. Listed(S)
  BY <1>5
<1> QED
  BY <1>6 DEF Listed
(* The pairs that have edges, and how many; nothing is dropped within the   *)
(* cap.                                                                     *)
EdgesOf(g, l, t) ==
  SumFunctionOnSet([n \in Query!Matching(g, {l}) |-> Query!Degree(g, n, "any", {t}, Query!All)],
                   Query!Matching(g, {l}))

LEMMA EdgesAreCounted ==
  ASSUME NEW g, IsGraph(g)
  PROVE  LET edges == Statistic!EdgeCounts(g)
         IN  /\ edges \in [DOMAIN edges -> Nat]
             /\ IsFiniteSet(DOMAIN edges)
             /\ \A l \in Statistic!LabelsInUse(g), t \in Statistic!TypesInUse(g) :
                  (\E n \in Query!Matching(g, {l}) : Query!Degree(g, n, "any", {t}, Query!All) > 0)
                    => <<l, t>> \in DOMAIN edges
<1> DEFINE edges == Statistic!EdgeCounts(g)
           pairs == Statistic!LabelsInUse(g) \X Statistic!TypesInUse(g)
           of(l) == Query!Matching(g, {l})
           degrees(l, t) == [n \in of(l) |-> Query!Degree(g, n, "any", {t}, Query!All)]
<1>1. ASSUME NEW l, NEW t
      PROVE  /\ EdgesOf(g, l, t) \in Nat
             /\ \A n \in of(l) : Query!Degree(g, n, "any", {t}, Query!All) <= EdgesOf(g, l, t)
  <2>1. IsFiniteSet(of(l))
    BY Matched DEF IsGraph
  <2>2. degrees(l, t) \in [of(l) -> Nat]
    BY NoPaths
  <2>3. \A n \in of(l) : degrees(l, t)[n] = Query!Degree(g, n, "any", {t}, Query!All)
    OBVIOUS
  <2>4. EdgesOf(g, l, t) = SumFunctionOnSet(degrees(l, t), of(l))
    BY DEF EdgesOf
  <2> HIDE DEF of, degrees
  <2>5. SumFunctionOnSet(degrees(l, t), of(l)) \in Nat
        /\ \A n \in of(l) : degrees(l, t)[n] <= SumFunctionOnSet(degrees(l, t), of(l))
    BY <2>1, <2>2, SumCovers
  <2> QED
    BY <2>3, <2>4, <2>5
<1>2. edges = [p \in {q \in pairs : EdgesOf(g, q[1], q[2]) > 0} |-> EdgesOf(g, p[1], p[2])]
  <2>1. \A l : Statistic!Matching(g, {l}) = of(l)
    BY StatisticDegrees
  <2>2. \A l, t : Statistic!SumFunction([n \in Statistic!Matching(g, {l}) |->
                     Statistic!Degree(g, n, "any", {t}, Statistic!All)]) = EdgesOf(g, l, t)
    <3>1. Statistic!All = Query!All
      BY DEF Statistic!All, Query!All
    <3>2. ASSUME NEW l, NEW t
          PROVE  [n \in Statistic!Matching(g, {l}) |-> Statistic!Degree(g, n, "any", {t}, Statistic!All)] = degrees(l, t)
      BY <3>1, StatisticDegrees
    <3>3. \A l, t : Statistic!SumFunction(degrees(l, t)) = EdgesOf(g, l, t)
      BY StatisticSums DEF EdgesOf
    <3> HIDE DEF degrees
    <3> QED
      BY <3>2, <3>3
  <2> QED
    BY <2>2 DEF Statistic!EdgeCounts
<1>3. DOMAIN edges = {q \in pairs : EdgesOf(g, q[1], q[2]) > 0}
      /\ \A p \in DOMAIN edges : edges[p] = EdgesOf(g, p[1], p[2])
  BY <1>2
<1>4. edges \in [DOMAIN edges -> Nat]
  <2>1. \A p \in DOMAIN edges : edges[p] \in Nat
    <3>1. \A l, t : EdgesOf(g, l, t) \in Nat
      BY <1>1
    <3> HIDE DEF edges
    <3> QED
      BY <1>3, <3>1
  <2>2. edges = [p \in DOMAIN edges |-> edges[p]]
    BY <1>2
  <2> HIDE DEF edges
  <2> QED
    BY <2>1, <2>2
<1>5. IsFiniteSet(DOMAIN edges)
  <2>1. IsFiniteSet(Statistic!LabelsInUse(g))
    <3> DEFINE sets == {g.labels[n] : n \in DOMAIN g.labels}
               w == [n \in DOMAIN g.labels |-> g.labels[n]]
    <3>1. w \in Surjection(DOMAIN g.labels, sets) /\ (\A s \in sets : IsFiniteSet(s)) /\ IsFiniteSet(DOMAIN g.labels)
      BY DEF Surjection, IsGraph
    <3>2. Statistic!LabelsInUse(g) = UNION sets
      BY DEF Statistic!LabelsInUse, Statistic!Nodes
    <3> HIDE DEF sets, w
    <3>3. IsFiniteSet(sets)
      BY <3>1, FS_Surjection
    <3> QED
      BY <3>1, <3>2, <3>3, FS_UNION
  <2>2. IsFiniteSet(Statistic!TypesInUse(g))
    <3> DEFINE types == {r.type : r \in g.rels}
               w == [r \in g.rels |-> r.type]
    <3>1. w \in Surjection(g.rels, types) /\ IsFiniteSet(g.rels)
      BY DEF Surjection, IsGraph
    <3>2. Statistic!TypesInUse(g) = types
      BY DEF Statistic!TypesInUse
    <3> HIDE DEF types, w
    <3> QED
      BY <3>1, <3>2, FS_Surjection
  <2>3. IsFiniteSet(pairs)
    BY <2>1, <2>2, FS_Product
  <2>4. DOMAIN edges \in SUBSET pairs
    <3> HIDE DEF edges, pairs
    <3> QED
      BY <1>3
  <2> HIDE DEF edges, pairs
  <2> QED
    BY <2>3, <2>4, FS_Subset
<1>6. ASSUME NEW l \in Statistic!LabelsInUse(g), NEW t \in Statistic!TypesInUse(g),
             NEW n \in of(l), Query!Degree(g, n, "any", {t}, Query!All) > 0
      PROVE  <<l, t>> \in DOMAIN edges
  <2>1. EdgesOf(g, l, t) > 0
    <3> DEFINE d == Query!Degree(g, n, "any", {t}, Query!All)
    <3>1. d \in Nat /\ d > 0 /\ d <= EdgesOf(g, l, t) /\ EdgesOf(g, l, t) \in Nat
      BY <1>1, <1>6, NoPaths
    <3> HIDE DEF d
    <3> QED
      BY <3>1
  <2>2. <<l, t>> \in pairs
    OBVIOUS
  <2> HIDE DEF edges, pairs
  <2> QED
    BY <1>3, <2>1, <2>2
<1> HIDE DEF edges, of
<1> QED
  BY <1>4, <1>5, <1>6 DEF edges, of

LEMMA NothingIsDropped ==
  ASSUME NEW g, IsGraph(g), NEW cap \in Nat, Statistic!PartialReason(g, cap) = Statistic!None
  PROVE  Statistic!Kept(g, cap) = DOMAIN Statistic!EdgeCounts(g)
<1> DEFINE edges == Statistic!EdgeCounts(g)
           D == DOMAIN edges
           c == Cardinality(D)
           sorted == CHOOSE s \in [1..c -> D] :
                       /\ IsInjective(s)
                       /\ \A i \in DOMAIN s : \A j \in 1..i : edges[s[j]] >= edges[s[i]]
<1>1. edges \in [D -> Nat] /\ IsFiniteSet(D)
  BY EdgesAreCounted
<1>2. Statistic!Kept(g, cap) = {sorted[i] : i \in {j \in DOMAIN sorted : j <= cap}}
  BY StatisticCounts DEF Statistic!Kept
<1>3. c <= cap /\ c \in Nat
  <2>1. ~(c > cap)
    BY StatisticCounts DEF Statistic!PartialReason, Statistic!None
  <2>2. c \in Nat
    BY <1>1, FS_CardinalityType
  <2> HIDE DEF c
  <2> QED
    BY <2>1, <2>2
<1> HIDE DEF edges
<1>4. \E s \in [1..c -> D] : Sorted(s, edges)
  BY <1>1, CanBeSorted
<1> HIDE DEF D, c
<1>5. sorted \in [1..c -> D] /\ IsInjective(sorted)
  BY <1>4 DEF Sorted
<1> HIDE DEF sorted
<1>6. sorted \in Surjection(1..c, D)
  <2>1. sorted \in Injection(1..c, D)
    BY <1>5 DEF Injection, IsInjective
  <2>2. Cardinality(1..c) = c /\ IsFiniteSet(1..c)
    <3>1. PICK one \in Int : one = 1
      OBVIOUS
    <3>2. Cardinality(one..c) = IF one > c THEN 0 ELSE c - one + 1
      BY <1>3, FS_Interval
    <3>3. IsFiniteSet(one..c)
      BY <1>3, FS_Interval
    <3> QED
      BY <1>3, <3>1, <3>2, <3>3
  <2> QED
    BY <1>1, <2>1, <2>2, FS_Injection DEF c
<1>7. \A i \in DOMAIN sorted : i <= cap
  BY <1>3, <1>5
<1> QED
  BY <1>2, <1>5, <1>6, <1>7 DEF Surjection, D, edges
LEMMA DegreesAgree ==
  ASSUME NEW g, IsGraph(g), NEW cap \in Nat, NEW t, t.quantile \in Statistic!Quantiles,
         Statistic!DegreeTarget(t), Statistic!Counted(g, t) # {}
  PROVE  DegreeAgrees(g, cap, t)
<1> DEFINE way == Statistic!Directed(t.direction)
           nodes == Statistic!Counted(g, t)
           of == Query!Matching(g, {t.label})
           degree(n) == Query!Degree(g, n, way, Statistic!One(t.type), Query!All)
<1>1. CASE Statistic!Recorded(g, t, cap)
  BY <1>1, RecordedDegree DEF DegreeAgrees
<1>2. CASE ~Statistic!Recorded(g, t, cap)
  <2>1. SUFFICES ASSUME Statistic!PartialReason(g, cap) = Statistic!None
                 PROVE  Statistic!LiveDegree(g, t) = 0
    BY <1>2 DEF DegreeAgrees
  <2>2. \A n : Query!Paths(g, n, way, Statistic!One(t.type), Query!All) \subseteq
                 {r \in g.rels : t.type = Statistic!None \/ r.type = t.type}
    BY DEF Query!Paths, Statistic!One, Query!Fits, Query!All
  <2>3. \A n : degree(n) \in Nat /\ (degree(n) = 0 <=> Query!Paths(g, n, way, Statistic!One(t.type), Query!All) = {})
    BY NoPaths
  <2>4. \A n \in nodes : DegreesOf(g, t, nodes)[n] = degree(n)
    BY StatisticDegrees DEF DegreesOf, Statistic!All, Query!All
  <2>5. SUFFICES \A n \in nodes : degree(n) = 0
    <3> HIDE DEF degree
    <3> QED
      BY <2>4, LiveOfZeros
  <2>6. t.label # Statistic!None => nodes = of /\ of = {n \in DOMAIN g.labels : t.label \in g.labels[n]}
    BY StatisticDegrees DEF Statistic!Counted, Query!Matching, Query!Nodes, Query!Fits, Query!All
  <2>7. t.label = Statistic!None =>
          /\ t.type # Statistic!None
          /\ \A n \in nodes : degree(n) > 0
    BY StatisticDegrees DEF Statistic!Counted, Statistic!Sources, Statistic!DegreeTarget, Statistic!One,
                            Statistic!All, Query!All
  <2>8. t.label # Statistic!None => t.label \in Statistic!LabelsInUse(g)
    BY <2>6 DEF Statistic!LabelsInUse, Statistic!Nodes
  <2>9. CASE t.type # Statistic!None /\ t.type \notin Statistic!TypesInUse(g)
    <3>1. {r \in g.rels : t.type = Statistic!None \/ r.type = t.type} = {}
      BY <2>9 DEF Statistic!TypesInUse
    <3> QED
      BY <2>2, <2>3, <3>1
  <2>10. CASE t.type # Statistic!None => t.type \in Statistic!TypesInUse(g)
    <3>1. t.label # Statistic!None /\ t.type # Statistic!None
      <4>1. CASE t.label = Statistic!None
        BY <1>2, <2>7, <2>10, <4>1 DEF Statistic!Recorded
      <4>2. CASE t.type = Statistic!None
        BY <1>2, <2>8, <2>10, <4>2 DEF Statistic!Recorded
      <4> QED
        BY <4>1, <4>2
    <3>2. t.label \in Statistic!LabelsInUse(g) /\ t.type \in Statistic!TypesInUse(g)
      BY <2>8, <2>10, <3>1
    <3>3. Statistic!One(t.type) = {t.type}
      BY <3>1 DEF Statistic!One
    <3>4. \/ <<t.label, t.type>> \notin DOMAIN Statistic!EdgeCounts(g)
          \/ \A n \in of : ~(degree(n) > 0)
      <4>1. Statistic!Kept(g, cap) = DOMAIN Statistic!EdgeCounts(g)
        BY <2>1, NothingIsDropped
      <4>2. \A n : Statistic!Degree(g, n, way, {t.type}, Statistic!All) = degree(n)
        BY <3>3, StatisticDegrees DEF Statistic!All, Query!All
      <4>3. Statistic!Matching(g, {t.label}) = of
        BY StatisticDegrees
      <4> HIDE DEF degree, of
      <4> QED
        BY <1>2, <3>1, <3>2, <4>1, <4>2, <4>3 DEF Statistic!Recorded
    <3>5. CASE \A n \in of : ~(degree(n) > 0)
      <4> HIDE DEF degree, of
      <4> QED
        BY <2>3, <2>6, <3>1, <3>5
    <3>6. CASE <<t.label, t.type>> \notin DOMAIN Statistic!EdgeCounts(g)
      <4>1. ASSUME NEW n \in of PROVE degree(n) = 0
        <5>1. ~(Query!Degree(g, n, "any", {t.type}, Query!All) > 0)
          BY <3>2, <3>6, EdgesAreCounted
        <5>2. Query!Paths(g, n, "any", {t.type}, Query!All) = {}
          BY <5>1, NoPaths
        <5>3. Query!Paths(g, n, way, {t.type}, Query!All) \subseteq Query!Paths(g, n, "any", {t.type}, Query!All)
          BY DEF Query!Paths
        <5> QED
          BY <2>3, <3>3, <5>2, <5>3
      <4> HIDE DEF degree, of
      <4> QED
        BY <2>6, <3>1, <4>1
    <3> QED
      BY <3>4, <3>5, <3>6
  <2> QED
    BY <2>9, <2>10
<1> QED
  BY <1>1, <1>2

LEMMA CountsAgree ==
  ASSUME NEW g, NEW t,
         \/ t.metric = "node_count" /\ t.type = Statistic!None
         \/ t.metric = "relationship_count" /\ t.label = Statistic!None
  PROVE  CountAgrees(g, t)
<1> DEFINE of == {n \in DOMAIN g.labels : t.label = Statistic!None \/ t.label \in g.labels[n]}
           those == {r \in g.rels : t.type = Statistic!None \/ r.type = t.type}
<1>1. Statistic!Matching(g, Statistic!One(t.label)) = of
  BY DEF Statistic!Matching, Statistic!One, Statistic!Fits, Statistic!All, Statistic!Nodes
<1>2. {r \in g.rels : Statistic!Fits({r.type}, Statistic!One(t.type))} = those
  BY DEF Statistic!One, Statistic!Fits, Statistic!All
<1>3. Statistic!LiveCount(g, t) = IF t.metric = "node_count" THEN Cardinality(of) ELSE Cardinality(those)
  BY <1>1, <1>2, StatisticCounts DEF Statistic!LiveCount
<1>4. Statistic!ProfiledCount(g, t) = IF t.metric = "node_count" THEN Cardinality(of) ELSE Cardinality(those)
  BY StatisticCounts DEF Statistic!ProfiledCount, Statistic!Nodes
<1> QED
  <2>1. CASE Statistic!CountRecorded(g, t)
    BY <1>3, <1>4, <2>1 DEF CountAgrees
  <2>2. CASE ~Statistic!CountRecorded(g, t)
    <3>1. CASE t.metric = "node_count" /\ t.type = Statistic!None
      <4>1. of = {}
        BY <2>2, <3>1 DEF Statistic!CountRecorded, Statistic!LabelsInUse, Statistic!Nodes
      <4> QED
        BY <1>3, <2>2, <3>1, <4>1, FS_EmptySet DEF CountAgrees
    <3>2. CASE t.metric = "relationship_count" /\ t.label = Statistic!None
      <4>1. those = {}
        BY <2>2, <3>2 DEF Statistic!CountRecorded, Statistic!TypesInUse
      <4> QED
        BY <1>3, <2>2, <3>2, <4>1, FS_EmptySet DEF CountAgrees
    <3> QED
      BY <3>1, <3>2
  <2> QED
    BY <2>1, <2>2
LEMMA Divided ==
  ASSUME NEW a \in Nat, NEW b \in Nat \ {0}
  PROVE  a \div b \in Nat /\ a % b \in 0..b - 1 /\ a = b * (a \div b) + (a % b)
BY SMT

(* A rounded coverage is off by at most half a hundredth of a percent.      *)
LEMMA CoveragesAgree ==
  ASSUME NEW g, IsGraph(g), NEW label \in Statistic!LabelsInUse(g)
  PROVE  CoverageAgrees(g, label)
<1> DEFINE all == Query!Matching(g, {label})
           there == {n \in all : g.values[n] # Statistic!Absent}
           n == Cardinality(all)
           p == Cardinality(there)
<1>1. Statistic!LiveCoverage(g, label) = [present |-> p, population |-> n]
  BY StatisticCounts, StatisticDegrees DEF Statistic!LiveCoverage
<1>2. all = {x \in DOMAIN g.labels : label \in g.labels[x]}
  BY DEF Query!Matching, Query!Nodes, Query!Fits, Query!All
<1>3. all # {} /\ IsFiniteSet(all) /\ there \in SUBSET all
  BY <1>2, Matched DEF Statistic!LabelsInUse, Statistic!Nodes, IsGraph
<1>4. n \in Nat \ {0} /\ p \in Nat /\ p <= n
  <2> HIDE DEF all, there
  <2> QED
    BY <1>3, Chosen, FS_EmptySet
<1>5. ~Statistic!PropertyListed(g, label) => p = 0
  <2>1. ~Statistic!PropertyListed(g, label) => there = {}
    BY <1>2 DEF Statistic!PropertyListed, Statistic!Nodes
  <2> QED
    BY <2>1, FS_EmptySet
<1> HIDE DEF n, p
<1>6. Statistic!ProfiledCoverage(g, label) = Statistic!Rounded(p, n)
  BY <1>1 DEF Statistic!ProfiledCoverage
<1> DEFINE a == 20000 * p + n
           b == 2 * n
           q == a \div b
           error == q * n - 10000 * p
<1>7. q \in Nat /\ a % b \in 0..b - 1 /\ a = b * q + (a % b)
  <2>1. a \in Nat /\ b \in Nat \ {0}
    BY <1>4
  <2> HIDE DEF a, b
  <2> QED
    BY <2>1, Divided
<1>8. 2 * error \in -n..n
  <2> DEFINE r == a % b
  <2>1. r \in 0..b - 1 /\ a = b * q + r /\ q \in Nat
    BY <1>7
  <2> HIDE DEF r, q
  <2>2. PICK x \in Nat : x = q * n
    BY <1>4, <2>1
  <2>3. b * q = 2 * x
    BY <1>4, <2>1, <2>2
  <2>4. 20000 * p + n = 2 * x + r /\ r \in 0..2 * n - 1
    BY <2>1, <2>3
  <2>5. error = x - 10000 * p
    BY <2>2
  <2>6. 2 * (x - 10000 * p) \in -n..n
    BY <1>4, <2>2, <2>4
  <2> QED
    BY <2>5, <2>6
<1>9. Statistic!Rounded(p, n) = q
  BY DEF Statistic!Rounded
<1> QED
  BY <1>1, <1>5, <1>6, <1>8, <1>9 DEF CoverageAgrees

LEMMA InventoriesAgree ==
  ASSUME NEW g
  PROVE  Statistic!ProfiledInventory(g) = Statistic!LiveInventory(g)
<1> DEFINE sets == {s \in Statistic!Range(g.labels) : \E n \in Statistic!Nodes(g) :
                                                       g.labels[n] = s /\ g.values[n] # Statistic!Absent}
           listed == {k \in Statistic!LabelsInUse(g) : Statistic!PropertyListed(g, k)}
<1>1. UNION sets = listed
  <2>1. ASSUME NEW l \in UNION sets PROVE l \in listed
    <3>1. PICK s \in sets : l \in s
      OBVIOUS
    <3>2. PICK n \in Statistic!Nodes(g) : g.labels[n] = s /\ g.values[n] # Statistic!Absent
      OBVIOUS
    <3> QED
      BY <3>1, <3>2 DEF Statistic!LabelsInUse, Statistic!PropertyListed
  <2>2. ASSUME NEW l \in listed PROVE l \in UNION sets
    <3>1. PICK n \in Statistic!Nodes(g) : l \in g.labels[n] /\ g.values[n] # Statistic!Absent
      BY DEF Statistic!PropertyListed
    <3>2. g.labels[n] \in sets
      BY <3>1, StatisticCounts DEF Statistic!Nodes, Range
    <3> HIDE DEF sets
    <3> QED
      BY <3>1, <3>2
  <2> HIDE DEF sets, listed
  <2> QED
    BY <2>1, <2>2
<1>2. {<<"property", l>> : l \in UNION sets} = {<<"property", l>> : l \in listed}
  <2> HIDE DEF sets, listed
  <2> QED
    BY <1>1
<1> QED
  BY <1>2 DEF Statistic!ProfiledInventory, Statistic!LiveInventory

(* Algorithms, of any finite graph, cap, labels and types: what a drift     *)
(* check measures is what the profile of the same graph recorded, and what  *)
(* the profile left out is zero unless it says that it is partial           *)
(* (profiler.py:834-1053, engine/baseline.py:145-308,                       *)
(* engine/compiler.py:432-660).                                             *)
THEOREM ProfilesMatchGraphs ==
  ASSUME NEW g, IsGraph(g), NEW cap \in Nat, NEW labels, NEW types
  PROVE  ProfileAgrees(g, cap, labels, types)
<1> DEFINE none == {Statistic!None}
           degrees == [metric : {"degree"}, label : labels \cup none, type : types \cup none,
                       quantile : Statistic!Quantiles, direction : Statistic!Directions]
           counts == [metric : {"node_count"}, label : labels \cup none, type : none]
                       \cup [metric : {"relationship_count"}, label : none, type : types \cup none]
<1>1. \A t \in degrees : Statistic!DegreeTarget(t) /\ Statistic!Counted(g, t) # {} => DegreeAgrees(g, cap, t)
  BY DegreesAgree
<1>2. \A t \in counts : CountAgrees(g, t)
  BY CountsAgree
<1>3. \A l \in Statistic!LabelsInUse(g) : CoverageAgrees(g, l)
  BY CoveragesAgree
<1>4. Statistic!ProfiledInventory(g) = Statistic!LiveInventory(g)
  BY InventoriesAgree
<1> HIDE DEF degrees, counts
<1> QED
  BY <1>1, <1>2, <1>3, <1>4 DEF ProfileAgrees, degrees, counts

------------------------------------------------------------------------------
(* Groups of near duplicates: what the bucket masks rule out is not shared. *)
LEMMA SampleSums == ASSUME NEW f PROVE Sample!SumFunction(f) = SumFunctionOnSet(f, DOMAIN f)
BY DEF Sample!SumFunction, Sample!SumFunctionOnSet, Sample!FoldFunctionOnSet, Sample!MapThenFoldSet,
       SumFunctionOnSet, FoldFunctionOnSet, MapThenFoldSet

LEMMA SampleCounts ==
  /\ \A S : Sample!Cardinality(S) = Cardinality(S)
  /\ \A s : Sample!ToSet(s) = Range(s)
BY DEF Sample!Cardinality, Cardinality, Sample!ToSet, Range

(* The places at which a sequence has a gram that another one has, too.     *)
Shared(u, v) == {i \in DOMAIN u : u[i] \in Range(v)}

AreGrams(u) == u \in Seq(Nat \X Nat)

LEMMA PlacesAreFinite ==
  ASSUME NEW u, AreGrams(u)
  PROVE  /\ IsFiniteSet(DOMAIN u) /\ Cardinality(DOMAIN u) = Len(u)
         /\ IsFiniteSet(Range(u))
<1>1. PICK one \in Int : one = 1
  OBVIOUS
<1>2. Len(u) \in Nat /\ DOMAIN u = 1..Len(u) /\ u \in [DOMAIN u -> Nat \X Nat]
  BY DEF AreGrams
<1>3. IsFiniteSet(one..Len(u)) /\ Cardinality(one..Len(u)) = IF one > Len(u) THEN 0 ELSE Len(u) - one + 1
  BY <1>2, FS_Interval
<1>4. one..Len(u) = DOMAIN u /\ (IF one > Len(u) THEN 0 ELSE Len(u) - one + 1) = Len(u)
  BY <1>1, <1>2
<1>5. IsFiniteSet(DOMAIN u) /\ Cardinality(DOMAIN u) = Len(u)
  BY <1>3, <1>4
<1>6. IsFiniteSet(Range(u))
  BY <1>2, <1>5, ImageIsFinite
<1> QED
  BY <1>5, <1>6

LEMMA SumMonotone ==
  ASSUME NEW S, IsFiniteSet(S), NEW f \in [S -> Nat], NEW g \in [S -> Nat], \A x \in S : f[x] <= g[x]
  PROVE  SumFunctionOnSet(f, S) \in Nat /\ SumFunctionOnSet(g, S) \in Nat
         /\ SumFunctionOnSet(f, S) <= SumFunctionOnSet(g, S)
<1> DEFINE h == [x \in S |-> g[x] - f[x]]
<1>1. h \in [S -> Nat]
  OBVIOUS
<1>2. \A x \in S : g[x] = 1 * f[x] + h[x]
  OBVIOUS
<1>3. f \in [S -> Int] /\ g \in [S -> Int] /\ h \in [S -> Int]
  OBVIOUS
<1> HIDE DEF h
<1>4. SumFunctionOnSet(g, S) = 1 * SumFunctionOnSet(f, S) + SumFunctionOnSet(h, S)
  <2>1. PICK c \in Int : c = 1
    OBVIOUS
  <2>2. \A x \in S : g[x] = c * f[x] + h[x]
    BY <1>2, <2>1
  <2>3. SumFunctionOnSet(g, S) = c * SumFunctionOnSet(f, S) + SumFunctionOnSet(h, S)
    BY <1>3, <2>2, SumLinear
  <2> QED
    BY <2>1, <2>3
<1>5. SumFunctionOnSet(f, S) \in Nat /\ SumFunctionOnSet(g, S) \in Nat /\ SumFunctionOnSet(h, S) \in Nat
  BY <1>1, SumCovers
<1> QED
  BY <1>4, <1>5

(* Nothing is added where a function is 0.                                  *)
LEMMA SumOfSupport ==
  ASSUME NEW S, IsFiniteSet(S), NEW f \in [S -> Int], NEW T \in SUBSET S, \A x \in S \ T : f[x] = 0
  PROVE  SumFunctionOnSet(f, S) = SumFunctionOnSet(f, T)
<1> DEFINE G == {U \in SUBSET (S \ T) : SumFunctionOnSet(f, T \cup U) = SumFunctionOnSet(f, T)}
<1>1. {} \in G
  OBVIOUS
<1>2. ASSUME NEW U \in SUBSET (S \ T), NEW x \in (S \ T) \ U, U \in G PROVE U \cup {x} \in G
  <2>1. T \cup U \in SUBSET S /\ x \in S \ (T \cup U) /\ f[x] = 0
    OBVIOUS
  <2>2. SumFunctionOnSet(f, T \cup U) \in Int
        /\ SumFunctionOnSet(f, (T \cup U) \cup {x}) = SumFunctionOnSet(f, T \cup U) + f[x]
    BY <2>1, SumGrows
  <2>3. (T \cup U) \cup {x} = T \cup (U \cup {x})
    OBVIOUS
  <2>4. SumFunctionOnSet(f, T \cup (U \cup {x})) = SumFunctionOnSet(f, T \cup U)
    <3>1. \A a \in Int : a + 0 = a
      OBVIOUS
    <3>2. SumFunctionOnSet(f, T \cup U) + f[x] = SumFunctionOnSet(f, T \cup U)
      BY <2>1, <2>2, <3>1
    <3>3. SumFunctionOnSet(f, (T \cup U) \cup {x}) = SumFunctionOnSet(f, T \cup U)
      BY <2>2, <3>2
    <3> QED
      BY <2>3, <3>3, Zenon
  <2> QED
    BY <1>2, <2>4
<1>3. IsFiniteSet(S \ T)
  BY FS_Difference
<1>4. S \ T \in G
  <2> HIDE DEF G
  <2> QED
    BY <1>1, <1>2, <1>3, SetInduction
<1>5. T \cup (S \ T) = S
  OBVIOUS
<1> QED
  BY <1>4, <1>5

LEMMA CopiesCount ==
  ASSUME NEW u, AreGrams(u), NEW g
  PROVE  /\ Sample!Copies(g, u) = Cardinality({i \in DOMAIN u : u[i] = g})
         /\ Sample!Copies(g, u) \in Nat
         /\ g \notin Range(u) => Sample!Copies(g, u) = 0
<1>1. Sample!Copies(g, u) = Cardinality({i \in DOMAIN u : u[i] = g})
  BY SampleCounts DEF Sample!Copies
<1>2. IsFiniteSet(DOMAIN u)
  BY PlacesAreFinite
<1>3. {i \in DOMAIN u : u[i] = g} \in SUBSET DOMAIN u
  OBVIOUS
<1>4. g \notin Range(u) => {i \in DOMAIN u : u[i] = g} = {}
  BY DEF Range
<1> QED
  BY <1>1, <1>2, <1>3, <1>4, Chosen, FS_EmptySet

(* The overlap counts no more than what is shared, of either.               *)
Common(u, v) == [g \in Range(u) |-> Sample!Lesser(Sample!Copies(g, u), Sample!Copies(g, v))]

LEMMA OverlapIs ==
  ASSUME NEW u, AreGrams(u), NEW v, AreGrams(v)
  PROVE  /\ Sample!Overlap(u, v) = SumFunctionOnSet(Common(u, v), Range(u))
         /\ Common(u, v) \in [Range(u) -> Nat]
         /\ Sample!Overlap(u, v) \in Nat
<1>1. Common(u, v) \in [Range(u) -> Nat]
  BY CopiesCount DEF Common, Sample!Lesser
<1>2. Sample!Overlap(u, v) = Sample!SumFunction(Common(u, v))
  BY SampleCounts DEF Sample!Overlap, Common
<1>3. DOMAIN Common(u, v) = Range(u)
  BY DEF Common
<1>4. Sample!Overlap(u, v) = SumFunctionOnSet(Common(u, v), Range(u))
  BY <1>2, <1>3, SampleSums
<1> QED
  BY <1>1, <1>4, PlacesAreFinite, SumCovers

LEMMA OverlapIsSymmetric ==
  ASSUME NEW u, AreGrams(u), NEW v, AreGrams(v)
  PROVE  Sample!Overlap(u, v) = Sample!Overlap(v, u)
<1> DEFINE B == Range(u) \cap Range(v)
<1>0. /\ \A g \in Range(u) : Common(u, v)[g] = Sample!Lesser(Sample!Copies(g, u), Sample!Copies(g, v))
      /\ \A g \in Range(v) : Common(v, u)[g] = Sample!Lesser(Sample!Copies(g, v), Sample!Copies(g, u))
  BY DEF Common
<1>a. \A g : /\ Sample!Copies(g, u) \in Nat /\ Sample!Copies(g, v) \in Nat
             /\ g \notin Range(u) => Sample!Copies(g, u) = 0
             /\ g \notin Range(v) => Sample!Copies(g, v) = 0
  BY CopiesCount
<1>b. \A m, n \in Nat : /\ Sample!Lesser(m, n) = Sample!Lesser(n, m)
                        /\ Sample!Lesser(m, 0) = 0 /\ Sample!Lesser(m, n) \in Nat
  BY DEF Sample!Lesser
<1>1. \A g \in B : Common(u, v)[g] = Common(v, u)[g]
  BY <1>0, <1>a, <1>b
<1>2. \A g \in Range(u) \ B : Common(u, v)[g] = 0
  BY <1>0, <1>a, <1>b
<1>3. \A g \in Range(v) \ B : Common(v, u)[g] = 0
  BY <1>0, <1>a, <1>b
<1>4. B \in SUBSET Range(u) /\ B \in SUBSET Range(v)
  OBVIOUS
<1>5. IsFiniteSet(Range(u)) /\ IsFiniteSet(Range(v))
  BY PlacesAreFinite
<1>6. IsFiniteSet(B)
  BY <1>4, <1>5, FS_Subset
<1>7. Common(u, v) \in [Range(u) -> Int] /\ Common(v, u) \in [Range(v) -> Int]
  BY OverlapIs
<1> HIDE DEF B
<1>8. SumFunctionOnSet(Common(u, v), Range(u)) = SumFunctionOnSet(Common(u, v), B)
  BY <1>2, <1>4, <1>5, <1>7, SumOfSupport
<1>9. SumFunctionOnSet(Common(v, u), Range(v)) = SumFunctionOnSet(Common(v, u), B)
  BY <1>3, <1>4, <1>5, <1>7, SumOfSupport
<1>10. SumFunctionOnSet(Common(u, v), B) = SumFunctionOnSet(Common(v, u), B)
  BY <1>1, <1>6, SumSame
<1> QED
  BY <1>8, <1>9, <1>10, OverlapIs

(* What two sequences share is counted twice, once in each.                 *)
LEMMA OverlapIsShared ==
  ASSUME NEW u, AreGrams(u), NEW v, AreGrams(v)
  PROVE  Cardinality(Shared(u, v)) \in Nat /\ Sample!Overlap(u, v) <= Cardinality(Shared(u, v))
<1> DEFINE at == [g \in Range(u) |-> IF g \in Range(v) THEN {i \in DOMAIN u : u[i] = g} ELSE {}]
           counts == [g \in Range(u) |-> Cardinality(at[g])]
<1>1. IsFiniteSet(DOMAIN u) /\ IsFiniteSet(Range(u))
  BY PlacesAreFinite
<1>2. at \in [Range(u) -> SUBSET DOMAIN u]
  OBVIOUS
<1>3. \A g, h \in Range(u) : g # h => at[g] \cap at[h] = {}
  OBVIOUS
<1>4. UNION {at[g] : g \in Range(u)} = Shared(u, v)
  <2>1. \A i \in DOMAIN u : u[i] \in Range(u)
    BY DEF Range
  <2> QED
    BY <2>1 DEF Shared
<1>5. \A g \in Range(u) : Common(u, v)[g] <= counts[g] /\ counts[g] \in Nat
  <2> TAKE g \in Range(u)
  <2>1. CASE g \in Range(v)
    <3>1. counts[g] = Sample!Copies(g, u)
      BY <2>1, CopiesCount
    <3>2. Sample!Copies(g, u) \in Nat /\ Sample!Copies(g, v) \in Nat
      BY CopiesCount
    <3>3. Common(u, v)[g] = Sample!Lesser(Sample!Copies(g, u), Sample!Copies(g, v))
      BY DEF Common
    <3> QED
      BY <3>1, <3>2, <3>3 DEF Sample!Lesser
  <2>2. CASE g \notin Range(v)
    <3>1. counts[g] = 0
      BY <2>2, FS_EmptySet
    <3>2. Sample!Copies(g, u) \in Nat /\ Sample!Copies(g, v) = 0
      BY <2>2, CopiesCount
    <3>3. Common(u, v)[g] = Sample!Lesser(Sample!Copies(g, u), Sample!Copies(g, v))
      BY DEF Common
    <3> QED
      BY <3>1, <3>2, <3>3 DEF Sample!Lesser
  <2> QED
    BY <2>1, <2>2
<1>6. counts \in [Range(u) -> Nat]
  BY <1>5
<1>7. \A g \in Range(u) : counts[g] = Cardinality(at[g])
  OBVIOUS
<1> HIDE DEF at, counts
<1>8. SumFunctionOnSet(counts, Range(u)) = Cardinality(Shared(u, v))
  BY <1>1, <1>2, <1>3, <1>4, <1>7, GroupsAddUp
<1>9. Common(u, v) \in [Range(u) -> Nat] /\ Sample!Overlap(u, v) = SumFunctionOnSet(Common(u, v), Range(u))
  BY OverlapIs
<1>10. SumFunctionOnSet(Common(u, v), Range(u)) <= SumFunctionOnSet(counts, Range(u))
       /\ SumFunctionOnSet(counts, Range(u)) \in Nat
  BY <1>1, <1>5, <1>6, <1>9, SumMonotone
<1> QED
  BY <1>8, <1>9, <1>10

LEMMA SharedWithinMasks ==
  ASSUME NEW u, AreGrams(u), NEW v, AreGrams(v), NEW buckets
  PROVE  /\ IsFiniteSet(Sample!Mask(u, buckets)) /\ Cardinality(Sample!Mask(u, buckets)) \in Nat
         /\ Cardinality(Sample!Mask(u, buckets) \cap Sample!Mask(v, buckets)) \in Nat
         /\ Cardinality(Sample!Mask(u, buckets)) <= Len(u)
         /\ Cardinality(Shared(u, v)) <= Len(u)
         /\ Cardinality(Shared(u, v)) <= Cardinality(Sample!Mask(u, buckets) \cap Sample!Mask(v, buckets))
                                           + (Len(u) - Cardinality(Sample!Mask(u, buckets)))
<1> DEFINE M == Sample!Mask(u, buckets)
           W == Sample!Mask(v, buckets)
           rest == DOMAIN u \ Shared(u, v)
           bucket == [i \in DOMAIN u |-> Sample!Bucket(u[i], buckets)]
           other == [i \in rest |-> Sample!Bucket(u[i], buckets)]
<1>1. IsFiniteSet(DOMAIN u) /\ Cardinality(DOMAIN u) = Len(u) /\ Len(u) \in Nat
  BY PlacesAreFinite DEF AreGrams
<1>2. Shared(u, v) \in SUBSET DOMAIN u
  BY DEF Shared
<1>3. Cardinality(Shared(u, v)) \in Nat /\ Cardinality(Shared(u, v)) <= Len(u)
  BY <1>1, <1>2, Chosen
<1>4. IsFiniteSet(rest) /\ Cardinality(rest) = Len(u) - Cardinality(Shared(u, v))
  <2>1. DOMAIN u \cap Shared(u, v) = Shared(u, v)
    BY <1>2
  <2>2. IsFiniteSet(rest) /\ Cardinality(rest) = Cardinality(DOMAIN u) - Cardinality(DOMAIN u \cap Shared(u, v))
    BY <1>1, FS_Difference
  <2> QED
    BY <1>1, <2>1, <2>2
<1>5. bucket \in Surjection(DOMAIN u, M)
  BY DEF Surjection, Sample!Mask
<1>6. IsFiniteSet(M) /\ Cardinality(M) \in Nat /\ Cardinality(M) <= Len(u)
  <2> HIDE DEF bucket, M
  <2>1. IsFiniteSet(M) /\ Cardinality(M) <= Cardinality(DOMAIN u)
    BY <1>1, <1>5, FS_Surjection
  <2> QED
    BY <1>1, <2>1, FS_CardinalityType
<1>7. M \ W \in SUBSET Range(other)
  <2>1. ASSUME NEW b \in M \ W PROVE b \in Range(other)
    <3>1. PICK i \in DOMAIN u : b = Sample!Bucket(u[i], buckets)
      BY <2>1 DEF Sample!Mask
    <3>2. i \in rest
      <4>1. ASSUME i \in Shared(u, v) PROVE FALSE
        <5>1. PICK j \in DOMAIN v : u[i] = v[j]
          BY <4>1 DEF Shared, Range
        <5>2. b \in W
          BY <3>1, <5>1 DEF Sample!Mask
        <5> QED
          BY <2>1, <5>2
      <4> QED
        BY <4>1
    <3> QED
      BY <3>1, <3>2 DEF Range
  <2> QED
    BY <2>1
<1>8. other \in Surjection(rest, Range(other))
  BY DEF Surjection, Range
<1>9. Cardinality(M \ W) <= Cardinality(rest) /\ Cardinality(M \ W) = Cardinality(M) - Cardinality(M \cap W)
  <2> HIDE DEF other, M, W, rest
  <2>1. IsFiniteSet(Range(other)) /\ Cardinality(Range(other)) <= Cardinality(rest)
    BY <1>4, <1>8, FS_Surjection
  <2>2. Cardinality(M \ W) \in Nat /\ Cardinality(M \ W) <= Cardinality(Range(other))
        /\ Cardinality(Range(other)) \in Nat /\ Cardinality(rest) \in Nat
    BY <1>4, <1>7, <2>1, Chosen, FS_CardinalityType
  <2>3. Cardinality(M \ W) = Cardinality(M) - Cardinality(M \cap W)
    BY <1>6, FS_Difference
  <2> QED
    BY <2>1, <2>2, <2>3
<1>10. Cardinality(M \cap W) \in Nat
  <2> HIDE DEF M, W
  <2> QED
    BY <1>6, FS_Intersection, FS_CardinalityType
<1>11. Cardinality(Shared(u, v)) <= Cardinality(M \cap W) + (Len(u) - Cardinality(M))
  <2> HIDE DEF M, W, rest
  <2> QED
    BY <1>1, <1>3, <1>4, <1>6, <1>9, <1>10
<1> QED
  BY <1>3, <1>6, <1>10, <1>11

(* The bound that spares a comparison is never below the overlap it spares. *)
LEMMA BoundIsSound ==
  ASSUME NEW u, AreGrams(u), NEW v, AreGrams(v), NEW buckets
  PROVE  /\ Sample!Lesser(Sample!Lesser(Len(u), Len(v)), Sample!OverlapBound(u, v, buckets)) \in Nat
         /\ Sample!Overlap(u, v)
              <= Sample!Lesser(Sample!Lesser(Len(u), Len(v)), Sample!OverlapBound(u, v, buckets))
<1> DEFINE M == Sample!Mask(u, buckets)
           W == Sample!Mask(v, buckets)
           o == Sample!Overlap(u, v)
           both == Cardinality(M \cap W)
<1>1. o \in Nat /\ Len(u) \in Nat /\ Len(v) \in Nat
  BY OverlapIs DEF AreGrams
<1>2. both \in Nat /\ Cardinality(M) \in Nat /\ Cardinality(M) <= Len(u)
      /\ o <= Len(u) /\ o <= both + (Len(u) - Cardinality(M))
  <2>1. Cardinality(Shared(u, v)) \in Nat /\ o <= Cardinality(Shared(u, v))
    BY OverlapIsShared
  <2>2. /\ both \in Nat /\ Cardinality(M) \in Nat /\ Cardinality(M) <= Len(u)
        /\ Cardinality(Shared(u, v)) <= Len(u)
        /\ Cardinality(Shared(u, v)) <= both + (Len(u) - Cardinality(M))
    BY SharedWithinMasks
  <2> HIDE DEF o, both, M
  <2> QED
    BY <1>1, <2>1, <2>2
<1>3. Cardinality(W) \in Nat /\ Cardinality(W) <= Len(v)
      /\ o <= Len(v) /\ o <= both + (Len(v) - Cardinality(W))
  <2>1. Cardinality(Shared(v, u)) \in Nat /\ o <= Cardinality(Shared(v, u))
    BY OverlapIsShared, OverlapIsSymmetric
  <2>2. /\ Cardinality(W) \in Nat /\ Cardinality(W) <= Len(v)
        /\ Cardinality(Shared(v, u)) <= Len(v)
        /\ Cardinality(Shared(v, u)) <= Cardinality(W \cap M) + (Len(v) - Cardinality(W))
    BY SharedWithinMasks
  <2>3. Cardinality(W \cap M) = both
    <3>1. W \cap M = M \cap W
      OBVIOUS
    <3> QED
      BY <3>1
  <2> HIDE DEF o, both, M, W
  <2> QED
    BY <1>1, <1>2, <2>1, <2>2, <2>3
<1>4. Sample!OverlapBound(u, v, buckets) = both + Sample!Lesser(Len(u) - Cardinality(M), Len(v) - Cardinality(W))
  BY SampleCounts DEF Sample!OverlapBound
<1> HIDE DEF o, both, M, W
<1>5. Sample!OverlapBound(u, v, buckets) \in Nat /\ o <= Sample!OverlapBound(u, v, buckets)
  <2>1. Len(u) - Cardinality(M) \in Nat /\ Len(v) - Cardinality(W) \in Nat
    BY <1>1, <1>2, <1>3
  <2> QED
    BY <1>1, <1>2, <1>3, <1>4, <2>1 DEF Sample!Lesser
<1>6. o \in Nat /\ o <= Len(u) /\ o <= Len(v)
  BY <1>1, <1>2, <1>3
<1>7. Sample!Lesser(Sample!Lesser(Len(u), Len(v)), Sample!OverlapBound(u, v, buckets)) \in Nat
      /\ o <= Sample!Lesser(Sample!Lesser(Len(u), Len(v)), Sample!OverlapBound(u, v, buckets))
  BY <1>1, <1>5, <1>6 DEF Sample!Lesser
<1> QED
  BY <1>7 DEF o

LEMMA SimilarGrows ==
  ASSUME NEW o \in Nat, NEW b \in Nat, o <= b, NEW total \in Nat, NEW threshold, threshold[1] \in Nat, threshold[2] \in Nat
  PROVE  /\ Sample!Similar(o, total, threshold) => Sample!Similar(b, total, threshold)
         /\ Sample!Similar(o, total, threshold) => total # 0 \/ o # 0
<1>1. \A x, y, t \in Nat : x <= y => 2 * x * t <= 2 * y * t /\ 2 * x * t \in Nat /\ 2 * y * t \in Nat
  BY SMT
<1>2. \A t, n \in Nat : t * n \in Nat /\ 2 * 0 * t = 0
  BY SMT
<1>3. PICK x \in Nat : x = 2 * o * threshold[2]
  BY <1>1
<1>4. PICK y \in Nat : y = 2 * b * threshold[2]
  BY <1>1
<1>5. PICK z \in Nat : z = threshold[1] * total
  BY <1>2
<1>6. x <= y
  BY <1>1, <1>3, <1>4
<1>7. o = 0 => x = 0
  BY <1>2, <1>3
<1>8. Sample!Similar(o, total, threshold) <=> x > z
  BY <1>3, <1>5 DEF Sample!Similar
<1>9. Sample!Similar(b, total, threshold) <=> y > z
  BY <1>4, <1>5 DEF Sample!Similar
<1> QED
  BY <1>6, <1>7, <1>8, <1>9

(* A forest over 1..n: r holds the root of everyone, d falls on the way up. *)
Forest(n, p, r, d) ==
  /\ p \in [1..n -> 1..n] /\ r \in [1..n -> 1..n] /\ d \in [1..n -> Nat]
  /\ \A i \in 1..n : /\ p[r[i]] = r[i] /\ r[p[i]] = r[i]
                     /\ p[i] = i => r[i] = i
                     /\ p[i] # i => d[p[i]] < d[i]

LEMMA RootsAreFound ==
  ASSUME NEW n \in Nat, NEW p, NEW r, NEW d, Forest(n, p, r, d)
  PROVE  \A i \in 1..n : Sample!RootOf(p, i) = r[i]
<1> DEFINE Up(f, j) == IF p[j] = j THEN j ELSE f[p[j]]
           up == CHOOSE f : f = [j \in DOMAIN p |-> Up(f, j)]
<1>1. DOMAIN p = 1..n /\ \A j \in 1..n : p[j] \in 1..n
  BY DEF Forest
<1>2. r = [j \in DOMAIN p |-> Up(r, j)]
  <2>1. \A j \in 1..n : r[j] = Up(r, j)
    BY DEF Forest
  <2>2. r = [j \in 1..n |-> r[j]]
    BY DEF Forest
  <2> HIDE DEF Up
  <2> QED
    BY <1>1, <2>1, <2>2
<1>3. up = [j \in DOMAIN p |-> Up(up, j)]
  <2> HIDE DEF Up
  <2> QED
    BY <1>2
<1>4. \A i : Sample!RootOf(p, i) = up[i]
  BY DEF Sample!RootOf
<1> HIDE DEF up
<1>5. \A j \in 1..n : up[j] = IF p[j] = j THEN j ELSE up[p[j]]
  BY <1>1, <1>3
<1>6. ASSUME NEW x \in 1..n, up[x] # r[x] PROVE FALSE
  <2> DEFINE Wrong == {d[j] : j \in {k \in 1..n : up[k] # r[k]}}
  <2>1. Wrong \in SUBSET Nat /\ Wrong # {}
    <3>1. \A j \in 1..n : d[j] \in Nat
      BY DEF Forest
    <3>2. d[x] \in Wrong
      BY <1>6
    <3> QED
      BY <3>1, <3>2
  <2>2. PICK l \in Wrong : \A w \in Wrong : l <= w
    <3> HIDE DEF Wrong
    <3> QED
      BY <2>1, LeastExists
  <2>3. PICK j \in 1..n : up[j] # r[j] /\ l = d[j]
    BY <2>2
  <2>4. p[j] # j
    BY <1>5, <2>3 DEF Forest
  <2>5. up[j] = up[p[j]] /\ r[j] = r[p[j]] /\ p[j] \in 1..n /\ d[p[j]] < d[j] /\ d[p[j]] \in Nat /\ d[j] \in Nat
    BY <1>1, <1>5, <2>4 DEF Forest
  <2>6. d[p[j]] \in Wrong
    BY <2>3, <2>5
  <2>7. d[j] <= d[p[j]]
    BY <2>2, <2>3, <2>6
  <2> QED
    BY <2>5, <2>7
<1> QED
  BY <1>4, <1>6

(* R relates the names that are near duplicates, both ways.                 *)
Symmetric(n, R) == R \subseteq (1..n) \X (1..n) /\ \A i, j \in 1..n : <<i, j>> \in R => <<j, i>> \in R

Closed(n, R, X) == X \subseteq 1..n /\ \A i \in X : \A j \in 1..n : <<i, j>> \in R => j \in X

(* Only what R connects has one root.                                       *)
Connected(n, R, r) == \A X \in SUBSET (1..n) : Closed(n, R, X) => \A i \in X : \A j \in 1..n : r[j] = r[i] => j \in X

(* The pairs in the order they are taken.                                   *)
RightOf(n, k) == ((k - 1) \div n) + 1
LeftOf(n, k) == ((k - 1) % n) + 1
Joined(n, R, r, m) ==
  \A k \in 1..m : LeftOf(n, k) < RightOf(n, k) /\ <<LeftOf(n, k), RightOf(n, k)>> \in R
                    => r[LeftOf(n, k)] = r[RightOf(n, k)]

(* Joining two trees whose roots differ, and what was one tree stays one.   *)
Union(p, r, left, right) == [p EXCEPT ![r[right]] = r[left]]
RootsAfter(n, r, left, right) == [j \in 1..n |-> IF r[j] = r[right] THEN r[left] ELSE r[j]]
Coarser(n, r, s) == \A i, j \in 1..n : r[i] = r[j] => s[i] = s[j]
HeightsAfter(n, r, d, left, right) == [j \in 1..n |-> IF r[j] = r[right] THEN d[j] + d[r[left]] + 1 ELSE d[j]]

LEMMA UnionIsForest ==
  ASSUME NEW n \in Nat, NEW p, NEW r, NEW d, Forest(n, p, r, d),
         NEW left \in 1..n, NEW right \in 1..n, r[left] # r[right]
  PROVE  Forest(n, Union(p, r, left, right), RootsAfter(n, r, left, right), HeightsAfter(n, r, d, left, right))
<1> DEFINE a == r[left]
           b == r[right]
           q == Union(p, r, left, right)
           s == RootsAfter(n, r, left, right)
           e == HeightsAfter(n, r, d, left, right)
<1>1. a \in 1..n /\ b \in 1..n /\ a # b /\ p[a] = a /\ p[b] = b /\ r[a] = a /\ r[b] = b
  BY DEF Forest
<1>2. \A j \in 1..n : q[j] = IF j = b THEN a ELSE p[j]
  BY DEF Union, Forest
<1>3. \A j \in 1..n : s[j] = IF r[j] = b THEN a ELSE r[j]
  BY DEF RootsAfter
<1>4. \A j \in 1..n : e[j] = IF r[j] = b THEN d[j] + d[a] + 1 ELSE d[j]
  BY DEF HeightsAfter
<1>5. \A j \in 1..n : p[j] \in 1..n /\ r[j] \in 1..n /\ d[j] \in Nat
  BY DEF Forest
<1>6. q \in [1..n -> 1..n] /\ s \in [1..n -> 1..n] /\ e \in [1..n -> Nat]
  <2>1. q \in [1..n -> 1..n]
    BY <1>1 DEF Union, Forest
  <2>2. s \in [1..n -> 1..n]
    BY <1>1, <1>5 DEF RootsAfter
  <2>3. e \in [1..n -> Nat]
    BY <1>1, <1>5 DEF HeightsAfter
  <2> QED
    BY <2>1, <2>2, <2>3
<1> HIDE DEF a, b, q, s, e
<1>7. ASSUME NEW i \in 1..n
      PROVE  q[s[i]] = s[i] /\ s[q[i]] = s[i] /\ (q[i] = i => s[i] = i) /\ (q[i] # i => e[q[i]] < e[i])
  <2>0. p[r[i]] = r[i] /\ r[p[i]] = r[i] /\ (p[i] = i => r[i] = i) /\ (p[i] # i => d[p[i]] < d[i])
    BY DEF Forest
  <2>1. q[s[i]] = s[i]
    BY <1>1, <1>2, <1>3, <1>5, <2>0
  <2>2. s[q[i]] = s[i]
    BY <1>1, <1>2, <1>3, <1>5, <2>0
  <2>3. q[i] = i => s[i] = i
    BY <1>1, <1>2, <1>3, <1>5, <2>0
  <2>4. q[i] # i => e[q[i]] < e[i]
    BY <1>1, <1>2, <1>4, <1>5, <2>0
  <2> QED
    BY <2>1, <2>2, <2>3, <2>4
<1>8. Forest(n, q, s, e)
  BY <1>6, <1>7 DEF Forest
<1> QED
  BY <1>8 DEF q, s, e

LEMMA UnionConnects ==
  ASSUME NEW n \in Nat, NEW R, Symmetric(n, R), NEW r \in [1..n -> 1..n], Connected(n, R, r),
         NEW left \in 1..n, NEW right \in 1..n, <<left, right>> \in R
  PROVE  /\ Connected(n, R, RootsAfter(n, r, left, right))
         /\ Coarser(n, r, RootsAfter(n, r, left, right))
         /\ RootsAfter(n, r, left, right)[left] = RootsAfter(n, r, left, right)[right]
<1> DEFINE s == RootsAfter(n, r, left, right)
<1>1. \A j \in 1..n : s[j] = IF r[j] = r[right] THEN r[left] ELSE r[j]
  BY DEF RootsAfter
<1> HIDE DEF s
<1>2. ASSUME NEW X \in SUBSET (1..n), Closed(n, R, X), NEW i \in X, NEW j \in 1..n, s[j] = s[i]
      PROVE  j \in X
  <2>1. \A x \in X : \A y \in 1..n : r[y] = r[x] => y \in X
    BY <1>2 DEF Connected
  <2>2. left \in X <=> right \in X
    BY <1>2 DEF Closed, Symmetric
  <2> QED
    BY <1>1, <1>2, <2>1, <2>2
<1>3. Connected(n, R, s)
  BY <1>2 DEF Connected
<1>4. Coarser(n, r, s)
  BY <1>1 DEF Coarser
<1>5. s[left] = s[right]
  BY <1>1
<1> QED
  BY <1>3, <1>4, <1>5 DEF s

(* The names that are near duplicates by their grams.                       *)
AllGrams(n, grams) == n \in Nat /\ grams \in [1..n -> Seq(Nat \X Nat)] /\ Len(grams) = n
IsThreshold(t) == t[1] \in Nat /\ t[2] \in Nat
Resembles(u, v, t) == Sample!Similar(Sample!Overlap(u, v), Len(u) + Len(v), t)
Near(n, grams, t) == {ij \in (1..n) \X (1..n) : Resembles(grams[ij[1]], grams[ij[2]], t)}

LEMMA NearIsSymmetric ==
  ASSUME NEW n, NEW grams, AllGrams(n, grams), NEW t
  PROVE  Symmetric(n, Near(n, grams, t))
<1>1. ASSUME NEW i \in 1..n, NEW j \in 1..n PROVE Resembles(grams[i], grams[j], t) <=> Resembles(grams[j], grams[i], t)
  <2>1. AreGrams(grams[i]) /\ AreGrams(grams[j])
    BY DEF AllGrams, AreGrams
  <2>2. Sample!Overlap(grams[i], grams[j]) = Sample!Overlap(grams[j], grams[i])
    BY <2>1, OverlapIsSymmetric
  <2>3. Len(grams[i]) + Len(grams[j]) = Len(grams[j]) + Len(grams[i])
    <3>1. Len(grams[i]) \in Nat /\ Len(grams[j]) \in Nat
      BY <2>1 DEF AreGrams
    <3>2. \A a, b \in Nat : a + b = b + a
      OBVIOUS
    <3> QED
      BY <3>1, <3>2
  <2> QED
    BY <2>2, <2>3, Zenon DEF Resembles
<1> QED
  BY <1>1 DEF Symmetric, Near

(* One pair of names: what the bound skips would not have been joined.      *)
AfterPair(p, r, R, left, right) ==
  IF r[left] = r[right] \/ <<left, right>> \notin R THEN p ELSE Union(p, r, left, right)

LEMMA PairIsJoined ==
  ASSUME NEW n, NEW grams, AllGrams(n, grams), NEW t, IsThreshold(t), NEW buckets,
         NEW p, NEW r, NEW d, Forest(n, p, r, d), NEW left \in 1..n, NEW right \in 1..n
  PROVE  Sample!JoinPair(p, grams, left, right, t, buckets) = AfterPair(p, r, Near(n, grams, t), left, right)
<1> DEFINE u == grams[left]
           v == grams[right]
           total == Len(u) + Len(v)
           o == Sample!Overlap(u, v)
           bound == Sample!Lesser(Sample!Lesser(Len(u), Len(v)), Sample!OverlapBound(u, v, buckets))
           skipped == \/ r[left] = r[right]
                      \/ total = 0 \/ ~Sample!Similar(bound, total, t) \/ ~Sample!Similar(o, total, t)
<1>1. AreGrams(u) /\ AreGrams(v) /\ Len(u) \in Nat /\ Len(v) \in Nat /\ total \in Nat
  BY DEF AllGrams, AreGrams
<1>2. Sample!RootOf(p, left) = r[left] /\ Sample!RootOf(p, right) = r[right]
  BY RootsAreFound DEF AllGrams
<1>3. Sample!JoinPair(p, grams, left, right, t, buckets) = IF skipped THEN p ELSE [p EXCEPT ![r[right]] = r[left]]
  <2>1. Sample!JoinPair(p, grams, left, right, t, buckets) =
          IF \/ Sample!RootOf(p, left) = Sample!RootOf(p, right)
             \/ total = 0 \/ ~Sample!Similar(bound, total, t) \/ ~Sample!Similar(o, total, t)
          THEN p ELSE [p EXCEPT ![Sample!RootOf(p, right)] = Sample!RootOf(p, left)]
    BY DEF Sample!JoinPair
  <2> HIDE DEF total, bound, o
  <2> QED
    BY <1>2, <2>1
<1>4. <<left, right>> \in Near(n, grams, t) <=> Sample!Similar(o, total, t)
  BY DEF Near, Resembles
<1>5. o \in Nat /\ bound \in Nat /\ o <= bound
  BY <1>1, OverlapIs, BoundIsSound
<1>6. Sample!Similar(o, total, t) => Sample!Similar(bound, total, t)
  <2> HIDE DEF o, bound, total
  <2> QED
    BY <1>1, <1>5, SimilarGrows DEF IsThreshold
<1>7. Sample!Similar(o, total, t) => total # 0
  <2>1. o <= total
    <3>1. o <= Len(u)
      <4>1. Cardinality(Shared(u, v)) \in Nat /\ o <= Cardinality(Shared(u, v))
        BY <1>1, OverlapIsShared
      <4>2. Cardinality(Shared(u, v)) <= Len(u)
        BY <1>1, SharedWithinMasks
      <4> HIDE DEF o, u
      <4> QED
        BY <1>1, <1>5, <4>1, <4>2
    <3>2. \A a, b, c \in Nat : c <= a => c <= a + b
      OBVIOUS
    <3> HIDE DEF o, bound, u, v
    <3> QED
      BY <1>1, <1>5, <3>1, <3>2
  <2> HIDE DEF o, total
  <2> QED
    BY <1>1, <1>5, <2>1, SimilarGrows DEF IsThreshold
<1>8. skipped <=> r[left] = r[right] \/ <<left, right>> \notin Near(n, grams, t)
  <2> HIDE DEF o, total, bound
  <2> QED
    BY <1>4, <1>6, <1>7
<1> HIDE DEF skipped
<1> QED
  BY <1>3, <1>8 DEF Union, AfterPair

(* What holds of the forest when the first m pairs have been taken.         *)
Progress(n, R, p, r, d, m) == Forest(n, p, r, d) /\ Connected(n, R, r) /\ Joined(n, R, r, m)

LEMMA PairsAreWithin ==
  ASSUME NEW n \in Nat, NEW k \in 1..n * n
  PROVE  LeftOf(n, k) \in 1..n /\ RightOf(n, k) \in 1..n /\ n # 0 /\ k \in Nat
<1>1. PICK sq \in Nat : sq = n * n
  BY SMT
<1>2. n # 0
  <2>1. n = 0 => n * n = 0
    BY SMT
  <2> QED
    BY <1>1, <2>1
<1>3. k \in Nat /\ k >= 1 /\ k <= sq
  BY <1>1
<1>4. PICK a \in Nat : a = k - 1
  BY <1>3
<1>5. a \div n \in Nat /\ a % n \in 0..n - 1 /\ a = n * (a \div n) + (a % n)
  BY <1>2, Divided
<1>6. a \div n < n
  <2>1. \A x, y \in Nat : x >= y => n * x >= n * y /\ n * x \in Nat /\ n * y \in Nat
    BY SMT
  <2>2. PICK q \in Nat : q = a \div n
    BY <1>5
  <2>3. PICK prod \in Nat : prod = n * q
    BY <2>1
  <2>4. q >= n => prod >= sq
    BY <1>1, <2>1, <2>3
  <2>5. prod <= a /\ a < sq
    BY <1>3, <1>4, <1>5, <2>2, <2>3
  <2> QED
    BY <2>2, <2>4, <2>5
<1>7. LeftOf(n, k) = (a % n) + 1 /\ RightOf(n, k) = (a \div n) + 1
  BY <1>4 DEF LeftOf, RightOf
<1> QED
  BY <1>2, <1>3, <1>5, <1>6, <1>7

LEMMA EveryPairIsTaken ==
  ASSUME NEW n \in Nat, NEW left \in 1..n, NEW right \in 1..n
  PROVE  \E k \in 1..n * n : LeftOf(n, k) = left /\ RightOf(n, k) = right
<1> DEFINE k == (right - 1) * n + left
<1>1. \A x, y \in Nat : x <= y => x * n <= y * n /\ x * n \in Nat /\ y * n \in Nat
  BY SMT
<1>2. PICK prod \in Nat : prod = (right - 1) * n
  <2>1. right - 1 \in Nat
    OBVIOUS
  <2> QED
    BY <1>1, <2>1
<1>3. PICK sq \in Nat : sq = n * n
  BY <1>1
<1>4. prod + n <= sq
  <2>1. \A x \in Nat : (x - 1) * n + n = x * n
    BY SMT
  <2>2. right \in Nat /\ right <= n
    OBVIOUS
  <2>3. (right - 1) * n + n = right * n /\ right * n <= n * n
    BY <1>1, <2>1, <2>2
  <2> QED
    BY <1>2, <1>3, <2>3
<1>5. k = prod + left /\ k - 1 = prod + (left - 1)
  BY <1>2
<1> HIDE DEF k
<1>6. k \in 1..sq
  BY <1>4, <1>5
<1>7. PICK a \in Nat : a = k - 1
  BY <1>6
<1>8. n # 0 /\ left - 1 \in 0..n - 1 /\ right - 1 \in Nat
  OBVIOUS
<1>9. a \div n \in Nat /\ a % n \in 0..n - 1 /\ a = n * (a \div n) + (a % n)
  BY <1>8, Divided
<1>10. a \div n = right - 1 /\ a % n = left - 1
  <2>1. PICK q \in Nat : q = a \div n
    BY <1>9
  <2>2. PICK s \in Nat : s = a % n /\ s < n
    BY <1>9
  <2>3. PICK c \in Nat : c = right - 1
    BY <1>8
  <2>4. PICK e \in Nat : e = left - 1 /\ e < n
    BY <1>8
  <2>5. \A x, y, f, g \in Nat : f < n /\ g < n /\ n * x + f = y * n + g => x = y /\ f = g
    <3> SUFFICES ASSUME NEW x \in Nat, NEW y \in Nat, NEW f \in Nat, NEW g \in Nat,
                        f < n, g < n, n * x + f = y * n + g
                 PROVE  x = y /\ f = g
      OBVIOUS
    <3>1. \A v, w \in Nat : v < w => v * n + n <= w * n
      BY SMT
    <3>2. PICK xn \in Nat : xn = x * n
      BY <1>1
    <3>3. PICK yn \in Nat : yn = y * n
      BY <1>1
    <3>4. n * x = x * n
      BY SMT
    <3>5. (x < y => xn + n <= yn) /\ (y < x => yn + n <= xn)
      BY <3>1, <3>2, <3>3
    <3>6. xn + f = yn + g
      BY <3>2, <3>3, <3>4
    <3>7. x = y
      BY <3>5, <3>6
    <3> QED
      BY <3>2, <3>3, <3>6, <3>7
  <2>6. n * q + s = c * n + e
    BY <1>2, <1>5, <1>7, <1>9, <2>1, <2>2, <2>3, <2>4
  <2> QED
    BY <2>1, <2>2, <2>3, <2>4, <2>5, <2>6
<1>11. LeftOf(n, k) = left /\ RightOf(n, k) = right
  BY <1>7, <1>10 DEF LeftOf, RightOf
<1> QED
  BY <1>3, <1>6, <1>11

Grouped(n, R, p, m) == \E r, d : Progress(n, R, p, r, d, m)

Apart(n) == [i \in 1..n |-> i]

LEMMA NoneGrouped ==
  ASSUME NEW n \in Nat, NEW R, Symmetric(n, R)
  PROVE  /\ Grouped(n, R, Apart(n), 0)
         /\ \E d : Forest(n, Apart(n), Apart(n), d)
<1> DEFINE d == [i \in 1..n |-> 0]
           r == Apart(n)
<1>1. r \in [1..n -> 1..n] /\ \A i \in 1..n : r[i] = i
  BY DEF Apart
<1>2. d \in [1..n -> Nat]
  OBVIOUS
<1> HIDE DEF d, r
<1>3. Forest(n, r, r, d)
  BY <1>1, <1>2 DEF Forest
<1>4. Connected(n, R, r)
  BY <1>1 DEF Connected
<1>5. Joined(n, R, r, 0)
  BY DEF Joined
<1>6. Progress(n, R, r, r, d, 0)
  BY <1>3, <1>4, <1>5 DEF Progress
<1> QED
  BY <1>3, <1>6 DEF Grouped, r

(* One pair leaves a forest whose trees are no smaller.                     *)
Joins(n, R, p, r, left, right, q, s, e) ==
  /\ Forest(n, q, s, e) /\ Connected(n, R, s) /\ Coarser(n, r, s)
  /\ <<left, right>> \in R => s[left] = s[right]

LEMMA OnePair ==
  ASSUME NEW n, NEW grams, AllGrams(n, grams), NEW t, IsThreshold(t), NEW buckets,
         NEW p, NEW r, NEW d, Forest(n, p, r, d), Connected(n, Near(n, grams, t), r),
         NEW left \in 1..n, NEW right \in 1..n
  PROVE  \E s, e : Joins(n, Near(n, grams, t), p, r, left, right,
                         Sample!JoinPair(p, grams, left, right, t, buckets), s, e)
<1> DEFINE R == Near(n, grams, t)
           q == Sample!JoinPair(p, grams, left, right, t, buckets)
<1>0. n \in Nat /\ r \in [1..n -> 1..n]
  BY DEF AllGrams, Forest
<1>1. Symmetric(n, R)
  BY NearIsSymmetric
<1>2. q = AfterPair(p, r, R, left, right)
  BY PairIsJoined
<1> HIDE DEF R, q
<1>3. CASE r[left] = r[right] \/ <<left, right>> \notin R
  <2>1. q = p
    BY <1>2, <1>3 DEF AfterPair
  <2>2. Joins(n, R, p, r, left, right, q, r, d)
    BY <1>3, <2>1 DEF Joins, Coarser, R
  <2> QED
    BY <2>2 DEF q, R
<1>4. CASE r[left] # r[right] /\ <<left, right>> \in R
  <2> DEFINE s == RootsAfter(n, r, left, right)
             e == HeightsAfter(n, r, d, left, right)
  <2>1. q = Union(p, r, left, right)
    BY <1>2, <1>4 DEF AfterPair
  <2>2. Forest(n, q, s, e)
    BY <1>0, <1>4, <2>1, UnionIsForest
  <2>3. Connected(n, R, s) /\ Coarser(n, r, s) /\ s[left] = s[right]
    BY <1>0, <1>1, <1>4, UnionConnects DEF R
  <2> HIDE DEF s, e
  <2>4. Joins(n, R, p, r, left, right, q, s, e)
    BY <2>2, <2>3 DEF Joins
  <2> QED
    BY <2>4 DEF q, R
<1> QED
  BY <1>3, <1>4

Take(n, grams, t, buckets, k, p) ==
  IF LeftOf(n, k) < RightOf(n, k)
  THEN Sample!JoinPair(p, grams, LeftOf(n, k), RightOf(n, k), t, buckets) ELSE p

LEMMA OneMorePair ==
  ASSUME NEW n, NEW grams, AllGrams(n, grams), NEW t, IsThreshold(t), NEW buckets,
         NEW k \in 1..n * n, NEW p
  PROVE  /\ Grouped(n, Near(n, grams, t), p, k - 1)
              => Grouped(n, Near(n, grams, t), Take(n, grams, t, buckets, k, p), k)
         /\ Grouped(n, Near(n, grams, t), p, 0)
              => Grouped(n, Near(n, grams, t), Take(n, grams, t, buckets, k, p), 0)
<1> DEFINE left == LeftOf(n, k)
           right == RightOf(n, k)
           R == Near(n, grams, t)
           q == Take(n, grams, t, buckets, k, p)
<1>0. n \in Nat
  BY DEF AllGrams
<1>1. left \in 1..n /\ right \in 1..n /\ k \in Nat
  BY <1>0, PairsAreWithin
<1>2. ASSUME NEW r, NEW d, Forest(n, p, r, d), Connected(n, R, r)
      PROVE  \E s, e : /\ Forest(n, q, s, e) /\ Connected(n, R, s) /\ Coarser(n, r, s)
                       /\ left < right /\ <<left, right>> \in R => s[left] = s[right]
  <2>1. CASE left < right
    <3>1. q = Sample!JoinPair(p, grams, left, right, t, buckets)
      BY <2>1 DEF Take
    <3> HIDE DEF left, right, q, R
    <3>2. \E s, e : Joins(n, R, p, r, left, right, q, s, e)
      BY <1>1, <1>2, <3>1, OnePair DEF R
    <3> QED
      BY <3>2 DEF Joins
  <2>2. CASE ~(left < right)
    <3>1. q = p
      BY <2>2 DEF Take
    <3>2. Coarser(n, r, r)
      BY DEF Coarser
    <3> HIDE DEF left, right, q, R
    <3> QED
      BY <1>2, <2>2, <3>1, <3>2
  <2> QED
    BY <2>1, <2>2
<1>3. ASSUME NEW m \in {0, k - 1}, Grouped(n, R, p, m)
      PROVE  Grouped(n, R, q, IF m = k - 1 THEN k ELSE 0)
  <2>1. PICK r, d : Forest(n, p, r, d) /\ Connected(n, R, r) /\ Joined(n, R, r, m)
    BY <1>3 DEF Grouped, Progress
  <2>2. PICK s, e : /\ Forest(n, q, s, e) /\ Connected(n, R, s) /\ Coarser(n, r, s)
                    /\ left < right /\ <<left, right>> \in R => s[left] = s[right]
    <3> HIDE DEF left, right, q, R
    <3> QED
      BY <1>2, <2>1
  <2>3. Joined(n, R, s, IF m = k - 1 THEN k ELSE 0)
    <3>1. ASSUME m = k - 1, NEW j \in 1..k, LeftOf(n, j) < RightOf(n, j), <<LeftOf(n, j), RightOf(n, j)>> \in R
          PROVE  s[LeftOf(n, j)] = s[RightOf(n, j)]
      <4>1. CASE j = k
        BY <2>2, <3>1, <4>1
      <4>2. CASE j \in 1..m
        <5>1. r[LeftOf(n, j)] = r[RightOf(n, j)]
          BY <2>1, <3>1, <4>2 DEF Joined
        <5>2. j \in 1..n * n
          <6>1. PICK sq \in Nat : sq = n * n
            BY <1>0, SMT
          <6> QED
            BY <1>1, <3>1, <6>1
        <5>3. LeftOf(n, j) \in 1..n /\ RightOf(n, j) \in 1..n
          BY <1>0, <5>2, PairsAreWithin
        <5> HIDE DEF left, right
        <5> QED
          BY <2>2, <5>1, <5>3 DEF Coarser
      <4> QED
        BY <1>1, <3>1, <4>1, <4>2
    <3>2. Joined(n, R, s, 0)
      BY DEF Joined
    <3>3. m = k - 1 => Joined(n, R, s, k)
      BY <3>1 DEF Joined
    <3> QED
      BY <3>2, <3>3
  <2> QED
    BY <2>2, <2>3 DEF Grouped, Progress
<1>4. Grouped(n, R, p, k - 1) => Grouped(n, R, q, k)
  <2> HIDE DEF R, q
  <2> QED
    BY <1>1, <1>3
<1>5. Grouped(n, R, p, 0) => Grouped(n, R, q, 0)
  <2>1. CASE k = 1
    <3>1. ASSUME Grouped(n, R, q, k) PROVE Grouped(n, R, q, 0)
      <4>1. PICK r, d : Forest(n, q, r, d) /\ Connected(n, R, r)
        BY <3>1 DEF Grouped, Progress
      <4>2. Joined(n, R, r, 0)
        BY DEF Joined
      <4> QED
        BY <4>1, <4>2 DEF Grouped, Progress
    <3>2. k - 1 = 0
      BY <2>1
    <3> HIDE DEF R, q
    <3> QED
      BY <1>4, <3>1, <3>2
  <2>2. CASE k # 1
    <3>1. (IF 0 = k - 1 THEN k ELSE 0) = 0
      BY <1>1, <2>2
    <3> HIDE DEF R, q
    <3> QED
      BY <1>3, <3>1
  <2> QED
    BY <2>1, <2>2
<1> QED
  BY <1>4, <1>5

LEMMA ParentsAreGrouped ==
  ASSUME NEW n, NEW grams, AllGrams(n, grams), NEW t, IsThreshold(t), NEW buckets
  PROVE  /\ t[1] < t[2] => Grouped(n, Near(n, grams, t), Sample!Parents(grams, t, buckets), n * n)
         /\ ~(t[1] < t[2]) => Sample!Parents(grams, t, buckets) = Apart(n)
<1> DEFINE R == Near(n, grams, t)
           Look(k, p) == Take(n, grams, t, buckets, k, p)
           Entry(f, k) == IF k = 0 THEN Apart(n) ELSE Look(k, f[k - 1])
           pair == CHOOSE f : f = [k \in 0..n * n |-> Entry(f, k)]
           State == {p \in [1..n -> 1..n] : Grouped(n, R, p, 0)}
<1>0. n \in Nat
  BY DEF AllGrams
<1>1. PICK sq \in Nat : sq = n * n
  BY <1>0, SMT
<1>2. Sample!Parents(grams, t, buckets) = IF t[1] < t[2] THEN pair[n * n] ELSE pair[0]
  BY DEF Sample!Parents, Apart, LeftOf, RightOf, AllGrams, Take
<1>3. \A p \in State : \A k \in 1..n * n : Look(k, p) \in State
  <2> TAKE p \in State
  <2> TAKE k \in 1..n * n
  <2>1. Grouped(n, R, Look(k, p), 0)
    BY OneMorePair
  <2>2. Look(k, p) \in [1..n -> 1..n]
    BY <2>1 DEF Grouped, Progress, Forest
  <2> QED
    BY <2>1, <2>2
<1>4. Apart(n) \in State
  <2>1. Grouped(n, R, Apart(n), 0)
    BY <1>0, NoneGrouped, NearIsSymmetric
  <2>2. Apart(n) \in [1..n -> 1..n]
    BY DEF Apart
  <2> QED
    BY <2>1, <2>2
<1>5. pair = [k \in 0..sq |-> Entry(pair, k)]
  <2> DEFINE step == [a \in (1..sq) \X State |-> Look(a[1], a[2])]
  <2> HIDE DEF State, Look
  <2>1. step \in [(1..sq) \X State -> State]
    BY <1>1, <1>3
  <2>2. \A i \in 1..sq : \A c \in State : step[<<i, c>>] = Look(i, c)
    OBVIOUS
  <2> HIDE DEF step
  <2>3. PICK f : Trace(f, sq, State, Apart(n), step)
    BY <1>4, <2>1, StepsExist DEF Stepping
  <2>4. \A i \in 0..sq : f[i] = Entry(f, i)
    <3>1. \A i \in 0..sq : i # 0 => i \in 1..sq /\ i - 1 \in 0..sq
      OBVIOUS
    <3> QED
      BY <2>2, <2>3, <3>1 DEF Trace
  <2>5. f = [i \in 0..sq |-> Entry(f, i)]
    <3> HIDE DEF Entry
    <3> QED
      BY <2>3, <2>4 DEF Trace
  <2> HIDE DEF Entry
  <2> QED
    BY <1>1, <2>5
<1> HIDE DEF pair
<1>6. pair[0] = Apart(n) /\ \A k \in 1..sq : pair[k] = Look(k, pair[k - 1])
  <2>1. \A k \in 0..sq : pair[k] = Entry(pair, k)
    <3> HIDE DEF Entry
    <3> QED
      BY <1>5
  <2>2. 0 \in 0..sq /\ \A k \in 1..sq : k \in 0..sq /\ k # 0
    OBVIOUS
  <2> HIDE DEF Look
  <2> QED
    BY <2>1, <2>2
<1> HIDE DEF Look
<1>7. Grouped(n, R, pair[sq], sq)
  <2> DEFINE T == {m \in Nat : m <= sq => Grouped(n, R, pair[m], m)}
  <2>1. 0 \in T
    BY <1>4, <1>6
  <2>2. ASSUME NEW m \in T PROVE m + 1 \in T
    <3>1. ASSUME m + 1 <= sq PROVE Grouped(n, R, pair[m + 1], m + 1)
      <4>1. m + 1 \in 1..sq /\ (m + 1) - 1 = m /\ m <= sq
        BY <3>1
      <4>2. Grouped(n, R, pair[m], m)
        BY <4>1
      <4>3. pair[m + 1] = Look(m + 1, pair[m])
        BY <1>6, <4>1
      <4>4. Grouped(n, R, pair[m], (m + 1) - 1) => Grouped(n, R, Look(m + 1, pair[m]), m + 1)
        <5>1. m + 1 \in 1..n * n
          BY <1>1, <4>1
        <5> QED
          BY <5>1, OneMorePair DEF Look
      <4> HIDE DEF R
      <4> QED
        BY <4>1, <4>2, <4>3, <4>4
    <3> QED
      BY <3>1
  <2>3. T = Nat
    <3>1. T \in SUBSET Nat
      OBVIOUS
    <3> HIDE DEF T
    <3> QED
      BY <2>1, <2>2, <3>1, Induction
  <2> HIDE DEF R
  <2> QED
    BY <2>3
<1>8. t[1] < t[2] => Sample!Parents(grams, t, buckets) = pair[sq]
  BY <1>1, <1>2
<1>9. ~(t[1] < t[2]) => Sample!Parents(grams, t, buckets) = Apart(n)
  BY <1>2, <1>6
<1> QED
  BY <1>1, <1>7, <1>8, <1>9

AreNames(keys) == keys \in Seq(Seq(Nat) \ {<<>>})

GramsOf(keys) == [i \in DOMAIN keys |-> Sample!Grams(keys[i])]

LEMMA NamesHaveGrams ==
  ASSUME NEW keys, AreNames(keys)
  PROVE  /\ AllGrams(Len(keys), GramsOf(keys)) /\ DOMAIN keys = 1..Len(keys)
         /\ \A i \in 1..Len(keys) : GramsOf(keys)[i] = Sample!Grams(keys[i])
         /\ \A i \in 1..Len(keys) : Len(GramsOf(keys)[i]) = Len(keys[i]) - 1 /\ Len(keys[i]) \in Nat
<1>1. Len(keys) \in Nat /\ DOMAIN keys = 1..Len(keys)
  BY DEF AreNames
<1>2. ASSUME NEW i \in 1..Len(keys)
      PROVE  /\ Sample!Grams(keys[i]) \in Seq(Nat \X Nat)
             /\ Len(Sample!Grams(keys[i])) = Len(keys[i]) - 1 /\ Len(keys[i]) \in Nat
  <2>1. keys[i] \in Seq(Nat) /\ keys[i] # <<>>
    BY <1>1 DEF AreNames
  <2>2. PICK m \in Nat : m = Len(keys[i]) - 1
    BY <2>1
  <2>3. Sample!Grams(keys[i]) = [j \in 1..m |-> <<keys[i][j], keys[i][j + 1]>>]
    BY <2>2 DEF Sample!Grams
  <2>4. \A j \in 1..m : keys[i][j] \in Nat /\ keys[i][j + 1] \in Nat
    BY <2>1, <2>2
  <2>5. Sample!Grams(keys[i]) \in [1..m -> Nat \X Nat]
    BY <2>3, <2>4
  <2>6. Sample!Grams(keys[i]) \in Seq(Nat \X Nat) /\ Len(Sample!Grams(keys[i])) = m
    BY <2>2, <2>5
  <2> QED
    BY <2>1, <2>2, <2>6
<1>3. GramsOf(keys) \in [1..Len(keys) -> Seq(Nat \X Nat)]
  BY <1>1, <1>2 DEF GramsOf
<1>4. Len(GramsOf(keys)) = Len(keys)
  BY <1>1, <1>3
<1>5. \A i \in 1..Len(keys) : GramsOf(keys)[i] = Sample!Grams(keys[i])
  BY <1>1 DEF GramsOf
<1> QED
  BY <1>1, <1>2, <1>3, <1>4, <1>5 DEF AllGrams

LEMMA DuplicatesAreNear ==
  ASSUME NEW keys, AreNames(keys), NEW t, t[1] < t[2], NEW i \in 1..Len(keys), NEW j \in 1..Len(keys)
  PROVE  Duplicates(keys[i], keys[j], t) <=> <<i, j>> \in Near(Len(keys), GramsOf(keys), t)
<1> DEFINE u == Sample!Grams(keys[i])
           v == Sample!Grams(keys[j])
<1>1. GramsOf(keys)[i] = u /\ GramsOf(keys)[j] = v
  BY NamesHaveGrams
<1>2. Len(u) = Len(keys[i]) - 1 /\ Len(keys[i]) \in Nat /\ Len(v) = Len(keys[j]) - 1 /\ Len(keys[j]) \in Nat
  BY <1>1, NamesHaveGrams
<1>3. <<i, j>> \in Near(Len(keys), GramsOf(keys), t) <=> Sample!Similar(Sample!Overlap(u, v), Len(u) + Len(v), t)
  BY <1>1 DEF Near, Resembles
<1>4. Duplicates(keys[i], keys[j], t)
        <=> Sample!Similar(Sample!Overlap(u, v), Len(keys[i]) + Len(keys[j]) - 2, t)
  BY DEF Duplicates
<1> HIDE DEF u, v
<1>5. Len(u) + Len(v) = Len(keys[i]) + Len(keys[j]) - 2
  BY <1>2
<1> QED
  BY <1>3, <1>4, <1>5

(* The trees of the forest, as sets of names.                               *)
TreeOf(keys, r, i) == {keys[j] : j \in {k \in 1..Len(keys) : r[k] = r[i]}}

LEMMA GroupsAreTrees ==
  ASSUME NEW keys, AreNames(keys), NEW t, NEW buckets, NEW r, NEW d,
         Forest(Len(keys), Sample!Parents(GramsOf(keys), t, buckets), r, d)
  PROVE  Sample!Groups(keys, t, buckets) = {TreeOf(keys, r, i) : i \in 1..Len(keys)}
<1> DEFINE p == Sample!Parents(GramsOf(keys), t, buckets)
           n == Len(keys)
<1>1. n \in Nat /\ DOMAIN keys = 1..n
  BY NamesHaveGrams DEF AllGrams
<1>2. Sample!Groups(keys, t, buckets) =
        {{keys[j] : j \in {k \in DOMAIN keys : Sample!RootOf(p, k) = Sample!RootOf(p, i)}} : i \in DOMAIN keys}
  BY DEF Sample!Groups, GramsOf
<1>3. \A i \in 1..n : Sample!RootOf(p, i) = r[i]
  BY <1>1, RootsAreFound
<1> HIDE DEF p
<1>4. \A i \in 1..n : {k \in DOMAIN keys : Sample!RootOf(p, k) = Sample!RootOf(p, i)} = {k \in 1..n : r[k] = r[i]}
  BY <1>1, <1>3
<1>5. \A i \in 1..n :
        {keys[j] : j \in {k \in DOMAIN keys : Sample!RootOf(p, k) = Sample!RootOf(p, i)}} = TreeOf(keys, r, i)
  BY <1>4 DEF TreeOf
<1> QED
  BY <1>1, <1>2, <1>5

(* Groups are the connected components of similarity, whatever the bound    *)
(* spares, for any names, threshold and number of buckets.                  *)
THEOREM GroupsAreExact ==
  ASSUME NEW keys, AreNames(keys), NEW threshold, IsThreshold(threshold), NEW buckets
  PROVE  GroupsAreConnected(keys, threshold, buckets)
<1> DEFINE n == Len(keys)
           grams == GramsOf(keys)
           R == Near(n, grams, threshold)
           p == Sample!Parents(grams, threshold, buckets)
<1>1. AllGrams(n, grams) /\ DOMAIN keys = 1..n /\ n \in Nat
  BY NamesHaveGrams DEF AllGrams
<1>2. /\ threshold[1] < threshold[2] => Grouped(n, R, p, n * n)
      /\ ~(threshold[1] < threshold[2]) => p = Apart(n)
  BY <1>1, ParentsAreGrouped
<1>3. CASE threshold[1] < threshold[2]
  <2>1. PICK r, d : Forest(n, p, r, d) /\ Connected(n, R, r) /\ Joined(n, R, r, n * n)
    BY <1>2, <1>3 DEF Grouped, Progress
  <2>2. Sample!Groups(keys, threshold, buckets) = {TreeOf(keys, r, i) : i \in 1..n}
    BY <2>1, GroupsAreTrees
  <2>3. Symmetric(n, R)
    BY <1>1, NearIsSymmetric
  <2>4. \A i, j \in 1..n : Duplicates(keys[i], keys[j], threshold) <=> <<i, j>> \in R
    BY <1>3, DuplicatesAreNear
  <2> HIDE DEF grams, R, p
  <2>5. \A i, j \in 1..n : <<i, j>> \in R => r[i] = r[j]
    <3>1. ASSUME NEW i \in 1..n, NEW j \in 1..n, i < j, <<i, j>> \in R PROVE r[i] = r[j]
      <4>1. PICK k \in 1..n * n : LeftOf(n, k) = i /\ RightOf(n, k) = j
        BY <1>1, EveryPairIsTaken
      <4> QED
        BY <2>1, <3>1, <4>1 DEF Joined
    <3>2. \A i, j \in 1..n : i < j \/ j < i \/ i = j
      BY <1>1
    <3> QED
      BY <2>3, <3>1, <3>2 DEF Symmetric
  <2>6. ASSUME NEW i \in 1..n, NEW a \in TreeOf(keys, r, i), NEW b \in Range(keys) \ TreeOf(keys, r, i)
        PROVE  ~Duplicates(a, b, threshold)
    <3>1. PICK x \in 1..n : a = keys[x] /\ r[x] = r[i]
      BY DEF TreeOf
    <3>2. PICK y \in 1..n : b = keys[y]
      BY <1>1 DEF Range
    <3>3. r[y] # r[i]
      BY <2>6, <3>2 DEF TreeOf
    <3> QED
      BY <2>4, <2>5, <3>1, <3>2, <3>3
  <2>7. ASSUME NEW i \in 1..n, NEW part \in SUBSET TreeOf(keys, r, i), part # {}, part # TreeOf(keys, r, i),
               \A a \in part : \A b \in TreeOf(keys, r, i) \ part : ~Duplicates(a, b, threshold)
        PROVE  FALSE
    <3> DEFINE X == {j \in 1..n : r[j] = r[i] /\ keys[j] \in part}
    <3>1. ASSUME NEW j \in X, NEW m \in 1..n, <<j, m>> \in R PROVE m \in X
      <4>1. r[m] = r[i] /\ Duplicates(keys[j], keys[m], threshold)
        BY <2>4, <2>5, <3>1
      <4>2. keys[m] \in TreeOf(keys, r, i)
        BY <4>1 DEF TreeOf
      <4> QED
        BY <2>7, <4>1, <4>2
    <3>2. Closed(n, R, X)
      BY <3>1 DEF Closed
    <3>3. PICK x \in X : TRUE
      BY <2>7 DEF TreeOf
    <3>4. \A j \in 1..n : r[j] = r[x] => j \in X
      <4>1. X \in SUBSET (1..n)
        OBVIOUS
      <4> HIDE DEF X
      <4> QED
        BY <2>1, <3>2, <3>3, <4>1 DEF Connected
    <3>5. \A j \in 1..n : r[j] = r[i] => keys[j] \in part
      BY <3>3, <3>4
    <3> QED
      BY <2>7, <3>5 DEF TreeOf
  <2> QED
    <3>1. ASSUME NEW g \in Sample!Groups(keys, threshold, buckets)
          PROVE  /\ \A a \in g : \A b \in Range(keys) \ g : ~Duplicates(a, b, threshold)
                 /\ \A part \in (SUBSET g) \ {{}, g} :
                      \E a \in part : \E b \in g \ part : Duplicates(a, b, threshold)
      <4>1. PICK i \in 1..n : g = TreeOf(keys, r, i)
        BY <2>2
      <4>2. \A a \in g : \A b \in Range(keys) \ g : ~Duplicates(a, b, threshold)
        BY <2>6, <4>1
      <4>3. ASSUME NEW part \in (SUBSET g) \ {{}, g}
            PROVE  \E a \in part : \E b \in g \ part : Duplicates(a, b, threshold)
        <5>1. part \in SUBSET TreeOf(keys, r, i) /\ part # {} /\ part # TreeOf(keys, r, i)
          BY <4>1, <4>3
        <5>2. ~\A a \in part : \A b \in TreeOf(keys, r, i) \ part : ~Duplicates(a, b, threshold)
          BY <2>7, <5>1
        <5> QED
          BY <4>1, <5>2
      <4> QED
        BY <4>2, <4>3
    <3> QED
      BY <3>1, Zenon DEF GroupsAreConnected
<1>4. CASE ~(threshold[1] < threshold[2])
  <2>1. PICK d : Forest(n, Apart(n), Apart(n), d)
    BY <1>1, NoneGrouped, NearIsSymmetric
  <2>2. Sample!Groups(keys, threshold, buckets) = {TreeOf(keys, Apart(n), i) : i \in 1..n}
    BY <1>2, <1>4, <2>1, GroupsAreTrees
  <2>3. \A i \in 1..n : TreeOf(keys, Apart(n), i) = {keys[i]}
    BY DEF TreeOf, Apart
  <2>4. \A a, b : ~Duplicates(a, b, threshold)
    BY <1>4 DEF Duplicates
  <2>5. ASSUME NEW g \in Sample!Groups(keys, threshold, buckets) PROVE (SUBSET g) \ {{}, g} = {}
    <3>1. PICK i \in 1..n : g = {keys[i]}
      BY <2>2, <2>3
    <3>2. ASSUME NEW s \in SUBSET {keys[i]}, s # {} PROVE s = {keys[i]}
      <4>1. keys[i] \in s
        BY <3>2
      <4> QED
        BY <4>1
    <3> QED
      BY <3>1, <3>2
  <2> QED
    BY <2>4, <2>5, Zenon DEF GroupsAreConnected
<1> QED
  BY <1>3, <1>4
=============================================================================
