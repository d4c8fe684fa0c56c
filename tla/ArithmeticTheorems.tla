-------------------------- MODULE ArithmeticTheorems --------------------------
(***************************************************************************)
(* What the proofs about the components need of arithmetic.                *)
(*                                                                         *)
(* First sums: what a sum over a finite set is, for every function and     *)
(* every set.  The sums of Functions are folds, and everything the         *)
(* bookkeeping of the models needs of them is proved here from the fold's  *)
(* definition.  The induction behind each fact is on the number of         *)
(* elements.  It is done with sets of numbers rather than with predicates: *)
(* a set of naturals that has 0 and with n also n + 1 has every natural.   *)
(*                                                                         *)
(* Then folds over finite sets in a given order, and over sequences: they  *)
(* run to their end and may be followed step by step.                      *)
(*                                                                         *)
(* Then the roots, shares and payouts of ShareMath, for every amount.      *)
(***************************************************************************)
EXTENDS ShareMath, Functions, FiniteSetTheorems, WellFoundedInduction, TLAPS

(* The element of s that the fold takes first.                             *)
First(s) == CHOOSE x \in s : TRUE

(* g is the recursive function that the fold over S defines.               *)
Recurrence(g, f, S) ==
  g = [s \in SUBSET S |-> IF s = {} THEN 0 ELSE f[First(s)] + g[s \ {First(s)}]]

----------------------------------------------------------------------------
(* Induction on the naturals, with sets.                                   *)
LEMMA SetInduction ==
  ASSUME NEW T, 0 \in T, \A n \in Nat : n \in T => n + 1 \in T
  PROVE  \A n \in Nat : n \in T
<1> DEFINE Less == {p \in Nat \X Nat : p[1] < p[2]}
           Missing == {n \in Nat : n \notin T}
<1>1. IsWellFoundedOn(Less, Nat)
  BY NatLessThanWellFounded, Zenon DEF OpToRel
<1>2. SUFFICES ASSUME Missing # {} PROVE FALSE
  OBVIOUS
<1>3. PICK least \in Missing : \A n \in Missing : ~ (<<n, least>> \in Less)
  <2>1. Missing \subseteq Nat
    OBVIOUS
  <2> HIDE DEF Less, Missing
  <2> QED BY <1>1, <1>2, <2>1, WFMin
<1>4. least \in Nat \ {0} /\ least \notin T
  BY <1>3
<1>5. least - 1 \in Nat /\ least - 1 \notin T
  BY <1>4
<1>6. <<least - 1, least>> \in Less
  BY <1>4, <1>5
<1> QED BY <1>3, <1>5, <1>6

LEMMA FirstIn ==
  ASSUME NEW s, s # {}
  PROVE  First(s) \in s
  BY DEF First

(* What remains of n + 1 elements when the first is taken.                  *)
LEMMA OneLess ==
  ASSUME NEW s, IsFiniteSet(s), NEW n \in Nat, Cardinality(s) = n + 1
  PROVE  /\ s # {} /\ First(s) \in s
         /\ s \ {First(s)} \subseteq s
         /\ IsFiniteSet(s \ {First(s)})
         /\ Cardinality(s \ {First(s)}) = n
<1>1. s # {}
  BY FS_EmptySet
<1>2. First(s) \in s
  BY <1>1, FirstIn
<1> DEFINE c == First(s)
<1>3. c \in s
  BY <1>2
<1> HIDE DEF c
<1>4. IsFiniteSet(s \ {c}) /\ Cardinality(s \ {c}) = Cardinality(s) - 1
  BY <1>3, FS_RemoveElement
<1>5. Cardinality(s \ {c}) = n
  BY <1>4
<1> QED BY <1>1, <1>3, <1>4, <1>5 DEF c

----------------------------------------------------------------------------
(* The fold's recursive function exists and does not depend on the set it  *)
(* is taken over                                                           *)

(* The recursion defined on the subsets of at most n elements.             *)
Bounded(S, n) == {s \in SUBSET S : Cardinality(s) <= n}
BoundedRecurrence(g, f, S, n) ==
  g = [s \in Bounded(S, n) |-> IF s = {} THEN 0 ELSE f[First(s)] + g[s \ {First(s)}]]

LEMMA RecurrenceExists ==
  ASSUME NEW f, NEW S, IsFiniteSet(S)
  PROVE  \E g : Recurrence(g, f, S)
<1> DEFINE T == {n \in Nat : \E g : BoundedRecurrence(g, f, S, n)}
<1>1. \A s \in SUBSET S : /\ IsFiniteSet(s) /\ Cardinality(s) \in Nat
                          /\ Cardinality(s) <= Cardinality(S)
                          /\ Cardinality(s) = 0 <=> s = {}
  BY FS_Subset, FS_CardinalityType, FS_EmptySet
<1>2. 0 \in T
  <2>1. \A s \in Bounded(S, 0) : s = {}
    BY <1>1 DEF Bounded
  <2>2. BoundedRecurrence([s \in Bounded(S, 0) |-> 0], f, S, 0)
    BY <2>1 DEF BoundedRecurrence
  <2> QED BY <2>2
<1>3. ASSUME NEW n \in Nat, n \in T PROVE n + 1 \in T
  <2>1. PICK g : BoundedRecurrence(g, f, S, n)
    BY <1>3
  <2> DEFINE h == [s \in Bounded(S, n + 1) |->
                     IF s = {} THEN 0 ELSE f[First(s)] + g[s \ {First(s)}]]
  <2>2. ASSUME NEW s \in Bounded(S, n + 1), s # {}
        PROVE  h[s \ {First(s)}] = g[s \ {First(s)}]
    <3> DEFINE u == s \ {First(s)}
    <3>1. First(s) \in s /\ s \in SUBSET S /\ Cardinality(s) <= n + 1
      BY <2>2, FirstIn DEF Bounded
    <3>2. Cardinality(u) = Cardinality(s) - 1 /\ u \in SUBSET S
      BY <1>1, <3>1, FS_RemoveElement
    <3>3. Cardinality(s) \in Nat
      BY <1>1, <3>1
    <3>4. u \in Bounded(S, n) /\ u \in Bounded(S, n + 1)
      BY <3>1, <3>2, <3>3 DEF Bounded
    <3>5. g[u] = IF u = {} THEN 0 ELSE f[First(u)] + g[u \ {First(u)}]
      <4> HIDE DEF u
      <4> QED BY <2>1, <3>4 DEF BoundedRecurrence
    <3>6. h[u] = IF u = {} THEN 0 ELSE f[First(u)] + g[u \ {First(u)}]
      <4> HIDE DEF u
      <4> QED BY <3>4
    <3> QED BY <3>5, <3>6
  <2>3. h = [s \in Bounded(S, n + 1) |->
               IF s = {} THEN 0 ELSE f[First(s)] + h[s \ {First(s)}]]
    BY <2>2
  <2>4. BoundedRecurrence(h, f, S, n + 1)
    <3> HIDE DEF h
    <3> QED BY <2>3 DEF BoundedRecurrence
  <2> QED BY <2>4
<1>4. Cardinality(S) \in T
  <2> HIDE DEF T
  <2> QED BY <1>2, <1>3, SetInduction, FS_CardinalityType
<1>5. PICK g : BoundedRecurrence(g, f, S, Cardinality(S))
  BY <1>4
<1>6. Bounded(S, Cardinality(S)) = SUBSET S
  BY <1>1 DEF Bounded
<1> QED BY <1>5, <1>6 DEF BoundedRecurrence, Recurrence

(* Two such functions agree wherever both are defined.                     *)
LEMMA RecurrenceAgrees ==
  ASSUME NEW f, NEW S, NEW g1, NEW g2, NEW S1, NEW S2,
         IsFiniteSet(S), S \subseteq S1, S \subseteq S2,
         Recurrence(g1, f, S1), Recurrence(g2, f, S2)
  PROVE  g1[S] = g2[S]
<1> DEFINE T == {n \in Nat : \A s \in SUBSET S : Cardinality(s) = n => g1[s] = g2[s]}
<1>1. \A s \in SUBSET S : /\ IsFiniteSet(s) /\ Cardinality(s) \in Nat
                          /\ Cardinality(s) = 0 <=> s = {}
  BY FS_Subset, FS_CardinalityType, FS_EmptySet
<1>2. \A s \in SUBSET S :
        /\ g1[s] = IF s = {} THEN 0 ELSE f[First(s)] + g1[s \ {First(s)}]
        /\ g2[s] = IF s = {} THEN 0 ELSE f[First(s)] + g2[s \ {First(s)}]
  BY DEF Recurrence
<1>3. 0 \in T
  BY <1>1, <1>2
<1>4. ASSUME NEW n \in Nat, n \in T PROVE n + 1 \in T
  <2> SUFFICES ASSUME NEW s \in SUBSET S, Cardinality(s) = n + 1 PROVE g1[s] = g2[s]
    OBVIOUS
  <2>1. s # {} /\ IsFiniteSet(s) /\ First(s) \in s
    BY <1>1, OneLess
  <2> DEFINE u == s \ {First(s)}
  <2>3. u \in SUBSET S /\ Cardinality(u) = n
    BY <2>1, OneLess
  <2>4. g1[u] = g2[u]
    BY <1>4, <2>3
  <2> QED BY <1>2, <2>1, <2>4
<1>5. Cardinality(S) \in T
  <2> HIDE DEF T
  <2> QED BY <1>3, <1>4, SetInduction, FS_CardinalityType
<1> QED BY <1>5

LEMMA SumDefinition ==
  ASSUME NEW f, NEW S, IsFiniteSet(S)
  PROVE  \E g : Recurrence(g, f, S) /\ SumFunctionOnSet(f, S) = g[S]
<1>1. SumFunctionOnSet(f, S) = (CHOOSE g : Recurrence(g, f, S))[S]
  BY DEF SumFunctionOnSet, FoldFunctionOnSet, MapThenFoldSet, Recurrence, First
<1>2. Recurrence(CHOOSE g : Recurrence(g, f, S), f, S)
  <2>1. \E g : Recurrence(g, f, S)
    BY RecurrenceExists
  <2> QED BY <2>1, Zenon
<1> QED BY <1>1, <1>2

----------------------------------------------------------------------------
(* The facts of SumFunctionOnSet                                           *)

LEMMA SumOnEmpty ==
  ASSUME NEW f
  PROVE  SumFunctionOnSet(f, {}) = 0
<1>1. IsFiniteSet({})
  BY FS_EmptySet
<1>2. PICK g : Recurrence(g, f, {}) /\ SumFunctionOnSet(f, {}) = g[{}]
  BY <1>1, SumDefinition
<1> QED BY <1>2 DEF Recurrence

LEMMA SumOnFirst ==
  ASSUME NEW f, NEW S, IsFiniteSet(S), S # {}
  PROVE  SumFunctionOnSet(f, S) = f[First(S)] + SumFunctionOnSet(f, S \ {First(S)})
<1> DEFINE U == S \ {First(S)}
<1>1. IsFiniteSet(U)
  BY FS_RemoveElement
<1>2. PICK g1 : Recurrence(g1, f, S) /\ SumFunctionOnSet(f, S) = g1[S]
  BY SumDefinition
<1>3. PICK g2 : Recurrence(g2, f, U) /\ SumFunctionOnSet(f, U) = g2[U]
  <2> HIDE DEF U
  <2> QED BY <1>1, SumDefinition
<1>4. g1[U] = g2[U]
  <2>1. U \subseteq S /\ U \subseteq U
    OBVIOUS
  <2> HIDE DEF U
  <2> QED BY <1>1, <1>2, <1>3, <2>1, RecurrenceAgrees
<1>5. g1[S] = f[First(S)] + g1[U]
  BY <1>2 DEF Recurrence
<1> QED BY <1>2, <1>3, <1>4, <1>5

LEMMA SumOnAgrees ==
  ASSUME NEW f, NEW h, NEW S, IsFiniteSet(S), \A x \in S : f[x] = h[x]
  PROVE  SumFunctionOnSet(f, S) = SumFunctionOnSet(h, S)
<1> DEFINE Good(s) == SumFunctionOnSet(f, s) = SumFunctionOnSet(h, s)
           T == {n \in Nat : \A s \in SUBSET S : Cardinality(s) = n => Good(s)}
<1>1. \A s \in SUBSET S : /\ IsFiniteSet(s) /\ Cardinality(s) \in Nat
                          /\ Cardinality(s) = 0 <=> s = {}
  BY FS_Subset, FS_CardinalityType, FS_EmptySet
<1>2. 0 \in T
  BY <1>1, SumOnEmpty
<1>3. ASSUME NEW n \in Nat, n \in T PROVE n + 1 \in T
  <2> SUFFICES ASSUME NEW s \in SUBSET S, Cardinality(s) = n + 1 PROVE Good(s)
    OBVIOUS
  <2>1. s # {} /\ IsFiniteSet(s) /\ First(s) \in s
    BY <1>1, OneLess
  <2> DEFINE u == s \ {First(s)}
  <2>3. u \in SUBSET S /\ Cardinality(u) = n
    BY <2>1, OneLess
  <2>4. Good(u)
    BY <1>3, <2>3
  <2>5. /\ SumFunctionOnSet(f, s) = f[First(s)] + SumFunctionOnSet(f, u)
        /\ SumFunctionOnSet(h, s) = h[First(s)] + SumFunctionOnSet(h, u)
    BY <2>1, SumOnFirst
  <2> HIDE DEF u
  <2> QED BY <2>1, <2>4, <2>5
<1>4. Cardinality(S) \in T
  <2> HIDE DEF T
  <2> QED BY <1>2, <1>3, SetInduction, FS_CardinalityType
<1> QED BY <1>4

(* A sum of integers is one, and of naturals too.                          *)
LEMMA SumOnType ==
  ASSUME NEW f, NEW S, IsFiniteSet(S), \A x \in S : f[x] \in Int
  PROVE  /\ SumFunctionOnSet(f, S) \in Int
         /\ (\A x \in S : f[x] \in Nat) => SumFunctionOnSet(f, S) \in Nat
<1> DEFINE Good(s) == /\ SumFunctionOnSet(f, s) \in Int
                      /\ (\A x \in S : f[x] \in Nat) => SumFunctionOnSet(f, s) \in Nat
           T == {n \in Nat : \A s \in SUBSET S : Cardinality(s) = n => Good(s)}
<1>1. \A s \in SUBSET S : /\ IsFiniteSet(s) /\ Cardinality(s) \in Nat
                          /\ Cardinality(s) = 0 <=> s = {}
  BY FS_Subset, FS_CardinalityType, FS_EmptySet
<1>2. 0 \in T
  BY <1>1, SumOnEmpty
<1>3. ASSUME NEW n \in Nat, n \in T PROVE n + 1 \in T
  <2> SUFFICES ASSUME NEW s \in SUBSET S, Cardinality(s) = n + 1 PROVE Good(s)
    OBVIOUS
  <2>1. s # {} /\ IsFiniteSet(s) /\ First(s) \in s
    BY <1>1, OneLess
  <2> DEFINE u == s \ {First(s)}
  <2>3. u \in SUBSET S /\ Cardinality(u) = n
    BY <2>1, OneLess
  <2>4. Good(u)
    BY <1>3, <2>3
  <2>5. SumFunctionOnSet(f, s) = f[First(s)] + SumFunctionOnSet(f, u)
    BY <2>1, SumOnFirst
  <2> HIDE DEF u
  <2> QED BY <2>1, <2>4, <2>5
<1>4. Cardinality(S) \in T
  <2> HIDE DEF T
  <2> QED BY <1>2, <1>3, SetInduction, FS_CardinalityType
<1> QED BY <1>4

(* Any element may be taken out, not only the one the fold takes.          *)
LEMMA SumOnRemove ==
  ASSUME NEW f, NEW S, IsFiniteSet(S), \A x \in S : f[x] \in Int, NEW x \in S
  PROVE  SumFunctionOnSet(f, S) = f[x] + SumFunctionOnSet(f, S \ {x})
<1> DEFINE Good(s) == \A y \in s : SumFunctionOnSet(f, s) = f[y] + SumFunctionOnSet(f, s \ {y})
           T == {n \in Nat : \A s \in SUBSET S : Cardinality(s) = n => Good(s)}
<1>1. \A s \in SUBSET S : /\ IsFiniteSet(s) /\ Cardinality(s) \in Nat
                          /\ Cardinality(s) = 0 <=> s = {}
                          /\ SumFunctionOnSet(f, s) \in Int
  BY FS_Subset, FS_CardinalityType, FS_EmptySet, SumOnType
<1>2. 0 \in T
  BY <1>1
<1>3. ASSUME NEW n \in Nat, n \in T PROVE n + 1 \in T
  <2> SUFFICES ASSUME NEW s \in SUBSET S, Cardinality(s) = n + 1, NEW y \in s
               PROVE  SumFunctionOnSet(f, s) = f[y] + SumFunctionOnSet(f, s \ {y})
    OBVIOUS
  <2> DEFINE c == First(s)
  <2>1. s # {} /\ c \in s /\ IsFiniteSet(s) /\ c \in S /\ y \in S
    BY <1>1, FirstIn
  <2> HIDE DEF c
  <2>2. SumFunctionOnSet(f, s) = f[c] + SumFunctionOnSet(f, s \ {c})
    BY <2>1, SumOnFirst DEF c
  <2>3. CASE y = c
    BY <2>2, <2>3
  <2>4. CASE y # c
    <3>1. /\ s \ {c} \in SUBSET S /\ Cardinality(s \ {c}) = n
          /\ s \ {y} \in SUBSET S /\ Cardinality(s \ {y}) = n
      <4>1. IsFiniteSet(s) /\ c \in s /\ y \in s
        BY <2>1
      <4>2. Cardinality(s \ {c}) = Cardinality(s) - 1 /\ Cardinality(s \ {y}) = Cardinality(s) - 1
        BY <4>1, FS_RemoveElement
      <4> QED BY <4>2
    <3>2. /\ SumFunctionOnSet(f, s \ {c}) = f[y] + SumFunctionOnSet(f, (s \ {c}) \ {y})
          /\ SumFunctionOnSet(f, s \ {y}) = f[c] + SumFunctionOnSet(f, (s \ {y}) \ {c})
      BY <1>3, <2>1, <2>4, <3>1
    <3>3. (s \ {c}) \ {y} = (s \ {y}) \ {c} /\ (s \ {c}) \ {y} \in SUBSET S
      OBVIOUS
    <3>4. /\ SumFunctionOnSet(f, (s \ {c}) \ {y}) \in Int /\ f[c] \in Int /\ f[y] \in Int
      BY <1>1, <2>1, <3>3
    <3> DEFINE total == SumFunctionOnSet(f, s)
               noC == SumFunctionOnSet(f, s \ {c})
               noY == SumFunctionOnSet(f, s \ {y})
               rest == SumFunctionOnSet(f, (s \ {c}) \ {y})
    <3>5. /\ total = f[c] + noC /\ noC = f[y] + rest /\ noY = f[c] + rest
          /\ rest \in Int /\ f[c] \in Int /\ f[y] \in Int
      BY <2>2, <3>2, <3>3, <3>4, Zenon
    <3> HIDE DEF total, noC, noY, rest
    <3>6. total = f[y] + noY
      BY <3>5
    <3> QED BY <3>6 DEF total, noY
  <2> QED BY <2>3, <2>4
<1>4. Cardinality(S) \in T
  <2> HIDE DEF T
  <2> QED BY <1>2, <1>3, SetInduction, FS_CardinalityType
<1> QED BY <1>4

(* Equal summands.                                                         *)
LEMMA SumOnSame ==
  ASSUME NEW f, NEW S, IsFiniteSet(S), NEW v \in Int, \A x \in S : f[x] = v
  PROVE  SumFunctionOnSet(f, S) = Cardinality(S) * v
<1> DEFINE T == {n \in Nat : \A s \in SUBSET S : Cardinality(s) = n => SumFunctionOnSet(f, s) = n * v}
<1>1. \A s \in SUBSET S : /\ IsFiniteSet(s) /\ Cardinality(s) \in Nat
                          /\ Cardinality(s) = 0 <=> s = {}
  BY FS_Subset, FS_CardinalityType, FS_EmptySet
<1>2. 0 \in T
  BY <1>1, SumOnEmpty
<1>3. ASSUME NEW n \in Nat, n \in T PROVE n + 1 \in T
  <2> SUFFICES ASSUME NEW s \in SUBSET S, Cardinality(s) = n + 1
               PROVE  SumFunctionOnSet(f, s) = (n + 1) * v
    OBVIOUS
  <2>1. s # {} /\ IsFiniteSet(s) /\ First(s) \in s
    BY <1>1, OneLess
  <2> DEFINE u == s \ {First(s)}
  <2>2. u \in SUBSET S /\ Cardinality(u) = n
    BY <2>1, OneLess
  <2>3. SumFunctionOnSet(f, u) = n * v
    BY <1>3, <2>2
  <2>4. SumFunctionOnSet(f, s) = f[First(s)] + SumFunctionOnSet(f, u)
    BY <2>1, SumOnFirst
  <2>5. n * v \in Int /\ (n + 1) * v = v + n * v
    OBVIOUS
  <2> HIDE DEF u
  <2> QED BY <2>1, <2>3, <2>4, <2>5
<1>4. Cardinality(S) \in T
  <2> HIDE DEF T
  <2> QED BY <1>2, <1>3, SetInduction, FS_CardinalityType
<1> QED BY <1>4

LEMMA SumOnZero ==
  ASSUME NEW f, NEW S, IsFiniteSet(S), \A x \in S : f[x] = 0
  PROVE  SumFunctionOnSet(f, S) = 0
<1>1. SumFunctionOnSet(f, S) = Cardinality(S) * 0
  BY SumOnSame
<1>2. \A n \in Nat : n * 0 = 0
  OBVIOUS
<1> QED BY <1>1, <1>2, FS_CardinalityType

(* Sums add pointwise.                                                     *)
LEMMA SumOnPlus ==
  ASSUME NEW f, NEW g, NEW h, NEW S, IsFiniteSet(S),
         \A x \in S : f[x] \in Int /\ g[x] \in Int /\ h[x] = f[x] + g[x]
  PROVE  SumFunctionOnSet(h, S) = SumFunctionOnSet(f, S) + SumFunctionOnSet(g, S)
<1> DEFINE Good(s) == SumFunctionOnSet(h, s) = SumFunctionOnSet(f, s) + SumFunctionOnSet(g, s)
           T == {n \in Nat : \A s \in SUBSET S : Cardinality(s) = n => Good(s)}
<1>1. \A s \in SUBSET S : /\ IsFiniteSet(s) /\ Cardinality(s) \in Nat
                          /\ Cardinality(s) = 0 <=> s = {}
  BY FS_Subset, FS_CardinalityType, FS_EmptySet
<1>5. ASSUME NEW s \in SUBSET S
      PROVE  SumFunctionOnSet(f, s) \in Int /\ SumFunctionOnSet(g, s) \in Int
  <2>1. IsFiniteSet(s)
    BY <1>1
  <2>2. (\A x \in s : f[x] \in Int) /\ (\A x \in s : g[x] \in Int)
    OBVIOUS
  <2>3. SumFunctionOnSet(f, s) \in Int
    BY <2>1, <2>2, SumOnType
  <2>4. SumFunctionOnSet(g, s) \in Int
    BY <2>1, <2>2, SumOnType
  <2> QED BY <2>3, <2>4
<1>2. 0 \in T
  <2>1. /\ SumFunctionOnSet(f, {}) = 0 /\ SumFunctionOnSet(g, {}) = 0
        /\ SumFunctionOnSet(h, {}) = 0
    BY SumOnEmpty
  <2>2. Good({})
    BY <2>1
  <2> QED BY <1>1, <2>2
<1>3. ASSUME NEW n \in Nat, n \in T PROVE n + 1 \in T
  <2> SUFFICES ASSUME NEW s \in SUBSET S, Cardinality(s) = n + 1 PROVE Good(s)
    OBVIOUS
  <2>1. s # {} /\ IsFiniteSet(s) /\ First(s) \in s
    BY <1>1, OneLess
  <2> DEFINE u == s \ {First(s)}
  <2>2. u \in SUBSET S /\ Cardinality(u) = n
    BY <2>1, OneLess
  <2>3. /\ Good(u) /\ SumFunctionOnSet(f, u) \in Int /\ SumFunctionOnSet(g, u) \in Int
    BY <1>3, <1>5, <2>2
  <2>4. /\ SumFunctionOnSet(f, s) = f[First(s)] + SumFunctionOnSet(f, u)
        /\ SumFunctionOnSet(g, s) = g[First(s)] + SumFunctionOnSet(g, u)
        /\ SumFunctionOnSet(h, s) = h[First(s)] + SumFunctionOnSet(h, u)
    BY <2>1, SumOnFirst
  <2>5. /\ f[First(s)] \in Int /\ g[First(s)] \in Int
        /\ h[First(s)] = f[First(s)] + g[First(s)]
    BY <2>1
  <2> HIDE DEF u
  <2> QED BY <2>3, <2>4, <2>5
<1>4. Cardinality(S) \in T
  <2> HIDE DEF T
  <2> QED BY <1>2, <1>3, SetInduction, FS_CardinalityType
<1> QED BY <1>4

----------------------------------------------------------------------------
(* Sums of all the values of a function                                    *)

LEMMA SumType ==
  ASSUME NEW S, IsFiniteSet(S), NEW f \in [S -> Int]
  PROVE  /\ SumFunction(f) \in Int
         /\ f \in [S -> Nat] => SumFunction(f) \in Nat
<1>1. DOMAIN f = S /\ \A x \in S : f[x] \in Int
  OBVIOUS
<1>2. SumFunction(f) = SumFunctionOnSet(f, S)
  BY <1>1 DEF SumFunction
<1>3. f \in [S -> Nat] => \A x \in S : f[x] \in Nat
  OBVIOUS
<1> QED BY <1>1, <1>2, <1>3, SumOnType

LEMMA SumEmpty ==
  ASSUME NEW f, DOMAIN f = {}
  PROVE  SumFunction(f) = 0
  BY SumOnEmpty DEF SumFunction

LEMMA SumSame ==
  ASSUME NEW S, IsFiniteSet(S), NEW v \in Int, NEW f \in [S -> {v}]
  PROVE  SumFunction(f) = Cardinality(S) * v
<1>1. DOMAIN f = S /\ \A x \in S : f[x] = v
  OBVIOUS
<1> QED BY <1>1, SumOnSame DEF SumFunction

LEMMA SumZero ==
  ASSUME NEW S, IsFiniteSet(S), NEW f \in [S -> {0}]
  PROVE  SumFunction(f) = 0
<1>1. DOMAIN f = S /\ \A x \in S : f[x] = 0
  OBVIOUS
<1> QED BY <1>1, SumOnZero DEF SumFunction

LEMMA SumPlus ==
  ASSUME NEW S, IsFiniteSet(S), NEW f \in [S -> Int], NEW g \in [S -> Int],
         NEW h \in [S -> Int], \A x \in S : h[x] = f[x] + g[x]
  PROVE  SumFunction(h) = SumFunction(f) + SumFunction(g)
<1>1. DOMAIN f = S /\ DOMAIN g = S /\ DOMAIN h = S
  OBVIOUS
<1>2. \A x \in S : f[x] \in Int /\ g[x] \in Int /\ h[x] = f[x] + g[x]
  OBVIOUS
<1> QED BY <1>1, <1>2, SumOnPlus DEF SumFunction

(* One more element.                                                       *)
LEMMA SumAdd ==
  ASSUME NEW S, IsFiniteSet(S), NEW x, x \notin S, NEW f \in [S -> Int],
         NEW h \in [S \cup {x} -> Int], \A y \in S : h[y] = f[y]
  PROVE  SumFunction(h) = SumFunction(f) + h[x]
<1> DEFINE U == S \cup {x}
<1>1. DOMAIN f = S /\ DOMAIN h = U /\ x \in U /\ U \ {x} = S /\ \A y \in U : h[y] \in Int
  OBVIOUS
<1>2. IsFiniteSet(U)
  BY FS_AddElement
<1>3. SumFunctionOnSet(h, U) = h[x] + SumFunctionOnSet(h, U \ {x})
  <2> HIDE DEF U
  <2> QED BY <1>1, <1>2, SumOnRemove
<1>4. SumFunctionOnSet(h, S) = SumFunctionOnSet(f, S)
  BY SumOnAgrees
<1>5. SumFunctionOnSet(f, S) \in Int
  BY <1>1, SumOnType
<1>6. SumFunction(f) = SumFunctionOnSet(f, S) /\ SumFunction(h) = SumFunctionOnSet(h, U)
  BY <1>1 DEF SumFunction
<1> DEFINE rest == SumFunctionOnSet(h, U \ {x})
<1>7. rest = SumFunction(f) /\ SumFunction(f) \in Int
  BY <1>1, <1>4, <1>5, <1>6
<1>8. SumFunction(h) = h[x] + rest /\ h[x] \in Int
  BY <1>1, <1>3, <1>6
<1> HIDE DEF rest, U
<1> QED BY <1>7, <1>8

(* One element less.                                                       *)
LEMMA SumRemove ==
  ASSUME NEW S, IsFiniteSet(S), NEW x \in S, NEW f \in [S -> Int],
         NEW h \in [S \ {x} -> Int], \A y \in S \ {x} : h[y] = f[y]
  PROVE  SumFunction(h) = SumFunction(f) - f[x]
<1> DEFINE U == S \ {x}
<1>1. DOMAIN f = S /\ DOMAIN h = U /\ \A y \in S : f[y] \in Int
  OBVIOUS
<1>2. IsFiniteSet(U)
  BY FS_RemoveElement
<1>3. SumFunctionOnSet(f, S) = f[x] + SumFunctionOnSet(f, U)
  BY <1>1, SumOnRemove
<1>4. SumFunctionOnSet(h, U) = SumFunctionOnSet(f, U)
  <2>1. \A y \in U : h[y] = f[y]
    OBVIOUS
  <2> HIDE DEF U
  <2> QED BY <1>2, <2>1, SumOnAgrees
<1>5. SumFunctionOnSet(f, U) \in Int
  <2>1. \A y \in U : f[y] \in Int
    OBVIOUS
  <2> HIDE DEF U
  <2> QED BY <1>2, <2>1, SumOnType
<1> QED BY <1>1, <1>3, <1>4, <1>5 DEF SumFunction

(* One value replaced.                                                     *)
LEMMA SumUpdate ==
  ASSUME NEW S, IsFiniteSet(S), NEW x \in S, NEW v \in Int, NEW f \in [S -> Int],
         NEW h \in [S -> Int], h[x] = v, \A y \in S \ {x} : h[y] = f[y]
  PROVE  SumFunction(h) = SumFunction(f) - f[x] + v
<1> DEFINE U == S \ {x}
<1>1. /\ DOMAIN f = S /\ DOMAIN h = S /\ \A y \in S : f[y] \in Int /\ h[y] \in Int
  OBVIOUS
<1>2. IsFiniteSet(U)
  BY FS_RemoveElement
<1>3. /\ SumFunctionOnSet(f, S) = f[x] + SumFunctionOnSet(f, U)
      /\ SumFunctionOnSet(h, S) = h[x] + SumFunctionOnSet(h, U)
  BY <1>1, SumOnRemove
<1>4. SumFunctionOnSet(h, U) = SumFunctionOnSet(f, U)
  <2>1. \A y \in U : h[y] = f[y]
    OBVIOUS
  <2> HIDE DEF U
  <2> QED BY <1>2, <2>1, SumOnAgrees
<1>5. SumFunctionOnSet(f, U) \in Int
  <2>1. \A y \in U : f[y] \in Int
    OBVIOUS
  <2> HIDE DEF U
  <2> QED BY <1>2, <2>1, SumOnType
<1> QED BY <1>1, <1>3, <1>4, <1>5 DEF SumFunction

(* No part exceeds the whole.                                              *)
LEMMA SumBound ==
  ASSUME NEW S, IsFiniteSet(S), NEW x \in S, NEW f \in [S -> Nat]
  PROVE  f[x] <= SumFunction(f)
<1> DEFINE U == S \ {x}
<1>1. DOMAIN f = S /\ \A y \in S : f[y] \in Int /\ f[y] \in Nat
  OBVIOUS
<1>2. IsFiniteSet(U)
  BY FS_RemoveElement
<1>3. SumFunctionOnSet(f, S) = f[x] + SumFunctionOnSet(f, U)
  BY <1>1, SumOnRemove
<1>4. SumFunctionOnSet(f, U) \in Nat
  <2>1. \A y \in U : f[y] \in Int /\ f[y] \in Nat
    OBVIOUS
  <2> HIDE DEF U
  <2> QED BY <1>2, <2>1, SumOnType
<1> QED BY <1>1, <1>3, <1>4 DEF SumFunction

(* A part of natural numbers adds up to at most the whole.                 *)
LEMMA SumSubset ==
  ASSUME NEW U, IsFiniteSet(U), NEW S \in SUBSET U, NEW f \in [U -> Nat],
         NEW h \in [S -> Int], \A x \in S : h[x] = f[x]
  PROVE  SumFunction(h) <= SumFunction(f)
<1> DEFINE Good(s) == SumFunctionOnSet(f, s \cap S) <= SumFunctionOnSet(f, s)
           T == {n \in Nat : \A s \in SUBSET U : Cardinality(s) = n => Good(s)}
<1>1. \A s \in SUBSET U : /\ IsFiniteSet(s) /\ Cardinality(s) \in Nat
                          /\ Cardinality(s) = 0 <=> s = {}
  BY FS_Subset, FS_CardinalityType, FS_EmptySet
<1>2. \A x \in U : f[x] \in Nat /\ f[x] \in Int
  OBVIOUS
<1>3. \A s \in SUBSET U : SumFunctionOnSet(f, s) \in Int
  <2> SUFFICES ASSUME NEW s \in SUBSET U PROVE SumFunctionOnSet(f, s) \in Int
    OBVIOUS
  <2>1. \A x \in s : f[x] \in Int
    BY <1>2
  <2> QED BY <1>1, <2>1, SumOnType
<1>4. 0 \in T
  <2>1. ASSUME NEW s \in SUBSET U, s = {} PROVE Good(s)
    <3>1. s \cap S = {} /\ SumFunctionOnSet(f, {}) = 0
      BY <2>1, SumOnEmpty
    <3> QED BY <2>1, <3>1
  <2> HIDE DEF Good
  <2> QED BY <1>1, <2>1
<1>5. ASSUME NEW n \in Nat, n \in T PROVE n + 1 \in T
  <2> SUFFICES ASSUME NEW s \in SUBSET U, Cardinality(s) = n + 1 PROVE Good(s)
    OBVIOUS
  <2> DEFINE x == First(s)
             rest == s \ {x}
             part == s \cap S
  <2>1. s # {} /\ x \in s /\ IsFiniteSet(rest) /\ Cardinality(rest) = n /\ rest \in SUBSET U
    BY <1>1, OneLess
  <2> HIDE DEF x
  <2>2. SumFunctionOnSet(f, rest \cap S) <= SumFunctionOnSet(f, rest)
    BY <1>5, <2>1
  <2>3. SumFunctionOnSet(f, s) = f[x] + SumFunctionOnSet(f, rest)
    <3>1. \A y \in s : f[y] \in Int
      BY <1>2
    <3> QED BY <1>1, <2>1, <3>1, SumOnRemove
  <2>4. part \in SUBSET U /\ rest \cap S \in SUBSET U /\ f[x] \in Nat
    BY <1>2, <2>1
  <2>5. CASE x \in S
    <3>1. x \in part /\ part \ {x} = rest \cap S /\ IsFiniteSet(part)
      BY <1>1, <2>1, <2>4, <2>5
    <3>2. \A y \in part : f[y] \in Int
      BY <1>2
    <3> HIDE DEF part, rest
    <3>3. SumFunctionOnSet(f, part) = f[x] + SumFunctionOnSet(f, part \ {x})
      BY <3>1, <3>2, SumOnRemove
    <3>4. SumFunctionOnSet(f, part) = f[x] + SumFunctionOnSet(f, rest \cap S)
      BY <3>1, <3>3
    <3>5. SumFunctionOnSet(f, part) <= SumFunctionOnSet(f, s)
      BY <1>3, <2>1, <2>2, <2>3, <2>4, <3>4
    <3> QED BY <3>5 DEF part
  <2>6. CASE x \notin S
    <3>1. part = rest \cap S
      BY <2>6
    <3> HIDE DEF part, rest
    <3>2. SumFunctionOnSet(f, part) <= SumFunctionOnSet(f, s)
      BY <1>3, <2>1, <2>2, <2>3, <2>4, <3>1
    <3> QED BY <3>2 DEF part
  <2> QED BY <2>5, <2>6
<1>6. \A n \in Nat : n \in T
  <2> HIDE DEF T
  <2> QED BY <1>4, <1>5, SetInduction
<1>7. SumFunctionOnSet(f, S) <= SumFunctionOnSet(f, U)
  <2>1. Good(U)
    <3> HIDE DEF Good
    <3> QED BY <1>1, <1>6
  <2>2. U \cap S = S
    OBVIOUS
  <2> QED BY <2>1, <2>2
<1>8. SumFunctionOnSet(h, S) = SumFunctionOnSet(f, S)
  <2>1. IsFiniteSet(S)
    BY <1>1
  <2> QED BY <2>1, SumOnAgrees
<1> QED BY <1>7, <1>8 DEF SumFunction

----------------------------------------------------------------------------
(* Finite sets of numbers, and folds over finite sets and sequences.       *)

\* A finite nonempty set of integers has a greatest and a least member.
LEMMA FiniteExtremes ==
  ASSUME NEW S, IsFiniteSet(S), S # {}, S \subseteq Int
  PROVE  /\ \E m \in S : \A x \in S : x <= m
         /\ \E m \in S : \A x \in S : m <= x
<1> DEFINE Good(s) == /\ \E m \in s : \A x \in s : x <= m
                      /\ \E m \in s : \A x \in s : m <= x
           T == {n \in Nat : \A s \in SUBSET S : Cardinality(s) = n + 1 => Good(s)}
<1>1. \A s \in SUBSET S : /\ IsFiniteSet(s) /\ Cardinality(s) \in Nat
                          /\ Cardinality(s) = 0 <=> s = {}
  BY FS_Subset, FS_CardinalityType, FS_EmptySet
<1>2. 0 \in T
  <2> SUFFICES ASSUME NEW s \in SUBSET S, Cardinality(s) = 0 + 1 PROVE Good(s)
    OBVIOUS
  <2>1. PICK x : s = {x}
    <3>1. IsFiniteSet(s) /\ Cardinality(s) = 1
      BY <1>1
    <3> QED BY <3>1, FS_Singleton
  <2>2. x \in Int
    BY <2>1
  <2> QED BY <2>1, <2>2
<1>3. ASSUME NEW n \in Nat, n \in T PROVE n + 1 \in T
  <2> SUFFICES ASSUME NEW s \in SUBSET S, Cardinality(s) = n + 1 + 1 PROVE Good(s)
    OBVIOUS
  <2> DEFINE u == s \ {First(s)}
  <2>1. First(s) \in s /\ u \in SUBSET S /\ Cardinality(u) = n + 1 /\ First(s) \in Int
    <3>1. IsFiniteSet(s) /\ n + 1 \in Nat
      BY <1>1
    <3>2. First(s) \in s /\ Cardinality(u) = n + 1
      BY <3>1, OneLess
    <3> QED BY <3>2
  <2>2. Good(u) /\ s = u \cup {First(s)}
    BY <1>3, <2>1
  <2> HIDE DEF u
  <2>3. PICK m \in u : \A x \in u : x <= m
    BY <2>2
  <2>4. PICK l \in u : \A x \in u : l <= x
    BY <2>2
  <2>5. m \in Int /\ l \in Int /\ u \subseteq Int /\ m \in s /\ l \in s
    BY <2>1, <2>2
  <2>6. \E z \in s : \A x \in s : x <= z
    <3>1. CASE First(s) <= m
      BY <2>1, <2>2, <2>3, <2>5, <3>1
    <3>2. CASE ~(First(s) <= m)
      BY <2>1, <2>2, <2>3, <2>5, <3>2
    <3> QED BY <3>1, <3>2
  <2>7. \E z \in s : \A x \in s : z <= x
    <3>1. CASE l <= First(s)
      BY <2>1, <2>2, <2>4, <2>5, <3>1
    <3>2. CASE ~(l <= First(s))
      BY <2>1, <2>2, <2>4, <2>5, <3>2
    <3> QED BY <3>1, <3>2
  <2> QED BY <2>6, <2>7
<1>4. PICK n \in Nat : Cardinality(S) = n + 1
  <2>1. Cardinality(S) \in Nat /\ Cardinality(S) # 0
    BY <1>1
  <2>2. Cardinality(S) - 1 \in Nat /\ Cardinality(S) = (Cardinality(S) - 1) + 1
    BY <2>1
  <2> QED BY <2>2
<1>5. n \in T
  <2> HIDE DEF T
  <2> QED BY <1>2, <1>3, SetInduction
<1> QED BY <1>4, <1>5

\* The image of a finite set is finite.
LEMMA ImageFinite ==
  ASSUME NEW S, IsFiniteSet(S), NEW f
  PROVE  IsFiniteSet({f[x] : x \in S})
<1> DEFINE T == {f[x] : x \in S}
           h == [x \in S |-> f[x]]
<1>1. h \in Surjection(S, T)
  BY DEF Surjection
<1> HIDE DEF T, h
<1>2. IsFiniteSet(T)
  BY <1>1, FS_Surjection
<1> QED BY <1>2 DEF T

\* A fold over a set that takes its elements in a given order.
Folds(g, S, base, F, ch) ==
  \A s \in SUBSET S : g[s] = IF s = {} THEN base ELSE F[<<ch[s], g[s \ {ch[s]}]>>]

\* A fold over a finite set that takes the members out by ch runs to its end.
LEMMA FoldExists ==
  ASSUME NEW S, IsFiniteSet(S), NEW D, NEW base \in D, NEW F \in [S \X D -> D],
         NEW ch, \A s \in SUBSET S : s # {} => ch[s] \in s
  PROVE  \E g \in [SUBSET S -> D] : Folds(g, S, base, F, ch)
<1> DEFINE Runs(g, n) == /\ g \in [Bounded(S, n) -> D]
                         /\ \A s \in Bounded(S, n) :
                              g[s] = IF s = {} THEN base ELSE F[<<ch[s], g[s \ {ch[s]}]>>]
           T == {n \in Nat : \E g : Runs(g, n)}
<1>1. \A s \in SUBSET S : /\ IsFiniteSet(s) /\ Cardinality(s) \in Nat
                          /\ Cardinality(s) <= Cardinality(S)
                          /\ Cardinality(s) = 0 <=> s = {}
  BY FS_Subset, FS_CardinalityType, FS_EmptySet
<1>2. 0 \in T
  <2>1. \A s \in Bounded(S, 0) : s = {}
    BY <1>1 DEF Bounded
  <2>2. Runs([s \in Bounded(S, 0) |-> base], 0)
    BY <2>1
  <2> QED BY <2>2
<1>3. ASSUME NEW n \in Nat, n \in T PROVE n + 1 \in T
  <2>1. PICK g : Runs(g, n)
    BY <1>3
  <2> DEFINE h == [s \in Bounded(S, n + 1) |->
                     IF s = {} THEN base ELSE F[<<ch[s], g[s \ {ch[s]}]>>]]
  <2>2. ASSUME NEW s \in Bounded(S, n + 1), s # {}
        PROVE  /\ h[s \ {ch[s]}] = g[s \ {ch[s]}] /\ g[s \ {ch[s]}] \in D
               /\ ch[s] \in S
    <3> DEFINE u == s \ {ch[s]}
    <3>1. ch[s] \in s /\ s \in SUBSET S /\ Cardinality(s) <= n + 1
      BY <2>2 DEF Bounded
    <3>2. Cardinality(u) = Cardinality(s) - 1 /\ u \in SUBSET S
      BY <1>1, <3>1, FS_RemoveElement
    <3>3. Cardinality(s) \in Nat
      BY <1>1, <3>1
    <3>4. u \in Bounded(S, n) /\ u \in Bounded(S, n + 1)
      BY <3>1, <3>2, <3>3 DEF Bounded
    <3> HIDE DEF u
    <3>5. g[u] = (IF u = {} THEN base ELSE F[<<ch[u], g[u \ {ch[u]}]>>]) /\ g[u] \in D
      BY <2>1, <3>4
    <3>6. h[u] = IF u = {} THEN base ELSE F[<<ch[u], g[u \ {ch[u]}]>>]
      BY <3>4
    <3>7. h[u] = g[u] /\ g[u] \in D /\ ch[s] \in S
      BY <3>1, <3>5, <3>6
    <3> QED BY <3>7 DEF u
  <2>3. \A s \in Bounded(S, n + 1) :
          h[s] = IF s = {} THEN base ELSE F[<<ch[s], h[s \ {ch[s]}]>>]
    BY <2>2
  <2>4. h \in [Bounded(S, n + 1) -> D]
    BY <2>2
  <2>5. Runs(h, n + 1)
    <3> HIDE DEF h
    <3>1. h \in [Bounded(S, n + 1) -> D]
      BY <2>4
    <3>2. \A s \in Bounded(S, n + 1) :
            h[s] = IF s = {} THEN base ELSE F[<<ch[s], h[s \ {ch[s]}]>>]
      BY <2>3
    <3> QED BY <3>1, <3>2, Zenon
  <2> HIDE DEF h, Runs
  <2> QED BY <2>5
<1>4. Cardinality(S) \in T
  <2> HIDE DEF T
  <2> QED BY <1>2, <1>3, SetInduction, FS_CardinalityType
<1>5. PICK g : Runs(g, Cardinality(S))
  BY <1>4
<1>6. Bounded(S, Cardinality(S)) = SUBSET S
  BY <1>1 DEF Bounded
<1> QED BY <1>5, <1>6 DEF Folds

\* The index a fold over a sequence takes first.
Greatest(s) == CHOOSE x \in s : \A y \in s : x >= y

LEMMA GreatestIs ==
  ASSUME NEW n \in Nat, NEW s \in SUBSET (1 .. n), s # {}
  PROVE  /\ Greatest(s) \in s
         /\ n > 0 => Greatest(1 .. n) = n
<1>1. IsFiniteSet(s) /\ s \subseteq Int
  <2>1. IsFiniteSet(1 .. n)
    BY FS_Interval
  <2>2. IsFiniteSet(s)
    BY <2>1, FS_Subset
  <2> QED BY <2>2
<1>2. PICK m \in s : \A x \in s : x <= m
  BY <1>1, FiniteExtremes
<1>3. \A x \in s : m >= x
  BY <1>1, <1>2
<1>4. Greatest(s) \in s
  BY <1>3 DEF Greatest
<1>5. ASSUME n > 0 PROVE Greatest(1 .. n) = n
  <2>1. n \in 1 .. n /\ \A y \in 1 .. n : n >= y
    BY <1>5
  <2>2. ASSUME NEW x \in 1 .. n, \A y \in 1 .. n : x >= y PROVE x = n
    <3>1. x >= n /\ x <= n /\ x \in Int
      BY <2>1, <2>2
    <3> QED BY <3>1
  <2> QED BY <2>1, <2>2 DEF Greatest
<1> QED BY <1>4, <1>5

\* What holds of index 0 and passes from each index to the next.
LEMMA IndexInduction ==
  ASSUME NEW n \in Nat, NEW T, 0 \in T, \A k \in 1 .. n : k - 1 \in T => k \in T
  PROVE  \A k \in 0 .. n : k \in T
<1> DEFINE U == {k \in Nat : k <= n => k \in T}
<1>1. 0 \in U
  OBVIOUS
<1>2. ASSUME NEW k \in Nat, k \in U PROVE k + 1 \in U
  <2> SUFFICES ASSUME k + 1 <= n PROVE k + 1 \in T
    OBVIOUS
  <2>1. k + 1 \in 1 .. n /\ (k + 1) - 1 = k /\ k <= n
    OBVIOUS
  <2> QED BY <1>2, <2>1
<1>3. \A k \in Nat : k \in U
  <2> HIDE DEF U
  <2> QED BY <1>1, <1>2, SetInduction
<1> QED BY <1>3

\* The function a fold over a sequence of n elements stands for.
FoldsLeft(g, n, D, base, F) ==
  /\ g \in [SUBSET (1 .. n) -> D]
  /\ \A s \in SUBSET (1 .. n) :
       /\ s = {} => g[s] = base
       /\ s # {} => /\ Greatest(s) \in 1 .. n /\ g[s \ {Greatest(s)}] \in D
                    /\ g[s] = F[<<Greatest(s), g[s \ {Greatest(s)}]>>]

LEMMA LeftFold ==
  ASSUME NEW n \in Nat, NEW D, NEW base \in D, NEW F \in [(1 .. n) \X D -> D]
  PROVE  \E g : FoldsLeft(g, n, D, base, F)
<1> DEFINE ch == [s \in SUBSET (1 .. n) |-> Greatest(s)]
<1>1. \A s \in SUBSET (1 .. n) : s # {} => ch[s] \in s
  BY GreatestIs
<1>2. PICK g \in [SUBSET (1 .. n) -> D] : Folds(g, 1 .. n, base, F, ch)
  <2> HIDE DEF ch
  <2>1. IsFiniteSet(1 .. n)
    BY FS_Interval
  <2> QED BY <1>1, <2>1, FoldExists
<1>3. ASSUME NEW s \in SUBSET (1 .. n)
      PROVE  /\ s = {} => g[s] = base
             /\ s # {} => /\ Greatest(s) \in 1 .. n /\ g[s \ {Greatest(s)}] \in D
                          /\ g[s] = F[<<Greatest(s), g[s \ {Greatest(s)}]>>]
  <2>1. ch[s] = Greatest(s) /\ (s # {} => Greatest(s) \in s)
    BY <1>1
  <2> HIDE DEF ch
  <2>2. g[s] = IF s = {} THEN base ELSE F[<<ch[s], g[s \ {ch[s]}]>>]
    BY <1>2 DEF Folds
  <2>3. s \ {Greatest(s)} \in SUBSET (1 .. n)
    OBVIOUS
  <2> QED BY <2>1, <2>2, <2>3
<1>4. FoldsLeft(g, n, D, base, F)
  BY <1>2, <1>3 DEF FoldsLeft
<1> QED BY <1>4

\* What is left of the first k indices when the fold has taken one.
LEMMA PrefixStep ==
  ASSUME NEW n \in Nat, NEW k \in 1 .. n
  PROVE  /\ 1 .. k \in SUBSET (1 .. n) /\ 1 .. k # {} /\ Greatest(1 .. k) = k
         /\ (1 .. k) \ {k} = 1 .. k - 1 /\ k - 1 \in 0 .. n
<1>1. k \in Nat /\ k > 0 /\ 1 .. k \in SUBSET (1 .. k) /\ 1 .. k # {}
  OBVIOUS
<1>2. Greatest(1 .. k) = k
  BY <1>1, GreatestIs
<1> QED BY <1>2

----------------------------------------------------------------------------
(* Roots                                                                   *)


(* The order of the naturals as a set of pairs, spelled out for the provers. *)
LEMMA LessWellFounded ==
  IsWellFoundedOn({p \in Nat \X Nat : p[1] < p[2]}, Nat)
  BY NatLessThanWellFounded, Zenon DEF OpToRel

(* Every natural number has a root rounded down: the least m whose         *)
(* successor's square exceeds n.                                           *)
LEMMA RootExists ==
  ASSUME NEW n \in Nat
  PROVE  \E r \in 0 .. n : r * r <= n /\ n < (r + 1) * (r + 1)
<1> DEFINE Less == {p \in Nat \X Nat : p[1] < p[2]}
<1> DEFINE T == {m \in Nat : n < (m + 1) * (m + 1)}
<1>1. n \in T
  <2>1. n < (n + 1) * (n + 1)
    <3>1. (n + 1) * (n + 1) = n * n + 2 * n + 1
      OBVIOUS
    <3>2. n * n \in Nat
      OBVIOUS
    <3> QED BY <3>1, <3>2
  <2> QED BY <2>1
<1>2. PICK r \in T : \A m \in T : ~ (<<m, r>> \in Less)
  <2>1. T \subseteq Nat /\ T # {}
    BY <1>1
  <2> QED BY <2>1, LessWellFounded, WFMin
<1>3. ASSUME NEW m \in T PROVE r <= m
  <2>1. m \in Nat /\ r \in Nat
    OBVIOUS
  <2>2. m < r => <<m, r>> \in Less
    BY <2>1
  <2> QED BY <1>2, <2>1, <2>2
<1>4. r <= n
  BY <1>1, <1>3
<1>5. r * r <= n
  <2>1. CASE r = 0
    BY <2>1
  <2>2. CASE r # 0
    <3>1. r - 1 \in Nat /\ r - 1 \notin T
      BY <1>3, <2>2
    <3> QED BY <3>1
  <2> QED BY <2>1, <2>2
<1> QED BY <1>4, <1>5

(* ISqrt returns that root.                                                *)
LEMMA ISqrtSpec ==
  ASSUME NEW n \in Nat
  PROVE  /\ ISqrt(n) \in Nat
         /\ ISqrt(n) * ISqrt(n) <= n
         /\ n < (ISqrt(n) + 1) * (ISqrt(n) + 1)
<1>1. \E r \in 0 .. n : r * r <= n /\ n < (r + 1) * (r + 1)
  BY RootExists
<1>2. /\ ISqrt(n) \in 0 .. n
      /\ ISqrt(n) * ISqrt(n) <= n
      /\ n < (ISqrt(n) + 1) * (ISqrt(n) + 1)
  BY <1>1 DEF ISqrt
<1> QED BY <1>2

----------------------------------------------------------------------------
(* Products, quotients and squares                                         *)

LEMMA ProductMonotone ==
  ASSUME NEW a \in Nat, NEW b \in Nat, NEW c \in Nat, a <= b
  PROVE  a * c <= b * c
<1>1. b * c - a * c = (b - a) * c
  OBVIOUS
<1>2. (b - a) * c >= 0
  OBVIOUS
<1> QED BY <1>1, <1>2

LEMMA ProductCancel ==
  ASSUME NEW a \in Nat, NEW b \in Nat, NEW c \in Nat \ {0}, a * c <= b * c
  PROVE  a <= b
<1>1. SUFFICES ASSUME b + 1 <= a PROVE FALSE
  OBVIOUS
<1>2. (b + 1) * c <= a * c
  BY <1>1, ProductMonotone
<1>3. (b + 1) * c = b * c + c
  OBVIOUS
<1> QED BY <1>2, <1>3

LEMMA SquareMonotone ==
  ASSUME NEW a \in Nat, NEW b \in Nat, a <= b
  PROVE  a * a <= b * b
<1>1. a * a <= b * a /\ a * b <= b * b
  BY ProductMonotone
<1> QED BY <1>1

LEMMA DivSpec ==
  ASSUME NEW n \in Nat, NEW d \in Nat \ {0}
  PROVE  /\ n \div d \in Nat
         /\ (n \div d) * d <= n
         /\ n < (n \div d + 1) * d
  OBVIOUS

----------------------------------------------------------------------------
(* Liquidity                                                               *)

(* A payout is the pool's reserve in proportion, rounded down.             *)
LEMMA PayoutBound ==
  ASSUME NEW supply \in Nat \ {0}, NEW liquidity \in 0 .. supply, NEW r \in Nat
  PROVE  LET payout == PayoutFor(liquidity, supply, r)
         IN  /\ payout \in 0 .. r
             /\ payout * supply <= liquidity * r
             /\ liquidity = supply => payout = r
             /\ liquidity < supply /\ r > 0 => payout < r
<1> DEFINE payout == PayoutFor(liquidity, supply, r)
<1>1. payout = (liquidity * r) \div supply
  BY DEF PayoutFor
<1>2. liquidity * r \in Nat /\ liquidity * r <= supply * r
  BY ProductMonotone
<1>3. /\ payout \in Nat
      /\ payout * supply <= liquidity * r
      /\ liquidity * r < (payout + 1) * supply
  <2> HIDE DEF payout
  <2> QED BY <1>1, <1>2, DivSpec
<1> HIDE DEF payout
<1>4. payout <= r
  <2>1. payout * supply <= r * supply
    BY <1>2, <1>3
  <2> QED BY <1>3, <2>1, ProductCancel
<1>5. liquidity = supply => payout = r
  <2>1. SUFFICES ASSUME liquidity = supply, payout + 1 <= r PROVE FALSE
    BY <1>3, <1>4
  <2>2. (payout + 1) * supply <= r * supply
    BY <1>3, <2>1, ProductMonotone
  <2> QED BY <1>2, <1>3, <2>1, <2>2
<1>6. liquidity < supply /\ r > 0 => payout < r
  <2>1. SUFFICES ASSUME liquidity + 1 <= supply, r > 0, payout = r PROVE FALSE
    BY <1>3, <1>4
  <2>2. (liquidity + 1) * r <= supply * r
    BY <2>1, ProductMonotone
  <2>3. (liquidity + 1) * r = liquidity * r + r
    OBVIOUS
  <2> QED BY <1>2, <1>3, <2>1, <2>2, <2>3
<1> QED BY <1>3, <1>4, <1>5, <1>6 DEF payout

(* Shares minted into a pool that has some are in proportion to the        *)
(* smaller of the two contributions, rounded down.                         *)
LEMMA SharesBound ==
  ASSUME NEW supply \in Nat \ {0}, NEW r0 \in Nat \ {0}, NEW r1 \in Nat \ {0},
         NEW a0 \in Nat, NEW a1 \in Nat
  PROVE  LET minted == SharesFor(supply, r0, r1, a0, a1)
         IN  /\ minted \in Nat
             /\ minted * r0 <= a0 * supply
             /\ minted * r1 <= a1 * supply
<1> DEFINE minted == SharesFor(supply, r0, r1, a0, a1)
           part0 == (a0 * supply) \div r0
           part1 == (a1 * supply) \div r1
<1>1. minted = SmallerOf(part0, part1)
  BY DEF SharesFor
<1>2. /\ part0 \in Nat /\ part0 * r0 <= a0 * supply
      /\ part1 \in Nat /\ part1 * r1 <= a1 * supply
  <2>1. a0 * supply \in Nat /\ a1 * supply \in Nat
    OBVIOUS
  <2> QED BY <2>1, DivSpec
<1> HIDE DEF part0, part1
<1>3. minted \in Nat /\ minted <= part0 /\ minted <= part1
  BY <1>1, <1>2 DEF SmallerOf
<1> HIDE DEF minted
<1>4. minted * r0 <= part0 * r0 /\ minted * r1 <= part1 * r1
  BY <1>2, <1>3, ProductMonotone
<1>5. /\ minted * r0 \in Nat /\ minted * r1 \in Nat
      /\ part0 * r0 \in Nat /\ part1 * r1 \in Nat
      /\ a0 * supply \in Nat /\ a1 * supply \in Nat
  BY <1>2, <1>3
<1> QED BY <1>2, <1>3, <1>4, <1>5 DEF minted

(* The first deposit into an empty pool always mints a share.              *)
LEMMA FirstShares ==
  ASSUME NEW supply \in Nat, NEW a0 \in Nat \ {0}, NEW a1 \in Nat \ {0}
  PROVE  /\ SharesFor(supply, 0, 0, a0, a1) \in Nat \ {0}
         /\ \A r0, r1 \in Nat : SharesFor(0, r0, r1, a0, a1) \in Nat \ {0}
<1>1. a0 * a1 \in Nat \ {0}
  OBVIOUS
<1>2. ISqrt(a0 * a1) \in Nat \ {0}
  <2> DEFINE n == a0 * a1
  <2> HIDE DEF n
  <2>1. n \in Nat \ {0}
    BY <1>1 DEF n
  <2>2. ISqrt(n) \in Nat /\ n < (ISqrt(n) + 1) * (ISqrt(n) + 1)
    BY <2>1, ISqrtSpec
  <2>3. ISqrt(n) = 0 => (ISqrt(n) + 1) * (ISqrt(n) + 1) = 1
    OBVIOUS
  <2>4. ISqrt(n) # 0
    BY <2>1, <2>2, <2>3
  <2> QED BY <2>2, <2>4 DEF n
<1> QED BY <1>2 DEF SharesFor

(* The fee share dilutes the other shares by no more than the pool grew.   *)
LEMMA FeeShareBound ==
  ASSUME NEW supply \in Nat, NEW r0 \in Nat, NEW r1 \in Nat, NEW kLast \in Nat
  PROVE  /\ FeeShare(supply, r0, r1, kLast) \in Nat
         /\ supply = 0 => FeeShare(supply, r0, r1, kLast) = 0
         /\ FeeWithinGrowth(supply, r0, r1, kLast)
<1> DEFINE rootK == ISqrt(r0 * r1)
           fee == FeeShare(supply, r0, r1, kLast)
           growth == supply * (rootK - kLast)
           scale == rootK * 5 + kLast
<1>1. rootK \in Nat
  BY r0 * r1 \in Nat, ISqrtSpec
<1>2. CASE kLast > 0 /\ rootK > kLast
  <2> HIDE DEF rootK
  <2>1. growth \in Nat /\ scale \in Nat \ {0}
    BY <1>1, <1>2
  <2>2. fee = growth \div scale
    BY <1>2 DEF FeeShare, rootK
  <2>3. fee \in Nat /\ fee * scale <= growth
    <3> HIDE DEF fee, growth, scale
    <3> QED BY <2>1, <2>2, DivSpec
  <2>4. supply = 0 => fee = 0
    <3>1. SUFFICES ASSUME supply = 0, fee >= 1 PROVE FALSE
      BY <2>3
    <3>2. growth = 0
      BY <1>1, <3>1
    <3>3. 1 * scale <= fee * scale
      <4> HIDE DEF fee, scale
      <4> QED BY <2>1, <2>3, <3>1, ProductMonotone
    <3> HIDE DEF fee, scale, growth
    <3> QED BY <2>1, <2>3, <3>2, <3>3
  <2>5. kLast * (supply + fee) <= rootK * supply
    <3> HIDE DEF fee
    <3>1. kLast * fee <= scale * fee
      <4>1. kLast <= scale
        BY <1>1
      <4> HIDE DEF scale
      <4> QED BY <2>1, <2>3, <4>1, ProductMonotone
    <3>2. kLast * fee <= growth
      <4>1. scale * fee = fee * scale
        BY <2>1, <2>3
      <4>2. kLast * fee \in Nat /\ fee * scale \in Nat
        BY <2>1, <2>3
      <4> HIDE DEF scale, growth
      <4> QED BY <2>1, <2>3, <3>1, <4>1, <4>2
    <3>3. growth = rootK * supply - kLast * supply
      BY <1>1
    <3>4. kLast * (supply + fee) = kLast * supply + kLast * fee
      BY <2>3
    <3>5. kLast * supply \in Nat /\ kLast * fee \in Nat /\ rootK * supply \in Nat
      BY <1>1, <2>3
    <3> HIDE DEF growth
    <3> QED BY <3>2, <3>3, <3>4, <3>5
  <2> QED BY <2>3, <2>4, <2>5 DEF FeeWithinGrowth, rootK
<1>3. CASE ~(kLast > 0 /\ rootK > kLast)
  <2>1. fee = 0
    BY <1>3 DEF FeeShare
  <2>2. kLast <= rootK => kLast * (supply + fee) <= rootK * supply
    <3> HIDE DEF rootK, fee
    <3>1. kLast * (supply + fee) = kLast * supply
      BY <2>1
    <3> QED BY <1>1, <3>1, ProductMonotone
  <2> QED BY <2>1, <2>2 DEF FeeWithinGrowth
<1> QED BY <1>2, <1>3

(* k_last, a root rounded down, never exceeds the root of a product of     *)
(* reserves that has not shrunk since.                                     *)
LEMMA RootMonotone ==
  ASSUME NEW k \in Nat, NEW n \in Nat, k * k <= n
  PROVE  k <= ISqrt(n)
<1>1. ISqrt(n) \in Nat /\ n < (ISqrt(n) + 1) * (ISqrt(n) + 1)
  BY ISqrtSpec
<1> DEFINE root == ISqrt(n)
<1> HIDE DEF root
<1>2. SUFFICES ASSUME root + 1 <= k PROVE FALSE
  BY <1>1 DEF root
<1>3. root \in Nat /\ n < (root + 1) * (root + 1)
  BY <1>1 DEF root
<1>4. (root + 1) * (root + 1) <= k * k
  BY <1>2, <1>3, SquareMonotone
<1>5. (root + 1) * (root + 1) \in Nat /\ k * k \in Nat
  BY <1>3
<1> QED BY <1>3, <1>4, <1>5

(* A deposit never takes more than was offered.                            *)
LEMMA PairBound ==
  ASSUME NEW r0 \in Nat, NEW r1 \in Nat, r0 = 0 <=> r1 = 0,
         NEW want0 \in Nat, NEW want1 \in Nat, NEW min0 \in Nat, NEW min1 \in Nat
  PROVE  LET pair == OptimalPair(r0, r1, want0, want1, min0, min1)
         IN  pair[1] \in 0 .. want0 /\ pair[2] \in 0 .. want1
<1>1. ASSUME NEW n \in Nat, NEW d \in Nat \ {0} PROVE RoundDiv(n, d) \in Nat
  BY DivSpec DEF RoundDiv
<1>2. r0 # 0 => RoundDiv(want0 * r1, r0) \in Nat
  BY <1>1, want0 * r1 \in Nat
<1>3. r1 # 0 => RoundDiv(want1 * r0, r1) \in Nat
  BY <1>1, want1 * r0 \in Nat
<1> QED BY <1>2, <1>3 DEF OptimalPair, NoPair

(* Withdrawing what a deposit minted never pays more than was deposited,   *)
(* whatever the price and the supply.                                      *)
THEOREM DepositNoGain ==
  ASSUME NEW supply \in Nat \ {0}, NEW r0 \in Nat \ {0}, NEW r1 \in Nat \ {0},
         NEW a0 \in Nat, NEW a1 \in Nat
  PROVE  NoGainWithdrawing(supply, r0, r1, a0, a1)
<1> DEFINE minted == SharesFor(supply, r0, r1, a0, a1)
<1>1. minted \in Nat /\ minted * r0 <= a0 * supply /\ minted * r1 <= a1 * supply
  BY SharesBound
<1> HIDE DEF minted
<1>2. ASSUME NEW r \in Nat, NEW a \in Nat, minted * r <= a * supply
      PROVE  PayoutFor(minted, supply + minted, r + a) <= a
  <2> DEFINE payout == PayoutFor(minted, supply + minted, r + a)
  <2>1. payout \in Nat /\ payout * (supply + minted) <= minted * (r + a)
    <3> DEFINE total == supply + minted
               sum == r + a
    <3>1. total \in Nat \ {0} /\ minted \in 0 .. total /\ sum \in Nat
      BY <1>1
    <3> HIDE DEF total, sum
    <3>2. /\ PayoutFor(minted, total, sum) \in 0 .. sum
          /\ PayoutFor(minted, total, sum) * total <= minted * sum
      BY <3>1, PayoutBound
    <3> QED BY <3>1, <3>2 DEF total, sum
  <2> HIDE DEF payout
  <2>2. minted * (r + a) = minted * r + minted * a
    BY <1>1
  <2>3. a * (supply + minted) = a * supply + minted * a
    BY <1>1
  <2>4. payout * (supply + minted) <= a * (supply + minted)
    <3>1. /\ payout * (supply + minted) \in Nat /\ minted * (r + a) \in Nat
          /\ minted * r \in Nat /\ minted * a \in Nat /\ a * supply \in Nat
      BY <1>1, <2>1
    <3> QED BY <1>2, <2>1, <2>2, <2>3, <3>1
  <2>5. payout <= a
    BY <1>1, <2>1, <2>4, ProductCancel
  <2> QED BY <2>5 DEF payout
<1> QED BY <1>1, <1>2 DEF NoGainWithdrawing, minted


(* The fee share of mint_fee comes out of growth only: it leaves every     *)
(* other share worth at least what it was worth when k_last was taken.     *)
THEOREM FeeFromGrowth ==
  ASSUME NEW supply \in Nat, NEW r0 \in Nat, NEW r1 \in Nat, NEW kLast \in Nat
  PROVE  FeeWithinGrowth(supply, r0, r1, kLast)
  BY FeeShareBound

(* Rounding is off by half at most.                                        *)
LEMMA RoundDivSpec ==
  ASSUME NEW n \in Nat, NEW d \in Nat \ {0}
  PROVE  LET q == RoundDiv(n, d)
         IN  q \in Nat /\ 2 * (q * d) - 2 * n <= d /\ 2 * n - 2 * (q * d) <= d
<1> DEFINE f == n \div d
           r == n % d
           q == RoundDiv(n, d)
<1>1. f \in Nat /\ r \in Nat /\ r < d /\ n = f * d + r
  OBVIOUS
<1>2. q = IF 2 * r > d \/ (2 * r = d /\ f % 2 = 1) THEN f + 1 ELSE f
  BY DEF RoundDiv
<1> HIDE DEF f, r, q
<1>3. (f + 1) * d = f * d + d /\ f * d \in Nat
  BY <1>1
<1> DEFINE x == f * d
<1>4. x \in Nat /\ n = x + r /\ (f + 1) * d = x + d
  BY <1>1, <1>3
<1>5. CASE q = f + 1 /\ 2 * r >= d
  <2>1. q * d = x + d
    BY <1>4, <1>5
  <2> HIDE DEF x
  <2> QED BY <1>1, <1>4, <1>5, <2>1 DEF q
<1>6. CASE q = f /\ 2 * r <= d
  <2>1. q * d = x
    BY <1>6
  <2> HIDE DEF x
  <2> QED BY <1>1, <1>4, <1>6, <2>1 DEF q
<1>7. (q = f + 1 /\ 2 * r >= d) \/ (q = f /\ 2 * r <= d)
  BY <1>1, <1>2
<1> QED BY <1>5, <1>6, <1>7

(* A deposit without minimums always finds a pair: it offers no more than  *)
(* the depositor wanted, uses one side up and is off the pool's price by   *)
(* half a unit at most, so try_calculate_swap_amount_pair never answers    *)
(* Err for the roundings of its two candidates.                            *)
THEOREM PairFound ==
  ASSUME NEW r0 \in Nat \ {0}, NEW r1 \in Nat \ {0}, NEW want0 \in Nat, NEW want1 \in Nat
  PROVE  PairAtPrice(r0, r1, want0, want1)
<1> DEFINE n1 == want0 * r1
           n0 == want1 * r0
           optimal1 == RoundDiv(n1, r0)
           optimal0 == RoundDiv(n0, r1)
           pair == OptimalPair(r0, r1, want0, want1, 0, 0)
<1>1. n0 \in Nat /\ n1 \in Nat
  OBVIOUS
<1>2. /\ optimal1 \in Nat
      /\ 2 * (optimal1 * r0) - 2 * n1 <= r0 /\ 2 * n1 - 2 * (optimal1 * r0) <= r0
  <2> HIDE DEF n1
  <2> QED BY <1>1, RoundDivSpec
<1>3. /\ optimal0 \in Nat
      /\ 2 * (optimal0 * r1) - 2 * n0 <= r1 /\ 2 * n0 - 2 * (optimal0 * r1) <= r1
  <2> HIDE DEF n0
  <2> QED BY <1>1, RoundDivSpec
<1>4. /\ optimal1 <= want1 => pair = <<want0, optimal1>>
      /\ ~(optimal1 <= want1) /\ optimal0 <= want0 => pair = <<optimal0, want1>>
  <2>1. /\ pair = CASE r0 = 0 /\ r1 = 0 -> <<want0, want1>>
                    [] ~(r0 = 0 /\ r1 = 0) /\ optimal1 <= want1 ->
                         IF optimal1 < 0 THEN NoPair ELSE <<want0, optimal1>>
                    [] ~(r0 = 0 /\ r1 = 0) /\ optimal1 > want1 ->
                         IF optimal0 > want0 \/ optimal0 < 0
                         THEN NoPair ELSE <<optimal0, want1>>
    BY DEF OptimalPair
  <2> HIDE DEF pair, optimal0, optimal1
  <2> QED BY <1>2, <1>3, <2>1
<1>5. optimal1 > want1 => optimal0 <= want0
  <2> HIDE DEF optimal0, optimal1
  <2>1. SUFFICES ASSUME want1 + 1 <= optimal1, want0 + 1 <= optimal0 PROVE FALSE
    BY <1>2, <1>3
  <2>2. (want1 + 1) * r0 <= optimal1 * r0 /\ (want0 + 1) * r1 <= optimal0 * r1
    BY <1>2, <1>3, <2>1, ProductMonotone
  <2>3. (want1 + 1) * r0 = n0 + r0 /\ (want0 + 1) * r1 = n1 + r1
    OBVIOUS
  <2> DEFINE x == optimal1 * r0
             y == optimal0 * r1
  <2>4. x \in Nat /\ y \in Nat
    BY <1>2, <1>3
  <2>5. 2 * x - 2 * n1 <= r0 /\ 2 * y - 2 * n0 <= r1 /\ n0 + r0 <= x /\ n1 + r1 <= y
    BY <1>2, <1>3, <2>2, <2>3
  <2> HIDE DEF n0, n1, x, y
  <2> QED BY <1>1, <2>4, <2>5
<1>6. CASE optimal1 <= want1
  <2> DEFINE x == optimal1 * r0
  <2>1. pair = <<want0, optimal1>> /\ x \in Nat
    BY <1>2, <1>4, <1>6
  <2>2. 2 * (x - n1) \in -r0 .. r0
    <3>1. 2 * x - 2 * n1 <= r0 /\ 2 * n1 - 2 * x <= r0
      BY <1>2
    <3> HIDE DEF x, n1
    <3> QED BY <1>1, <2>1, <3>1
  <2>3. pair[1] = want0 /\ pair[2] = optimal1
    BY <2>1
  <2> HIDE DEF pair, optimal1
  <2>4. 2 * (pair[2] * r0 - pair[1] * r1) \in -r0 .. r0
    BY <2>2, <2>3
  <2> QED BY <1>2, <1>6, <2>3, <2>4 DEF PairAtPrice, pair
<1>7. CASE optimal1 > want1
  <2> DEFINE y == optimal0 * r1
  <2>1. pair = <<optimal0, want1>> /\ y \in Nat
    BY <1>2, <1>3, <1>4, <1>5, <1>7
  <2>2. 2 * (n0 - y) \in -r1 .. r1
    <3>1. 2 * y - 2 * n0 <= r1 /\ 2 * n0 - 2 * y <= r1
      BY <1>3
    <3> HIDE DEF y, n0
    <3> QED BY <1>1, <2>1, <3>1
  <2>3. pair[1] = optimal0 /\ pair[2] = want1
    BY <2>1
  <2> HIDE DEF pair, optimal0
  <2>4. 2 * (pair[2] * r0 - pair[1] * r1) \in -r1 .. r1
    BY <2>2, <2>3
  <2> QED BY <1>3, <1>5, <1>7, <2>3, <2>4 DEF PairAtPrice, pair
<1> QED BY <1>2, <1>6, <1>7
===============================================================================
