------------------------------ MODULE NumberSets ------------------------------
(***************************************************************************)
(* Sets of numbers: induction, least and greatest elements, stated of sets *)
(* and functions, so that the proofs of the components can use them.       *)
(***************************************************************************)
EXTENDS Integers, Sequences, TLAPS, FiniteSetTheorems

(* Induction for a set of numbers, from the counting theorems: if n were     *)
(* missing, adding one would map what the set has up to n into itself and    *)
(* leave out 0.                                                              *)
LEMMA SetInduction ==
  ASSUME NEW S, 0 \in S, \A k \in Nat : k \in S => k + 1 \in S
  PROVE  Nat \subseteq S
<1> SUFFICES ASSUME NEW n \in Nat, n \notin S PROVE FALSE
  OBVIOUS
<1> DEFINE T == {k \in 0..n : k \in S}
           f == [k \in T |-> k + 1]
<1>1. IsFiniteSet(T) /\ Cardinality(T) \in Nat
  <2>1. IsFiniteSet(0..n)
    BY FS_Interval
  <2> QED
    BY <2>1, FS_Subset, FS_CardinalityType
<1>2. IsFiniteSet(T \ {0}) /\ Cardinality(T \ {0}) = Cardinality(T) - 1
  <2>1. 0 \in T
    OBVIOUS
  <2> QED
    BY <1>1, <2>1, FS_RemoveElement
<1>3. f \in Injection(T, T \ {0})
  <2>1. \A k \in T : k + 1 \in T \ {0}
    OBVIOUS
  <2>2. f \in [T -> T \ {0}]
    BY <2>1
  <2>3. \A j, k \in T : f[j] = f[k] => j = k
    OBVIOUS
  <2> QED
    BY <2>2, <2>3 DEF Injection, IsInjective
<1>4. Cardinality(T) <= Cardinality(T \ {0})
  BY <1>2, <1>3, FS_Injection
<1> QED
  BY <1>1, <1>2, <1>4

(* A set of numbers that is not empty has a least one. *)
LEMMA LeastExists ==
  ASSUME NEW S \in SUBSET Nat, S # {}
  PROVE  \E m \in S : \A k \in S : m <= k
<1> SUFFICES ASSUME \A m \in S : \E k \in S : k < m PROVE FALSE
  OBVIOUS
<1> DEFINE B == {n \in Nat : \A k \in S : n <= k}
<1>1. 0 \in B
  OBVIOUS
<1>2. ASSUME NEW n \in Nat, n \in B PROVE n + 1 \in B
  <2>1. n \notin S
    BY <1>2
  <2>2. \A k \in S : n <= k /\ n # k /\ k \in Nat
    BY <1>2, <2>1
  <2>3. \A k \in S : n + 1 <= k
    BY <2>2
  <2> QED
    BY <2>3
<1>3. \A n \in Nat : n \in B => n + 1 \in B
  BY <1>2
<1>4. Nat \subseteq B
  <2> HIDE DEF B
  <2> QED
    BY <1>1, <1>3, SetInduction
<1>5. PICK k \in S : TRUE
  OBVIOUS
<1>6. k + 1 \in B
  BY <1>4
<1> QED
  BY <1>5, <1>6

(* Of some numbered things, one is the greatest in a measure. *)
LEMMA GreatestExists ==
  ASSUME NEW n \in Nat, NEW w, \A i \in 1..n : w[i] \in Nat,
         NEW S \in SUBSET (1..n), S # {}
  PROVE  \E m \in S : \A j \in S : w[j] <= w[m]
<1> DEFINE G(T) == T # {} => \E m \in T : \A j \in T : w[j] <= w[m]
           B == {k \in Nat : k <= n => \A T \in SUBSET (1..k) : G(T)}
<1>1. 0 \in B
  <2>1. 1..0 = {}
    OBVIOUS
  <2> QED
    BY <2>1
<1>2. ASSUME NEW k \in Nat, k \in B PROVE k + 1 \in B
  <2> SUFFICES ASSUME k + 1 <= n, NEW T \in SUBSET (1..(k + 1)), T # {}
               PROVE  \E m \in T : \A j \in T : w[j] <= w[m]
    OBVIOUS
  <2>1. T \ {k + 1} \in SUBSET (1..k) /\ k <= n
    OBVIOUS
  <2>2. \A j \in T : w[j] \in Nat
    OBVIOUS
  <2>3. CASE k + 1 \notin T
    BY <1>2, <2>1, <2>3
  <2>4. CASE T \ {k + 1} = {}
    <3>1. T = {k + 1}
      BY <2>4
    <3> QED
      BY <2>2, <3>1
  <2>5. CASE k + 1 \in T /\ T \ {k + 1} # {}
    <3>1. PICK m \in T \ {k + 1} : \A j \in T \ {k + 1} : w[j] <= w[m]
      BY <1>2, <2>1, <2>5
    <3>2. CASE w[k + 1] <= w[m]
      BY <3>1, <3>2
    <3>3. CASE w[m] <= w[k + 1]
      <4>1. \A j \in T : w[j] <= w[k + 1]
        BY <2>2, <2>5, <3>1, <3>3
      <4> QED
        BY <2>5, <4>1
    <3>4. w[m] \in Nat /\ w[k + 1] \in Nat
      BY <2>2, <2>5, <3>1
    <3> QED
      BY <3>2, <3>3, <3>4
  <2> QED
    BY <2>3, <2>4, <2>5
<1>3. n \in B
  <2>1. \A k \in Nat : k \in B => k + 1 \in B
    BY <1>2
  <2> HIDE DEF B
  <2> QED
    BY <1>1, <2>1, SetInduction
<1> QED
  BY <1>3

(* The members of a list whose positions are in a set, gathered in order one *)
(* by one.                                                                   *)
LEMMA GatheringExists ==
  ASSUME NEW n \in Nat, NEW c, NEW K
  PROVE  \E f : /\ f = [i \in 0..n |-> f[i]]
                /\ \A i \in 0..n : f[i] = IF i = 0 THEN <<>>
                                         ELSE IF i \in K THEN Append(f[i - 1], c[i]) ELSE f[i - 1]
<1> DEFINE Next(f, i) == IF i \in K THEN Append(f[i - 1], c[i]) ELSE f[i - 1]
           Gathers(f, k) == /\ f = [i \in 0..k |-> f[i]]
                            /\ \A i \in 0..k : f[i] = IF i = 0 THEN <<>> ELSE Next(f, i)
           S == {k \in Nat : \E f : Gathers(f, k)}
<1>1. 0 \in S
  <2> DEFINE f == [i \in 0..0 |-> <<>>]
  <2>1. \A i \in 0..0 : i = 0
    OBVIOUS
  <2>2. Gathers(f, 0)
    BY <2>1
  <2> QED
    BY <2>2
<1>2. ASSUME NEW k \in Nat, k \in S PROVE k + 1 \in S
  <2>1. PICK f : Gathers(f, k)
    BY <1>2
  <2> DEFINE g == [i \in 0..(k + 1) |-> IF i = k + 1 THEN Next(f, k + 1) ELSE f[i]]
  <2>2. \A i \in 0..k : f[i] = IF i = 0 THEN <<>> ELSE Next(f, i)
    BY <2>1
  <2>3. \A i \in 0..k : g[i] = f[i]
    OBVIOUS
  <2>4. \A i \in 1..(k + 1) : i - 1 \in 0..k
    OBVIOUS
  <2>5. g[k + 1] = Next(f, k + 1) /\ Next(f, k + 1) = Next(g, k + 1)
    BY <2>3, <2>4
  <2>6. ASSUME NEW i \in 0..(k + 1) PROVE g[i] = IF i = 0 THEN <<>> ELSE Next(g, i)
    <3>1. CASE i = k + 1
      BY <2>5, <3>1
    <3>2. CASE i # k + 1
      <4>1. i \in 0..k /\ (i # 0 => i - 1 \in 0..k)
        BY <3>2
      <4> QED
        BY <2>2, <2>3, <4>1
    <3> QED
      BY <3>1, <3>2
  <2>7. g = [i \in 0..(k + 1) |-> g[i]]
    OBVIOUS
  <2>8. Gathers(g, k + 1)
    BY <2>6, <2>7
  <2> HIDE DEF Gathers, g
  <2>9. \E h : Gathers(h, k + 1)
    BY <2>8
  <2> QED
    BY <2>9
<1>3. n \in S
  <2>1. \A k \in Nat : k \in S => k + 1 \in S
    BY <1>2
  <2> HIDE DEF S
  <2> QED
    BY <1>1, <2>1, SetInduction
<1>4. PICK f : Gathers(f, n)
  BY <1>3
<1> QED
  BY <1>4
=============================================================================
