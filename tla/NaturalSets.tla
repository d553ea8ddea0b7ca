---------------------------- MODULE NaturalSets ----------------------------
(***************************************************************************)
(* Induction on natural numbers in terms of sets instead of predicates: a  *)
(* proof by induction is about the set of the numbers that have the        *)
(* property.  It rests on the well-foundedness of the inclusion of finite  *)
(* sets.                                                                   *)
(***************************************************************************)
EXTENDS Integers, FiniteSets, FiniteSetTheorems, TLAPS

\* A set of natural numbers that is not empty has a least element: of the
\* intervals up to its elements one is minimal.
LEMMA Smallest ==
  ASSUME NEW C, C \subseteq Nat, C # {}
  PROVE  \E n \in C : \A m \in C : n <= m
<1> DEFINE D == {0 .. n : n \in C}
<1>1. D \subseteq FiniteSubsetsOf(Nat) /\ D # {}
  <2>1. \A n \in C : IsFiniteSet(0 .. n)
    BY FS_Interval
  <2>2. \A n \in C : 0 .. n \in SUBSET Nat
    OBVIOUS
  <2>3. \A n \in C : 0 .. n \in FiniteSubsetsOf(Nat)
    BY <2>1, <2>2 DEF FiniteSubsetsOf
  <2> QED  BY <2>3
<1>2. \E x \in D : \A y \in D : ~(<<y, x>> \in StrictSubsetOrdering(Nat))
  <2> HIDE DEF D
  <2> QED  BY <1>1, WFMin, FS_StrictSubsetOrderingWellFounded
<1>3. PICK n \in C : \A m \in C :
        ~(<<0 .. m, 0 .. n>> \in StrictSubsetOrdering(Nat))
  BY <1>2
<1>4. ASSUME NEW m \in C, ~(n <= m) PROVE FALSE
  <2> DEFINE x == 0 .. m   y == 0 .. n
  <2>1. n \in y /\ ~(n \in x)
    BY <1>4
  <2>2. x \in SUBSET Nat /\ y \in SUBSET Nat /\ x \subseteq y /\ x # y
    BY <1>4, <2>1
  <2>3. <<x, y>> \in StrictSubsetOrdering(Nat)
    <3> HIDE DEF x, y
    <3> QED  BY <2>2 DEF StrictSubsetOrdering
  <2> QED  BY <2>3, <1>3
<1> QED  BY <1>3, <1>4

\* A set with 0 and the successor of each of its elements has all numbers.
LEMMA Induction ==
  ASSUME NEW S, 0 \in S, \A n \in Nat : n \in S => n + 1 \in S
  PROVE  \A n \in Nat : n \in S
<1> DEFINE C == Nat \ S
<1>1. SUFFICES ASSUME C # {} PROVE FALSE
  OBVIOUS
<1>2. PICK n \in C : \A m \in C : n <= m
  BY Smallest, <1>1
<1>3. n - 1 \in Nat /\ n - 1 \in S
  BY <1>2
<1> QED  BY <1>3

\* The functions that make a value in V from a number and a value, and the
\* sequence of values that begins with v and goes on as G says, up to n.
Makers(V) == [Nat \X V -> V]
Made(V, v, G, n) ==
    {f \in [0 .. n -> V] : f[0] = v /\ \A i \in 1 .. n : f[i] = G[<<i, f[i - 1]>>]}

\* A function on pairs of a number and a value with values in V is one.
LEMMA MakesValues ==
  ASSUME NEW V, NEW G, G = [p \in Nat \X V |-> G[p]],
         \A n \in Nat : \A x \in V : G[<<n, x>>] \in V
  PROVE  G \in Makers(V)
<1>1. \A p \in Nat \X V : G[p] \in V
  OBVIOUS
<1> QED  BY <1>1 DEF Makers

\* A function defined by recursion exists on every initial segment: each value
\* is made from the one before it.
LEMMA Recursion ==
  ASSUME NEW V, NEW v \in V, NEW G \in Makers(V)
  PROVE  \A n \in Nat : Made(V, v, G, n) # {}
<1> DEFINE S == {n \in Nat : Made(V, v, G, n) # {}}
<1> USE DEF Makers
<1>1. 0 \in S
  <2> DEFINE f == [i \in 0 .. 0 |-> v]
  <2>1. f \in Made(V, v, G, 0)
    BY DEF Made
  <2> QED  BY <2>1
<1>2. ASSUME NEW n \in Nat, n \in S PROVE n + 1 \in S
  <2>1. PICK g : g \in Made(V, v, G, n)
    BY <1>2
  <2>2. /\ g \in [0 .. n -> V] /\ g[0] = v
        /\ \A i \in 1 .. n : g[i] = G[<<i, g[i - 1]>>]
    BY <2>1 DEF Made
  <2> DEFINE last == G[<<n + 1, g[n]>>]
             f == [i \in 0 .. n + 1 |-> IF i = n + 1 THEN last ELSE g[i]]
  <2>3. last \in V
    BY <2>2
  <2> HIDE DEF last
  <2>4. f \in [0 .. n + 1 -> V] /\ f[0] = v
    BY <2>2, <2>3
  <2>5. ASSUME NEW i \in 1 .. n + 1 PROVE f[i] = G[<<i, f[i - 1]>>]
    <3>1. CASE i = n + 1
      <4>1. f[i] = last /\ f[i - 1] = g[n]
        BY <3>1
      <4> QED  BY <3>1, <4>1 DEF last
    <3>2. CASE i # n + 1
      <4>1. i \in 1 .. n /\ f[i] = g[i] /\ f[i - 1] = g[i - 1]
        BY <3>2
      <4> QED  BY <2>2, <4>1
    <3> QED  BY <3>1, <3>2
  <2> HIDE DEF f
  <2>6. f \in Made(V, v, G, n + 1)
    BY <2>4, <2>5 DEF Made
  <2> QED  BY <2>6
<1> HIDE DEF S
<1>3. \A n \in Nat : n \in S
  BY <1>1, <1>2, Induction
<1> QED  BY <1>3 DEF S
=============================================================================
