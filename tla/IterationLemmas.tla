-------------------------- MODULE IterationLemmas --------------------------
(***************************************************************************)
(* Facts about definitions by iteration, for lists of any length. The      *)
(* library's induction rules take an operator as a parameter, which the    *)
(* provers cannot instantiate: these take sets and functions instead.      *)
(***************************************************************************)
EXTENDS Integers, WellFoundedInduction, TLAPS

\* A set of naturals has a least element.
LEMMA LeastNatural ==
  ASSUME NEW T \in SUBSET Nat, T # {}
  PROVE  \E m \in T : \A k \in T : m <= k
<1>1. PICK m \in T : \A k \in T : ~ (<<k, m>> \in OpToRel(<, Nat))
  BY NatLessThanWellFounded, WFMin
<1>2. ASSUME NEW k \in T PROVE m <= k
  <2>1. <<k, m>> \in Nat \X Nat /\ <<k, m>>[1] = k /\ <<k, m>>[2] = m
    OBVIOUS
  <2>2. ~ (k < m)
    BY <1>1, <2>1 DEF OpToRel
  <2> QED BY <2>2
<1> QED BY <1>2

\* Induction up to a bound: a set that has 0 and with every number the next one.
LEMMA UpTo ==
  ASSUME NEW n \in Nat, NEW S, 0 \in S, \A i \in 1 .. n : i - 1 \in S => i \in S
  PROVE  0 .. n \subseteq S
<1> SUFFICES ASSUME 0 .. n \ S # {} PROVE FALSE
  OBVIOUS
<1>1. 0 .. n \ S \in SUBSET Nat
  OBVIOUS
<1>2. PICK m \in 0 .. n \ S : \A k \in 0 .. n \ S : m <= k
  BY <1>1, LeastNatural
<1>3. m \in 1 .. n /\ m - 1 \in 0 .. n
  BY <1>2
<1>4. m - 1 \in S
  BY <1>2, <1>3
<1> QED BY <1>2, <1>3, <1>4

\* The states of an iteration that takes the elements 1 to n in turn.
Iterates(f, base, step, n) ==
  f[0] = base /\ \A i \in 1 .. n : f[i] = step[<<f[i - 1], i>>]

\* There are such states, whatever a step does.
LEMMA IterationExists ==
  ASSUME NEW T, NEW base \in T, NEW n \in Nat, NEW step \in [T \X (1 .. n) -> T]
  PROVE  \E f \in [0 .. n -> T] : Iterates(f, base, step, n)
<1> DEFINE S == { m \in 0 .. n : \E f \in [0 .. m -> T] : Iterates(f, base, step, m) }
<1>1. 0 \in S
  <2> DEFINE f == [i \in 0 .. 0 |-> base]
  <2>1. f \in [0 .. 0 -> T] /\ Iterates(f, base, step, 0)
    BY DEF Iterates
  <2> QED BY <2>1
<1>2. ASSUME NEW m \in 1 .. n, m - 1 \in S PROVE m \in S
  <2>1. PICK f \in [0 .. m - 1 -> T] : Iterates(f, base, step, m - 1)
    BY <1>2
  <2> DEFINE g == [i \in 0 .. m |-> IF i = m THEN step[<<f[m - 1], m>>] ELSE f[i]]
  <2>2. f[m - 1] \in T /\ step[<<f[m - 1], m>>] \in T
    OBVIOUS
  <2>3. \A i \in 0 .. m : i # m => i \in 0 .. m - 1 /\ f[i] \in T
    OBVIOUS
  <2>4. g \in [0 .. m -> T]
    BY <2>2, <2>3
  <2>5. g[0] = base
    BY <2>1 DEF Iterates
  <2>6. \A i \in 1 .. m : g[i] = step[<<g[i - 1], i>>]
    <3> SUFFICES ASSUME NEW i \in 1 .. m PROVE g[i] = step[<<g[i - 1], i>>]
      OBVIOUS
    <3>1. g[i - 1] = f[i - 1]
      OBVIOUS
    <3>2. CASE i = m
      <4>1. g[i] = step[<<f[i - 1], i>>]
        BY <3>2
      <4> HIDE DEF g
      <4> QED BY <3>1, <4>1
    <3>3. CASE i # m
      <4>1. i \in 1 .. m - 1 /\ g[i] = f[i]
        BY <3>3
      <4> QED BY <2>1, <3>1, <4>1 DEF Iterates
    <3> QED BY <3>2, <3>3
  <2> HIDE DEF g
  <2>7. Iterates(g, base, step, m)
    BY <2>5, <2>6 DEF Iterates
  <2> QED BY <2>4, <2>7
<1> HIDE DEF S
<1>3. n \in S
  BY <1>1, <1>2, UpTo
<1> QED BY <1>3 DEF S

\* What every step keeps holds throughout.
LEMMA IterationKeeps ==
  ASSUME NEW T, NEW n \in Nat, NEW f, f[0] \in T, \A i \in 1 .. n : f[i - 1] \in T => f[i] \in T
  PROVE  \A i \in 0 .. n : f[i] \in T
<1> DEFINE S == { i \in 0 .. n : f[i] \in T }
<1>1. 0 \in S
  OBVIOUS
<1>2. \A i \in 1 .. n : i - 1 \in S => i \in S
  OBVIOUS
<1> HIDE DEF S
<1>3. 0 .. n \subseteq S
  BY <1>1, <1>2, UpTo
<1> QED BY <1>3 DEF S
=============================================================================
