---------------------------- MODULE DocumentJobs ----------------------------
(***************************************************************************)
(* What the algorithms over one document or one pair of documents share: a *)
(* job takes an input, goes through its stages and stops. None of them     *)
(* reads or writes anything but its own rows, so jobs do not interact.     *)
(* Their loops and sorts are written over positions, with functions, so    *)
(* that they can be reasoned about for lists of any length.                *)
(***************************************************************************)
EXTENDS Integers, Sequences, FiniteSets

CONSTANT None

VARIABLES
  stage, \* the stage last finished, "idle" at first
  input, \* what the job was given
  found  \* what its stages have made of it so far

vars == <<stage, input, found>>

Idle ==
  /\ stage = "idle"
  /\ input = None
  /\ found = None

\* A job starts on x.
Start(first, x) ==
  /\ stage = "idle"
  /\ stage' = first
  /\ input' = x
  /\ UNCHANGED found

\* Stage `next` follows `last` and makes `result` of what was there.
Follow(last, next, result) ==
  /\ stage = last
  /\ stage' = next
  /\ found' = result
  /\ UNCHANGED input

-----------------------------------------------------------------------------
(* Loops and sorts                                                          *)

IsList(list) == Len(list) \in Nat /\ DOMAIN list = 1 .. Len(list)

\* Tuples compared position by position.
LexLess(a, b) ==
  \E i \in DOMAIN a : a[i] < b[i] /\ \A j \in 1 .. i - 1 : a[j] = b[j]

\* A set in the order of its ranks, which are distinct tuples.
InOrder(S, rank) ==
  [i \in 1 .. Cardinality(S) |->
     CHOOSE x \in S : Cardinality({ y \in S : LexLess(rank[y], rank[x]) }) = i - 1]

\* A set of numbers in increasing order.
Increasing(S) ==
  [i \in 1 .. Cardinality(S) |-> CHOOSE x \in S : Cardinality({ y \in S : y < x }) = i - 1]

\* The entries of a list that are in S, in their order.
Where(list, S) ==
  LET at == Increasing({ i \in DOMAIN list : list[i] \in S })
  IN [n \in DOMAIN at |-> list[at[n]]]

\* The sum of a sequence of numbers.
Total(terms) ==
  LET upTo[n \in 0 .. Len(terms)] == IF n = 0 THEN 0 ELSE upTo[n - 1] + terms[n]
  IN upTo[Len(terms)]
=============================================================================
