------------------------ MODULE MCPublisherSessions ------------------------
(***************************************************************************)
(* Two operators at work on a few publications.                            *)
(***************************************************************************)
EXTENDS PublisherSessions, TLC

\* Hashes happen to be in the opposite order of the passages.
Reversed == [p \in Passages |-> 10 - p]

Symmetry == Permutations(Sessions)
=============================================================================
