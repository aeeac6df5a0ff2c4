---- MODULE Orders ----
(***************************************************************************)
(* What a loop over a list that keeps some of its elements leaves: their   *)
(* positions, in the order of the list.                                    *)
(***************************************************************************)
EXTENDS Integers, FiniteSets

Increasing(s) == \A i, j \in DOMAIN s : i < j => s[i] < s[j]

\* The positions of S in ascending order: the one sequence there is.
InOrder(S) == {s \in [1 .. Cardinality(S) -> S] : Increasing(s)}
====
