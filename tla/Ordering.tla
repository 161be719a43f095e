-------------------------------- MODULE Ordering --------------------------------
(***************************************************************************)
(* Sets of numbers in ascending order: what a sort by time, by depth or by *)
(* position leaves.                                                        *)
(***************************************************************************)
EXTENDS Integers, FiniteSets

Rank(i, S) == Cardinality({j \in S : j <= i})
Sorted(S) == [k \in 1..Cardinality(S) |-> CHOOSE i \in S : Rank(i, S) = k]
===============================================================================
