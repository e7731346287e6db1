-------------------------------- MODULE Sublists --------------------------------
(***************************************************************************)
(* The entries of a list at some of its positions, in their order: what a     *)
(* query with a condition, or a loop with a filter, returns.                  *)
(***************************************************************************)
EXTENDS Integers, FiniteSets

\* The place of i among the members of S, counted from the smallest.
Place(S, i) == Cardinality({j \in S : j <= i})

\* The members of the finite set S of numbers, the smallest first.
InOrder(S) == [k \in 1..Cardinality(S) |-> CHOOSE i \in S : Place(S, i) = k]

Sublist(list, positions) ==
    LET order == InOrder(positions) IN [k \in 1..Cardinality(positions) |-> list[order[k]]]

================================================================================
