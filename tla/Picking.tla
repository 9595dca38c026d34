-------------------------------- MODULE Picking --------------------------------
(* Part of a sequence, by the places of its elements: a filter as the loops of *)
(* the code are, without recursion, so that a proof can follow it.             *)
EXTENDS Naturals, FiniteSets

\* The numbers of a finite set in ascending order.
InOrder(at) ==
    [k \in 1..Cardinality(at) |-> CHOOSE i \in at : Cardinality({j \in at : j < i}) = k - 1]

\* Those elements of s that stand at the places at, in the order they are in.
Picked(s, at) == [k \in 1..Cardinality(at) |-> s[InOrder(at)[k]]]

=============================================================================
