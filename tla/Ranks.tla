-------------------------------- MODULE Ranks --------------------------------
(* Numbers in order: what "order by ... limit k" takes of a set of them.   *)
EXTENDS Integers, FiniteSets

\* How many of S come no later than x.
Rank(x, S) == Cardinality({y \in S : y <= x})

\* The first k of S, or all of it.
Lowest(k, S) == {x \in S : Rank(x, S) <= k}

\* S, one after the other.
InOrder(S) == [i \in 1 .. Cardinality(S) |-> CHOOSE x \in S : Rank(x, S) = i]
=============================================================================
