-------------------------------- MODULE Ordering --------------------------------
(* What the services get from sorted(), as a function of places.           *)
EXTENDS Naturals, FiniteSets

\* the elements of S in the order R, a set of pairs <<earlier, later>>: the place of an
\* element is the number of those before it, and one more
Arranged(S, R) ==
  [k \in 1..Cardinality(S) |->
     CHOOSE x \in S : Cardinality({y \in S : <<y, x>> \in R}) = k - 1]
=============================================================================
