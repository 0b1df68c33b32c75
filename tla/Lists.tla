-------------------------------- MODULE Lists --------------------------------
(***************************************************************************)
(* A list that a loop collects from another: what passes its test, in the  *)
(* order it comes.                                                         *)
(***************************************************************************)
EXTENDS Naturals, Sequences, FiniteSets

\* How many of the positions K there are up to i.
Rank(K, i) == Cardinality({h \in K : h <= i})
\* The elements of s at the positions K.
Among(s, K) == [n \in 1..Cardinality(K) |-> s[CHOOSE i \in K : Rank(K, i) = n]]
==============================================================================
