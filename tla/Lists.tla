-------------------------------- MODULE Lists --------------------------------
(***************************************************************************)
(* Array.prototype.filter, as the services use it on the arrays of a       *)
(* document: the elements at some of the places, in the order they have.   *)
(***************************************************************************)
EXTENDS Naturals, FiniteSets

(* How many of the places I are not after i. *)
RankIn(I, i) == Cardinality({j \in I : j <= i})

(* The nth of the places I. *)
NthOf(I, n) == CHOOSE i \in I : RankIn(I, i) = n

Filtered(s, I) == [n \in 1..Cardinality(I) |-> s[NthOf(I, n)]]
=============================================================================
