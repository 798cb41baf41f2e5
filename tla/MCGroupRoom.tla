---------------------------- MODULE MCGroupRoom ----------------------------
(* Small instances of GroupRoom. *)
EXTENDS GroupRoom, TLC

(* A request names two users; to name one who is in the room and allows      *)
(* unknown users is to name the other alone.                                 *)
Pairs == {A \in SUBSET Users : Cardinality(A) = 2}

(* Slots are interchangeable, and so are users. *)
GroupSymmetry == Permutations(Slots) \union Permutations(Users)
=============================================================================
