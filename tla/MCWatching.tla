----------------------------- MODULE MCWatching -----------------------------
(* A small instance of Watching: two tabs of one browser, which send the     *)
(* same notify token.                                                        *)
EXTENDS Watching, TLC

CONSTANTS laptop

MCTokenOf == [s \in Sockets |-> laptop]

(* Tabs and rooms are interchangeable: every socket sends the same token. *)
Symmetric == Permutations(Sockets) \union Permutations(Rooms)
=============================================================================
