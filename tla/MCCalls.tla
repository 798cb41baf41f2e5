------------------------------ MODULE MCCalls ------------------------------
(* A small instance of Calls. *)
EXTENDS Calls

CONSTANTS ann, ben, team, link

(* ann and ben share a team room; link is the room of a call link, made on   *)
(* demand.                                                                   *)
MCMembers == [r \in Rooms |-> {ann, ben}]
=============================================================================
