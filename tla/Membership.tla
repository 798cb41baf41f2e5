----------------------------- MODULE Membership -----------------------------
(***************************************************************************)
(* What a group room promises its users, one request after the other: who  *)
(* is a member, who is invited and has not answered, who has declined, and *)
(* who is in charge.  GroupRoom shows what remains of it when requests     *)
(* overlap.                                                                *)
(***************************************************************************)
CONSTANT Users

VARIABLES members, invited, declined, owner

membershipVars == <<members, invited, declined, owner>>

GInit ==
  /\ owner \in Users
  /\ members \in {M \in SUBSET Users : owner \in M}
  /\ invited \in SUBSET (Users \ members)
  /\ declined = {}

(* An invited user answers; an answer is given once. *)
Enter(u) ==
  /\ u \in invited
  /\ invited' = invited \ {u} /\ members' = members \union {u}
  /\ UNCHANGED <<declined, owner>>

Decline(u) ==
  /\ u \in invited
  /\ invited' = invited \ {u} /\ declined' = declined \union {u}
  /\ UNCHANGED <<members, owner>>

(* A member names users who neither were invited nor declined: each of them  *)
(* is a member at once or is invited.                                        *)
Invite(u, direct, asked) ==
  /\ u \in members
  /\ (direct \union asked) \cap (invited \union declined) = {}
  /\ members' = members \union direct /\ invited' = invited \union asked
  /\ UNCHANGED <<declined, owner>>

(* The room of an owner who leaves goes to a member, while there is one. *)
Leave(u) ==
  LET rest == members \ {u} IN
  /\ u \in members
  /\ members' = rest
  /\ owner' \in IF owner = u /\ rest # {} THEN rest ELSE {owner}
  /\ UNCHANGED <<invited, declined>>

(* The owner takes a user out of the room, whichever list it is in. *)
Expel(u) ==
  /\ owner \in members
  /\ members' = members \ {u} /\ invited' = invited \ {u} /\ declined' = declined \ {u}
  /\ UNCHANGED owner

GNext ==
  \E u \in Users :
    \/ Enter(u) \/ Decline(u) \/ Leave(u) \/ Expel(u)
    \/ \E direct, asked \in SUBSET Users : Invite(u, direct, asked)

GSpec == GInit /\ [][GNext]_membershipVars
=============================================================================
