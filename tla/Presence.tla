------------------------------ MODULE Presence ------------------------------
(***************************************************************************)
(* The online registry of the websocket gateway (EventsGateway): the       *)
(* in-memory map `clients` from a user id to the sockets the user has open *)
(* and the `client.list` broadcast every change of it ends with.           *)
(*                                                                         *)
(* A socket id is never reused: a socket is new, then open, then closed.   *)
(* The socketIds array of a user is the set of its elements: it is only    *)
(* filtered by value, appended to, and tested for emptiness.               *)
(***************************************************************************)
EXTENDS Naturals, FiniteSets

CONSTANTS
  Users,      \* user ids
  Sockets     \* socket ids

VARIABLES
  phase,      \* [Sockets -> {"new", "open", "closed"}], kept by socket.io
  clients,    \* EventsGateway.clients: user id -> socketIds, a partial map
  announced   \* the user ids of the last client.list broadcast

presenceVars == <<phase, clients, announced>>

(* this.clients[userId]?.socketIds || [] *)
SocketsOf(u) == IF u \in DOMAIN clients THEN clients[u] ELSE {}

(* findUserIdBySocketId returns the first key, in the order of the object's  *)
(* keys, whose sockets include s: any of them here, none when it is empty.   *)
UsersOf(s) == {u \in DOMAIN clients : s \in clients[u]}

(* The registry without socket s, the users left with no socket deleted. *)
CleanedOf(s) ==
  [u \in {v \in DOMAIN clients : clients[v] \ {s} # {}} |-> clients[u] \ {s}]

Open(s) == phase[s] = "open"

PresenceInit ==
  /\ phase = [s \in Sockets |-> "new"]
  /\ clients = [u \in {} |-> {}]
  /\ announced = {}

(* handleConnection only logs. *)
Connect(s) ==
  /\ phase[s] = "new"
  /\ phase' = [phase EXCEPT ![s] = "open"]
  /\ UNCHANGED <<clients, announced>>

(* A form with a mistake, which no step takes. *)
JoinReplacing(s, u) ==
  /\ Open(s)
  /\ clients' = [v \in DOMAIN clients \union {u} |->
                   IF v = u THEN {s} ELSE clients[v]]
  /\ announced' = DOMAIN clients'
  /\ UNCHANGED phase

(* joinAdminRoom: appends the socket to the user's sockets and tells the list. *)
JoinAdminRoom(s, u) ==
  /\ Open(s)
  /\ clients' = [v \in DOMAIN clients \union {u} |->
                   IF v = u THEN SocketsOf(u) \union {s} ELSE clients[v]]
  /\ announced' = DOMAIN clients'
  /\ UNCHANGED phase

(* The part of handleDisconnect about the registry. *)
HandleDisconnect(s) ==
  /\ Open(s)
  /\ phase' = [phase EXCEPT ![s] = "closed"]
  /\ clients' = CleanedOf(s)
  /\ announced' = DOMAIN clients'

(* The process ends and starts again: the registry is in memory only, and    *)
(* every socket open at that moment is gone.                                 *)
Restart ==
  /\ phase' = [s \in Sockets |-> IF Open(s) THEN "closed" ELSE phase[s]]
  /\ clients' = [u \in {} |-> {}]
  /\ announced' = {}

PresenceNext ==
  \/ \E s \in Sockets : Connect(s) \/ HandleDisconnect(s)
  \/ \E s \in Sockets, u \in Users : JoinAdminRoom(s, u)
  \/ Restart

PresenceSpec == PresenceInit /\ [][PresenceNext]_presenceVars

-----------------------------------------------------------------------------
(* Every variable keeps its type: clients maps user ids to sets of sockets. *)
PresenceTypeOK ==
  /\ phase \in [Sockets -> {"new", "open", "closed"}]
  /\ DOMAIN clients \subseteq Users
  /\ clients \in [DOMAIN clients -> SUBSET Sockets]
  /\ announced \in SUBSET Users

(* A user is a key of the registry only while one of its sockets is open:    *)
(* handleDisconnect takes the socket from every user it was registered for,  *)
(* also when it had registered as several users.                             *)
NoGhostOnline ==
  \A u \in DOMAIN clients : clients[u] # {} /\ \A s \in clients[u] : Open(s)

(* The list last broadcast is the registry's, so the refinement below is     *)
(* about what the registry holds.                                            *)
Bindings == {p \in Sockets \X Users : p[2] \in DOMAIN clients /\ p[1] \in clients[p[2]]}

Online == INSTANCE OnlineUsers WITH bound <- Bindings, shown <- announced

(* The broadcasts of the gateway implement the presence promise of           *)
(* OnlineUsers: after every event the list told to everybody is the set of   *)
(* users some live socket identified as.                                     *)
PresenceRefinesOnline == Online!OSpec
=============================================================================
