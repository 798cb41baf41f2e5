-------------------------- MODULE Presence_proofs --------------------------
(***************************************************************************)
(* Proofs about the online registry: its invariants, and that its          *)
(* broadcasts implement the presence promise of OnlineUsers, for every set *)
(* of users and sockets.                                                   *)
(***************************************************************************)
EXTENDS Presence, TLAPS

(* The inductive invariant: the registry's types, no closed socket in it, no *)
(* user without a socket, and the last broadcast naming exactly its keys.    *)
PresenceInv ==
  /\ PresenceTypeOK
  /\ NoGhostOnline
  /\ announced = DOMAIN clients

(* What a cleaned registry holds: handleDisconnect takes s from every user   *)
(* and leaves no user with an empty list.                                    *)
LEMMA CleanedRegistry ==
  ASSUME PresenceTypeOK, NEW s \in Sockets
  PROVE  /\ DOMAIN CleanedOf(s) \subseteq DOMAIN clients
         /\ \A u \in DOMAIN CleanedOf(s) :
              CleanedOf(s)[u] = clients[u] \ {s} /\ CleanedOf(s)[u] # {}
         /\ \A u \in DOMAIN clients \ DOMAIN CleanedOf(s) : clients[u] \ {s} = {}
  BY DEF CleanedOf, PresenceTypeOK

(* The registry after a registration. *)
LEMMA Registered ==
  ASSUME PresenceTypeOK, NEW s \in Sockets, NEW u \in Users, JoinAdminRoom(s, u)
  PROVE  /\ DOMAIN clients' = DOMAIN clients \union {u}
         /\ clients'[u] = SocketsOf(u) \union {s}
         /\ \A v \in DOMAIN clients \ {u} : clients'[v] = clients[v]
         /\ announced' = DOMAIN clients \union {u}
  BY DEF JoinAdminRoom, PresenceTypeOK

LEMMA PresenceInvInit == PresenceInit => PresenceInv
  BY DEF PresenceInit, PresenceInv, PresenceTypeOK, NoGhostOnline

LEMMA PresenceInvNext == PresenceInv /\ [PresenceNext]_presenceVars => PresenceInv'
<1> SUFFICES ASSUME PresenceInv, [PresenceNext]_presenceVars PROVE PresenceInv'
  OBVIOUS
<1> USE DEF PresenceInv
<1>1. CASE UNCHANGED presenceVars
  BY <1>1 DEF presenceVars, PresenceTypeOK, NoGhostOnline, Open
<1>2. ASSUME NEW s \in Sockets, Connect(s) PROVE PresenceInv'
  BY <1>2 DEF Connect, PresenceTypeOK, NoGhostOnline, Open
<1>3. ASSUME NEW s \in Sockets, HandleDisconnect(s) PROVE PresenceInv'
  <2>1. PresenceTypeOK'
    BY <1>3, CleanedRegistry DEF HandleDisconnect, PresenceTypeOK, CleanedOf
  <2>2. NoGhostOnline'
    BY <1>3, CleanedRegistry DEF HandleDisconnect, PresenceTypeOK, NoGhostOnline, Open
  <2>3. announced' = DOMAIN clients'
    BY <1>3 DEF HandleDisconnect
  <2> QED BY <2>1, <2>2, <2>3
<1>4. ASSUME NEW s \in Sockets, NEW u \in Users, JoinAdminRoom(s, u) PROVE PresenceInv'
  <2>1. SocketsOf(u) \in SUBSET Sockets /\ \A t \in SocketsOf(u) : Open(t)
    BY DEF SocketsOf, PresenceTypeOK, NoGhostOnline
  <2>2. PresenceTypeOK'
    BY <1>4, <2>1 DEF JoinAdminRoom, PresenceTypeOK
  <2>3. NoGhostOnline'
    BY <1>4, <2>1, Registered DEF JoinAdminRoom, PresenceTypeOK, NoGhostOnline, Open
  <2>4. announced' = DOMAIN clients'
    BY <1>4 DEF JoinAdminRoom
  <2> QED BY <2>2, <2>3, <2>4
<1>5. CASE Restart
  BY <1>5 DEF Restart, PresenceTypeOK, NoGhostOnline, Open
<1> QED
  BY <1>1, <1>2, <1>3, <1>4, <1>5 DEF PresenceNext

THEOREM PresenceInvariant == PresenceSpec => []PresenceInv
  BY PresenceInvInit, PresenceInvNext, PTL DEF PresenceSpec

(* handleDisconnect and joinAdminRoom keep the registry's types. *)
THEOREM PresenceTypes == PresenceSpec => []PresenceTypeOK
<1>1. PresenceInv => PresenceTypeOK
  BY DEF PresenceInv
<1> QED BY <1>1, PresenceInvariant, PTL

(* No user is online without an open socket. *)
THEOREM NoGhost == PresenceSpec => []NoGhostOnline
<1>1. PresenceInv => NoGhostOnline
  BY DEF PresenceInv
<1> QED BY <1>1, PresenceInvariant, PTL

-----------------------------------------------------------------------------
(* The users bound by the registry's pairs are its keys. *)
LEMMA KeysAreOnline ==
  PresenceTypeOK /\ NoGhostOnline => Online!OnlineIn(Bindings) = DOMAIN clients
<1> SUFFICES ASSUME PresenceTypeOK, NoGhostOnline
             PROVE  Online!OnlineIn(Bindings) = DOMAIN clients
  OBVIOUS
<1>1. ASSUME NEW u \in DOMAIN clients
      PROVE  u \in Users /\ \E s \in Sockets : <<s, u>> \in Bindings
  <2>1. PICK s \in clients[u] : TRUE
    BY DEF NoGhostOnline
  <2>2. s \in Sockets /\ u \in Users
    BY DEF PresenceTypeOK
  <2>3. <<s, u>> \in Bindings
    BY <2>1, <2>2 DEF Bindings
  <2> QED BY <2>2, <2>3
<1>2. ASSUME NEW u \in Users, NEW s \in Sockets, <<s, u>> \in Bindings
      PROVE  u \in DOMAIN clients
  BY <1>2 DEF Bindings
<1> QED BY <1>1, <1>2 DEF Online!OnlineIn

LEMMA InitRefines == PresenceInit => Online!OInit
  BY DEF PresenceInit, Online!OInit, Bindings

(* Each handler maps to the presence event it stands for: joinAdminRoom to   *)
(* Identify, handleDisconnect to Drop, a restart to Reset; a connection is a *)
(* stuttering step.                                                          *)
LEMMA StepRefines ==
  PresenceInv /\ PresenceInv' /\ [PresenceNext]_presenceVars
    => [Online!ONext]_(Online!onlineVars)
<1> SUFFICES ASSUME PresenceInv, PresenceInv', [PresenceNext]_presenceVars
             PROVE  [Online!ONext]_(Online!onlineVars)
  OBVIOUS
<1> USE DEF PresenceInv
<1>0. (PresenceTypeOK /\ NoGhostOnline => Online!OnlineIn(Bindings) = DOMAIN clients)'
  BY KeysAreOnline, PTL
<1>1. announced' = Online!OnlineIn(Bindings')
  BY <1>0 DEF Online!OnlineIn
<1>2. CASE UNCHANGED presenceVars
  BY <1>2 DEF presenceVars, Online!onlineVars, Bindings
<1>3. ASSUME NEW s \in Sockets, Connect(s) PROVE UNCHANGED Online!onlineVars
  BY <1>3 DEF Connect, Online!onlineVars, Bindings
<1>4. ASSUME NEW s \in Sockets, HandleDisconnect(s) PROVE Online!Drop(s)
  <2>1. \A p \in Sockets \X Users :
          p \in Bindings' <=> p \in Bindings /\ p[1] # s
    BY <1>4, CleanedRegistry DEF HandleDisconnect, Bindings, PresenceTypeOK
  <2>2. Bindings' = {p \in Bindings : p[1] # s}
    BY <2>1 DEF Bindings
  <2> QED BY <1>1, <2>2 DEF Online!Drop, Online!Show
<1>5. ASSUME NEW s \in Sockets, NEW u \in Users, JoinAdminRoom(s, u)
      PROVE  Online!Identify(s, u)
  <2>1. \A p \in Sockets \X Users :
          p \in Bindings' <=> p \in Bindings \/ p = <<s, u>>
    <3>1. /\ DOMAIN clients' = DOMAIN clients \union {u}
          /\ clients'[u] = SocketsOf(u) \union {s}
          /\ \A v \in DOMAIN clients \ {u} : clients'[v] = clients[v]
      BY <1>5, Registered
    <3>2. TAKE p \in Sockets \X Users
    <3>3. CASE p[2] = u
      BY <3>1, <3>3 DEF Bindings, SocketsOf
    <3>4. CASE p[2] # u
      BY <3>1, <3>4 DEF Bindings
    <3> QED BY <3>3, <3>4
  <2>2. Bindings' = Bindings \union {<<s, u>>}
    BY <2>1 DEF Bindings
  <2> QED BY <1>1, <2>2 DEF Online!Identify, Online!Show
<1>6. ASSUME Restart PROVE Online!Reset
  <2>1. Bindings' = {}
    BY <1>6 DEF Restart, Bindings
  <2> QED BY <1>1, <2>1 DEF Online!Reset, Online!Show
<1> QED
  BY <1>2, <1>3, <1>4, <1>5, <1>6 DEF PresenceNext, Online!ONext

(* The broadcasts of the gateway implement the presence promise. *)
THEOREM PresenceRefinement == PresenceSpec => PresenceRefinesOnline
  BY InitRefines, StepRefines, PresenceInvariant, PTL
     DEF PresenceSpec, PresenceRefinesOnline, Online!OSpec
=============================================================================
