--------------------------- MODULE People_proofs ---------------------------
(***************************************************************************)
(* Proofs about the relays, the devices, the accounts, the watching        *)
(* documents and the contacts, for any number of users, sockets, devices,  *)
(* rooms and requests, and about the run that checks four of them side by  *)
(* side.                                                                   *)
(***************************************************************************)
EXTENDS MCPeople, Watching, Presence_proofs, Lists_proofs

-----------------------------------------------------------------------------
(* The relays and the streams of the gateway. *)

(* The relays and the streams leave the registry to its own steps. *)
LEMMA RelaysStepsPresence ==
  ASSUME [RelaysNext]_relaysVars PROVE [PresenceNext]_presenceVars
<1>1. CASE UNCHANGED relaysVars
  BY <1>1 DEF relaysVars
<1>2. ASSUME NEW s \in Sockets, Connects(s) \/ Disconnects(s) PROVE PresenceNext
  BY <1>2 DEF Connects, Disconnects, PresenceNext
<1>3. ASSUME NEW s \in Sockets, NEW u \in Users, Registers(s, u) PROVE PresenceNext
  BY <1>3 DEF Registers, PresenceNext
<1>4. CASE Restarts
  BY <1>4 DEF Restarts, PresenceNext
<1>5. ASSUME NEW s \in Sockets, StartSpeech(s) \/ StopSpeech(s) \/ TellSocket(s)
      PROVE  UNCHANGED presenceVars
  BY <1>5 DEF StartSpeech, StopSpeech, TellSocket
<1>6. ASSUME NEW s \in Sockets, NEW r \in Talks, Enter(s, r) \/ GoOut(s, r) \/ TellRoom(r)
      PROVE  UNCHANGED presenceVars
  BY <1>6 DEF Enter, GoOut, TellRoom
<1>7. ASSUME NEW us \in SUBSET Users, TellUsers(us) \/ NotifyUsers(us)
      PROVE  UNCHANGED presenceVars
  BY <1>7 DEF TellUsers, NotifyUsers
<1>8. ASSUME NEW r \in Talks, TellRoom(r) PROVE UNCHANGED presenceVars
  BY <1>8 DEF TellRoom
<1>9. ASSUME NEW x \in Stream, Utterance(x) \/ FinalResult(x) PROVE UNCHANGED presenceVars
  BY <1>9 DEF Utterance, FinalResult
<1> QED
  BY <1>1, <1>2, <1>3, <1>4, <1>5, <1>6, <1>7, <1>8, <1>9 DEF RelaysNext

(* The relays implement the registry on its own. *)
THEOREM RelaysImplementPresence == RelaysSpec => PresenceSpec
<1>1. RelaysInit => PresenceInit
  BY DEF RelaysInit
<1>2. [RelaysNext]_relaysVars => [PresenceNext]_presenceVars
  BY RelaysStepsPresence
<1> QED BY <1>1, <1>2, PTL DEF RelaysSpec, PresenceSpec

-----------------------------------------------------------------------------
LEMMA HearingTypes ==
  ASSUME PresenceTypeOK, NEW us
  PROVE  /\ SocketsOfAll(us) \subseteq Sockets
         /\ \A ids \in SUBSET Sockets : Emitted(ids) \subseteq Sockets
         /\ OpenSockets \subseteq Sockets
<1>1. \A u \in us : SocketsOf(u) \subseteq Sockets
  BY DEF SocketsOf, PresenceTypeOK
<1> QED BY <1>1 DEF SocketsOfAll, Emitted, OpenSockets

(* The map of streams after one was started, or ended, for a socket. *)
LEMMA StartEffect ==
  ASSUME RelaysTypeOK, NEW s \in Sockets, Starts(s)
  PROVE  /\ [n |-> started + 1, s |-> s] \in Stream
         /\ started' \in 0..MaxStreams
         /\ DOMAIN streams' = DOMAIN streams \union {s}
         /\ streams'[s] = [n |-> started + 1, s |-> s]
         /\ \A t \in DOMAIN streams \ {s} : streams'[t] = streams[t]
  BY RelaysAssumption DEF Starts, RelaysTypeOK, Stream

LEMMA StopEffect ==
  ASSUME NEW s, StopsStream(s)
  PROVE  /\ DOMAIN streams' = DOMAIN streams \ {s}
         /\ \A t \in DOMAIN streams \ {s} : streams'[t] = streams[t]
         /\ running' = running \ Current(s)
  BY DEF StopsStream, WithoutStream

LEMMA RelaysTypesNext ==
  ASSUME PresenceTypeOK, RelaysTypeOK, [RelaysNext]_relaysVars PROVE RelaysTypeOK'
<1>1. ASSUME UNCHANGED <<within, streams, running, finals, started, crossed>>,
             heard' \subseteq Sockets
      PROVE  RelaysTypeOK'
  BY <1>1 DEF RelaysTypeOK
<1>2. CASE UNCHANGED relaysVars
  BY <1>2 DEF relaysVars, RelaysTypeOK
<1>3. ASSUME NEW s \in Sockets, Connects(s) PROVE RelaysTypeOK'
  BY <1>1, <1>3 DEF Connects, UnchangedStreams, RelaysTypeOK
<1>4. ASSUME NEW s \in Sockets, NEW u \in Users, Registers(s, u) PROVE RelaysTypeOK'
  BY <1>1, <1>4, HearingTypes DEF Registers, UnchangedStreams
<1>5. ASSUME NEW s \in Sockets, TellSocket(s) PROVE RelaysTypeOK'
  BY <1>1, <1>5 DEF TellSocket, UnchangedStreams
<1>6. ASSUME NEW r \in Talks, TellRoom(r) PROVE RelaysTypeOK'
  BY <1>1, <1>6 DEF TellRoom, UnchangedStreams, RelaysTypeOK
<1>7. ASSUME NEW us \in SUBSET Users, TellUsers(us) \/ NotifyUsers(us) PROVE RelaysTypeOK'
  <2>1. heard' \subseteq Sockets
    BY <1>7, HearingTypes DEF TellUsers, NotifyUsers
  <2> QED BY <1>1, <1>7, <2>1 DEF TellUsers, NotifyUsers, UnchangedStreams
<1>8. ASSUME NEW s \in Sockets, NEW r \in Talks, Enter(s, r) \/ GoOut(s, r)
      PROVE  RelaysTypeOK'
  <2>1. within' \in [Talks -> SUBSET Sockets]
    BY <1>8 DEF Enter, GoOut, RelaysTypeOK
  <2> QED BY <1>8, <2>1 DEF Enter, GoOut, UnchangedStreams, RelaysTypeOK
<1>9. ASSUME NEW s \in Sockets, StartSpeech(s) PROVE RelaysTypeOK'
  <2>1. /\ [n |-> started + 1, s |-> s] \in Stream
        /\ started' \in 0..MaxStreams
        /\ DOMAIN streams' = DOMAIN streams \union {s}
        /\ streams'[s] = [n |-> started + 1, s |-> s]
        /\ \A t \in DOMAIN streams \ {s} : streams'[t] = streams[t]
    BY <1>9, StartEffect DEF StartSpeech
  <2>2. crossed' \subseteq Sockets
    BY <1>9 DEF StartSpeech, Crosses, RelaysTypeOK
  <2>3. \A t \in DOMAIN streams' : streams'[t] \in Stream
    BY <2>1 DEF RelaysTypeOK
  <2> QED BY <1>9, <2>1, <2>2, <2>3 DEF StartSpeech, RelaysTypeOK
<1>10. ASSUME NEW s \in Sockets, StopSpeech(s) PROVE RelaysTypeOK'
  BY <1>10, StopEffect DEF StopSpeech, RelaysTypeOK
<1>11. ASSUME NEW s \in Sockets, Disconnects(s) PROVE RelaysTypeOK'
  <2>1. within' \in [Talks -> SUBSET Sockets] /\ heard' \subseteq Sockets
    BY <1>11, HearingTypes DEF Disconnects, RelaysTypeOK
  <2> QED BY <1>11, <2>1, StopEffect DEF Disconnects, RelaysTypeOK
<1>12. ASSUME NEW x \in Stream, Utterance(x) PROVE RelaysTypeOK'
  BY <1>12 DEF Utterance, RelaysTypeOK
<1>13. ASSUME NEW x \in Stream, FinalResult(x) PROVE RelaysTypeOK'
  <2>0. x.s \in Sockets
    BY DEF Stream
  <2>1. /\ [n |-> started + 1, s |-> x.s] \in Stream
        /\ started' \in 0..MaxStreams
        /\ DOMAIN streams' = DOMAIN streams \union {x.s}
        /\ streams'[x.s] = [n |-> started + 1, s |-> x.s]
        /\ \A t \in DOMAIN streams \ {x.s} : streams'[t] = streams[t]
    BY <1>13, <2>0, StartEffect DEF FinalResult
  <2>2. crossed' \subseteq Sockets /\ heard' \subseteq Sockets
    BY <1>13, <2>0, HearingTypes DEF FinalResult, Crosses, RelaysTypeOK
  <2>3. \A t \in DOMAIN streams' : streams'[t] \in Stream
    BY <2>1 DEF RelaysTypeOK
  <2> QED BY <1>13, <2>0, <2>1, <2>2, <2>3 DEF FinalResult, RelaysTypeOK
<1>14. CASE Restarts
  BY <1>14 DEF Restarts, RelaysTypeOK
<1> QED
  BY <1>2, <1>3, <1>4, <1>5, <1>6, <1>7, <1>8, <1>9, <1>10, <1>11, <1>12, <1>13, <1>14
     DEF RelaysNext

(* The relays and the streams keep their types. *)
THEOREM RelaysTypes == RelaysSpec => []RelaysTypeOK
<1>1. RelaysInit => RelaysTypeOK
  BY RelaysAssumption DEF RelaysInit, RelaysTypeOK
<1>2. PresenceTypeOK /\ RelaysTypeOK /\ [RelaysNext]_relaysVars => RelaysTypeOK'
  BY RelaysTypesNext
<1>3. RelaysSpec => []PresenceTypeOK
  BY RelaysImplementPresence, PresenceTypes, PTL
<1> QED BY <1>1, <1>2, <1>3, PTL DEF RelaysSpec

-----------------------------------------------------------------------------
(* The stream kept for a socket is its own: ending it ends no other's. *)
OwnStreams == \A s \in DOMAIN streams : streams[s].s = s

RunningOf(s) == {x \in running : x.s = s}

StreamOK(s) ==
  /\ RunningOf(s) = Current(s)
  /\ Current(s) # {} => Open(s)

StreamsInv == OwnStreams /\ \A s \in Sockets \ crossed : StreamOK(s)

LEMMA SameStream ==
  ASSUME NEW s, StreamOK(s), RunningOf(s)' = RunningOf(s), Current(s)' = Current(s),
         Open(s) => Open(s)'
  PROVE  StreamOK(s)'
  BY DEF StreamOK

LEMMA StartKeepsStreams ==
  ASSUME RelaysTypeOK, StreamsInv, NEW s \in Sockets, Starts(s),
         NEW left \in SUBSET Current(s),
         running' = (running \ left) \union {[n |-> started + 1, s |-> s]},
         phase' = phase, crossed \subseteq crossed',
         s \notin crossed' => Open(s) /\ Current(s) = left
  PROVE  StreamsInv'
<1> DEFINE new == [n |-> started + 1, s |-> s]
<1>1. /\ DOMAIN streams' = DOMAIN streams \union {s}
      /\ streams'[s] = new
      /\ \A t \in DOMAIN streams \ {s} : streams'[t] = streams[t]
  BY StartEffect
<1>2. new.s = s
  OBVIOUS
<1> HIDE DEF new
<1>3. OwnStreams'
  BY <1>1, <1>2 DEF StreamsInv, OwnStreams
<1>4. \A x \in left : x.s = s
  BY DEF StreamsInv, OwnStreams, Current
<1>5. running' = (running \ left) \union {new}
  BY DEF new
<1>6. ASSUME NEW t \in Sockets \ crossed', t # s PROVE StreamOK(t)'
  <2>1. RunningOf(t)' = RunningOf(t)
    BY <1>2, <1>4, <1>5, <1>6 DEF RunningOf
  <2>2. Current(t)' = Current(t)
    BY <1>1, <1>6 DEF Current
  <2> QED BY <1>6, <2>1, <2>2, SameStream DEF StreamsInv, Open
<1>7. ASSUME s \notin crossed' PROVE StreamOK(s)'
  <2>1. RunningOf(s) = left
    BY <1>7 DEF StreamsInv, StreamOK
  <2>2. RunningOf(s)' = {new}
    BY <1>2, <1>5, <2>1 DEF RunningOf
  <2>3. Current(s)' = {new}
    BY <1>1 DEF Current
  <2> QED BY <1>7, <2>2, <2>3 DEF StreamOK, Open
<1> QED BY <1>3, <1>6, <1>7 DEF StreamsInv

LEMMA StopKeepsStreams ==
  ASSUME StreamsInv, NEW s \in Sockets, StopsStream(s), crossed' = crossed,
         \A t \in Sockets \ {s} : Open(t) => Open(t)'
  PROVE  StreamsInv'
<1>1. /\ DOMAIN streams' = DOMAIN streams \ {s}
      /\ \A t \in DOMAIN streams \ {s} : streams'[t] = streams[t]
      /\ running' = running \ Current(s)
  BY StopEffect
<1>2. OwnStreams'
  BY <1>1 DEF StreamsInv, OwnStreams
<1>3. \A x \in Current(s) : x.s = s
  BY DEF StreamsInv, OwnStreams, Current
<1>4. ASSUME NEW t \in Sockets \ crossed, t # s PROVE StreamOK(t)'
  <2>1. RunningOf(t)' = RunningOf(t)
    BY <1>1, <1>3, <1>4 DEF RunningOf
  <2>2. Current(t)' = Current(t)
    BY <1>1, <1>4 DEF Current
  <2> QED BY <1>4, <2>1, <2>2, SameStream DEF StreamsInv
<1>5. ASSUME s \notin crossed PROVE StreamOK(s)'
  <2>1. RunningOf(s)' = {}
    BY <1>1, <1>5 DEF StreamsInv, StreamOK, RunningOf
  <2>2. Current(s)' = {}
    BY <1>1 DEF Current
  <2> QED BY <2>1, <2>2 DEF StreamOK
<1> QED BY <1>2, <1>4, <1>5 DEF StreamsInv

LEMMA StreamsNext ==
  ASSUME PresenceTypeOK, RelaysTypeOK, StreamsInv, [RelaysNext]_relaysVars PROVE StreamsInv'
<1>1. ASSUME UNCHANGED <<streams, running, crossed>>, \A s \in Sockets : Open(s) => Open(s)'
      PROVE  StreamsInv'
  <2>1. \A s : RunningOf(s)' = RunningOf(s) /\ Current(s)' = Current(s)
    BY <1>1 DEF RunningOf, Current
  <2> QED BY <1>1, <2>1, SameStream DEF StreamsInv, OwnStreams
<1>2. ASSUME UNCHANGED <<phase, streams, running, crossed>> PROVE StreamsInv'
  BY <1>1, <1>2 DEF Open
<1>3. ASSUME NEW s \in Sockets, Connects(s) PROVE StreamsInv'
  BY <1>1, <1>3 DEF Connects, Connect, UnchangedStreams, Open, PresenceTypeOK
<1>4. ASSUME NEW s \in Sockets, NEW u \in Users, Registers(s, u) PROVE StreamsInv'
  BY <1>2, <1>4 DEF Registers, JoinAdminRoom, UnchangedStreams
<1>5. ASSUME NEW s \in Sockets, TellSocket(s) PROVE StreamsInv'
  BY <1>2, <1>5 DEF TellSocket, UnchangedStreams, presenceVars
<1>6. ASSUME NEW r \in Talks, TellRoom(r) PROVE StreamsInv'
  BY <1>2, <1>6 DEF TellRoom, UnchangedStreams, presenceVars
<1>7. ASSUME NEW us \in SUBSET Users, TellUsers(us) \/ NotifyUsers(us) PROVE StreamsInv'
  BY <1>2, <1>7 DEF TellUsers, NotifyUsers, UnchangedStreams, presenceVars
<1>8. ASSUME NEW s \in Sockets, NEW r \in Talks, Enter(s, r) \/ GoOut(s, r) PROVE StreamsInv'
  BY <1>2, <1>8 DEF Enter, GoOut, UnchangedStreams, presenceVars
<1>9. ASSUME NEW s \in Sockets, StartSpeech(s) PROVE StreamsInv'
  <2>1. /\ Open(s) /\ Starts(s) /\ phase' = phase
        /\ running' = running \union {[n |-> started + 1, s |-> s]}
        /\ crossed' = crossed \union (IF Current(s) = {} THEN {} ELSE {s})
    BY <1>9 DEF StartSpeech, Crosses, presenceVars
  <2>2. PICK left \in SUBSET Current(s) : left = {}
    OBVIOUS
  <2>3. running' = (running \ left) \union {[n |-> started + 1, s |-> s]}
    BY <2>1, <2>2
  <2>4. s \notin crossed' => Open(s) /\ Current(s) = left
    BY <2>1, <2>2
  <2> QED BY <2>1, <2>3, <2>4, StartKeepsStreams
<1>10. ASSUME NEW s \in Sockets, StopSpeech(s) PROVE StreamsInv'
  BY <1>10, StopKeepsStreams DEF StopSpeech, presenceVars, Open
<1>11. ASSUME NEW s \in Sockets, Disconnects(s) PROVE StreamsInv'
  <2>1. StopsStream(s) /\ crossed' = crossed
    BY <1>11 DEF Disconnects
  <2>2. \A t \in Sockets \ {s} : Open(t) => Open(t)'
    BY <1>11 DEF Disconnects, HandleDisconnect, Open, PresenceTypeOK
  <2> QED BY <2>1, <2>2, StopKeepsStreams
<1>12. ASSUME NEW x \in Stream, Utterance(x) PROVE StreamsInv'
  BY <1>2, <1>12 DEF Utterance, presenceVars
<1>13. ASSUME NEW x \in Stream, FinalResult(x) PROVE StreamsInv'
  <2>1. PICK s \in Sockets : s = x.s
    BY DEF Stream
  <2>2. /\ Starts(s) /\ phase' = phase
        /\ running' = (running \ Current(s)) \union {[n |-> started + 1, s |-> s]}
        /\ crossed' = crossed \union (IF Current(s) = {x} THEN {} ELSE {s})
    BY <1>13, <2>1 DEF FinalResult, Crosses, presenceVars
  <2>3. s \notin crossed' => Open(s)
    BY <2>2 DEF StreamsInv, StreamOK
  <2> QED BY <2>2, <2>3, StartKeepsStreams
<1>14. CASE Restarts
  BY <1>14 DEF Restarts, StreamsInv, OwnStreams, StreamOK, RunningOf, Current
<1>15. CASE UNCHANGED relaysVars
  BY <1>2, <1>15 DEF relaysVars, presenceVars
<1>16. CASE RelaysNext
  BY <1>3, <1>4, <1>5, <1>6, <1>7, <1>8, <1>9, <1>10, <1>11, <1>12, <1>13, <1>14, <1>16
     DEF RelaysNext
<1> QED BY <1>15, <1>16

(* A stream that runs is the one kept for its open socket, but for starts    *)
(* over one that runs and results that come late.                            *)
THEOREM StreamsEnd == RelaysSpec => []StreamsEndWithSockets
<1>1. RelaysInit => StreamsInv
  BY DEF RelaysInit, StreamsInv, OwnStreams, StreamOK, RunningOf, Current
<1>2. /\ PresenceTypeOK /\ RelaysTypeOK /\ StreamsInv /\ [RelaysNext]_relaysVars
      => StreamsInv'
  BY StreamsNext
<1>3. RelaysSpec => []PresenceTypeOK
  BY RelaysImplementPresence, PresenceTypes, PTL
<1>4. StreamsInv => StreamsEndWithSockets
  BY DEF StreamsInv, StreamOK, RunningOf, StreamsEndWithSockets
<1> QED BY <1>1, <1>2, <1>3, <1>4, RelaysTypes, PTL DEF RelaysSpec

(* An event for some users is heard by their own open sockets: the registry  *)
(* has no user without one, so no event meant for somebody goes to all.      *)
THEOREM TheirsHear == RelaysSpec => HeardByTheirs
<1> DEFINE Heard ==
      \A us \in SUBSET Users :
        NotifyUsers(us) \/ (TellUsers(us) /\ us \intersect DOMAIN clients # {}) =>
          /\ heard' \subseteq OpenSockets
          /\ \A s \in heard' : UsersOf(s) \intersect us # {}
<1>1. ASSUME PresenceInv PROVE Heard
  <2> SUFFICES ASSUME NEW us \in SUBSET Users,
                      NotifyUsers(us) \/ (TellUsers(us) /\ us \intersect DOMAIN clients # {})
               PROVE  /\ heard' \subseteq OpenSockets
                      /\ \A s \in heard' : UsersOf(s) \intersect us # {}
    OBVIOUS
  <2>1. \A u \in us \intersect DOMAIN clients : SocketsOf(u) # {}
    BY <1>1 DEF PresenceInv, NoGhostOnline, SocketsOf
  <2>2. heard' = SocketsOfAll(us)
    <3>1. us \intersect DOMAIN clients # {} => SocketsOfAll(us) # {}
      BY <2>1 DEF SocketsOfAll
    <3> QED BY <3>1 DEF NotifyUsers, TellUsers, Emitted
  <2>3. ASSUME NEW s \in SocketsOfAll(us) PROVE s \in OpenSockets /\ UsersOf(s) \intersect us # {}
    <3>1. PICK u \in us : s \in SocketsOf(u)
      BY DEF SocketsOfAll
    <3>2. u \in DOMAIN clients /\ s \in clients[u]
      BY <3>1 DEF SocketsOf
    <3>3. s \in Sockets /\ Open(s)
      BY <1>1, <3>2 DEF PresenceInv, PresenceTypeOK, NoGhostOnline
    <3> QED BY <3>2, <3>3 DEF OpenSockets, UsersOf
  <2> QED BY <2>2, <2>3
<1>2. PresenceInv => [Heard]_relaysVars
  BY <1>1
<1>3. RelaysSpec => []PresenceInv
  BY RelaysImplementPresence, PresenceInvariant, PTL
<1>4. RelaysSpec => [][Heard]_relaysVars
  <2> HIDE DEF Heard
  <2> QED BY <1>2, <1>3, PTL
<1> QED BY <1>4 DEF HeardByTheirs

-----------------------------------------------------------------------------
(* The devices. *)

-----------------------------------------------------------------------------
(* Types.                                                                    *)

Toggling == {"mute", "unmute", "muteAll", "unmuteAll"}

Storing == {"create", "add"}

(* A request that stores a token concerns subscriptions, and a toggle rooms; *)
(* one of the station, all of them.                                          *)
VisitOK(c) ==
  /\ c \in Visit
  /\ c.at = "idle" => c = NoVisit
  /\ c.at # "idle" => c.n \in 1..MaxVisits
  /\ c.at \in Storing => c.about \subseteq Subscriptions
  /\ c.at \in Toggling => c.about \subseteq QuietRooms
  /\ c.at \in {"muteAll", "unmuteAll"} => c.about = QuietRooms
  /\ c.at = "add" => c.doc # 0

DevicesTypesInv == DevicesTypeOK /\ \A v \in Visits : VisitOK(visit[v])

LEMMA NoVisitFacts == VisitOK(NoVisit) /\ NoVisit.at = "idle" /\ NoVisit.about = {}
  BY DevicesAssumption DEF VisitOK, NoVisit, Visit, Storing, Toggling

LEMMA TokenFacts ==
  ASSUME DevicesTypesInv
  PROVE  /\ tokens \in [n : 0..MaxVisits, held : SUBSET Subscriptions]
         /\ tokens.n = 0 => tokens = NoTokens
         /\ Held \subseteq Subscriptions /\ MutedRooms \subseteq QuietRooms
         /\ NoTokens.n = 0 /\ NoTokens.held = {}
  BY DevicesAssumption DEF DevicesTypesInv, DevicesTypeOK, Notification, NoTokens, Held, MutedRooms,
                           RoomNotification

(* What a request begins with. *)
ComesWell(at, about, doc) ==
  \/ /\ at \in Storing /\ about \subseteq Subscriptions /\ doc = tokens.n
     /\ at = "create" <=> tokens.n = 0
  \/ at = "mute" /\ about \subseteq QuietRooms \ MutedRooms /\ doc = 0
  \/ at = "unmute" /\ \E d \in mutes : about = {d.room} /\ doc = d.n
  \/ at = "muteAll" /\ about = QuietRooms /\ mutes = {} /\ doc = 0
  \/ at = "unmuteAll" /\ about = QuietRooms /\ doc = 0

Arrives(v) ==
  \/ \E x \in Subscriptions : Subscribe(v, x)
  \/ \E r \in QuietRooms : ToggleRoom(v, r)
  \/ ToggleStation(v)

LEMMA ArrivesForms ==
  ASSUME NEW v \in Visits, Arrives(v), DevicesTypesInv
  PROVE  \E at \in Storing \union Toggling, about \in SUBSET (Subscriptions \union QuietRooms),
            doc \in 0..MaxVisits :
           /\ Comes(v, at, about, doc) /\ ComesWell(at, about, doc)
           /\ UNCHANGED <<tokens, mutes, dead, refused, wanted>>
<1>1. ASSUME NEW x \in Subscriptions, Subscribe(v, x)
      PROVE  \E at \in Storing : /\ Comes(v, at, {x}, tokens.n) /\ ComesWell(at, {x}, tokens.n)
                                 /\ UNCHANGED <<tokens, mutes, dead, refused, wanted>>
  BY <1>1 DEF Subscribe, ComesWell, Storing
<1>2. ASSUME NEW r \in QuietRooms, NEW d \in mutes, d.room = r, Comes(v, "unmute", {r}, d.n)
      PROVE  ComesWell("unmute", {r}, d.n) /\ d.n \in 0..MaxVisits
  BY <1>2 DEF ComesWell, DevicesTypesInv, DevicesTypeOK, RoomNotification
<1>3. ASSUME NEW r \in QuietRooms, r \notin MutedRooms
      PROVE  ComesWell("mute", {r}, 0)
  BY <1>3 DEF ComesWell
<1>4. ASSUME NEW r \in QuietRooms, ToggleRoom(v, r)
      PROVE  \E at \in Toggling, doc \in 0..MaxVisits :
               /\ Comes(v, at, {r}, doc) /\ ComesWell(at, {r}, doc)
               /\ UNCHANGED <<tokens, mutes, dead, refused, wanted>>
  <2>1. ASSUME NEW d \in mutes, d.room = r, Comes(v, "unmute", {r}, d.n)
        PROVE  \E at \in Toggling, doc \in 0..MaxVisits : Comes(v, at, {r}, doc) /\ ComesWell(at, {r}, doc)
    BY <1>2, <2>1 DEF Toggling
  <2>2. ASSUME r \notin MutedRooms, Comes(v, "mute", {r}, 0)
        PROVE  \E at \in Toggling, doc \in 0..MaxVisits : Comes(v, at, {r}, doc) /\ ComesWell(at, {r}, doc)
    <3>1. "mute" \in Toggling /\ 0 \in 0..MaxVisits
      BY DevicesAssumption DEF Toggling
    <3> QED
      BY <1>3, <2>2, <3>1
  <2> QED
    BY <1>4, <2>1, <2>2 DEF ToggleRoom
<1>5. ASSUME ToggleStation(v)
      PROVE  \E at \in Toggling : /\ Comes(v, at, QuietRooms, 0) /\ ComesWell(at, QuietRooms, 0)
                                  /\ UNCHANGED <<tokens, mutes, dead, refused, wanted>>
  BY <1>5 DEF ToggleStation, Toggling, ComesWell
<1>6. tokens.n \in 0..MaxVisits /\ 0 \in 0..MaxVisits
  BY TokenFacts, DevicesAssumption
<1>7. CASE \E x \in Subscriptions : Subscribe(v, x)
  <2> PICK x \in Subscriptions : Subscribe(v, x)
    BY <1>7
  <2>1. {x} \in SUBSET (Subscriptions \union QuietRooms)
    OBVIOUS
  <2> PICK at \in Storing : /\ Comes(v, at, {x}, tokens.n) /\ ComesWell(at, {x}, tokens.n)
                            /\ UNCHANGED <<tokens, mutes, dead, refused, wanted>>
    BY <1>1
  <2>2. at \in Storing \union Toggling
    OBVIOUS
  <2> QED
    BY <1>6, <2>1, <2>2
<1>8. CASE \E r \in QuietRooms : ToggleRoom(v, r)
  <2> PICK r \in QuietRooms : ToggleRoom(v, r)
    BY <1>8
  <2>1. {r} \in SUBSET (Subscriptions \union QuietRooms)
    OBVIOUS
  <2> QED
    BY <1>4, <2>1
<1>9. CASE ToggleStation(v)
  BY <1>5, <1>6, <1>9
<1> QED
  BY <1>7, <1>8, <1>9 DEF Arrives

(* The slot of a request, after it began. *)
LEMMA ComesSlot ==
  ASSUME DevicesTypesInv, NEW v \in Visits, NEW at \in Storing \union Toggling,
         NEW about \in SUBSET (Subscriptions \union QuietRooms), NEW doc \in 0..MaxVisits,
         Comes(v, at, about, doc), ComesWell(at, about, doc)
  PROVE  /\ visits' \in 0..MaxVisits /\ visit' \in [Visits -> Visit]
         /\ visit[v] = NoVisit /\ VisitOK(visit'[v])
         /\ visit'[v].at = at /\ visit'[v].about = about /\ visit'[v].doc = doc
         /\ \A w \in Visits \ {v} : visit'[w] = visit[w]
<1> USE DEF DevicesTypesInv, DevicesTypeOK
<1> DEFINE new == [at |-> at, n |-> visits + 1, about |-> about, doc |-> doc]
<1>1. visit[v] = NoVisit /\ visits' = visits + 1 /\ visits' \in 1..MaxVisits
      /\ visit' = [visit EXCEPT ![v] = new]
  BY DevicesAssumption DEF Comes
<1>2. new \in Visit /\ new.n \in 1..MaxVisits /\ new.at = at /\ new.about = about /\ new.doc = doc
  BY <1>1, DevicesAssumption DEF Visit, Storing, Toggling
<1>3. /\ at \in Storing => about \subseteq Subscriptions
      /\ at \in Toggling => about \subseteq QuietRooms
      /\ at \in {"muteAll", "unmuteAll"} => about = QuietRooms
      /\ at # "idle" /\ (at = "add" => doc # 0)
  BY TokenFacts DEF ComesWell, Storing, Toggling, MutedRooms
<1> HIDE DEF new
<1> QED
  BY <1>1, <1>2, <1>3 DEF VisitOK

(* The slot of a request that ends. *)
LEMMA DepartsSlot ==
  ASSUME DevicesTypesInv, NEW v \in Visits, Departs(v)
  PROVE  /\ visits' = visits /\ visit' \in [Visits -> Visit] /\ visit'[v] = NoVisit
         /\ \A w \in Visits : VisitOK(visit'[w])
         /\ \A w \in Visits \ {v} : visit'[w] = visit[w]
  BY NoVisitFacts DEF DevicesTypesInv, DevicesTypeOK, Departs, VisitOK

(* The steps that drop subscriptions. *)
DropsSome(xs) ==
  /\ tokens' \in Notification \union {NoTokens}
  /\ tokens'.held = tokens.held \ xs
  /\ tokens'.n = tokens.n \/ xs = Subscriptions
  /\ wanted' = wanted \ xs /\ tangled' = tangled \union (xs \intersect Busy)
  /\ UNCHANGED <<mutes, dead, visit, visits>> /\ refused' \subseteq refused

LEMMA DropsForms ==
  ASSUME DevicesTypesInv,
         (\E x \in Subscriptions : Unsubscribe(x) \/ PullsRefused(x)) \/ DropAll
  PROVE  \E xs \in SUBSET Subscriptions : DropsSome(xs)
<1>1. ASSUME NEW x \in Subscriptions, tokens' = [tokens EXCEPT !.held = @ \ {x}]
      PROVE  /\ tokens' \in Notification \union {NoTokens}
             /\ tokens'.held = tokens.held \ {x} /\ tokens'.n = tokens.n
  <2> DEFINE new == [tokens EXCEPT !.held = tokens.held \ {x}]
  <2>1. new.held = tokens.held \ {x} /\ new.n = tokens.n
    BY TokenFacts
  <2>2. CASE tokens \in Notification
    BY <1>1, <2>1, <2>2 DEF Notification
  <2>3. CASE tokens = NoTokens
    BY <1>1, <2>1, <2>3 DEF NoTokens
  <2> QED
    BY <2>2, <2>3 DEF DevicesTypesInv, DevicesTypeOK
<1>2. ASSUME NEW x \in Subscriptions, Unsubscribe(x) \/ PullsRefused(x)
      PROVE  DropsSome({x}) \/ DropsSome({})
  <2>1. CASE tokens' = [tokens EXCEPT !.held = @ \ {x}] /\ Drops({x})
    BY <1>1, <1>2, <2>1 DEF Unsubscribe, PullsRefused, Drops, DropsSome
  <2>2. CASE UNCHANGED <<tokens, mutes, dead, visit, visits, wanted, tangled>>
    BY <1>2, <2>2 DEF Unsubscribe, PullsRefused, DropsSome, DevicesTypesInv, DevicesTypeOK
  <2> QED
    BY <1>2, <2>1, <2>2 DEF Unsubscribe, PullsRefused
<1>3. ASSUME DropAll
      PROVE  DropsSome(Subscriptions)
  BY <1>3, TokenFacts DEF DropAll, Drops, DropsSome, Held
<1> QED
  BY <1>2, <1>3

LEMMA BusyFacts ==
  ASSUME DevicesTypesInv
  PROVE  Busy \subseteq Subscriptions \union QuietRooms
  BY DEF DevicesTypesInv, DevicesTypeOK, Busy, Visit

LEMMA DevicesNextTypes ==
  ASSUME DevicesTypesInv, DevicesNext
  PROVE  DevicesTypesInv'
<1> USE DEF DevicesTypesInv, DevicesTypeOK
<1>1. ASSUME NEW v \in Visits, Arrives(v)
      PROVE  DevicesTypesInv'
  <2> PICK at \in Storing \union Toggling, about \in SUBSET (Subscriptions \union QuietRooms),
           doc \in 0..MaxVisits :
             /\ Comes(v, at, about, doc) /\ ComesWell(at, about, doc)
             /\ UNCHANGED <<tokens, mutes, dead, refused, wanted>>
    BY <1>1, ArrivesForms
  <2>1. tangled' \subseteq Subscriptions \union QuietRooms
    BY DEF Comes
  <2> QED
    BY <2>1, ComesSlot
<1>2. ASSUME NEW v \in Visits, CreatesDocument(v)
      PROVE  DevicesTypesInv'
  <2>1. VisitOK(visit[v]) /\ visit[v].n \in 1..MaxVisits /\ visit[v].about \subseteq Subscriptions
    BY <1>2 DEF CreatesDocument, VisitOK, Storing
  <2>2. [n |-> visit[v].n, held |-> visit[v].about] \in Notification
    BY <2>1 DEF Notification
  <2>3. Departs(v) /\ UNCHANGED <<mutes, dead, refused>>
    BY <1>2 DEF CreatesDocument
  <2>4. tokens' \in Notification \union {NoTokens} /\ wanted' \subseteq Subscriptions \union QuietRooms
        /\ tangled' \subseteq Subscriptions \union QuietRooms
    BY <1>2, <2>1, <2>2 DEF CreatesDocument
  <2> QED
    BY <2>3, <2>4, DepartsSlot
<1>3. ASSUME NEW v \in Visits, AddsToken(v)
      PROVE  DevicesTypesInv'
  <2>1. visit[v].about \subseteq Subscriptions /\ visit[v].at = "add" /\ visit[v] \in Visit
    BY <1>3 DEF AddsToken, VisitOK, Storing
  <2>2. Departs(v) /\ UNCHANGED <<mutes, dead, refused, tangled>>
        /\ wanted' \subseteq Subscriptions \union QuietRooms
    BY <1>3, <2>1 DEF AddsToken
  <2>3. tokens' \in Notification \union {NoTokens}
    <3>1. CASE tokens' = tokens
      BY <3>1
    <3>2. CASE tokens' = [tokens EXCEPT !.held = tokens.held \union visit[v].about] /\ tokens \in Notification
      BY <2>1, <3>2 DEF Notification
    <3>3. tokens' # tokens => tokens.n # 0
      BY <1>3, <2>1 DEF AddsToken, VisitOK
    <3>4. tokens \in Notification \/ tokens.n = 0
      BY DEF NoTokens
    <3> QED
      BY <1>3, <3>1, <3>2, <3>3, <3>4 DEF AddsToken
  <2> QED
    BY <2>2, <2>3, DepartsSlot
<1>4. ASSUME NEW v \in Visits, Toggles(v)
      PROVE  DevicesTypesInv'
  <2>1. /\ visit[v].at \in Toggling /\ VisitOK(visit[v])
        /\ visit[v].n \in 1..MaxVisits /\ visit[v].about \subseteq QuietRooms
    BY <1>4 DEF Toggles, VisitOK, Toggling
  <2>2. NewMutes(v) \subseteq RoomNotification
    BY <2>1 DEF NewMutes, RoomNotification
  <2>3. mutes' \subseteq RoomNotification /\ wanted' \subseteq Subscriptions \union QuietRooms
    BY <1>4, <2>1, <2>2 DEF Toggles, AfterToggle, Toggling
  <2>4. Departs(v) /\ UNCHANGED <<tokens, dead, refused, tangled>>
    BY <1>4 DEF Toggles
  <2> QED
    BY <2>3, <2>4, DepartsSlot
<1>5. ASSUME NEW v \in Visits, VisitFails(v)
      PROVE  DevicesTypesInv'
  <2>1. Departs(v) /\ UNCHANGED <<tokens, mutes, dead, refused, wanted>>
    BY <1>5 DEF VisitFails
  <2>2. visit[v] \in Visit
    OBVIOUS
  <2>3. tangled' \subseteq Subscriptions \union QuietRooms
    BY <1>5, <2>2 DEF VisitFails, Visit
  <2> QED
    BY <2>1, <2>3, DepartsSlot
<1>6. ASSUME (\E x \in Subscriptions : Unsubscribe(x) \/ PullsRefused(x)) \/ DropAll
      PROVE  DevicesTypesInv'
  <2> PICK xs \in SUBSET Subscriptions : DropsSome(xs)
    BY <1>6, DropsForms
  <2> QED
    BY DEF DropsSome
<1>7. ASSUME NEW t \in DeviceTokens, Dies(t)
      PROVE  DevicesTypesInv'
  BY <1>7 DEF Dies
<1>8. ASSUME NEW x \in Subscriptions, Push(x)
      PROVE  DevicesTypesInv'
  BY <1>8, TokenFacts DEF Push
<1> QED
  BY <1>1, <1>2, <1>3, <1>4, <1>5, <1>6, <1>7, <1>8 DEF DevicesNext, Arrives

(* The model's state keeps its types: the requests of NotificationService    *)
(* and of the push service write what their schemas say.                     *)
THEOREM DevicesTyped == DevicesSpec => []DevicesTypesInv
<1>1. DevicesInit => DevicesTypesInv
  BY DevicesAssumption, NoVisitFacts
     DEF DevicesInit, DevicesTypesInv, DevicesTypeOK, VisitOK, NoTokens, RoomNotification
<1>2. DevicesTypesInv /\ [DevicesNext]_devicesVars => DevicesTypesInv'
  <2>1. CASE UNCHANGED devicesVars
    BY <2>1 DEF devicesVars, DevicesTypesInv, DevicesTypeOK
  <2> QED
    BY <2>1, DevicesNextTypes
<1> QED
  BY <1>1, <1>2, PTL DEF DevicesSpec

-----------------------------------------------------------------------------
(* The devices and the muted rooms.                                          *)

(* A request about x goes on as it found x. *)
Expects(c, x) ==
  /\ c.at = "add" => tokens.n = c.doc
  /\ c.at \in {"mute", "muteAll"} => x \notin MutedRooms
  /\ c.at = "unmute" => \E d \in mutes : d.n = c.doc /\ d.room = x

(* x is stored or muted as it was asked last, at most once, and at most one  *)
(* request is about it.                                                      *)
Fits(x) ==
  /\ x \in Held \union MutedRooms <=> x \in wanted
  /\ \A d, e \in mutes : d.room = x /\ e.room = x => d = e
  /\ \A v, w \in Visits : x \in visit[v].about /\ x \in visit[w].about => v = w
  /\ \A v \in Visits : x \in visit[v].about => Expects(visit[v], x)

FitsInv == \A x \in (Subscriptions \union QuietRooms) \ tangled : Fits(x)

LEMMA ArrivesFits ==
  ASSUME DevicesTypesInv, FitsInv, NEW v \in Visits, Arrives(v)
  PROVE  FitsInv'
<1> PICK at \in Storing \union Toggling, about \in SUBSET (Subscriptions \union QuietRooms),
         doc \in 0..MaxVisits :
           /\ Comes(v, at, about, doc) /\ ComesWell(at, about, doc)
           /\ UNCHANGED <<tokens, mutes, dead, refused, wanted>>
  BY ArrivesForms
<1>1. /\ visit[v].about = {} /\ visit'[v].at = at /\ visit'[v].about = about /\ visit'[v].doc = doc
      /\ \A w \in Visits \ {v} : visit'[w] = visit[w]
  BY ComesSlot, NoVisitFacts
<1>2. tangled' = tangled \union (about \intersect Busy)
  BY DEF Comes
<1> SUFFICES ASSUME NEW x \in (Subscriptions \union QuietRooms) \ tangled' PROVE Fits(x)'
  BY DEF FitsInv
<1>3. Fits(x) /\ (x \in about => \A w \in Visits : x \notin visit[w].about)
  BY <1>2 DEF FitsInv, Busy
<1>4. x \in about => Expects(visit'[v], x)
  BY <1>1 DEF ComesWell, Expects, Storing, Toggling, MutedRooms
<1>5. \A c : Expects(c, x)' <=> Expects(c, x)
  BY DEF Expects, MutedRooms
<1>6. \A w, u \in Visits : x \in visit'[w].about /\ x \in visit'[u].about => w = u
  BY <1>1, <1>3 DEF Fits
<1>7. \A w \in Visits : x \in visit'[w].about => Expects(visit'[w], x)
  BY <1>1, <1>3, <1>4 DEF Fits
<1> QED
  BY <1>3, <1>6, <1>7 DEF Fits, Held, MutedRooms, Expects

LEMMA DropsFits ==
  ASSUME DevicesTypesInv, FitsInv, NEW xs \in SUBSET Subscriptions, DropsSome(xs)
  PROVE  FitsInv'
<1> SUFFICES ASSUME NEW x \in (Subscriptions \union QuietRooms) \ tangled' PROVE Fits(x)'
  BY DEF FitsInv
<1>1. Fits(x) /\ (x \in xs => \A w \in Visits : x \notin visit[w].about)
  BY DEF FitsInv, Busy, DropsSome
<1>2. mutes' = mutes /\ visit' = visit /\ wanted' = wanted \ xs /\ tokens'.held = tokens.held \ xs
      /\ (tokens'.n = tokens.n \/ xs = Subscriptions)
  BY DEF DropsSome
<1>3. x \in (Held \union MutedRooms)' <=> x \in wanted'
  BY <1>1, <1>2, TokenFacts, DevicesAssumption DEF Fits, Held, MutedRooms
<1>4. ASSUME NEW w \in Visits, x \in visit[w].about
      PROVE  Expects(visit[w], x)'
  <2>1. Expects(visit[w], x)
    BY <1>1, <1>4 DEF Fits
  <2>2. visit[w].at = "add" => x \in Subscriptions
    BY <1>4 DEF DevicesTypesInv, VisitOK, Storing
  <2> QED
    BY <1>1, <1>2, <1>4, <2>1, <2>2 DEF Expects, MutedRooms
<1> QED
  BY <1>1, <1>2, <1>3, <1>4 DEF Fits

(* A request that ends: what it was about fits by then, and nothing else     *)
(* changed.                                                                  *)
LEMMA DepartsFits ==
  ASSUME DevicesTypesInv, FitsInv, NEW v \in Visits, Departs(v), tangled \subseteq tangled',
         \A x \in (Subscriptions \union QuietRooms) \ tangled' :
           /\ x \in (Held \union MutedRooms)' <=> x \in wanted'
           /\ x \notin visit[v].about =>
                {d \in mutes' : d.room = x} = {d \in mutes : d.room = x}
           /\ x \in visit[v].about => \A d, e \in mutes' : d.room = x /\ e.room = x => d = e,
         tokens.n = 0 \/ tokens'.n = tokens.n
  PROVE  FitsInv'
<1> SUFFICES ASSUME NEW x \in (Subscriptions \union QuietRooms) \ tangled' PROVE Fits(x)'
  BY DEF FitsInv
<1>1. Fits(x)
  BY DEF FitsInv
<1>2. visit'[v].about = {} /\ \A w \in Visits \ {v} : visit'[w] = visit[w]
  BY DepartsSlot, NoVisitFacts
<1>3. \A d, e \in mutes' : d.room = x /\ e.room = x => d = e
  <2>1. CASE x \in visit[v].about
    BY <2>1
  <2>2. CASE x \notin visit[v].about
    <3>1. \A d \in mutes' : d.room = x => d \in mutes
      BY <2>2
    <3> QED
      BY <1>1, <3>1 DEF Fits
  <2> QED
    BY <2>1, <2>2
<1>4. ASSUME NEW w \in Visits, x \in visit'[w].about
      PROVE  Expects(visit[w], x)'
  <2>1. w # v /\ visit'[w] = visit[w] /\ Expects(visit[w], x) /\ x \notin visit[v].about
    BY <1>1, <1>2, <1>4 DEF Fits
  <2>2. {d \in mutes' : d.room = x} = {d \in mutes : d.room = x}
    BY <2>1
  <2>3. visit[w].at = "add" => tokens'.n = visit[w].doc
    BY <2>1 DEF Expects, DevicesTypesInv, VisitOK
  <2>4. x \in MutedRooms' <=> x \in MutedRooms
    BY <2>2 DEF MutedRooms
  <2>5. visit[w].at = "unmute" => \E d \in mutes' : d.n = visit[w].doc /\ d.room = x
    BY <2>1, <2>2 DEF Expects
  <2> QED
    BY <2>1, <2>3, <2>4, <2>5 DEF Expects
<1>5. \A w, u \in Visits : x \in visit'[w].about /\ x \in visit'[u].about => w = u
  BY <1>1, <1>2 DEF Fits
<1> QED
  BY <1>3, <1>4, <1>5 DEF Fits

LEMMA StoresFits ==
  ASSUME DevicesTypesInv, FitsInv, NEW v \in Visits, CreatesDocument(v) \/ AddsToken(v)
  PROVE  FitsInv'
<1>1. /\ visit[v].about \subseteq Subscriptions /\ visit[v] \in Visit /\ Departs(v)
      /\ UNCHANGED <<mutes, dead, refused>> /\ tangled \subseteq tangled'
  BY DEF CreatesDocument, AddsToken, DevicesTypesInv, VisitOK, Storing
<1>2. tokens.n = 0 \/ tokens'.n = tokens.n
  BY TokenFacts DEF CreatesDocument, AddsToken
<1>3. ASSUME NEW x \in (Subscriptions \union QuietRooms) \ tangled'
      PROVE  /\ x \in (Held \union MutedRooms)' <=> x \in wanted'
             /\ \A d, e \in mutes' : d.room = x /\ e.room = x => d = e
  <2>1. Fits(x) /\ MutedRooms' = MutedRooms
    BY <1>1 DEF FitsInv, MutedRooms
  <2>2. CASE CreatesDocument(v) /\ tokens.n = 0
    <3>1. tokens'.held = visit[v].about /\ wanted' = wanted \union visit[v].about /\ Held = {}
      BY <2>2, TokenFacts DEF CreatesDocument, Held
    <3> QED
      BY <1>1, <2>1, <3>1 DEF Fits, Held
  <2>3. CASE CreatesDocument(v) /\ tokens.n # 0
    BY <1>1, <2>1, <2>3 DEF CreatesDocument, Fits, Held
  <2>4. CASE AddsToken(v) /\ tokens.n = visit[v].doc
    <3>1. tokens'.held = tokens.held \union visit[v].about /\ wanted' = wanted \union visit[v].about
      BY <2>4, TokenFacts DEF AddsToken
    <3> QED
      BY <1>1, <2>1, <3>1 DEF Fits, Held
  <2>5. CASE AddsToken(v) /\ tokens.n # visit[v].doc
    <3>1. tokens' = tokens /\ wanted' = wanted \union visit[v].about /\ visit[v].at = "add"
      BY <2>5 DEF AddsToken
    <3>2. x \notin visit[v].about
      BY <2>1, <2>5, <3>1 DEF Fits, Expects
    <3> QED
      BY <1>1, <2>1, <3>1, <3>2 DEF Fits, Held
  <2> QED
    BY <2>2, <2>3, <2>4, <2>5
<1> QED
  BY <1>1, <1>2, <1>3, DepartsFits

LEMMA TogglesFits ==
  ASSUME DevicesTypesInv, FitsInv, NEW v \in Visits, Toggles(v)
  PROVE  FitsInv'
<1>1. /\ visit[v].at \in Toggling /\ visit[v].about \subseteq QuietRooms /\ visit[v] \in Visit /\ Departs(v)
      /\ VisitOK(visit[v]) /\ UNCHANGED <<tokens, dead, refused, tangled>> /\ mutes' = AfterToggle(v)
      /\ mutes \subseteq RoomNotification
  BY DEF Toggles, DevicesTypesInv, DevicesTypeOK, VisitOK, Toggling
<1> DEFINE doc == visit[v].doc
           about == visit[v].about
           new == {[n |-> visit[v].n, room |-> r] : r \in about}
<1>2. CASE visit[v].at \in {"mute", "muteAll"}
  <2>1. mutes' = mutes \union new /\ wanted' = wanted \union about
    BY <1>1, <1>2 DEF AfterToggle, NewMutes, Toggles
  <2>2. MutedRooms' = MutedRooms \union about
    <3>1. \A r \in about : [n |-> visit[v].n, room |-> r] \in new
      OBVIOUS
    <3>2. \A d \in new : d.room \in about
      OBVIOUS
    <3>3. ASSUME NEW r \in about
          PROVE  \E d \in new : d.room = r
      <4>1. [n |-> visit[v].n, room |-> r].room = r
        OBVIOUS
      <4> QED
        BY <3>1, <4>1
    <3> HIDE DEF new
    <3> QED
      BY <2>1, <3>2, <3>3 DEF MutedRooms
  <2>3. ASSUME NEW x \in (Subscriptions \union QuietRooms) \ tangled'
        PROVE  /\ x \in (Held \union MutedRooms)' <=> x \in wanted'
               /\ x \notin about => {d \in mutes' : d.room = x} = {d \in mutes : d.room = x}
               /\ x \in about => \A d, e \in mutes' : d.room = x /\ e.room = x => d = e
    <3>1. Fits(x) /\ (x \in about => x \notin MutedRooms)
      BY <1>1, <1>2 DEF FitsInv, Fits, Expects
    <3>2. x \in (Held \union MutedRooms)' <=> x \in wanted'
      BY <1>1, <2>1, <2>2, <3>1 DEF Fits, Held
    <3>3. x \notin about => {d \in mutes' : d.room = x} = {d \in mutes : d.room = x}
      BY <2>1
    <3>4. x \in about => \A d \in mutes' : d.room = x => d \in new
      BY <2>1, <3>1 DEF MutedRooms
    <3>5. \A d \in new : d.room = x => d = [n |-> visit[v].n, room |-> x]
      OBVIOUS
    <3> QED
      BY <3>2, <3>3, <3>4, <3>5
  <2> QED
    BY <1>1, <2>3, DepartsFits
<1>3. CASE visit[v].at \in {"unmute", "unmuteAll"}
  <2>1. mutes' \subseteq mutes /\ wanted' = wanted \ about
    BY <1>1, <1>3 DEF AfterToggle, Toggles
  <2>2. \A d \in mutes \ mutes' : d.room \in about
    <3>1. CASE visit[v].at = "unmute"
      BY <1>1, <3>1 DEF AfterToggle
    <3>2. CASE visit[v].at = "unmuteAll"
      BY <1>1, <3>2 DEF VisitOK, RoomNotification
    <3> QED
      BY <1>3, <3>1, <3>2
  <2>3. ASSUME NEW x \in (Subscriptions \union QuietRooms) \ tangled'
        PROVE  /\ x \in (Held \union MutedRooms)' <=> x \in wanted'
               /\ x \notin about => {d \in mutes' : d.room = x} = {d \in mutes : d.room = x}
               /\ x \in about => \A d, e \in mutes' : d.room = x /\ e.room = x => d = e
    <3>1. Fits(x)
      BY <1>1 DEF FitsInv
    <3>2. x \notin about => {d \in mutes' : d.room = x} = {d \in mutes : d.room = x}
      BY <2>1, <2>2
    <3>3. x \in about => \A d \in mutes' : d.room # x
      <4>1. CASE visit[v].at = "unmuteAll"
        BY <1>1, <4>1 DEF AfterToggle
      <4>2. CASE visit[v].at = "unmute"
        <5>1. x \in about => \A d \in mutes : d.room = x => d.n = doc
          BY <3>1, <4>2 DEF Fits, Expects
        <5>2. mutes' = {d \in mutes : ~(d.n = doc /\ d.room \in about)}
          BY <1>1, <4>2 DEF AfterToggle
        <5> QED
          BY <5>1, <5>2
      <4> QED
        BY <1>3, <4>1, <4>2
    <3>4. x \in about => x \notin Held /\ x \notin MutedRooms'
      BY <1>1, <3>3, TokenFacts, DevicesAssumption DEF MutedRooms
    <3>5. x \notin about => (x \in MutedRooms' <=> x \in MutedRooms)
      BY <3>2 DEF MutedRooms
    <3> QED
      BY <1>1, <2>1, <3>1, <3>2, <3>3, <3>4, <3>5 DEF Fits, Held
  <2> QED
    BY <1>1, <2>3, DepartsFits
<1> QED
  BY <1>1, <1>2, <1>3 DEF Toggling

LEMMA NextFits ==
  ASSUME DevicesTypesInv, FitsInv, DevicesNext
  PROVE  FitsInv'
<1>1. ASSUME NEW v \in Visits, VisitFails(v)
      PROVE  FitsInv'
  <2>1. Departs(v) /\ UNCHANGED <<tokens, mutes, wanted>> /\ tangled \subseteq tangled'
        /\ \A x \in visit[v].about : x \in tangled'
    BY <1>1 DEF VisitFails
  <2>2. \A x \in (Subscriptions \union QuietRooms) \ tangled' : Fits(x)
    BY <2>1 DEF FitsInv
  <2>3. \A x \in (Subscriptions \union QuietRooms) \ tangled' :
           /\ x \in (Held \union MutedRooms)' <=> x \in wanted'
           /\ x \notin visit[v].about
    BY <2>1, <2>2 DEF Fits, Held, MutedRooms
  <2> QED
    BY <2>1, <2>3, DepartsFits
<1>2. ASSUME (\E x \in Subscriptions : Unsubscribe(x) \/ PullsRefused(x)) \/ DropAll
      PROVE  FitsInv'
  BY <1>2, DropsForms, DropsFits
<1>3. ASSUME (\E x \in Subscriptions : Push(x)) \/ \E t \in DeviceTokens : Dies(t)
      PROVE  FitsInv'
  BY <1>3 DEF Push, Dies, FitsInv, Fits, Expects, Held, MutedRooms
<1> QED
  BY <1>1, <1>2, <1>3, ArrivesFits, StoresFits, TogglesFits DEF DevicesNext, Arrives

LEMMA FitsSettled ==
  ASSUME DevicesTypesInv, FitsInv
  PROVE  SettledDevices
<1> DEFINE settled == (Subscriptions \union QuietRooms) \ (tangled \union Busy)
<1>1. \A x \in settled : Fits(x)
  BY DEF FitsInv
<1>2. settled \intersect (Held \union MutedRooms) = settled \intersect wanted
  BY <1>1 DEF Fits
<1>3. \A d, e \in mutes : d.room = e.room /\ d.room \in settled => d = e
  BY <1>1 DEF Fits
<1> QED
  BY <1>2, <1>3 DEF SettledDevices

(* Every device is stored, or not, as its last request asked, and every room *)
(* is muted once or not at all, unless requests about it overlapped or       *)
(* failed: storageToken finds and creates in two steps, and so do the two    *)
(* toggles.                                                                  *)
THEOREM DevicesSettle == DevicesSpec => []SettledDevices
<1>1. DevicesInit => FitsInv
  BY NoVisitFacts DEF DevicesInit, FitsInv, Fits, Held, MutedRooms, NoTokens
<1>2. DevicesTypesInv /\ FitsInv /\ [DevicesNext]_devicesVars => FitsInv'
  <2>1. CASE UNCHANGED devicesVars
    BY <2>1 DEF devicesVars, FitsInv, Fits, Expects, Held, MutedRooms
  <2> QED
    BY <2>1, NextFits
<1>3. DevicesTypesInv /\ FitsInv => SettledDevices
  BY FitsSettled
<1> QED
  BY <1>1, <1>2, <1>3, DevicesTyped, PTL DEF DevicesSpec

-----------------------------------------------------------------------------
(* The accounts. *)

-----------------------------------------------------------------------------
(* Types.                                                                    *)

MakesOne == {"create", "social"}

(* A request about an account names it; one that is to make an account names *)
(* none yet.                                                                 *)
SlotOK(c) ==
  /\ c \in Call
  /\ c.at = "idle" => c = NoCall
  /\ c.at # "idle" => c.n \in Ids
  /\ c.at \notin MakesOne \union {"idle"} => c.id \in Ids
  /\ c.at \in MakesOne => c.id = Nobody

AccountsTypeInv == AccountsTypeOK /\ \A p \in Phones : SlotOK(call[p])

LEMMA IdleSlot == SlotOK(NoCall) /\ NoCall.at = "idle" /\ NoCall.id = Nobody /\ NoCall.n = 0
  BY AccountsAssumption DEF SlotOK, NoCall, Call, Ids, Nobody, MakesOne

LEMMA IdsFacts == Nobody \notin Ids /\ NoLink \notin Ids /\ Nobody = 0 /\ NoLink = 0
  BY DEF Ids, Nobody, NoLink

LEMMA UserFacts == NoUser \in User /\ NoUser.status = "none" /\ ~NoUser.mine /\ NoUser.owns = {}
                   /\ NoUser.verifyToken = NoLink
  BY DEF NoUser, User, Ids, NoLink, Possessions

(* What a request begins with. *)
BeginsWell(at, id) ==
  \/ at \in MakesOne /\ id = Nobody /\ Mine = {}
  \/ at \in {"setToken", "activate", "reset"} /\ id \in Mine
  \/ at \in {"setUp", "erase"} /\ id \in sessions

LEMMA DialsForms ==
  ASSUME NEW p \in Phones, DialsAny(p)
  PROVE  \E at \in {"create", "social", "setToken", "activate", "reset", "setUp", "erase"} :
           \E id \in Ids \union {Nobody} : Dials(p, at, id) /\ BeginsWell(at, id)
<1>1. CASE SignUp(p) \/ SocialSignUp(p)
  BY <1>1 DEF SignUp, SocialSignUp, BeginsWell, MakesOne
<1>2. CASE ResendVerifyEmail(p) \/ ForgotPassword(p)
  BY <1>2 DEF ResendVerifyEmail, ForgotPassword, BeginsWell, Mine
<1>3. CASE \E t \in mailed : Activate(p, t) \/ ResetPassword(p, t)
  BY <1>3 DEF Activate, ResetPassword, BeginsWell, Mine
<1>4. CASE \E d \in Ids : SetUpInfo(p, d) \/ DeleteAccount(p, d)
  BY <1>4 DEF SetUpInfo, DeleteAccount, BeginsWell
<1> QED
  BY <1>1, <1>2, <1>3, <1>4 DEF DialsAny

(* The slot of a request, after it began. *)
LEMMA DialsSlot ==
  ASSUME AccountsTypeInv, NEW p \in Phones,
         NEW at \in {"create", "social", "setToken", "activate", "reset", "setUp", "erase"},
         NEW id \in Ids \union {Nobody}, Dials(p, at, id), BeginsWell(at, id)
  PROVE  /\ calls' = calls + 1 /\ calls \in 0..MaxSteps /\ calls' \in Ids
         /\ call[p] = NoCall
         /\ call'[p].at = at /\ call'[p].n = calls + 1 /\ call'[p].id = id
         /\ SlotOK(call'[p])
         /\ call' \in [Phones -> Call]
         /\ \A q \in Phones \ {p} : call'[q] = call[q]
<1> USE DEF AccountsTypeInv, AccountsTypeOK
<1>1. calls' = calls + 1 /\ calls \in 0..MaxSteps /\ calls' \in Ids /\ call[p] = NoCall
  BY AccountsAssumption DEF Dials, Ids
<1>2. call' = [call EXCEPT ![p] = [at |-> at, n |-> calls + 1, id |-> id]]
  BY DEF Dials
<1>3. [at |-> at, n |-> calls + 1, id |-> id] \in Call
  BY <1>1, AccountsAssumption DEF Call, Ids
<1>4. at \notin MakesOne => id \in Ids
  BY IdsFacts DEF BeginsWell, Mine
<1>5. at \in MakesOne => id = Nobody
  BY DEF BeginsWell, MakesOne
<1> QED
  BY <1>1, <1>2, <1>3, <1>4, <1>5 DEF SlotOK

(* The slot of a request that goes on. *)
LEMMA TurnsSlot ==
  ASSUME AccountsTypeInv, NEW p \in Phones, call[p].at # "idle",
         NEW at \in {"mail", "eraseSpaces", "eraseTokens"}, NEW id \in Ids, Turns(p, at, id)
  PROVE  /\ call'[p].at = at /\ call'[p].n = call[p].n /\ call'[p].id = id
         /\ call' \in [Phones -> Call]
         /\ \A q \in Phones : SlotOK(call'[q])
         /\ \A q \in Phones \ {p} : call'[q] = call[q]
<1> USE DEF AccountsTypeInv, AccountsTypeOK
<1>1. call[p] \in Call /\ call[p].n \in Ids
  BY DEF SlotOK
<1> DEFINE new == [call[p] EXCEPT !.at = at, !.id = id]
<1>2. call' = [call EXCEPT ![p] = new]
  BY DEF Turns
<1>3. new \in Call /\ new.at = at /\ new.n = call[p].n /\ new.id = id
  BY <1>1 DEF Call
<1> HIDE DEF new
<1> QED
  BY <1>1, <1>2, <1>3 DEF SlotOK, MakesOne

LEMMA HangsUpSlot ==
  ASSUME AccountsTypeInv, NEW p \in Phones, HangsUp(p)
  PROVE  /\ call'[p] = NoCall
         /\ call' \in [Phones -> Call]
         /\ \A q \in Phones : SlotOK(call'[q])
         /\ \A q \in Phones \ {p} : call'[q] = call[q]
  BY IdleSlot DEF AccountsTypeInv, AccountsTypeOK, HangsUp, SlotOK

(* A slot whose request is about an account. *)
LEMMA NamesAccount ==
  ASSUME AccountsTypeInv, NEW p \in Phones, call[p].at \notin MakesOne \union {"idle"}
  PROVE  call[p].id \in Ids /\ call[p].n \in Ids /\ account[call[p].id] \in User
  BY DEF AccountsTypeInv, AccountsTypeOK, SlotOK

LEMMA AccountsNextTypes ==
  ASSUME AccountsTypeInv, AccountsNext
  PROVE  AccountsTypeInv'
<1> USE DEF AccountsTypeInv, AccountsTypeOK
<1>1. ASSUME NEW p \in Phones, DialsAny(p)
      PROVE  AccountsTypeInv'
  <2> PICK at \in {"create", "social", "setToken", "activate", "reset", "setUp", "erase"},
           id \in Ids \union {Nobody} : Dials(p, at, id) /\ BeginsWell(at, id)
    BY <1>1, DialsForms
  <2>1. raced' \subseteq Ids
    BY DEF Dials, Nobody, NoLink
  <2>2. call' \in [Phones -> Call] /\ (\A q \in Phones : SlotOK(call'[q])) /\ calls' \in 0..MaxSteps
    BY DialsSlot DEF Ids
  <2> QED
    BY <2>1, <2>2 DEF Dials
<1>2. ASSUME NEW p \in Phones, Creates(p)
      PROVE  AccountsTypeInv'
  <2>1. call[p].n \in Ids /\ call[p].at # "idle"
    BY <1>2 DEF Creates, SlotOK
  <2>2. [NoUser EXCEPT !.status = "pending", !.mine = TRUE, !.verifyToken = call[p].n] \in User
    BY <2>1, UserFacts DEF User, NoUser
  <2>3. account' \in [Ids -> User]
    BY <1>2, <2>1, <2>2 DEF Creates
  <2>4. call' \in [Phones -> Call] /\ \A q \in Phones : SlotOK(call'[q])
    BY <1>2, <2>1, TurnsSlot, HangsUpSlot DEF Creates
  <2> QED
    BY <1>2, <2>3, <2>4 DEF Creates
<1>3. ASSUME NEW p \in Phones, CreatesSocial(p)
      PROVE  AccountsTypeInv'
  <2>1. call[p].n \in Ids /\ call[p].at # "idle"
    BY <1>3 DEF CreatesSocial, SlotOK
  <2>2. [NoUser EXCEPT !.status = "active", !.mine = TRUE, !.social = TRUE] \in User
    BY <2>1, UserFacts DEF User, NoUser
  <2>3. account' \in [Ids -> User] /\ sessions' \subseteq Ids /\ activated' \subseteq Ids
    BY <1>3, <2>1, <2>2 DEF CreatesSocial
  <2>4. call' \in [Phones -> Call] /\ \A q \in Phones : SlotOK(call'[q])
    BY <1>3, HangsUpSlot DEF CreatesSocial
  <2> QED
    BY <1>3, <2>3, <2>4 DEF CreatesSocial
<1>4. ASSUME NEW p \in Phones, SetsToken(p)
      PROVE  AccountsTypeInv'
  <2>1. call[p].n \in Ids /\ call[p].at # "idle" /\ call[p].id \in Ids /\ account[call[p].id] \in User
    BY <1>4, NamesAccount DEF SetsToken, MakesOne
  <2>2. [account[call[p].id] EXCEPT !.verifyToken = call[p].n] \in User
    BY <2>1 DEF User
  <2>3. account' \in [Ids -> User]
    BY <1>4, <2>1, <2>2 DEF SetsToken
  <2>4. call' \in [Phones -> Call] /\ \A q \in Phones : SlotOK(call'[q])
    BY <1>4, <2>1, TurnsSlot, HangsUpSlot DEF SetsToken
  <2> QED
    BY <1>4, <2>3, <2>4 DEF SetsToken
<1>5. ASSUME NEW p \in Phones, SendsMail(p)
      PROVE  AccountsTypeInv'
  <2>1. call[p].n \in Ids /\ call[p].id \in Ids
    BY <1>5, NamesAccount DEF SendsMail, MakesOne
  <2> QED
    BY <1>5, <2>1, HangsUpSlot DEF SendsMail
<1>6. ASSUME NEW p \in Phones, UsesLink(p)
      PROVE  AccountsTypeInv'
  <2>1. call[p].id \in Ids /\ account[call[p].id] \in User
    BY <1>6, NamesAccount DEF UsesLink, MakesOne
  <2>2. AfterLink(p) \in User
    BY <2>1 DEF AfterLink, User
  <2>3. account' \in [Ids -> User] /\ latest' \in [Ids -> Ids \union {NoLink}] /\ activated' \subseteq Ids
    BY <1>6, <2>1, <2>2 DEF UsesLink
  <2> QED
    BY <1>6, <2>3, HangsUpSlot DEF UsesLink
<1>7. ASSUME NEW p \in Phones, SetsUp(p)
      PROVE  AccountsTypeInv'
  <2>1. call[p].id \in Ids /\ account[call[p].id] \in User
    BY <1>7, NamesAccount DEF SetsUp, MakesOne
  <2>2. [account[call[p].id] EXCEPT !.status = "active"] \in User
    BY <2>1 DEF User
  <2> QED
    BY <1>7, <2>1, <2>2, HangsUpSlot DEF SetsUp
<1>8. ASSUME NEW p \in Phones, Erases(p)
      PROVE  AccountsTypeInv'
  <2>1. call[p].id \in Ids /\ account[call[p].id] \in User /\ call[p].at # "idle"
    BY <1>8, NamesAccount DEF Erases, MakesOne
  <2>2. [account[call[p].id] EXCEPT !.status = "deleted", !.mine = FALSE, !.social = FALSE,
                                    !.verifyToken = NoLink] \in User
    BY <2>1 DEF User
  <2>3. account' \in [Ids -> User] /\ latest' \in [Ids -> Ids \union {NoLink}]
    BY <1>8, <2>1, <2>2 DEF Erases
  <2>4. call' \in [Phones -> Call] /\ \A q \in Phones : SlotOK(call'[q])
    BY <1>8, <2>1, TurnsSlot DEF Erases
  <2> QED
    BY <1>8, <2>3, <2>4 DEF Erases
<1>9. ASSUME NEW p \in Phones, ErasesBelongings(p)
      PROVE  AccountsTypeInv'
  <2>1. call[p].id \in Ids /\ account[call[p].id] \in User /\ call[p].at # "idle"
    BY <1>9, NamesAccount DEF ErasesBelongings, MakesOne
  <2>2. PICK x \in Possessions :
          account' = [account EXCEPT ![call[p].id] =
                        [account[call[p].id] EXCEPT !.owns = account[call[p].id].owns \ {x}]]
    BY <1>9 DEF ErasesBelongings, Possessions
  <2>3. [account[call[p].id] EXCEPT !.owns = account[call[p].id].owns \ {x}] \in User
    BY <2>1 DEF User
  <2>5. account' \in [Ids -> User]
    BY <2>1, <2>2, <2>3
  <2>4. call' \in [Phones -> Call] /\ \A q \in Phones : SlotOK(call'[q])
    BY <1>9, <2>1, TurnsSlot, HangsUpSlot DEF ErasesBelongings
  <2> QED
    BY <1>9, <2>4, <2>5 DEF ErasesBelongings
<1>10. ASSUME NEW p \in Phones, CallFails(p)
       PROVE  AccountsTypeInv'
  <2>1. raced' \subseteq Ids
    BY <1>10 DEF CallFails, SlotOK, Call
  <2> QED
    BY <1>10, <2>1, HangsUpSlot DEF CallFails
<1>11. ASSUME NEW d \in Ids, Expires(d)
       PROVE  AccountsTypeInv'
  BY <1>11, UserFacts DEF Expires
<1>12. ASSUME NEW d \in Ids, NEW x \in Possessions, Gains(d, x)
       PROVE  AccountsTypeInv'
  <2>1. [account[d] EXCEPT !.owns = @ \union {x}] \in User
    BY DEF User
  <2> QED
    BY <1>12, <2>1 DEF Gains
<1>13. CASE SignIn
  BY <1>13 DEF SignIn, Mine
<1> QED
  BY <1>1, <1>2, <1>3, <1>4, <1>5, <1>6, <1>7, <1>8, <1>9, <1>10, <1>11, <1>12, <1>13
     DEF AccountsNext, TalksOn

(* Accounts, sessions, tokens and requests keep their types, and a request   *)
(* about an account names one: signUp to deleteAccount of AuthService.       *)
THEOREM AccountsTypes == AccountsSpec => []AccountsTypeInv
<1>1. AccountsInit => AccountsTypeInv
  BY AccountsAssumption, UserFacts, IdleSlot DEF AccountsInit, AccountsTypeInv, AccountsTypeOK, SlotOK
<1>2. AccountsTypeInv /\ [AccountsNext]_accountsVars => AccountsTypeInv'
  <2> SUFFICES ASSUME AccountsTypeInv, UNCHANGED accountsVars PROVE AccountsTypeInv'
    BY AccountsNextTypes
  <2> QED
    BY DEF accountsVars, AccountsTypeInv, AccountsTypeOK
<1> QED
  BY <1>1, <1>2, PTL DEF AccountsSpec
-----------------------------------------------------------------------------
(* A session has an activated account.                                       *)

SettledStatus == {"unset", "active", "deleted"}

(* A request to set up or to delete an account is of a session of it, and an *)
(* account that has the email is one.                                        *)
ActivatedInv ==
  /\ SessionsActivated
  /\ \A p \in Phones : call[p].at \in {"setUp", "erase"} => call[p].id \in sessions
  /\ \A d \in Ids : account[d].mine => account[d].status # "none"

(* How an account may change: it stays as it was in status and email, or is  *)
(* one that is pending, social and activated, of a session, or none at all.  *)
StatusSound(d) ==
  /\ account'[d].status \in SettledStatus => d \in activated'
  /\ account'[d].mine => account'[d].status # "none"

LEMMA ActivatedFromSlots ==
  ASSUME AccountsTypeInv, AccountsTypeInv', ActivatedInv, sessions \subseteq sessions', sessions' \subseteq activated',
         \A d \in Ids : StatusSound(d),
         NEW p \in Phones, \A q \in Phones \ {p} : call'[q] = call[q],
         call'[p].at \in {"setUp", "erase"} => call'[p].id \in sessions'
  PROVE  ActivatedInv'
BY DEF ActivatedInv, SessionsActivated, StatusSound, SettledStatus

LEMMA NextActivated ==
  ASSUME AccountsTypeInv, AccountsTypeInv', ActivatedInv, AccountsNext
  PROVE  ActivatedInv'
<1> USE DEF ActivatedInv, SessionsActivated, SettledStatus
<1>0. \A d \in Ids : account[d] \in User
  BY DEF AccountsTypeInv, AccountsTypeOK
<1>1. ASSUME NEW p \in Phones, DialsAny(p)
      PROVE  ActivatedInv'
  <2> PICK at \in {"create", "social", "setToken", "activate", "reset", "setUp", "erase"},
           id \in Ids \union {Nobody} : Dials(p, at, id) /\ BeginsWell(at, id)
    BY <1>1, DialsForms
  <2>1. call'[p].at = at /\ call'[p].id = id /\ \A q \in Phones \ {p} : call'[q] = call[q]
    BY DialsSlot
  <2>2. at \in {"setUp", "erase"} => id \in sessions
    BY DEF BeginsWell, MakesOne
  <2>3. \A d \in Ids : StatusSound(d)
    BY DEF Dials, StatusSound
  <2> QED
    BY <2>1, <2>2, <2>3, ActivatedFromSlots DEF Dials
<1>2. ASSUME NEW p \in Phones, Creates(p)
      PROVE  ActivatedInv'
  <2>1. call[p].n \in Ids /\ call[p].at # "idle"
    BY <1>2 DEF Creates, AccountsTypeInv, SlotOK
  <2>2. \A d \in Ids : account'[d] = account[d] \/
          account'[d] = [NoUser EXCEPT !.status = "pending", !.mine = TRUE, !.verifyToken = call[p].n]
    BY <1>2, <2>1 DEF Creates, AccountsTypeInv, AccountsTypeOK
  <2>3. \A d \in Ids : StatusSound(d)
    <3>1. PICK e : e = [NoUser EXCEPT !.status = "pending", !.mine = TRUE, !.verifyToken = call[p].n]
      OBVIOUS
    <3>2. e.status = "pending"
      BY <3>1 DEF NoUser
    <3>3. \A d \in Ids : account'[d] = account[d] \/ account'[d].status = "pending"
      BY <2>2, <3>1, <3>2
    <3>4. activated' = activated
      BY <1>2 DEF Creates
    <3> QED BY <3>3, <3>4 DEF StatusSound
  <2>4. call'[p].at \in {"mail", "idle"} /\ \A q \in Phones \ {p} : call'[q] = call[q]
    BY <1>2, <2>1, TurnsSlot, HangsUpSlot, IdleSlot DEF Creates
  <2> QED
    BY <1>2, <2>3, <2>4, ActivatedFromSlots DEF Creates
<1>3. ASSUME NEW p \in Phones, CreatesSocial(p)
      PROVE  ActivatedInv'
  <2>1. call[p].n \in Ids
    BY <1>3 DEF CreatesSocial, AccountsTypeInv, SlotOK
  <2>2. \A d \in Ids : account'[d] = account[d] \/
          (d \in activated' /\
           account'[d] = [NoUser EXCEPT !.status = "active", !.mine = TRUE, !.social = TRUE])
    BY <1>3, <2>1 DEF CreatesSocial, AccountsTypeInv, AccountsTypeOK
  <2>3. \A d \in Ids : StatusSound(d)
    <3>1. PICK e : e = [NoUser EXCEPT !.status = "active", !.mine = TRUE, !.social = TRUE]
      OBVIOUS
    <3>2. e.status = "active"
      BY <3>1 DEF NoUser
    <3>3. \A d \in Ids : account'[d] = account[d] \/ (d \in activated' /\ account'[d].status = "active")
      BY <2>2, <3>1, <3>2
    <3>4. activated \subseteq activated'
      BY <1>3 DEF CreatesSocial
    <3> QED BY <3>3, <3>4 DEF StatusSound
  <2>4. call'[p].at = "idle" /\ \A q \in Phones \ {p} : call'[q] = call[q]
    BY <1>3, HangsUpSlot, IdleSlot DEF CreatesSocial
  <2>5. sessions \subseteq sessions' /\ sessions' \subseteq activated'
    BY <1>3 DEF CreatesSocial
  <2> QED
    BY <2>3, <2>4, <2>5, ActivatedFromSlots
<1>4. ASSUME NEW p \in Phones, SetsToken(p)
      PROVE  ActivatedInv'
  <2>1. call[p].id \in Ids /\ call[p].at # "idle"
    BY <1>4, NamesAccount DEF SetsToken, MakesOne
  <2>2. \A d \in Ids : account'[d] = account[d] \/
          account'[d] = [account[d] EXCEPT !.verifyToken = call[p].n]
    BY <1>4, <2>1 DEF SetsToken, AccountsTypeInv, AccountsTypeOK
  <2>5. \A d \in Ids : account'[d].status = account[d].status /\ account'[d].mine = account[d].mine
    BY <1>0, <2>2 DEF User
  <2>6. activated' = activated
    BY <1>4 DEF SetsToken
  <2>3. \A d \in Ids : StatusSound(d)
    BY <2>5, <2>6 DEF StatusSound
  <2>4. call'[p].at \in {"mail", "idle"} /\ \A q \in Phones \ {p} : call'[q] = call[q]
    BY <1>4, <2>1, TurnsSlot, HangsUpSlot, IdleSlot DEF SetsToken
  <2> QED
    BY <1>4, <2>3, <2>4, ActivatedFromSlots DEF SetsToken
<1>5. ASSUME NEW p \in Phones, SendsMail(p)
      PROVE  ActivatedInv'
  <2>1. call'[p].at = "idle" /\ \A q \in Phones \ {p} : call'[q] = call[q]
    BY <1>5, HangsUpSlot, IdleSlot DEF SendsMail
  <2>2. \A d \in Ids : StatusSound(d)
    BY <1>5 DEF SendsMail, StatusSound
  <2> QED
    BY <1>5, <2>1, <2>2, ActivatedFromSlots DEF SendsMail
<1>6. ASSUME NEW p \in Phones, UsesLink(p)
      PROVE  ActivatedInv'
  <2>1. call[p].id \in Ids /\ account[call[p].id] \in User
    BY <1>6, NamesAccount DEF UsesLink, MakesOne
  <2>2. \A d \in Ids \ {call[p].id} : account'[d] = account[d]
    BY <1>6, <2>1 DEF UsesLink, AccountsTypeInv, AccountsTypeOK
  <2>3. There(p) => account'[call[p].id] = AfterLink(p)
    BY <1>6, <2>1 DEF UsesLink, AccountsTypeInv, AccountsTypeOK
  <2>4. There(p) => StatusSound(call[p].id)
    BY <1>6, <2>1, <2>3 DEF UsesLink, There, AfterLink, StatusSound, User
  <2>5. ~There(p) => account' = account
    BY <1>6 DEF UsesLink
  <2>6. activated \subseteq activated' /\ sessions' = sessions
    BY <1>6 DEF UsesLink
  <2>7. \A d \in Ids : StatusSound(d)
    BY <2>2, <2>4, <2>5, <2>6 DEF StatusSound
  <2>8. call'[p].at = "idle" /\ \A q \in Phones \ {p} : call'[q] = call[q]
    BY <1>6, HangsUpSlot, IdleSlot DEF UsesLink
  <2> QED
    BY <2>6, <2>7, <2>8, ActivatedFromSlots
<1>7. ASSUME NEW p \in Phones, SetsUp(p)
      PROVE  ActivatedInv'
  <2>1. call[p].id \in Ids /\ call[p].id \in activated
    BY <1>7, NamesAccount DEF SetsUp, MakesOne
  <2>2. \A d \in Ids : account'[d] = account[d] \/
          (d \in activated /\ account'[d] = [account[d] EXCEPT !.status = "active"])
    BY <1>7, <2>1 DEF SetsUp, AccountsTypeInv, AccountsTypeOK
  <2>3. \A d \in Ids : StatusSound(d)
    BY <1>0, <1>7, <2>2 DEF SetsUp, StatusSound, User
  <2>4. call'[p].at = "idle" /\ \A q \in Phones \ {p} : call'[q] = call[q]
    BY <1>7, HangsUpSlot, IdleSlot DEF SetsUp
  <2> QED
    BY <1>7, <2>3, <2>4, ActivatedFromSlots DEF SetsUp
<1>8. ASSUME NEW p \in Phones, Erases(p)
      PROVE  ActivatedInv'
  <2>1. call[p].id \in Ids /\ call[p].id \in activated /\ call[p].at # "idle"
    BY <1>8, NamesAccount DEF Erases, MakesOne
  <2>2. \A d \in Ids : account'[d] = account[d] \/
          (d \in activated /\
           account'[d] = [account[d] EXCEPT !.status = "deleted", !.mine = FALSE, !.social = FALSE,
                                            !.verifyToken = NoLink])
    BY <1>8, <2>1 DEF Erases, AccountsTypeInv, AccountsTypeOK
  <2>5. \A d \in Ids : account'[d] = account[d] \/ (d \in activated /\ ~account'[d].mine)
    <3> SUFFICES ASSUME NEW d \in Ids,
                        account'[d] = [account[d] EXCEPT !.status = "deleted", !.mine = FALSE,
                                          !.social = FALSE, !.verifyToken = NoLink]
                 PROVE  ~account'[d].mine
      BY <2>2
    <3> QED
      BY <1>0 DEF User
  <2>6. activated' = activated
    BY <1>8 DEF Erases
  <2>3. \A d \in Ids : StatusSound(d)
    BY <2>5, <2>6 DEF StatusSound
  <2>4. call'[p].at = "eraseSpaces" /\ \A q \in Phones \ {p} : call'[q] = call[q]
    BY <1>8, <2>1, TurnsSlot DEF Erases
  <2> QED
    BY <1>8, <2>3, <2>4, ActivatedFromSlots DEF Erases
<1>9. ASSUME NEW p \in Phones, ErasesBelongings(p)
      PROVE  ActivatedInv'
  <2>1. call[p].id \in Ids /\ call[p].at # "idle"
    BY <1>9, NamesAccount DEF ErasesBelongings, MakesOne
  <2>2. PICK x \in Possessions :
          account' = [account EXCEPT ![call[p].id] =
                        [account[call[p].id] EXCEPT !.owns = account[call[p].id].owns \ {x}]]
    BY <1>9 DEF ErasesBelongings, Possessions
  <2>3. \A d \in Ids : account'[d] = account[d] \/
          account'[d] = [account[d] EXCEPT !.owns = account[d].owns \ {x}]
    BY <2>1, <2>2 DEF AccountsTypeInv, AccountsTypeOK
  <2>6. \A d \in Ids : account'[d].status = account[d].status /\ account'[d].mine = account[d].mine
    BY <1>0, <2>3 DEF User
  <2>7. activated' = activated
    BY <1>9 DEF ErasesBelongings
  <2>4. \A d \in Ids : StatusSound(d)
    BY <2>6, <2>7 DEF StatusSound
  <2>5. call'[p].at \in {"eraseTokens", "idle"} /\ \A q \in Phones \ {p} : call'[q] = call[q]
    BY <1>9, <2>1, TurnsSlot, HangsUpSlot, IdleSlot DEF ErasesBelongings
  <2> QED
    BY <1>9, <2>4, <2>5, ActivatedFromSlots DEF ErasesBelongings
<1>10. ASSUME NEW p \in Phones, CallFails(p)
       PROVE  ActivatedInv'
  <2>1. call'[p].at = "idle" /\ \A q \in Phones \ {p} : call'[q] = call[q]
    BY <1>10, HangsUpSlot, IdleSlot DEF CallFails
  <2>2. \A d \in Ids : StatusSound(d)
    BY <1>10 DEF CallFails, StatusSound
  <2> QED
    BY <1>10, <2>1, <2>2, ActivatedFromSlots DEF CallFails
<1>11. ASSUME NEW d \in Ids, Expires(d)
       PROVE  ActivatedInv'
  <2>1. \A e \in Ids : account'[e] = account[e] \/ account'[e] = NoUser
    BY <1>11 DEF Expires, AccountsTypeInv, AccountsTypeOK
  <2> QED
    BY <1>11, <2>1, UserFacts DEF Expires
<1>12. ASSUME NEW d \in Ids, NEW x \in Possessions, Gains(d, x)
       PROVE  ActivatedInv'
  <2>1. \A e \in Ids : account'[e] = account[e] \/
          account'[e] = [account[e] EXCEPT !.owns = account[e].owns \union {x}]
    BY <1>12 DEF Gains, AccountsTypeInv, AccountsTypeOK
  <2>2. \A e \in Ids : account'[e].status = account[e].status /\ account'[e].mine = account[e].mine
    BY <1>0, <2>1 DEF User
  <2> QED
    BY <1>12, <2>2 DEF Gains
<1>13. CASE SignIn
  <2>1. \A d \in Mine : account[d].status # "pending" => d \in activated
    BY <1>0 DEF Mine, User
  <2> QED
    BY <1>13, <2>1 DEF SignIn
<1> QED
  BY <1>1, <1>2, <1>3, <1>4, <1>5, <1>6, <1>7, <1>8, <1>9, <1>10, <1>11, <1>12, <1>13
     DEF AccountsNext, TalksOn

LEMMA ActivatedHolds == AccountsSpec => []ActivatedInv
<1>1. AccountsInit => ActivatedInv
  BY UserFacts, IdleSlot DEF AccountsInit, ActivatedInv, SessionsActivated
<1>2. AccountsTypeInv /\ AccountsTypeInv' /\ ActivatedInv /\ [AccountsNext]_accountsVars => ActivatedInv'
  <2> SUFFICES ASSUME ActivatedInv, UNCHANGED accountsVars PROVE ActivatedInv'
    BY NextActivated
  <2> QED
    BY DEF accountsVars, ActivatedInv, SessionsActivated
<1> QED
  BY <1>1, <1>2, AccountsTypes, PTL DEF AccountsSpec

(* Nobody signs in to an account that no link activated, and none is set up  *)
(* or deleted that was not activated: signIn, activateAccount, setUpInfo and *)
(* deleteAccount, with a reset whose link serves no activation.              *)
THEOREM OnlyActivatedSignIn == AccountsSpec => []SessionsActivated
<1>1. ActivatedInv => SessionsActivated
  BY DEF ActivatedInv
<1> QED
  BY <1>1, ActivatedHolds, PTL
-----------------------------------------------------------------------------
(* Accounts that are to be made.                                             *)

(* Nothing is kept for the account, and no request is about it. *)
Unborn(i) ==
  /\ account[i] = NoUser /\ latest[i] = NoLink /\ i \notin sessions
  /\ \A p \in Phones : call[p].id # i

ToCome(i) == calls < i \/ \E p \in Phones : call[p].at \in MakesOne /\ call[p].n = i

(* The requests under way have numbers of their own, and the account that    *)
(* one will make is not there before.                                        *)
FreshInv ==
  /\ \A p \in Phones : call[p].at # "idle" => call[p].n <= calls
  /\ \A p, q \in Phones : call[p].at # "idle" /\ call[q].at # "idle" /\ call[p].n = call[q].n => p = q
  /\ \A i \in Ids : ToCome(i) => Unborn(i)

(* The one account that a step of a request touches. *)
Touched(p) == IF call[p].at \in MakesOne THEN call[p].n ELSE call[p].id

SlotAfter(p) ==
  \/ call'[p] = NoCall
  \/ /\ call'[p].at \in {"mail", "eraseSpaces", "eraseTokens"}
     /\ call'[p].n = call[p].n /\ call'[p].id = Touched(p)

SameBut(d) ==
  /\ \A e \in Ids \ {d} : account'[e] = account[e] /\ latest'[e] = latest[e]
  /\ sessions' \subseteq sessions \union {d}

LEMMA TalkFootprint ==
  ASSUME AccountsTypeInv, NEW p \in Phones, TalksOn(p)
  PROVE  /\ call[p].at # "idle" /\ Touched(p) \in Ids
         /\ SlotAfter(p) /\ \A q \in Phones \ {p} : call'[q] = call[q]
         /\ calls' = calls /\ raced \subseteq raced' /\ SameBut(Touched(p))
<1>0. /\ account \in [Ids -> User] /\ latest \in [Ids -> Ids \union {NoLink}]
      /\ SlotOK(call[p])
  BY DEF AccountsTypeInv, AccountsTypeOK
<1>1. CASE Creates(p)
  <2>1. call[p].at # "idle" /\ call[p].at \in MakesOne /\ call[p].n \in Ids
    BY <1>0, <1>1 DEF Creates, SlotOK, MakesOne
  <2>2. SlotAfter(p) /\ \A q \in Phones \ {p} : call'[q] = call[q]
    BY <1>1, <2>1, TurnsSlot, HangsUpSlot DEF Creates, SlotAfter, Touched
  <2>3. SameBut(Touched(p))
    BY <1>0, <1>1, <2>1 DEF Creates, SameBut, Touched
  <2> QED
    BY <1>1, <2>1, <2>2, <2>3 DEF Creates, Touched
<1>2. CASE CreatesSocial(p)
  <2>1. call[p].at # "idle" /\ call[p].at \in MakesOne /\ call[p].n \in Ids
    BY <1>0, <1>2 DEF CreatesSocial, SlotOK, MakesOne
  <2>2. SlotAfter(p) /\ \A q \in Phones \ {p} : call'[q] = call[q]
    BY <1>2, HangsUpSlot DEF CreatesSocial, SlotAfter
  <2>3. SameBut(Touched(p))
    BY <1>0, <1>2, <2>1 DEF CreatesSocial, SameBut, Touched
  <2> QED
    BY <1>2, <2>1, <2>2, <2>3 DEF CreatesSocial, Touched
<1> DEFINE Named == /\ call[p].at # "idle" /\ call[p].at \notin MakesOne
                    /\ call[p].id \in Ids /\ Touched(p) = call[p].id
<1>3. CASE SetsToken(p)
  <2>1. Named
    BY <1>3, NamesAccount DEF SetsToken, MakesOne, Touched
  <2>2. SlotAfter(p) /\ \A q \in Phones \ {p} : call'[q] = call[q]
    BY <1>3, <2>1, TurnsSlot, HangsUpSlot DEF SetsToken, SlotAfter
  <2> QED
    BY <1>0, <1>3, <2>1, <2>2 DEF SetsToken, SameBut
<1>4. CASE SendsMail(p) \/ UsesLink(p) \/ SetsUp(p)
  <2>1. Named
    BY <1>4, NamesAccount DEF SendsMail, UsesLink, SetsUp, MakesOne, Touched
  <2>2. SlotAfter(p) /\ \A q \in Phones \ {p} : call'[q] = call[q]
    BY <1>4, HangsUpSlot DEF SendsMail, UsesLink, SetsUp, SlotAfter
  <2> QED
    BY <1>0, <1>4, <2>1, <2>2 DEF SendsMail, UsesLink, SetsUp, SameBut
<1>5. CASE Erases(p)
  <2>1. Named
    BY <1>5, NamesAccount DEF Erases, MakesOne, Touched
  <2>2. SlotAfter(p) /\ \A q \in Phones \ {p} : call'[q] = call[q]
    BY <1>5, <2>1, TurnsSlot DEF Erases, SlotAfter
  <2> QED
    BY <1>0, <1>5, <2>1, <2>2 DEF Erases, SameBut
<1>6. CASE ErasesBelongings(p)
  <2>1. Named
    BY <1>6, NamesAccount DEF ErasesBelongings, MakesOne, Touched
  <2>2. SlotAfter(p) /\ \A q \in Phones \ {p} : call'[q] = call[q]
    BY <1>6, <2>1, TurnsSlot, HangsUpSlot DEF ErasesBelongings, SlotAfter
  <2> QED
    BY <1>0, <1>6, <2>1, <2>2 DEF ErasesBelongings, SameBut
<1>7. CASE CallFails(p)
  <2>1. call[p].at # "idle"
    BY <1>0, <1>7, IdleSlot DEF CallFails, SlotOK
  <2>2. SlotAfter(p) /\ \A q \in Phones \ {p} : call'[q] = call[q]
    BY <1>7, HangsUpSlot DEF CallFails, SlotAfter
  <2>3. Touched(p) \in Ids
    BY <1>0, <2>1 DEF Touched, SlotOK
  <2> QED
    BY <1>7, <2>1, <2>2, <2>3 DEF CallFails, SameBut
<1> QED
  BY <1>1, <1>2, <1>3, <1>4, <1>5, <1>6, <1>7 DEF TalksOn

LEMMA NextFresh ==
  ASSUME AccountsTypeInv, AccountsTypeInv', FreshInv, ActivatedInv, AccountsNext
  PROVE  FreshInv'
<1>0. calls \in Nat /\ \A i \in Ids : i \in Nat
  BY AccountsAssumption DEF AccountsTypeInv, AccountsTypeOK, Ids
<1>1. ASSUME NEW p \in Phones, DialsAny(p)
      PROVE  FreshInv'
  <2> PICK at \in {"create", "social", "setToken", "activate", "reset", "setUp", "erase"},
           id \in Ids \union {Nobody} : Dials(p, at, id) /\ BeginsWell(at, id)
    BY <1>1, DialsForms
  <2>1. /\ calls' = calls + 1 /\ call'[p].at = at /\ call'[p].n = calls + 1 /\ call'[p].id = id
        /\ \A q \in Phones \ {p} : call'[q] = call[q]
    BY DialsSlot
  <2>2. account' = account /\ latest' = latest /\ sessions' = sessions
    BY DEF Dials
  <2>3. \A i \in Ids : ToCome(i)' => ToCome(i) /\ Unborn(i)
    <3> SUFFICES ASSUME NEW i \in Ids, ToCome(i)' PROVE ToCome(i)
      BY DEF FreshInv
    <3>1. CASE calls' < i
      BY <1>0, <2>1, <3>1 DEF ToCome
    <3>2. CASE \E q \in Phones : call'[q].at \in MakesOne /\ call'[q].n = i
      BY <1>0, <2>1, <3>2 DEF ToCome
    <3> QED
      BY <3>1, <3>2 DEF ToCome
  <2>4. \A i \in Ids : Unborn(i) => id # i
    BY UserFacts, IdsFacts DEF BeginsWell, Unborn, Mine
  <2>5. \A i \in Ids : ToCome(i)' => Unborn(i)'
    BY <2>1, <2>2, <2>3, <2>4 DEF Unborn
  <2>6. \A q \in Phones : call'[q].at # "idle" => call'[q].n <= calls'
    BY <1>0, <2>1 DEF FreshInv, AccountsTypeInv, SlotOK
  <2>7. \A q, r \in Phones : call'[q].at # "idle" /\ call'[r].at # "idle"
                             /\ call'[q].n = call'[r].n => q = r
    BY <1>0, <2>1 DEF FreshInv, AccountsTypeInv, SlotOK
  <2> QED
    BY <2>5, <2>6, <2>7 DEF FreshInv
<1>2. ASSUME NEW p \in Phones, TalksOn(p)
      PROVE  FreshInv'
  <2>1. /\ call[p].at # "idle" /\ Touched(p) \in Ids
        /\ SlotAfter(p) /\ \A q \in Phones \ {p} : call'[q] = call[q]
        /\ calls' = calls /\ SameBut(Touched(p))
    BY <1>2, TalkFootprint
  <2>2. call'[p].at \notin MakesOne /\ (call'[p].at # "idle" => call'[p].n = call[p].n)
        /\ call'[p].id \in {Nobody, Touched(p)}
    BY <2>1, IdleSlot DEF SlotAfter, MakesOne
  <2>3. \A i \in Ids : ToCome(i)' => ToCome(i) /\ i # Touched(p)
    <3> SUFFICES ASSUME NEW i \in Ids, ToCome(i)' PROVE ToCome(i) /\ i # Touched(p)
      OBVIOUS
    <3>1. CASE calls < i
      <4>1. ToCome(i) /\ Unborn(i)
        BY <3>1 DEF ToCome, FreshInv
      <4> QED
        BY <1>0, <2>1, <3>1, <4>1 DEF Touched, Unborn, FreshInv
    <3>2. CASE \E q \in Phones \ {p} : call[q].at \in MakesOne /\ call[q].n = i
      <4>1. ToCome(i) /\ Unborn(i)
        BY <3>2 DEF ToCome, FreshInv
      <4> QED
        BY <2>1, <3>2, <4>1 DEF Touched, Unborn, FreshInv, MakesOne
    <3> QED
      BY <2>1, <2>2, <3>1, <3>2 DEF ToCome
  <2>4. \A i \in Ids : ToCome(i)' => Unborn(i)'
    BY <2>1, <2>2, <2>3, IdsFacts DEF Unborn, SameBut, FreshInv
  <2> QED
    BY <2>1, <2>2, <2>4 DEF FreshInv
<1>3. ASSUME NEW d \in Ids, Expires(d)
      PROVE  FreshInv'
  <2>1. \A i \in Ids : Unborn(i) => Unborn(i)'
    BY <1>3 DEF Expires, Unborn, AccountsTypeInv, AccountsTypeOK
  <2>2. call' = call /\ calls' = calls
    BY <1>3 DEF Expires
  <2> QED
    BY <2>1, <2>2 DEF FreshInv, ToCome
<1>4. ASSUME NEW d \in Ids, NEW x \in Possessions, Gains(d, x)
      PROVE  FreshInv'
  <2>1. \A i \in Ids : Unborn(i) => Unborn(i)'
    BY <1>4 DEF Gains, Unborn, AccountsTypeInv, AccountsTypeOK
  <2>2. call' = call /\ calls' = calls
    BY <1>4 DEF Gains
  <2> QED
    BY <2>1, <2>2 DEF FreshInv, ToCome
<1>5. CASE SignIn
  <2>1. \A i \in Ids : Unborn(i) => Unborn(i)'
    BY <1>5, UserFacts DEF SignIn, Unborn, Mine
  <2>2. call' = call /\ calls' = calls
    BY <1>5 DEF SignIn
  <2> QED
    BY <2>1, <2>2 DEF FreshInv, ToCome
<1> QED
  BY <1>1, <1>2, <1>3, <1>4, <1>5 DEF AccountsNext
LEMMA FreshHolds == AccountsSpec => []FreshInv
<1>1. AccountsInit => FreshInv
  BY UserFacts, IdleSlot, IdsFacts DEF AccountsInit, FreshInv, ToCome, Unborn, MakesOne
<1>2. AccountsTypeInv /\ AccountsTypeInv' /\ FreshInv /\ ActivatedInv /\ [AccountsNext]_accountsVars => FreshInv'
  <2> SUFFICES ASSUME FreshInv, UNCHANGED accountsVars PROVE FreshInv'
    BY NextFresh
  <2> QED
    BY DEF accountsVars, FreshInv, ToCome, Unborn
<1> QED
  BY <1>1, <1>2, AccountsTypes, ActivatedHolds, PTL DEF AccountsSpec

-----------------------------------------------------------------------------
(* The token that was mailed last, and what an account leaves.               *)

Erasing == {"eraseSpaces", "eraseTokens"}

(* What holds of an account u with the token l mailed last, while the one    *)
(* request about it is at a step, having brought the token n; "idle" is for  *)
(* no request.                                                               *)
Sound(u, l, at, n) ==
  /\ u.verifyToken = IF at = "mail" THEN n ELSE l
  /\ at \notin Erasing /\ u.status = "deleted" => u.owns = {}
  /\ at = "eraseTokens" => "spaces" \notin u.owns

Kept(d) ==
  /\ \A p, q \in Phones : call[p].id = d /\ call[q].id = d => p = q
  /\ \A p \in Phones : call[p].id = d => Sound(account[d], latest[d], call[p].at, call[p].n)
  /\ (\A p \in Phones : call[p].id # d) => Sound(account[d], latest[d], "idle", 0)

KeptInv == \A d \in Ids \ raced : Kept(d)

(* A step that touches another account. *)
LEMMA KeptApart ==
  ASSUME NEW d \in Ids, Kept(d), account'[d] = account[d], latest'[d] = latest[d],
         NEW p \in Phones, call[p].id # d, call'[p].id # d,
         \A q \in Phones \ {p} : call'[q] = call[q]
  PROVE  Kept(d)'
  BY DEF Kept

(* The one request about an account turns to another step, or ends. *)
LEMMA KeptAtStep ==
  ASSUME NEW d \in Ids, NEW p \in Phones, \A q \in Phones \ {p} : call'[q] = call[q] /\ call[q].id # d,
         \/ call'[p].id = d /\ Sound(account'[d], latest'[d], call'[p].at, call'[p].n)
         \/ call'[p].id # d /\ Sound(account'[d], latest'[d], "idle", 0)
  PROVE  Kept(d)'
  BY DEF Kept

LEMMA DialsKept ==
  ASSUME AccountsTypeInv, KeptInv, NEW p \in Phones, DialsAny(p)
  PROVE  KeptInv'
<1> PICK at \in {"create", "social", "setToken", "activate", "reset", "setUp", "erase"},
         id \in Ids \union {Nobody} : Dials(p, at, id) /\ BeginsWell(at, id)
  BY DialsForms
<1>1. /\ call[p].id = Nobody /\ call'[p].at = at /\ call'[p].n = calls + 1 /\ call'[p].id = id
      /\ \A q \in Phones \ {p} : call'[q] = call[q]
  BY DialsSlot, IdleSlot
<1>2. account' = account /\ latest' = latest /\ raced \subseteq raced'
      /\ (id \in Concerned => id = Nobody \/ id \in raced')
  BY DEF Dials
<1> SUFFICES ASSUME NEW d \in Ids \ raced' PROVE Kept(d)'
  BY DEF KeptInv
<1>3. Kept(d) /\ d # Nobody
  BY <1>2, IdsFacts DEF KeptInv
<1>4. CASE id # d
  BY <1>1, <1>2, <1>3, <1>4, KeptApart
<1>5. CASE id = d
  <2>1. \A q \in Phones : call[q].id # d
    BY <1>2, <1>3, <1>5 DEF Concerned
  <2>2. Sound(account[d], latest[d], "idle", 0)
    BY <1>3, <2>1 DEF Kept
  <2>3. Sound(account[d], latest[d], at, calls + 1)
    BY <2>2 DEF Sound, Erasing
  <2> QED
    BY <1>1, <1>2, <1>5, <2>1, <2>3, KeptAtStep
<1> QED
  BY <1>4, <1>5

(* What a step makes of the account it touches. *)
LEMMA TouchedSound ==
  ASSUME AccountsTypeInv, FreshInv, NEW p \in Phones, TalksOn(p), Touched(p) \notin raced',
         call[p].at \notin MakesOne => Sound(account[call[p].id], latest[call[p].id], call[p].at, call[p].n)
  PROVE  LET d == Touched(p)
         IN \/ call'[p].id = d /\ Sound(account'[d], latest'[d], call'[p].at, call'[p].n)
            \/ call'[p].id # d /\ Sound(account'[d], latest'[d], "idle", 0)
<1> DEFINE d == Touched(p)
<1>0. /\ account \in [Ids -> User] /\ latest \in [Ids -> Ids \union {NoLink}]
      /\ SlotOK(call[p]) /\ d \in Ids /\ d # Nobody /\ call[p].at # "idle"
  BY TalkFootprint, IdsFacts DEF AccountsTypeInv, AccountsTypeOK
<1>1. call[p].at \in MakesOne => account[d] = NoUser /\ latest[d] = NoLink
  BY <1>0 DEF FreshInv, ToCome, Unborn, Touched
<1>2. CASE Creates(p)
  <2>1. call[p].at \in MakesOne /\ call[p].n = d
    BY <1>2 DEF Creates, MakesOne, Touched
  <2>2. CASE Mine = {}
    <3>1. call'[p].at = "mail" /\ call'[p].n = call[p].n /\ call'[p].id = d
      BY <1>0, <1>2, <2>1, <2>2, TurnsSlot DEF Creates
    <3>2. account'[d] = [NoUser EXCEPT !.status = "pending", !.mine = TRUE, !.verifyToken = call[p].n]
      BY <1>0, <1>2, <2>1, <2>2 DEF Creates
    <3> QED
      BY <2>1, <3>1, <3>2 DEF Sound, NoUser
  <2>3. CASE Mine # {}
    <3>1. call'[p].id = Nobody /\ account' = account /\ latest' = latest
      BY <1>2, <2>3, HangsUpSlot, IdleSlot DEF Creates
    <3> QED
      BY <1>0, <1>1, <2>1, <3>1, UserFacts DEF Sound
  <2> QED
    BY <2>2, <2>3
<1>3. CASE CreatesSocial(p)
  <2>1. call[p].at \in MakesOne /\ call[p].n = d
    BY <1>3 DEF CreatesSocial, MakesOne, Touched
  <2>2. call'[p].id = Nobody /\ latest' = latest
    BY <1>3, HangsUpSlot, IdleSlot DEF CreatesSocial
  <2>3. \/ account'[d] = account[d]
        \/ account'[d] = [NoUser EXCEPT !.status = "active", !.mine = TRUE, !.social = TRUE]
    BY <1>0, <1>3, <2>1 DEF CreatesSocial
  <2>4. account'[d].verifyToken = NoLink /\ account'[d].status # "deleted"
    <3>1. CASE account'[d] = account[d]
      BY <1>1, <2>1, <3>1, UserFacts
    <3>2. CASE account'[d] = [NoUser EXCEPT !.status = "active", !.mine = TRUE, !.social = TRUE]
      <4> DEFINE u == [NoUser EXCEPT !.status = "active", !.mine = TRUE, !.social = TRUE]
      <4>1. u.verifyToken = NoLink /\ u.status # "deleted"
        BY DEF NoUser
      <4> QED
        BY <3>2, <4>1
    <3> QED
      BY <2>3, <3>1, <3>2
  <2> QED
    BY <1>0, <1>1, <2>1, <2>2, <2>4 DEF Sound
<1>4. ASSUME call[p].at \notin MakesOne
      PROVE  d = call[p].id /\ account[d] \in User /\ Sound(account[d], latest[d], call[p].at, call[p].n)
  BY <1>0, <1>4 DEF Touched
<1>5. CASE SetsToken(p)
  <2>1. call[p].at = "setToken" /\ call[p].at \notin MakesOne
    BY <1>5 DEF SetsToken, MakesOne
  <2>2. CASE There(p)
    <3>1. call'[p].at = "mail" /\ call'[p].n = call[p].n /\ call'[p].id = d
      BY <1>0, <1>4, <1>5, <2>1, <2>2, TurnsSlot DEF SetsToken
    <3>2. account'[d] = [account[d] EXCEPT !.verifyToken = call[p].n]
      BY <1>0, <1>4, <1>5, <2>1, <2>2 DEF SetsToken
    <3> QED
      BY <1>4, <2>1, <3>1, <3>2 DEF Sound, Erasing, User
  <2>3. CASE ~There(p)
    <3>1. call'[p].id = Nobody /\ account' = account /\ latest' = latest
      BY <1>5, <2>3, HangsUpSlot, IdleSlot DEF SetsToken
    <3> QED
      BY <1>0, <1>4, <2>1, <3>1 DEF Sound, Erasing
  <2> QED
    BY <2>2, <2>3
<1>6. CASE SendsMail(p)
  <2>1. call[p].at = "mail" /\ call[p].at \notin MakesOne
    BY <1>6 DEF SendsMail, MakesOne
  <2>2. call'[p].id = Nobody /\ account' = account /\ latest'[d] = call[p].n
    BY <1>0, <1>4, <1>6, <2>1, HangsUpSlot, IdleSlot DEF SendsMail
  <2> QED
    BY <1>0, <1>4, <2>1, <2>2 DEF Sound, Erasing
<1>7. CASE UsesLink(p)
  <2>1. call[p].at \in {"activate", "reset"} /\ call[p].at \notin MakesOne
    BY <1>7 DEF UsesLink, MakesOne
  <2>2. call'[p].id = Nobody
    BY <1>7, HangsUpSlot, IdleSlot DEF UsesLink
  <2>3. CASE There(p)
    <3>1. account'[d] = AfterLink(p) /\ latest'[d] = NoLink
      BY <1>0, <1>4, <1>7, <2>1, <2>3 DEF UsesLink
    <3>2. AfterLink(p).verifyToken = NoLink /\ AfterLink(p).owns = account[d].owns
          /\ AfterLink(p).status \in {account[d].status, "unset"}
      BY <1>4, <2>1 DEF AfterLink, User
    <3> QED
      BY <1>0, <1>4, <2>1, <2>2, <3>1, <3>2 DEF Sound, Erasing
  <2>4. CASE ~There(p)
    BY <1>0, <1>4, <1>7, <2>1, <2>2, <2>4 DEF UsesLink, Sound, Erasing
  <2> QED
    BY <2>3, <2>4
<1>8. CASE SetsUp(p)
  <2>1. call[p].at = "setUp" /\ call[p].at \notin MakesOne
    BY <1>8 DEF SetsUp, MakesOne
  <2>2. call'[p].id = Nobody /\ latest' = latest
        /\ account'[d] = [account[d] EXCEPT !.status = "active"]
    BY <1>0, <1>4, <1>8, <2>1, HangsUpSlot, IdleSlot DEF SetsUp
  <2>3. account'[d].status = "active" /\ account'[d].verifyToken = account[d].verifyToken
    BY <1>4, <2>1, <2>2 DEF User
  <2> QED
    BY <1>0, <1>4, <2>1, <2>2, <2>3 DEF Sound, Erasing
<1>9. CASE Erases(p)
  <2>1. call[p].at = "erase" /\ call[p].at \notin MakesOne
    BY <1>9 DEF Erases, MakesOne
  <2>2. call'[p].at = "eraseSpaces" /\ call'[p].id = d
    BY <1>0, <1>4, <1>9, <2>1, TurnsSlot DEF Erases
  <2>3. account'[d].verifyToken = NoLink /\ latest'[d] = NoLink
    BY <1>0, <1>4, <1>9, <2>1 DEF Erases, User
  <2> QED
    BY <2>2, <2>3 DEF Sound, Erasing
<1>10. CASE ErasesBelongings(p)
  <2>1. call[p].at \in Erasing /\ call[p].at \notin MakesOne
    BY <1>10 DEF ErasesBelongings, MakesOne, Erasing
  <2>2. CASE call[p].at = "eraseSpaces"
    <3>1. call'[p].at = "eraseTokens" /\ call'[p].id = d /\ latest' = latest
      BY <1>0, <1>4, <1>10, <2>1, <2>2, TurnsSlot DEF ErasesBelongings
    <3>2. account'[d] = [account[d] EXCEPT !.owns = account[d].owns \ {"spaces"}]
      BY <1>0, <1>4, <1>10, <2>1, <2>2 DEF ErasesBelongings
    <3>3. account'[d].verifyToken = account[d].verifyToken /\ "spaces" \notin account'[d].owns
      BY <1>4, <2>1, <3>2 DEF User
    <3> QED
      BY <1>4, <2>1, <2>2, <3>1, <3>3 DEF Sound, Erasing
  <2>3. CASE call[p].at = "eraseTokens"
    <3>1. call'[p].id = Nobody /\ latest' = latest
      BY <1>10, <2>3, HangsUpSlot, IdleSlot DEF ErasesBelongings
    <3>2. account'[d] = [account[d] EXCEPT !.owns = account[d].owns \ {"devices"}]
      BY <1>0, <1>4, <1>10, <2>1, <2>3 DEF ErasesBelongings
    <3>3. account'[d].verifyToken = account[d].verifyToken
          /\ account'[d].owns = account[d].owns \ {"devices"}
      BY <1>4, <2>1, <3>2 DEF User
    <3>4. account'[d].owns = {}
      BY <1>4, <2>1, <2>3, <3>3 DEF Sound, User, Possessions
    <3> QED
      BY <1>0, <1>4, <2>1, <2>3, <3>1, <3>3, <3>4 DEF Sound, Erasing
  <2> QED
    BY <2>1, <2>2, <2>3 DEF Erasing
<1>11. CASE CallFails(p)
  <2>1. call[p].at \in MakesOne
    BY <1>0, <1>4, <1>11 DEF CallFails
  <2>2. call'[p].id = Nobody /\ account' = account /\ latest' = latest
    BY <1>11, HangsUpSlot, IdleSlot DEF CallFails
  <2> QED
    BY <1>0, <1>1, <2>1, <2>2, UserFacts DEF Sound
<1> QED
  BY <1>2, <1>3, <1>5, <1>6, <1>7, <1>8, <1>9, <1>10, <1>11 DEF TalksOn

LEMMA TalksKept ==
  ASSUME AccountsTypeInv, FreshInv, KeptInv, NEW p \in Phones, TalksOn(p)
  PROVE  KeptInv'
<1>1. /\ call[p].at # "idle" /\ Touched(p) \in Ids
      /\ SlotAfter(p) /\ \A q \in Phones \ {p} : call'[q] = call[q]
      /\ raced \subseteq raced' /\ SameBut(Touched(p))
  BY TalkFootprint
<1>2. SlotOK(call[p]) /\ call'[p].id \in {Nobody, Touched(p)} /\ Nobody \notin Ids
  BY <1>1, IdleSlot, IdsFacts DEF SlotAfter, AccountsTypeInv
<1> SUFFICES ASSUME NEW d \in Ids \ raced' PROVE Kept(d)'
  BY DEF KeptInv
<1>3. Kept(d)
  BY <1>1 DEF KeptInv
<1>4. CASE d # Touched(p)
  <2>1. call[p].id # d /\ call'[p].id # d
    BY <1>2, <1>4 DEF Touched, SlotOK
  <2> QED
    BY <1>1, <1>3, <1>4, <2>1, KeptApart DEF SameBut
<1>5. CASE d = Touched(p)
  <2>1. \A q \in Phones \ {p} : call[q].id # d
    <3>1. CASE call[p].at \in MakesOne
      BY <1>5, <3>1 DEF Touched, FreshInv, ToCome, Unborn
    <3>2. CASE call[p].at \notin MakesOne
      BY <1>3, <1>5, <3>2 DEF Touched, Kept
    <3> QED
      BY <3>1, <3>2
  <2>2. call[p].at \notin MakesOne => Sound(account[call[p].id], latest[call[p].id], call[p].at, call[p].n)
    BY <1>3, <1>5 DEF Touched, Kept
  <2>3. \/ call'[p].id = d /\ Sound(account'[d], latest'[d], call'[p].at, call'[p].n)
        \/ call'[p].id # d /\ Sound(account'[d], latest'[d], "idle", 0)
    BY <1>5, <2>2, TouchedSound
  <2> QED
    BY <1>1, <2>1, <2>3, KeptAtStep
<1> QED
  BY <1>4, <1>5

LEMMA NextKept ==
  ASSUME AccountsTypeInv, FreshInv, KeptInv, AccountsNext
  PROVE  KeptInv'
<1>0. account \in [Ids -> User] /\ latest \in [Ids -> Ids \union {NoLink}]
  BY DEF AccountsTypeInv, AccountsTypeOK
<1>1. ASSUME NEW e \in Ids, Expires(e)
      PROVE  KeptInv'
  <2> SUFFICES ASSUME NEW d \in Ids \ raced' PROVE Kept(d)'
    BY DEF KeptInv
  <2>1. Kept(d) /\ call' = call
    BY <1>1 DEF Expires, KeptInv
  <2>2. CASE d # e
    BY <1>0, <1>1, <2>1, <2>2 DEF Expires, Kept
  <2>3. CASE d = e
    <3>1. \A q \in Phones : call[q].id # d
      BY <1>1, <2>3 DEF Expires, Concerned
    <3>2. Sound(account'[d], latest'[d], "idle", 0)
      BY <1>0, <1>1, <2>3, UserFacts DEF Expires, Sound
    <3> QED
      BY <2>1, <3>1, <3>2 DEF Kept
  <2> QED
    BY <2>2, <2>3
<1>2. ASSUME NEW e \in Ids, NEW x \in Possessions, Gains(e, x)
      PROVE  KeptInv'
  <2> SUFFICES ASSUME NEW d \in Ids \ raced' PROVE Kept(d)'
    BY DEF KeptInv
  <2>1. Kept(d) /\ call' = call /\ latest' = latest
    BY <1>2 DEF Gains, KeptInv
  <2>2. CASE d # e
    BY <1>0, <1>2, <2>1, <2>2 DEF Gains, Kept
  <2>3. CASE d = e
    <3>1. \A q \in Phones : call[q].id # d
      BY <1>2, <2>3 DEF Gains, Concerned
    <3>2. account'[d].verifyToken = account[d].verifyToken /\ account'[d].status = "active"
      BY <1>0, <1>2, <2>3 DEF Gains, User
    <3>3. Sound(account'[d], latest'[d], "idle", 0)
      BY <2>1, <3>1, <3>2 DEF Kept, Sound, Erasing
    <3> QED
      BY <2>1, <3>1, <3>3 DEF Kept
  <2> QED
    BY <2>2, <2>3
<1>3. CASE SignIn
  BY <1>3 DEF SignIn, KeptInv, Kept
<1> QED
  BY <1>1, <1>2, <1>3, DialsKept, TalksKept DEF AccountsNext

(* The link mailed last is the one an account takes until it is used, and a  *)
(* deleted account leaves nothing: sign up, activation, reset, deletion and  *)
(* their mails, for accounts that no two requests overlapped on.             *)
THEOREM AccountsSettle == AccountsSpec => []SettledAccounts
<1>1. AccountsInit => KeptInv
  BY UserFacts, IdleSlot, IdsFacts DEF AccountsInit, KeptInv, Kept, Sound, Erasing
<1>2. AccountsTypeInv /\ FreshInv /\ KeptInv /\ [AccountsNext]_accountsVars => KeptInv'
  <2> SUFFICES ASSUME KeptInv, UNCHANGED accountsVars PROVE KeptInv'
    BY NextKept
  <2> QED
    BY DEF accountsVars, KeptInv, Kept
<1>3. KeptInv => SettledAccounts
  BY DEF KeptInv, Kept, Sound, Erasing, SettledAccounts, Concerned
<1> QED
  BY <1>1, <1>2, <1>3, AccountsTypes, FreshHolds, PTL DEF AccountsSpec

-----------------------------------------------------------------------------
(* The watching documents, and the notifications that skip whom they name.   *)

(* The registry makes a step of its own, whatever the watching does. *)
LEMMA WatchingStepsPresence ==
  ASSUME [WatchingNext]_watchingVars PROVE [PresenceNext]_presenceVars
<1>1. CASE UNCHANGED watchingVars
  BY <1>1 DEF watchingVars
<1>2. CASE WatchingPresence
  BY <1>2 DEF WatchingPresence, PresenceNext
<1>3. ASSUME NEW s \in Sockets, NEW r \in Rooms, HandleJoinChat(s, r) \/ HandleLeaveChat(s, r)
      PROVE  UNCHANGED presenceVars
  BY <1>3 DEF HandleJoinChat, HandleLeaveChat
<1>4. ASSUME NEW s \in Sockets, WatchingDisconnect(s) PROVE PresenceNext
  BY <1>4 DEF WatchingDisconnect, PresenceNext
<1>5. ASSUME NEW left, ProcessEnds(left) PROVE PresenceNext
  BY <1>5 DEF ProcessEnds, PresenceNext
<1>6. ASSUME NEW w \in writes, ExecuteCreate(w) \/ ExecuteDelete(w)
      PROVE  [PresenceNext]_presenceVars
  BY <1>5, <1>6 DEF ExecuteCreate, ExecuteDelete
<1>7. ASSUME NEW r \in Rooms, NEW addressed \in SUBSET Tokens, SendNotification(r, addressed)
      PROVE  UNCHANGED presenceVars
  BY <1>7 DEF SendNotification
<1>8. CASE PushSent
  BY <1>8 DEF PushSent
<1> QED
  BY <1>1, <1>2, <1>3, <1>4, <1>5, <1>6, <1>7, <1>8 DEF WatchingNext

(* The composition implements the registry on its own. *)
THEOREM WatchingImplementsPresence == WatchingSpec => PresenceSpec
<1>1. WatchingInit => PresenceInit
  BY DEF WatchingInit
<1>2. [WatchingNext]_watchingVars => [PresenceNext]_presenceVars
  BY WatchingStepsPresence
<1> QED BY <1>1, <1>2, PTL DEF WatchingSpec, PresenceSpec

-----------------------------------------------------------------------------
(* The types, without those of the registry. *)
WatchTypeOK ==
  /\ watch \subseteq Doc
  /\ writes \subseteq Write
  /\ viewing \in [Sockets -> SUBSET Rooms]
  /\ push \in {NoPush} \union [room : Rooms, tokens : SUBSET Tokens]
  /\ issued \in [Sockets -> 0..MaxEvents]
  /\ tidy \subseteq Sockets
  /\ recorded \in [Sockets -> SUBSET Rooms]

LEMMA WriteTypes ==
  ASSUME NEW w \in Write
  PROVE  /\ w.sock \in Sockets
         /\ w.op = "create" => w.doc \in Doc
         /\ w.op \in {"create", "delete"}
  BY DEF Write

LEMMA IssuedTypes ==
  ASSUME WatchTypeOK, NEW s \in Sockets
  PROVE  /\ DeleteOf(s) \in Write
         /\ CountEvent(s) => issued' \in [Sockets -> 0..MaxEvents]
         /\ \A ok : StaysTidyIf(s, ok) => tidy' \subseteq Sockets
  BY WatchingAssumption DEF WatchTypeOK, DeleteOf, Write, CountEvent, StaysTidyIf

LEMMA CreateTypes ==
  ASSUME PresenceTypeOK, WatchTypeOK, NEW s \in Sockets, NEW u \in UsersOf(s), NEW r \in Rooms,
         TokenOf[s] # NoToken
  PROVE  CreateOf(s, u, r) \in Write
<1>1. u \in Users
  BY DEF UsersOf, PresenceTypeOK
<1>2. TokenOf[s] \in Tokens
  BY WatchingAssumption
<1> QED BY <1>1, <1>2 DEF CreateOf, Write, Doc, WatchTypeOK

LEMMA EndTypes ==
  ASSUME WatchTypeOK, NEW left \in SUBSET Write, ProcessEnds(left) PROVE WatchTypeOK'
  BY DEF ProcessEnds, WatchTypeOK

LEMMA WatchTypesNext ==
  ASSUME WatchingTypeOK, [WatchingNext]_watchingVars PROVE WatchTypeOK'
<1>0. PresenceTypeOK /\ WatchTypeOK
  BY DEF WatchingTypeOK, WatchTypeOK
<1>1. CASE UNCHANGED <<chatVars, push>>
  BY <1>0, <1>1 DEF chatVars, WatchTypeOK
<1>2. ASSUME NEW s \in Sockets, NEW r \in Rooms, HandleJoinChat(s, r) PROVE WatchTypeOK'
  <2>1. writes' \subseteq Write
    BY <1>0, <1>2, CreateTypes DEF HandleJoinChat, WatchTypeOK
  <2>2. viewing' \in [Sockets -> SUBSET Rooms]
    BY <1>0, <1>2 DEF HandleJoinChat, WatchTypeOK
  <2>3. issued' \in [Sockets -> 0..MaxEvents] /\ tidy' \subseteq Sockets
    BY <1>0, <1>2, IssuedTypes DEF HandleJoinChat
  <2> QED BY <1>0, <1>2, <2>1, <2>2, <2>3 DEF HandleJoinChat, WatchTypeOK
<1>3. ASSUME NEW s \in Sockets, NEW r \in Rooms, HandleLeaveChat(s, r) PROVE WatchTypeOK'
  <2>1. writes' \subseteq Write
    BY <1>0, <1>3, IssuedTypes DEF HandleLeaveChat, WatchTypeOK
  <2>2. viewing' \in [Sockets -> SUBSET Rooms] /\ recorded' \in [Sockets -> SUBSET Rooms]
    BY <1>0, <1>3 DEF HandleLeaveChat, WatchTypeOK
  <2>3. issued' \in [Sockets -> 0..MaxEvents] /\ tidy' \subseteq Sockets
    BY <1>0, <1>3, IssuedTypes DEF HandleLeaveChat
  <2> QED BY <1>0, <1>3, <2>1, <2>2, <2>3 DEF HandleLeaveChat, WatchTypeOK
<1>4. ASSUME NEW s \in Sockets, WatchingDisconnect(s) PROVE WatchTypeOK'
  <2>1. writes' \subseteq Write /\ tidy' \subseteq Sockets
    BY <1>0, <1>4, IssuedTypes DEF WatchingDisconnect, WatchTypeOK
  <2>2. viewing' \in [Sockets -> SUBSET Rooms] /\ recorded' \in [Sockets -> SUBSET Rooms]
    BY <1>0, <1>4 DEF WatchingDisconnect, WatchTypeOK
  <2> QED BY <1>0, <1>4, <2>1, <2>2 DEF WatchingDisconnect, WatchTypeOK
<1>5. ASSUME NEW w \in writes, ExecuteCreate(w) PROVE WatchTypeOK'
  <2>1. w.sock \in Sockets /\ w.doc \in Doc
    BY <1>0, <1>5, WriteTypes DEF ExecuteCreate, WatchTypeOK
  <2>2. CASE ProcessEnds(writes \ {w})
    BY <1>0, <2>2, EndTypes DEF WatchTypeOK
  <2>3. CASE ~ProcessEnds(writes \ {w})
    <3>1. NewlyRecorded(w) \subseteq Rooms
      BY <1>0, <2>1 DEF NewlyRecorded, WatchTypeOK
    <3> QED BY <1>0, <1>5, <2>1, <2>3, <3>1 DEF ExecuteCreate, WatchTypeOK
  <2> QED BY <2>2, <2>3
<1>6. ASSUME NEW w \in writes, ExecuteDelete(w) PROVE WatchTypeOK'
  BY <1>0, <1>6 DEF ExecuteDelete, WatchTypeOK
<1>7. ASSUME NEW r \in Rooms, NEW addressed \in SUBSET Tokens, SendNotification(r, addressed)
      PROVE  WatchTypeOK'
  <2>1. push' \in [room : Rooms, tokens : SUBSET Tokens]
    BY <1>7 DEF SendNotification
  <2> QED BY <1>0, <1>7, <2>1 DEF SendNotification, chatVars, WatchTypeOK
<1>8. CASE PushSent
  BY <1>0, <1>8 DEF PushSent, chatVars, WatchTypeOK
<1>9. CASE ProcessEnds(writes)
  BY <1>0, <1>9, EndTypes DEF WatchTypeOK
<1>10. CASE WatchingPresence
  BY <1>1, <1>10 DEF WatchingPresence
<1>11. CASE UNCHANGED watchingVars
  BY <1>1, <1>11 DEF watchingVars
<1> QED
  BY <1>2, <1>3, <1>4, <1>5, <1>6, <1>7, <1>8, <1>9, <1>10, <1>11 DEF WatchingNext

(* The collection, the writes in flight and the histories keep their types: *)
(* a document is of a registered user and a token.                          *)
THEOREM WatchingTypes == WatchingSpec => []WatchingTypeOK
<1>1. WatchingInit => WatchingTypeOK
  BY PresenceInvInit, WatchingAssumption
     DEF WatchingInit, WatchingTypeOK, PresenceInv
<1>2. PresenceTypeOK' /\ WatchingTypeOK /\ [WatchingNext]_watchingVars => WatchingTypeOK'
  BY WatchTypesNext DEF WatchTypeOK, WatchingTypeOK
<1>3. WatchingSpec => []PresenceTypeOK
  BY WatchingImplementsPresence, PresenceTypes, PTL
<1> QED BY <1>1, <1>2, <1>3, PTL DEF WatchingSpec

-----------------------------------------------------------------------------
(* A document, and a create in flight, carry the token of their socket. *)
DocsCarryTokens ==
  /\ \A d \in watch : d.token = TokenOf[d.sock]
  /\ \A w \in writes : w.op = "create" => w.doc.sock = w.sock /\ w.doc.token = TokenOf[w.sock]

(* Only an open socket is in a chat room. *)
OpenViewers == \A s \in Sockets : ~Open(s) => viewing[s] = {}

(* A socket whose events never overlapped: it has one write in flight at     *)
(* most, a create for the room it is in while it has no document, or a       *)
(* delete of its only document once it is in no room; and with none in       *)
(* flight its documents are the room it is in.                               *)
TidySocket(s) ==
  /\ \A v, w \in InFlight(s) : v = w
  /\ \A d, e \in DocsOf(s) : d = e
  /\ \A w \in InFlight(s) :
       /\ w.op = "create" => DocsOf(s) = {} /\ viewing[s] = {w.doc.room}
       /\ w.op = "delete" => viewing[s] = {}
  /\ InFlight(s) = {} =>
       {d.room : d \in DocsOf(s)} = IF TokenOf[s] = NoToken THEN {} ELSE viewing[s]

SettledInv ==
  /\ DocsCarryTokens
  /\ OpenViewers
  /\ \A s \in tidy : TidySocket(s)

(* What a step leaves alone of a socket leaves it tidy. *)
LEMMA SameTidy ==
  ASSUME NEW s, TidySocket(s), DocsOf(s)' = DocsOf(s), InFlight(s)' = InFlight(s),
         viewing'[s] = viewing[s]
  PROVE  TidySocket(s)'
<1>1. {d.room : d \in DocsOf(s)'} = {d.room : d \in DocsOf(s)}
  OBVIOUS
<1> QED BY <1>1 DEF TidySocket

(* A write of one socket is not in flight for another. *)
LEMMA FlightOf ==
  ASSUME NEW s, NEW w
  PROVE  /\ w.sock = s /\ writes' = writes \union {w} => InFlight(s)' = InFlight(s) \union {w}
         /\ w.sock # s /\ writes' = writes \union {w} => InFlight(s)' = InFlight(s)
         /\ writes' = writes \ {w} => InFlight(s)' = InFlight(s) \ {w}
         /\ w.sock # s /\ writes' = writes \ {w} => InFlight(s)' = InFlight(s)
  BY DEF InFlight

LEMMA SameDocs == ASSUME NEW s, watch' = watch PROVE DocsOf(s)' = DocsOf(s)
  BY DEF DocsOf

(* handleJoinChat *)
LEMMA JoinKeepsTidy ==
  ASSUME WatchingTypeOK, SettledInv, NEW s \in Sockets, NEW r \in Rooms, HandleJoinChat(s, r)
  PROVE  SettledInv'
<1>1. /\ Open(s) /\ UNCHANGED <<phase, watch>>
      /\ viewing'[s] = viewing[s] \union {r}
      /\ \A t \in Sockets \ {s} : viewing'[t] = viewing[t]
      /\ StaysTidyIf(s, viewing[s] = {} /\ UsersOf(s) # {})
  BY DEF HandleJoinChat, WatchingTypeOK, presenceVars
<1>2. \/ (UsersOf(s) = {} \/ TokenOf[s] = NoToken) /\ writes' = writes
      \/ TokenOf[s] # NoToken /\ \E u \in UsersOf(s) : writes' = writes \union {CreateOf(s, u, r)}
  BY DEF HandleJoinChat
<1>3. \A u : /\ CreateOf(s, u, r).op = "create" /\ CreateOf(s, u, r).sock = s
             /\ CreateOf(s, u, r).doc.sock = s /\ CreateOf(s, u, r).doc.room = r
             /\ CreateOf(s, u, r).doc.token = TokenOf[s]
  BY DEF CreateOf
<1>4. DocsCarryTokens'
  BY <1>1, <1>2, <1>3 DEF SettledInv, DocsCarryTokens
<1>5. OpenViewers'
  BY <1>1 DEF SettledInv, OpenViewers, Open
<1>6. ASSUME NEW t \in tidy', t # s PROVE TidySocket(t)'
  <2>1. t \in tidy /\ t \in Sockets
    BY <1>1, <1>6 DEF StaysTidyIf, WatchingTypeOK
  <2>2. InFlight(t)' = InFlight(t)
    BY <1>2, <1>3, <1>6, FlightOf DEF InFlight
  <2> QED BY <1>1, <1>6, <2>1, <2>2, SameDocs, SameTidy DEF SettledInv
<1>7. ASSUME s \in tidy' PROVE TidySocket(s)'
  <2>1. s \in tidy /\ viewing[s] = {} /\ UsersOf(s) # {} /\ InFlight(s) = {}
    BY <1>1, <1>7 DEF StaysTidyIf
  <2>2. DocsOf(s) = {}
    BY <2>1 DEF SettledInv, TidySocket
  <2>3. DocsOf(s)' = {}
    BY <1>1, <2>2, SameDocs
  <2>4. viewing'[s] = {r}
    BY <1>1, <2>1
  <2>5. CASE TokenOf[s] = NoToken
    <3>1. InFlight(s)' = {}
      BY <1>2, <2>1, <2>5 DEF InFlight
    <3> QED BY <2>3, <2>5, <3>1 DEF TidySocket
  <2>6. CASE TokenOf[s] # NoToken
    <3>1. PICK u : writes' = writes \union {CreateOf(s, u, r)}
      BY <1>2, <2>1, <2>6
    <3>2. InFlight(s)' = {CreateOf(s, u, r)}
      BY <1>3, <2>1, <3>1, FlightOf
    <3> QED BY <1>3, <2>3, <2>4, <3>2 DEF TidySocket
  <2> QED BY <2>5, <2>6
<1> QED BY <1>4, <1>5, <1>6, <1>7 DEF SettledInv

(* What handleLeaveChat and handleDisconnect have in common: a delete. *)
LEMMA DeleteKeepsTidy ==
  ASSUME WatchingTypeOK, SettledInv, NEW s \in Sockets, NEW ok,
         writes' = writes \union {DeleteOf(s)}, watch' = watch,
         ok => viewing'[s] = {},
         \A t \in Sockets \ {s} : viewing'[t] = viewing[t],
         StaysTidyIf(s, ok)
  PROVE  DocsCarryTokens' /\ \A t \in tidy' : TidySocket(t)'
<1>1. DeleteOf(s).op = "delete" /\ DeleteOf(s).sock = s
  BY DEF DeleteOf
<1>2. DocsCarryTokens'
  BY <1>1 DEF SettledInv, DocsCarryTokens
<1>3. ASSUME NEW t \in tidy', t # s PROVE TidySocket(t)'
  <2>1. t \in tidy /\ t \in Sockets
    BY <1>3 DEF StaysTidyIf, WatchingTypeOK
  <2>2. InFlight(t)' = InFlight(t)
    BY <1>1, <1>3, FlightOf
  <2> QED BY <1>3, <2>1, <2>2, SameDocs, SameTidy DEF SettledInv
<1>4. ASSUME s \in tidy' PROVE TidySocket(s)'
  <2>1. s \in tidy /\ ok /\ InFlight(s) = {}
    BY <1>4 DEF StaysTidyIf
  <2>2. \A d, e \in DocsOf(s)' : d = e
    BY <2>1, SameDocs DEF SettledInv, TidySocket
  <2>3. InFlight(s)' = {DeleteOf(s)}
    BY <1>1, <2>1, FlightOf
  <2> QED BY <1>1, <2>1, <2>2, <2>3 DEF TidySocket
<1> QED BY <1>2, <1>3, <1>4

(* The end of the process: a socket that stays tidy was not open and had no  *)
(* write in flight.                                                          *)
LEMMA EndKeepsTidy ==
  ASSUME WatchingTypeOK, SettledInv, NEW left \in SUBSET writes, ProcessEnds(left)
  PROVE  SettledInv'
<1>1. /\ watch' = watch /\ writes' \subseteq writes
      /\ viewing' = [s \in Sockets |-> {}]
      /\ tidy' = tidy \ {s \in Sockets : Open(s) \/ InFlight(s) # {}}
  BY DEF ProcessEnds
<1>2. DocsCarryTokens' /\ OpenViewers'
  BY <1>1 DEF SettledInv, DocsCarryTokens, OpenViewers
<1>3. ASSUME NEW s \in tidy' PROVE TidySocket(s)'
  <2>1. s \in tidy /\ s \in Sockets /\ ~Open(s) /\ InFlight(s) = {}
    BY <1>1 DEF WatchingTypeOK
  <2>2. viewing[s] = {} /\ viewing'[s] = {}
    BY <1>1, <2>1 DEF SettledInv, OpenViewers
  <2>3. InFlight(s)' = InFlight(s)
    BY <1>1, <2>1 DEF InFlight
  <2> QED BY <1>1, <2>1, <2>2, <2>3, SameDocs, SameTidy DEF SettledInv
<1> QED BY <1>2, <1>3 DEF SettledInv

(* The database executes a create. *)
LEMMA CreateKeepsTidy ==
  ASSUME WatchingTypeOK, SettledInv, NEW w \in writes, ExecuteCreate(w)
  PROVE  SettledInv'
<1>1. /\ w.op = "create" /\ w.sock \in Sockets /\ w.doc \in Doc
      /\ w.doc.sock = w.sock /\ w.doc.token = TokenOf[w.sock]
  BY WriteTypes DEF ExecuteCreate, WatchingTypeOK, SettledInv, DocsCarryTokens
<1>2. w.doc.token # NoToken
  BY <1>1, WatchingAssumption DEF Doc
<1>3. w \in InFlight(w.sock)
  BY DEF InFlight
<1>4. CASE ProcessEnds(writes \ {w})
  BY <1>4, EndKeepsTidy
<1>5. CASE ~ProcessEnds(writes \ {w})
  <2>1. /\ writes' = writes \ {w} /\ UNCHANGED <<phase, viewing, tidy>>
        /\ watch' = watch \union {w.doc}
    BY <1>5 DEF ExecuteCreate, presenceVars
  <2>2. DocsCarryTokens' /\ OpenViewers'
    BY <1>1, <2>1 DEF SettledInv, DocsCarryTokens, OpenViewers, Open
  <2>3. ASSUME NEW s \in tidy, s # w.sock PROVE TidySocket(s)'
    <3>1. DocsOf(s)' = DocsOf(s)
      BY <1>1, <2>1, <2>3 DEF DocsOf
    <3>2. InFlight(s)' = InFlight(s)
      BY <2>1, <2>3, FlightOf
    <3> QED BY <2>1, <3>1, <3>2, SameTidy DEF SettledInv
  <2>4. ASSUME w.sock \in tidy PROVE TidySocket(w.sock)'
    <3>0. PICK s : s = w.sock
      OBVIOUS
    <3>1. DocsOf(s) = {} /\ viewing[s] = {w.doc.room} /\ InFlight(s) = {w}
      BY <1>1, <1>3, <2>4, <3>0 DEF SettledInv, TidySocket
    <3>2. DocsOf(s)' = {w.doc}
      BY <1>1, <2>1, <3>0, <3>1 DEF DocsOf
    <3>3. InFlight(s)' = {}
      BY <2>1, <3>1, FlightOf
    <3>4. viewing'[s] = {w.doc.room} /\ TokenOf[s] # NoToken
      BY <1>1, <1>2, <2>1, <3>0, <3>1
    <3>5. TidySocket(s)'
      BY <3>2, <3>3, <3>4 DEF TidySocket
    <3> QED BY <3>0, <3>5
  <2> QED BY <2>1, <2>2, <2>3, <2>4 DEF SettledInv
<1> QED BY <1>4, <1>5

(* The database executes a delete. *)
LEMMA RemoveKeepsTidy ==
  ASSUME WatchingTypeOK, SettledInv, NEW w \in writes, ExecuteDelete(w)
  PROVE  SettledInv'
<1>1. /\ w.op = "delete" /\ writes' = writes \ {w} /\ UNCHANGED <<phase, viewing, tidy>>
      /\ \/ DocsOf(w.sock) = {} /\ watch' = watch
         \/ \E d \in DocsOf(w.sock) : watch' = watch \ {d}
  BY DEF ExecuteDelete, presenceVars
<1>2. w \in InFlight(w.sock)
  BY DEF InFlight
<1>3. DocsCarryTokens' /\ OpenViewers'
  BY <1>1 DEF SettledInv, DocsCarryTokens, OpenViewers, Open
<1>4. ASSUME NEW s \in tidy, s # w.sock PROVE TidySocket(s)'
  <2>1. DocsOf(s)' = DocsOf(s)
    BY <1>1, <1>4 DEF DocsOf
  <2>2. InFlight(s)' = InFlight(s)
    BY <1>1, <1>4, FlightOf
  <2> QED BY <1>1, <2>1, <2>2, SameTidy DEF SettledInv
<1>5. ASSUME w.sock \in tidy PROVE TidySocket(w.sock)'
  <2>0. PICK s : s = w.sock
    OBVIOUS
  <2>1. /\ viewing[s] = {} /\ InFlight(s) = {w}
        /\ \A d, e \in DocsOf(s) : d = e
    BY <1>1, <1>2, <1>5, <2>0 DEF SettledInv, TidySocket
  <2>2. DocsOf(s)' = {}
    BY <1>1, <2>0, <2>1 DEF DocsOf
  <2>3. InFlight(s)' = {}
    BY <1>1, <2>1, FlightOf
  <2>4. viewing'[s] = {}
    BY <1>1, <2>1
  <2>5. TidySocket(s)'
    BY <2>2, <2>3, <2>4 DEF TidySocket
  <2> QED BY <2>0, <2>5
<1> QED BY <1>1, <1>3, <1>4, <1>5 DEF SettledInv

LEMMA SettledNext ==
  ASSUME WatchingTypeOK, SettledInv, [WatchingNext]_watchingVars PROVE SettledInv'
<1>1. ASSUME UNCHANGED <<watch, writes, viewing, tidy>>,
             \A s \in Sockets : ~Open(s)' => ~Open(s)
      PROVE  SettledInv'
  <2>1. DocsCarryTokens' /\ OpenViewers'
    BY <1>1 DEF SettledInv, DocsCarryTokens, OpenViewers
  <2>2. ASSUME NEW s \in tidy PROVE TidySocket(s)'
    <3>1. InFlight(s)' = InFlight(s)
      BY <1>1 DEF InFlight
    <3> QED BY <1>1, <3>1, SameDocs, SameTidy DEF SettledInv
  <2> QED BY <1>1, <2>1, <2>2 DEF SettledInv
<1>2. ASSUME NEW s \in Sockets, NEW r \in Rooms, HandleLeaveChat(s, r) PROVE SettledInv'
  <2>1. /\ Open(s) /\ UNCHANGED <<phase, watch>>
        /\ writes' = writes \union {DeleteOf(s)}
        /\ viewing'[s] = viewing[s] \ {r}
        /\ \A t \in Sockets \ {s} : viewing'[t] = viewing[t]
        /\ StaysTidyIf(s, viewing[s] \subseteq {r})
    BY <1>2 DEF HandleLeaveChat, WatchingTypeOK, presenceVars
  <2>2. OpenViewers'
    BY <2>1 DEF SettledInv, OpenViewers, Open
  <2>3. viewing[s] \subseteq {r} => viewing'[s] = {}
    BY <2>1
  <2> QED BY <2>1, <2>2, <2>3, DeleteKeepsTidy DEF SettledInv
<1>3. ASSUME NEW s \in Sockets, WatchingDisconnect(s) PROVE SettledInv'
  <2>1. /\ HandleDisconnect(s) /\ watch' = watch
        /\ writes' = writes \union {DeleteOf(s)}
        /\ viewing'[s] = {}
        /\ \A t \in Sockets \ {s} : viewing'[t] = viewing[t]
        /\ StaysTidyIf(s, TRUE)
    BY <1>3 DEF WatchingDisconnect, WatchingTypeOK
  <2>2. OpenViewers'
    BY <2>1 DEF HandleDisconnect, SettledInv, OpenViewers, Open, WatchingTypeOK, PresenceTypeOK
  <2> QED BY <2>1, <2>2, DeleteKeepsTidy DEF SettledInv
<1>4. CASE WatchingPresence
  <2>1. \A s \in Sockets : ~Open(s)' => ~Open(s)
    BY <1>4 DEF WatchingPresence, Connect, JoinAdminRoom, Open, WatchingTypeOK, PresenceTypeOK
  <2> QED BY <1>1, <1>4, <2>1 DEF WatchingPresence, chatVars
<1>5. ASSUME NEW r \in Rooms, NEW addressed \in SUBSET Tokens, SendNotification(r, addressed)
      PROVE  SettledInv'
  BY <1>1, <1>5 DEF SendNotification, chatVars, presenceVars, Open
<1>6. CASE PushSent
  BY <1>1, <1>6 DEF PushSent, chatVars, presenceVars, Open
<1>7. CASE UNCHANGED watchingVars
  BY <1>1, <1>7 DEF watchingVars, chatVars, presenceVars, Open
<1>8. CASE WatchingNext
  BY <1>2, <1>3, <1>4, <1>5, <1>6, <1>8, JoinKeepsTidy, CreateKeepsTidy, RemoveKeepsTidy,
     EndKeepsTidy DEF WatchingNext
<1> QED BY <1>7, <1>8

LEMMA SettledHolds == WatchingSpec => []SettledInv
<1>1. WatchingInit => SettledInv
  BY DEF WatchingInit, SettledInv, DocsCarryTokens, OpenViewers, TidySocket, DocsOf, InFlight
<1>2. WatchingTypeOK /\ SettledInv /\ [WatchingNext]_watchingVars => SettledInv'
  BY SettledNext
<1> QED BY <1>1, <1>2, WatchingTypes, PTL DEF WatchingSpec

(* Once its writes are executed, the documents of a socket whose events did  *)
(* not overlap are the room it is in: none is left when it disconnects.      *)
THEOREM SettledDocs == WatchingSpec => []SettledDocsExact
<1>1. SettledInv => SettledDocsExact
  BY DEF SettledInv, TidySocket, SettledDocsExact, Settled
<1> QED BY <1>1, SettledHolds, PTL

(* A push is begun by sendNotification only, which reads the documents. *)
LEMMA PushNext ==
  ASSUME WatchingTypeOK, SettledInv, [WatchingNext]_watchingVars,
         push = NoPush, push' # NoPush
  PROVE  \A s \in Sockets : Settled(s) /\ push'.room \in viewing[s]
                            => TokenOf[s] \notin push'.tokens
<1>1. PICK r \in Rooms, addressed \in SUBSET Tokens : SendNotification(r, addressed)
  BY DEF WatchingNext, watchingVars, WatchingPresence, HandleJoinChat, HandleLeaveChat,
         WatchingDisconnect, ExecuteCreate, ExecuteDelete, PushSent, ProcessEnds
<1>2. /\ push'.room = r /\ push'.tokens \subseteq Tokens
      /\ \A d \in watch : d.room = r => d.token \notin push'.tokens
  BY <1>1 DEF SendNotification
<1>3. ASSUME NEW s \in Sockets, Settled(s), r \in viewing[s], TokenOf[s] # NoToken
      PROVE  TokenOf[s] \notin push'.tokens
  <2>1. {d.room : d \in DocsOf(s)} = viewing[s]
    BY <1>3 DEF SettledInv, TidySocket, Settled
  <2>2. PICK d \in DocsOf(s) : d.room = r
    BY <1>3, <2>1
  <2>3. d \in watch /\ d.token = TokenOf[s]
    BY <2>2 DEF DocsOf, SettledInv, DocsCarryTokens
  <2> QED BY <1>2, <2>2, <2>3
<1> QED BY <1>2, <1>3, WatchingAssumption

(* A notification about a room is not sent to the device of a settled socket *)
(* that is in the room.                                                      *)
THEOREM SettledWatchersSkipped == WatchingSpec => PushSkipsSettledWatchers
<1>1. /\ WatchingTypeOK /\ SettledInv /\ [WatchingNext]_watchingVars
      => [push = NoPush /\ push' # NoPush =>
            \A s \in Sockets : Settled(s) /\ push'.room \in viewing[s]
                                 => TokenOf[s] \notin push'.tokens]_watchingVars
  BY PushNext
<1> QED BY <1>1, WatchingTypes, SettledHolds, PTL DEF WatchingSpec, PushSkipsSettledWatchers

-----------------------------------------------------------------------------
(* Contacts.                                                                 *)

Sent == [n : RoomIds, room : 0..MaxTalks, through : BOOLEAN]

ContactsTyped ==
  /\ pal \in [Pair -> Pal] /\ room \in [RoomIds -> Room] /\ thread \in [Threads -> Thread]
  /\ talks \in 0..MaxTalks /\ hurried \in BOOLEAN /\ sent \subseteq Sent
  /\ blocked \in [Pair -> SUBSET (Pair \union {Third})]

Messaging == {"check", "checkOther", "store", "enter", "entered", "letIn", "letInRead", "letInWrite", "bring"}

Pinning == {"pin", "unpinArchive", "archive"}

(* What holds of the request of a thread whatever overlaps it.               *)
ThreadOK(q) ==
  LET t == thread[q] IN
  /\ t.at # "idle" => t.n \in 1..talks
  /\ t.at \in Messaging => t.whom = Other(t.who)
  /\ t.at \in ListWrites => t.list \subseteq Pair \union {Third} /\ t.room = NoRoom
  /\ t.at \in {"pin", "unpinArchive"} => t.list \subseteq RoomIds
  /\ t.at \in Pinning => t.room \in RoomIds
  /\ t.at \in {"open", "make"} => t.whom = Other(t.who)
  /\ t.at \in {"idle", "open", "make", "allow"} => t.room = NoRoom
  /\ t.room # NoRoom =>
       room[t.room].status # "none" /\ (t.at \notin Pinning => t.seen.status # "none")
  (* a block that stands is found *)
  /\ t.held \subseteq Blockers(pal)
  /\ t.at = "checkOther" => t.seen.participants = Pair /\ t.who \notin t.held
  /\ t.at = "store" => (t.seen.participants = Pair => t.held = {})

(* A blacklist that requests do not overlap on is the one that its request   *)
(* read, and is what the blocks and unblocks left.                           *)
BlacklistOK(u) ==
  u \notin mingled =>
    /\ pal[u].blacklist = blocked[u]
    /\ \A q \in Threads : thread[q].at \in ListWrites /\ thread[q].who = u =>
         /\ thread[q].list = pal[u].blacklist
         /\ \A p \in Threads : thread[p].at \in ListWrites /\ thread[p].who = u => p = q

(* The request about a room that may write more of it than who hides it.     *)
OnRoom(q, r) == thread[q].room = r /\ thread[q].at \notin Pinning

SettledRoom(r) ==
  room[r].status # "none" =>
    /\ room[r].participants = Pair
    /\ room[r].status = "active" => room[r].waitingUsers = <<>>
    /\ room[r].status = "waiting" => room[r].waitingUsers # <<>> \/ room[r].rejectedUsers # {}

SameCore(x, y) ==
  /\ x.status = y.status /\ x.participants = y.participants
  /\ x.waitingUsers = y.waitingUsers /\ x.rejectedUsers = y.rejectedUsers

(* Where the one request about a room that may write it has come to.         *)
AsSeen(q) == SettledRoom(thread[q].room) /\ SameCore(room[thread[q].room], thread[q].seen)

LetIn(q) == room[thread[q].room].participants = Pair /\ room[thread[q].room].waitingUsers = <<>>

PhaseOK(q) ==
  LET t == thread[q] IN
  /\ t.at \in {"check", "checkOther", "store"} => AsSeen(q) /\ ~t.allows
  /\ t.at \in {"enter", "entered"} => AsSeen(q) /\ t.seen.waitingUsers = <<t.who>> /\ ~t.allows
  /\ t.at = "letIn" =>
       /\ ~t.allows
       /\ \/ AsSeen(q) /\ t.who \notin Range(t.seen.waitingUsers)
          \/ LetIn(q) /\ t.seen.waitingUsers = <<t.who>>
  /\ t.at \in {"letInRead", "letInWrite"} => AsSeen(q) /\ t.seen.waitingUsers = <<t.whom>> /\ t.allows
  /\ t.at \in {"entered", "letInWrite"} => SameCore(t.fresh, t.seen)
  /\ t.at = "bring" =>
       \/ LetIn(q) /\ (t.allows \/ t.seen.waitingUsers = <<t.who>>)
       \/ AsSeen(q) /\ ~t.allows /\ t.who \notin Range(t.seen.waitingUsers)
  /\ t.at \in {"accept", "reject"} => AsSeen(q) /\ t.seen.waitingUsers = <<t.who>>
  /\ t.at \in Messaging \union {"accept", "reject"}

RoomOK(r) ==
  /\ room[r].status # "none" => r <= talks /\ \A q \in Threads : thread[q].at \in {"open", "make"} => thread[q].n # r
  /\ room[r].status = "none" => room[r].participants = {} /\ room[r].waitingUsers = <<>>
  /\ r \notin mingled =>
       /\ room[r].waitingUsers = <<>> \/ \E u \in Pair : room[r].waitingUsers = <<u>>
       /\ \A q, p \in Threads : OnRoom(q, r) /\ OnRoom(p, r) => q = p
       /\ (\A q \in Threads : ~OnRoom(q, r)) => SettledRoom(r)
       /\ \A q \in Threads : OnRoom(q, r) => PhaseOK(q)

(* The requests that create a room, one at a time unless they hurried.       *)
OneRoom ==
  ~hurried =>
    /\ \A q, p \in Threads : thread[q].at \in {"open", "make"} /\ thread[p].at \in {"open", "make"} => q = p
    /\ \A q \in Threads : thread[q].at = "make" => \A r \in RoomIds \ mingled : room[r].participants # Pair
    /\ \A r, s \in RoomIds \ mingled : room[r].participants = Pair /\ room[s].participants = Pair => r = s

Apart == \A q, p \in Threads : thread[q].at # "idle" /\ thread[p].at # "idle" /\ thread[q].n = thread[p].n => q = p

ContactsInv ==
  /\ ContactsTyped /\ Apart /\ OneRoom
  /\ \A x \in sent : ~x.through
  /\ \A q \in Threads : ThreadOK(q)
  /\ \A u \in Pair : BlacklistOK(u)
  /\ \A r \in RoomIds : RoomOK(r)

-----------------------------------------------------------------------------
LEMMA TwoOfThem ==
  /\ MaxTalks \in Nat /\ RoomIds \subseteq Nat \ {0} /\ Pair # {}
  /\ \A u \in Pair : Other(u) \in Pair /\ Other(u) # u /\ Pair = {u, Other(u)} /\ Other(Other(u)) = u
  /\ Null \notin Pair /\ Third \notin Pair
<1>1. PICK a \in Pair, b \in Pair : a # b /\ Pair = {a, b}
  BY ContactsAssumption
<1>2. \A u \in Pair : Other(u) \in Pair /\ Other(u) # u
  BY <1>1 DEF Other
<1>3. \A u \in Pair : Pair = {u, Other(u)} /\ Other(Other(u)) = u
  BY <1>1, <1>2
<1> QED BY <1>1, <1>2, <1>3, ContactsAssumption DEF RoomIds

LEMMA SilentTypes ==
  /\ NotARoom \in Room /\ NotARoom.status = "none" /\ NotARoom.participants = {} /\ NotARoom.waitingUsers = <<>>
  /\ Silent \in Thread /\ Silent.at = "idle" /\ Silent.room = NoRoom /\ Silent.held = {}
  /\ Silent.seen = NotARoom /\ Silent.allows = FALSE
<1>1. NotARoom \in Room /\ NotARoom.status = "none" /\ NotARoom.participants = {} /\ NotARoom.waitingUsers = <<>>
  BY DEF NotARoom, Room
<1>2. PICK u \in Pair : u = CHOOSE v \in Pair : TRUE
  BY TwoOfThem
<1>3. Silent = [at |-> "idle", n |-> 0, who |-> u, whom |-> Other(u), room |-> NoRoom,
                seen |-> NotARoom, fresh |-> NotARoom, list |-> {}, allows |-> FALSE, held |-> {}]
  BY <1>2 DEF Silent
<1> QED BY <1>1, <1>3, TwoOfThem DEF Thread, NoRoom

(* The types of a thread. *)
LEMMA ThreadAt ==
  ASSUME ContactsTyped, NEW q \in Threads
  PROVE  /\ thread[q] \in Thread /\ thread[q].n \in 0..MaxTalks /\ thread[q].who \in Pair
         /\ thread[q].whom \in Pair \union {Third} /\ thread[q].room \in 0..MaxTalks
         /\ thread[q].seen \in Room /\ thread[q].fresh \in Room /\ thread[q].allows \in BOOLEAN
         /\ thread[q].held \subseteq Pair /\ thread[q].list \subseteq Pair \union {Third} \union RoomIds
  BY DEF ContactsTyped, Thread

(* Two threads that differ in the step they are at only. *)
SameRequest(t, o) ==
  /\ t.n = o.n /\ t.who = o.who /\ t.whom = o.whom /\ t.room = o.room /\ t.seen = o.seen
  /\ t.list = o.list /\ t.held = o.held

LEMMA Onward ==
  ASSUME ContactsTyped, NEW q \in Threads, NEW at, To(q, at),
         at \in {"make", "checkOther", "store", "enter", "letIn", "bring", "archive"}
  PROVE  \E t \in Thread : /\ thread' = [thread EXCEPT ![q] = t] /\ t.at = at /\ SameRequest(t, thread[q])
                          /\ t.allows = thread[q].allows /\ t.fresh = thread[q].fresh
<1>1. PICK t : t = [thread[q] EXCEPT !.at = at]
  OBVIOUS
<1>2. thread' = [thread EXCEPT ![q] = t]
  BY <1>1 DEF To
<1>3. t \in Thread /\ t.at = at
  BY <1>1, ThreadAt DEF Thread
<1>4. SameRequest(t, thread[q]) /\ t.allows = thread[q].allows /\ t.fresh = thread[q].fresh
  BY <1>1, ThreadAt DEF SameRequest, Thread
<1> QED BY <1>2, <1>3, <1>4

LEMMA OneThread ==
  ASSUME ContactsTyped, NEW q \in Threads, NEW t \in Thread, thread' = [thread EXCEPT ![q] = t]
  PROVE  thread' \in [Threads -> Thread] /\ thread'[q] = t /\ \A p \in Threads \ {q} : thread'[p] = thread[p]
  BY DEF ContactsTyped
(* A room that is left alone, but for who hides it.                          *)
LEMMA RoomKept ==
  ASSUME NEW r \in RoomIds, RoomOK(r), mingled \subseteq mingled', talks \in Nat, talks' \in Nat, talks <= talks',
         SameCore(room'[r], room[r]),
         \A p \in Threads : thread'[p].at \in {"open", "make"} =>
           thread'[p].n > talks \/ (thread[p].at \in {"open", "make"} /\ thread'[p].n = thread[p].n),
         \A p \in Threads : OnRoom(p, r)' <=> OnRoom(p, r),
         \A p \in Threads : OnRoom(p, r) =>
           /\ thread'[p].at = thread[p].at /\ SameCore(thread'[p].seen, thread[p].seen)
           /\ SameCore(thread'[p].fresh, thread[p].fresh) /\ thread'[p].who = thread[p].who
           /\ thread'[p].whom = thread[p].whom /\ thread'[p].allows = thread[p].allows
  PROVE  RoomOK(r)'
<1>1. room'[r].status # "none" =>
        r <= talks' /\ \A q \in Threads : thread'[q].at \in {"open", "make"} => thread'[q].n # r
  <2>1. r \in Nat /\ (r <= talks => r <= talks')
    BY TwoOfThem
  <2>2. \A n : r <= talks /\ n > talks => n # r
    BY <2>1
  <2> QED BY <2>1, <2>2 DEF RoomOK, SameCore
<1>2. SettledRoom(r)' <=> SettledRoom(r)
  BY DEF SettledRoom, SameCore
<1>3. ASSUME NEW q \in Threads, OnRoom(q, r), PhaseOK(q) PROVE PhaseOK(q)'
  <2>1. thread[q].room = r /\ thread'[q].room = r
    BY <1>3 DEF OnRoom
  <2>2. (AsSeen(q)' <=> AsSeen(q)) /\ (LetIn(q)' <=> LetIn(q))
    BY <1>2, <1>3, <2>1 DEF AsSeen, LetIn, SameCore
  <2>3. SameCore(thread[q].fresh, thread[q].seen) => SameCore(thread'[q].fresh, thread'[q].seen)
    BY <1>3 DEF SameCore
  <2>4. thread'[q].seen.waitingUsers = thread[q].seen.waitingUsers
    BY <1>3 DEF SameCore
  <2>5. /\ thread'[q].at = thread[q].at /\ thread'[q].who = thread[q].who
        /\ thread'[q].whom = thread[q].whom /\ thread'[q].allows = thread[q].allows
    BY <1>3
  <2> QED BY <1>3, <2>2, <2>3, <2>4, <2>5 DEF PhaseOK
<1>4. ASSUME r \notin mingled' PROVE \A q \in Threads : OnRoom(q, r)' => PhaseOK(q)'
  BY <1>3, <1>4 DEF RoomOK
<1>5. /\ r \notin mingled' => room'[r].waitingUsers = <<>> \/ \E u \in Pair : room'[r].waitingUsers = <<u>>
      /\ room'[r].status = "none" => room'[r].participants = {} /\ room'[r].waitingUsers = <<>>
  BY DEF RoomOK, SameCore
<1>6. r \notin mingled' =>
       /\ \A q, p \in Threads : OnRoom(q, r)' /\ OnRoom(p, r)' => q = p
       /\ (\A q \in Threads : ~OnRoom(q, r)') => SettledRoom(r)'
  BY <1>2 DEF RoomOK
<1> QED BY <1>1, <1>4, <1>5, <1>6 DEF RoomOK

(* The room of a request that goes on or ends.                               *)
LEMMA RoomGoesOn ==
  ASSUME NEW r \in RoomIds, RoomOK(r), NEW q \in Threads, OnRoom(q, r), mingled \subseteq mingled', talks' = talks,
         \A p \in Threads \ {q} : thread'[p] = thread[p], thread'[q].at \notin {"open", "make"},
         room[r].status # "none", room'[r].status # "none",
         r \notin mingled' /\ PhaseOK(q) =>
           /\ room'[r].waitingUsers = <<>> \/ \E u \in Pair : room'[r].waitingUsers = <<u>>
           /\ IF OnRoom(q, r)' THEN PhaseOK(q)' ELSE SettledRoom(r)'
  PROVE  RoomOK(r)'
<1>1. \A p \in Threads \ {q} : OnRoom(p, r)' <=> OnRoom(p, r)
  BY DEF OnRoom
<1>2. room'[r].status # "none" =>
        r <= talks' /\ \A p \in Threads : thread'[p].at \in {"open", "make"} => thread'[p].n # r
  BY DEF RoomOK
<1>3. ASSUME r \notin mingled'
      PROVE  PhaseOK(q) /\ \A p \in Threads \ {q} : ~OnRoom(p, r)'
  BY <1>1, <1>3 DEF RoomOK
<1> QED BY <1>2, <1>3 DEF RoomOK

LEMMA OneRoomKept ==
  ASSUME OneRoom, mingled \subseteq mingled', hurried => hurried',
         \A p \in Threads : thread'[p].at \in {"open", "make"} => thread[p].at \in {"open", "make"},
         \A p \in Threads : thread'[p].at = "make" =>
           thread[p].at = "make" \/ \A r \in RoomIds : room[r].participants # Pair,
         \A r \in RoomIds \ mingled' : room'[r].participants = Pair => room[r].participants = Pair
  PROVE  OneRoom'
  BY DEF OneRoom

(* A request that another leaves alone.                                      *)
LEMMA ThreadKept ==
  ASSUME NEW p \in Threads, ThreadOK(p), talks \in Nat, talks' \in Nat, talks <= talks',
         thread'[p].room = thread[p].room /\ thread'[p].at = thread[p].at /\ thread'[p].n = thread[p].n,
         thread'[p].who = thread[p].who /\ thread'[p].whom = thread[p].whom,
         thread'[p].list = thread[p].list /\ thread'[p].seen = thread[p].seen,
         thread'[p].held \subseteq thread[p].held, thread'[p].held \subseteq Blockers(pal'),
         \A r \in RoomIds : room[r].status # "none" => room'[r].status # "none",
         thread[p].room \in 0..MaxTalks
  PROVE  ThreadOK(p)'
<1>1. thread[p].n \in 1..talks => thread[p].n \in 1..talks'
  OBVIOUS
<1>2. thread[p].room # NoRoom => thread[p].room \in RoomIds
  BY TwoOfThem DEF NoRoom, RoomIds
<1> QED BY <1>1, <1>2 DEF ThreadOK

LEMMA BlacklistKept ==
  ASSUME NEW u \in Pair, BlacklistOK(u), mingled \subseteq mingled',
         pal'[u].blacklist = pal[u].blacklist, blocked'[u] = blocked[u],
         \A p \in Threads : thread'[p].at \in ListWrites /\ thread'[p].who = u =>
           thread[p].at = thread'[p].at /\ thread[p].who = u /\ thread'[p].list = thread[p].list
  PROVE  BlacklistOK(u)'
  BY DEF BlacklistOK

LEMMA BlockersKept ==
  ASSUME \A u \in Pair : pal'[u].blacklist = pal[u].blacklist PROVE Blockers(pal') = Blockers(pal)
  BY DEF Blockers

(* One request goes on or ends.                                              *)
LEMMA StepKeeps ==
  ASSUME ContactsInv, NEW q \in Threads, NEW t \in Thread, thread' = [thread EXCEPT ![q] = t],
         t = Silent \/ (thread[q].at # "idle" /\ SameRequest(t, thread[q])), t.at \notin ListWrites,
         t.at \in {"open", "make"} => thread[q].at = "open" /\ \A r \in RoomIds : room[r].participants # Pair,
         pal' \in [Pair -> Pal], \A u \in Pair : pal'[u].blacklist = pal[u].blacklist,
         UNCHANGED <<talks, blocked, hurried>>, mingled \subseteq mingled',
         sent' \subseteq Sent, \A x \in sent' : ~x.through,
         room' \in [RoomIds -> Room],
         \A r \in RoomIds : room[r].status # "none" => room'[r].status # "none",
         \A r \in RoomIds : r # thread[q].room => SameCore(room'[r], room[r]),
         t # Silent => ThreadOK(q)',
         \A r \in RoomIds : OnRoom(q, r) /\ r \notin mingled' /\ PhaseOK(q) =>
           /\ room'[r].waitingUsers = <<>> \/ \E u \in Pair : room'[r].waitingUsers = <<u>>
           /\ IF t = Silent \/ t.at \in Pinning THEN SettledRoom(r)' ELSE PhaseOK(q)',
         thread[q].at \in Pinning =>
           (t = Silent \/ t.at \in Pinning) /\ \A r \in RoomIds : SameCore(room'[r], room[r])
  PROVE  ContactsInv'
<1>0. ContactsTyped /\ talks \in Nat /\ ThreadOK(q) /\ thread[q].room \in 0..MaxTalks
  BY TwoOfThem DEF ContactsInv, ContactsTyped, Thread
<1>1. /\ thread' \in [Threads -> Thread] /\ thread'[q] = t /\ \A p \in Threads \ {q} : thread'[p] = thread[p]
  BY <1>0, OneThread
<1>2. ContactsTyped'
  BY <1>0, <1>1 DEF ContactsTyped
<1>3. t.at = "idle" \/ t.n = thread[q].n
  BY SilentTypes DEF SameRequest
<1>4. Apart'
  <2>1. \A p \in Threads : thread'[p].at # "idle" => thread[p].at # "idle" /\ thread'[p].n = thread[p].n
    BY <1>1, <1>3, SilentTypes
  <2> QED BY <2>1 DEF ContactsInv, Apart
<1>5. ASSUME NEW p \in Threads PROVE ThreadOK(p)'
  <2>1. CASE p # q
    <3>1. ThreadOK(p) /\ thread'[p] = thread[p] /\ thread[p].room \in 0..MaxTalks
      BY <1>0, <1>1, <2>1, ThreadAt DEF ContactsInv
    <3>2. thread'[p].held \subseteq Blockers(pal')
      BY <3>1, BlockersKept DEF ThreadOK
    <3> QED BY <1>0, <3>1, <3>2, ThreadKept
  <2>2. CASE p = q /\ t = Silent
    <3>1. thread'[q].at = "idle" /\ thread'[q].room = NoRoom /\ thread'[q].held = {}
      BY <1>1, <2>2, SilentTypes
    <3> QED BY <2>2, <3>1 DEF ThreadOK, Messaging, ListWrites, Pinning
  <2> QED BY <2>1, <2>2
<1>6. ASSUME NEW u \in Pair PROVE BlacklistOK(u)'
  <2>1. \A p \in Threads : thread'[p].at \in ListWrites => thread'[p] = thread[p]
    BY <1>1
  <2>2. BlacklistOK(u)
    BY DEF ContactsInv
  <2> QED BY <2>1, <2>2, BlacklistKept
<1>7. t.room \in {thread[q].room, NoRoom} /\ (t = Silent => t.at = "idle" /\ t.room = NoRoom)
  BY SilentTypes DEF SameRequest
<1>8. ASSUME NEW r \in RoomIds, r # thread[q].room PROVE RoomOK(r)'
  <2>1. r # NoRoom
    BY TwoOfThem DEF NoRoom
  <2>2. ~OnRoom(q, r) /\ ~OnRoom(q, r)'
    BY <1>1, <1>7, <1>8, <2>1 DEF OnRoom
  <2>3. \A p \in Threads \ {q} : OnRoom(p, r)' <=> OnRoom(p, r)
    BY <1>1 DEF OnRoom
  <2>4. RoomOK(r)
    BY DEF ContactsInv
  <2>5. \A p \in Threads : thread'[p].at \in {"open", "make"} =>
          thread[p].at \in {"open", "make"} /\ thread'[p].n = thread[p].n
    BY <1>1, <1>3
  <2>6. \A p \in Threads : OnRoom(p, r) => thread'[p] = thread[p]
    BY <1>1, <2>2
  <2> QED BY <1>0, <1>8, <2>2, <2>3, <2>4, <2>5, <2>6, RoomKept DEF SameCore
<1>9. ASSUME NEW r \in RoomIds, r = thread[q].room PROVE RoomOK(r)'
  <2>1. RoomOK(r) /\ r # NoRoom
    BY TwoOfThem DEF ContactsInv, NoRoom
  <2>2. CASE thread[q].at \in Pinning
    <3>1. ~OnRoom(q, r) /\ ~OnRoom(q, r)'
      BY <1>1, <1>7, <2>1, <2>2, SilentTypes DEF OnRoom, SameRequest
    <3>3. \A p \in Threads \ {q} : OnRoom(p, r)' <=> OnRoom(p, r)
      BY <1>1 DEF OnRoom
    <3>5. \A p \in Threads : thread'[p].at \in {"open", "make"} =>
            thread[p].at \in {"open", "make"} /\ thread'[p].n = thread[p].n
      BY <1>1, <1>3
    <3>6. \A p \in Threads : OnRoom(p, r) => thread'[p] = thread[p]
      BY <1>1, <3>1
    <3> QED BY <1>0, <2>1, <2>2, <3>1, <3>3, <3>5, <3>6, RoomKept DEF SameCore
  <2>3. CASE thread[q].at \notin Pinning
    <3>1. OnRoom(q, r)
      BY <1>9, <2>3 DEF OnRoom
    <3>2. room[r].status # "none"
      BY <1>0, <1>9, <2>1 DEF ThreadOK
    <3>3. OnRoom(q, r)' => ~(t = Silent \/ t.at \in Pinning)
      BY <1>1, <1>7, <2>1 DEF OnRoom
    <3>4. ~OnRoom(q, r)' => t = Silent \/ t.at \in Pinning
      BY <1>1, <1>9 DEF OnRoom, SameRequest
    <3>5. r \notin mingled' /\ PhaseOK(q) =>
            /\ room'[r].waitingUsers = <<>> \/ \E u \in Pair : room'[r].waitingUsers = <<u>>
            /\ IF OnRoom(q, r)' THEN PhaseOK(q)' ELSE SettledRoom(r)'
      BY <3>1, <3>3, <3>4
    <3>6. t.at \notin {"open", "make"}
      BY <1>0, <1>9, <2>1 DEF ThreadOK
    <3> QED BY <1>1, <2>1, <3>1, <3>2, <3>5, <3>6, RoomGoesOn
  <2> QED BY <2>2, <2>3
<1>10. OneRoom'
  <2>1. ASSUME NEW r \in RoomIds \ mingled', room'[r].participants = Pair PROVE room[r].participants = Pair
    <3>1. CASE r # thread[q].room \/ thread[q].at \in Pinning
      BY <2>1, <3>1 DEF SameCore
    <3>2. CASE r = thread[q].room /\ thread[q].at \notin Pinning
      <4>1. OnRoom(q, r) /\ RoomOK(r) /\ r \notin mingled /\ r # NoRoom
        BY <3>2, <2>1, TwoOfThem DEF OnRoom, ContactsInv, NoRoom
      <4>2. PhaseOK(q) /\ room[r].status # "none"
        BY <1>0, <3>2, <4>1 DEF RoomOK, ThreadOK
      <4>3. (AsSeen(q) \/ LetIn(q)) /\ thread[q].room = r
        BY <3>2, <4>2 DEF PhaseOK, Messaging
      <4> QED BY <4>2, <4>3 DEF AsSeen, LetIn, SettledRoom
    <3> QED BY <3>1, <3>2
  <2>2. /\ \A p \in Threads : thread'[p].at \in {"open", "make"} => thread[p].at \in {"open", "make"}
        /\ \A p \in Threads : thread'[p].at = "make" =>
             thread[p].at = "make" \/ \A r \in RoomIds : room[r].participants # Pair
    BY <1>1
  <2>3. OneRoom
    BY DEF ContactsInv
  <2> QED BY <2>1, <2>2, <2>3, OneRoomKept
<1> QED BY <1>2, <1>4, <1>5, <1>6, <1>8, <1>9, <1>10 DEF ContactsInv

(* One request ends.                                                         *)
LEMMA StepEnds ==
  ASSUME ContactsInv, NEW q \in Threads, Falls(q),
         pal' \in [Pair -> Pal], \A u \in Pair : pal'[u].blacklist = pal[u].blacklist,
         UNCHANGED <<sent, talks, blocked, hurried>>, mingled \subseteq mingled',
         room' \in [RoomIds -> Room],
         \A r \in RoomIds : room[r].status # "none" => room'[r].status # "none",
         \A r \in RoomIds : r # thread[q].room => SameCore(room'[r], room[r]),
         \A r \in RoomIds : OnRoom(q, r) /\ r \notin mingled' /\ PhaseOK(q) =>
           /\ room'[r].waitingUsers = <<>> \/ \E u \in Pair : room'[r].waitingUsers = <<u>>
           /\ SettledRoom(r)',
         thread[q].at \in Pinning => \A r \in RoomIds : SameCore(room'[r], room[r])
  PROVE  ContactsInv'
<1>1. PICK t \in Thread : t = Silent /\ thread' = [thread EXCEPT ![q] = t] /\ t.at \notin ListWrites \union {"open", "make"}
  BY SilentTypes DEF Falls, ListWrites
<1>2. sent' \subseteq Sent /\ \A x \in sent' : ~x.through
  BY DEF ContactsInv, ContactsTyped
<1>3. \A r \in RoomIds : OnRoom(q, r) /\ r \notin mingled' /\ PhaseOK(q) =>
        /\ room'[r].waitingUsers = <<>> \/ \E u \in Pair : room'[r].waitingUsers = <<u>>
        /\ IF t = Silent \/ t.at \in Pinning THEN SettledRoom(r)' ELSE PhaseOK(q)'
  BY <1>1
<1>4. thread[q].at \in Pinning => (t = Silent \/ t.at \in Pinning) /\ \A r \in RoomIds : SameCore(room'[r], room[r])
  BY <1>1
<1>5. t.at \in {"open", "make"} => thread[q].at = "open" /\ \A r \in RoomIds : room[r].participants # Pair
  BY <1>1
<1>6. (t # Silent => ThreadOK(q)') /\ (t = Silent \/ (thread[q].at # "idle" /\ SameRequest(t, thread[q])))
  BY <1>1
<1>7. t.at \notin ListWrites /\ thread' = [thread EXCEPT ![q] = t]
  BY <1>1
<1> QED BY <1>2, <1>3, <1>4, <1>5, <1>6, <1>7, StepKeeps

LEMMA StepEndsAlone ==
  ASSUME ContactsInv, NEW q \in Threads, Falls(q), UNCHANGED <<pal, room, sent, talks, blocked, hurried>>,
         mingled \subseteq mingled', thread[q].room \in RoomIds \ mingled' /\ PhaseOK(q) => SettledRoom(thread[q].room)
  PROVE  ContactsInv'
<1>1. pal' \in [Pair -> Pal] /\ room' \in [RoomIds -> Room] /\ \A r \in RoomIds : RoomOK(r) /\ SameCore(room'[r], room[r])
  BY DEF ContactsInv, ContactsTyped, SameCore
<1>2. ASSUME NEW r \in RoomIds, OnRoom(q, r), r \notin mingled', PhaseOK(q)
      PROVE  /\ room'[r].waitingUsers = <<>> \/ \E u \in Pair : room'[r].waitingUsers = <<u>>
             /\ SettledRoom(r)'
  <2>1. thread[q].room = r /\ r \notin mingled /\ SettledRoom(r)
    BY <1>2 DEF OnRoom
  <2>2. SettledRoom(r)'
    BY <2>1 DEF SettledRoom
  <2> QED BY <1>1, <2>1, <2>2 DEF RoomOK
<1> QED BY <1>1, <1>2, StepEnds
(* A step of a request that changes no document.                             *)
LEMMA StepAlone ==
  ASSUME ContactsInv, NEW q \in Threads, NEW t \in Thread, thread' = [thread EXCEPT ![q] = t],
         t = Silent \/ (thread[q].at # "idle" /\ SameRequest(t, thread[q])),
         t.at \notin ListWrites \union {"open", "make"} \union Pinning, thread[q].at \notin Pinning,
         UNCHANGED <<pal, room, talks, blocked, hurried>>, mingled \subseteq mingled',
         sent' \subseteq Sent, \A x \in sent' : ~x.through,
         t # Silent => ThreadOK(q)',
         thread[q].room \in RoomIds \ mingled' /\ PhaseOK(q) =>
           IF t = Silent THEN SettledRoom(thread[q].room) ELSE PhaseOK(q)'
  PROVE  ContactsInv'
<1>1. ContactsTyped /\ \A r \in RoomIds : RoomOK(r)
  BY DEF ContactsInv
<1>2. pal' \in [Pair -> Pal] /\ room' \in [RoomIds -> Room]
  BY <1>1 DEF ContactsTyped
<1>3. \A r \in RoomIds : OnRoom(q, r) /\ r \notin mingled' /\ PhaseOK(q) =>
           /\ room'[r].waitingUsers = <<>> \/ \E u \in Pair : room'[r].waitingUsers = <<u>>
           /\ IF t = Silent \/ t.at \in Pinning THEN SettledRoom(r)' ELSE PhaseOK(q)'
  <2>1. ASSUME NEW r \in RoomIds, OnRoom(q, r), r \notin mingled', PhaseOK(q)
        PROVE  /\ room'[r].waitingUsers = <<>> \/ \E u \in Pair : room'[r].waitingUsers = <<u>>
               /\ IF t = Silent \/ t.at \in Pinning THEN SettledRoom(r)' ELSE PhaseOK(q)'
    <3>1. r = thread[q].room /\ room'[r] = room[r] /\ r \notin mingled
      BY <2>1 DEF OnRoom
    <3>2. SettledRoom(r) => SettledRoom(r)'
      BY DEF SettledRoom
    <3>3. room[r].waitingUsers = <<>> \/ \E u \in Pair : room[r].waitingUsers = <<u>>
      BY <1>1, <3>1 DEF RoomOK
    <3> QED BY <2>1, <3>1, <3>2, <3>3
  <2> QED BY <2>1
<1>4. \A r \in RoomIds : SameCore(room'[r], room[r])
  BY DEF SameCore
<1> QED BY <1>2, <1>3, <1>4, StepKeeps

(* A message that goes on.                                                   *)
LEMMA MessageOnward ==
  ASSUME ContactsInv, NEW q \in Threads, NEW t \in Thread, thread'[q] = t, SameRequest(t, thread[q]),
         UNCHANGED talks, \A u \in Pair : pal'[u].blacklist = pal[u].blacklist,
         \A r \in RoomIds : room[r].status # "none" => room'[r].status # "none",
         thread[q].at \in Messaging, t.at \in Messaging,
         t.at = "checkOther" => t.seen.participants = Pair /\ t.who \notin t.held,
         t.at = "store" /\ t.seen.participants = Pair => t.held = {}
  PROVE  ThreadOK(q)'
<1>1. ContactsTyped /\ ThreadOK(q) /\ thread[q].room \in 0..MaxTalks
  BY ThreadAt DEF ContactsInv
<1>2. thread[q].room # NoRoom => thread[q].room \in RoomIds
  BY <1>1, TwoOfThem DEF NoRoom, RoomIds
<1>3. /\ thread[q].at # "idle" /\ t.at # "idle" /\ t.at \notin ListWrites \union Pinning
      /\ t.at \notin {"open", "make", "allow"} /\ thread[q].at \notin Pinning
  BY DEF Messaging, ListWrites, Pinning
<1>4. t.held \subseteq Blockers(pal')
  BY <1>1, BlockersKept DEF ThreadOK, SameRequest
<1>5. t.room # NoRoom => room'[t.room].status # "none" /\ t.seen.status # "none"
  BY <1>1, <1>2, <1>3 DEF ThreadOK, SameRequest
<1>6. t.n \in 1..talks' /\ t.whom = Other(t.who)
  BY <1>1, <1>3 DEF ThreadOK, SameRequest
<1> QED BY <1>3, <1>4, <1>5, <1>6 DEF ThreadOK, Pinning

LEMMA ChecksKeeps ==
  ASSUME ContactsInv, NEW q \in Threads, Checks(q) PROVE ContactsInv'
<1>0. ContactsTyped /\ thread[q] \in Thread /\ ThreadOK(q) /\ thread[q].held \subseteq Pair /\ thread[q].who \in Pair
  BY ThreadAt DEF ContactsInv
<1>1. thread[q].at \in {"check", "checkOther"} /\ UNCHANGED <<pal, room, sent, talks, blocked, mingled, hurried>>
  BY DEF Checks, Rest
<1>2. /\ thread[q].at # "idle" /\ thread[q].at \notin Pinning /\ thread[q].at \in Messaging
      /\ thread[q].whom = Other(thread[q].who)
  BY <1>0, <1>1 DEF Pinning, Messaging, ThreadOK
<1>3. sent' \subseteq Sent /\ \A x \in sent' : ~x.through
  BY <1>1 DEF ContactsInv, ContactsTyped
<1>4. PhaseOK(q) => AsSeen(q) /\ ~thread[q].allows
  BY <1>1 DEF PhaseOK
<1>5. CASE Falls(q)
  <2>1. PhaseOK(q) => SettledRoom(thread[q].room)
    BY <1>4 DEF AsSeen
  <2> QED BY <1>1, <1>5, <2>1, StepEndsAlone
<1>6. ASSUME NEW at \in {"store", "checkOther"}, To(q, at),
             at = "checkOther" => thread[q].seen.participants = Pair /\ thread[q].who \notin thread[q].held,
             at = "store" /\ thread[q].seen.participants = Pair => thread[q].held = {}
      PROVE  ContactsInv'
  <2>1. PICK t \in Thread : /\ thread' = [thread EXCEPT ![q] = t] /\ t.at = at
                            /\ SameRequest(t, thread[q]) /\ t.allows = thread[q].allows
    BY <1>0, <1>6, Onward
  <2>2. thread'[q] = t
    BY <1>0, <2>1, OneThread
  <2>3. t.at \in Messaging /\ t.at \notin ListWrites \union {"open", "make"} \union Pinning
    BY <2>1 DEF Messaging, ListWrites, Pinning
  <2>4. ThreadOK(q)'
    <3>1. t.held = thread[q].held /\ t.seen = thread[q].seen /\ t.who = thread[q].who
      BY <2>1 DEF SameRequest
    <3> QED BY <1>1, <1>2, <1>6, <2>1, <2>2, <2>3, <3>1, MessageOnward
  <2>5. PhaseOK(q) => PhaseOK(q)'
    <3>1. PhaseOK(q) => AsSeen(q)' /\ ~t.allows
      BY <1>1, <1>4, <2>1, <2>2 DEF AsSeen, SettledRoom, SameRequest
    <3> QED BY <2>1, <2>2, <2>3, <3>1 DEF PhaseOK
  <2> QED BY <1>1, <1>2, <1>3, <2>1, <2>3, <2>4, <2>5, SilentTypes, StepAlone
<1>7. CASE /\ thread[q].at = "check" /\ thread[q].seen.participants # Pair /\ To(q, "store")
  BY <1>6, <1>7
<1>8. CASE /\ thread[q].at = "check" /\ thread[q].seen.participants = Pair
           /\ thread[q].whom \notin pal[thread[q].who].blacklist /\ To(q, "checkOther")
  <2>1. thread[q].who \notin thread[q].held
    BY <1>0, <1>2, <1>8 DEF ThreadOK, Blockers
  <2> QED BY <1>6, <1>8, <2>1
<1>9. CASE /\ thread[q].at = "checkOther" /\ thread[q].who \notin pal[thread[q].whom].blacklist /\ To(q, "store")
  <2>1. thread[q].who \notin thread[q].held
    BY <1>0, <1>9 DEF ThreadOK
  <2>2. Pair = {thread[q].who, thread[q].whom} /\ Other(thread[q].whom) = thread[q].who
    BY <1>0, <1>2, TwoOfThem
  <2>3. thread[q].whom \notin thread[q].held
    BY <1>0, <1>9, <2>2 DEF ThreadOK, Blockers
  <2>4. thread[q].held = {}
    BY <1>0, <2>1, <2>2, <2>3
  <2> QED BY <1>6, <1>9, <2>4
<1> QED BY <1>5, <1>7, <1>8, <1>9 DEF Checks

LEMMA StoresMessageKeeps ==
  ASSUME ContactsInv, NEW q \in Threads, StoresMessage(q) PROVE ContactsInv'
<1>0. ContactsTyped /\ thread[q] \in Thread /\ ThreadOK(q) /\ thread[q].n \in 0..MaxTalks
      /\ thread[q].who \in Pair /\ thread[q].room \in 0..MaxTalks
  BY ThreadAt DEF ContactsInv
<1>1. /\ thread[q].at = "store" /\ UNCHANGED <<pal, room, talks, blocked, mingled, hurried>>
      /\ sent' = sent \union {[n |-> thread[q].n, room |-> thread[q].room,
                               through |-> thread[q].held # {} /\ thread[q].seen.participants = Pair]}
      /\ To(q, IF SeenWaiting(q, thread[q].who) THEN "enter" ELSE "letIn")
  BY DEF StoresMessage
<1>2. thread[q].at # "idle" /\ thread[q].at \notin Pinning /\ thread[q].at \in Messaging
  BY <1>1 DEF Pinning, Messaging
<1>3. PICK at \in {"enter", "letIn"} : To(q, at) /\ (at = "enter" <=> SeenWaiting(q, thread[q].who))
  BY <1>1
<1>4. sent' \subseteq Sent /\ \A x \in sent' : ~x.through
  <2>1. ~(thread[q].held # {} /\ thread[q].seen.participants = Pair)
    BY <1>0, <1>1 DEF ThreadOK
  <2>2. thread[q].n \in RoomIds
    BY <1>0, <1>2, TwoOfThem DEF ThreadOK, RoomIds, ContactsTyped
  <2>3. [n |-> thread[q].n, room |-> thread[q].room,
         through |-> thread[q].held # {} /\ thread[q].seen.participants = Pair] \in Sent
    BY <1>0, <2>2 DEF Sent
  <2>4. sent \subseteq Sent /\ \A x \in sent : ~x.through
    BY DEF ContactsInv, ContactsTyped
  <2>5. PICK x0 \in Sent : sent' = sent \union {x0} /\ ~x0.through
    BY <1>1, <2>1, <2>3
  <2> QED BY <2>4, <2>5
<1>5. PICK t \in Thread : /\ thread' = [thread EXCEPT ![q] = t] /\ t.at = at
                          /\ SameRequest(t, thread[q]) /\ t.allows = thread[q].allows
  BY <1>0, <1>3, Onward
<1>6. thread'[q] = t /\ t.at \in Messaging /\ t.at \notin ListWrites \union {"open", "make"} \union Pinning
  BY <1>0, <1>5, OneThread DEF Messaging, ListWrites, Pinning
<1>7. ThreadOK(q)'
  BY <1>1, <1>2, <1>5, <1>6, MessageOnward
<1>8. ASSUME thread[q].room \in RoomIds \ mingled', PhaseOK(q) PROVE PhaseOK(q)'
  <2>1. AsSeen(q)' /\ ~t.allows /\ AsSeen(q)
    BY <1>1, <1>5, <1>6, <1>8 DEF PhaseOK, AsSeen, SettledRoom, SameRequest
  <2>2. thread[q].seen.waitingUsers = <<>> \/ \E u \in Pair : thread[q].seen.waitingUsers = <<u>>
    BY <1>1, <1>8, <2>1 DEF ContactsInv, RoomOK, AsSeen, SameCore
  <2>3. at = "enter" => t.seen.waitingUsers = <<t.who>>
    BY <1>3, <1>5, <2>2 DEF SeenWaiting, SameRequest, Range
  <2>4. at = "letIn" => t.who \notin Range(t.seen.waitingUsers)
    BY <1>3, <1>5 DEF SeenWaiting, SameRequest
  <2> QED BY <1>5, <1>6, <2>1, <2>3, <2>4 DEF PhaseOK
<1> QED BY <1>1, <1>2, <1>4, <1>5, <1>6, <1>7, <1>8, SilentTypes, StepAlone

LEMMA ReadsToAcceptKeeps ==
  ASSUME ContactsInv, NEW q \in Threads, ReadsToAccept(q) PROVE ContactsInv'
<1>0. /\ ContactsTyped /\ thread[q] \in Thread /\ ThreadOK(q) /\ thread[q].who \in Pair
      /\ thread[q].whom \in Pair \union {Third} /\ thread[q].room \in 0..MaxTalks
  BY ThreadAt DEF ContactsInv
<1>1. thread[q].at \in {"enter", "letInRead"} /\ UNCHANGED <<pal, room, sent, talks, blocked, mingled, hurried>>
  BY DEF ReadsToAccept, Rest
<1>2. thread[q].at # "idle" /\ thread[q].at \notin Pinning /\ thread[q].at \in Messaging
  BY <1>1 DEF Pinning, Messaging
<1>3. sent' \subseteq Sent /\ \A x \in sent' : ~x.through
  BY <1>1 DEF ContactsInv, ContactsTyped
<1>4. PhaseOK(q) => AsSeen(q) /\ SettledRoom(thread[q].room)
  BY <1>1 DEF PhaseOK, AsSeen
<1>5. CASE Falls(q)
  BY <1>1, <1>4, <1>5, StepEndsAlone
<1>6. CASE /\ thread[q].room # NoRoom
           /\ thread' = [thread EXCEPT ![q].at = IF @ = "enter" THEN "entered" ELSE "letInWrite",
                                       ![q].fresh = room[thread[q].room]]
  <2>1. PICK t : t = [thread[q] EXCEPT !.at = IF thread[q].at = "enter" THEN "entered" ELSE "letInWrite",
                                       !.fresh = room[thread[q].room]]
    OBVIOUS
  <2>2. thread' = [thread EXCEPT ![q] = t]
    BY <1>6, <2>1
  <2>3. room[thread[q].room] \in Room
    BY <1>0, <1>6, TwoOfThem DEF ContactsTyped, RoomIds, NoRoom
  <2>4. /\ t \in Thread /\ SameRequest(t, thread[q]) /\ t.fresh = room[thread[q].room] /\ t.allows = thread[q].allows
        /\ t.at = (IF thread[q].at = "enter" THEN "entered" ELSE "letInWrite")
    <3>1. t \in Thread
      BY <1>0, <1>1, <2>1, <2>3 DEF Thread
    <3>2. SameRequest(t, thread[q]) /\ t.fresh = room[thread[q].room] /\ t.allows = thread[q].allows
      BY <1>0, <2>1 DEF Thread, SameRequest
    <3>3. t.at = (IF thread[q].at = "enter" THEN "entered" ELSE "letInWrite")
      BY <1>0, <2>1 DEF Thread
    <3> QED BY <3>1, <3>2, <3>3
  <2>5. thread'[q] = t /\ t.at \in Messaging /\ t.at \notin ListWrites \union {"open", "make"} \union Pinning
    BY <1>0, <2>2, <2>4, OneThread DEF Messaging, ListWrites, Pinning
  <2>6. ThreadOK(q)'
    BY <1>1, <1>2, <2>4, <2>5, MessageOnward
  <2>7. ASSUME PhaseOK(q) PROVE PhaseOK(q)'
    <3>1. AsSeen(q)' /\ AsSeen(q) /\ SameCore(t.fresh, t.seen)
      BY <1>1, <1>4, <2>4, <2>5, <2>7 DEF AsSeen, SettledRoom, SameRequest
    <3>2. /\ thread[q].at = "enter" => ~t.allows /\ t.seen.waitingUsers = <<t.who>>
          /\ thread[q].at = "letInRead" => t.allows /\ t.seen.waitingUsers = <<t.whom>>
      BY <2>4, <2>7 DEF PhaseOK, SameRequest
    <3>3. \/ thread[q].at = "enter" /\ t.at = "entered"
          \/ thread[q].at = "letInRead" /\ t.at = "letInWrite"
      BY <1>1, <2>4
    <3> QED BY <2>5, <3>1, <3>2, <3>3 DEF PhaseOK
  <2> QED BY <1>1, <1>2, <1>3, <2>2, <2>4, <2>5, <2>6, <2>7, SilentTypes, StepAlone
<1> QED BY <1>5, <1>6 DEF ReadsToAccept

LEMMA LetsInKeeps ==
  ASSUME ContactsInv, NEW q \in Threads, LetsIn(q) PROVE ContactsInv'
<1>0. /\ ContactsTyped /\ thread[q] \in Thread /\ ThreadOK(q) /\ thread[q].who \in Pair
      /\ thread[q].whom \in Pair \union {Third} /\ thread[q].room \in 0..MaxTalks
  BY ThreadAt DEF ContactsInv
<1>1. thread[q].at = "letIn" /\ UNCHANGED <<pal, room, sent, talks, blocked, mingled, hurried>>
  BY DEF LetsIn, Rest
<1>2. thread[q].at # "idle" /\ thread[q].at \notin Pinning /\ thread[q].at \in Messaging
  BY <1>1 DEF Pinning, Messaging
<1>3. sent' \subseteq Sent /\ \A x \in sent' : ~x.through
  BY <1>1 DEF ContactsInv, ContactsTyped
<1>4. PICK t \in Thread : /\ thread' = [thread EXCEPT ![q] = t] /\ SameRequest(t, thread[q])
                          /\ \/ t.at = "letInRead" /\ SeenWaiting(q, thread[q].whom) /\ t.allows
                             \/ t.at = "bring" /\ t.allows = thread[q].allows
  <2>1. CASE To(q, "bring")
    BY <1>0, <2>1, Onward
  <2>2. CASE /\ SeenWaiting(q, thread[q].whom)
             /\ thread' = [thread EXCEPT ![q].at = "letInRead", ![q].allows = TRUE]
    <3>1. PICK t : t = [thread[q] EXCEPT !.at = "letInRead", !.allows = TRUE]
      OBVIOUS
    <3>2. thread' = [thread EXCEPT ![q] = t]
      BY <2>2, <3>1
    <3>3. t \in Thread /\ SameRequest(t, thread[q]) /\ t.at = "letInRead" /\ t.allows
      BY <1>0, <3>1 DEF Thread, SameRequest
    <3> QED BY <2>2, <3>2, <3>3
  <2> QED BY <2>1, <2>2 DEF LetsIn
<1>5. thread'[q] = t /\ t.at \in Messaging /\ t.at \notin ListWrites \union {"open", "make"} \union Pinning
  BY <1>0, <1>4, OneThread DEF Messaging, ListWrites, Pinning
<1>6. ThreadOK(q)'
  BY <1>1, <1>2, <1>4, <1>5, MessageOnward
<1>7. ASSUME thread[q].room \in RoomIds \ mingled', PhaseOK(q) PROVE PhaseOK(q)'
  <2>1. /\ ~thread[q].allows
        /\ \/ AsSeen(q) /\ thread[q].who \notin Range(thread[q].seen.waitingUsers)
           \/ LetIn(q) /\ thread[q].seen.waitingUsers = <<thread[q].who>>
    BY <1>1, <1>7 DEF PhaseOK
  <2>2. (AsSeen(q)' <=> AsSeen(q)) /\ (LetIn(q)' <=> LetIn(q))
    BY <1>1, <1>4, <1>5 DEF AsSeen, SettledRoom, SameRequest, LetIn
  <2>3. t.seen = thread[q].seen /\ t.who = thread[q].who /\ t.whom = thread[q].whom
    BY <1>4 DEF SameRequest
  <2>4. CASE t.at = "bring"
    BY <1>4, <1>5, <2>1, <2>2, <2>3, <2>4 DEF PhaseOK
  <2>5. CASE t.at = "letInRead"
    <3>1. thread[q].whom \in Range(thread[q].seen.waitingUsers)
      BY <1>4, <2>5 DEF SeenWaiting
    <3>2. thread[q].whom # thread[q].who
      BY <1>0, <1>2, TwoOfThem DEF ThreadOK
    <3>3. AsSeen(q) /\ thread[q].seen.waitingUsers # <<thread[q].who>>
      BY <2>1, <3>1, <3>2 DEF Range
    <3>4. thread[q].seen.waitingUsers = <<>> \/ \E u \in Pair : thread[q].seen.waitingUsers = <<u>>
      BY <1>1, <1>7, <3>3 DEF ContactsInv, RoomOK, AsSeen, SameCore
    <3>5. thread[q].seen.waitingUsers = <<thread[q].whom>>
      BY <3>1, <3>4 DEF Range
    <3> QED BY <1>4, <1>5, <2>2, <2>3, <2>5, <3>3, <3>5 DEF PhaseOK
  <2> QED BY <1>4, <2>4, <2>5
<1> QED BY <1>1, <1>2, <1>3, <1>4, <1>5, <1>6, <1>7, SilentTypes, StepAlone

(* Who waits besides u, of one who waits or nobody.                          *)
LEMMA OthersOf ==
  ASSUME NEW S, NEW s \in Seq(S), NEW u
  PROVE  /\ Others(s, u) \in Seq(S)
         /\ s = <<>> => Others(s, u) = <<>>
         /\ s = <<u>> => Others(s, u) = <<>>
         /\ \A w : s = <<w>> /\ w # u => Others(s, u) = s
<1>1. Others(s, u) \in Seq(S)
  BY FilteredLists DEF Others
<1>2. ASSUME s = <<>> \/ s = <<u>> PROVE Others(s, u) = <<>>
  <2>1. {i \in DOMAIN s : s[i] # u} = {}
    BY <1>2
  <2> QED BY <2>1, FilteredLists DEF Others
<1>3. ASSUME NEW w, s = <<w>>, w # u PROVE Others(s, u) = s
  <2>1. {i \in DOMAIN s : s[i] # u} = {1}
    BY <1>3
  <2>2. Filtered(s, {i \in DOMAIN s : s[i] # u}) = <<s[1]>>
    BY <2>1, FilteredLists
  <2> QED BY <1>3, <2>2 DEF Others
<1> QED BY <1>1, <1>2, <1>3

LEMMA AcceptedRoom ==
  ASSUME ContactsTyped, NEW r \in 0..MaxTalks, NEW seen \in Room, NEW u \in Pair,
         NEW status \in {"none", "active", "waiting"}, room' = Accepted(r, seen, u, status)
  PROVE  /\ room' \in [RoomIds -> Room] /\ \A s \in RoomIds : s # r => room'[s] = room[s]
         /\ r \in RoomIds => /\ room'[r].status = status /\ room'[r].participants = seen.participants \union {u}
                             /\ room'[r].waitingUsers = Others(seen.waitingUsers, u)
                             /\ room'[r].rejectedUsers = room[r].rejectedUsers
<1>1. PICK ws \in Seq(Pair \union {Null}) : ws = Others(seen.waitingUsers, u)
  BY OthersOf DEF Room
<1>2. PICK ps \in SUBSET Pair : ps = seen.participants \union {u}
  BY DEF Room
<1>3. room \in [RoomIds -> Room]
  BY DEF ContactsTyped
<1>4. room' = [room EXCEPT ![r].waitingUsers = ws, ![r].participants = ps, ![r].status = status]
  BY <1>1, <1>2 DEF Accepted
<1>5. CASE r \in RoomIds
  <2>1. PICK x : x = [room[r] EXCEPT !.waitingUsers = ws, !.participants = ps, !.status = status]
    OBVIOUS
  <2>2. room' = [room EXCEPT ![r] = x]
    BY <1>3, <1>4, <1>5, <2>1
  <2>3. /\ x \in Room /\ x.status = status /\ x.participants = ps /\ x.waitingUsers = ws
        /\ x.rejectedUsers = room[r].rejectedUsers
    BY <1>3, <1>5, <2>1 DEF Room
  <2> QED BY <1>1, <1>2, <1>3, <1>5, <2>2, <2>3
<1>6. CASE r \notin RoomIds
  BY <1>3, <1>4, <1>6
<1> QED BY <1>5, <1>6

LEMMA WritesAcceptKeeps ==
  ASSUME ContactsInv, NEW q \in Threads, WritesAccept(q) PROVE ContactsInv'
<1>0. /\ ContactsTyped /\ thread[q] \in Thread /\ ThreadOK(q) /\ thread[q].who \in Pair
      /\ thread[q].whom \in Pair \union {Third} /\ thread[q].room \in 0..MaxTalks
      /\ thread[q].seen \in Room /\ thread[q].fresh \in Room /\ thread[q].seen.status \in {"none", "active", "waiting"}
  BY ThreadAt DEF ContactsInv, Room
<1>1. thread[q].at \in {"entered", "letInWrite", "accept"} /\ UNCHANGED <<pal, sent, talks, blocked, mingled, hurried>>
  BY DEF WritesAccept, Rest
<1>2. thread[q].at # "idle" /\ thread[q].at \notin Pinning
  BY <1>1 DEF Pinning
<1>3. sent' \subseteq Sent /\ \A x \in sent' : ~x.through
  BY <1>1 DEF ContactsInv, ContactsTyped
<1>4. pal' \in [Pair -> Pal] /\ \A u \in Pair : pal'[u].blacklist = pal[u].blacklist
  BY <1>0, <1>1 DEF ContactsTyped
<1>5. PICK from \in Room, u \in Pair, status \in {"none", "active", "waiting"} :
        /\ room' = Accepted(thread[q].room, from, u, status)
        /\ \/ thread[q].at = "entered" /\ from = thread[q].fresh /\ u = thread[q].who /\ status = thread[q].seen.status
           \/ thread[q].at = "letInWrite" /\ from = thread[q].fresh /\ u = thread[q].whom /\ status = thread[q].seen.status
           \/ thread[q].at = "accept" /\ from = thread[q].seen /\ u = thread[q].who /\ status = "active"
  <2>1. thread[q].at = "letInWrite" => thread[q].whom \in Pair
    BY <1>0, TwoOfThem DEF ThreadOK, Messaging
  <2> QED BY <1>0, <2>1 DEF WritesAccept
<1>6. /\ room' \in [RoomIds -> Room] /\ \A s \in RoomIds : s # thread[q].room => room'[s] = room[s]
      /\ thread[q].room \in RoomIds =>
           /\ room'[thread[q].room].status = status
           /\ room'[thread[q].room].participants = from.participants \union {u}
           /\ room'[thread[q].room].waitingUsers = Others(from.waitingUsers, u)
  BY <1>0, <1>5, AcceptedRoom
<1>7. thread[q].room # NoRoom => status # "none"
  BY <1>0, <1>2, <1>5 DEF ThreadOK
<1>8. \A r \in RoomIds : room[r].status # "none" => room'[r].status # "none"
  BY <1>6, <1>7, TwoOfThem DEF NoRoom
<1>9. \A r \in RoomIds : r # thread[q].room => SameCore(room'[r], room[r])
  BY <1>6 DEF SameCore
<1>10. ASSUME thread[q].room \in RoomIds, PhaseOK(q)
       PROVE  room'[thread[q].room].participants = Pair /\ room'[thread[q].room].waitingUsers = <<>>
  <2>1. AsSeen(q) /\ room[thread[q].room].status # "none"
    BY <1>0, <1>1, <1>10, TwoOfThem DEF PhaseOK, ThreadOK, NoRoom
  <2>2. SameCore(from, thread[q].seen) /\ from.waitingUsers = <<u>>
    <3>1. thread[q].at \in {"entered", "letInWrite"} => SameCore(thread[q].fresh, thread[q].seen)
      BY <1>10 DEF PhaseOK
    <3>2. \/ thread[q].at \in {"entered", "accept"} /\ thread[q].seen.waitingUsers = <<thread[q].who>> /\ u = thread[q].who
          \/ thread[q].at = "letInWrite" /\ thread[q].seen.waitingUsers = <<thread[q].whom>> /\ u = thread[q].whom
      BY <1>5, <1>10 DEF PhaseOK
    <3> QED BY <1>5, <3>1, <3>2 DEF SameCore
  <2>3. from.participants = Pair
    BY <2>1, <2>2 DEF AsSeen, SettledRoom, SameCore
  <2>4. Others(from.waitingUsers, u) = <<>>
    BY <2>2, OthersOf DEF Room
  <2> QED BY <1>6, <1>10, <2>3, <2>4
<1>11. ASSUME NEW at \in {"letIn", "bring"}, To(q, at),
              thread[q].at = IF at = "letIn" THEN "entered" ELSE "letInWrite"
       PROVE  ContactsInv'
  <2>1. PICK t \in Thread : /\ thread' = [thread EXCEPT ![q] = t] /\ t.at = at
                            /\ SameRequest(t, thread[q]) /\ t.allows = thread[q].allows
    BY <1>0, <1>11, Onward
  <2>2. thread'[q] = t /\ t.at \in Messaging /\ t.at \notin ListWrites \union {"open", "make"} \union Pinning
    BY <1>0, <2>1, OneThread DEF Messaging, ListWrites, Pinning
  <2>3. thread[q].at \in Messaging
    BY <1>11 DEF Messaging
  <2>4. ThreadOK(q)'
    BY <1>1, <1>4, <1>8, <2>1, <2>2, <2>3, MessageOnward
  <2>5. ASSUME NEW r \in RoomIds, OnRoom(q, r), r \notin mingled', PhaseOK(q)
        PROVE  /\ room'[r].waitingUsers = <<>> \/ \E u1 \in Pair : room'[r].waitingUsers = <<u1>>
               /\ IF t = Silent \/ t.at \in Pinning THEN SettledRoom(r)' ELSE PhaseOK(q)'
    <3>1. thread[q].room = r /\ t.room = r /\ t.seen = thread[q].seen /\ t.who = thread[q].who
      BY <2>1, <2>5 DEF OnRoom, SameRequest
    <3>2. room'[r].waitingUsers = <<>> /\ LetIn(q)'
      BY <1>10, <2>2, <2>5, <3>1 DEF LetIn
    <3>3. t # Silent
      BY <2>2, SilentTypes DEF Messaging
    <3>4. CASE at = "letIn"
      <4>1. ~t.allows /\ t.seen.waitingUsers = <<t.who>>
        BY <1>11, <2>1, <2>5, <3>1, <3>4 DEF PhaseOK
      <4> QED BY <2>1, <2>2, <3>2, <3>3, <3>4, <4>1 DEF PhaseOK
    <3>5. CASE at = "bring"
      <4>1. t.allows
        BY <1>11, <2>1, <2>5, <3>1, <3>5 DEF PhaseOK
      <4> QED BY <2>1, <2>2, <3>2, <3>3, <3>5, <4>1 DEF PhaseOK
    <3> QED BY <3>4, <3>5
  <2>6. \A r \in RoomIds : OnRoom(q, r) /\ r \notin mingled' /\ PhaseOK(q) =>
           /\ room'[r].waitingUsers = <<>> \/ \E u1 \in Pair : room'[r].waitingUsers = <<u1>>
           /\ IF t = Silent \/ t.at \in Pinning THEN SettledRoom(r)' ELSE PhaseOK(q)'
    BY <2>5
  <2> QED BY <1>1, <1>2, <1>3, <1>4, <1>6, <1>8, <1>9, <2>1, <2>2, <2>4, <2>6, StepKeeps
<1>12. CASE thread[q].at = "accept" /\ Falls(q)
  <2>1. ASSUME NEW r \in RoomIds, OnRoom(q, r), r \notin mingled', PhaseOK(q)
        PROVE  room'[r].waitingUsers = <<>> /\ SettledRoom(r)'
    <3>1. thread[q].room = r /\ status = "active"
      BY <1>5, <1>12, <2>1 DEF OnRoom
    <3>2. room'[r].waitingUsers = <<>> /\ room'[r].participants = Pair /\ room'[r].status = "active"
      BY <1>6, <1>10, <2>1, <3>1
    <3> QED BY <3>2 DEF SettledRoom
  <2> QED BY <1>1, <1>2, <1>4, <1>6, <1>8, <1>9, <1>12, <2>1, StepEnds
<1> QED BY <1>11, <1>12 DEF WritesAccept

LEMMA WritesRejectKeeps ==
  ASSUME ContactsInv, NEW q \in Threads, WritesReject(q) PROVE ContactsInv'
<1>0. /\ ContactsTyped /\ ThreadOK(q) /\ thread[q].who \in Pair /\ thread[q].room \in 0..MaxTalks
      /\ thread[q].seen \in Room /\ room \in [RoomIds -> Room]
  BY ThreadAt DEF ContactsInv, ContactsTyped
<1>a. PICK r0, u0, ws, rs :
        /\ r0 = thread[q].room /\ u0 = thread[q].who /\ ws = Others(thread[q].seen.waitingUsers, u0)
        /\ rs = thread[q].seen.rejectedUsers \union {u0}
  OBVIOUS
<1>1. /\ thread[q].at = "reject" /\ UNCHANGED <<pal, sent, talks, blocked, mingled, hurried>> /\ Falls(q)
      /\ room' = [room EXCEPT ![r0].waitingUsers = ws, ![r0].rejectedUsers = rs]
  BY <1>a DEF WritesReject, Rest
<1>2. ws \in Seq(Pair \union {Null}) /\ rs \in SUBSET Pair
  BY <1>0, <1>a, OthersOf DEF Room
<1>3. /\ room' \in [RoomIds -> Room] /\ \A r \in RoomIds : r # r0 => room'[r] = room[r]
      /\ r0 \in RoomIds => /\ room'[r0].status = room[r0].status /\ room'[r0].participants = room[r0].participants
                           /\ room'[r0].waitingUsers = ws /\ room'[r0].rejectedUsers = rs
  <2>1. CASE r0 \in RoomIds
    <3>1. PICK x : x = [room[r0] EXCEPT !.waitingUsers = ws, !.rejectedUsers = rs]
      OBVIOUS
    <3>2. room' = [room EXCEPT ![r0] = x]
      BY <1>0, <1>1, <2>1, <3>1
    <3>3. /\ x \in Room /\ x.status = room[r0].status /\ x.participants = room[r0].participants
          /\ x.waitingUsers = ws /\ x.rejectedUsers = rs
      BY <1>0, <1>2, <2>1, <3>1 DEF Room
    <3> QED BY <1>0, <2>1, <3>2, <3>3
  <2>2. CASE r0 \notin RoomIds
    BY <1>0, <1>1, <2>2
  <2> QED BY <2>1, <2>2
<1>4. ASSUME NEW r \in RoomIds, OnRoom(q, r), r \notin mingled', PhaseOK(q)
      PROVE  room'[r].waitingUsers = <<>> /\ SettledRoom(r)'
  <2>1. r = r0 /\ AsSeen(q) /\ thread[q].seen.waitingUsers = <<u0>>
    BY <1>a, <1>1, <1>4 DEF OnRoom, PhaseOK
  <2>2. ws = <<>>
    <3>1. thread[q].seen.waitingUsers \in Seq(Pair \union {Null})
      BY <1>0 DEF Room
    <3>2. PICK s \in Seq(Pair \union {Null}) : s = thread[q].seen.waitingUsers
      BY <3>1
    <3>3. s = <<u0>> => Others(s, u0) = <<>>
      BY OthersOf
    <3> QED BY <1>a, <2>1, <3>2, <3>3
  <2>3. room[r].status = "none" \/ (room[r].participants = Pair /\ room[r].status # "active")
    BY <1>a, <2>1 DEF AsSeen, SettledRoom, SameCore
  <2>4. room'[r].rejectedUsers # {}
    BY <1>a, <1>3, <2>1
  <2> QED BY <1>3, <2>1, <2>2, <2>3, <2>4 DEF SettledRoom
<1>5. pal' \in [Pair -> Pal] /\ \A u \in Pair : pal'[u].blacklist = pal[u].blacklist
  BY <1>0, <1>1 DEF ContactsTyped
<1>6. thread[q].at \notin Pinning
  BY <1>1 DEF Pinning
<1> QED BY <1>1, <1>a, <1>3, <1>4, <1>5, <1>6, StepEnds DEF SameCore

LEMMA BringsRoomKeeps ==
  ASSUME ContactsInv, NEW q \in Threads, BringsRoom(q) PROVE ContactsInv'
<1>0. /\ ContactsTyped /\ ThreadOK(q) /\ thread[q].who \in Pair /\ thread[q].room \in 0..MaxTalks
      /\ thread[q].seen \in Room /\ room \in [RoomIds -> Room]
  BY ThreadAt DEF ContactsInv, ContactsTyped
<1>a. PICK r0, st : r0 = thread[q].room /\ st = NewStatus(q)
  OBVIOUS
<1>1. /\ thread[q].at = "bring" /\ UNCHANGED <<pal, sent, talks, blocked, mingled, hurried>> /\ Falls(q)
      /\ room' = IF r0 = NoRoom THEN room ELSE [room EXCEPT ![r0].status = st, ![r0].deleteFor = {}, ![r0].archiveFor = {}]
  BY <1>a DEF BringsRoom, Rest
<1>2. st \in {"none", "active", "waiting"} /\ (r0 # NoRoom => st # "none")
  <2>1. thread[q].seen.status \in {"none", "active", "waiting"}
    BY <1>0 DEF Room
  <2>2. r0 # NoRoom => thread[q].seen.status # "none"
    BY <1>0, <1>a, <1>1 DEF ThreadOK, Pinning
  <2> QED BY <1>a, <2>1, <2>2 DEF NewStatus
<1>3. /\ room' \in [RoomIds -> Room] /\ \A r \in RoomIds : r # r0 => room'[r] = room[r]
      /\ r0 \in RoomIds => /\ room'[r0].status = st /\ room'[r0].participants = room[r0].participants
                           /\ room'[r0].waitingUsers = room[r0].waitingUsers
                           /\ room'[r0].rejectedUsers = room[r0].rejectedUsers
  <2>1. CASE r0 \in RoomIds
    <3>0. r0 # NoRoom
      BY <2>1, TwoOfThem DEF NoRoom
    <3>1. PICK x : x = [room[r0] EXCEPT !.status = st, !.deleteFor = {}, !.archiveFor = {}]
      OBVIOUS
    <3>2. room' = [room EXCEPT ![r0] = x]
      BY <1>0, <1>1, <2>1, <3>0, <3>1
    <3>3. /\ x \in Room /\ x.status = st /\ x.participants = room[r0].participants
          /\ x.waitingUsers = room[r0].waitingUsers /\ x.rejectedUsers = room[r0].rejectedUsers
      BY <1>0, <1>2, <2>1, <3>1 DEF Room
    <3> QED BY <1>0, <2>1, <3>2, <3>3
  <2>2. CASE r0 \notin RoomIds
    BY <1>0, <1>1, <2>2
  <2> QED BY <2>1, <2>2
<1>4. ASSUME NEW r \in RoomIds, OnRoom(q, r), r \notin mingled', PhaseOK(q)
      PROVE  (room'[r].waitingUsers = <<>> \/ \E u \in Pair : room'[r].waitingUsers = <<u>>) /\ SettledRoom(r)'
  <2>1. r = r0 /\ r \notin mingled /\ thread[q].room = r
    BY <1>a, <1>1, <1>4 DEF OnRoom
  <2>2. RoomOK(r)
    BY DEF ContactsInv
  <2>3. room'[r].waitingUsers = <<>> \/ \E u \in Pair : room'[r].waitingUsers = <<u>>
    BY <1>3, <2>1, <2>2 DEF RoomOK
  <2>4. CASE LetIn(q) /\ (thread[q].allows \/ thread[q].seen.waitingUsers = <<thread[q].who>>)
    <3>1. st = "active"
      BY <1>a, <2>4 DEF NewStatus
    <3> QED BY <1>3, <2>1, <2>3, <2>4, <3>1 DEF SettledRoom, LetIn
  <2>5. CASE AsSeen(q) /\ ~thread[q].allows /\ thread[q].who \notin Range(thread[q].seen.waitingUsers)
    <3>1. thread[q].seen.waitingUsers # <<thread[q].who>>
      BY <2>5 DEF Range
    <3>2. st = room[r].status
      BY <1>a, <2>1, <2>5, <3>1 DEF NewStatus, AsSeen, SameCore
    <3>3. SettledRoom(r)
      BY <2>1, <2>5 DEF AsSeen
    <3> QED BY <1>3, <2>1, <2>3, <3>2, <3>3 DEF SettledRoom
  <2> QED BY <1>1, <1>4, <2>4, <2>5 DEF PhaseOK
<1>5. pal' \in [Pair -> Pal] /\ \A u \in Pair : pal'[u].blacklist = pal[u].blacklist
  BY <1>0, <1>1 DEF ContactsTyped
<1>6. thread[q].at \notin Pinning /\ \A r \in RoomIds : r # NoRoom
  BY <1>1, TwoOfThem DEF Pinning, NoRoom
<1>7. \A r \in RoomIds : room[r].status # "none" => room'[r].status # "none"
  BY <1>2, <1>3, <1>6
<1>8. \A r \in RoomIds : r # thread[q].room => SameCore(room'[r], room[r])
  BY <1>a, <1>3 DEF SameCore
<1> QED BY <1>1, <1>3, <1>4, <1>5, <1>6, <1>7, <1>8, StepEnds

LEMMA PartsKeeps ==
  ASSUME ContactsInv, NEW q \in Threads, Parts(q) PROVE ContactsInv'
<1>0. /\ ContactsTyped /\ ThreadOK(q) /\ thread[q].who \in Pair /\ thread[q].room \in 0..MaxTalks
      /\ thread[q].seen \in Room /\ room \in [RoomIds -> Room]
  BY ThreadAt DEF ContactsInv, ContactsTyped
<1>a. PICK r0, ps, ws : /\ r0 = thread[q].room /\ ps = {thread[q].who}
                        /\ ws = Append(thread[q].seen.waitingUsers, OtherRead(q))
  OBVIOUS
<1>1. /\ thread[q].at = "part" /\ UNCHANGED <<pal, sent, talks, blocked, mingled, hurried>> /\ Falls(q)
      /\ room' = [room EXCEPT ![r0].status = "waiting", ![r0].participants = ps, ![r0].waitingUsers = ws]
  BY <1>a DEF Parts, Rest
<1>2. ps \in SUBSET Pair /\ ws \in Seq(Pair \union {Null})
  <2>1. OtherRead(q) \in Pair \union {Null} /\ thread[q].seen.waitingUsers \in Seq(Pair \union {Null})
    BY <1>0 DEF OtherRead, Room
  <2> QED BY <1>0, <1>a, <2>1
<1>3. /\ room' \in [RoomIds -> Room] /\ \A r \in RoomIds : r # r0 => room'[r] = room[r]
      /\ r0 \in RoomIds => room'[r0].status = "waiting"
  <2>1. CASE r0 \in RoomIds
    <3>1. PICK x : x = [room[r0] EXCEPT !.status = "waiting", !.participants = ps, !.waitingUsers = ws]
      OBVIOUS
    <3>2. room' = [room EXCEPT ![r0] = x]
      BY <1>0, <1>1, <2>1, <3>1
    <3>3. x \in Room /\ x.status = "waiting"
      BY <1>0, <1>2, <2>1, <3>1 DEF Room
    <3> QED BY <1>0, <2>1, <3>2, <3>3
  <2>2. CASE r0 \notin RoomIds
    BY <1>0, <1>1, <2>2
  <2> QED BY <2>1, <2>2
<1>4. ~PhaseOK(q)
  BY <1>1 DEF PhaseOK, Messaging
<1>5. pal' \in [Pair -> Pal] /\ \A u \in Pair : pal'[u].blacklist = pal[u].blacklist
  BY <1>0, <1>1 DEF ContactsTyped
<1>6. thread[q].at \notin Pinning
  BY <1>1 DEF Pinning
<1>7. \A r \in RoomIds : room[r].status # "none" => room'[r].status # "none"
  BY <1>3
<1>8. \A r \in RoomIds : r # thread[q].room => SameCore(room'[r], room[r])
  BY <1>a, <1>3 DEF SameCore
<1> QED BY <1>1, <1>3, <1>4, <1>5, <1>6, <1>7, <1>8, StepEnds

LEMMA FindsPairKeeps ==
  ASSUME ContactsInv, NEW q \in Threads, FindsPair(q) PROVE ContactsInv'
<1>0. ContactsTyped /\ ThreadOK(q) /\ thread[q] \in Thread /\ Silent \in Thread
  BY ThreadAt, SilentTypes DEF ContactsInv
<1>1. thread[q].at = "open" /\ UNCHANGED <<pal, room, sent, talks, blocked, mingled, hurried>>
  BY DEF FindsPair, Rest
<1>2. thread[q].room = NoRoom /\ NoRoom \notin RoomIds
  BY <1>0, <1>1, TwoOfThem DEF ThreadOK, NoRoom
<1>3. CASE Falls(q)
  BY <1>1, <1>2, <1>3, StepEndsAlone
<1>4. CASE To(q, "make") /\ ~\E r \in RoomIds : room[r].participants = Pair
  <2>1. PICK t \in Thread : /\ thread' = [thread EXCEPT ![q] = t] /\ t.at = "make"
                            /\ SameRequest(t, thread[q]) /\ t.allows = thread[q].allows
    BY <1>0, <1>4, Onward
  <2>2. thread'[q] = t
    BY <1>0, <2>1, OneThread
  <2>3. t.at \notin ListWrites \union Pinning \union Messaging /\ thread[q].at \notin Pinning /\ thread[q].at # "idle"
    BY <1>1, <2>1 DEF ListWrites, Pinning, Messaging
  <2>4. ThreadOK(q)'
    <3>1. t.held \subseteq Blockers(pal')
      BY <1>0, <1>1, <2>1 DEF ThreadOK, SameRequest
    <3>2. t.n \in 1..talks' /\ t.room = NoRoom /\ t.whom = Other(t.who)
      BY <1>0, <1>1, <1>2, <2>1, <2>3 DEF ThreadOK, SameRequest
    <3> QED BY <2>1, <2>2, <2>3, <3>1, <3>2 DEF ThreadOK
  <2>5. pal' \in [Pair -> Pal] /\ room' \in [RoomIds -> Room] /\ sent' \subseteq Sent /\ \A x \in sent' : ~x.through
    BY <1>1 DEF ContactsInv, ContactsTyped
  <2>6. \A r \in RoomIds : ~OnRoom(q, r) /\ SameCore(room'[r], room[r])
    BY <1>1, <1>2 DEF OnRoom, SameCore
  <2> QED BY <1>1, <1>4, <2>1, <2>3, <2>4, <2>5, <2>6, StepKeeps
<1> QED BY <1>3, <1>4 DEF FindsPair

LEMMA ArchivesKeeps ==
  ASSUME ContactsInv, NEW q \in Threads, Archives(q) PROVE ContactsInv'
<1>0. /\ ContactsTyped /\ thread[q].who \in Pair /\ room \in [RoomIds -> Room]
  BY ThreadAt DEF ContactsInv, ContactsTyped
<1>1. /\ thread[q].at = "archive" /\ UNCHANGED <<pal, sent, talks, blocked, mingled, hurried>> /\ Falls(q)
      /\ room' = [room EXCEPT ![thread[q].room].archiveFor = @ \union {thread[q].who}]
  BY DEF Archives, Rest
<1>2. room' \in [RoomIds -> Room] /\ \A r \in RoomIds : SameCore(room'[r], room[r])
  <2>1. PICK e : e = [room[thread[q].room] EXCEPT !.archiveFor = @ \union {thread[q].who}]
    OBVIOUS
  <2>2. room' = [room EXCEPT ![thread[q].room] = e]
    BY <1>1, <2>1
  <2>3. thread[q].room \in RoomIds => e \in Room /\ SameCore(e, room[thread[q].room])
    BY <1>0, <2>1 DEF Room, SameCore
  <2>4. \A r \in RoomIds : room'[r] = room[r] \/ (r = thread[q].room /\ room'[r] = e)
    BY <1>0, <2>2
  <2>5. room' \in [RoomIds -> Room]
    BY <1>0, <2>2, <2>3
  <2> QED BY <2>3, <2>4, <2>5 DEF SameCore
<1>3. \A r \in RoomIds : ~OnRoom(q, r)
  BY <1>1 DEF OnRoom, Pinning
<1>4. pal' \in [Pair -> Pal] /\ \A u \in Pair : pal'[u].blacklist = pal[u].blacklist
  BY <1>0, <1>1 DEF ContactsTyped
<1>5. \A r \in RoomIds : room[r].status # "none" => room'[r].status # "none"
  BY <1>2 DEF SameCore
<1> QED BY <1>1, <1>2, <1>3, <1>4, <1>5, StepEnds

LEMMA ThreadFailsKeeps ==
  ASSUME ContactsInv, NEW q \in Threads, ThreadFails(q) PROVE ContactsInv'
<1>1. /\ UNCHANGED <<pal, room, sent, talks, blocked, hurried>> /\ Falls(q)
      /\ mingled' = mingled \union ({thread[q].room} \intersect RoomIds)
  BY DEF ThreadFails
<1>2. mingled \subseteq mingled' /\ thread[q].room \notin RoomIds \ mingled'
  BY <1>1
<1> QED BY <1>1, <1>2, StepEndsAlone

LEMMA WritesPalKeeps ==
  ASSUME ContactsInv, NEW q \in Threads, WritesPal(q) PROVE ContactsInv'
<1>0. /\ ContactsTyped /\ ThreadOK(q) /\ thread[q] \in Thread /\ thread[q].who \in Pair
      /\ thread[q].allows \in BOOLEAN /\ pal \in [Pair -> Pal] /\ room \in [RoomIds -> Room]
  BY ThreadAt DEF ContactsInv, ContactsTyped
<1>1. thread[q].at \in {"allow", "pin", "unpinArchive"} /\ UNCHANGED <<room, sent, talks, blocked, mingled, hurried>>
  BY DEF WritesPal
<1>2. pal' \in [Pair -> Pal] /\ \A u \in Pair : pal'[u].blacklist = pal[u].blacklist
  <2>1. PICK u0 \in Pair : u0 = thread[q].who
    BY <1>0
  <2>2. ASSUME NEW b \in BOOLEAN, pal' = [pal EXCEPT ![u0].allowUnknown = b]
        PROVE  pal' \in [Pair -> Pal] /\ \A u \in Pair : pal'[u].blacklist = pal[u].blacklist
    BY <1>0, <2>2 DEF Pal
  <2>3. ASSUME NEW l \in SUBSET RoomIds, pal' = [pal EXCEPT ![u0].pinRoomIds = l]
        PROVE  pal' \in [Pair -> Pal] /\ \A u \in Pair : pal'[u].blacklist = pal[u].blacklist
    BY <1>0, <2>3 DEF Pal
  <2>4. CASE thread[q].at = "allow"
    BY <1>0, <2>1, <2>2, <2>4 DEF WritesPal
  <2>5. CASE thread[q].at \in {"pin", "unpinArchive"}
    <3>1. thread[q].list \subseteq RoomIds /\ thread[q].room \in RoomIds
      BY <1>0, <2>5 DEF ThreadOK, Pinning
    <3>2. PICK l \in SUBSET RoomIds : pal' = [pal EXCEPT ![u0].pinRoomIds = l]
      <4>1. thread[q].list \ {thread[q].room} \in SUBSET RoomIds /\ thread[q].list \union {thread[q].room} \in SUBSET RoomIds
        BY <3>1
      <4> QED BY <2>1, <2>5, <4>1 DEF WritesPal
    <3> QED BY <2>3, <3>2
  <2> QED BY <1>1, <2>4, <2>5
<1>3. \A r \in RoomIds : ~OnRoom(q, r) /\ SameCore(room'[r], room[r])
  <2>1. thread[q].at = "allow" => thread[q].room = NoRoom
    BY <1>0 DEF ThreadOK
  <2> QED BY <1>1, <2>1, TwoOfThem DEF OnRoom, SameCore, Pinning, NoRoom
<1>4. room' \in [RoomIds -> Room] /\ sent' \subseteq Sent /\ \A x \in sent' : ~x.through
  BY <1>0, <1>1 DEF ContactsInv, ContactsTyped
<1>5. CASE Falls(q)
  BY <1>1, <1>2, <1>3, <1>4, <1>5, StepEnds
<1>6. CASE To(q, "archive") /\ thread[q].at = "unpinArchive"
  <2>1. PICK t \in Thread : /\ thread' = [thread EXCEPT ![q] = t] /\ t.at = "archive"
                            /\ SameRequest(t, thread[q]) /\ t.allows = thread[q].allows
    BY <1>0, <1>6, Onward
  <2>2. thread'[q] = t
    BY <1>0, <2>1, OneThread
  <2>3. /\ t.at \notin ListWrites \union Messaging \union {"open", "make"} /\ t.at \in Pinning
        /\ thread[q].at \in Pinning /\ thread[q].at # "idle"
    BY <1>6, <2>1 DEF ListWrites, Pinning, Messaging
  <2>4. ThreadOK(q)'
    <3>1. t.held \subseteq Blockers(pal')
      BY <1>0, <1>2, <2>1, BlockersKept DEF ThreadOK, SameRequest
    <3>2. t.n \in 1..talks' /\ t.room \in RoomIds /\ (t.room # NoRoom => room'[t.room].status # "none")
      BY <1>0, <1>1, <2>1, <2>3 DEF ThreadOK, SameRequest
    <3> QED BY <2>1, <2>2, <2>3, <3>1, <3>2 DEF ThreadOK
  <2> QED BY <1>1, <1>2, <1>3, <1>4, <2>1, <2>3, <2>4, StepKeeps
<1> QED BY <1>5, <1>6 DEF WritesPal

LEMMA MakesRoomKeeps ==
  ASSUME ContactsInv, NEW q \in Threads, MakesRoom(q) PROVE ContactsInv'
<1>0. /\ ContactsTyped /\ ThreadOK(q) /\ thread[q] \in Thread /\ thread[q].allows \in BOOLEAN
      /\ thread[q].who \in Pair /\ room \in [RoomIds -> Room] /\ talks \in Nat /\ talks \in 0..MaxTalks
  BY ThreadAt, TwoOfThem DEF ContactsInv, ContactsTyped
<1>1. /\ thread[q].at = "make" /\ UNCHANGED <<pal, sent, talks, blocked, mingled, hurried>>
      /\ thread' = [thread EXCEPT ![q] = Silent]
  BY DEF MakesRoom, Falls, Rest
<1>2. /\ thread' \in [Threads -> Thread] /\ thread'[q] = Silent /\ \A p \in Threads \ {q} : thread'[p] = thread[p]
  BY <1>0, <1>1, OneThread, SilentTypes
<1>3. PICK n \in RoomIds : n = thread[q].n /\ n <= talks
  <2>1. thread[q].n \in 1..talks
    BY <1>0, <1>1 DEF ThreadOK
  <2>2. \A i \in 1..talks : i \in RoomIds /\ i <= talks
    BY <1>0, TwoOfThem DEF RoomIds
  <2> QED BY <2>1, <2>2
<1>4. PICK x \in Room : /\ room' = [room EXCEPT ![n] = x] /\ x.participants = Pair /\ x.status # "none"
                        /\ x.status = "active" => x.waitingUsers = <<>>
                        /\ x.status = "waiting" => x.waitingUsers # <<>>
                        /\ x.waitingUsers = <<>> \/ \E u \in Pair : x.waitingUsers = <<u>>
  <2>1. thread[q].whom \in Pair
    BY <1>0, <1>1, TwoOfThem DEF ThreadOK
  <2>2. PICK x : x = [NotARoom EXCEPT !.participants = Pair,
                        !.status = IF thread[q].allows THEN "active" ELSE "waiting",
                        !.waitingUsers = IF thread[q].allows THEN <<>> ELSE <<thread[q].whom>>]
    OBVIOUS
  <2>3. /\ x.participants = Pair /\ x.status = (IF thread[q].allows THEN "active" ELSE "waiting")
        /\ x.waitingUsers = (IF thread[q].allows THEN <<>> ELSE <<thread[q].whom>>)
    BY <2>2 DEF NotARoom
  <2>4. x.waitingUsers \in Seq(Pair \union {Null})
    <3>1. <<>> \in Seq(Pair \union {Null})
      OBVIOUS
    <3>2. PICK w \in Pair \union {Null} : w = thread[q].whom
      BY <2>1
    <3>3. <<w>> \in Seq(Pair \union {Null})
      OBVIOUS
    <3> QED BY <2>3, <3>1, <3>2, <3>3
  <2>5. x \in Room
    BY <2>2, <2>3, <2>4 DEF NotARoom, Room
  <2>6. room' = [room EXCEPT ![n] = x]
    BY <1>3, <2>2 DEF MakesRoom
  <2>7. <<thread[q].whom>> # <<>>
    OBVIOUS
  <2> QED BY <2>1, <2>3, <2>5, <2>6, <2>7
<1>5. room' \in [RoomIds -> Room] /\ room'[n] = x /\ \A r \in RoomIds \ {n} : room'[r] = room[r]
  BY <1>0, <1>4
<1>6. ContactsTyped'
  BY <1>0, <1>1, <1>2, <1>5 DEF ContactsTyped
<1>7. Apart'
  BY <1>2, SilentTypes DEF ContactsInv, Apart
<1>8. \A p \in Threads : thread'[p].at # "idle" => p # q /\ thread'[p] = thread[p]
  BY <1>2, SilentTypes
<1>9. room[n].status = "none"
  BY <1>1, <1>3 DEF ContactsInv, RoomOK
<1>10. OneRoom'
  <2>1. SUFFICES ASSUME ~hurried PROVE OneRoom'
    BY <1>1 DEF OneRoom
  <2>2. /\ \A p \in Threads : thread[p].at \in {"open", "make"} => p = q
        /\ \A r \in RoomIds \ mingled : room[r].participants # Pair
    BY <1>1, <2>1 DEF ContactsInv, OneRoom
  <2>3. \A p \in Threads : thread'[p].at \notin {"open", "make"}
    BY <1>8, <2>2
  <2>4. \A r \in RoomIds \ mingled' : room'[r].participants = Pair => r = n
    BY <1>1, <1>5, <2>2
  <2> QED BY <2>3, <2>4 DEF OneRoom
<1>11. ASSUME NEW p \in Threads PROVE ThreadOK(p)'
  <2>1. CASE p # q
    <3>1. ThreadOK(p) /\ thread'[p] = thread[p] /\ thread[p].room \in 0..MaxTalks
      BY <1>0, <1>2, <2>1, ThreadAt DEF ContactsInv
    <3>2. thread'[p].held \subseteq Blockers(pal')
      BY <1>1, <3>1 DEF ThreadOK
    <3>3. \A r \in RoomIds : room[r].status # "none" => room'[r].status # "none"
      BY <1>5, <1>9
    <3> QED BY <1>0, <1>1, <3>1, <3>2, <3>3, ThreadKept
  <2>2. CASE p = q
    <3>1. thread'[q].at = "idle" /\ thread'[q].room = NoRoom /\ thread'[q].held = {}
      BY <1>2, SilentTypes
    <3> QED BY <2>2, <3>1 DEF ThreadOK, Messaging, ListWrites, Pinning
  <2> QED BY <2>1, <2>2
<1>12. ASSUME NEW u \in Pair PROVE BlacklistOK(u)'
  <2>1. \A p \in Threads : thread'[p].at \in ListWrites => thread'[p] = thread[p]
    BY <1>8 DEF ListWrites
  <2>2. BlacklistOK(u)
    BY DEF ContactsInv
  <2> QED BY <1>1, <2>1, <2>2, BlacklistKept
<1>13. \A r \in RoomIds : r # NoRoom /\ RoomOK(r)
  BY TwoOfThem DEF NoRoom, ContactsInv
<1>14. \A p \in Threads, r \in RoomIds : OnRoom(p, r)' => p # q /\ OnRoom(p, r)
  BY <1>2, <1>13, SilentTypes DEF OnRoom
<1>15. \A p \in Threads, r \in RoomIds : OnRoom(p, r) => p # q /\ OnRoom(p, r)' /\ thread'[p] = thread[p]
  <2>1. thread[q].room = NoRoom
    BY <1>0, <1>1 DEF ThreadOK
  <2> QED BY <1>2, <1>13, <2>1 DEF OnRoom
<1>16. \A p \in Threads : thread'[p].at \in {"open", "make"} =>
         thread[p].at \in {"open", "make"} /\ thread'[p].n = thread[p].n /\ p # q
  BY <1>8
<1>17. ASSUME NEW r \in RoomIds, r # n PROVE RoomOK(r)'
  BY <1>0, <1>1, <1>5, <1>13, <1>14, <1>15, <1>16, <1>17, RoomKept DEF SameCore
<1>18. RoomOK(n)'
  <2>1. \A p \in Threads : ~OnRoom(p, n)'
    <3>1. ASSUME NEW p \in Threads, OnRoom(p, n) PROVE FALSE
      BY <1>9, <1>13, <3>1 DEF ContactsInv, ThreadOK, OnRoom
    <3> QED BY <1>14, <3>1
  <2>2. SettledRoom(n)'
    BY <1>4, <1>5 DEF SettledRoom
  <2>3. \A p \in Threads : thread'[p].at \in {"open", "make"} => thread'[p].n # n
    BY <1>1, <1>3, <1>16 DEF ContactsInv, Apart
  <2> QED BY <1>1, <1>3, <1>4, <1>5, <2>1, <2>2, <2>3 DEF RoomOK
<1> QED BY <1>1, <1>6, <1>7, <1>10, <1>11, <1>12, <1>17, <1>18 DEF ContactsInv

LEMMA WritesBlacklistKeeps ==
  ASSUME ContactsInv, NEW q \in Threads, WritesBlacklist(q) PROVE ContactsInv'
<1>0. /\ ContactsTyped /\ ThreadOK(q) /\ thread[q] \in Thread /\ thread[q].who \in Pair
      /\ thread[q].whom \in Pair \union {Third} /\ room \in [RoomIds -> Room] /\ pal \in [Pair -> Pal]
      /\ talks \in Nat /\ talks \in 0..MaxTalks /\ blocked \in [Pair -> SUBSET (Pair \union {Third})]
  BY ThreadAt, TwoOfThem DEF ContactsInv, ContactsTyped
<1>1. /\ thread[q].at \in ListWrites /\ UNCHANGED <<room, sent, talks, mingled, hurried>>
      /\ pal' = [pal EXCEPT ![thread[q].who].blacklist = NewBlacklist(q)]
      /\ blocked' = [blocked EXCEPT ![thread[q].who] = IF thread[q].at = "block" THEN @ \union {thread[q].whom}
                                                                   ELSE @ \ {thread[q].whom}]
      /\ thread' = [p \in Threads |->
           IF p = q THEN Silent ELSE [thread[p] EXCEPT !.held = @ \intersect Blockers(pal')]]
  BY DEF WritesBlacklist
<1>2. PICK u0 \in Pair, l \in SUBSET (Pair \union {Third}) :
        u0 = thread[q].who /\ l = NewBlacklist(q)
  BY <1>0, <1>1 DEF NewBlacklist, ThreadOK
<1>3. /\ pal' \in [Pair -> Pal] /\ pal'[u0].blacklist = l
      /\ \A u \in Pair \ {u0} : pal'[u].blacklist = pal[u].blacklist
  BY <1>0, <1>1, <1>2 DEF Pal
<1>4. /\ blocked' \in [Pair -> SUBSET (Pair \union {Third})] /\ \A u \in Pair \ {u0} : blocked'[u] = blocked[u]
      /\ blocked'[u0] = (IF thread[q].at = "block" THEN blocked[u0] \union {thread[q].whom}
                                                   ELSE blocked[u0] \ {thread[q].whom})
  BY <1>0, <1>1, <1>2
<1>5. /\ thread' \in [Threads -> Thread] /\ thread'[q] = Silent
      /\ \A p \in Threads \ {q} :
           /\ thread'[p].room = thread[p].room /\ thread'[p].at = thread[p].at /\ thread'[p].n = thread[p].n
           /\ thread'[p].who = thread[p].who /\ thread'[p].whom = thread[p].whom
           /\ thread'[p].list = thread[p].list /\ thread'[p].seen = thread[p].seen
           /\ thread'[p].fresh = thread[p].fresh /\ thread'[p].allows = thread[p].allows
           /\ thread'[p].held \subseteq thread[p].held /\ thread'[p].held \subseteq Blockers(pal')
  <2>1. PICK B : B = Blockers(pal')
    OBVIOUS
  <2>2. ASSUME NEW p \in Threads \ {q}
        PROVE  /\ thread'[p] \in Thread
               /\ thread'[p].room = thread[p].room /\ thread'[p].at = thread[p].at /\ thread'[p].n = thread[p].n
               /\ thread'[p].who = thread[p].who /\ thread'[p].whom = thread[p].whom
               /\ thread'[p].list = thread[p].list /\ thread'[p].seen = thread[p].seen
               /\ thread'[p].fresh = thread[p].fresh /\ thread'[p].allows = thread[p].allows
               /\ thread'[p].held \subseteq thread[p].held /\ thread'[p].held \subseteq B
    <3>1. thread[p] \in Thread /\ thread'[p] = [thread[p] EXCEPT !.held = thread[p].held \intersect B]
      BY <1>0, <1>1, <2>1, ThreadAt
    <3> QED BY <3>1 DEF Thread
  <2>3. thread'[q] = Silent /\ Silent \in Thread
    BY <1>1, SilentTypes
  <2>4. thread' = [p \in Threads |-> thread'[p]]
    BY <1>1
  <2> QED BY <2>1, <2>2, <2>3, <2>4
<1>6. ContactsTyped'
  BY <1>0, <1>1, <1>3, <1>4, <1>5 DEF ContactsTyped
<1>7. Apart'
  BY <1>5, SilentTypes DEF ContactsInv, Apart
<1>8. \A p \in Threads : thread'[p].at # "idle" => p # q
  BY <1>5, SilentTypes
<1>9. OneRoom'
  BY <1>1, <1>5, <1>8, OneRoomKept DEF ContactsInv
<1>10. ASSUME NEW p \in Threads PROVE ThreadOK(p)'
  <2>1. CASE p # q
    <3>1. ThreadOK(p) /\ thread[p].room \in 0..MaxTalks
      BY <1>0, ThreadAt DEF ContactsInv
    <3> QED BY <1>0, <1>1, <1>5, <2>1, <3>1, ThreadKept
  <2>2. CASE p = q
    <3>1. thread'[q].at = "idle" /\ thread'[q].room = NoRoom /\ thread'[q].held = {}
      BY <1>5, SilentTypes
    <3> QED BY <2>2, <3>1 DEF ThreadOK, Messaging, ListWrites, Pinning
  <2> QED BY <2>1, <2>2
<1>11. \A p \in Threads, u \in Pair : thread'[p].at \in ListWrites /\ thread'[p].who = u =>
          p # q /\ thread[p].at = thread'[p].at /\ thread[p].who = u /\ thread'[p].list = thread[p].list
  BY <1>5, <1>8 DEF ListWrites
<1>12. ASSUME NEW u \in Pair, u # u0 PROVE BlacklistOK(u)'
  BY <1>1, <1>3, <1>4, <1>11, <1>12, BlacklistKept DEF ContactsInv
<1>13. BlacklistOK(u0)'
  <2>1. SUFFICES ASSUME u0 \notin mingled PROVE BlacklistOK(u0)'
    BY <1>1 DEF BlacklistOK
  <2>2. /\ pal[u0].blacklist = blocked[u0] /\ thread[q].list = pal[u0].blacklist
        /\ \A p \in Threads : thread[p].at \in ListWrites /\ thread[p].who = u0 => p = q
    BY <1>1, <1>2, <2>1 DEF ContactsInv, BlacklistOK
  <2>3. pal'[u0].blacklist = blocked'[u0]
    BY <1>2, <1>3, <1>4, <2>2 DEF NewBlacklist
  <2>4. \A p \in Threads : ~(thread'[p].at \in ListWrites /\ thread'[p].who = u0)
    BY <1>11, <2>2
  <2> QED BY <2>3, <2>4 DEF BlacklistOK
<1>14. \A r \in RoomIds : r # NoRoom /\ RoomOK(r)
  BY TwoOfThem DEF NoRoom, ContactsInv
<1>15. \A r \in RoomIds : ~OnRoom(q, r) /\ ~OnRoom(q, r)'
  <2>1. thread[q].room = NoRoom /\ thread'[q].room = NoRoom
    BY <1>0, <1>1, <1>5, SilentTypes DEF ThreadOK
  <2> QED BY <1>14, <2>1 DEF OnRoom
<1>16. \A p \in Threads, r \in RoomIds : OnRoom(p, r)' <=> OnRoom(p, r)
  BY <1>5, <1>15 DEF OnRoom
<1>17. ASSUME NEW r \in RoomIds PROVE RoomOK(r)'
  <2>1. \A p \in Threads : thread'[p].at \in {"open", "make"} => thread[p].at \in {"open", "make"} /\ thread'[p].n = thread[p].n
    BY <1>5, <1>8
  <2>2. \A p \in Threads : OnRoom(p, r) =>
           /\ thread'[p].at = thread[p].at /\ SameCore(thread'[p].seen, thread[p].seen)
           /\ SameCore(thread'[p].fresh, thread[p].fresh) /\ thread'[p].who = thread[p].who
           /\ thread'[p].whom = thread[p].whom /\ thread'[p].allows = thread[p].allows
    BY <1>5, <1>15 DEF SameCore
  <2> QED BY <1>0, <1>1, <1>14, <1>16, <2>1, <2>2, RoomKept DEF SameCore
<1> QED BY <1>1, <1>6, <1>7, <1>9, <1>10, <1>12, <1>13, <1>17 DEF ContactsInv

(* The request of a user, as it begins.                                      *)
LEMMA AskingTypes ==
  ASSUME NEW u \in Pair,
         NEW at \in {"open", "check", "block", "unblock", "allow", "accept", "reject", "part", "pin", "unpinArchive"}
  PROVE  \E t \in Thread : /\ t = Asking(at, u) /\ t.at = at /\ t.who = u /\ t.whom = Other(u)
                          /\ t.room = NoRoom /\ t.seen = NotARoom /\ ~t.allows
<1>1. PICK s \in Thread : s = Silent /\ s.room = NoRoom /\ s.seen = NotARoom /\ s.allows = FALSE
  BY SilentTypes
<1>2. PICK t : t = [s EXCEPT !.at = at, !.who = u, !.whom = Other(u)]
  OBVIOUS
<1>3. Other(u) \in Pair \union {Third}
  BY TwoOfThem
<1>4. /\ t \in Thread /\ t.at = at /\ t.who = u /\ t.whom = Other(u)
      /\ t.room = s.room /\ t.seen = s.seen /\ t.allows = s.allows
  BY <1>2, <1>3 DEF Thread
<1> QED BY <1>1, <1>2, <1>4 DEF Asking

LEMMA BlockersOfPair == \A p : Blockers(p) \subseteq Pair
  BY DEF Blockers

(* A request that begins disturbs none that is under way.                    *)
LEMMA BeginKeeps ==
  ASSUME ContactsInv, NEW q \in Threads, NEW t0 \in Thread, Begins(q, t0),
         mingled \subseteq mingled', hurried => hurried', hurried' \in BOOLEAN,
         t0.at \in {"open", "check", "block", "unblock", "allow", "accept", "reject", "part", "pin", "unpinArchive"},
         t0.at \in {"check", "open"} => t0.whom = Other(t0.who),
         t0.at \in {"open", "allow"} \union ListWrites => t0.room = NoRoom,
         t0.at = "open" => hurried' \/ \A p \in Threads : thread[p].at \notin {"open", "make"},
         t0.at \in ListWrites =>
           /\ t0.list = pal[t0.who].blacklist
           /\ t0.who \notin mingled' => \A p \in Threads : ~(thread[p].at \in ListWrites /\ thread[p].who = t0.who),
         t0.at \in {"pin", "unpinArchive"} => t0.list \subseteq RoomIds /\ t0.room \in RoomIds,
         t0.room # NoRoom => room[t0.room].status # "none" /\ (t0.at \notin Pinning => t0.seen.status # "none"),
         t0.room \in RoomIds \ mingled' /\ t0.at \notin Pinning =>
           /\ t0.at \in {"check", "accept", "reject"} /\ SameCore(room[t0.room], t0.seen) /\ ~t0.allows
           /\ t0.at # "check" => t0.seen.waitingUsers = <<t0.who>>
           /\ \A p \in Threads : ~OnRoom(p, t0.room)
  PROVE  ContactsInv'
<1>0. /\ ContactsTyped /\ talks \in Nat /\ MaxTalks \in Nat /\ talks \in 0..MaxTalks
      /\ pal \in [Pair -> Pal] /\ room \in [RoomIds -> Room] /\ thread \in [Threads -> Thread]
  BY TwoOfThem DEF ContactsInv, ContactsTyped
<1>1. /\ thread[q] = Silent /\ talks < MaxTalks /\ talks' = talks + 1
      /\ thread' = [thread EXCEPT ![q] = [t0 EXCEPT !.n = talks + 1, !.held = Blockers(pal)]]
      /\ UNCHANGED <<pal, room, sent, blocked>>
  BY DEF Begins
<1>2. talks' \in 0..MaxTalks /\ talks' \in 1..talks' /\ talks <= talks' /\ talks' \in Nat /\ ~(talks' <= talks)
  BY <1>0, <1>1
<1>3. PICK t \in Thread :
        /\ thread' = [thread EXCEPT ![q] = t]
        /\ t.n = talks' /\ t.held = Blockers(pal)
        /\ t.at = t0.at /\ t.who = t0.who /\ t.whom = t0.whom /\ t.room = t0.room
        /\ t.seen = t0.seen /\ t.list = t0.list /\ t.allows = t0.allows
  <2>1. PICK B \in SUBSET Pair : B = Blockers(pal)
    BY BlockersOfPair
  <2>2. PICK t : t = [t0 EXCEPT !.n = talks', !.held = B]
    OBVIOUS
  <2>3. /\ t \in Thread /\ t.n = talks' /\ t.held = B
        /\ t.at = t0.at /\ t.who = t0.who /\ t.whom = t0.whom /\ t.room = t0.room
        /\ t.seen = t0.seen /\ t.list = t0.list /\ t.allows = t0.allows
    BY <1>2, <2>2 DEF Thread
  <2> QED BY <1>1, <2>1, <2>2, <2>3
<1>4. thread' \in [Threads -> Thread] /\ thread'[q] = t /\ \A p \in Threads \ {q} : thread'[p] = thread[p]
  BY <1>0, <1>3, OneThread
<1>5. ContactsTyped'
  BY <1>0, <1>1, <1>2, <1>4 DEF ContactsTyped
<1>6. /\ thread[q].at = "idle" /\ thread[q].room = NoRoom
      /\ \A p \in Threads : thread[p].at # "idle" => p # q /\ thread[p].n \in 1..talks
  BY <1>1, SilentTypes DEF ContactsInv, ThreadOK
<1>7. Apart'
  <2>1. \A p \in Threads : p # q /\ thread'[p].at # "idle" => thread'[p].n # t.n
    BY <1>2, <1>3, <1>4, <1>6
  <2> QED BY <1>4, <2>1 DEF ContactsInv, Apart
<1>8. OneRoom'
  <2>1. SUFFICES ASSUME ~hurried' PROVE OneRoom'
    BY DEF OneRoom
  <2>2. OneRoom /\ ~hurried
    BY <2>1 DEF ContactsInv
  <2>3. \A r, p \in Threads : thread'[r].at \in {"open", "make"} /\ thread'[p].at \in {"open", "make"} => r = p
    BY <1>3, <1>4, <2>1, <2>2 DEF OneRoom
  <2>4. \A p \in Threads : thread'[p].at = "make" => thread[p].at = "make"
    BY <1>3, <1>4
  <2> QED BY <1>1, <2>2, <2>3, <2>4 DEF OneRoom
<1>9. ThreadOK(q)'
  <2>1. t.list \subseteq Pair \union {Third} \/ t.at \notin ListWrites
    <3>1. t0.who \in Pair
      BY DEF Thread
    <3>2. pal[t0.who].blacklist \subseteq Pair \union {Third}
      BY <1>0, <3>1 DEF Pal
    <3> QED BY <1>3, <3>2
  <2>2. t.at \notin {"idle", "make", "checkOther", "store"} /\ (t.at \in Pinning => t.at \in {"pin", "unpinArchive"})
    BY <1>3 DEF Pinning
  <2>3. t.at \in Messaging => t.whom = Other(t.who)
    BY <1>3 DEF Messaging
  <2>4. t.n \in 1..talks' /\ t.held \subseteq Blockers(pal')
    BY <1>1, <1>2, <1>3
  <2>5. /\ t.at \in {"open", "make"} => t.whom = Other(t.who)
        /\ t.at \in {"idle", "open", "make", "allow"} \union ListWrites => t.room = NoRoom
        /\ t.at \in {"pin", "unpinArchive"} => t.list \subseteq RoomIds /\ t.room \in RoomIds
    BY <1>3, <2>2
  <2>6. t.room # NoRoom => room'[t.room].status # "none" /\ (t.at \notin Pinning => t.seen.status # "none")
    BY <1>1, <1>3
  <2> QED BY <1>4, <2>1, <2>2, <2>3, <2>4, <2>5, <2>6 DEF ThreadOK
<1>10. ASSUME NEW p \in Threads PROVE ThreadOK(p)'
  <2>1. CASE p # q
    <3>1. ThreadOK(p) /\ thread'[p] = thread[p] /\ thread[p].room \in 0..MaxTalks
      BY <1>0, <1>4, <2>1, ThreadAt DEF ContactsInv
    <3>2. thread'[p].held \subseteq Blockers(pal')
      BY <1>1, <3>1 DEF ThreadOK
    <3> QED BY <1>0, <1>1, <1>2, <3>1, <3>2, ThreadKept
  <2> QED BY <1>9, <2>1
<1>11. ASSUME NEW u \in Pair PROVE BlacklistOK(u)'
  <2>1. BlacklistOK(u)
    BY DEF ContactsInv
  <2>2. CASE t.at \in ListWrites /\ t.who = u
    <3>1. SUFFICES ASSUME u \notin mingled' PROVE BlacklistOK(u)'
      BY DEF BlacklistOK
    <3>2. t.list = pal[u].blacklist /\ \A p \in Threads : ~(thread[p].at \in ListWrites /\ thread[p].who = u)
      BY <1>3, <2>2, <3>1
    <3>3. \A p \in Threads : thread'[p].at \in ListWrites /\ thread'[p].who = u => p = q
      BY <1>4, <3>2
    <3>4. pal'[u].blacklist = blocked'[u]
      BY <1>1, <2>1, <3>1 DEF BlacklistOK
    <3> QED BY <1>1, <1>4, <3>2, <3>3, <3>4 DEF BlacklistOK
  <2>3. CASE ~(t.at \in ListWrites /\ t.who = u)
    <3>1. \A p \in Threads : thread'[p].at \in ListWrites /\ thread'[p].who = u => thread'[p] = thread[p]
      BY <1>4, <2>3
    <3> QED BY <1>1, <2>1, <3>1, BlacklistKept
  <2> QED BY <2>2, <2>3
<1>12. ASSUME NEW r \in RoomIds PROVE RoomOK(r)'
  <2>1. RoomOK(r) /\ r # NoRoom /\ r \in Nat
    BY TwoOfThem DEF ContactsInv, NoRoom
  <2>2. ~OnRoom(q, r)
    BY <1>6, <2>1 DEF OnRoom
  <2>3. \A p \in Threads \ {q} : OnRoom(p, r)' <=> OnRoom(p, r)
    BY <1>4 DEF OnRoom
  <2>4. \A p \in Threads : thread'[p].at \in {"open", "make"} =>
          thread'[p].n > talks \/ (thread[p].at \in {"open", "make"} /\ thread'[p].n = thread[p].n)
    <3>1. t.n > talks
      BY <1>0, <1>2, <1>3
    <3> QED BY <1>4, <3>1
  <2>5. CASE ~OnRoom(q, r)'
    <3>1. \A p \in Threads : OnRoom(p, r) => thread'[p] = thread[p]
      BY <1>4, <2>2
    <3>2. \A p \in Threads : OnRoom(p, r)' <=> OnRoom(p, r)
      BY <2>2, <2>3, <2>5
    <3>3. SameCore(room'[r], room[r])
      BY <1>1 DEF SameCore
    <3>4. \A p \in Threads : OnRoom(p, r) =>
           /\ thread'[p].at = thread[p].at /\ SameCore(thread'[p].seen, thread[p].seen)
           /\ SameCore(thread'[p].fresh, thread[p].fresh) /\ thread'[p].who = thread[p].who
           /\ thread'[p].whom = thread[p].whom /\ thread'[p].allows = thread[p].allows
      BY <3>1 DEF SameCore
    <3> QED BY <1>0, <1>2, <2>1, <2>4, <3>2, <3>3, <3>4, RoomKept
  <2>6. CASE OnRoom(q, r)'
    <3>1. t0.room = r /\ t0.at \notin Pinning
      BY <1>3, <1>4, <2>6 DEF OnRoom
    <3>2. room'[r].status # "none" =>
            r <= talks' /\ \A p \in Threads : thread'[p].at \in {"open", "make"} => thread'[p].n # r
      <4>1. r <= talks => r <= talks' /\ ~(r > talks)
        BY <1>0, <1>2, <2>1
      <4> QED BY <1>1, <2>1, <2>4, <4>1 DEF RoomOK
    <3>3. room'[r].status = "none" => room'[r].participants = {} /\ room'[r].waitingUsers = <<>>
      BY <1>1, <2>1 DEF RoomOK
    <3>4. ASSUME r \notin mingled'
          PROVE  /\ room'[r].waitingUsers = <<>> \/ \E u \in Pair : room'[r].waitingUsers = <<u>>
                 /\ \A p \in Threads : OnRoom(p, r)' => p = q
                 /\ PhaseOK(q)'
      <4>1. /\ t0.at \in {"check", "accept", "reject"} /\ SameCore(room[r], t0.seen) /\ ~t0.allows
            /\ t0.at # "check" => t0.seen.waitingUsers = <<t0.who>>
            /\ \A p \in Threads : ~OnRoom(p, r)
        BY <3>1, <3>4
      <4>2. SettledRoom(r) /\ (room[r].waitingUsers = <<>> \/ \E u \in Pair : room[r].waitingUsers = <<u>>)
        BY <2>1, <3>4, <4>1 DEF RoomOK
      <4>3. AsSeen(q)'
        BY <1>1, <1>3, <1>4, <3>1, <4>1, <4>2 DEF AsSeen, SettledRoom
      <4>4. PhaseOK(q)'
        BY <1>3, <1>4, <4>1, <4>3 DEF PhaseOK, Messaging
      <4> QED BY <1>1, <2>3, <4>1, <4>2, <4>4
    <3> QED BY <2>6, <3>2, <3>3, <3>4 DEF RoomOK
  <2> QED BY <2>5, <2>6
<1>13. \A x \in sent' : ~x.through
  BY <1>1 DEF ContactsInv
<1> QED BY <1>5, <1>7, <1>8, <1>10, <1>11, <1>12, <1>13 DEF ContactsInv

(* A room that nobody else is on, as a request reads it.                     *)
LEMMA Read ==
  ASSUME ContactsInv, NEW r \in RoomIds
  PROVE  /\ Populated(r) \in Room /\ Populated(r).status = room[r].status
         /\ r \notin mingled => SameCore(room[r], Populated(r))
<1>1. PICK x \in Room : x = room[r] /\ x.waitingUsers \in Seq(Pair \union {Null})
  BY DEF ContactsInv, ContactsTyped, Room
<1>2. PICK ws \in Seq(Pair \union {Null}) : ws = Others(x.waitingUsers, Null)
  <2>1. PICK s \in Seq(Pair \union {Null}) : s = x.waitingUsers
    BY <1>1
  <2>2. Others(s, Null) \in Seq(Pair \union {Null})
    BY OthersOf
  <2> QED BY <2>1, <2>2
<1>3. Populated(r) = [x EXCEPT !.waitingUsers = ws]
  BY <1>1, <1>2 DEF Populated
<1>4. PICK y : y = [x EXCEPT !.waitingUsers = ws]
  OBVIOUS
<1>5. /\ y \in Room /\ y.status = x.status /\ y.participants = x.participants /\ y.rejectedUsers = x.rejectedUsers
      /\ y.waitingUsers = ws
  BY <1>4 DEF Room
<1>6. ASSUME r \notin mingled PROVE ws = x.waitingUsers
  <2>1. x.waitingUsers = <<>> \/ \E u \in Pair : x.waitingUsers = <<u>>
    BY <1>1, <1>6 DEF ContactsInv, RoomOK
  <2>2. \A u \in Pair : u # Null
    BY TwoOfThem
  <2>3. /\ x.waitingUsers = <<>> => Others(x.waitingUsers, Null) = <<>>
        /\ \A w : x.waitingUsers = <<w>> /\ w # Null => Others(x.waitingUsers, Null) = x.waitingUsers
    <3>1. PICK s \in Seq(Pair \union {Null}) : s = x.waitingUsers
      BY <1>1
    <3>2. /\ s = <<>> => Others(s, Null) = <<>>
          /\ \A w : s = <<w>> /\ w # Null => Others(s, Null) = s
      BY OthersOf
    <3> QED BY <3>1, <3>2
  <2> QED BY <1>2, <2>1, <2>2, <2>3
<1> QED BY <1>1, <1>3, <1>4, <1>5, <1>6 DEF SameCore

(* Where somebody is or waits there is a room.                               *)
LEMMA SomebodyIn ==
  ASSUME ContactsInv, NEW r \in RoomIds, room[r].participants # {} \/ (\E u : Waits(r, u))
  PROVE  room[r].status # "none"
<1>1. room[r].status = "none" => room[r].participants = {} /\ room[r].waitingUsers = <<>>
  BY DEF ContactsInv, RoomOK
<1>2. room[r].waitingUsers = <<>> => \A u : ~Waits(r, u)
  BY DEF Waits, Range
<1> QED BY <1>1, <1>2

LEMMA OpenRoomKeeps ==
  ASSUME ContactsInv, NEW q \in Threads, NEW u \in Pair, OpenRoom(q, u) PROVE ContactsInv'
<1>1. PICK t \in Thread : t = [Asking("open", u) EXCEPT !.allows = pal[Other(u)].allowUnknown]
                          /\ t.at = "open" /\ t.who = u /\ t.whom = Other(u) /\ t.room = NoRoom
  <2>1. PICK b \in BOOLEAN : b = pal[Other(u)].allowUnknown
    BY TwoOfThem DEF ContactsInv, ContactsTyped, Pal
  <2>2. PICK s \in Thread : s = Asking("open", u) /\ s.at = "open" /\ s.who = u /\ s.whom = Other(u) /\ s.room = NoRoom
    BY AskingTypes
  <2>3. PICK t : t = [s EXCEPT !.allows = b]
    OBVIOUS
  <2>4. t \in Thread /\ t.at = s.at /\ t.who = s.who /\ t.whom = s.whom /\ t.room = s.room
    BY <2>3 DEF Thread
  <2> QED BY <2>1, <2>2, <2>3, <2>4
<1>2. /\ Begins(q, t) /\ UNCHANGED mingled
      /\ hurried' = (hurried \/ \E p \in Threads : thread[p].at \in {"open", "make"})
  BY <1>1 DEF OpenRoom
<1>3. hurried \in BOOLEAN /\ NoRoom \notin RoomIds
  BY TwoOfThem DEF ContactsInv, ContactsTyped, NoRoom
<1>4. /\ hurried => hurried' /\ hurried' \in BOOLEAN
      /\ hurried' \/ \A p \in Threads : thread[p].at \notin {"open", "make"}
  BY <1>2, <1>3
<1>5. t.at \notin Pinning \union ListWrites
  BY <1>1 DEF Pinning, ListWrites
<1> QED BY <1>1, <1>2, <1>3, <1>4, <1>5, BeginKeeps

LEMMA ToggleAllowKeeps ==
  ASSUME ContactsInv, NEW q \in Threads, NEW u \in Pair, ToggleAllow(q, u) PROVE ContactsInv'
<1>1. PICK t \in Thread : t = [Asking("allow", u) EXCEPT !.allows = pal[u].allowUnknown]
                          /\ t.at = "allow" /\ t.room = NoRoom
  <2>1. PICK b \in BOOLEAN : b = pal[u].allowUnknown
    BY DEF ContactsInv, ContactsTyped, Pal
  <2>2. PICK s \in Thread : s = Asking("allow", u) /\ s.at = "allow" /\ s.room = NoRoom
    BY AskingTypes
  <2>3. PICK t : t = [s EXCEPT !.allows = b]
    OBVIOUS
  <2>4. t \in Thread /\ t.at = s.at /\ t.room = s.room
    BY <2>3 DEF Thread
  <2> QED BY <2>1, <2>2, <2>3, <2>4
<1>2. Begins(q, t) /\ UNCHANGED <<mingled, hurried>>
  BY <1>1 DEF ToggleAllow
<1>3. hurried \in BOOLEAN /\ NoRoom \notin RoomIds
  BY TwoOfThem DEF ContactsInv, ContactsTyped, NoRoom
<1>5. t.at \notin Pinning \union ListWrites
  BY <1>1 DEF Pinning, ListWrites
<1> QED BY <1>1, <1>2, <1>3, <1>5, BeginKeeps

LEMMA BlockUserKeeps ==
  ASSUME ContactsInv, NEW q \in Threads, NEW u \in Pair, NEW v \in Pair \union {Third}, BlockUser(q, u, v)
  PROVE  ContactsInv'
<1>0. PICK at \in ListWrites : at = IF v \in pal[u].blacklist THEN "unblock" ELSE "block"
  BY DEF ListWrites
<1>1. PICK t \in Thread : t = [Asking(at, u) EXCEPT !.whom = v, !.list = pal[u].blacklist]
                          /\ t.at = at /\ t.who = u /\ t.room = NoRoom /\ t.list = pal[u].blacklist
  <2>1. PICK l \in SUBSET (Pair \union {Third}) : l = pal[u].blacklist
    BY DEF ContactsInv, ContactsTyped, Pal
  <2>2. PICK s \in Thread : s = Asking(at, u) /\ s.at = at /\ s.who = u /\ s.room = NoRoom
    BY AskingTypes DEF ListWrites
  <2>3. PICK t : t = [s EXCEPT !.whom = v, !.list = l]
    OBVIOUS
  <2>4. t \in Thread /\ t.at = s.at /\ t.who = s.who /\ t.room = s.room /\ t.list = l
    BY <2>3 DEF Thread
  <2> QED BY <2>1, <2>2, <2>3, <2>4
<1>2. /\ Begins(q, t) /\ UNCHANGED hurried
      /\ mingled' = IF \E p \in Threads : thread[p].at \in ListWrites /\ thread[p].who = u
                    THEN mingled \union {u} ELSE mingled
  BY <1>0, <1>1 DEF BlockUser
<1>3. hurried \in BOOLEAN /\ NoRoom \notin RoomIds
  BY TwoOfThem DEF ContactsInv, ContactsTyped, NoRoom
<1>4. /\ mingled \subseteq mingled'
      /\ u \notin mingled' => \A p \in Threads : ~(thread[p].at \in ListWrites /\ thread[p].who = u)
  BY <1>2
<1>5. t.at \in {"block", "unblock"} /\ t.at \notin Pinning
  BY <1>1 DEF Pinning, ListWrites
<1> QED BY <1>1, <1>2, <1>3, <1>4, <1>5, BeginKeeps

LEMMA AnswerStrangerKeeps ==
  ASSUME ContactsInv, NEW q \in Threads, NEW u \in Pair, NEW r \in RoomIds, AnswerStranger(q, u, r) PROVE ContactsInv'
<1>1. PICK at \in {"accept", "reject"} : Begins(q, [Asking(at, u) EXCEPT !.room = r, !.seen = room[r]])
  BY DEF AnswerStranger
<1>2. PICK t \in Thread : t = [Asking(at, u) EXCEPT !.room = r, !.seen = room[r]]
                          /\ t.at = at /\ t.who = u /\ t.room = r /\ t.seen = room[r] /\ ~t.allows
  <2>1. PICK x \in Room : x = room[r]
    BY DEF ContactsInv, ContactsTyped
  <2>2. PICK s \in Thread : s = Asking(at, u) /\ s.at = at /\ s.who = u /\ ~s.allows
    BY AskingTypes
  <2>3. PICK t : t = [s EXCEPT !.room = r, !.seen = x]
    OBVIOUS
  <2>4. r \in 0..MaxTalks
    BY TwoOfThem DEF RoomIds
  <2>5. t \in Thread /\ t.at = s.at /\ t.who = s.who /\ t.room = r /\ t.seen = x /\ t.allows = s.allows
    BY <2>3, <2>4 DEF Thread
  <2> QED BY <2>1, <2>2, <2>3, <2>5
<1>3. /\ Begins(q, t) /\ UNCHANGED hurried /\ Waits(r, u)
      /\ mingled' = mingled \union ({r} \intersect {thread[p].room : p \in Threads})
  BY <1>1, <1>2 DEF AnswerStranger, Overlaps
<1>4. hurried \in BOOLEAN /\ t.at \notin Pinning \union ListWrites \union {"open", "allow", "check"}
  BY <1>2 DEF ContactsInv, ContactsTyped, Pinning, ListWrites
<1>5. room[r].status # "none" /\ t.seen.status # "none"
  BY <1>2, <1>3, SomebodyIn
<1>6. ASSUME r \notin mingled'
      PROVE  /\ SameCore(room[r], t.seen) /\ t.seen.waitingUsers = <<u>> /\ \A p \in Threads : ~OnRoom(p, r)
  <2>1. \A p \in Threads : thread[p].room # r
    BY <1>3, <1>6
  <2>2. room[r].waitingUsers = <<>> \/ \E w \in Pair : room[r].waitingUsers = <<w>>
    BY <1>3, <1>6 DEF ContactsInv, RoomOK
  <2>3. room[r].waitingUsers = <<u>>
    BY <1>3, <2>2 DEF Waits, Range
  <2> QED BY <1>2, <2>1, <2>3 DEF OnRoom, SameCore
<1>7. mingled \subseteq mingled' /\ t.at \in {"accept", "reject"}
  BY <1>2, <1>3
<1> QED BY <1>2, <1>3, <1>4, <1>5, <1>6, <1>7, BeginKeeps

LEMMA DeleteContactKeeps ==
  ASSUME ContactsInv, NEW q \in Threads, NEW u \in Pair, NEW r \in RoomIds, DeleteContact(q, u, r) PROVE ContactsInv'
<1>1. PICK t \in Thread : t = [Asking("part", u) EXCEPT !.room = r, !.seen = Populated(r)]
                          /\ t.at = "part" /\ t.room = r /\ t.seen = Populated(r)
  <2>1. PICK x \in Room : x = Populated(r)
    BY Read
  <2>2. PICK s \in Thread : s = Asking("part", u) /\ s.at = "part"
    BY AskingTypes
  <2>3. PICK t : t = [s EXCEPT !.room = r, !.seen = x]
    OBVIOUS
  <2>4. r \in 0..MaxTalks
    BY TwoOfThem DEF RoomIds
  <2>5. t \in Thread /\ t.at = s.at /\ t.room = r /\ t.seen = x
    BY <2>3, <2>4 DEF Thread
  <2> QED BY <2>1, <2>2, <2>3, <2>5
<1>2. Begins(q, t) /\ UNCHANGED hurried /\ mingled' = mingled \union {r} /\ room[r].status # "none"
  BY <1>1 DEF DeleteContact, Reaches
<1>3. t.seen.status # "none"
  BY <1>1, <1>2, Read
<1>4. hurried \in BOOLEAN /\ t.at \notin Pinning \union ListWrites
  BY <1>1 DEF ContactsInv, ContactsTyped, Pinning, ListWrites
<1>5. t.room \notin RoomIds \ mingled' /\ mingled \subseteq mingled' /\ t.at \notin {"check", "open", "allow", "pin", "unpinArchive"}
  BY <1>1, <1>2
<1> QED BY <1>1, <1>2, <1>3, <1>4, <1>5, BeginKeeps

LEMMA PinOrArchiveKeeps ==
  ASSUME ContactsInv, NEW q \in Threads, NEW u \in Pair, NEW r \in RoomIds, PinOrArchive(q, u, r) PROVE ContactsInv'
<1>0. PICK at \in {"pin", "unpinArchive"} : Begins(q, [Asking(at, u) EXCEPT !.room = r, !.list = pal[u].pinRoomIds])
  BY DEF PinOrArchive
<1>1. PICK t \in Thread : t = [Asking(at, u) EXCEPT !.room = r, !.list = pal[u].pinRoomIds]
                          /\ t.at = at /\ t.room = r /\ t.list \subseteq RoomIds
  <2>1. PICK l \in SUBSET RoomIds : l = pal[u].pinRoomIds
    BY DEF ContactsInv, ContactsTyped, Pal
  <2>2. PICK s \in Thread : s = Asking(at, u) /\ s.at = at
    BY AskingTypes
  <2>3. PICK t : t = [s EXCEPT !.room = r, !.list = l]
    OBVIOUS
  <2>4. r \in 0..MaxTalks
    BY TwoOfThem DEF RoomIds
  <2>5. t \in Thread /\ t.at = s.at /\ t.room = r /\ t.list = l
    BY <2>3, <2>4 DEF Thread
  <2> QED BY <2>1, <2>2, <2>3, <2>5
<1>2. Begins(q, t) /\ UNCHANGED <<mingled, hurried>> /\ room[r].status # "none"
  BY <1>0, <1>1 DEF PinOrArchive, Reaches
<1>3. hurried \in BOOLEAN /\ t.at \in Pinning /\ t.at \notin ListWrites
  BY <1>1 DEF ContactsInv, ContactsTyped, Pinning, ListWrites
<1> QED BY <1>1, <1>2, <1>3, BeginKeeps

LEMMA TalkKeeps ==
  ASSUME ContactsInv, NEW q \in Threads, NEW u \in Pair, Talk(q, u) PROVE ContactsInv'
<1>0. hurried \in BOOLEAN /\ UNCHANGED hurried /\ "check" \notin Pinning \union ListWrites /\ NoRoom \notin RoomIds
  BY TwoOfThem DEF ContactsInv, ContactsTyped, Talk, Pinning, ListWrites, NoRoom
<1>1. ASSUME NEW r \in RoomIds, room[r].status # "none", Overlaps(r),
             Begins(q, [Asking("check", u) EXCEPT !.room = r, !.seen = Populated(r)])
      PROVE  ContactsInv'
  <2>1. PICK t \in Thread : t = [Asking("check", u) EXCEPT !.room = r, !.seen = Populated(r)]
                            /\ t.at = "check" /\ t.room = r /\ t.seen = Populated(r) /\ t.who = u /\ t.whom = Other(u) /\ ~t.allows
    <3>1. PICK x \in Room : x = Populated(r)
      BY Read
    <3>2. PICK s \in Thread : s = Asking("check", u) /\ s.at = "check" /\ s.who = u /\ s.whom = Other(u) /\ ~s.allows
      BY AskingTypes
    <3>3. PICK t : t = [s EXCEPT !.room = r, !.seen = x]
      OBVIOUS
    <3>4. r \in 0..MaxTalks
      BY TwoOfThem DEF RoomIds
    <3>5. t \in Thread /\ t.at = s.at /\ t.room = r /\ t.seen = x /\ t.who = s.who /\ t.whom = s.whom /\ t.allows = s.allows
      BY <3>3, <3>4 DEF Thread
    <3> QED BY <3>1, <3>2, <3>3, <3>5
  <2>2. Begins(q, t) /\ mingled' = mingled \union ({r} \intersect {thread[p].room : p \in Threads})
    BY <1>1, <2>1 DEF Overlaps
  <2>3. t.seen.status # "none"
    BY <1>1, <2>1, Read
  <2>4. ASSUME r \notin mingled' PROVE SameCore(room[r], t.seen) /\ \A p \in Threads : ~OnRoom(p, r)
    BY <2>1, <2>2, <2>4, Read DEF OnRoom
  <2> QED BY <1>0, <1>1, <2>1, <2>2, <2>3, <2>4, BeginKeeps
<1>2. ASSUME UNCHANGED mingled, Begins(q, [Asking("check", u) EXCEPT !.seen = [NotARoom EXCEPT !.participants = Pair]])
      PROVE  ContactsInv'
  <2>1. PICK t \in Thread : t = [Asking("check", u) EXCEPT !.seen = [NotARoom EXCEPT !.participants = Pair]]
                            /\ t.at = "check" /\ t.room = NoRoom /\ t.who = u /\ t.whom = Other(u)
    <3>1. PICK x \in Room : x = [NotARoom EXCEPT !.participants = Pair]
      <4>1. PICK y \in Room : y = NotARoom
        BY SilentTypes
      <4>2. [y EXCEPT !.participants = Pair] \in Room
        BY DEF Room
      <4> QED BY <4>1, <4>2
    <3>2. PICK s \in Thread : s = Asking("check", u) /\ s.at = "check" /\ s.who = u /\ s.whom = Other(u) /\ s.room = NoRoom
      BY AskingTypes
    <3>3. PICK t : t = [s EXCEPT !.seen = x]
      OBVIOUS
    <3>5. t \in Thread /\ t.at = s.at /\ t.room = s.room /\ t.who = s.who /\ t.whom = s.whom
      BY <3>3 DEF Thread
    <3> QED BY <3>1, <3>2, <3>3, <3>5
  <2> QED BY <1>0, <1>2, <2>1, BeginKeeps
<1>3. \A r \in Reaches(u) : r \in RoomIds /\ room[r].status # "none"
  BY DEF Reaches
<1>4. \A r \in Common : r \in RoomIds /\ room[r].status # "none"
  BY DEF Common
<1>5. \A r \in Uncommon(u) : r \in RoomIds /\ room[r].status # "none"
  BY SomebodyIn DEF Uncommon
<1> QED BY <1>1, <1>2, <1>3, <1>4, <1>5 DEF Talk

LEMMA HideOrShowKeeps ==
  ASSUME ContactsInv, NEW u \in Pair, NEW r0 \in RoomIds, HideOrShow(u, r0) PROVE ContactsInv'
<1>0. /\ ContactsTyped /\ talks \in Nat /\ MaxTalks \in Nat /\ talks \in 0..MaxTalks /\ room \in [RoomIds -> Room]
  BY TwoOfThem DEF ContactsInv, ContactsTyped
<1>1. /\ UNCHANGED <<pal, sent, thread, blocked, mingled, hurried>> /\ talks < MaxTalks /\ talks' = talks + 1
      /\ \/ room' = [room EXCEPT ![r0].deleteFor = @ \union {u}]
         \/ room' = [room EXCEPT ![r0].archiveFor = @ \ {u}]
  BY DEF HideOrShow
<1>2. talks' \in 0..MaxTalks /\ talks <= talks' /\ talks' \in Nat
  BY <1>0, <1>1
<1>3. room' \in [RoomIds -> Room] /\ \A r \in RoomIds : SameCore(room'[r], room[r])
  <2>1. CASE room' = [room EXCEPT ![r0].deleteFor = @ \union {u}]
    BY <1>0, <2>1 DEF Room, SameCore
  <2>2. CASE room' = [room EXCEPT ![r0].archiveFor = @ \ {u}]
    <3>1. PICK S : S = room[r0].archiveFor \ {u}
      OBVIOUS
    <3>2. room' = [room EXCEPT ![r0].archiveFor = S] /\ S \in SUBSET Pair
      BY <1>0, <2>2, <3>1 DEF Room
    <3> QED BY <1>0, <3>2 DEF Room, SameCore
  <2> QED BY <1>1, <2>1, <2>2
<1>4. ContactsTyped'
  BY <1>0, <1>1, <1>2, <1>3 DEF ContactsTyped
<1>5. Apart' /\ OneRoom'
  BY <1>1, <1>3 DEF ContactsInv, Apart, OneRoom, SameCore
<1>6. ASSUME NEW p \in Threads PROVE ThreadOK(p)'
  <2>1. ThreadOK(p) /\ thread[p].room \in 0..MaxTalks /\ thread[p].held \subseteq Blockers(pal')
    BY <1>0, <1>1, ThreadAt DEF ContactsInv, ThreadOK
  <2> QED BY <1>0, <1>1, <1>2, <1>3, <2>1, ThreadKept DEF SameCore
<1>7. \A v \in Pair : BlacklistOK(v)'
  BY <1>1, BlacklistKept DEF ContactsInv
<1>8. ASSUME NEW r \in RoomIds PROVE RoomOK(r)'
  <2>1. RoomOK(r)
    BY DEF ContactsInv
  <2>2. \A p \in Threads : OnRoom(p, r)' <=> OnRoom(p, r)
    BY <1>1 DEF OnRoom
  <2> QED BY <1>0, <1>1, <1>2, <1>3, <2>1, <2>2, RoomKept DEF SameCore
<1> QED BY <1>1, <1>4, <1>5, <1>6, <1>7, <1>8 DEF ContactsInv

LEMMA ContactsBegin == ContactsInit => ContactsInv
<1> SUFFICES ASSUME ContactsInit PROVE ContactsInv
  OBVIOUS
<1>1. /\ pal \in [Pair -> {p \in Pal : p.blacklist = {} /\ p.pinRoomIds = {}}]
      /\ room = [r \in RoomIds |-> NotARoom]
      /\ sent = {} /\ thread = [q \in Threads |-> Silent] /\ talks = 0
      /\ blocked = [u \in Pair |-> {}] /\ mingled = {} /\ hurried = FALSE
  BY DEF ContactsInit
<1>2. /\ \A u \in Pair : pal[u] \in Pal /\ pal[u].blacklist = {} /\ blocked[u] = {}
      /\ \A q \in Threads : thread[q] = Silent /\ \A r \in RoomIds : room[r] = NotARoom
  BY <1>1
<1>3. ContactsTyped
  <2>1. pal \in [Pair -> Pal] /\ room \in [RoomIds -> Room] /\ thread \in [Threads -> Thread]
    BY <1>1, SilentTypes
  <2>2. talks \in 0..MaxTalks /\ blocked \in [Pair -> SUBSET (Pair \union {Third})]
    BY <1>1, TwoOfThem
  <2> QED BY <1>1, <2>1, <2>2 DEF ContactsTyped
<1>4. \A q \in Threads : thread[q].at = "idle" /\ thread[q].room = NoRoom /\ thread[q].held = {}
  BY <1>2, SilentTypes
<1>5. \A r \in RoomIds : room[r].status = "none" /\ room[r].participants = {} /\ room[r].waitingUsers = <<>> /\ r # NoRoom
  BY <1>1, SilentTypes, TwoOfThem DEF NoRoom
<1>6. \A r \in RoomIds : room[r].participants # Pair
  BY <1>5, TwoOfThem
<1>7. Apart /\ OneRoom
  BY <1>4, <1>6 DEF Apart, OneRoom
<1>8. \A q \in Threads : ThreadOK(q)
  BY <1>4 DEF ThreadOK, Messaging, ListWrites, Pinning
<1>9. \A u \in Pair : BlacklistOK(u)
  BY <1>2, <1>4 DEF BlacklistOK, ListWrites
<1>10. \A r \in RoomIds : RoomOK(r)
  BY <1>4, <1>5 DEF RoomOK, OnRoom, SettledRoom
<1> QED BY <1>1, <1>3, <1>7, <1>8, <1>9, <1>10 DEF ContactsInv

LEMMA ContactsKeeps == ContactsInv /\ [ContactsNext]_contactsVars => ContactsInv'
<1> SUFFICES ASSUME ContactsInv, [ContactsNext]_contactsVars PROVE ContactsInv'
  OBVIOUS
<1>1. CASE UNCHANGED contactsVars
  <2>1. ContactsTyped' /\ Apart' /\ OneRoom' /\ (\A x \in sent' : ~x.through)
    BY <1>1 DEF contactsVars, ContactsInv, ContactsTyped, Apart, OneRoom
  <2>2. \A q \in Threads : ThreadOK(q)'
    BY <1>1 DEF contactsVars, ContactsInv, ThreadOK, Blockers
  <2>3. \A u \in Pair : BlacklistOK(u)'
    BY <1>1 DEF contactsVars, ContactsInv, BlacklistOK
  <2>4. \A r \in RoomIds : RoomOK(r)'
    <3>1. \A q : PhaseOK(q) => PhaseOK(q)'
      <4>1. \A q : (AsSeen(q)' <=> AsSeen(q)) /\ (LetIn(q)' <=> LetIn(q))
        BY <1>1 DEF contactsVars, AsSeen, SettledRoom, LetIn
      <4>2. UNCHANGED thread
        BY <1>1 DEF contactsVars
      <4> QED BY <4>1, <4>2 DEF PhaseOK
    <3>2. \A r : (SettledRoom(r) => SettledRoom(r)') /\ \A q : OnRoom(q, r)' <=> OnRoom(q, r)
      BY <1>1 DEF contactsVars, SettledRoom, OnRoom
    <3> QED BY <1>1, <3>1, <3>2 DEF contactsVars, ContactsInv, RoomOK
  <2> QED BY <2>1, <2>2, <2>3, <2>4 DEF ContactsInv
<1>2. ASSUME NEW q \in Threads, BeginsAny(q) PROVE ContactsInv'
  <2>1. ASSUME NEW u \in Pair, OpenRoom(q, u) \/ Talk(q, u) \/ ToggleAllow(q, u) PROVE ContactsInv'
    BY <2>1, OpenRoomKeeps, TalkKeeps, ToggleAllowKeeps
  <2>2. ASSUME NEW u \in Pair, NEW v \in Pair \union {Third}, BlockUser(q, u, v) PROVE ContactsInv'
    BY <2>2, BlockUserKeeps
  <2>3. ASSUME NEW u \in Pair, NEW r \in RoomIds, AnswerStranger(q, u, r) \/ DeleteContact(q, u, r) \/ PinOrArchive(q, u, r)
        PROVE  ContactsInv'
    BY <2>3, AnswerStrangerKeeps, DeleteContactKeeps, PinOrArchiveKeeps
  <2> QED BY <1>2, <2>1, <2>2, <2>3 DEF BeginsAny
<1>3. ASSUME NEW q \in Threads, Continues(q) PROVE ContactsInv'
  BY <1>3, FindsPairKeeps, MakesRoomKeeps, ChecksKeeps, StoresMessageKeeps, ReadsToAcceptKeeps, WritesAcceptKeeps,
     WritesRejectKeeps, LetsInKeeps, BringsRoomKeeps, PartsKeeps, WritesBlacklistKeeps, WritesPalKeeps, ArchivesKeeps,
     ThreadFailsKeeps DEF Continues
<1>4. ASSUME NEW u \in Pair, NEW r \in RoomIds, HideOrShow(u, r) PROVE ContactsInv'
  BY <1>4, HideOrShowKeeps
<1> QED BY <1>1, <1>2, <1>3, <1>4 DEF ContactsNext

LEMMA ContactsHold ==
  ASSUME ContactsInv PROVE ContactsTypeOK /\ BlocksHold /\ RoomsOfTwoSettle
<1>1. BlocksHold
  BY DEF ContactsInv, BlacklistOK, BlocksHold
<1>2. ContactsTypeOK
  <2>1. \A r \in RoomIds : room[r].participants \subseteq Pair /\ Range(room[r].waitingUsers) \subseteq Pair \union {Null}
    <3>1. ASSUME NEW r \in RoomIds PROVE Range(room[r].waitingUsers) \subseteq Pair \union {Null}
      <4>1. room[r].waitingUsers \in Seq(Pair \union {Null})
        BY DEF ContactsInv, ContactsTyped, Room
      <4> QED BY <4>1 DEF Range
    <3> QED BY <3>1 DEF ContactsInv, ContactsTyped, Room
  <2>2. \A x \in sent : x.n \in RoomIds /\ x.room \in 0..MaxTalks /\ x.through \in BOOLEAN
    BY DEF ContactsInv, ContactsTyped, Sent
  <2>3. \A q \in Threads : thread[q].n \in 0..MaxTalks /\ thread[q].room \in 0..MaxTalks
    BY ThreadAt DEF ContactsInv
  <2> QED BY <2>1, <2>2, <2>3 DEF ContactsTypeOK, ContactsInv, ContactsTyped
<1>3. RoomsOfTwoSettle
  <2>1. SUFFICES ASSUME NEW r \in RoomIds, r \notin mingled, \A q \in Threads : thread[q].room # r, room[r].status # "none"
                 PROVE  /\ room[r].participants = Pair
                        /\ room[r].status = "active" =>
                             room[r].waitingUsers = <<>> /\ \A u \in Pair : r \in Listed(u) \union PinnedList(u) \union Hidden(u)
                        /\ room[r].status = "waiting" =>
                             /\ room[r].waitingUsers # <<>> \/ room[r].rejectedUsers # {}
                             /\ \A u \in Pair : r \in WaitingList(u) \union pal[u].pinRoomIds \union Hidden(u)
                        /\ \A s \in RoomIds \ {r} : s \notin mingled /\ room[s].participants = Pair => hurried
    BY DEF RoomsOfTwoSettle
  <2>2. SettledRoom(r)
    BY <2>1 DEF ContactsInv, RoomOK, OnRoom
  <2>3. room[r].participants = Pair
    BY <2>1, <2>2 DEF SettledRoom
  <2>4. ASSUME room[r].status = "active"
        PROVE  room[r].waitingUsers = <<>> /\ \A u \in Pair : r \in Listed(u) \union PinnedList(u) \union Hidden(u)
    <3>1. room[r].waitingUsers = <<>>
      BY <2>1, <2>2, <2>4 DEF SettledRoom
    <3>2. \A u : ~Waits(r, u)
      BY <3>1 DEF Waits, Range
    <3> QED BY <2>3, <2>4, <3>1, <3>2 DEF Listed, PinnedList
  <2>5. ASSUME room[r].status = "waiting"
        PROVE  /\ room[r].waitingUsers # <<>> \/ room[r].rejectedUsers # {}
               /\ \A u \in Pair : r \in WaitingList(u) \union pal[u].pinRoomIds \union Hidden(u)
    BY <2>1, <2>2, <2>3, <2>5 DEF SettledRoom, WaitingList
  <2>6. \A s \in RoomIds \ {r} : s \notin mingled /\ room[s].participants = Pair => hurried
    BY <2>1, <2>3 DEF ContactsInv, OneRoom
  <2> QED BY <2>3, <2>4, <2>5, <2>6
<1> QED BY <1>1, <1>2, <1>3

(* The types of what two users share: their documents, the rooms of the two  *)
(* of them and the requests about them, whatever requests overlap or fail.   *)
THEOREM ContactsTypes == ContactsSpec => []ContactsTypeOK
<1> QED BY ContactsBegin, ContactsKeeps, ContactsHold, PTL DEF ContactsSpec

(* Nothing is sent past a block that has stood since the message began, and  *)
(* the blacklists are those that blocks and unblocks leave, unless two of    *)
(* one user overlapped (blockUser, unblockUser, checkRelationship).          *)
THEOREM BlocksStand == ContactsSpec => []BlocksHold
<1> QED BY ContactsBegin, ContactsKeeps, ContactsHold, PTL DEF ContactsSpec

(* A room of two users that no requests overlapped on has both of them, is   *)
(* in a list of each, with nobody waiting once it is active, and is the only *)
(* one unless they opened two at a time (create, accept, reject, and the     *)
(* acceptance that sending a message brings).                                *)
THEOREM RoomsSettle == ContactsSpec => []RoomsOfTwoSettle
<1> QED BY ContactsBegin, ContactsKeeps, ContactsHold, PTL DEF ContactsSpec

-----------------------------------------------------------------------------
(* The four side by side. *)

(* The run that begins with one of the four makes steps of each of them, or  *)
(* leaves it alone.                                                          *)
THEOREM PeopleApart == PeopleSpec => RelaysSpec /\ DevicesSpec /\ AccountsSpec /\ ContactsSpec
<1>1. PeopleInit => RelaysInit /\ DevicesInit /\ AccountsInit /\ ContactsInit
  BY DEF PeopleInit
<1>2. [PeopleNext]_peopleVars => /\ [RelaysNext]_relaysVars /\ [DevicesNext]_devicesVars
                                 /\ [AccountsNext]_accountsVars /\ [ContactsNext]_contactsVars
  BY DEF PeopleNext, peopleVars
<1> QED BY <1>1, <1>2, PTL DEF PeopleSpec, RelaysSpec, DevicesSpec, AccountsSpec, ContactsSpec

(* The types of the four. *)
THEOREM PeopleTyped == PeopleSpec => []PeopleTypes
<1>1. PeopleTypes <=> RelaysTypeOK /\ DevicesTypeOK /\ AccountsTypeOK /\ ContactsTypeOK
  BY DEF PeopleTypes
<1>2. DevicesTypesInv => DevicesTypeOK
  BY DEF DevicesTypesInv
<1>3. AccountsTypeInv => AccountsTypeOK
  BY DEF AccountsTypeInv
<1> QED BY <1>1, <1>2, <1>3, PeopleApart, RelaysTypes, DevicesTyped, AccountsTypes, ContactsTypes, PTL
=============================================================================
