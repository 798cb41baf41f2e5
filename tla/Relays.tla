------------------------------- MODULE Relays -------------------------------
(***************************************************************************)
(* The gateway beside the calls: the events it relays to users and to the  *)
(* rooms of socket.io, and the streams of speech recognition it keeps for  *)
(* sockets, together with the registry of Presence.                        *)
(*                                                                         *)
(* Left out: what an event says.  heard keeps the sockets that the event   *)
(* relayed last was sent to.                                               *)
(***************************************************************************)
EXTENDS Presence

CONSTANTS
  Talks,        \* rooms of socket.io: chats, discussions, calls
  MaxStreams    \* bound on the streams ever started

ASSUME RelaysAssumption == MaxStreams \in Nat

VARIABLES
  within,       \* [Talks -> the sockets in it], kept by socket.io
  heard,        \* the sockets that heard the last event
  streams,      \* recognizeStreams: socket id -> stream, a partial map
  running,      \* the streams that were not ended: [n, s]
  finals,       \* the streams that still have a final result to deliver
  started,      \* the number of streams so far
  crossed       \* history: see Crosses

relaysVars == <<presenceVars, within, heard, streams, running, finals, started, crossed>>

Stream == [n : 1..MaxStreams, s : Sockets]

RelaysInit ==
  /\ PresenceInit
  /\ within = [r \in Talks |-> {}] /\ heard = {}
  /\ streams = [s \in {} |-> {}] /\ running = {} /\ finals = {} /\ started = 0
  /\ crossed = {}

-----------------------------------------------------------------------------
OpenSockets == {s \in Sockets : Open(s)}

SocketsOfAll(us) == UNION {SocketsOf(u) : u \in us}

(* server.to(ids).emit: socket.io takes no room at all for every socket.     *)
Emitted(ids) == IF ids = {} THEN OpenSockets ELSE ids

UnchangedStreams == UNCHANGED <<streams, running, finals, started, crossed>>

(* Forms with a mistake, which no step takes: NotifiesAnyway, KeepsStream.   *)
NotifiesAnyway(us) ==
  /\ heard' = Emitted(SocketsOfAll(us))
  /\ UNCHANGED <<presenceVars, within>> /\ UnchangedStreams

(* The handlers of room, inbox, relationship and removed messages, and the   *)
(* microphone and a declined call when they name a user.                     *)
TellUsers(us) ==
  /\ heard' = Emitted(SocketsOfAll(us))
  /\ UNCHANGED <<presenceVars, within>> /\ UnchangedStreams

(* The handlers of spaces, stations and notifications: nothing is sent when  *)
(* nobody is online.                                                         *)
NotifyUsers(us) ==
  /\ heard' = SocketsOfAll(us)
  /\ UNCHANGED <<presenceVars, within>> /\ UnchangedStreams

(* Messages, replies, pins, typing and what is shown in a call go to a room. *)
TellRoom(r) ==
  /\ heard' = within[r]
  /\ UNCHANGED <<presenceVars, within>> /\ UnchangedStreams

(* A signal, and an answer to one who asks to join, go to one socket.        *)
TellSocket(t) ==
  /\ heard' = {t} \intersect OpenSockets
  /\ UNCHANGED <<presenceVars, within>> /\ UnchangedStreams

(* handleJoinDiscussion, handleLeaveDiscussion, and chats as far as rooms go *)
Enter(s, r) ==
  /\ Open(s)
  /\ within' = [within EXCEPT ![r] = @ \union {s}]
  /\ UNCHANGED <<presenceVars, heard>> /\ UnchangedStreams

GoOut(s, r) ==
  /\ Open(s)
  /\ within' = [within EXCEPT ![r] = @ \ {s}]
  /\ UNCHANGED <<presenceVars, heard>> /\ UnchangedStreams

-----------------------------------------------------------------------------
Current(s) == IF s \in DOMAIN streams THEN {streams[s]} ELSE {}

(* History: the sockets that start a stream over one that runs, or that a    *)
(* final result finds without the stream it comes from.                      *)
Crosses(ss) == crossed' = crossed \union ss

(* startRecognitionStream.  What the map held before is not ended.           *)
Starts(s) ==
  LET new == [n |-> started + 1, s |-> s]
  IN /\ started < MaxStreams
     /\ started' = started + 1
     /\ streams' = [t \in DOMAIN streams \union {s} |-> IF t = s THEN new ELSE streams[t]]

StartSpeech(s) ==
  /\ Open(s)
  /\ Starts(s)
  /\ running' = running \union {[n |-> started + 1, s |-> s]}
  /\ Crosses(IF Current(s) = {} THEN {} ELSE {s})
  /\ UNCHANGED <<presenceVars, within, heard, finals>>

WithoutStream(s) == [t \in DOMAIN streams \ {s} |-> streams[t]]

KeepsStream(s) == streams' = streams /\ running' = running

(* stopRecognitionStream *)
StopsStream(s) ==
  /\ streams' = WithoutStream(s)
  /\ running' = running \ Current(s)

StopSpeech(s) ==
  /\ Open(s)
  /\ StopsStream(s)
  /\ UNCHANGED <<presenceVars, within, heard, finals, started, crossed>>

(* The service has a final result for a running stream; it is delivered      *)
(* later, and may be after the stream was ended.                             *)
Utterance(x) ==
  /\ x \in running \ finals
  /\ finals' = finals \union {x}
  /\ UNCHANGED <<presenceVars, within, heard, streams, running, started, crossed>>

(* The data callback with a final result: the text goes to the socket, its   *)
(* stream is ended, whichever it is, and another one started.                *)
FinalResult(x) ==
  /\ x \in finals
  /\ finals' = finals \ {x}
  /\ heard' = {x.s} \intersect OpenSockets
  /\ Starts(x.s)
  /\ running' = (running \ Current(x.s)) \union {[n |-> started + 1, s |-> x.s]}
  /\ Crosses(IF Current(x.s) = {x} THEN {} ELSE {x.s})
  /\ UNCHANGED <<presenceVars, within>>

(* handleDisconnect as far as the registry, the rooms and the stream go. *)
Disconnects(s) ==
  /\ HandleDisconnect(s)
  /\ StopsStream(s)
  /\ within' = [r \in Talks |-> within[r] \ {s}]
  /\ heard' = OpenSockets \ {s}
  /\ UNCHANGED <<finals, started, crossed>>

Registers(s, u) ==
  /\ JoinAdminRoom(s, u)
  /\ heard' = OpenSockets
  /\ UNCHANGED within /\ UnchangedStreams

Connects(s) == Connect(s) /\ UNCHANGED <<within, heard>> /\ UnchangedStreams

(* The streams end with the process. *)
Restarts ==
  /\ Restart
  /\ within' = [r \in Talks |-> {}] /\ heard' = {}
  /\ streams' = [s \in {} |-> {}] /\ running' = {} /\ finals' = {}
  /\ UNCHANGED <<started, crossed>>

-----------------------------------------------------------------------------
RelaysNext ==
  \/ \E s \in Sockets :
       \/ Connects(s) \/ Disconnects(s) \/ StartSpeech(s) \/ StopSpeech(s) \/ TellSocket(s)
       \/ \E u \in Users : Registers(s, u)
       \/ \E r \in Talks : Enter(s, r) \/ GoOut(s, r)
  \/ \E us \in SUBSET Users : TellUsers(us) \/ NotifyUsers(us)
  \/ \E r \in Talks : TellRoom(r)
  \/ \E x \in Stream : Utterance(x) \/ FinalResult(x)
  \/ Restarts

RelaysSpec == RelaysInit /\ [][RelaysNext]_relaysVars

-----------------------------------------------------------------------------
(* Types. *)
RelaysTypeOK ==
  /\ within \in [Talks -> SUBSET Sockets] /\ heard \subseteq Sockets
  /\ DOMAIN streams \subseteq Sockets /\ \A s \in DOMAIN streams : streams[s] \in Stream
  /\ running \subseteq Stream /\ finals \subseteq Stream
  /\ started \in 0..MaxStreams /\ crossed \subseteq Sockets

(* A stream that runs is the one the gateway keeps for its socket, which is  *)
(* open, and the gateway keeps none that has ended: unless the socket        *)
(* started twice without a stop, or a final result came after its stream was *)
(* ended or replaced.                                                        *)
StreamsEndWithSockets ==
  \A s \in Sockets \ crossed :
    /\ {x \in running : x.s = s} = Current(s)
    /\ Current(s) # {} => Open(s)

(* Nothing is heard by a socket that is closed, and a notification of some   *)
(* users is heard by no socket that has not registered as one of them: a     *)
(* change of the list of online users is the only thing everybody hears,     *)
(* and an event for users of whom none is online.                            *)
HeardByTheirs ==
  [][\A us \in SUBSET Users :
       NotifyUsers(us) \/ (TellUsers(us) /\ us \intersect DOMAIN clients # {}) =>
         /\ heard' \subseteq OpenSockets
         /\ \A s \in heard' : UsersOf(s) \intersect us # {}]_relaysVars
=============================================================================
