------------------------------ MODULE Watching ------------------------------
(***************************************************************************)
(* Which devices are watching which room, and the push notifications that  *)
(* skip them: the chat.join and chat.leave handlers of EventsGateway,      *)
(* WatchingService and NotificationService.sendNotification, composed with *)
(* the online registry of Presence.                                        *)
(*                                                                         *)
(* The gateway calls WatchingService.create and deleteBySocketId without   *)
(* awaiting them, so a write is issued by the handler and executed by the  *)
(* database later; the writes in flight travel on different connections of *)
(* the driver's pool and may be executed in any order.                     *)
(***************************************************************************)
EXTENDS Presence

CONSTANTS
  Rooms,      \* room ids
  Tokens,     \* notify tokens: one per browser or device
  NoToken,    \* the notifyToken of a client that gave none
  TokenOf,    \* [Sockets -> Tokens \union {NoToken}], the token a socket sends
  NoPush,     \* no notification is being sent
  MaxEvents   \* bound on the chat.join and chat.leave events of one socket

ASSUME WatchingAssumption ==
  /\ NoToken \notin Tokens
  /\ TokenOf \in [Sockets -> Tokens \union {NoToken}]
  /\ MaxEvents \in Nat

VARIABLES
  watch,      \* the Watching collection, a set of documents
  writes,     \* the create and delete calls issued and not yet executed
  viewing,    \* [Sockets -> SUBSET Rooms]: the chat rooms the socket is in
  push,       \* NoPush, or the tokens a notification about a room is sent to
  issued,     \* history: the number of chat events of each socket
  tidy,       \* history: the sockets whose chat events never overlapped
  recorded    \* history: [Sockets -> SUBSET Rooms], the rooms the socket is in
              \* and a document was stored for since it joined, no delete of the
              \* socket being in flight, with no leave since of a room it was not in

chatVars == <<watch, writes, viewing, issued, tidy, recorded>>
watchingVars == <<presenceVars, chatVars, push>>

Doc == [user : Users, room : Rooms, token : Tokens, sock : Sockets]
Write == [op : {"create"}, sock : Sockets, n : 0..MaxEvents, doc : Doc]
           \union [op : {"delete"}, sock : Sockets, n : 0..MaxEvents]

DocsOf(s) == {d \in watch : d.sock = s}
InFlight(s) == {w \in writes : w.sock = s}

WatchingInit ==
  /\ PresenceInit
  /\ watch = {} /\ writes = {} /\ push = NoPush
  /\ viewing = [s \in Sockets |-> {}]
  /\ issued = [s \in Sockets |-> 0]
  /\ tidy = Sockets
  /\ recorded = [s \in Sockets |-> {}]

-----------------------------------------------------------------------------
CountEvent(s) ==
  /\ issued[s] < MaxEvents
  /\ issued' = [issued EXCEPT ![s] = @ + 1]

(* A socket stays tidy while each of its events finds the previous write     *)
(* executed and the condition ok.                                            *)
StaysTidyIf(s, ok) ==
  tidy' = IF ok /\ InFlight(s) = {} THEN tidy ELSE tidy \ {s}

CreateOf(s, u, r) ==
  [op |-> "create", sock |-> s, n |-> issued[s],
   doc |-> [user |-> u, room |-> r, token |-> TokenOf[s], sock |-> s]]

DeleteOf(s) == [op |-> "delete", sock |-> s, n |-> issued[s]]

(* Forms with a mistake, as in Presence: JoinChatUnregistered,               *)
(* DisconnectKeepingDocs, PushToAll.                                         *)
JoinChatUnregistered(s, r) ==
  /\ Open(s) /\ CountEvent(s)
  /\ writes' = writes \union {CreateOf(s, "null", r)}
  /\ viewing' = [viewing EXCEPT ![s] = @ \union {r}]
  /\ StaysTidyIf(s, viewing[s] = {} /\ UsersOf(s) # {})
  /\ UNCHANGED <<presenceVars, watch, recorded, push>>

(* handleJoinChat: a watching document is created only for a socket that     *)
(* registered as a user and sent a token; the room is joined in any case.    *)
HandleJoinChat(s, r) ==
  /\ Open(s) /\ CountEvent(s)
  /\ \/ /\ UsersOf(s) = {} \/ TokenOf[s] = NoToken
        /\ UNCHANGED writes
     \/ /\ TokenOf[s] # NoToken
        /\ \E u \in UsersOf(s) : writes' = writes \union {CreateOf(s, u, r)}
  /\ viewing' = [viewing EXCEPT ![s] = @ \union {r}]
  /\ StaysTidyIf(s, viewing[s] = {} /\ UsersOf(s) # {})
  /\ UNCHANGED <<presenceVars, watch, recorded, push>>

(* handleLeaveChat: deletes a document of the socket, whichever its room. *)
HandleLeaveChat(s, r) ==
  /\ Open(s) /\ CountEvent(s)
  /\ writes' = writes \union {DeleteOf(s)}
  /\ viewing' = [viewing EXCEPT ![s] = @ \ {r}]
  /\ recorded' = [recorded EXCEPT ![s] = IF r \in viewing[s] THEN @ \ {r} ELSE {}]
  /\ StaysTidyIf(s, viewing[s] \subseteq {r})
  /\ UNCHANGED <<presenceVars, watch, push>>

DisconnectKeepingDocs(s) ==
  /\ HandleDisconnect(s)
  /\ viewing' = [viewing EXCEPT ![s] = {}]
  /\ recorded' = [recorded EXCEPT ![s] = {}]
  /\ StaysTidyIf(s, TRUE)
  /\ UNCHANGED <<watch, writes, issued, push>>

(* handleDisconnect: socket.io takes the socket out of its rooms, the        *)
(* gateway issues the same delete and cleans the registry.                   *)
WatchingDisconnect(s) ==
  /\ HandleDisconnect(s)
  /\ writes' = writes \union {DeleteOf(s)}
  /\ viewing' = [viewing EXCEPT ![s] = {}]
  /\ recorded' = [recorded EXCEPT ![s] = {}]
  /\ StaysTidyIf(s, TRUE)
  /\ UNCHANGED <<watch, issued, push>>

(* The process ends: a write in flight was already with the database or is   *)
(* lost, no delete is issued for the open sockets, the collection stays.     *)
ProcessEnds(inFlight) ==
  /\ Restart
  /\ writes' \in SUBSET inFlight
  /\ viewing' = [s \in Sockets |-> {}]
  /\ recorded' = [s \in Sockets |-> {}]
  /\ tidy' = tidy \ {s \in Sockets : Open(s) \/ InFlight(s) # {}}
  /\ push' = NoPush
  /\ UNCHANGED <<watch, issued>>

-----------------------------------------------------------------------------
(* History: the room of a create, unless the socket left it since or a delete *)
(* of the socket may still be executed that was issued before.               *)
NewlyRecorded(w) ==
  IF \E v \in InFlight(w.sock) : v.op = "delete" THEN {} ELSE viewing[w.sock] \cap {w.doc.room}

(* The database executes WatchingService.create: room.save().  The unique    *)
(* index refuses a document the collection holds; nobody awaits the rejected *)
(* promise, which ends the process in every Node version from 15 on and is   *)
(* only reported by the older one the package also admits.                   *)
ExecuteCreate(w) ==
  /\ w.op = "create"
  /\ \/ /\ w.doc \notin watch
        /\ watch' = watch \union {w.doc}
        /\ writes' = writes \ {w}
        /\ recorded' = [recorded EXCEPT ![w.sock] = @ \union NewlyRecorded(w)]
        /\ UNCHANGED <<presenceVars, viewing, issued, tidy, push>>
     \/ /\ w.doc \in watch
        /\ writes' = writes \ {w}
        /\ UNCHANGED <<presenceVars, watch, viewing, issued, tidy, recorded, push>>
     \/ /\ w.doc \in watch
        /\ ProcessEnds(writes \ {w})

(* WatchingService.deleteBySocketId: findOneAndDelete({ socketId }) removes  *)
(* one document of the socket, if it has any.                                *)
ExecuteDelete(w) ==
  /\ w.op = "delete"
  /\ \/ DocsOf(w.sock) = {} /\ UNCHANGED watch
     \/ \E d \in DocsOf(w.sock) : watch' = watch \ {d}
  /\ writes' = writes \ {w}
  /\ UNCHANGED <<presenceVars, viewing, issued, tidy, recorded, push>>

PushToAll(r, addressed) ==
  /\ push = NoPush /\ addressed # {}
  /\ push' = [room |-> r, tokens |-> addressed]
  /\ UNCHANGED <<presenceVars, chatVars>>

(* sendNotification, after its two reads: the tokens of the users addressed  *)
(* without those some document of the room names; sent unless none is left.  *)
(* Whom it reaches is decided at the read: nobody who joins or leaves between *)
(* the read and the multicast changes it.                                    *)
SendNotification(r, addressed) ==
  LET watching == {d.token : d \in {e \in watch : e.room = r}} IN
  /\ push = NoPush /\ addressed \ watching # {}
  /\ push' = [room |-> r, tokens |-> addressed \ watching]
  /\ UNCHANGED <<presenceVars, chatVars>>

(* The multicast was handed to the push service. *)
PushSent ==
  /\ push # NoPush
  /\ push' = NoPush
  /\ UNCHANGED <<presenceVars, chatVars>>

WatchingPresence ==
  /\ \E s \in Sockets : Connect(s) \/ \E u \in Users : JoinAdminRoom(s, u)
  /\ UNCHANGED <<chatVars, push>>

WatchingNext ==
  \/ WatchingPresence
  \/ \E s \in Sockets, r \in Rooms : HandleJoinChat(s, r) \/ HandleLeaveChat(s, r)
  \/ \E s \in Sockets : WatchingDisconnect(s)
  \/ \E w \in writes : ExecuteCreate(w) \/ ExecuteDelete(w)
  \/ \E r \in Rooms, addressed \in SUBSET Tokens : SendNotification(r, addressed)
  \/ PushSent
  \/ ProcessEnds(writes)

WatchingSpec == WatchingInit /\ [][WatchingNext]_watchingVars

-----------------------------------------------------------------------------
(* Types of the composed state. *)
WatchingTypeOK ==
  /\ PresenceTypeOK
  /\ watch \subseteq Doc
  /\ writes \subseteq Write
  /\ viewing \in [Sockets -> SUBSET Rooms]
  /\ push \in {NoPush} \union [room : Rooms, tokens : SUBSET Tokens]
  /\ issued \in [Sockets -> 0..MaxEvents]
  /\ tidy \subseteq Sockets
  /\ recorded \in [Sockets -> SUBSET Rooms]

Settled(s) == s \in tidy /\ InFlight(s) = {}

(* The documents of a socket are exactly the room it is in, once its writes  *)
(* are executed, as long as it registered before it joined a chat, was in    *)
(* one chat at a time and never sent an event before the write of the        *)
(* previous one was done.  In particular such a socket leaves no document    *)
(* behind when it disconnects (deleteBySocketId in handleDisconnect).        *)
SettledDocsExact ==
  \A s \in Sockets : Settled(s) =>
    /\ {d.room : d \in DocsOf(s)} = IF TokenOf[s] = NoToken THEN {} ELSE viewing[s]
    /\ \A d, e \in DocsOf(s) : d = e

(* A notification about a room is not sent to the device of a settled socket *)
(* that is in the room (the filter of sendNotification with the documents    *)
(* the gateway keeps).                                                       *)
PushSkipsSettledWatchers ==
  [][push = NoPush /\ push' # NoPush =>
       \A s \in Sockets : Settled(s) /\ push'.room \in viewing[s]
                            => TokenOf[s] \notin push'.tokens]_watchingVars

(* The comment of sendNotification, "not push notification to user who is    *)
(* watching the room": a socket in the room is not pushed to, when it has no *)
(* write in flight, its document for the room was stored since it joined     *)
(* with every delete issued before executed already, and it left only rooms  *)
(* that it was in.  Leaving another room takes the document of this one.     *)
PushSkipsWatchers ==
  [][push = NoPush /\ push' # NoPush =>
       \A s \in Sockets : InFlight(s) = {} /\ push'.room \in recorded[s]
                            => TokenOf[s] \notin push'.tokens]_watchingVars
=============================================================================
