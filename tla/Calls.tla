------------------------------- MODULE Calls -------------------------------
(***************************************************************************)
(* CallService: the Call documents, the rooms of the anonymous call links, *)
(* and the messages that announce a call in its room.  A service method    *)
(* stops at every await, the database executing other operations between.  *)
(*                                                                         *)
(* A document is read whole and saved by difference: save() sends only the *)
(* fields that differ from what was read, and only a replaced array makes  *)
(* it check, and then advance, the version the document was read at.       *)
(***************************************************************************)
EXTENDS Naturals, FiniteSets

CONSTANTS
  Callers,        \* the users who ask for calls
  Guests,         \* the users who follow call links
  Rooms,
  AnonymousRooms, \* the room ids createAnonymousRoom hands out
  Members,        \* [Rooms -> SUBSET Callers], the participants of the others
  Requests,       \* the joinVideoCallRoom requests; each runs once at most
  NoCall,         \* no call found
  MaxEnds         \* bound on the endCall calls of the gateway

ASSUME CallsAssumption ==
  /\ AnonymousRooms \subseteq Rooms
  /\ Members \in [Rooms -> SUBSET Callers]
  /\ NoCall \notin Requests
  /\ Rooms # {} /\ Callers # {}
  /\ MaxEnds \in Nat

Users == Callers \union Guests

(* A request creates one call at most, so its call is named after it. *)
CallIds == Requests

EndIds == 1..MaxEnds

VARIABLES
  rooms,    \* room id -> participants, for the rooms that exist
  calls,    \* call id -> Call document
  messages, \* the stored call messages: pairs <<call, room>>
  posting,  \* the message creations under way, not awaited by anyone
  req,      \* [Requests -> request state]
  guests,   \* the call link joins under way: pairs <<user, room>>
  ends,     \* the endCalls under way, by their number
  issued,   \* the number of endCall calls so far
  lost      \* history: the calls whose endCall a crash cut off

callsVars == <<rooms, calls, messages, posting, req, guests, ends, issued, lost>>

Anonymous(r) == r \in AnonymousRooms

Call == [room : Rooms, anonymous : BOOLEAN, by : Users, parts : SUBSET Users,
         open : BOOLEAN, v : Nat]

(* pc: the database operation a request is about to make.                    *)
Request == [pc : {"idle", "room", "find", "own", "save", "add", "create", "done"},
            user : Users, room : Rooms, call : CallIds \union {NoCall},
            saw : SUBSET CallIds, doc : Call,
            reply : {"none", "ROOM_NOT_FOUND", "USER_NOT_IN_ROOM", "SERVER_ERROR",
                     "JOIN_ROOM", "NEW_CALL"}]

Ending == [call : CallIds, pc : {"read", "room", "messages", "save"}, doc : Call]

SomeDoc == [room |-> CHOOSE r \in Rooms : TRUE, anonymous |-> FALSE,
            by |-> CHOOSE u \in Callers : TRUE, parts |-> {}, open |-> TRUE,
            v |-> 0]

CallsInit ==
  /\ rooms = [r \in Rooms \ AnonymousRooms |-> Members[r]]
  /\ calls = [c \in {} |-> SomeDoc]
  /\ messages = {} /\ posting = {}
  /\ req = [q \in Requests |->
              [pc |-> "idle", user |-> SomeDoc.by, room |-> SomeDoc.room, call |-> NoCall,
               saw |-> {}, doc |-> SomeDoc, reply |-> "none"]]
  /\ guests = {}
  /\ ends = [c \in {} |-> SomeDoc]
  /\ issued = 0 /\ lost = {}

-----------------------------------------------------------------------------
(* The map f without key x, and with key x bound to v. *)
Without(f, x) == [y \in DOMAIN f \ {x} |-> f[y]]
With(f, x, v) == [y \in DOMAIN f \union {x} |-> IF y = x THEN v ELSE f[y]]

Goes(q, pc) == req' = [req EXCEPT ![q].pc = pc]
Answers(q, reply) ==
  req' = [req EXCEPT ![q] = [@ EXCEPT !.pc = "done", !.reply = reply,
                                      !.doc = SomeDoc]]

Exists(r) == r \in DOMAIN rooms
OpenIn(r) == {c \in DOMAIN calls : calls[c].room = r /\ calls[c].open}

(* joinVideoCallRoom(payload) is called; joinAnonymousVideoCall first makes  *)
(* a room of its own with createAnonymousRoom.                               *)
Ask(q, u, r) ==
  /\ req[q].pc = "idle"
  /\ req' = [req EXCEPT ![q].pc = "room", ![q].user = u, ![q].room = r]
  /\ UNCHANGED <<rooms, calls, messages, posting, guests, ends, issued, lost>>

AskAnonymous(q, u, r) ==
  /\ req[q].pc = "idle"
  /\ Anonymous(r) /\ ~Exists(r)
  /\ \A p \in Requests : req[p].pc # "idle" => req[p].room # r
  /\ rooms' = With(rooms, r, {u})
  /\ req' = [req EXCEPT ![q].pc = "room", ![q].user = u, ![q].room = r]
  /\ UNCHANGED <<calls, messages, posting, guests, ends, issued, lost>>

(* roomService.findById and the check of the participants. *)
ReadRoom(q) ==
  LET r == req[q].room IN
  /\ req[q].pc = "room"
  /\ IF ~Exists(r) THEN Answers(q, "ROOM_NOT_FOUND")
     ELSE IF req[q].user \notin rooms[r] THEN Answers(q, "USER_NOT_IN_ROOM")
     ELSE Goes(q, "find")
  /\ UNCHANGED <<rooms, calls, messages, posting, guests, ends, issued, lost>>

(* Forms with a mistake, for the runs that show which property would notice  *)
(* it: FindOpenCallOfUser, AnswerWithStatus, AddReopening, GuestEntersAny,   *)
(* EndSkipsOrdinary, EndSavesStale.                                          *)

(* A findOne of the room's call gave one of found, or none. *)
FoundAny(q, found) ==
  IF Anonymous(req[q].room) THEN Goes(q, "own")
  ELSE \E c \in IF found = {} THEN {NoCall} ELSE found :
         req' = [req EXCEPT ![q].call = c, ![q].saw = DOMAIN calls,
                            ![q].pc = IF c = NoCall THEN "create" ELSE "add"]

FindOpenCallOfUser(q) ==
  /\ req[q].pc = "find"
  /\ FoundAny(q, {c \in OpenIn(req[q].room) : calls[c].by = req[q].user})
  /\ UNCHANGED <<rooms, calls, messages, posting, guests, ends, issued, lost>>

(* callModel.findOne({ roomId, endTime: null }), any of several; the result  *)
(* is dropped for an anonymous room.                                         *)
FindOpenCall(q) ==
  /\ req[q].pc = "find"
  /\ FoundAny(q, OpenIn(req[q].room))
  /\ UNCHANGED <<rooms, calls, messages, posting, guests, ends, issued, lost>>

(* callModel.findOne({ type: ANONYMOUS, createdBy }): the caller's anonymous *)
(* call of an earlier link, open or not.                                     *)
FindOwnCall(q) ==
  LET own == {c \in DOMAIN calls : calls[c].anonymous /\ calls[c].by = req[q].user} IN
  /\ req[q].pc = "own"
  /\ \/ /\ own = {}
        /\ req' = [req EXCEPT ![q].saw = DOMAIN calls, ![q].pc = "create"]
     \/ \E c \in own :
          req' = [req EXCEPT ![q].call = c, ![q].doc = calls[c], ![q].pc = "save"]
  /\ UNCHANGED <<rooms, calls, messages, posting, guests, ends, issued, lost>>

(* What save() writes over the stored document cur: the fields in which new  *)
(* differs from the document read, the version advanced with the array.      *)
Saved(read, new, cur) ==
  [cur EXCEPT
     !.room = IF new.room # read.room THEN new.room ELSE @,
     !.parts = IF new.parts # read.parts THEN new.parts ELSE @,
     !.open = IF new.open # read.open THEN new.open ELSE @,
     !.v = IF new.parts # read.parts THEN @ + 1 ELSE @]

(* save() of a replaced array fails if the version moved since the read. *)
SaveFails(read, new, cur) == new.parts # read.parts /\ cur.v # read.v

(* The caller's anonymous call moves to the new room and is open again; its  *)
(* message is created without being awaited.                                 *)
SaveOwnCall(q) ==
  LET c == req[q].call
      read == req[q].doc
      new == [read EXCEPT !.room = req[q].room, !.parts = {req[q].user}, !.open = TRUE]
  IN
  /\ req[q].pc = "save"
  /\ \/ /\ SaveFails(read, new, calls[c])
        /\ Answers(q, "SERVER_ERROR")
        /\ UNCHANGED <<calls, posting>>
     \/ /\ ~SaveFails(read, new, calls[c])
        /\ calls' = [calls EXCEPT ![c] = Saved(read, new, @)]
        /\ posting' = posting \union {[call |-> c, room |-> req[q].room, checked |-> FALSE]}
        /\ Goes(q, "add")
  /\ UNCHANGED <<rooms, messages, guests, ends, issued, lost>>

AnswerWithStatus(q) ==
  /\ req[q].pc = "add"
  /\ calls' = [calls EXCEPT ![req[q].call].parts = @ \union {req[q].user}]
  /\ Answers(q, "JOIN_SUCCESS")
  /\ UNCHANGED <<rooms, messages, posting, guests, ends, issued, lost>>

AddReopening(q) ==
  /\ req[q].pc = "add"
  /\ calls' = [calls EXCEPT ![req[q].call] =
                 [@ EXCEPT !.parts = @ \union {req[q].user}, !.open = TRUE]]
  /\ Answers(q, "JOIN_ROOM")
  /\ UNCHANGED <<rooms, messages, posting, guests, ends, issued, lost>>

(* callModel.findByIdAndUpdate with $addToSet: by id, ended or not. *)
AddParticipant(q) ==
  /\ req[q].pc = "add"
  /\ calls' = [calls EXCEPT ![req[q].call].parts = @ \union {req[q].user}]
  /\ Answers(q, "JOIN_ROOM")
  /\ UNCHANGED <<rooms, messages, posting, guests, ends, issued, lost>>

(* callModel.create, and the message of the call, not awaited. *)
CreateCall(q) ==
  LET r == req[q].room  u == req[q].user IN
  /\ req[q].pc = "create"
  /\ calls' = With(calls, q, [room |-> r, anonymous |-> Anonymous(r), by |-> u,
                              parts |-> {u}, open |-> TRUE, v |-> 0])
  /\ posting' = posting \union {[call |-> q, room |-> r, checked |-> FALSE]}
  /\ req' = [req EXCEPT ![q].call = q, ![q].pc = "done", ![q].reply = "NEW_CALL"]
  /\ UNCHANGED <<rooms, messages, guests, ends, issued, lost>>

(* MessagesService.create, the message of a call: the room is looked up, and *)
(* the creation fails without it, or when the two users of a room block each *)
(* other; the message is stored some awaits later.                           *)
CheckMessageRoom(m) ==
  /\ ~m.checked
  /\ \/ posting' = posting \ {m}
     \/ /\ Exists(m.room)
        /\ posting' = (posting \ {m}) \union {[m EXCEPT !.checked = TRUE]}
  /\ UNCHANGED <<rooms, calls, messages, req, guests, ends, issued, lost>>

StoreMessage(m) ==
  /\ m.checked
  /\ posting' = posting \ {m}
  /\ messages' = messages \union {<<m.call, m.room>>}
  /\ UNCHANGED <<rooms, calls, req, guests, ends, issued, lost>>

-----------------------------------------------------------------------------
(* createUserAndJoinCall and loggedUserAndJoinAnonymousCall: the open call.  *)
GuestFindsCall(u, c) ==
  /\ c \in DOMAIN calls /\ calls[c].open
  /\ guests' = guests \union {<<u, calls[c].room>>}
  /\ UNCHANGED <<rooms, calls, messages, posting, req, ends, issued, lost>>

GuestEntersAny(g) ==
  /\ guests' = guests \ {g}
  /\ rooms' = IF Exists(g[2]) THEN [rooms EXCEPT ![g[2]] = @ \union {g[1]}] ELSE rooms
  /\ UNCHANGED <<calls, messages, posting, req, ends, issued, lost>>

(* addAnonymousParticipant refuses a missing or an ordinary room. *)
GuestEnters(g) ==
  LET r == g[2] IN
  /\ guests' = guests \ {g}
  /\ rooms' = IF Exists(r) /\ Anonymous(r) THEN [rooms EXCEPT ![r] = @ \union {g[1]}]
              ELSE rooms
  /\ UNCHANGED <<calls, messages, posting, req, ends, issued, lost>>

-----------------------------------------------------------------------------
(* endMeeting of the gateway: nothing keeps two endings of a call apart, as  *)
(* of one that was joined again in between.                                  *)
IssueEndCall(c) ==
  /\ c \in DOMAIN calls
  /\ issued < MaxEnds /\ issued' = issued + 1
  /\ ends' = With(ends, issued + 1, [call |-> c, pc |-> "read", doc |-> SomeDoc])
  /\ UNCHANGED <<rooms, calls, messages, posting, req, guests, lost>>

EndGoes(n, pc) == ends' = [ends EXCEPT ![n].pc = pc]
EndIsOver(n) == ends' = Without(ends, n)

EndReads(n, pc) ==
  ends' = [ends EXCEPT ![n] = [@ EXCEPT !.pc = pc, !.doc = calls[ends[n].call]]]

EndSkipsOrdinary(n) ==
  LET doc == calls[ends[n].call] IN
  /\ ends[n].pc = "read"
  /\ IF doc.anonymous /\ Exists(doc.room)
     THEN EndReads(n, "room")
     ELSE EndIsOver(n)
  /\ UNCHANGED <<rooms, calls, messages, posting, req, guests, issued, lost>>

(* endCall reads the call with its room.  An anonymous one whose room is     *)
(* missing makes forgeDeleteRoomAndUserInRoom throw, and nothing is saved.   *)
EndReadsCall(n) ==
  LET doc == calls[ends[n].call] IN
  /\ ends[n].pc = "read"
  /\ IF ~doc.anonymous THEN EndReads(n, "save")
     ELSE IF Exists(doc.room) THEN EndReads(n, "room")
     ELSE EndIsOver(n)
  /\ UNCHANGED <<rooms, calls, messages, posting, req, guests, issued, lost>>

(* forgeDeleteRoomAndUserInRoom: throws NotFound without the room. *)
EndDeletesRoom(n) ==
  LET r == ends[n].doc.room IN
  /\ ends[n].pc = "room"
  /\ IF Exists(r) THEN rooms' = Without(rooms, r) /\ EndGoes(n, "messages")
     ELSE UNCHANGED rooms /\ EndIsOver(n)
  /\ UNCHANGED <<calls, messages, posting, req, guests, issued, lost>>

EndDeletesMessages(n) ==
  /\ ends[n].pc = "messages"
  /\ messages' = {m \in messages : m[2] # ends[n].doc.room}
  /\ EndGoes(n, "save")
  /\ UNCHANGED <<rooms, calls, posting, req, guests, issued, lost>>

EndSavesStale(n) ==
  LET c == ends[n].call
      read == ends[n].doc
      new == [read EXCEPT !.open = FALSE]
  IN
  /\ ends[n].pc = "save"
  /\ calls' = [calls EXCEPT ![c] = [new EXCEPT !.v = calls[c].v]]
  /\ EndIsOver(n)
  /\ UNCHANGED <<rooms, messages, posting, req, guests, issued, lost>>

(* endTime is set, and the participants of an anonymous call are emptied; a  *)
(* version error is caught and only logged.                                  *)
EndSavesCall(n) ==
  LET c == ends[n].call
      read == ends[n].doc
      new == [read EXCEPT !.open = FALSE, !.parts = IF read.anonymous THEN {} ELSE @]
  IN
  /\ ends[n].pc = "save"
  /\ IF SaveFails(read, new, calls[c]) THEN UNCHANGED calls
     ELSE calls' = [calls EXCEPT ![c] = [Saved(read, new, @) EXCEPT !.open = FALSE]]
  /\ EndIsOver(n)
  /\ UNCHANGED <<rooms, messages, posting, req, guests, issued, lost>>

(* The process ends: the requests, the endings and the message creations     *)
(* under way stop where they are.                                            *)
Crash ==
  /\ req' = [q \in Requests |->
               IF req[q].pc \in {"idle", "done"} THEN req[q]
               ELSE [req[q] EXCEPT !.pc = "done", !.reply = "none", !.doc = SomeDoc]]
  /\ posting' = {} /\ guests' = {}
  /\ ends' = [c \in {} |-> SomeDoc]
  /\ lost' = lost \union {ends[n].call : n \in DOMAIN ends}
  /\ UNCHANGED <<rooms, calls, messages, issued>>

RequestStep(q) ==
  \/ ReadRoom(q) \/ FindOpenCall(q) \/ FindOwnCall(q)
  \/ SaveOwnCall(q) \/ AddParticipant(q) \/ CreateCall(q)

EndStep(n) ==
  /\ n \in DOMAIN ends
  /\ EndReadsCall(n) \/ EndDeletesRoom(n) \/ EndDeletesMessages(n) \/ EndSavesCall(n)

CallsNext ==
  \/ \E q \in Requests, u \in Callers, r \in Rooms : Ask(q, u, r) \/ AskAnonymous(q, u, r)
  \/ \E q \in Requests : RequestStep(q)
  \/ \E m \in posting : CheckMessageRoom(m) \/ StoreMessage(m)
  \/ \E u \in Guests, c \in CallIds : GuestFindsCall(u, c)
  \/ \E g \in guests : GuestEnters(g)
  \/ \E c \in CallIds : IssueEndCall(c)
  \/ \E n \in EndIds : EndStep(n)
  \/ Crash

CallsSpec == CallsInit /\ [][CallsNext]_callsVars

(* The database answers, so a service method goes on. *)
FairCalls == CallsSpec /\ \A n \in EndIds : WF_callsVars(EndStep(n))

-----------------------------------------------------------------------------
(* Types of the documents and of the service calls under way. *)
CallsTypeOK ==
  /\ DOMAIN rooms \subseteq Rooms /\ rooms \in [DOMAIN rooms -> SUBSET Users]
  /\ DOMAIN calls \subseteq CallIds /\ calls \in [DOMAIN calls -> Call]
  /\ messages \subseteq CallIds \X Rooms
  /\ posting \subseteq [call : CallIds, room : Rooms, checked : BOOLEAN]
  /\ req \in [Requests -> Request]
  /\ guests \subseteq Users \X Rooms
  /\ DOMAIN ends \subseteq EndIds /\ ends \in [DOMAIN ends -> Ending]
  /\ issued \in 0..MaxEnds
  /\ lost \subseteq CallIds

(* Whoever was told the call to join is one of its participants, also when   *)
(* others join or the call ends meanwhile (the save of endCall must not      *)
(* write back the participants it read); anonymous calls give them up.       *)
AnsweredIsParticipant ==
  \A q \in Requests :
    req[q].reply \in {"JOIN_ROOM", "NEW_CALL"} /\ ~calls[req[q].call].anonymous
      => req[q].user \in calls[req[q].call].parts

(* Two open calls of an ordinary room, or two anonymous calls of one creator *)
(* (the code moves a creator's call from link to link), come from requests   *)
(* that overlapped: the find of either preceded the creation by the other,   *)
(* so a request that begins when a call is there never opens a second.       *)
TwinCalls(c, d) ==
  /\ calls[c].anonymous = calls[d].anonymous
  /\ IF calls[c].anonymous
     THEN calls[c].by = calls[d].by
     ELSE calls[c].room = calls[d].room /\ calls[c].open /\ calls[d].open

TwinsOverlapped ==
  \A c, d \in DOMAIN calls :
    c # d /\ TwinCalls(c, d) => c \notin req[d].saw /\ d \notin req[c].saw

(* Joining by a call link adds nobody to an ordinary room, though the links' *)
(* methods look up any open call by its id.                                  *)
OrdinaryRoomsKeepMembers ==
  [][\A r \in DOMAIN rooms : ~Anonymous(r) => r \in DOMAIN rooms' /\ rooms'[r] = rooms[r]]_callsVars

(* An ended call of an ordinary room never opens again, whatever join was    *)
(* under way when it ended.                                                  *)
EndedStaysEnded ==
  [][\A c \in DOMAIN calls : ~calls[c].anonymous /\ ~calls[c].open
        => ~calls'[c].open]_callsVars

(* An endCall that is not cut off by a crash ends an ordinary call, also when *)
(* another endCall of the same call is under way.                            *)
EndCallEnds ==
  \A c \in CallIds :
    (\E n \in DOMAIN ends : ends[n].call = c) /\ ~calls[c].anonymous
      ~> c \in lost \/ (c \in DOMAIN calls /\ ~calls[c].open)

(* The comment of endCall, "DELETE ROOM, CALL and All message of room": once *)
(* the room of an anonymous call is deleted and no endCall and no message    *)
(* creation is under way, the room has no message.                           *)
DeletedRoomHasNoMessage ==
  ends = [c \in {} |-> SomeDoc] /\ posting = {} /\ lost = {} =>
    \A m \in messages : Exists(m[2])
=============================================================================
