----------------------------- MODULE GroupRoom -----------------------------
(***************************************************************************)
(* The membership of one group room: create, accept, reject, leaveRoom,    *)
(* addParticipants and removeParticipant of RoomsService, and the messages *)
(* of MessagesService that accept an invitation on their sender's behalf.  *)
(*                                                                         *)
(* Each method reads the room, awaits other reads, and writes whole lists  *)
(* back.  updateRoom writes them whatever the room has become; leaveRoom   *)
(* saves the document, which fails if its version moved since it was read, *)
(* and only such a save moves the version.                                 *)
(*                                                                         *)
(* A list of users is the set of its elements: it is appended to and       *)
(* filtered by id.  The lists of pins, archives and deletions are left out *)
(* but for the check unarchive makes, which ends the methods that call it. *)
(* deleteContact, whose guard does not look at the kind of the room, is a  *)
(* request of the rooms of two, in Contacts, and not of this one.          *)
(***************************************************************************)
EXTENDS Naturals, FiniteSets

CONSTANTS
  Users,
  Slots,       \* the requests that may be under way at a time
  Additions,   \* the sets of users an addParticipants request may name
  NoUser,      \* no user
  MaxRequests  \* bound on the requests begun

ASSUME GroupAssumption ==
  /\ Additions \subseteq SUBSET Users
  /\ NoUser \notin Users
  /\ MaxRequests \in Nat

VARIABLES
  room,      \* the Room document
  allows,    \* [Users -> BOOLEAN]: User.allowUnknown
  req,       \* [Slots -> the request it runs]
  begun,     \* the number of requests so far
  consented, \* history: the users who created the room, accepted, or were
             \* found to allow unknown users when they were named
  leavers    \* history: the users out of the room by their own leaveRoom

groupVars == <<room, allows, req, begun, consented, leavers>>

Room == [participants : SUBSET Users, waitingUsers : SUBSET Users,
         rejectedUsers : SUBSET Users, admin : Users, v : Nat]

NoRoom == [participants |-> {}, waitingUsers |-> {}, rejectedUsers |-> {},
           admin |-> NoUser, v |-> 0]

(* at: what the request does next, with the room it has read; unread: the    *)
(* users named whom it has not read yet.                                     *)
Request == [at : {"idle", "accept", "reject", "leaveUnarchive", "save", "users", "removeUnarchive",
                  "remove", "announce", "acceptFirst"},
            user : Users \union {NoUser}, named : SUBSET Users, unread : SUBSET Users,
            fit : SUBSET Users, read : Room \union {NoRoom}]

Idle == [at |-> "idle", user |-> NoUser, named |-> {}, unread |-> {}, fit |-> {},
         read |-> NoRoom]

(* create of a group: the creator and the named users who allow unknown      *)
(* users take part, the others wait.                                         *)
GroupInit ==
  /\ allows \in [Users -> BOOLEAN]
  /\ \E creator \in Users, named \in SUBSET Users :
       /\ creator \in named /\ Cardinality(named) > 2
       /\ room = [participants |-> {creator} \union {u \in named : allows[u]},
                  waitingUsers |-> {u \in named \ {creator} : ~allows[u]},
                  rejectedUsers |-> {}, admin |-> creator, v |-> 0]
  /\ consented = room.participants
  /\ leavers = {}
  /\ req = [q \in Slots |-> Idle] /\ begun = 0

-----------------------------------------------------------------------------
InRoom(u) == u \in room.participants \union room.waitingUsers

(* A request of u begins: it reads the room and goes on with step `at`. *)
Begins(q, at, u, named) ==
  /\ req[q].at = "idle"
  /\ begun < MaxRequests /\ begun' = begun + 1
  /\ req' = [req EXCEPT ![q] =
       [at |-> at, user |-> u, named |-> named, unread |-> named, fit |-> {}, read |-> room]]
  /\ UNCHANGED <<room, allows, consented, leavers>>

Goes(q, at) == req' = [req EXCEPT ![q].at = at]

Ends(q) == req' = [req EXCEPT ![q] = Idle]

(* The controller answers, and announces the change by an action message of  *)
(* the user, which nobody awaits.                                            *)
EndsAnnounced(q) ==
  req' = [req EXCEPT ![q] = [Idle EXCEPT !.at = "announce", !.user = req[q].user]]

(* Forms with a mistake, for the runs that show which property would notice  *)
(* it: SaveUnchecked, LeaveKeepingAdmin, AddEverybody.                       *)

AcceptReads(q, u) == u \in room.waitingUsers /\ Begins(q, "accept", u, {})

(* accept: both lists as they were read, with the user moved. *)
AcceptWrites(q) ==
  LET u == req[q].user  read == req[q].read IN
  /\ req[q].at = "accept"
  /\ room' = [room EXCEPT !.waitingUsers = read.waitingUsers \ {u},
                          !.participants = read.participants \union {u}]
  /\ consented' = consented \union {u}
  /\ leavers' = leavers \ room'.participants
  /\ Ends(q)
  /\ UNCHANGED <<allows, begun>>

RejectReads(q, u) == u \in room.waitingUsers /\ Begins(q, "reject", u, {})

RejectWrites(q) ==
  LET u == req[q].user  read == req[q].read IN
  /\ req[q].at = "reject"
  /\ room' = [room EXCEPT !.waitingUsers = read.waitingUsers \ {u},
                          !.rejectedUsers = read.rejectedUsers \union {u}]
  /\ Ends(q)
  /\ UNCHANGED <<allows, begun, consented, leavers>>

LeaveReads(q, u) == u \in room.participants /\ Begins(q, "leaveUnarchive", u, {})

(* leaveRoom after unPinIfExist: unarchive looks the room up by its user and *)
(* throws if it is in neither list by now.                                   *)
LeaveUnarchives(q) ==
  /\ req[q].at = "leaveUnarchive"
  /\ IF InRoom(req[q].user) THEN Goes(q, "save") ELSE Ends(q)
  /\ UNCHANGED <<room, allows, begun, consented, leavers>>

(* The admin after u left the document read with the participants rest:      *)
(* unless it was u nothing is saved of it.                                   *)
AdminAfter(read, u, rest) ==
  IF read.admin = u /\ rest # {} THEN rest ELSE {room.admin}

SavesLeave(q, admins) ==
  LET u == req[q].user  rest == req[q].read.participants \ {u} IN
  /\ \E a \in admins :
       room' = [room EXCEPT !.participants = rest, !.admin = a, !.v = @ + 1]
  /\ leavers' = (leavers \ rest) \union {u}
  /\ EndsAnnounced(q)
  /\ UNCHANGED <<allows, begun, consented>>

SaveUnchecked(q) ==
  LET u == req[q].user  read == req[q].read IN
  /\ req[q].at = "save"
  /\ SavesLeave(q, AdminAfter(read, u, read.participants \ {u}))

LeaveKeepingAdmin(q) ==
  /\ req[q].at = "save"
  /\ IF room.v = req[q].read.v THEN SavesLeave(q, {room.admin})
     ELSE Ends(q) /\ UNCHANGED <<room, allows, begun, consented, leavers>>

(* room.save() of leaveRoom: refused if the version moved since the read. *)
LeaveSaves(q) ==
  LET u == req[q].user  read == req[q].read IN
  /\ req[q].at = "save"
  /\ IF room.v = read.v THEN SavesLeave(q, AdminAfter(read, u, read.participants \ {u}))
     ELSE Ends(q) /\ UNCHANGED <<room, allows, begun, consented, leavers>>

(* addParticipants of a participant; it throws for users who were invited or *)
(* have declined when the room was read.                                     *)
AddReads(q, u, named) ==
  /\ u \in room.participants
  /\ named \cap (room.waitingUsers \union room.rejectedUsers) = {}
  /\ Begins(q, "users", u, named)

(* One user named has been read, and is fit to be added or is not. *)
Reads(q, u, fit) ==
  /\ req[q].at = "users" /\ u \in req[q].unread
  /\ req' = [req EXCEPT ![q].unread = @ \ {u}, ![q].fit = IF fit THEN @ \union {u} ELSE @]
  /\ UNCHANGED <<room, allows, begun, leavers>>

AddEverybody(q, u) == Reads(q, u, TRUE) /\ UNCHANGED consented

(* The users named are read at once, in any order: those who allow unknown   *)
(* users are added.                                                          *)
AddReadsUser(q, u) ==
  /\ Reads(q, u, allows[u])
  /\ consented' = IF allows[u] THEN consented \union {u} ELSE consented

(* Every user was read. *)
AddWrites(q) ==
  LET read == req[q].read IN
  /\ req[q].at = "users" /\ req[q].unread = {}
  /\ room' = [room EXCEPT
       !.waitingUsers = read.waitingUsers \union (req[q].named \ req[q].fit),
       !.participants = read.participants \union req[q].fit]
  /\ leavers' = leavers \ room'.participants
  /\ EndsAnnounced(q)
  /\ UNCHANGED <<allows, begun, consented>>

(* removeParticipant by the admin; a user who has declined is not unarchived.*)
RemoveReads(q, u, target) ==
  /\ u \in room.participants /\ room.admin = u
  /\ Begins(q, IF target \in room.rejectedUsers THEN "remove" ELSE "removeUnarchive",
            u, {target})

RemoveUnarchives(q) ==
  /\ req[q].at = "removeUnarchive"
  /\ IF \A target \in req[q].named : InRoom(target) THEN Goes(q, "remove") ELSE Ends(q)
  /\ UNCHANGED <<room, allows, begun, consented, leavers>>

RemoveWrites(q) ==
  LET read == req[q].read  target == req[q].named IN
  /\ req[q].at = "remove"
  /\ room' = [room EXCEPT !.participants = read.participants \ target,
                          !.waitingUsers = read.waitingUsers \ target,
                          !.rejectedUsers = read.rejectedUsers \ target]
  /\ leavers' = leavers \ (room'.participants \union target)
  /\ EndsAnnounced(q)
  /\ UNCHANGED <<allows, begun, consented>>

-----------------------------------------------------------------------------
(* MessagesService.create for a user found among the waiting: accept comes   *)
(* first.  A message of a participant changes no list.                       *)
Send(q, u) == u \in room.waitingUsers /\ Begins(q, "acceptFirst", u, {})

(* createAction: the same for the message of a leave, an addition or a       *)
(* removal, whether or not its sender is in the room.                        *)
Announces(q) ==
  /\ req[q].at = "announce"
  /\ IF req[q].user \in room.waitingUsers THEN Goes(q, "acceptFirst") ELSE Ends(q)
  /\ UNCHANGED <<room, allows, begun, consented, leavers>>

(* accept reads the room once more, and throws if the user waits no longer. *)
AcceptsFirst(q) ==
  /\ req[q].at = "acceptFirst"
  /\ IF req[q].user \in room.waitingUsers
     THEN req' = [req EXCEPT ![q].at = "accept", ![q].read = room] ELSE Ends(q)
  /\ UNCHANGED <<room, allows, begun, consented, leavers>>

ToggleAllowUnknown(u) ==
  /\ allows' = [allows EXCEPT ![u] = ~@]
  /\ UNCHANGED <<room, req, begun, consented, leavers>>

(* The process ends: the requests under way stop where they are. *)
GroupCrash ==
  /\ req' = [q \in Slots |-> Idle]
  /\ UNCHANGED <<room, allows, begun, consented, leavers>>

BeginStep(q, u) ==
  \/ AcceptReads(q, u) \/ RejectReads(q, u) \/ LeaveReads(q, u) \/ Send(q, u)
  \/ \E named \in Additions : AddReads(q, u, named)
  \/ \E target \in Users : RemoveReads(q, u, target)

NextStep(q) ==
  \/ AcceptWrites(q) \/ RejectWrites(q)
  \/ LeaveUnarchives(q) \/ LeaveSaves(q)
  \/ (\E u \in Users : AddReadsUser(q, u)) \/ AddWrites(q)
  \/ RemoveUnarchives(q) \/ RemoveWrites(q)
  \/ Announces(q) \/ AcceptsFirst(q)

GroupNext ==
  \/ \E q \in Slots, u \in Users : BeginStep(q, u)
  \/ \E q \in Slots : NextStep(q)
  \/ \E u \in Users : ToggleAllowUnknown(u)
  \/ GroupCrash

GroupSpec == GroupInit /\ [][GroupNext]_groupVars

-----------------------------------------------------------------------------
(* Types of the document and of the requests under way. *)
GroupTypeOK ==
  /\ room \in Room
  /\ allows \in [Users -> BOOLEAN]
  /\ req \in [Slots -> Request]
  /\ begun \in 0..MaxRequests
  /\ consented \subseteq Users
  /\ leavers \subseteq Users

(* Nobody takes part in a room without having created it, accepted it, or    *)
(* allowed unknown users when named, whatever list overlapping requests      *)
(* write back ("if user not allow unknown, add to waiting list first",       *)
(* addParticipants).                                                         *)
ConsentNeeded == room.participants \subseteq consented

(* The save of a leave never brings back a user whom another leave took out: *)
(* two leaves that overlap do not undo each other (room.save() of leaveRoom),*)
(* unlike updateRoom, whose lists may.                                       *)
LeavesKeepLeavers ==
  [][room'.v # room.v => leavers \cap room'.participants = {}]_groupVars

Promise == INSTANCE Membership WITH
  members <- room.participants, invited <- room.waitingUsers,
  declined <- room.rejectedUsers, owner <- room.admin

(* A step of a request whose read of the room is still current changes the   *)
(* membership as Membership promises, whatever else is under way: invitations*)
(* are answered once, only an admin removes others, and a room whose admin   *)
(* leaves goes to one of its participants.                                   *)
CurrentReadsKeepPromise ==
  [][(\A q \in Slots : req'[q] # req[q] => req[q].read = room)
       => UNCHANGED Promise!membershipVars \/ Promise!GNext]_groupVars

(* Without overlaps every read is current: then the room keeps the promise   *)
(* at every step, crashes included (theorem SerialKeepsPromise).             *)
KeepsPromise == Promise!GSpec
=============================================================================
