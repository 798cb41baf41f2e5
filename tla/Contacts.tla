------------------------------ MODULE Contacts ------------------------------
(***************************************************************************)
(* Two users, the rooms of the two of them, and what stands between them:  *)
(* blocks, strangers who wait to be accepted, contacts deleted, rooms      *)
(* hidden and pinned (RoomsService, UsersService and MessagesService).     *)
(*                                                                         *)
(* The blacklist and the pinned rooms of a user are arrays that a request  *)
(* reads and writes whole.  So are the waiting users of a room, where a    *)
(* user may stand twice, and where null stands after a contact was deleted *)
(* from a room without another participant.                                *)
(*                                                                         *)
(* Left out: a user who blocks themselves, which blockUser does not refuse *)
(* and which concerns no other; and the deletion of an account, which      *)
(* empties both arrays of a user who is gone.                              *)
(***************************************************************************)
EXTENDS Naturals, Sequences, SequencesExt, Lists

CONSTANTS
  Pair,         \* the two users
  Third,        \* another user, whom they may block
  Null,
  Threads,      \* the requests that may be under way at a time
  MaxTalks      \* bound on the requests begun

ASSUME ContactsAssumption ==
  /\ MaxTalks \in Nat /\ \E u \in Pair, v \in Pair : u # v /\ Pair = {u, v}
  /\ Third \notin Pair /\ Null \notin Pair

VARIABLES
  pal,          \* [Pair -> the User document]
  room,         \* [RoomIds -> the Room document]; a room is named by the request that creates it
  sent,         \* the messages stored: [n, room, through]
  thread,       \* [Threads -> the request it runs]
  talks,        \* the number of requests so far
  blocked,      \* history: [Pair -> the users whom the requests that ended leave blocked]
  mingled,      \* history: the users whose blacklist requests overlapped on, and the rooms that
                \* requests overlapped on or did not end for, or where a contact was deleted
  hurried       \* history: requests that create a room overlapped

contactsVars == <<pal, room, sent, thread, talks, blocked, mingled, hurried>>

RoomIds == 1..MaxTalks

NoRoom == 0

Pal == [blacklist : SUBSET (Pair \union {Third}), allowUnknown : BOOLEAN, pinRoomIds : SUBSET RoomIds]

Room == [status : {"none", "active", "waiting"}, participants : SUBSET Pair,
         waitingUsers : Seq(Pair \union {Null}), rejectedUsers : SUBSET Pair,
         deleteFor : SUBSET Pair, archiveFor : SUBSET Pair]

NotARoom == [status |-> "none", participants |-> {}, waitingUsers |-> <<>>, rejectedUsers |-> {},
             deleteFor |-> {}, archiveFor |-> {}]

(* seen: the room it read; list, allows: the array and the flag it read, and *)
(* allows also that it let the other in; held: the users whose block of the  *)
(* other stands since it began.                                              *)
Thread == [at : {"idle", "open", "make", "check", "checkOther", "store", "enter", "entered",
                 "letIn", "letInRead", "letInWrite", "bring", "accept", "reject", "part",
                 "block", "unblock", "allow", "pin", "unpinArchive", "archive"},
           n : 0..MaxTalks, who : Pair, whom : Pair \union {Third}, room : 0..MaxTalks,
           seen : Room, fresh : Room, list : SUBSET (Pair \union {Third} \union RoomIds),
           allows : BOOLEAN, held : SUBSET Pair]

Other(u) == CHOOSE v \in Pair : v # u

Silent == LET u == CHOOSE v \in Pair : TRUE
          IN [at |-> "idle", n |-> 0, who |-> u, whom |-> Other(u), room |-> NoRoom,
              seen |-> NotARoom, fresh |-> NotARoom, list |-> {}, allows |-> FALSE, held |-> {}]

(* Rooms are created by requests; either user may refuse strangers. *)
ContactsInit ==
  /\ pal \in [Pair -> {p \in Pal : p.blacklist = {} /\ p.pinRoomIds = {}}]
  /\ room = [r \in RoomIds |-> NotARoom]
  /\ sent = {} /\ thread = [q \in Threads |-> Silent] /\ talks = 0
  /\ blocked = [u \in Pair |-> {}] /\ mingled = {} /\ hurried = FALSE

-----------------------------------------------------------------------------
Waits(r, u) == u \in Range(room[r].waitingUsers)

In(r, u) == u \in room[r].participants \/ Waits(r, u)

(* findByIdAndUserId with the id of a room. *)
Reaches(u) == {r \in RoomIds : room[r].status # "none" /\ In(r, u)}

(* findByIdAndUserId with the id of the other user: an active room of the    *)
(* two, or one of them that waits.                                           *)
Common == {r \in RoomIds : room[r].status = "active" /\ room[r].participants = Pair}

Uncommon(u) ==
  {r \in RoomIds : \/ Waits(r, u) /\ Waits(r, Other(u))
                   \/ u \in room[r].participants /\ Waits(r, Other(u))
                   \/ Other(u) \in room[r].participants /\ Waits(r, u)}

Others(s, u) == Filtered(s, {i \in DOMAIN s : s[i] # u})

(* The room as it is populated: without null. *)
Populated(r) == [room[r] EXCEPT !.waitingUsers = Others(@, Null)]

Blockers(p) == {u \in Pair : Other(u) \in p[u].blacklist}

Begins(q, t) ==
  /\ thread[q] = Silent /\ talks < MaxTalks
  /\ talks' = talks + 1
  /\ thread' = [thread EXCEPT ![q] = [t EXCEPT !.n = talks + 1, !.held = Blockers(pal)]]
  /\ UNCHANGED <<pal, room, sent, blocked>>

Asking(at, u) == [Silent EXCEPT !.at = at, !.who = u, !.whom = Other(u)]

ListWrites == {"block", "unblock"}

(* History: a request on the room r begins. *)
Overlaps(r) ==
  mingled' = mingled \union ({r} \intersect {thread[q].room : q \in Threads})

(* create, with the other user: whether strangers are allowed is read first. *)
OpenRoom(q, u) ==
  /\ Begins(q, [Asking("open", u) EXCEPT !.allows = pal[Other(u)].allowUnknown])
  /\ hurried' = (hurried \/ \E p \in Threads : thread[p].at \in {"open", "make"})
  /\ UNCHANGED mingled

(* MessagesService.create, in a room or to the other user; a message to a    *)
(* user without any room is stored all the same.                             *)
Talk(q, u) ==
  /\ \/ \E r \in Reaches(u) :
          Begins(q, [Asking("check", u) EXCEPT !.room = r, !.seen = Populated(r)]) /\ Overlaps(r)
     \/ \E r \in IF Common # {} THEN Common ELSE Uncommon(u) :
          Begins(q, [Asking("check", u) EXCEPT !.room = r, !.seen = Populated(r)]) /\ Overlaps(r)
     \/ /\ Common = {} /\ Uncommon(u) = {} /\ UNCHANGED mingled
        /\ Begins(q, [Asking("check", u) EXCEPT !.seen = [NotARoom EXCEPT !.participants = Pair]])
  /\ UNCHANGED hurried

(* blockUser, unblockUser *)
BlockUser(q, u, v) ==
  /\ v # u
  /\ Begins(q, [Asking(IF v \in pal[u].blacklist THEN "unblock" ELSE "block", u)
                  EXCEPT !.whom = v, !.list = pal[u].blacklist])
  /\ mingled' = IF \E p \in Threads : thread[p].at \in ListWrites /\ thread[p].who = u
                THEN mingled \union {u} ELSE mingled
  /\ UNCHANGED hurried

(* toggleAllowUnknown *)
ToggleAllow(q, u) ==
  /\ Begins(q, [Asking("allow", u) EXCEPT !.allows = pal[u].allowUnknown])
  /\ UNCHANGED <<mingled, hurried>>

(* accept and reject fail on a null among the waiting users. *)
AnswerStranger(q, u, r) ==
  /\ Waits(r, u) /\ ~Waits(r, Null)
  /\ \E at \in {"accept", "reject"} :
       Begins(q, [Asking(at, u) EXCEPT !.room = r, !.seen = room[r]])
  /\ Overlaps(r) /\ UNCHANGED hurried

DeleteContact(q, u, r) ==
  /\ r \in Reaches(u)
  /\ Begins(q, [Asking("part", u) EXCEPT !.room = r, !.seen = Populated(r)])
  /\ mingled' = mingled \union {r} /\ UNCHANGED hurried

(* pin, and archive, which takes the pin away first. *)
PinOrArchive(q, u, r) ==
  /\ r \in Reaches(u)
  /\ \E at \in {"pin", "unpinArchive"} :
       Begins(q, [Asking(at, u) EXCEPT !.room = r, !.list = pal[u].pinRoomIds])
  /\ UNCHANGED <<mingled, hurried>>

(* delete and unarchive: the one update after the find. *)
HideOrShow(u, r) ==
  /\ r \in Reaches(u)
  /\ \/ room' = [room EXCEPT ![r].deleteFor = @ \union {u}]
     \/ room' = [room EXCEPT ![r].archiveFor = @ \ {u}]
  /\ talks < MaxTalks /\ talks' = talks + 1
  /\ UNCHANGED <<pal, sent, thread, blocked, mingled, hurried>>

-----------------------------------------------------------------------------
Falls(q) == thread' = [thread EXCEPT ![q] = Silent]

To(q, at) == thread' = [thread EXCEPT ![q].at = at]

Rest == UNCHANGED <<pal, sent, talks, blocked, mingled, hurried>>

(* findByParticipantIdsAndStationId *)
FindsPair(q) ==
  /\ thread[q].at = "open"
  /\ IF \E r \in RoomIds : room[r].participants = Pair THEN Falls(q) ELSE To(q, "make")
  /\ UNCHANGED room /\ Rest

(* A stranger waits in the room, and is in it. *)
MakesRoom(q) ==
  /\ thread[q].at = "make"
  /\ room' = [room EXCEPT ![thread[q].n] =
       [NotARoom EXCEPT !.participants = Pair,
                        !.status = IF thread[q].allows THEN "active" ELSE "waiting",
                        !.waitingUsers = IF thread[q].allows THEN <<>> ELSE <<thread[q].whom>>]]
  /\ Falls(q) /\ Rest

(* Forms with a mistake, which no step takes: StillWaits, ForgetsOthers.     *)

(* checkRelationship of the sender and the other, when the room has both of  *)
(* them: first the sender's blacklist, then the other's.                     *)
Checks(q) ==
  /\ \/ /\ thread[q].at = "check"
        /\ IF thread[q].seen.participants # Pair THEN To(q, "store")
           ELSE IF thread[q].whom \in pal[thread[q].who].blacklist THEN Falls(q)
           ELSE To(q, "checkOther")
     \/ /\ thread[q].at = "checkOther"
        /\ IF thread[q].who \in pal[thread[q].whom].blacklist THEN Falls(q) ELSE To(q, "store")
  /\ UNCHANGED room /\ Rest

SeenWaiting(q, u) == u \in Range(thread[q].seen.waitingUsers)

(* through: a block has stood since before the sender was checked.           *)
StoresMessage(q) ==
  /\ thread[q].at = "store"
  /\ sent' = sent \union
       {[n |-> thread[q].n, room |-> thread[q].room,
         through |-> thread[q].held # {} /\ thread[q].seen.participants = Pair]}
  /\ To(q, IF SeenWaiting(q, thread[q].who) THEN "enter" ELSE "letIn")
  /\ UNCHANGED <<pal, room, talks, blocked, mingled, hurried>>

(* accept reads the room; it fails when the user does not wait, and on null. *)
ReadsToAccept(q) ==
  /\ thread[q].at \in {"enter", "letInRead"}
  /\ LET r == thread[q].room
         u == IF thread[q].at = "enter" THEN thread[q].who ELSE thread[q].whom
     IN IF r # NoRoom /\ Waits(r, u) /\ ~Waits(r, Null)
        THEN thread' = [thread EXCEPT ![q].at = IF @ = "enter" THEN "entered" ELSE "letInWrite",
                                      ![q].fresh = room[r]]
        ELSE Falls(q)
  /\ UNCHANGED room /\ Rest

StillWaits(r, seen, u, status) ==
  [room EXCEPT ![r].participants = seen.participants \union {u}, ![r].status = status]

Accepted(r, seen, u, status) ==
  [room EXCEPT ![r].waitingUsers = Others(seen.waitingUsers, u),
               ![r].participants = seen.participants \union {u}, ![r].status = status]

WritesAccept(q) ==
  /\ \/ /\ thread[q].at = "entered" /\ To(q, "letIn")
        /\ room' = Accepted(thread[q].room, thread[q].fresh, thread[q].who, thread[q].seen.status)
     \/ /\ thread[q].at = "letInWrite" /\ To(q, "bring")
        /\ room' = Accepted(thread[q].room, thread[q].fresh, thread[q].whom, thread[q].seen.status)
     \/ /\ thread[q].at = "accept" /\ Falls(q)
        /\ room' = Accepted(thread[q].room, thread[q].seen, thread[q].who, "active")
  /\ Rest

WritesReject(q) ==
  /\ thread[q].at = "reject"
  /\ room' = [room EXCEPT
       ![thread[q].room].waitingUsers = Others(thread[q].seen.waitingUsers, thread[q].who),
       ![thread[q].room].rejectedUsers = thread[q].seen.rejectedUsers \union {thread[q].who}]
  /\ Falls(q) /\ Rest

(* The other user, if he waits and allows strangers, is accepted, too. *)
LetsIn(q) ==
  /\ thread[q].at = "letIn"
  /\ IF SeenWaiting(q, thread[q].whom) /\ pal[thread[q].whom].allowUnknown
     THEN thread' = [thread EXCEPT ![q].at = "letInRead", ![q].allows = TRUE]
     ELSE To(q, "bring")
  /\ UNCHANGED room /\ Rest

(* Active when the sender alone waited, or the other was let in. *)
NewStatus(q) ==
  IF thread[q].seen.waitingUsers = <<thread[q].who>> \/ thread[q].allows THEN "active"
  ELSE thread[q].seen.status

(* The last update shows the room again.  There may be no room. *)
BringsRoom(q) ==
  LET r == thread[q].room
  IN /\ thread[q].at = "bring"
     /\ room' = IF r = NoRoom THEN room
                ELSE [room EXCEPT ![r].status = NewStatus(q), ![r].deleteFor = {}, ![r].archiveFor = {}]
     /\ Falls(q) /\ Rest

(* deleteContact: the other user of the room as it was read waits in it. *)
OtherRead(q) == IF thread[q].whom \in thread[q].seen.participants THEN thread[q].whom ELSE Null

Parts(q) ==
  LET r == thread[q].room
  IN /\ thread[q].at = "part"
     /\ room' = [room EXCEPT ![r].status = "waiting", ![r].participants = {thread[q].who},
                             ![r].waitingUsers = Append(thread[q].seen.waitingUsers, OtherRead(q))]
     /\ Falls(q) /\ Rest

ForgetsOthers(q) == IF thread[q].at = "block" THEN {thread[q].whom} ELSE {}

NewBlacklist(q) ==
  IF thread[q].at = "block" THEN thread[q].list \union {thread[q].whom}
                            ELSE thread[q].list \ {thread[q].whom}

(* The whole blacklist is written; a block that goes ends what it held.      *)
WritesBlacklist(q) ==
  LET u == thread[q].who
  IN /\ thread[q].at \in ListWrites
     /\ pal' = [pal EXCEPT ![u].blacklist = NewBlacklist(q)]
     /\ blocked' = [blocked EXCEPT ![u] = IF thread[q].at = "block" THEN @ \union {thread[q].whom}
                                                                   ELSE @ \ {thread[q].whom}]
     /\ thread' = [p \in Threads |->
          IF p = q THEN Silent
          ELSE [thread[p] EXCEPT !.held = @ \intersect Blockers(pal')]]
     /\ UNCHANGED <<room, sent, talks, mingled, hurried>>

WritesPal(q) ==
  LET t == thread[q]
  IN /\ \/ t.at = "allow" /\ pal' = [pal EXCEPT ![t.who].allowUnknown = ~t.allows] /\ Falls(q)
        \/ /\ t.at = "pin" /\ Falls(q)
           /\ pal' = [pal EXCEPT ![t.who].pinRoomIds =
                        IF t.room \in t.list THEN t.list \ {t.room} ELSE t.list \union {t.room}]
        \/ /\ t.at = "unpinArchive" /\ To(q, "archive")
           /\ pal' = [pal EXCEPT ![t.who].pinRoomIds = t.list \ {t.room}]
     /\ UNCHANGED <<room, sent, talks, blocked, mingled, hurried>>

Archives(q) ==
  /\ thread[q].at = "archive"
  /\ room' = [room EXCEPT ![thread[q].room].archiveFor = @ \union {thread[q].who}]
  /\ Falls(q) /\ Rest

(* A call that a request awaits fails, or the process ends: nothing more of  *)
(* it is written.                                                            *)
ThreadFails(q) ==
  /\ thread[q] # Silent
  /\ Falls(q)
  /\ mingled' = mingled \union ({thread[q].room} \intersect RoomIds)
  /\ UNCHANGED <<pal, room, sent, talks, blocked, hurried>>

-----------------------------------------------------------------------------
BeginsAny(q) ==
  \E u \in Pair :
    \/ OpenRoom(q, u) \/ Talk(q, u) \/ ToggleAllow(q, u)
    \/ \E v \in Pair \union {Third} : BlockUser(q, u, v)
    \/ \E r \in RoomIds : AnswerStranger(q, u, r) \/ DeleteContact(q, u, r) \/ PinOrArchive(q, u, r)

Continues(q) ==
  \/ FindsPair(q) \/ MakesRoom(q) \/ Checks(q) \/ StoresMessage(q) \/ ReadsToAccept(q)
  \/ WritesAccept(q) \/ WritesReject(q) \/ LetsIn(q) \/ BringsRoom(q) \/ Parts(q)
  \/ WritesBlacklist(q) \/ WritesPal(q) \/ Archives(q) \/ ThreadFails(q)

ContactsNext ==
  \/ \E q \in Threads : BeginsAny(q) \/ Continues(q)
  \/ \E u \in Pair, r \in RoomIds : HideOrShow(u, r)

ContactsSpec == ContactsInit /\ [][ContactsNext]_contactsVars

-----------------------------------------------------------------------------
(* The lists a user has of his rooms: findWithCursorPaginate, its list of    *)
(* the rooms that wait, and getPinnedRooms.  None has the rooms he hid.      *)
Hidden(u) == {r \in RoomIds : u \in room[r].deleteFor \union room[r].archiveFor}

Listed(u) ==
  {r \in RoomIds \ (Hidden(u) \union pal[u].pinRoomIds) :
     room[r].status = "active" /\ u \in room[r].participants /\ ~Waits(r, u)}

WaitingList(u) ==
  {r \in RoomIds \ (Hidden(u) \union pal[u].pinRoomIds) :
     Waits(r, u) \/ (room[r].status = "waiting" /\ u \in room[r].participants)}

PinnedList(u) ==
  {r \in pal[u].pinRoomIds \ Hidden(u) : room[r].status = "active" /\ u \in room[r].participants}

-----------------------------------------------------------------------------
(* Types. *)
ContactsTypeOK ==
  /\ pal \in [Pair -> Pal] /\ DOMAIN room = RoomIds
  /\ talks \in 0..MaxTalks /\ hurried \in BOOLEAN /\ DOMAIN thread = Threads
  /\ \A r \in RoomIds : room[r].participants \subseteq Pair
                        /\ Range(room[r].waitingUsers) \subseteq Pair \union {Null}
  /\ \A q \in Threads : thread[q].n \in 0..MaxTalks /\ thread[q].room \in 0..MaxTalks
  /\ \A x \in sent : x.n \in RoomIds /\ x.room \in 0..MaxTalks /\ x.through \in BOOLEAN

(* Nothing is sent past a block: a message that began under a block of       *)
(* either user that has stood since is never stored in a room of the two,    *)
(* and the blacklists are those that the blocks and unblocks leave, unless   *)
(* two of one user overlapped: each writes the whole list it read.           *)
BlocksHold ==
  /\ \A x \in sent : ~x.through
  /\ \A u \in Pair \ mingled : pal[u].blacklist = blocked[u]

(* A room of the two has both of them, one only unless they opened two at a  *)
(* time; when it is active nobody waits in it and each has it in a list, and *)
(* while it waits each has it among those that wait, unless he pinned it.    *)
(* Except for rooms that requests overlapped on or did not end for, and      *)
(* those where a contact was deleted.                                        *)
RoomsOfTwoSettle ==
  \A r \in RoomIds \ (mingled \union {thread[q].room : q \in Threads}) :
    room[r].status # "none" =>
      /\ room[r].participants = Pair
      /\ room[r].status = "active" =>
           room[r].waitingUsers = <<>> /\ \A u \in Pair : r \in Listed(u) \union PinnedList(u) \union Hidden(u)
      /\ room[r].status = "waiting" =>
           /\ room[r].waitingUsers # <<>> \/ room[r].rejectedUsers # {}
           /\ \A u \in Pair : r \in WaitingList(u) \union pal[u].pinRoomIds \union Hidden(u)
      /\ \A s \in RoomIds \ {r} : s \notin mingled /\ room[s].participants = Pair => hurried
=============================================================================
