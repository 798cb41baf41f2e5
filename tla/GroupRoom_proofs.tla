-------------------------- MODULE GroupRoom_proofs --------------------------
(***************************************************************************)
(* Theorems about GroupRoom, for any number of users and of requests under *)
(* way at a time.                                                          *)
(***************************************************************************)
EXTENDS GroupRoom, TLAPS

-----------------------------------------------------------------------------
(* Types.                                                                    *)

(* A slot that runs a request knows its user. *)
UsersKnown == \A q \in Slots : req[q].at # "idle" => req[q].user \in Users

TypeInv == GroupTypeOK /\ UsersKnown

(* The lists a request has read hold users. *)
LEMMA ReadLists ==
  ASSUME TypeInv, NEW q \in Slots
  PROVE  /\ req[q] \in Request
         /\ req[q].read.participants \subseteq Users
         /\ req[q].read.waitingUsers \subseteq Users
         /\ req[q].read.rejectedUsers \subseteq Users
         /\ req[q].named \subseteq Users /\ req[q].fit \subseteq Users
         /\ req[q].unread \subseteq Users
  BY DEF TypeInv, GroupTypeOK, Request, Room, NoRoom

LEMMA IdleType == Idle \in Request /\ Idle.at = "idle"
  BY DEF Idle, Request, NoRoom

(* A slot turned to a request of known user, the others as they were. *)
LEMMA SlotTypes ==
  ASSUME TypeInv, NEW q \in Slots, NEW new \in Request,
         new.at # "idle" => new.user \in Users,
         req' = [req EXCEPT ![q] = new]
  PROVE  req' \in [Slots -> Request] /\ UsersKnown'
  BY DEF TypeInv, GroupTypeOK, UsersKnown

LEMMA EndsTypes ==
  ASSUME TypeInv, NEW q \in Slots, Ends(q)
  PROVE  req' \in [Slots -> Request] /\ UsersKnown'
  BY IdleType, SlotTypes DEF Ends

LEMMA EndsAnnouncedTypes ==
  ASSUME TypeInv, NEW q \in Slots, EndsAnnounced(q), req[q].at # "idle"
  PROVE  req' \in [Slots -> Request] /\ UsersKnown'
<1>1. req[q].user \in Users
  BY DEF TypeInv, UsersKnown
<1>2. [Idle EXCEPT !.at = "announce", !.user = req[q].user] \in Request
  BY <1>1 DEF Idle, Request, NoRoom
<1> QED
  BY <1>1, <1>2, SlotTypes DEF EndsAnnounced, Idle

LEMMA GoesTypes ==
  ASSUME TypeInv, NEW q \in Slots, req[q].at # "idle",
         NEW at \in {"save", "remove", "acceptFirst"}, Goes(q, at)
  PROVE  req' \in [Slots -> Request] /\ UsersKnown'
<1>1. [req[q] EXCEPT !.at = at] \in Request /\ req[q].user \in Users
  BY DEF TypeInv, GroupTypeOK, UsersKnown, Request
<1>2. [req[q] EXCEPT !.at = at].user = req[q].user
  BY ReadLists DEF Request
<1>3. req' = [req EXCEPT ![q] = [req[q] EXCEPT !.at = at]]
  BY DEF Goes
<1> QED
  BY <1>1, <1>2, <1>3, SlotTypes

(* One user named has been read: the request keeps the rest. *)
LEMMA ReadsHolds ==
  ASSUME TypeInv, NEW q \in Slots, NEW u \in Users, AddReadsUser(q, u)
  PROVE  /\ req' \in [Slots -> Request] /\ UsersKnown'
         /\ \A p \in Slots \ {q} : req'[p] = req[p]
         /\ req[q].at = "users" /\ req'[q].at = "users" /\ req'[q].read = req[q].read
         /\ req'[q].user = req[q].user /\ req'[q].named = req[q].named
         /\ u \in req[q].unread /\ req'[q].unread = req[q].unread \ {u}
         /\ req'[q].fit = IF allows[u] THEN req[q].fit \union {u} ELSE req[q].fit
         /\ UNCHANGED <<room, allows, begun, leavers>>
         /\ consented' = IF allows[u] THEN consented \union {u} ELSE consented
<1>1. PICK unread, fit : /\ unread = req[q].unread \ {u}
                         /\ fit = IF allows[u] THEN req[q].fit \union {u} ELSE req[q].fit
  OBVIOUS
<1>2. PICK new : new = [req[q] EXCEPT !.unread = unread, !.fit = fit]
  OBVIOUS
<1>3. unread \subseteq Users /\ fit \subseteq Users
  BY <1>1, ReadLists
<1>4. req[q] \in Request /\ req \in [Slots -> Request]
  BY DEF TypeInv, GroupTypeOK
<1>5. /\ new \in Request /\ new.at = req[q].at /\ new.read = req[q].read /\ new.user = req[q].user
      /\ new.named = req[q].named /\ new.unread = unread /\ new.fit = fit
  BY <1>2, <1>3, <1>4 DEF Request
<1>6. /\ req' = [req EXCEPT ![q] = new] /\ req[q].at = "users" /\ u \in req[q].unread
      /\ UNCHANGED <<room, allows, begun, leavers>>
      /\ consented' = IF allows[u] THEN consented \union {u} ELSE consented
  BY <1>1, <1>2, <1>4 DEF AddReadsUser, Reads
<1>7. req' \in [Slots -> Request] /\ UsersKnown'
  BY <1>5, <1>6, SlotTypes DEF TypeInv, UsersKnown
<1>8. req'[q] = new /\ \A p \in Slots \ {q} : req'[p] = req[p]
  BY <1>4, <1>6
<1> QED
  BY <1>1, <1>5, <1>6, <1>7, <1>8

LEMMA BeginsTypes ==
  ASSUME TypeInv, NEW q \in Slots, NEW u \in Users, NEW named \in SUBSET Users,
         NEW at \in {"accept", "reject", "leaveUnarchive", "users", "remove",
                     "removeUnarchive", "acceptFirst"},
         Begins(q, at, u, named)
  PROVE  TypeInv'
<1>1. [at |-> at, user |-> u, named |-> named, unread |-> named, fit |-> {}, read |-> room] \in Request
  BY DEF Request, TypeInv, GroupTypeOK
<1>2. req' \in [Slots -> Request] /\ UsersKnown'
  BY <1>1, SlotTypes DEF Begins
<1>3. begun' \in 0..MaxRequests
  BY GroupAssumption DEF Begins, TypeInv, GroupTypeOK
<1> QED
  BY <1>2, <1>3 DEF Begins, TypeInv, GroupTypeOK

LEMMA BeginStepTypes ==
  ASSUME TypeInv, NEW q \in Slots, NEW u \in Users, BeginStep(q, u)
  PROVE  TypeInv'
<1>1. CASE AcceptReads(q, u) \/ RejectReads(q, u) \/ LeaveReads(q, u) \/ Send(q, u)
  BY <1>1, BeginsTypes DEF AcceptReads, RejectReads, LeaveReads, Send
<1>2. CASE \E named \in Additions : AddReads(q, u, named)
  <2> PICK named \in Additions : AddReads(q, u, named)
    BY <1>2
  <2> QED
    BY BeginsTypes, GroupAssumption DEF AddReads
<1>3. CASE \E target \in Users : RemoveReads(q, u, target)
  <2> PICK target \in Users : RemoveReads(q, u, target)
    BY <1>3
  <2> QED
    BY BeginsTypes DEF RemoveReads
<1> QED
  BY <1>1, <1>2, <1>3 DEF BeginStep

LEMMA NextStepTypes ==
  ASSUME TypeInv, NEW q \in Slots, NextStep(q)
  PROVE  TypeInv'
<1> USE DEF TypeInv, GroupTypeOK
<1>0. req[q].at # "idle" => req[q].user \in Users
  BY DEF UsersKnown
<1>1. CASE AcceptWrites(q)
  <2>1. req' \in [Slots -> Request] /\ UsersKnown'
    BY <1>1, EndsTypes DEF AcceptWrites
  <2>2. room' \in Room
    BY <1>0, <1>1, ReadLists DEF AcceptWrites, Room
  <2> QED
    BY <1>0, <1>1, <2>1, <2>2 DEF AcceptWrites
<1>2. CASE RejectWrites(q)
  <2>1. req' \in [Slots -> Request] /\ UsersKnown'
    BY <1>2, EndsTypes DEF RejectWrites
  <2>2. room' \in Room
    BY <1>0, <1>2, ReadLists DEF RejectWrites, Room
  <2> QED
    BY <1>2, <2>1, <2>2 DEF RejectWrites
<1>3. CASE LeaveUnarchives(q)
  BY <1>3, EndsTypes, GoesTypes DEF LeaveUnarchives
<1>4. CASE LeaveSaves(q)
  <2>1. CASE room.v = req[q].read.v
    <3>1. req' \in [Slots -> Request] /\ UsersKnown'
      BY <1>4, <2>1, EndsAnnouncedTypes DEF LeaveSaves, SavesLeave
    <3>2. PICK a \in AdminAfter(req[q].read, req[q].user,
                                req[q].read.participants \ {req[q].user}) :
            room' = [room EXCEPT !.participants = req[q].read.participants \ {req[q].user},
                                 !.admin = a, !.v = @ + 1]
      BY <1>4, <2>1 DEF LeaveSaves, SavesLeave
    <3>3. a \in Users
      BY <3>2, ReadLists DEF AdminAfter, Room
    <3> PICK rest \in SUBSET Users : rest = req[q].read.participants \ {req[q].user}
      BY ReadLists
    <3> PICK w \in Nat : w = room.v + 1
      BY DEF Room
    <3>5. room' = [room EXCEPT !.participants = rest, !.admin = a, !.v = w]
      BY <3>2
    <3>6. room \in Room
      OBVIOUS
    <3> HIDE DEF TypeInv, GroupTypeOK
    <3>4. room' \in Room
      BY <3>3, <3>5, <3>6 DEF Room
    <3> USE DEF TypeInv, GroupTypeOK
    <3> QED
      BY <1>0, <1>4, <2>1, <3>1, <3>4 DEF LeaveSaves, SavesLeave
  <2>2. CASE room.v # req[q].read.v
    BY <1>4, <2>2, EndsTypes DEF LeaveSaves
  <2> QED
    BY <2>1, <2>2
<1>5. CASE \E u \in Users : AddReadsUser(q, u)
  <2>1. PICK u \in Users : AddReadsUser(q, u)
    BY <1>5
  <2>2. /\ req' \in [Slots -> Request] /\ UsersKnown' /\ UNCHANGED <<room, allows, begun, leavers>>
        /\ consented' \subseteq consented \union {u}
    BY <2>1, ReadsHolds
  <2> QED
    BY <2>2 DEF TypeInv, GroupTypeOK
<1>6. CASE AddWrites(q)
  <2>1. req' \in [Slots -> Request] /\ UsersKnown'
    BY <1>6, EndsAnnouncedTypes DEF AddWrites
  <2>2. room' \in Room
    BY <1>6, ReadLists DEF AddWrites, Room
  <2> QED
    BY <1>6, <2>1, <2>2 DEF AddWrites
<1>7. CASE RemoveUnarchives(q)
  BY <1>7, EndsTypes, GoesTypes DEF RemoveUnarchives
<1>8. CASE RemoveWrites(q)
  <2>1. req' \in [Slots -> Request] /\ UsersKnown'
    BY <1>8, EndsAnnouncedTypes DEF RemoveWrites
  <2>2. room' \in Room
    BY <1>8, ReadLists DEF RemoveWrites, Room
  <2> QED
    BY <1>8, <2>1, <2>2 DEF RemoveWrites
<1>9. CASE Announces(q)
  BY <1>9, EndsTypes, GoesTypes DEF Announces
<1>10. CASE AcceptsFirst(q)
  <2>1. CASE req[q].user \in room.waitingUsers
    <3>1. [req[q] EXCEPT !.at = "accept", !.read = room] \in Request
      BY ReadLists DEF Request
    <3>2. [req[q] EXCEPT !.at = "accept", !.read = room].user = req[q].user
      BY ReadLists DEF Request
    <3>3. req' = [req EXCEPT ![q] = [req[q] EXCEPT !.at = "accept", !.read = room]]
      BY <1>10, <2>1 DEF AcceptsFirst
    <3> QED
      BY <1>0, <1>10, <3>1, <3>2, <3>3, SlotTypes DEF AcceptsFirst
  <2>2. CASE req[q].user \notin room.waitingUsers
    BY <1>10, <2>2, EndsTypes DEF AcceptsFirst
  <2> QED
    BY <2>1, <2>2
<1> QED
  BY <1>1, <1>2, <1>3, <1>4, <1>5, <1>6, <1>7, <1>8, <1>9, <1>10 DEF NextStep

LEMMA TypeInvInductive ==
  /\ GroupInit => TypeInv
  /\ TypeInv /\ [GroupNext]_groupVars => TypeInv'
<1>1. ASSUME GroupInit PROVE TypeInv
  <2>1. room \in Room /\ allows \in [Users -> BOOLEAN]
    BY <1>1 DEF GroupInit, Room
  <2>2. consented \subseteq Users
    BY <1>1, <2>1 DEF GroupInit, Room
  <2> QED
    BY <1>1, <2>1, <2>2, IdleType, GroupAssumption DEF GroupInit, TypeInv, GroupTypeOK, UsersKnown
<1>2. ASSUME TypeInv, [GroupNext]_groupVars PROVE TypeInv'
  <2>1. CASE \E q \in Slots, u \in Users : BeginStep(q, u)
    BY <1>2, <2>1, BeginStepTypes
  <2>2. CASE \E q \in Slots : NextStep(q)
    BY <1>2, <2>2, NextStepTypes
  <2>3. CASE \E u \in Users : ToggleAllowUnknown(u)
    BY <1>2, <2>3 DEF ToggleAllowUnknown, TypeInv, GroupTypeOK, UsersKnown
  <2>4. CASE GroupCrash
    BY <1>2, <2>4, IdleType DEF GroupCrash, TypeInv, GroupTypeOK, UsersKnown
  <2>5. CASE UNCHANGED groupVars
    BY <1>2, <2>5 DEF groupVars, TypeInv, GroupTypeOK, UsersKnown
  <2> QED
    BY <1>2, <2>1, <2>2, <2>3, <2>4, <2>5 DEF GroupNext
<1> QED
  BY <1>1, <1>2

(* GroupTypeOK: every list written back holds users, and the admin is one.   *)
THEOREM GroupTypes == GroupSpec => []GroupTypeOK
<1>1. TypeInv => GroupTypeOK
  BY DEF TypeInv
<1> QED
  BY <1>1, TypeInvInductive, PTL DEF GroupSpec

-----------------------------------------------------------------------------
(* Consent.                                                                  *)

(* Not only the room but every list that may still be written holds users    *)
(* who consented.                                                            *)
ConsentInv ==
  /\ ConsentNeeded
  /\ \A q \in Slots : /\ req[q].read.participants \subseteq consented
                      /\ req[q].fit \subseteq consented

LEMMA IdleHolds == Idle.fit = {} /\ Idle.read.participants = {} /\ Idle.read.v = 0
                   /\ Idle.at \notin {"leaveUnarchive", "save"}
  BY DEF Idle, NoRoom

(* The request of slot q is over, or announces itself. *)
LEMMA OverHolds ==
  ASSUME TypeInv, NEW q \in Slots, Ends(q) \/ EndsAnnounced(q)
  PROVE  /\ \A p \in Slots \ {q} : req'[p] = req[p]
         /\ req'[q].fit = {} /\ req'[q].read.participants = {} /\ req'[q].read.v = 0
         /\ req'[q].at \notin {"leaveUnarchive", "save"}
<1>1. CASE Ends(q)
  BY <1>1, IdleHolds DEF Ends, TypeInv, GroupTypeOK
<1>2. CASE EndsAnnounced(q)
  <2> DEFINE new == [Idle EXCEPT !.at = "announce", !.user = req[q].user]
  <2>1. /\ new.fit = {} /\ new.read.participants = {} /\ new.read.v = 0
        /\ new.at = "announce"
    BY DEF Idle, NoRoom
  <2>2. req' = [req EXCEPT ![q] = new]
    BY <1>2 DEF EndsAnnounced
  <2> HIDE DEF new
  <2> QED
    BY <2>1, <2>2 DEF TypeInv, GroupTypeOK
<1> QED
  BY <1>1, <1>2

(* A request keeps what it read when it goes on. *)
LEMMA GoesHolds ==
  ASSUME TypeInv, NEW q \in Slots, NEW at, Goes(q, at)
  PROVE  /\ \A p \in Slots \ {q} : req'[p] = req[p]
         /\ req'[q].fit = req[q].fit /\ req'[q].read = req[q].read /\ req'[q].at = at
         /\ req'[q].user = req[q].user /\ req'[q].named = req[q].named
         /\ req'[q].unread = req[q].unread
  BY ReadLists DEF Goes, TypeInv, GroupTypeOK, Request

LEMMA BeginHolds ==
  ASSUME TypeInv, NEW q \in Slots, NEW u, BeginStep(q, u)
  PROVE  /\ \A p \in Slots \ {q} : req'[p] = req[p]
         /\ req'[q].fit = {} /\ req'[q].read = room
         /\ UNCHANGED <<room, allows, consented, leavers>>
<1>1. ASSUME NEW at, NEW named, Begins(q, at, u, named)
      PROVE  /\ \A p \in Slots \ {q} : req'[p] = req[p]
             /\ req'[q].fit = {} /\ req'[q].read = room
             /\ UNCHANGED <<room, allows, consented, leavers>>
  BY <1>1 DEF Begins, TypeInv, GroupTypeOK
<1> QED
  BY <1>1 DEF BeginStep, AcceptReads, RejectReads, LeaveReads, Send, AddReads, RemoveReads

LEMMA ConsentNext ==
  ASSUME TypeInv, ConsentInv, NEW q \in Slots, NextStep(q)
  PROVE  ConsentInv'
<1> USE DEF ConsentInv, ConsentNeeded
<1>0. room.participants \subseteq consented /\ room \in Room
  BY DEF TypeInv, GroupTypeOK
<1>1. CASE AcceptWrites(q)
  <2>1. room'.participants = req[q].read.participants \union {req[q].user}
    BY <1>0, <1>1 DEF AcceptWrites, Room
  <2> QED
    BY <1>1, <2>1, OverHolds DEF AcceptWrites
<1>2. CASE RejectWrites(q)
  <2>1. room'.participants = room.participants
    BY <1>0, <1>2 DEF RejectWrites, Room
  <2> QED
    BY <1>2, <2>1, OverHolds DEF RejectWrites
<1>3. CASE LeaveUnarchives(q) \/ RemoveUnarchives(q) \/ Announces(q)
  BY <1>3, OverHolds, GoesHolds DEF LeaveUnarchives, RemoveUnarchives, Announces
<1>4. CASE LeaveSaves(q)
  <2>1. room'.participants \subseteq consented
    BY <1>0, <1>4 DEF LeaveSaves, SavesLeave, Room
  <2> QED
    BY <1>4, <2>1, OverHolds DEF LeaveSaves, SavesLeave
<1>5. CASE \E u \in Users : AddReadsUser(q, u)
  BY <1>5, ReadsHolds
<1>6. CASE AddWrites(q)
  <2>1. room'.participants = req[q].read.participants \union req[q].fit
    BY <1>0, <1>6 DEF AddWrites, Room
  <2> QED
    BY <1>6, <2>1, OverHolds DEF AddWrites
<1>7. CASE RemoveWrites(q)
  <2>1. room'.participants = req[q].read.participants \ req[q].named
    BY <1>0, <1>7 DEF RemoveWrites, Room
  <2> QED
    BY <1>7, <2>1, OverHolds DEF RemoveWrites
<1>8. CASE AcceptsFirst(q)
  <2>1. CASE req[q].user \in room.waitingUsers
    <3>1. /\ \A p \in Slots \ {q} : req'[p] = req[p]
          /\ req'[q].fit = req[q].fit /\ req'[q].read = room
      BY <1>8, <2>1, ReadLists DEF AcceptsFirst, TypeInv, GroupTypeOK, Request
    <3> QED
      BY <1>0, <1>8, <3>1 DEF AcceptsFirst
  <2>2. CASE req[q].user \notin room.waitingUsers
    BY <1>8, <2>2, OverHolds DEF AcceptsFirst
  <2> QED
    BY <2>1, <2>2
<1> QED
  BY <1>1, <1>2, <1>3, <1>4, <1>5, <1>6, <1>7, <1>8 DEF NextStep

(* ConsentNeeded: nobody takes part in a room against their will, whatever   *)
(* lists overlapping requests write back.                                    *)
THEOREM ConsentHolds == GroupSpec => []ConsentNeeded
<1>1. ASSUME GroupInit PROVE ConsentInv
  BY <1>1, IdleHolds DEF GroupInit, ConsentInv, ConsentNeeded
<1>2. ASSUME TypeInv, ConsentInv, [GroupNext]_groupVars PROVE ConsentInv'
  <2>1. ASSUME NEW q \in Slots, NEW u \in Users, BeginStep(q, u) PROVE ConsentInv'
    BY <1>2, <2>1, BeginHolds DEF ConsentInv, ConsentNeeded
  <2>2. ASSUME NEW q \in Slots, NextStep(q) PROVE ConsentInv'
    BY <1>2, <2>2, ConsentNext
  <2>3. CASE \E u \in Users : ToggleAllowUnknown(u)
    BY <1>2, <2>3 DEF ToggleAllowUnknown, ConsentInv, ConsentNeeded
  <2>4. CASE GroupCrash
    BY <1>2, <2>4, IdleHolds DEF GroupCrash, ConsentInv, ConsentNeeded
  <2>5. CASE UNCHANGED groupVars
    BY <1>2, <2>5 DEF groupVars, ConsentInv, ConsentNeeded
  <2> QED
    BY <1>2, <2>1, <2>2, <2>3, <2>4, <2>5 DEF GroupNext
<1>3. ConsentInv => ConsentNeeded
  BY DEF ConsentInv
<1> QED
  BY <1>1, <1>2, <1>3, TypeInvInductive, PTL DEF GroupSpec

-----------------------------------------------------------------------------
(* Leavers.                                                                  *)

(* A leave whose save would pass has read a room without the leavers: only   *)
(* a leave makes a leaver, and its save moves the version.                   *)
LeaversInv ==
  /\ leavers \cap room.participants = {}
  /\ \A q \in Slots :
       /\ req[q].read.v \in Nat /\ req[q].read.v <= room.v
       /\ req[q].at \in {"leaveUnarchive", "save"} /\ req[q].read.v = room.v
            => leavers \cap req[q].read.participants = {}

(* Steps that leave the version alone add no leaver. *)
LEMMA LeaversKept ==
  ASSUME TypeInv, LeaversInv, NEW q \in Slots,
         \A p \in Slots \ {q} : req'[p] = req[p],
         room'.v = room.v,
         leavers' \subseteq leavers, leavers' \cap room'.participants = {},
         \/ req'[q].read.v = 0 /\ req'[q].at \notin {"leaveUnarchive", "save"}
         \/ req'[q].read = room /\ leavers' = leavers
         \/ /\ req'[q].read = req[q].read
            /\ req'[q].at \in {"leaveUnarchive", "save"}
                 => req[q].at \in {"leaveUnarchive", "save"}
  PROVE  LeaversInv'
<1>1. room.v \in Nat
  BY DEF TypeInv, GroupTypeOK, Room
<1>2. ASSUME NEW p \in Slots
      PROVE  /\ req'[p].read.v \in Nat /\ req'[p].read.v <= room'.v
             /\ req'[p].at \in {"leaveUnarchive", "save"} /\ req'[p].read.v = room'.v
                  => leavers' \cap req'[p].read.participants = {}
  <2>1. CASE p # q
    BY <2>1 DEF LeaversInv
  <2>2. CASE p = q
    BY <1>1, <2>2 DEF LeaversInv
  <2> QED
    BY <2>1, <2>2
<1> QED
  BY <1>2 DEF LeaversInv

LEMMA LeaversNext ==
  ASSUME TypeInv, LeaversInv, NEW q \in Slots, NextStep(q)
  PROVE  LeaversInv' /\ (room'.v # room.v => leavers \cap room'.participants = {})
<1>0. leavers \cap room.participants = {} /\ room \in Room /\ room.v \in Nat
  BY DEF TypeInv, GroupTypeOK, LeaversInv, Room
<1>1. CASE AcceptWrites(q)
  <2>1. room'.v = room.v /\ leavers' = leavers \ room'.participants
    BY <1>0, <1>1 DEF AcceptWrites, Room
  <2> QED
    BY <1>1, <2>1, OverHolds, LeaversKept DEF AcceptWrites
<1>2. CASE RejectWrites(q)
  <2>1. room'.v = room.v /\ room'.participants = room.participants
    BY <1>0, <1>2 DEF RejectWrites, Room
  <2> QED
    BY <1>0, <1>2, <2>1, OverHolds, LeaversKept DEF RejectWrites
<1>3. CASE LeaveUnarchives(q) \/ RemoveUnarchives(q) \/ Announces(q)
  <2>1. UNCHANGED <<room, leavers>>
    BY <1>3 DEF LeaveUnarchives, RemoveUnarchives, Announces
  <2>2. CASE Ends(q)
    BY <1>0, <2>1, <2>2, OverHolds, LeaversKept
  <2>3. ASSUME NEW at \in {"save", "remove", "acceptFirst"}, Goes(q, at),
               at = "save" => req[q].at = "leaveUnarchive"
        PROVE  LeaversInv'
    BY <1>0, <2>1, <2>3, GoesHolds, LeaversKept
  <2> QED
    BY <1>3, <2>1, <2>2, <2>3 DEF LeaveUnarchives, RemoveUnarchives, Announces
<1>4. CASE LeaveSaves(q)
  <2>1. CASE room.v = req[q].read.v
    <3> PICK rest : rest = req[q].read.participants \ {req[q].user}
      OBVIOUS
    <3>1. room'.v = room.v + 1 /\ room'.participants = rest
      BY <1>0, <1>4, <2>1 DEF LeaveSaves, SavesLeave, Room
    <3>2. leavers' = (leavers \ rest) \union {req[q].user} /\ EndsAnnounced(q)
      BY <1>4, <2>1 DEF LeaveSaves, SavesLeave
    <3>3. leavers' \cap room'.participants = {}
      BY <3>1, <3>2
    <3>4. leavers \cap room'.participants = {}
      BY <1>4, <2>1, <3>1 DEF LeaversInv, LeaveSaves
    <3>5. ASSUME NEW p \in Slots
          PROVE  req'[p].read.v \in Nat /\ req'[p].read.v <= room.v
      <4>1. CASE p # q
        BY <3>2, <4>1, OverHolds DEF LeaversInv
      <4>2. CASE p = q
        BY <1>0, <3>2, <4>2, OverHolds
      <4> QED
        BY <4>1, <4>2
    <3>6. \A p \in Slots : /\ req'[p].read.v \in Nat /\ req'[p].read.v <= room'.v
                          /\ req'[p].read.v # room'.v
      BY <1>0, <3>1, <3>5
    <3> QED
      BY <3>3, <3>4, <3>6 DEF LeaversInv
  <2>2. CASE room.v # req[q].read.v
    BY <1>0, <1>4, <2>2, OverHolds, LeaversKept DEF LeaveSaves
  <2> QED
    BY <2>1, <2>2
<1>5. CASE \E u \in Users : AddReadsUser(q, u)
  BY <1>0, <1>5, ReadsHolds, LeaversKept
<1>6. CASE AddWrites(q)
  <2>1. room'.v = room.v /\ leavers' = leavers \ room'.participants
    BY <1>0, <1>6 DEF AddWrites, Room
  <2> QED
    BY <1>6, <2>1, OverHolds, LeaversKept DEF AddWrites
<1>7. CASE RemoveWrites(q)
  <2>1. room'.v = room.v
    BY <1>0, <1>7 DEF RemoveWrites, Room
  <2>2. leavers' \subseteq leavers /\ leavers' \cap room'.participants = {}
    BY <1>7 DEF RemoveWrites
  <2> QED
    BY <1>7, <2>1, <2>2, OverHolds, LeaversKept DEF RemoveWrites
<1>8. CASE AcceptsFirst(q)
  <2>0. UNCHANGED <<room, leavers>>
    BY <1>8 DEF AcceptsFirst
  <2>1. CASE req[q].user \in room.waitingUsers
    <3>1. /\ \A p \in Slots \ {q} : req'[p] = req[p]
          /\ req'[q].read = room
      BY <1>8, <2>1, ReadLists DEF AcceptsFirst, TypeInv, GroupTypeOK, Request
    <3> QED
      BY <1>0, <2>0, <3>1, LeaversKept
  <2>2. CASE req[q].user \notin room.waitingUsers
    <3>1. Ends(q)
      BY <1>8, <2>2 DEF AcceptsFirst
    <3> QED
      BY <1>0, <2>0, <3>1, OverHolds, LeaversKept
  <2> QED
    BY <2>1, <2>2
<1> QED
  BY <1>1, <1>2, <1>3, <1>4, <1>5, <1>6, <1>7, <1>8 DEF NextStep

(* LeavesKeepLeavers: of the leaves that overlap one is saved, and the save  *)
(* of a leave brings back nobody who left.                                   *)
THEOREM LeaversStayOut == GroupSpec => LeavesKeepLeavers
<1>1. ASSUME GroupInit PROVE LeaversInv
  <2>1. room.v = 0
    BY <1>1 DEF GroupInit
  <2> QED
    BY <1>1, <2>1, IdleHolds DEF GroupInit, LeaversInv
<1>2. ASSUME TypeInv, LeaversInv, [GroupNext]_groupVars
      PROVE  LeaversInv' /\ (room'.v # room.v => leavers \cap room'.participants = {})
  <2>0. leavers \cap room.participants = {} /\ room.v \in Nat
    BY <1>2 DEF TypeInv, GroupTypeOK, LeaversInv, Room
  <2>1. ASSUME NEW q \in Slots, NEW u \in Users, BeginStep(q, u)
        PROVE  LeaversInv' /\ room' = room
    BY <1>2, <2>0, <2>1, BeginHolds, LeaversKept
  <2>2. ASSUME NEW q \in Slots, NextStep(q)
        PROVE  LeaversInv' /\ (room'.v # room.v => leavers \cap room'.participants = {})
    BY <1>2, <2>2, LeaversNext
  <2>3. CASE \E u \in Users : ToggleAllowUnknown(u)
    BY <1>2, <2>3 DEF ToggleAllowUnknown, LeaversInv
  <2>4. CASE GroupCrash
    BY <1>2, <2>0, <2>4, IdleHolds DEF GroupCrash, LeaversInv
  <2>5. CASE UNCHANGED groupVars
    BY <1>2, <2>5 DEF groupVars, LeaversInv
  <2> QED
    BY <1>2, <2>1, <2>2, <2>3, <2>4, <2>5 DEF GroupNext
<1>3. TypeInv /\ LeaversInv /\ [GroupNext]_groupVars
        => [room'.v # room.v => leavers \cap room'.participants = {}]_groupVars
  BY <1>2
<1> QED
  BY <1>1, <1>2, <1>3, TypeInvInductive, PTL DEF GroupSpec, LeavesKeepLeavers

-----------------------------------------------------------------------------
(* Current reads.                                                            *)

Reading == {"accept", "reject", "leaveUnarchive", "save", "users",
            "removeUnarchive", "remove"}

(* What the request of slot q found in the room it read.                     *)
Justified(q) ==
  LET r == req[q] IN
  /\ r.at \in {"accept", "reject"} => r.user \in r.read.waitingUsers
  /\ r.at \in {"leaveUnarchive", "save"} => r.user \in r.read.participants
  /\ r.at = "users" =>
       /\ r.user \in r.read.participants /\ r.fit \subseteq r.named /\ r.unread \subseteq r.named
       /\ r.named \cap (r.read.waitingUsers \union r.read.rejectedUsers) = {}
  /\ r.at \in {"removeUnarchive", "remove"} =>
       r.read.admin \in r.read.participants /\ \E target \in Users : r.named = {target}

AllJustified == \A q \in Slots : Justified(q)

LEMMA OverFresh ==
  ASSUME TypeInv, NEW q \in Slots, Ends(q) \/ EndsAnnounced(q)
  PROVE  req'[q].at \notin Reading
<1>1. CASE Ends(q)
  BY <1>1, IdleType DEF Ends, Reading, TypeInv, GroupTypeOK
<1>2. CASE EndsAnnounced(q)
  <2> DEFINE new == [Idle EXCEPT !.at = "announce", !.user = req[q].user]
  <2>1. new.at = "announce"
    BY DEF Idle, NoRoom
  <2>2. req' = [req EXCEPT ![q] = new]
    BY <1>2 DEF EndsAnnounced
  <2> HIDE DEF new
  <2> QED
    BY <2>1, <2>2 DEF Reading, TypeInv, GroupTypeOK
<1> QED
  BY <1>1, <1>2

LEMMA JustifiedElsewhere ==
  ASSUME AllJustified, NEW q \in Slots, \A p \in Slots \ {q} : req'[p] = req[p],
         Justified(q)'
  PROVE  AllJustified'
  BY DEF AllJustified, Justified

(* The start of a request: what it reads is the room, and a request that the *)
(* code refuses does not start.                                              *)
LEMMA BeginJustified ==
  ASSUME TypeInv, NEW q \in Slots, NEW u \in Users, BeginStep(q, u)
  PROVE  Justified(q)' /\ req'[q].read = room /\ room' = room
<1>1. ASSUME NEW at, NEW named, Begins(q, at, u, named)
      PROVE  /\ req'[q].at = at /\ req'[q].user = u /\ req'[q].named = named
             /\ req'[q].unread = named /\ req'[q].fit = {} /\ req'[q].read = room /\ room' = room
  BY <1>1 DEF Begins, TypeInv, GroupTypeOK
<1>2. CASE AcceptReads(q, u)
  BY <1>1, <1>2 DEF AcceptReads, Justified
<1>3. CASE RejectReads(q, u)
  BY <1>1, <1>3 DEF RejectReads, Justified
<1>4. CASE LeaveReads(q, u)
  BY <1>1, <1>4 DEF LeaveReads, Justified
<1>5. CASE Send(q, u)
  BY <1>1, <1>5 DEF Send, Justified
<1>6. CASE \E named \in Additions : AddReads(q, u, named)
  BY <1>1, <1>6 DEF AddReads, Justified
<1>7. CASE \E target \in Users : RemoveReads(q, u, target)
  BY <1>1, <1>7 DEF RemoveReads, Justified
<1> QED
  BY <1>2, <1>3, <1>4, <1>5, <1>6, <1>7 DEF BeginStep

(* A request that goes on keeps its reason; one that is over needs none.     *)
LEMMA NextJustified ==
  ASSUME TypeInv, NEW q \in Slots, Justified(q), NextStep(q)
  PROVE  Justified(q)'
<1>a. ASSUME req'[q].at \notin Reading PROVE Justified(q)'
  BY <1>a DEF Justified, Reading
<1>1. CASE Ends(q) \/ EndsAnnounced(q)
  BY <1>a, <1>1, OverFresh
<1>2. CASE Goes(q, "save") /\ req[q].at = "leaveUnarchive"
  BY <1>2, GoesHolds DEF Justified
<1>3. CASE Goes(q, "remove") /\ req[q].at = "removeUnarchive"
  BY <1>3, GoesHolds DEF Justified
<1>4. CASE Goes(q, "acceptFirst")
  BY <1>a, <1>4, GoesHolds DEF Reading
<1>5. CASE \E u \in Users : AddReadsUser(q, u)
  <2>1. PICK u \in Users : AddReadsUser(q, u)
    BY <1>5
  <2>2. /\ req[q].at = "users" /\ req'[q].at = "users" /\ req'[q].read = req[q].read
        /\ req'[q].user = req[q].user /\ req'[q].named = req[q].named
        /\ u \in req[q].unread /\ req'[q].unread = req[q].unread \ {u}
        /\ req'[q].fit \subseteq req[q].fit \union {u}
    BY <2>1, ReadsHolds
  <2>3. /\ req[q].user \in req[q].read.participants
        /\ req[q].fit \subseteq req[q].named /\ req[q].unread \subseteq req[q].named
        /\ req[q].named \cap (req[q].read.waitingUsers \union req[q].read.rejectedUsers) = {}
    BY <2>2 DEF Justified
  <2>4. req'[q].fit \subseteq req'[q].named /\ req'[q].unread \subseteq req'[q].named
    BY <2>2, <2>3
  <2> QED
    BY <2>2, <2>3, <2>4 DEF Justified
<1>6. CASE AcceptsFirst(q) /\ req[q].user \in room.waitingUsers
  <2>1. /\ req'[q].at = "accept" /\ req'[q].read = room /\ req'[q].user = req[q].user
        /\ room' = room
    BY <1>6, ReadLists DEF AcceptsFirst, TypeInv, GroupTypeOK, Request
  <2> QED
    BY <1>6, <2>1 DEF Justified
<1> QED
  BY <1>1, <1>2, <1>3, <1>4, <1>5, <1>6
  DEF NextStep, AcceptWrites, RejectWrites, LeaveUnarchives, LeaveSaves, SavesLeave,
      AddWrites, RemoveUnarchives, RemoveWrites, Announces, AcceptsFirst

(* A step of slot q moves its request and no other.                          *)
LEMMA NextElsewhere ==
  ASSUME TypeInv, NEW q \in Slots, NextStep(q)
  PROVE  \A p \in Slots \ {q} : req'[p] = req[p]
  BY ReadsHolds DEF NextStep, AcceptWrites, RejectWrites, LeaveUnarchives, LeaveSaves, SavesLeave,
         AddWrites, RemoveUnarchives, RemoveWrites, Announces, AcceptsFirst,
         Ends, EndsAnnounced, Goes, TypeInv, GroupTypeOK

LEMMA NextMoves ==
  ASSUME TypeInv, NEW q \in Slots, NextStep(q), req[q].at \in Reading
  PROVE  req'[q] # req[q]
<1>1. CASE Ends(q) \/ EndsAnnounced(q)
  BY <1>1, OverFresh
<1>2. CASE Goes(q, "save") /\ req[q].at = "leaveUnarchive"
  BY <1>2, GoesHolds
<1>3. CASE Goes(q, "remove") /\ req[q].at = "removeUnarchive"
  BY <1>3, GoesHolds
<1>4. CASE \E u \in Users : AddReadsUser(q, u)
  BY <1>4, ReadsHolds
<1> QED
  BY <1>1, <1>2, <1>3, <1>4
  DEF NextStep, AcceptWrites, RejectWrites, LeaveUnarchives, LeaveSaves, SavesLeave,
      AddWrites, RemoveUnarchives, RemoveWrites, Announces, AcceptsFirst, Reading

(* A step of a request whose read is current is a step of the promise.       *)
LEMMA CurrentKeepsPromise ==
  ASSUME TypeInv, NEW q \in Slots, Justified(q), NextStep(q),
         req[q].at \in Reading => req[q].read = room
  PROVE  UNCHANGED Promise!membershipVars \/ Promise!GNext
<1> USE DEF Promise!GNext, Promise!membershipVars
<1>0. /\ room \in Room
      /\ req[q].at # "idle" => req[q].user \in Users
  BY DEF TypeInv, GroupTypeOK, UsersKnown
<1>1. CASE AcceptWrites(q)
  <2>1. /\ room'.participants = room.participants \union {req[q].user}
        /\ room'.waitingUsers = room.waitingUsers \ {req[q].user}
        /\ room'.rejectedUsers = room.rejectedUsers /\ room'.admin = room.admin
    BY <1>0, <1>1 DEF AcceptWrites, Reading, Room
  <2>2. req[q].user \in Users /\ req[q].user \in room.waitingUsers
    BY <1>0, <1>1 DEF AcceptWrites, Justified, Reading
  <2> QED
    BY <2>1, <2>2 DEF Promise!Enter
<1>2. CASE RejectWrites(q)
  <2>1. /\ room'.rejectedUsers = room.rejectedUsers \union {req[q].user}
        /\ room'.waitingUsers = room.waitingUsers \ {req[q].user}
        /\ room'.participants = room.participants /\ room'.admin = room.admin
    BY <1>0, <1>2 DEF RejectWrites, Reading, Room
  <2>2. req[q].user \in Users /\ req[q].user \in room.waitingUsers
    BY <1>0, <1>2 DEF RejectWrites, Justified, Reading
  <2> QED
    BY <2>1, <2>2 DEF Promise!Decline
<1>3. CASE \/ LeaveUnarchives(q) \/ RemoveUnarchives(q) \/ Announces(q)
           \/ AcceptsFirst(q) \/ (\E u \in Users : AddReadsUser(q, u))
  BY <1>3, ReadsHolds DEF LeaveUnarchives, RemoveUnarchives, Announces, AcceptsFirst
<1>4. CASE LeaveSaves(q)
  <2>1. req[q].read = room /\ req[q].user \in room.participants /\ req[q].user \in Users
    BY <1>0, <1>4 DEF LeaveSaves, Justified, Reading
  <2> PICK rest : rest = room.participants \ {req[q].user}
    OBVIOUS
  <2>2. PICK a \in AdminAfter(room, req[q].user, rest) :
          room' = [room EXCEPT !.participants = rest, !.admin = a, !.v = @ + 1]
    BY <1>4, <2>1 DEF LeaveSaves, SavesLeave
  <2>3. /\ room'.participants = rest /\ room'.admin = a
        /\ room'.waitingUsers = room.waitingUsers /\ room'.rejectedUsers = room.rejectedUsers
    BY <1>0, <2>2 DEF Room
  <2> QED
    BY <2>1, <2>2, <2>3 DEF Promise!Leave, AdminAfter
<1>5. CASE AddWrites(q)
  <2> PICK asked : asked = req[q].named \ req[q].fit
    OBVIOUS
  <2>1. /\ room'.participants = room.participants \union req[q].fit
        /\ room'.waitingUsers = room.waitingUsers \union asked
        /\ room'.rejectedUsers = room.rejectedUsers /\ room'.admin = room.admin
    BY <1>0, <1>5 DEF AddWrites, Reading, Room
  <2>2. Promise!Invite(req[q].user, req[q].fit, asked)
    BY <1>5, <2>1 DEF AddWrites, Justified, Reading, Promise!Invite
  <2>3. req[q].user \in Users /\ req[q].fit \in SUBSET Users /\ asked \in SUBSET Users
    BY <1>0, <1>5, ReadLists DEF AddWrites
  <2> QED
    BY <2>2, <2>3
<1>6. CASE RemoveWrites(q)
  <2> PICK target \in Users : req[q].named = {target}
    BY <1>6 DEF RemoveWrites, Justified
  <2>1. /\ room'.participants = room.participants \ {target}
        /\ room'.waitingUsers = room.waitingUsers \ {target}
        /\ room'.rejectedUsers = room.rejectedUsers \ {target} /\ room'.admin = room.admin
    BY <1>0, <1>6 DEF RemoveWrites, Reading, Room
  <2>2. Promise!Expel(target)
    BY <1>6, <2>1 DEF RemoveWrites, Justified, Reading, Promise!Expel
  <2> QED
    BY <2>2
<1> QED
  BY <1>1, <1>2, <1>3, <1>4, <1>5, <1>6 DEF NextStep

(* A request alone still holds the room it read, until it writes.            *)
LEMMA NextCurrent ==
  ASSUME TypeInv, NEW q \in Slots, NextStep(q),
         req[q].at \in Reading => req[q].read = room
  PROVE  req'[q].at \in Reading => req'[q].read = room'
<1>1. CASE Ends(q) \/ EndsAnnounced(q)
  BY <1>1, OverFresh
<1>2. CASE Goes(q, "save") /\ req[q].at = "leaveUnarchive" /\ room' = room
  BY <1>2, GoesHolds DEF Reading
<1>3. CASE Goes(q, "remove") /\ req[q].at = "removeUnarchive" /\ room' = room
  BY <1>3, GoesHolds DEF Reading
<1>4. CASE Goes(q, "acceptFirst")
  BY <1>4, GoesHolds DEF Reading
<1>5. CASE \E u \in Users : AddReadsUser(q, u)
  BY <1>5, ReadsHolds DEF Reading
<1>6. CASE AcceptsFirst(q) /\ req[q].user \in room.waitingUsers
  BY <1>6 DEF AcceptsFirst, TypeInv, GroupTypeOK, Request
<1> QED
  BY <1>1, <1>2, <1>3, <1>4, <1>5, <1>6
  DEF NextStep, AcceptWrites, RejectWrites, LeaveUnarchives, LeaveSaves, SavesLeave,
      AddWrites, RemoveUnarchives, RemoveWrites, Announces, AcceptsFirst

LEMMA JustifiedInductive ==
  GroupSpec => []AllJustified
<1>1. ASSUME GroupInit PROVE AllJustified
  BY <1>1 DEF GroupInit, AllJustified, Justified, Idle
<1>2. ASSUME TypeInv, AllJustified, [GroupNext]_groupVars
      PROVE  AllJustified'
  <2>1. ASSUME NEW q \in Slots, NEW u \in Users, BeginStep(q, u)
        PROVE  AllJustified'
    BY <1>2, <2>1, BeginHolds, BeginJustified, JustifiedElsewhere
  <2>2. ASSUME NEW q \in Slots, NextStep(q)
        PROVE  AllJustified'
    BY <1>2, <2>2, NextElsewhere, NextJustified, JustifiedElsewhere DEF AllJustified
  <2>3. CASE \E u \in Users : ToggleAllowUnknown(u)
    BY <1>2, <2>3 DEF ToggleAllowUnknown, AllJustified, Justified
  <2>4. CASE GroupCrash
    BY <2>4 DEF GroupCrash, AllJustified, Justified, Idle
  <2>5. CASE UNCHANGED groupVars
    BY <1>2, <2>5 DEF groupVars, AllJustified, Justified
  <2> QED
    BY <1>2, <2>1, <2>2, <2>3, <2>4, <2>5 DEF GroupNext
<1> QED
  BY <1>1, <1>2, TypeInvInductive, PTL DEF GroupSpec

(* CurrentReadsKeepPromise: whatever else is under way, a request whose read *)
(* is current changes the membership as Membership promises.                 *)
THEOREM CurrentReads == GroupSpec => CurrentReadsKeepPromise
<1>1. ASSUME TypeInv, AllJustified, [GroupNext]_groupVars,
             \A q \in Slots : req'[q] # req[q] => req[q].read = room
      PROVE  UNCHANGED Promise!membershipVars \/ Promise!GNext
  <2>0. ASSUME room' = room PROVE UNCHANGED Promise!membershipVars
    BY <2>0 DEF Promise!membershipVars
  <2>1. ASSUME NEW q \in Slots, NEW u \in Users, BeginStep(q, u)
        PROVE  UNCHANGED Promise!membershipVars
    BY <1>1, <2>0, <2>1, BeginHolds
  <2>2. ASSUME NEW q \in Slots, NextStep(q)
        PROVE  UNCHANGED Promise!membershipVars \/ Promise!GNext
    BY <1>1, <2>2, NextMoves, CurrentKeepsPromise DEF AllJustified
  <2>3. CASE \E u \in Users : ToggleAllowUnknown(u)
    BY <2>0, <2>3 DEF ToggleAllowUnknown
  <2>4. CASE GroupCrash
    BY <2>0, <2>4 DEF GroupCrash
  <2>5. CASE UNCHANGED groupVars
    BY <2>0, <2>5 DEF groupVars
  <2> QED
    BY <1>1, <2>1, <2>2, <2>3, <2>4, <2>5 DEF GroupNext
<1>2. TypeInv /\ AllJustified /\ [GroupNext]_groupVars
        => [(\A q \in Slots : req'[q] # req[q] => req[q].read = room)
              => UNCHANGED Promise!membershipVars \/ Promise!GNext]_groupVars
  BY <1>1
<1> QED
  BY <1>2, TypeInvInductive, JustifiedInductive, PTL DEF GroupSpec, CurrentReadsKeepPromise

(* KeepsPromise: requests one after the other, whatever the crashes and the  *)
(* settings changed meanwhile, keep the promise of Membership, as an         *)
(* implementation of it.                                                     *)
THEOREM SerialKeepsPromise ==
  ASSUME NEW q, Slots = {q}
  PROVE  GroupSpec => KeepsPromise
<1> DEFINE Current == req[q].at \in Reading => req[q].read = room
<1>1. ASSUME GroupInit PROVE Promise!GInit /\ Current
  BY <1>1 DEF GroupInit, Promise!GInit, Idle, Reading
<1>2. ASSUME TypeInv, AllJustified, Current, [GroupNext]_groupVars
      PROVE  Current' /\ [Promise!GNext]_(Promise!membershipVars)
  <2>0. ASSUME room' = room PROVE UNCHANGED Promise!membershipVars
    BY <2>0 DEF Promise!membershipVars
  <2>1. CASE \E u \in Users : BeginStep(q, u)
    BY <1>2, <2>0, <2>1, BeginJustified
  <2>2. CASE NextStep(q)
    <3>1. UNCHANGED Promise!membershipVars \/ Promise!GNext
      BY <1>2, <2>2, CurrentKeepsPromise DEF AllJustified
    <3>2. Current'
      BY <1>2, <2>2, NextCurrent
    <3> QED
      BY <3>1, <3>2
  <2>3. CASE \E u \in Users : ToggleAllowUnknown(u)
    BY <1>2, <2>0, <2>3 DEF ToggleAllowUnknown
  <2>4. CASE GroupCrash
    <3>1. room' = room /\ req'[q].at = "idle"
      BY <2>4, IdleType DEF GroupCrash, Idle
    <3> QED
      BY <2>0, <3>1 DEF Reading
  <2>5. CASE UNCHANGED groupVars
    BY <1>2, <2>0, <2>5 DEF groupVars
  <2> QED
    BY <1>2, <2>1, <2>2, <2>3, <2>4, <2>5 DEF GroupNext
<1> QED
  BY <1>1, <1>2, TypeInvInductive, JustifiedInductive, PTL
  DEF GroupSpec, KeepsPromise, Promise!GSpec
=============================================================================
