------------------------------ MODULE Meetings ------------------------------
(***************************************************************************)
(* The video meetings of EventsGateway: the in-memory maps `meetings` (by  *)
(* call id) and `socketToRoom`, the handlers of the call events, and the   *)
(* meeting.list / meeting.update / meeting.end messages that show them to  *)
(* the members of a room, composed with the online registry of Presence.   *)
(*                                                                         *)
(* A handler runs alone up to its next await.  Three calls of the gateway  *)
(* await the database and so stop half-way, other handlers running in      *)
(* between: the first join of a call, an invitation, and a push of a room. *)
(* CallService is called without await: the call is a job, run later.      *)
(*                                                                         *)
(* A participants array is the set of its socket ids: it is appended to,   *)
(* filtered by socket id, searched by user and tested for emptiness.       *)
(***************************************************************************)
EXTENDS Presence

CONSTANTS
  Calls,        \* call ids
  Rooms,        \* room ids
  UserOf,       \* [Sockets -> Users], the user a socket's client is signed in as
  RoomOf,       \* [Calls -> Rooms]
  RoomKind,     \* [Rooms -> Kinds], the meeting type the room's flags give
  Members,      \* [Rooms -> SUBSET Users], the participants of the room
  Visitors,     \* the users whose status is anonymous
  Invitations,  \* the sets of users a help desk invitation may name
  MaxJobs,      \* bound on the CallService calls under way
  NoList, NoSocket, NoMeeting   \* undefined whiteList, doodle owner, meeting

Kinds == {"NORMAL", "HELP_DESK", "ANONYMOUS"}

ASSUME MeetingsAssumption ==
  /\ UserOf \in [Sockets -> Users]
  /\ RoomOf \in [Calls -> Rooms]
  /\ RoomKind \in [Rooms -> Kinds]
  /\ Members \in [Rooms -> SUBSET Users]
  /\ Visitors \subseteq Users
  /\ Invitations \subseteq SUBSET Users
  /\ \A W \in SUBSET Users : W # NoList
  /\ NoSocket \notin Sockets
  /\ MaxJobs \in Nat

VARIABLES
  meetings,     \* call id -> meeting record, a partial map
  socketToRoom, \* socket id -> call id, a partial map
  joining,      \* the first joins awaiting the room: pairs <<socket, call>>
  inviting,     \* the invitations awaiting the room: pairs <<call, users>>
  pushing,      \* the rooms some pushMeetingList is awaiting
  jobs,         \* the CallService calls issued and not finished
  gone,         \* the rooms deleted from the database
  screen,       \* [Sockets -> [Rooms -> ...]]: the meeting each client shows
  late,         \* history: the sockets seated by a join resumed after they closed
  hopped        \* history: the sockets that joined a call while in the meeting of another

callVars == <<meetings, socketToRoom, joining, inviting, pushing, jobs, gone, screen, late, hopped>>
meetingsVars == <<presenceVars, callVars>>

Summary == [joined : SUBSET Users, white : {NoList} \union SUBSET Users]
Meeting == [seats : SUBSET Sockets, kind : Kinds, members : SUBSET Users,
            white : {NoList} \union SUBSET Users, started : BOOLEAN,
            doodle : Sockets \union {NoSocket}]
Job == [op : {"callStart", "endCall"}, call : Calls]

Blank == [s \in Sockets |-> [r \in Rooms |-> NoMeeting]]

MeetingsInit ==
  /\ PresenceInit
  /\ meetings = [c \in {} |-> {}]
  /\ socketToRoom = [s \in {} |-> {}]
  /\ joining = {} /\ inviting = {} /\ pushing = {} /\ jobs = {} /\ gone = {}
  /\ screen = Blank
  /\ late = {} /\ hopped = {}

-----------------------------------------------------------------------------
Active(c) == c \in DOMAIN meetings
UsersIn(m) == {UserOf[s] : s \in m.seats}
Allows(m, u) == m.white # NoList => u \in m.white
MeetingsOf(r) == {c \in DOMAIN meetings : RoomOf[c] = r}
SummaryOf(m) == [joined |-> UsersIn(m), white |-> m.white]

(* The socket is bound to a call that has a meeting. *)
InMeeting(s) == s \in DOMAIN socketToRoom /\ Active(socketToRoom[s])

(* The map f without key x, and with key x bound to v. *)
Without(f, x) == [y \in DOMAIN f \ {x} |-> f[y]]
With(f, x, v) == [y \in DOMAIN f \union {x} |-> IF y = x THEN v ELSE f[y]]

(* Forms with a mistake, as in Presence: BlockedByListOnly,                  *)
(* LeftKeepingDoodle, LeftByUser, DisconnectSeated, PushUpdatesOnly.         *)

(* A call of CallService that is not awaited. *)
Issue(op, c) ==
  /\ jobs' = jobs \union {[op |-> op, call |-> c]}
  /\ Cardinality(jobs') <= MaxJobs

(* The common end of handleJoinCall: the room is pushed and the socket is    *)
(* bound to the call, replacing the call it was bound to.                    *)
Seat(s, c) ==
  /\ pushing' = pushing \union {RoomOf[c]}
  /\ socketToRoom' = With(socketToRoom, s, c)
  /\ hopped' = IF InMeeting(s) /\ socketToRoom[s] # c THEN hopped \union {s} ELSE hopped
  /\ UNCHANGED <<presenceVars, inviting, gone, screen>>

BlockedByListOnly(s, m) == ~Allows(m, UserOf[s])

(* A user who is in the help desk meeting already, or is not in the list. *)
Blocked(s, m) ==
  \/ m.kind = "HELP_DESK" /\ UserOf[s] \in UsersIn(m)
  \/ ~Allows(m, UserOf[s])

(* handleJoinCall when the call has a meeting: unless blocked the socket is  *)
(* seated, the white list of a help desk dropped, the call started once.     *)
JoinMeeting(s, c) ==
  LET m == meetings[c] IN
  /\ Open(s) /\ Active(c) /\ ~Blocked(s, m)
  /\ meetings' = [meetings EXCEPT
       ![c] = [m EXCEPT !.seats = @ \union {s},
                        !.white = IF m.kind = "HELP_DESK" THEN NoList ELSE @,
                        !.started = TRUE]]
  /\ IF m.started THEN UNCHANGED jobs ELSE Issue("callStart", c)
  /\ Seat(s, c)
  /\ UNCHANGED <<joining, late>>

(* handleJoinCall when the call has no meeting: the room is read first. *)
BeginFirstJoin(s, c) ==
  /\ Open(s) /\ ~Active(c)
  /\ joining' = joining \union {<<s, c>>}
  /\ UNCHANGED <<presenceVars, meetings, socketToRoom, inviting, pushing, jobs,
                 gone, screen, late, hopped>>

(* The rest of handleJoinCall after the room was read: it does not look      *)
(* again whether a meeting exists, nor whether the socket is still open.     *)
ResumeFirstJoin(s, c) ==
  LET r == RoomOf[c] IN
  /\ <<s, c>> \in joining
  /\ joining' = joining \ {<<s, c>>}
  /\ meetings' = With(meetings, c,
       [seats |-> {s},
        kind |-> IF r \in gone THEN "NORMAL" ELSE RoomKind[r],
        members |-> IF r \in gone THEN {} ELSE Members[r],
        white |-> NoList, started |-> FALSE, doodle |-> NoSocket])
  /\ late' = IF Open(s) THEN late ELSE late \union {s}
  /\ Seat(s, c)
  /\ UNCHANGED jobs

MeetingOf(s) == meetings[socketToRoom[s]]

VisitorLeaves(s) ==
  LET m == MeetingOf(s) IN
  m.kind = "HELP_DESK" /\ s \in m.seats /\ UserOf[s] \in Visitors

LeftKeepingDoodle(s) == [MeetingOf(s) EXCEPT !.seats = @ \ {s}]

LeftByUser(s) ==
  [MeetingOf(s) EXCEPT !.seats = {t \in @ : UserOf[t] # UserOf[s]},
                       !.doodle = IF @ = s THEN NoSocket ELSE @]

(* The meeting without the seat of s and the doodle s had started. *)
LeftBy(s) ==
  [MeetingOf(s) EXCEPT !.seats = @ \ {s},
                       !.doodle = IF @ = s THEN NoSocket ELSE @]

(* s leaves its meeting, which ends (endMeeting) or becomes m. *)
LeaveInto(s, ends, m) ==
  LET c == socketToRoom[s] IN
  /\ socketToRoom' = Without(socketToRoom, s)
  /\ pushing' = pushing \union {RoomOf[c]}
  /\ IF ends THEN meetings' = Without(meetings, c) /\ Issue("endCall", c)
     ELSE meetings' = [meetings EXCEPT ![c] = m] /\ UNCHANGED jobs

(* leaveCall: nothing without a meeting, and then the socket stays bound.    *)
(* The meeting ends when the visitor of a help desk leaves or nobody is left.*)
LeaveCall(s) ==
  IF InMeeting(s)
  THEN LeaveInto(s, VisitorLeaves(s) \/ LeftBy(s).seats = {}, LeftBy(s))
  ELSE UNCHANGED <<meetings, socketToRoom, pushing, jobs>>

HandleLeaveCall(s) ==
  /\ Open(s)
  /\ LeaveCall(s)
  /\ UNCHANGED <<presenceVars, joining, inviting, gone, screen, late, hopped>>

DisconnectSeated(s) ==
  /\ HandleDisconnect(s)
  /\ screen' = [screen EXCEPT ![s] = Blank[s]]
  /\ UNCHANGED <<meetings, socketToRoom, joining, inviting, pushing, jobs, gone, late, hopped>>

(* handleDisconnect: leaveCall, then the registry without the socket. *)
MeetingsDisconnect(s) ==
  /\ HandleDisconnect(s)
  /\ LeaveCall(s)
  /\ screen' = [screen EXCEPT ![s] = Blank[s]]
  /\ UNCHANGED <<joining, inviting, gone, late, hopped>>

-----------------------------------------------------------------------------
(* The end of sendNotifyJoinCall for type help_desk: only the invited users  *)
(* may join from now on; it throws when the meeting is gone.                 *)
SetWhiteList(c, invited) ==
  /\ \/ /\ Active(c)
        /\ meetings' = [meetings EXCEPT ![c].white = invited]
        /\ pushing' = pushing \union {RoomOf[c]}
     \/ /\ ~Active(c)
        /\ UNCHANGED <<meetings, pushing>>
  /\ UNCHANGED <<presenceVars, socketToRoom, joining, jobs, gone, screen, late, hopped>>

(* sendNotifyJoinCall: the room is read only if an invited user is online. *)
SendInvitation(c, invited) ==
  \/ /\ \E u \in invited : SocketsOf(u) # {}
     /\ inviting' = inviting \union {<<c, invited>>}
     /\ UNCHANGED <<presenceVars, meetings, socketToRoom, joining, pushing, jobs,
                    gone, screen, late, hopped>>
  \/ /\ \A u \in invited : SocketsOf(u) = {}
     /\ SetWhiteList(c, invited)
     /\ UNCHANGED inviting

ResumeInvitation(c, invited) ==
  /\ <<c, invited>> \in inviting
  /\ inviting' = inviting \ {<<c, invited>>}
  /\ SetWhiteList(c, invited)

(* handleStartDoodle and handleEndDoodle, on the call the socket is bound to *)
(* whether or not it has a seat there; without a meeting they throw.         *)
SetDoodle(s, owner) ==
  /\ Open(s) /\ InMeeting(s)
  /\ meetings' = [meetings EXCEPT ![socketToRoom[s]].doodle = owner]
  /\ UNCHANGED <<presenceVars, socketToRoom, joining, inviting, pushing, jobs, gone,
                 screen, late, hopped>>

StartDoodle(s) == SetDoodle(s, s)
EndDoodle(s) == SetDoodle(s, NoSocket)

-----------------------------------------------------------------------------
(* What pushMeetingList tells of room r: one of its meetings (the last of    *)
(* them in the order of the object's keys), or that there is none.           *)
Told(r) == IF MeetingsOf(r) = {} THEN {NoMeeting}
           ELSE {SummaryOf(meetings[c]) : c \in MeetingsOf(r)}

(* The online sockets of the room's participants; without any, to([]) of     *)
(* socket.io addresses every socket.  A socket not registered yet is left    *)
(* out: the list it gets when it registers replaces what it shows.           *)
Addressed(r) ==
  LET theirs == UNION {SocketsOf(u) : u \in Members[r]} IN
  IF theirs = {} THEN UNION {SocketsOf(u) : u \in Users} ELSE theirs

(* Every socket addressed shows what it is told. *)
Show(r, told) ==
  screen' = [s \in Sockets |->
    IF s \in Addressed(r) THEN [screen[s] EXCEPT ![r] = told] ELSE screen[s]]

PushUpdatesOnly(r) ==
  /\ r \in pushing
  /\ pushing' = pushing \ {r}
  /\ IF r \in gone \/ MeetingsOf(r) = {} THEN UNCHANGED screen
     ELSE \E told \in Told(r) : Show(r, told)
  /\ UNCHANGED <<presenceVars, meetings, socketToRoom, joining, inviting, jobs, gone, late, hopped>>

(* pushMeetingList of a room after it read the room: nothing if the room is  *)
(* gone, else meeting.update or meeting.end, computed from the meetings of   *)
(* now.                                                                      *)
PushRoom(r) ==
  /\ r \in pushing
  /\ pushing' = pushing \ {r}
  /\ IF r \in gone THEN UNCHANGED screen ELSE \E told \in Told(r) : Show(r, told)
  /\ UNCHANGED <<presenceVars, meetings, socketToRoom, joining, inviting, jobs, gone, late, hopped>>

(* joinAdminRoom with its pushMeetingList of the user, which awaits nothing: *)
(* every socket of the user gets the list of the meetings whose participant  *)
(* ids, copied from the room when the meeting began, include the user.       *)
Register(s) ==
  LET u == UserOf[s]
      Mine(r) == {c \in MeetingsOf(r) : u \in meetings[c].members}
      list == {l \in [Rooms -> (UNION {Told(r) : r \in Rooms}) \union {NoMeeting}] :
                 \A r \in Rooms : IF Mine(r) = {} THEN l[r] = NoMeeting
                                  ELSE \E c \in Mine(r) : l[r] = SummaryOf(meetings[c])}
  IN
  /\ JoinAdminRoom(s, u)
  /\ \E l \in list :
       screen' = [t \in Sockets |-> IF t \in clients'[u] THEN l ELSE screen[t]]
  /\ UNCHANGED <<meetings, socketToRoom, joining, inviting, pushing, jobs, gone, late, hopped>>

(* A CallService call finishes.  endCall of an anonymous call has deleted    *)
(* the room by then; CallService is modelled in Calls.                       *)
FinishJob(j) ==
  /\ j \in jobs
  /\ jobs' = jobs \ {j}
  /\ gone' = IF j.op = "endCall" /\ RoomKind[RoomOf[j.call]] = "ANONYMOUS"
             THEN gone \union {RoomOf[j.call]} ELSE gone
  /\ UNCHANGED <<presenceVars, meetings, socketToRoom, joining, inviting, pushing, screen, late, hopped>>

(* The process ends and starts again: all of it is memory but the database;  *)
(* a job under way is finished by the database or lost.                      *)
MeetingsRestart ==
  /\ Restart
  /\ meetings' = [c \in {} |-> {}]
  /\ socketToRoom' = [s \in {} |-> {}]
  /\ joining' = {} /\ inviting' = {} /\ pushing' = {}
  /\ jobs' \in SUBSET jobs
  /\ screen' = Blank
  /\ UNCHANGED <<gone, late, hopped>>

MeetingsConnect(s) == Connect(s) /\ UNCHANGED callVars

MeetingsNext ==
  \/ \E s \in Sockets :
       \/ MeetingsConnect(s) \/ Register(s) \/ MeetingsDisconnect(s)
       \/ HandleLeaveCall(s) \/ StartDoodle(s) \/ EndDoodle(s)
  \/ \E s \in Sockets, c \in Calls :
       JoinMeeting(s, c) \/ BeginFirstJoin(s, c) \/ ResumeFirstJoin(s, c)
  \/ \E c \in Calls, invited \in Invitations :
       SendInvitation(c, invited) \/ ResumeInvitation(c, invited)
  \/ \E r \in Rooms : PushRoom(r)
  \/ \E j \in jobs : FinishJob(j)
  \/ MeetingsRestart

MeetingsSpec == MeetingsInit /\ [][MeetingsNext]_meetingsVars

(* The database answers the reads a push waits for. *)
MeetingsFairness == \A r \in Rooms : WF_meetingsVars(PushRoom(r))

FairMeetings == MeetingsSpec /\ MeetingsFairness

-----------------------------------------------------------------------------
(* Types of the composed state. *)
MeetingsTypeOK ==
  /\ PresenceTypeOK
  /\ DOMAIN meetings \subseteq Calls
  /\ meetings \in [DOMAIN meetings -> Meeting]
  /\ DOMAIN socketToRoom \subseteq Sockets
  /\ socketToRoom \in [DOMAIN socketToRoom -> Calls]
  /\ joining \subseteq Sockets \X Calls
  /\ inviting \subseteq Calls \X Invitations
  /\ pushing \subseteq Rooms
  /\ jobs \subseteq Job
  /\ gone \subseteq Rooms
  /\ screen \in [Sockets -> [Rooms -> {NoMeeting} \union Summary]]
  /\ late \subseteq Sockets
  /\ hopped \subseteq Sockets

(* No meeting is left without participants: leaveCall deletes the meeting    *)
(* with its last seat and handleJoinCall never writes an empty one.          *)
MeetingsNonEmpty == \A c \in DOMAIN meetings : meetings[c].seats # {}

(* A user has one seat at most in a help desk meeting, over any number of    *)
(* tabs, first joins that overlap, and rejoins (isUserJoined, handleJoinCall).*)
HelpDeskOneSeatPerUser ==
  \A c \in DOMAIN meetings : meetings[c].kind = "HELP_DESK" =>
    \A s, t \in meetings[c].seats : UserOf[s] = UserOf[t] => s = t

(* A seat belongs to a socket bound to that call, so that leaving or         *)
(* disconnecting gives it up; the exceptions are the sockets that joined     *)
(* another call meanwhile and those whose first join resumed once closed.    *)
SeatsAreBound ==
  \A c \in DOMAIN meetings : \A s \in meetings[c].seats \ hopped :
    IF Open(s) THEN s \in DOMAIN socketToRoom /\ socketToRoom[s] = c
    ELSE s \in late

(* The owner of a doodle is bound to the call it draws in, so leaving clears *)
(* it ("Stop doodle if this user start doodle", leaveCall), unless it joined *)
(* another call since.                                                       *)
DoodleOwnerBound ==
  \A c \in DOMAIN meetings :
    LET s == meetings[c].doodle IN
    s # NoSocket /\ s \notin hopped =>
      Open(s) /\ s \in DOMAIN socketToRoom /\ socketToRoom[s] = c

(* A registered socket of a member shows the meeting of the room as it is,   *)
(* whenever no push of the room is under way: every change of what is shown  *)
(* is followed by a push, and pushMeetingList reads the meetings after its   *)
(* await and not before.                                                     *)
ScreensCurrent ==
  \A s \in Sockets, r \in Rooms :
    /\ s \in SocketsOf(UserOf[s]) /\ UserOf[s] \in Members[r]
    /\ r \notin pushing \union gone
    => screen[s][r] \in Told(r)

(* A participant of a meeting that goes on loses its seat only by its own    *)
(* socket's leaving, or by a first join of the same call resumed after it.   *)
EvictedOnlyByFirstJoin ==
  [][\A c \in DOMAIN meetings \cap DOMAIN meetings' :
       \A s \in meetings[c].seats \ meetings'[c].seats :
         \/ /\ s \in DOMAIN socketToRoom /\ socketToRoom[s] = c
            /\ s \notin DOMAIN socketToRoom'
         \/ \E t \in Sockets : <<t, c>> \in joining \ joining']_meetingsVars

(* A meeting that is over disappears from the screens of the room's members, *)
(* unless a new one begins, the room is deleted or the socket goes.          *)
EndIsSeen ==
  \A s \in Sockets, r \in Rooms :
    LET watches == s \in SocketsOf(UserOf[s]) /\ UserOf[s] \in Members[r] /\ r \notin gone
    IN  watches /\ MeetingsOf(r) = {} ~>
          ~watches \/ screen[s][r] = NoMeeting \/ MeetingsOf(r) # {}

(* The comment of sendNotifyJoinCall, "Add whiteList to prevent another user *)
(* join to call": while a meeting has a white list, nobody outside it is     *)
(* given a seat.                                                             *)
WhiteListPrevents ==
  [][\A c \in DOMAIN meetings \cap DOMAIN meetings' :
       \A s \in meetings'[c].seats \ meetings[c].seats :
         Allows(meetings[c], UserOf[s])]_meetingsVars
=============================================================================
