-------------------------- MODULE Meetings_proofs --------------------------
(***************************************************************************)
(* Proofs about the meetings of the gateway, for every set of sockets,     *)
(* users, calls and rooms: the types, the seats, the bindings of seats and *)
(* doodles to sockets, who may take a seat away, and what the screens of a *)
(* room show once no push of it is under way.                              *)
(***************************************************************************)
EXTENDS Meetings, Presence_proofs

(* Whatever the meetings do, the registry makes a step of its own, so what   *)
(* is proved of Presence holds in the composition.                           *)
LEMMA MeetingsStepsPresence ==
  ASSUME [MeetingsNext]_meetingsVars PROVE [PresenceNext]_presenceVars
<1> USE MeetingsAssumption
<1>1. CASE UNCHANGED meetingsVars
  BY <1>1 DEF meetingsVars
<1>2. ASSUME NEW s \in Sockets, MeetingsConnect(s) PROVE PresenceNext
  BY <1>2 DEF MeetingsConnect, PresenceNext
<1>3. ASSUME NEW s \in Sockets, Register(s) PROVE PresenceNext
  BY <1>3 DEF Register, PresenceNext
<1>4. ASSUME NEW s \in Sockets, MeetingsDisconnect(s) PROVE PresenceNext
  BY <1>4 DEF MeetingsDisconnect, PresenceNext
<1>5. CASE MeetingsRestart
  BY <1>5 DEF MeetingsRestart, PresenceNext
<1>6. ASSUME NEW s \in Sockets,
             HandleLeaveCall(s) \/ StartDoodle(s) \/ EndDoodle(s)
      PROVE  UNCHANGED presenceVars
  BY <1>6 DEF HandleLeaveCall, StartDoodle, EndDoodle, SetDoodle
<1>7. ASSUME NEW s \in Sockets, NEW c \in Calls,
             JoinMeeting(s, c) \/ BeginFirstJoin(s, c) \/ ResumeFirstJoin(s, c)
      PROVE  UNCHANGED presenceVars
  BY <1>7 DEF JoinMeeting, BeginFirstJoin, ResumeFirstJoin, Seat
<1>8. ASSUME NEW c \in Calls, NEW invited \in Invitations,
             SendInvitation(c, invited) \/ ResumeInvitation(c, invited)
      PROVE  UNCHANGED presenceVars
  BY <1>8 DEF SendInvitation, ResumeInvitation, SetWhiteList
<1>9. ASSUME NEW r \in Rooms, PushRoom(r) PROVE UNCHANGED presenceVars
  BY <1>9 DEF PushRoom
<1>10. ASSUME NEW j \in jobs, FinishJob(j) PROVE UNCHANGED presenceVars
  BY <1>10 DEF FinishJob
<1> QED
  BY <1>1, <1>2, <1>3, <1>4, <1>5, <1>6, <1>7, <1>8, <1>9, <1>10 DEF MeetingsNext

(* The composition implements the registry on its own. *)
THEOREM MeetingsImplementPresence == MeetingsSpec => PresenceSpec
<1>1. MeetingsInit => PresenceInit
  BY DEF MeetingsInit
<1>2. [MeetingsNext]_meetingsVars => [PresenceNext]_presenceVars
  BY MeetingsStepsPresence
<1> QED BY <1>1, <1>2, PTL DEF MeetingsSpec, PresenceSpec

-----------------------------------------------------------------------------
(* A map with one more or one less entry, and a changed meeting, keep their  *)
(* types.                                                                    *)
LEMMA MapTypes ==
  ASSUME NEW X, NEW Y, NEW f, DOMAIN f \subseteq X, f \in [DOMAIN f -> Y],
         NEW x \in X, NEW y \in Y
  PROVE  /\ DOMAIN With(f, x, y) = DOMAIN f \union {x}
         /\ With(f, x, y) \in [DOMAIN With(f, x, y) -> Y]
         /\ DOMAIN Without(f, x) = DOMAIN f \ {x}
         /\ Without(f, x) \in [DOMAIN Without(f, x) -> Y]
  BY DEF With, Without

LEMMA MeetingTypes ==
  ASSUME MeetingsTypeOK, NEW c \in DOMAIN meetings
  PROVE  /\ meetings[c] \in Meeting
         /\ c \in Calls
  BY DEF MeetingsTypeOK

LEMMA EntryTypes ==
  ASSUME NEW X, NEW Y, NEW f \in [X -> Y], NEW x \in X, NEW y \in Y
  PROVE  [f EXCEPT ![x] = y] \in [X -> Y]
  OBVIOUS

(* A summary of a meeting is what a screen may show. *)
LEMMA ToldTypes ==
  ASSUME MeetingsTypeOK, NEW r \in Rooms
  PROVE  Told(r) \subseteq {NoMeeting} \union Summary
<1>1. ASSUME NEW c \in DOMAIN meetings
      PROVE  SummaryOf(meetings[c]) \in Summary
  <2>1. /\ meetings[c].seats \in SUBSET Sockets
        /\ meetings[c].white \in {NoList} \union SUBSET Users
    BY MeetingTypes DEF Meeting
  <2>2. UsersIn(meetings[c]) \subseteq Users
    BY <2>1, MeetingsAssumption DEF UsersIn
  <2> QED BY <2>1, <2>2 DEF SummaryOf, Summary
<1> QED BY <1>1 DEF Told, MeetingsOf

-----------------------------------------------------------------------------
(* The variables of the calls have their types; with PresenceTypeOK this is  *)
(* MeetingsTypeOK.                                                           *)
CallTypeOK ==
  /\ DOMAIN meetings \subseteq Calls
  /\ meetings \in [DOMAIN meetings -> Meeting]
  /\ DOMAIN socketToRoom \subseteq Sockets
  /\ socketToRoom \in [DOMAIN socketToRoom -> Calls]
  /\ joining \subseteq Sockets \X Calls
  /\ inviting \subseteq Calls \X Invitations
  /\ pushing \subseteq Rooms
  /\ jobs \subseteq Job
  /\ gone \subseteq Rooms
  /\ screen \in [Sockets -> [Rooms -> {NoMeeting} \union Summary]]
  /\ late \subseteq Sockets
  /\ hopped \subseteq Sockets

LEMMA JoinTypes ==
  ASSUME MeetingsTypeOK, NEW s \in Sockets, NEW c \in Calls,
         JoinMeeting(s, c) \/ BeginFirstJoin(s, c) \/ ResumeFirstJoin(s, c)
  PROVE  CallTypeOK'
<1> USE MeetingsAssumption DEF CallTypeOK, MeetingsTypeOK
<1>1. CASE JoinMeeting(s, c)
  <2>1. /\ c \in DOMAIN meetings
        /\ meetings[c] \in Meeting
    BY <1>1 DEF JoinMeeting, Active
  <2> DEFINE m == meetings[c]
             joined == [m EXCEPT !.seats = @ \union {s},
                                 !.white = IF m.kind = "HELP_DESK" THEN NoList ELSE @,
                                 !.started = TRUE]
  <2>2. joined \in Meeting
    BY <2>1 DEF Meeting
  <2>3. meetings' = [meetings EXCEPT ![c] = joined]
    BY <1>1 DEF JoinMeeting
  <2>4. meetings' \in [DOMAIN meetings -> Meeting]
    <3> HIDE DEF joined
    <3> QED BY <2>1, <2>2, <2>3, EntryTypes
  <2>5. /\ DOMAIN socketToRoom' \subseteq Sockets
        /\ socketToRoom' \in [DOMAIN socketToRoom' -> Calls]
    BY <1>1 DEF JoinMeeting, Seat, With
  <2>6. jobs' \subseteq Job
    BY <1>1 DEF JoinMeeting, Issue, Job
  <2>7. pushing' \subseteq Rooms /\ hopped' \subseteq Sockets
    BY <1>1 DEF JoinMeeting, Seat
  <2> QED
    BY <1>1, <2>4, <2>5, <2>6, <2>7 DEF JoinMeeting, Seat
<1>2. CASE BeginFirstJoin(s, c)
  BY <1>2 DEF BeginFirstJoin
<1>3. CASE ResumeFirstJoin(s, c)
  <2>1. /\ DOMAIN meetings' \subseteq Calls
        /\ meetings' \in [DOMAIN meetings' -> Meeting]
    BY <1>3 DEF ResumeFirstJoin, With, Meeting, Kinds
  <2>2. /\ DOMAIN socketToRoom' \subseteq Sockets
        /\ socketToRoom' \in [DOMAIN socketToRoom' -> Calls]
    BY <1>3 DEF ResumeFirstJoin, Seat, With
  <2>3. /\ pushing' \subseteq Rooms /\ hopped' \subseteq Sockets
        /\ joining' \subseteq Sockets \X Calls /\ late' \subseteq Sockets
    BY <1>3 DEF ResumeFirstJoin, Seat
  <2> QED
    BY <1>3, <2>1, <2>2, <2>3 DEF ResumeFirstJoin, Seat
<1> QED BY <1>1, <1>2, <1>3

(* leaveCall, by the event or by the disconnection. *)
LEMMA LeaveTypes ==
  ASSUME MeetingsTypeOK, NEW s \in Sockets, LeaveCall(s)
  PROVE  /\ DOMAIN meetings' \subseteq Calls
         /\ meetings' \in [DOMAIN meetings' -> Meeting]
         /\ DOMAIN socketToRoom' \subseteq Sockets
         /\ socketToRoom' \in [DOMAIN socketToRoom' -> Calls]
         /\ pushing' \subseteq Rooms
         /\ jobs' \subseteq Job
<1> USE MeetingsAssumption DEF MeetingsTypeOK
<1>1. CASE ~InMeeting(s)
  BY <1>1 DEF LeaveCall
<1>2. CASE InMeeting(s)
  <2> DEFINE c == socketToRoom[s]
  <2>1. c \in DOMAIN meetings /\ c \in Calls /\ meetings[c] \in Meeting
    BY <1>2 DEF InMeeting, Active
  <2>2. LeftBy(s) \in Meeting
    BY <2>1 DEF LeftBy, MeetingOf, Meeting
  <2>3. \/ meetings' = Without(meetings, c)
        \/ meetings' = [meetings EXCEPT ![c] = LeftBy(s)]
    BY <1>2 DEF LeaveCall, LeaveInto
  <2>4. /\ DOMAIN meetings' \subseteq Calls
        /\ meetings' \in [DOMAIN meetings' -> Meeting]
    BY <2>1, <2>2, <2>3 DEF Without
  <2>5. /\ DOMAIN socketToRoom' \subseteq Sockets
        /\ socketToRoom' \in [DOMAIN socketToRoom' -> Calls]
    BY <1>2 DEF LeaveCall, LeaveInto, Without
  <2>6. jobs' \subseteq Job
    BY <1>2, <2>1 DEF LeaveCall, LeaveInto, Issue, Job
  <2>7. pushing' \subseteq Rooms
    BY <1>2, <2>1 DEF LeaveCall, LeaveInto
  <2> QED BY <2>4, <2>5, <2>6, <2>7
<1> QED BY <1>1, <1>2

LEMMA BlankTypes == Blank \in [Sockets -> [Rooms -> {NoMeeting} \union Summary]]
  BY DEF Blank

LEMMA DepartureTypes ==
  ASSUME MeetingsTypeOK, NEW s \in Sockets,
         \/ HandleLeaveCall(s) \/ MeetingsDisconnect(s)
         \/ MeetingsConnect(s) \/ StartDoodle(s) \/ EndDoodle(s)
  PROVE  CallTypeOK'
<1> USE MeetingsAssumption DEF CallTypeOK, MeetingsTypeOK
<1>1. CASE HandleLeaveCall(s)
  BY <1>1, LeaveTypes DEF HandleLeaveCall
<1>2. CASE MeetingsDisconnect(s)
  <2>1. screen' \in [Sockets -> [Rooms -> {NoMeeting} \union Summary]]
    BY <1>2, BlankTypes DEF MeetingsDisconnect
  <2> QED BY <1>2, <2>1, LeaveTypes DEF MeetingsDisconnect
<1>3. CASE MeetingsConnect(s)
  BY <1>3 DEF MeetingsConnect, callVars
<1>4. ASSUME NEW owner \in Sockets \union {NoSocket}, SetDoodle(s, owner)
      PROVE  CallTypeOK'
  <2> DEFINE c == socketToRoom[s]
             drawn == [meetings[c] EXCEPT !.doodle = owner]
  <2>1. c \in DOMAIN meetings
    BY <1>4 DEF SetDoodle, InMeeting, Active
  <2>2. meetings' = [meetings EXCEPT ![c] = drawn]
    BY <1>4 DEF SetDoodle
  <2>3. meetings[c] \in Meeting
    BY <2>1
  <2>4. drawn \in Meeting
    BY <2>3 DEF Meeting
  <2>5. meetings' \in [DOMAIN meetings -> Meeting]
    <3> HIDE DEF drawn
    <3> QED BY <2>1, <2>2, <2>4, EntryTypes
  <2> QED BY <1>4, <2>5 DEF SetDoodle
<1> QED BY <1>1, <1>2, <1>3, <1>4 DEF StartDoodle, EndDoodle

LEMMA InvitationTypes ==
  ASSUME MeetingsTypeOK, NEW c \in Calls, NEW invited \in Invitations,
         SendInvitation(c, invited) \/ ResumeInvitation(c, invited)
  PROVE  CallTypeOK'
<1> USE MeetingsAssumption DEF CallTypeOK, MeetingsTypeOK
<1>1. ASSUME SetWhiteList(c, invited)
      PROVE  /\ DOMAIN meetings' \subseteq Calls
             /\ meetings' \in [DOMAIN meetings' -> Meeting]
             /\ pushing' \subseteq Rooms
  <2>1. CASE ~Active(c)
    BY <1>1, <2>1 DEF SetWhiteList
  <2>2. CASE Active(c)
    <3>1. meetings[c] \in Meeting /\ invited \in SUBSET Users
      BY <2>2 DEF Active
    <3> DEFINE listed == [meetings[c] EXCEPT !.white = invited]
    <3>2. listed \in Meeting
      BY <3>1 DEF Meeting
    <3>3. meetings' = [meetings EXCEPT ![c] = listed]
      BY <1>1, <2>2 DEF SetWhiteList
    <3>4. meetings' \in [DOMAIN meetings -> Meeting]
      <4> HIDE DEF listed
      <4> QED BY <2>2, <3>2, <3>3, EntryTypes DEF Active
    <3> QED BY <1>1, <2>2, <3>4 DEF SetWhiteList
  <2> QED BY <2>1, <2>2
<1>2. CASE SendInvitation(c, invited)
  <2>1. CASE SetWhiteList(c, invited) /\ UNCHANGED inviting
    BY <1>1, <2>1 DEF SetWhiteList
  <2>2. CASE ~(SetWhiteList(c, invited) /\ UNCHANGED inviting)
    BY <1>2, <2>2 DEF SendInvitation
  <2> QED BY <2>1, <2>2
<1>3. CASE ResumeInvitation(c, invited)
  BY <1>1, <1>3 DEF ResumeInvitation, SetWhiteList
<1> QED BY <1>2, <1>3

LEMMA ShownTypes ==
  ASSUME MeetingsTypeOK,
         \/ \E r \in Rooms : PushRoom(r)
         \/ \E s \in Sockets : Register(s)
  PROVE  CallTypeOK'
<1> USE MeetingsAssumption DEF CallTypeOK, MeetingsTypeOK
<1>1. ASSUME NEW r \in Rooms, PushRoom(r) PROVE CallTypeOK'
  <2>1. ASSUME NEW told \in Told(r), Show(r, told)
        PROVE  screen' \in [Sockets -> [Rooms -> {NoMeeting} \union Summary]]
    <3>1. told \in {NoMeeting} \union Summary
      BY <2>1, ToldTypes
    <3> QED BY <2>1, <3>1 DEF Show
  <2>2. screen' \in [Sockets -> [Rooms -> {NoMeeting} \union Summary]]
    BY <1>1, <2>1 DEF PushRoom
  <2> QED BY <1>1, <2>2 DEF PushRoom
<1>2. ASSUME NEW s \in Sockets, Register(s) PROVE CallTypeOK'
  <2>1. (UNION {Told(r) : r \in Rooms}) \union {NoMeeting} \subseteq {NoMeeting} \union Summary
    BY ToldTypes
  <2>2. PICK l \in [Rooms -> (UNION {Told(r) : r \in Rooms}) \union {NoMeeting}] :
          screen' = [t \in Sockets |-> IF t \in clients'[UserOf[s]] THEN l ELSE screen[t]]
    BY <1>2 DEF Register
  <2>3. l \in [Rooms -> {NoMeeting} \union Summary]
    <3> DEFINE D == (UNION {Told(r) : r \in Rooms}) \union {NoMeeting}
               R == {NoMeeting} \union Summary
    <3>1. l \in [Rooms -> D] /\ D \subseteq R
      BY <2>1
    <3> HIDE DEF D, R
    <3>2. l \in [Rooms -> R]
      BY <3>1
    <3> QED BY <3>2 DEF R
  <2>4. screen' \in [Sockets -> [Rooms -> {NoMeeting} \union Summary]]
    <3> DEFINE T == [Rooms -> {NoMeeting} \union Summary]
    <3>1. l \in T /\ screen \in [Sockets -> T]
      BY <2>3
    <3> HIDE DEF T
    <3>2. screen' \in [Sockets -> T]
      BY <2>2, <3>1
    <3> QED BY <3>2 DEF T
  <2> QED BY <1>2, <2>4 DEF Register
<1> QED BY <1>1, <1>2

LEMMA OtherTypes ==
  ASSUME MeetingsTypeOK, (\E j \in jobs : FinishJob(j)) \/ MeetingsRestart
  PROVE  CallTypeOK'
<1> USE MeetingsAssumption DEF CallTypeOK, MeetingsTypeOK
<1>1. ASSUME NEW j \in jobs, FinishJob(j) PROVE CallTypeOK'
  BY <1>1 DEF FinishJob, Job
<1>2. CASE MeetingsRestart
  BY <1>2, BlankTypes DEF MeetingsRestart
<1> QED BY <1>1, <1>2

LEMMA TypesNext ==
  ASSUME MeetingsTypeOK, [MeetingsNext]_meetingsVars PROVE CallTypeOK'
<1>1. CASE UNCHANGED meetingsVars
  BY <1>1 DEF meetingsVars, callVars, CallTypeOK, MeetingsTypeOK
<1>2. CASE MeetingsNext
  BY <1>2, JoinTypes, DepartureTypes, InvitationTypes, ShownTypes, OtherTypes
     DEF MeetingsNext
<1> QED BY <1>1, <1>2

(* The types of the composition hold: those of the registry by its own       *)
(* invariant, those of the calls handler by handler.                         *)
THEOREM MeetingsTypes == MeetingsSpec => []MeetingsTypeOK
<1>1. MeetingsInit => MeetingsTypeOK
  BY BlankTypes, PresenceInvInit
     DEF MeetingsInit, MeetingsTypeOK, PresenceInv, PresenceInit
<1>2. PresenceTypeOK' /\ MeetingsTypeOK /\ [MeetingsNext]_meetingsVars => MeetingsTypeOK'
  BY TypesNext DEF CallTypeOK, MeetingsTypeOK
<1>3. MeetingsSpec => []PresenceTypeOK
  BY MeetingsImplementPresence, PresenceTypes, PTL
<1> QED BY <1>1, <1>2, <1>3, PTL DEF MeetingsSpec

-----------------------------------------------------------------------------
(* The seats: none is empty, a help desk has one seat per user.             *)
(* A meeting as leaveCall and handleJoinCall should keep it. *)
SoundMeeting(m) ==
  /\ m.seats # {}
  /\ m.kind = "HELP_DESK" =>
       \A s, t \in m.seats : UserOf[s] = UserOf[t] => s = t

SoundMeetings == \A c \in DOMAIN meetings : SoundMeeting(meetings[c])

LEMMA SoundIsBoth == SoundMeetings <=> MeetingsNonEmpty /\ HelpDeskOneSeatPerUser
  BY DEF SoundMeetings, SoundMeeting, MeetingsNonEmpty, HelpDeskOneSeatPerUser

-----------------------------------------------------------------------------
(* What the handlers do to the map of meetings, one lemma per handler.       *)
LEMMA JoinEffect ==
  ASSUME MeetingsTypeOK, NEW s \in Sockets, NEW c \in Calls, JoinMeeting(s, c)
  PROVE  /\ c \in DOMAIN meetings
         /\ DOMAIN meetings' = DOMAIN meetings
         /\ \A d \in DOMAIN meetings \ {c} : meetings'[d] = meetings[d]
         /\ meetings'[c].seats = meetings[c].seats \union {s}
         /\ meetings'[c].kind = meetings[c].kind
         /\ meetings'[c].doodle = meetings[c].doodle
         /\ ~Blocked(s, meetings[c])
<1>1. c \in DOMAIN meetings /\ meetings[c] \in Meeting
  BY MeetingTypes DEF JoinMeeting, Active
<1> DEFINE m == meetings[c]
           joined == [m EXCEPT !.seats = @ \union {s},
                               !.white = IF m.kind = "HELP_DESK" THEN NoList ELSE @,
                               !.started = TRUE]
<1>2. /\ joined.seats = m.seats \union {s}
      /\ joined.kind = m.kind
      /\ joined.doodle = m.doodle
  BY <1>1 DEF Meeting
<1>3. meetings' = [meetings EXCEPT ![c] = joined]
  BY DEF JoinMeeting
<1>4. /\ DOMAIN meetings' = DOMAIN meetings
      /\ \A d \in DOMAIN meetings \ {c} : meetings'[d] = meetings[d]
      /\ meetings'[c] = joined
  <2> HIDE DEF joined
  <2> QED BY <1>1, <1>3 DEF MeetingsTypeOK
<1> QED BY <1>1, <1>2, <1>4 DEF JoinMeeting

LEMMA FirstJoinEffect ==
  ASSUME MeetingsTypeOK, NEW s \in Sockets, NEW c \in Calls, ResumeFirstJoin(s, c)
  PROVE  /\ DOMAIN meetings' = DOMAIN meetings \union {c}
         /\ \A d \in DOMAIN meetings \ {c} : meetings'[d] = meetings[d]
         /\ meetings'[c].seats = {s}
         /\ meetings'[c].doodle = NoSocket
  BY DEF ResumeFirstJoin, With

LEMMA LeaveEffect ==
  ASSUME MeetingsTypeOK, NEW s \in Sockets, LeaveCall(s), InMeeting(s)
  PROVE  LET c == socketToRoom[s] IN
         /\ c \in DOMAIN meetings
         /\ DOMAIN socketToRoom' = DOMAIN socketToRoom \ {s}
         /\ \A t \in DOMAIN socketToRoom' : socketToRoom'[t] = socketToRoom[t]
         /\ DOMAIN meetings' \subseteq DOMAIN meetings
         /\ DOMAIN meetings \subseteq DOMAIN meetings' \union {c}
         /\ \A d \in DOMAIN meetings \ {c} : meetings'[d] = meetings[d]
         /\ c \in DOMAIN meetings' =>
              /\ meetings'[c].seats = meetings[c].seats \ {s}
              /\ meetings'[c].seats # {}
              /\ meetings'[c].kind = meetings[c].kind
              /\ meetings'[c].doodle # s
              /\ meetings'[c].doodle \in {NoSocket, meetings[c].doodle}
<1> DEFINE c == socketToRoom[s]
           ends == VisitorLeaves(s) \/ LeftBy(s).seats = {}
<1>1. c \in DOMAIN meetings /\ meetings[c] \in Meeting
  BY MeetingTypes DEF InMeeting, Active
<1>2. LeaveInto(s, ends, LeftBy(s))
  BY DEF LeaveCall
<1>3. /\ DOMAIN socketToRoom' = DOMAIN socketToRoom \ {s}
      /\ \A t \in DOMAIN socketToRoom' : socketToRoom'[t] = socketToRoom[t]
  BY <1>2 DEF LeaveInto, Without
<1>4. /\ LeftBy(s).seats = meetings[c].seats \ {s}
      /\ LeftBy(s).kind = meetings[c].kind
      /\ LeftBy(s).doodle # s
      /\ LeftBy(s).doodle \in {NoSocket, meetings[c].doodle}
  BY <1>1, MeetingsAssumption DEF LeftBy, MeetingOf, Meeting
<1>5. CASE ends
  <2>1. meetings' = Without(meetings, c)
    BY <1>2, <1>5 DEF LeaveInto
  <2>2. /\ DOMAIN meetings' = DOMAIN meetings \ {c}
        /\ \A d \in DOMAIN meetings \ {c} : meetings'[d] = meetings[d]
    BY <2>1 DEF Without
  <2> QED BY <1>1, <1>3, <2>2
<1>6. CASE ~ends
  <2>1. meetings' = [meetings EXCEPT ![c] = LeftBy(s)]
    BY <1>2, <1>6 DEF LeaveInto
  <2>2. /\ DOMAIN meetings' = DOMAIN meetings
        /\ \A d \in DOMAIN meetings \ {c} : meetings'[d] = meetings[d]
        /\ meetings'[c] = LeftBy(s)
    BY <1>1, <2>1 DEF MeetingsTypeOK
  <2> QED BY <1>1, <1>3, <1>4, <1>6, <2>2
<1> QED BY <1>5, <1>6

LEMMA DoodleEffect ==
  ASSUME MeetingsTypeOK, NEW s \in Sockets, NEW owner, SetDoodle(s, owner)
  PROVE  LET c == socketToRoom[s] IN
         /\ c \in DOMAIN meetings
         /\ DOMAIN meetings' = DOMAIN meetings
         /\ \A d \in DOMAIN meetings \ {c} : meetings'[d] = meetings[d]
         /\ meetings'[c].seats = meetings[c].seats
         /\ meetings'[c].kind = meetings[c].kind
         /\ meetings'[c].doodle = owner
<1> DEFINE c == socketToRoom[s]
           drawn == [meetings[c] EXCEPT !.doodle = owner]
<1>1. c \in DOMAIN meetings /\ meetings[c] \in Meeting
  BY MeetingTypes DEF SetDoodle, InMeeting, Active
<1>2. drawn.seats = meetings[c].seats /\ drawn.kind = meetings[c].kind /\ drawn.doodle = owner
  BY <1>1 DEF Meeting
<1>3. meetings' = [meetings EXCEPT ![c] = drawn]
  BY DEF SetDoodle
<1> HIDE DEF drawn
<1> QED BY <1>1, <1>2, <1>3 DEF MeetingsTypeOK

LEMMA WhiteListEffect ==
  ASSUME MeetingsTypeOK, NEW c \in Calls, NEW invited, SetWhiteList(c, invited)
  PROVE  /\ DOMAIN meetings' = DOMAIN meetings
         /\ \A d \in DOMAIN meetings : /\ meetings'[d].seats = meetings[d].seats
                                       /\ meetings'[d].kind = meetings[d].kind
                                       /\ meetings'[d].doodle = meetings[d].doodle
<1>1. CASE ~Active(c)
  BY <1>1 DEF SetWhiteList
<1>2. CASE Active(c)
  <2> DEFINE listed == [meetings[c] EXCEPT !.white = invited]
  <2>1. c \in DOMAIN meetings /\ meetings[c] \in Meeting
    BY <1>2, MeetingTypes DEF Active
  <2>2. /\ listed.seats = meetings[c].seats
        /\ listed.kind = meetings[c].kind
        /\ listed.doodle = meetings[c].doodle
    BY <2>1 DEF Meeting
  <2>3. meetings' = [meetings EXCEPT ![c] = listed]
    BY <1>2 DEF SetWhiteList
  <2> HIDE DEF listed
  <2> QED BY <2>1, <2>2, <2>3 DEF MeetingsTypeOK
<1> QED BY <1>1, <1>2

(* sendNotifyJoinCall changes the meetings by its white list or not at all.  *)
LEMMA InvitationEffect ==
  ASSUME MeetingsTypeOK, NEW c \in Calls, NEW invited \in Invitations,
         SendInvitation(c, invited) \/ ResumeInvitation(c, invited)
  PROVE  /\ DOMAIN meetings' = DOMAIN meetings
         /\ \A d \in DOMAIN meetings : /\ meetings'[d].seats = meetings[d].seats
                                       /\ meetings'[d].kind = meetings[d].kind
                                       /\ meetings'[d].doodle = meetings[d].doodle
         /\ UNCHANGED <<phase, socketToRoom, joining, late, hopped>>
<1>1. CASE SetWhiteList(c, invited)
  BY <1>1, WhiteListEffect DEF SetWhiteList, presenceVars
<1>2. CASE ~SetWhiteList(c, invited)
  BY <1>2 DEF SendInvitation, ResumeInvitation, presenceVars
<1> QED BY <1>1, <1>2

-----------------------------------------------------------------------------
LEMMA SoundNext ==
  ASSUME MeetingsTypeOK, SoundMeetings, [MeetingsNext]_meetingsVars
  PROVE  SoundMeetings'
<1> USE DEF SoundMeetings, SoundMeeting
<1>1. CASE UNCHANGED meetings
  BY <1>1
<1>2. ASSUME NEW s \in Sockets, NEW c \in Calls, JoinMeeting(s, c) PROVE SoundMeetings'
  <2>1. /\ meetings[c].kind = "HELP_DESK" => UserOf[s] \notin UsersIn(meetings[c])
        /\ \A t \in meetings[c].seats : UserOf[t] \in UsersIn(meetings[c])
    BY <1>2, JoinEffect DEF Blocked, UsersIn
  <2> QED BY <1>2, <2>1, JoinEffect
<1>3. ASSUME NEW s \in Sockets, NEW c \in Calls, ResumeFirstJoin(s, c) PROVE SoundMeetings'
  <2>1. /\ DOMAIN meetings' = DOMAIN meetings \union {c}
        /\ \A d \in DOMAIN meetings \ {c} : meetings'[d] = meetings[d]
        /\ meetings'[c].seats = {s}
    BY <1>3, FirstJoinEffect
  <2> QED BY <2>1
<1>4. ASSUME NEW s \in Sockets, LeaveCall(s) PROVE SoundMeetings'
  <2>1. CASE ~InMeeting(s)
    BY <1>4, <2>1 DEF LeaveCall
  <2>2. CASE InMeeting(s)
    <3> DEFINE c == socketToRoom[s]
    <3>1. /\ DOMAIN meetings' \subseteq DOMAIN meetings
          /\ \A d \in DOMAIN meetings \ {c} : meetings'[d] = meetings[d]
          /\ c \in DOMAIN meetings' =>
               /\ meetings'[c].seats = meetings[c].seats \ {s}
               /\ meetings'[c].seats # {}
               /\ meetings'[c].kind = meetings[c].kind
      BY <1>4, <2>2, LeaveEffect
    <3> QED BY <3>1
  <2> QED BY <2>1, <2>2
<1>5. ASSUME NEW s \in Sockets, NEW owner, SetDoodle(s, owner) PROVE SoundMeetings'
  BY <1>5, DoodleEffect
<1>6. ASSUME NEW c \in Calls, NEW invited \in Invitations,
             SendInvitation(c, invited) \/ ResumeInvitation(c, invited)
      PROVE  SoundMeetings'
  BY <1>6, InvitationEffect
<1>7. CASE MeetingsRestart
  BY <1>7 DEF MeetingsRestart
<1>8. ASSUME NEW s \in Sockets, MeetingsConnect(s) \/ Register(s) PROVE UNCHANGED meetings
  BY <1>8 DEF MeetingsConnect, Register, callVars
<1>9. ASSUME NEW s \in Sockets, NEW c \in Calls, BeginFirstJoin(s, c) PROVE UNCHANGED meetings
  BY <1>9 DEF BeginFirstJoin
<1>10. ASSUME NEW r \in Rooms, PushRoom(r) PROVE UNCHANGED meetings
  BY <1>10 DEF PushRoom
<1>11. ASSUME NEW j \in jobs, FinishJob(j) PROVE UNCHANGED meetings
  BY <1>11 DEF FinishJob
<1>12. CASE UNCHANGED meetingsVars
  BY <1>1, <1>12 DEF meetingsVars, callVars
<1>13. CASE MeetingsNext
  BY <1>1, <1>2, <1>3, <1>4, <1>5, <1>6, <1>7, <1>8, <1>9, <1>10, <1>11, <1>13
     DEF MeetingsNext, HandleLeaveCall, MeetingsDisconnect, StartDoodle, EndDoodle
<1> QED BY <1>12, <1>13

THEOREM SoundMeetingsHold == MeetingsSpec => []SoundMeetings
<1>1. MeetingsInit => SoundMeetings
  BY DEF MeetingsInit, SoundMeetings
<1>2. MeetingsTypeOK /\ SoundMeetings /\ [MeetingsNext]_meetingsVars => SoundMeetings'
  BY SoundNext
<1> QED BY <1>1, <1>2, MeetingsTypes, PTL DEF MeetingsSpec

(* leaveCall deletes a meeting with its last seat. *)
THEOREM NonEmptyHolds == MeetingsSpec => []MeetingsNonEmpty
<1>1. SoundMeetings => MeetingsNonEmpty
  BY SoundIsBoth
<1> QED BY <1>1, SoundMeetingsHold, PTL

(* handleJoinCall seats a user once in a help desk meeting, however many     *)
(* tabs and first joins overlap.                                             *)
THEOREM OneSeatPerUser == MeetingsSpec => []HelpDeskOneSeatPerUser
<1>1. SoundMeetings => HelpDeskOneSeatPerUser
  BY SoundIsBoth
<1> QED BY <1>1, SoundMeetingsHold, PTL

-----------------------------------------------------------------------------
(* The bindings: a seat and a doodle belong to a socket bound to the call. *)
(* A socket that never opened is in no history and no join under way: what a *)
(* connection needs for SeatsAreBound to survive it.                         *)
NewIsFresh ==
  \A s \in Sockets : phase[s] = "new" =>
    s \notin late /\ \A c \in Calls : <<s, c>> \notin joining

BoundTo(s, c) == s \in DOMAIN socketToRoom /\ socketToRoom[s] = c

(* What binding a socket at the end of handleJoinCall does. *)
LEMMA SeatEffect ==
  ASSUME MeetingsTypeOK, NEW s \in Sockets, NEW c \in Calls, Seat(s, c)
  PROVE  /\ phase' = phase
         /\ BoundTo(s, c)'
         /\ \A t \in Sockets \ {s} : \A d : BoundTo(t, d)' <=> BoundTo(t, d)
         /\ hopped \subseteq hopped'
         /\ \A d \in DOMAIN meetings \ {c} : BoundTo(s, d) => s \in hopped'
<1>1. /\ DOMAIN socketToRoom' = DOMAIN socketToRoom \union {s}
      /\ socketToRoom'[s] = c
      /\ \A t \in DOMAIN socketToRoom \ {s} : socketToRoom'[t] = socketToRoom[t]
  BY DEF Seat, With
<1>2. \A d \in DOMAIN meetings \ {c} : BoundTo(s, d) => s \in hopped'
  BY DEF Seat, BoundTo, InMeeting, Active
<1>3. phase' = phase /\ hopped \subseteq hopped'
  BY DEF Seat, presenceVars
<1>4. BoundTo(s, c)'
  BY <1>1 DEF BoundTo
<1>5. \A t \in Sockets \ {s} : \A d : BoundTo(t, d)' <=> BoundTo(t, d)
  BY <1>1 DEF BoundTo
<1> QED BY <1>2, <1>3, <1>4, <1>5

(* SeatsAreBound and DoodleOwnerBound, of one meeting. *)
SeatsBound(c) ==
  \A s \in meetings[c].seats \ hopped : IF Open(s) THEN BoundTo(s, c) ELSE s \in late

DoodleBound(c) ==
  meetings[c].doodle \in Sockets \ hopped =>
    Open(meetings[c].doodle) /\ BoundTo(meetings[c].doodle, c)

LEMMA BoundByMeeting ==
  ASSUME MeetingsTypeOK
  PROVE  /\ SeatsAreBound <=> \A c \in DOMAIN meetings : SeatsBound(c)
         /\ DoodleOwnerBound <=> \A c \in DOMAIN meetings : DoodleBound(c)
<1>1. \A c \in DOMAIN meetings : meetings[c].doodle \in Sockets \union {NoSocket}
  BY MeetingTypes DEF Meeting
<1>2. DoodleOwnerBound <=> \A c \in DOMAIN meetings : DoodleBound(c)
  BY <1>1, MeetingsAssumption DEF DoodleOwnerBound, DoodleBound, BoundTo
<1>3. SeatsAreBound <=> \A c \in DOMAIN meetings : SeatsBound(c)
  BY DEF SeatsAreBound, SeatsBound, BoundTo
<1> QED BY <1>2, <1>3

MeetingsBound == \A c \in DOMAIN meetings : SeatsBound(c) /\ DoodleBound(c)

-----------------------------------------------------------------------------
(* handleJoinCall, when the call has a meeting. *)
LEMMA JoinKeepsBound ==
  ASSUME MeetingsTypeOK, MeetingsBound, NEW s \in Sockets, NEW c \in Calls, JoinMeeting(s, c)
  PROVE  MeetingsBound'
<1>1. /\ DOMAIN meetings' = DOMAIN meetings
      /\ c \in DOMAIN meetings
      /\ \A d \in DOMAIN meetings \ {c} : meetings'[d] = meetings[d]
      /\ meetings'[c].seats = meetings[c].seats \union {s}
      /\ meetings'[c].doodle = meetings[c].doodle
  BY JoinEffect
<1>2. /\ phase' = phase /\ BoundTo(s, c)'
      /\ \A t \in Sockets \ {s} : \A d : BoundTo(t, d)' <=> BoundTo(t, d)
      /\ hopped \subseteq hopped'
      /\ \A d \in DOMAIN meetings \ {c} : BoundTo(s, d) => s \in hopped'
  BY SeatEffect DEF JoinMeeting
<1>3. late' = late /\ Open(s)
  BY DEF JoinMeeting
<1>4. \A d \in DOMAIN meetings : meetings[d].seats \subseteq Sockets
  BY MeetingTypes DEF Meeting
<1>5. SeatsBound(c)' /\ DoodleBound(c)'
  BY <1>1, <1>2, <1>3, <1>4 DEF MeetingsBound, SeatsBound, DoodleBound, Open
<1>6. ASSUME NEW d \in DOMAIN meetings \ {c} PROVE SeatsBound(d)' /\ DoodleBound(d)'
  BY <1>1, <1>2, <1>3, <1>4, <1>6 DEF MeetingsBound, SeatsBound, DoodleBound, Open
<1> QED BY <1>1, <1>5, <1>6 DEF MeetingsBound

(* Its end after the read of the room. *)
LEMMA FirstJoinKeepsBound ==
  ASSUME MeetingsTypeOK, MeetingsBound, NewIsFresh,
         NEW s \in Sockets, NEW c \in Calls, ResumeFirstJoin(s, c)
  PROVE  MeetingsBound'
<1>1. /\ DOMAIN meetings' = DOMAIN meetings \union {c}
      /\ \A d \in DOMAIN meetings \ {c} : meetings'[d] = meetings[d]
      /\ meetings'[c].seats = {s}
      /\ meetings'[c].doodle = NoSocket
  BY FirstJoinEffect
<1>2. /\ phase' = phase /\ BoundTo(s, c)'
      /\ \A t \in Sockets \ {s} : \A d : BoundTo(t, d)' <=> BoundTo(t, d)
      /\ hopped \subseteq hopped'
      /\ \A d \in DOMAIN meetings \ {c} : BoundTo(s, d) => s \in hopped'
  BY SeatEffect DEF ResumeFirstJoin
<1>3. late \subseteq late' /\ (Open(s) \/ s \in late')
  BY DEF ResumeFirstJoin
<1>4. \A d \in DOMAIN meetings : meetings[d].seats \subseteq Sockets
  BY MeetingTypes DEF Meeting
<1>5. SeatsBound(c)' /\ DoodleBound(c)'
  BY <1>1, <1>2, <1>3, MeetingsAssumption DEF SeatsBound, DoodleBound, Open
<1>6. ASSUME NEW d \in DOMAIN meetings \ {c} PROVE SeatsBound(d)' /\ DoodleBound(d)'
  BY <1>1, <1>2, <1>3, <1>4, <1>6 DEF MeetingsBound, SeatsBound, DoodleBound, Open
<1> QED BY <1>1, <1>5, <1>6 DEF MeetingsBound

(* leaveCall, of the event or of the disconnection. *)
LEMMA LeaveKeepsBound ==
  ASSUME MeetingsTypeOK, MeetingsBound, NEW s \in Sockets, LeaveCall(s),
         Open(s), UNCHANGED <<late, hopped>>,
         \A t \in Sockets \ {s} : phase'[t] = phase[t]
  PROVE  MeetingsBound'
<1>0. \A d \in DOMAIN meetings : meetings[d].seats \subseteq Sockets
  BY MeetingTypes DEF Meeting
<1>1. CASE ~InMeeting(s)
  <2>1. meetings' = meetings /\ socketToRoom' = socketToRoom
    BY <1>1 DEF LeaveCall
  <2>2. \A d \in DOMAIN meetings : ~BoundTo(s, d)
    BY <1>1 DEF BoundTo, InMeeting, Active
  <2>3. \A d \in DOMAIN meetings : s \notin meetings[d].seats \ hopped
    BY <2>2 DEF MeetingsBound, SeatsBound
  <2>4. \A d \in DOMAIN meetings : meetings[d].doodle = s => s \in hopped
    BY <2>2 DEF MeetingsBound, DoodleBound
  <2> QED
    BY <1>0, <2>1, <2>3, <2>4 DEF MeetingsBound, SeatsBound, DoodleBound, BoundTo, Open
<1>2. CASE InMeeting(s)
  <2>0. PICK c : c = socketToRoom[s]
    OBVIOUS
  <2>1. /\ c \in DOMAIN meetings
        /\ DOMAIN socketToRoom' = DOMAIN socketToRoom \ {s}
        /\ \A t \in DOMAIN socketToRoom' : socketToRoom'[t] = socketToRoom[t]
        /\ DOMAIN meetings' \subseteq DOMAIN meetings
        /\ \A d \in DOMAIN meetings \ {c} : meetings'[d] = meetings[d]
        /\ c \in DOMAIN meetings' =>
             /\ meetings'[c].seats = meetings[c].seats \ {s}
             /\ meetings'[c].doodle # s
             /\ meetings'[c].doodle \in {NoSocket, meetings[c].doodle}
    BY <1>2, <2>0, LeaveEffect
  <2>2. \A t \in Sockets \ {s} : \A d : BoundTo(t, d) => BoundTo(t, d)'
    BY <2>1 DEF BoundTo
  <2>3. \A d : BoundTo(s, d) => d = c
    BY <2>0 DEF BoundTo
  <2>4. \A d \in DOMAIN meetings \ {c} : s \notin meetings[d].seats \ hopped
    BY <2>3 DEF MeetingsBound, SeatsBound
  <2>5. \A d \in DOMAIN meetings \ {c} : meetings[d].doodle = s => s \in hopped
    BY <2>3 DEF MeetingsBound, DoodleBound
  <2>6. ASSUME c \in DOMAIN meetings' PROVE SeatsBound(c)' /\ DoodleBound(c)'
    BY <1>0, <2>1, <2>2, <2>6, MeetingsAssumption
       DEF MeetingsBound, SeatsBound, DoodleBound, Open
  <2>7. ASSUME NEW d \in DOMAIN meetings \ {c} PROVE SeatsBound(d)' /\ DoodleBound(d)'
    BY <1>0, <2>1, <2>2, <2>4, <2>5, <2>7 DEF MeetingsBound, SeatsBound, DoodleBound, Open
  <2> QED BY <2>1, <2>6, <2>7 DEF MeetingsBound
<1> QED BY <1>1, <1>2

(* handleStartDoodle and handleEndDoodle. *)
LEMMA DoodleKeepsBound ==
  ASSUME MeetingsTypeOK, MeetingsBound, NEW s \in Sockets,
         StartDoodle(s) \/ EndDoodle(s)
  PROVE  MeetingsBound'
<1>1. PICK owner : owner \in {s, NoSocket} /\ SetDoodle(s, owner)
  BY DEF StartDoodle, EndDoodle
<1>2. PICK c : c = socketToRoom[s]
  OBVIOUS
<1>3. /\ c \in DOMAIN meetings
      /\ DOMAIN meetings' = DOMAIN meetings
      /\ \A d \in DOMAIN meetings \ {c} : meetings'[d] = meetings[d]
      /\ meetings'[c].seats = meetings[c].seats
      /\ meetings'[c].doodle = owner
  BY <1>1, <1>2, DoodleEffect
<1>4. Open(s) /\ BoundTo(s, c)
  BY <1>1, <1>2 DEF SetDoodle, InMeeting, BoundTo
<1>5. UNCHANGED <<phase, socketToRoom, late, hopped>>
  BY <1>1 DEF SetDoodle, presenceVars
<1>6. SeatsBound(c)' /\ DoodleBound(c)'
  BY <1>1, <1>3, <1>4, <1>5, MeetingsAssumption
     DEF MeetingsBound, SeatsBound, DoodleBound, BoundTo, Open
<1>7. ASSUME NEW d \in DOMAIN meetings \ {c} PROVE SeatsBound(d)' /\ DoodleBound(d)'
  BY <1>3, <1>5, <1>7 DEF MeetingsBound, SeatsBound, DoodleBound, BoundTo, Open
<1> QED BY <1>3, <1>6, <1>7 DEF MeetingsBound

(* A step that leaves the seats, the doodles and the bindings alone. *)
LEMMA SameKeepsBound ==
  ASSUME MeetingsBound,
         UNCHANGED <<phase, socketToRoom, late, hopped>>,
         DOMAIN meetings' = DOMAIN meetings,
         \A d \in DOMAIN meetings : /\ meetings'[d].seats = meetings[d].seats
                                    /\ meetings'[d].doodle = meetings[d].doodle
  PROVE  MeetingsBound'
  BY DEF MeetingsBound, SeatsBound, DoodleBound, BoundTo, Open

(* A connection: a socket that never opened has no seat and no doodle. *)
LEMMA ConnectKeepsBound ==
  ASSUME MeetingsTypeOK, MeetingsBound, NewIsFresh, NEW s \in Sockets, MeetingsConnect(s)
  PROVE  MeetingsBound'
<1>1. UNCHANGED <<meetings, socketToRoom, late, hopped>>
  BY DEF MeetingsConnect, callVars
<1>2. ~Open(s) /\ s \notin late /\ \A t \in Sockets \ {s} : phase'[t] = phase[t]
  BY DEF MeetingsConnect, Connect, NewIsFresh, Open, MeetingsTypeOK, PresenceTypeOK
<1>3. \A d \in DOMAIN meetings : meetings[d].seats \subseteq Sockets
  BY MeetingTypes DEF Meeting
<1>4. ASSUME NEW d \in DOMAIN meetings PROVE SeatsBound(d)' /\ DoodleBound(d)'
  <2>1. s \notin meetings[d].seats \ hopped
    BY <1>2 DEF MeetingsBound, SeatsBound
  <2>2. meetings[d].doodle = s => s \in hopped
    BY <1>2 DEF MeetingsBound, DoodleBound
  <2> QED
    BY <1>1, <1>2, <1>3, <2>1, <2>2
       DEF MeetingsBound, SeatsBound, DoodleBound, BoundTo, Open
<1> QED BY <1>1, <1>4 DEF MeetingsBound

LEMMA BoundNext ==
  ASSUME MeetingsTypeOK, MeetingsBound, NewIsFresh, [MeetingsNext]_meetingsVars
  PROVE  MeetingsBound'
<1>1. ASSUME UNCHANGED <<phase, meetings, socketToRoom, late, hopped>> PROVE MeetingsBound'
  BY <1>1, SameKeepsBound
<1>2. ASSUME NEW s \in Sockets, Register(s) PROVE MeetingsBound'
  BY <1>1, <1>2 DEF Register, JoinAdminRoom
<1>3. ASSUME NEW s \in Sockets, MeetingsDisconnect(s) PROVE MeetingsBound'
  <2>1. LeaveCall(s) /\ Open(s) /\ UNCHANGED <<late, hopped>>
    BY <1>3 DEF MeetingsDisconnect, HandleDisconnect
  <2>2. \A t \in Sockets \ {s} : phase'[t] = phase[t]
    BY <1>3 DEF MeetingsDisconnect, HandleDisconnect, MeetingsTypeOK, PresenceTypeOK
  <2> QED BY <2>1, <2>2, LeaveKeepsBound
<1>4. ASSUME NEW s \in Sockets, HandleLeaveCall(s) PROVE MeetingsBound'
  <2>1. LeaveCall(s) /\ Open(s) /\ UNCHANGED <<late, hopped>> /\ phase' = phase
    BY <1>4 DEF HandleLeaveCall, presenceVars
  <2> QED BY <2>1, LeaveKeepsBound
<1>5. ASSUME NEW s \in Sockets, NEW c \in Calls,
             JoinMeeting(s, c) \/ BeginFirstJoin(s, c) \/ ResumeFirstJoin(s, c)
      PROVE  MeetingsBound'
  <2>1. BeginFirstJoin(s, c) => UNCHANGED <<phase, meetings, socketToRoom, late, hopped>>
    BY DEF BeginFirstJoin, presenceVars
  <2> QED BY <1>1, <1>5, <2>1, JoinKeepsBound, FirstJoinKeepsBound
<1>6. ASSUME NEW c \in Calls, NEW invited \in Invitations,
             SendInvitation(c, invited) \/ ResumeInvitation(c, invited)
      PROVE  MeetingsBound'
  BY <1>6, InvitationEffect, SameKeepsBound
<1>7. ASSUME NEW r \in Rooms, PushRoom(r) PROVE MeetingsBound'
  BY <1>1, <1>7 DEF PushRoom, presenceVars
<1>8. ASSUME NEW j \in jobs, FinishJob(j) PROVE MeetingsBound'
  BY <1>1, <1>8 DEF FinishJob, presenceVars
<1>9. CASE MeetingsRestart
  BY <1>9 DEF MeetingsRestart, MeetingsBound
<1>10. CASE UNCHANGED meetingsVars
  BY <1>1, <1>10 DEF meetingsVars, presenceVars, callVars
<1>11. CASE MeetingsNext
  BY <1>2, <1>3, <1>4, <1>5, <1>6, <1>7, <1>8, <1>9, <1>11,
     ConnectKeepsBound, DoodleKeepsBound DEF MeetingsNext
<1> QED BY <1>10, <1>11

LEMMA FreshNext ==
  ASSUME MeetingsTypeOK, NewIsFresh, [MeetingsNext]_meetingsVars
  PROVE  NewIsFresh'
<1>1. ASSUME phase' = phase, late' = late, joining' \subseteq joining PROVE NewIsFresh'
  BY <1>1 DEF NewIsFresh
<1>2. ASSUME NEW s \in Sockets, MeetingsConnect(s) \/ MeetingsDisconnect(s) PROVE NewIsFresh'
  <2>1. /\ \A t \in Sockets \ {s} : phase'[t] = phase[t]
        /\ phase'[s] # "new" /\ late' = late /\ joining' = joining
    BY <1>2 DEF MeetingsConnect, Connect, MeetingsDisconnect, HandleDisconnect, callVars,
                MeetingsTypeOK, PresenceTypeOK
  <2> QED BY <2>1 DEF NewIsFresh
<1>3. ASSUME NEW s \in Sockets, NEW c \in Calls, BeginFirstJoin(s, c) PROVE NewIsFresh'
  <2>1. /\ phase' = phase /\ late' = late /\ phase[s] # "new"
        /\ joining' = joining \union {<<s, c>>}
    BY <1>3 DEF BeginFirstJoin, presenceVars, Open
  <2> QED BY <2>1 DEF NewIsFresh
<1>4. ASSUME NEW s \in Sockets, NEW c \in Calls, ResumeFirstJoin(s, c) PROVE NewIsFresh'
  <2>1. /\ phase' = phase /\ late' \subseteq late \union {s}
        /\ <<s, c>> \in joining /\ joining' \subseteq joining
    BY <1>4 DEF ResumeFirstJoin, Seat, presenceVars
  <2> QED BY <2>1 DEF NewIsFresh
<1>5. ASSUME NEW s \in Sockets, NEW c \in Calls, JoinMeeting(s, c) PROVE NewIsFresh'
  BY <1>1, <1>5 DEF JoinMeeting, Seat, presenceVars
<1>6. ASSUME NEW s \in Sockets,
             Register(s) \/ HandleLeaveCall(s) \/ StartDoodle(s) \/ EndDoodle(s)
      PROVE  NewIsFresh'
  BY <1>1, <1>6 DEF Register, JoinAdminRoom, HandleLeaveCall, StartDoodle, EndDoodle,
                    SetDoodle, presenceVars
<1>7. ASSUME NEW c \in Calls, NEW invited \in Invitations,
             SendInvitation(c, invited) \/ ResumeInvitation(c, invited)
      PROVE  NewIsFresh'
  BY <1>1, <1>7, InvitationEffect
<1>8. ASSUME NEW r \in Rooms, PushRoom(r) PROVE NewIsFresh'
  BY <1>1, <1>8 DEF PushRoom, presenceVars
<1>9. ASSUME NEW j \in jobs, FinishJob(j) PROVE NewIsFresh'
  BY <1>1, <1>9 DEF FinishJob, presenceVars
<1>10. CASE MeetingsRestart
  BY <1>10 DEF MeetingsRestart, Restart, NewIsFresh, Open
<1>11. CASE UNCHANGED meetingsVars
  BY <1>1, <1>11 DEF meetingsVars, presenceVars, callVars
<1>12. CASE MeetingsNext
  BY <1>2, <1>3, <1>4, <1>5, <1>6, <1>7, <1>8, <1>9, <1>10, <1>12 DEF MeetingsNext
<1> QED BY <1>11, <1>12

THEOREM BoundHold == MeetingsSpec => [](MeetingsBound /\ NewIsFresh)
<1>1. MeetingsInit => MeetingsBound /\ NewIsFresh
  BY DEF MeetingsInit, MeetingsBound, NewIsFresh
<1>2. /\ MeetingsTypeOK /\ MeetingsBound /\ NewIsFresh /\ [MeetingsNext]_meetingsVars
      => (MeetingsBound /\ NewIsFresh)'
  BY BoundNext, FreshNext
<1> QED BY <1>1, <1>2, MeetingsTypes, PTL DEF MeetingsSpec

(* Leaving or disconnecting gives up every seat, but for the sockets that    *)
(* joined a second call and the joins that resumed after the socket closed.  *)
THEOREM SeatsBoundHold == MeetingsSpec => []SeatsAreBound
<1>1. MeetingsTypeOK /\ MeetingsBound => SeatsAreBound
  BY BoundByMeeting DEF MeetingsBound
<1> QED BY <1>1, BoundHold, MeetingsTypes, PTL

(* The owner of a doodle is bound to the call, so its leaving clears it. *)
THEOREM DoodleBoundHold == MeetingsSpec => []DoodleOwnerBound
<1>1. MeetingsTypeOK /\ MeetingsBound => DoodleOwnerBound
  BY BoundByMeeting DEF MeetingsBound
<1> QED BY <1>1, BoundHold, MeetingsTypes, PTL

-----------------------------------------------------------------------------
(* The step of EvictedOnlyByFirstJoin. *)
EvictsFairly ==
  \A c \in DOMAIN meetings \cap DOMAIN meetings' :
    \A s \in meetings[c].seats \ meetings'[c].seats :
      \/ /\ s \in DOMAIN socketToRoom /\ socketToRoom[s] = c
         /\ s \notin DOMAIN socketToRoom'
      \/ \E t \in Sockets : <<t, c>> \in joining \ joining'

LEMMA EvictionNext ==
  ASSUME MeetingsTypeOK, [MeetingsNext]_meetingsVars PROVE EvictsFairly
<1>1. ASSUME \A c \in DOMAIN meetings \cap DOMAIN meetings' :
               meetings[c].seats \subseteq meetings'[c].seats
      PROVE  EvictsFairly
  BY <1>1 DEF EvictsFairly
<1>2. ASSUME UNCHANGED meetings PROVE EvictsFairly
  BY <1>1, <1>2
<1>3. ASSUME NEW s \in Sockets, NEW c \in Calls, JoinMeeting(s, c) PROVE EvictsFairly
  <2>1. /\ \A d \in DOMAIN meetings \ {c} : meetings'[d] = meetings[d]
        /\ meetings'[c].seats = meetings[c].seats \union {s}
    BY <1>3, JoinEffect
  <2> QED BY <1>1, <2>1
<1>4. ASSUME NEW s \in Sockets, NEW c \in Calls, ResumeFirstJoin(s, c) PROVE EvictsFairly
  <2>1. \A d \in DOMAIN meetings \ {c} : meetings'[d] = meetings[d]
    BY <1>4, FirstJoinEffect
  <2>2. <<s, c>> \in joining \ joining'
    BY <1>4 DEF ResumeFirstJoin
  <2> QED BY <2>1, <2>2 DEF EvictsFairly
<1>5. ASSUME NEW s \in Sockets, LeaveCall(s) PROVE EvictsFairly
  <2>1. CASE ~InMeeting(s)
    BY <1>2, <1>5, <2>1 DEF LeaveCall
  <2>2. CASE InMeeting(s)
    <3>1. PICK c : c = socketToRoom[s]
      OBVIOUS
    <3>2. /\ DOMAIN socketToRoom' = DOMAIN socketToRoom \ {s}
          /\ \A d \in DOMAIN meetings \ {c} : meetings'[d] = meetings[d]
          /\ c \in DOMAIN meetings' => meetings'[c].seats = meetings[c].seats \ {s}
      BY <1>5, <2>2, <3>1, LeaveEffect
    <3>3. s \in DOMAIN socketToRoom
      BY <2>2 DEF InMeeting
    <3> QED BY <3>1, <3>2, <3>3 DEF EvictsFairly
  <2> QED BY <2>1, <2>2
<1>6. ASSUME NEW s \in Sockets, StartDoodle(s) \/ EndDoodle(s) PROVE EvictsFairly
  <2>1. PICK owner : SetDoodle(s, owner)
    BY <1>6 DEF StartDoodle, EndDoodle
  <2>2. \A d \in DOMAIN meetings : meetings'[d].seats = meetings[d].seats
    BY <2>1, DoodleEffect
  <2> QED BY <1>1, <2>2
<1>7. ASSUME NEW c \in Calls, NEW invited \in Invitations,
             SendInvitation(c, invited) \/ ResumeInvitation(c, invited)
      PROVE  EvictsFairly
  <2>1. \A d \in DOMAIN meetings : meetings'[d].seats = meetings[d].seats
    BY <1>7, InvitationEffect
  <2> QED BY <1>1, <2>1
<1>8. CASE MeetingsRestart
  BY <1>8 DEF MeetingsRestart, EvictsFairly
<1>9. ASSUME NEW s \in Sockets, MeetingsConnect(s) \/ Register(s) PROVE UNCHANGED meetings
  BY <1>9 DEF MeetingsConnect, Register, callVars
<1>10. ASSUME NEW s \in Sockets, NEW c \in Calls, BeginFirstJoin(s, c) PROVE UNCHANGED meetings
  BY <1>10 DEF BeginFirstJoin
<1>11. ASSUME NEW r \in Rooms, PushRoom(r) PROVE UNCHANGED meetings
  BY <1>11 DEF PushRoom
<1>12. ASSUME NEW j \in jobs, FinishJob(j) PROVE UNCHANGED meetings
  BY <1>12 DEF FinishJob
<1>13. CASE UNCHANGED meetingsVars
  BY <1>2, <1>13 DEF meetingsVars, callVars
<1>14. CASE MeetingsNext
  BY <1>2, <1>3, <1>4, <1>5, <1>6, <1>7, <1>8, <1>9, <1>10, <1>11, <1>12, <1>14
     DEF MeetingsNext, HandleLeaveCall, MeetingsDisconnect
<1> QED BY <1>13, <1>14

(* A participant of a meeting that goes on loses its seat only by its own    *)
(* socket's leaving, or by a first join of the same call resumed after it.   *)
THEOREM EvictionHolds == MeetingsSpec => EvictedOnlyByFirstJoin
<1>1. MeetingsTypeOK /\ [MeetingsNext]_meetingsVars => [EvictsFairly]_meetingsVars
  BY EvictionNext
<1> QED BY <1>1, MeetingsTypes, PTL DEF MeetingsSpec, EvictedOnlyByFirstJoin, EvictsFairly

-----------------------------------------------------------------------------
(* The screens.  A socket registers as its own user only, and a meeting has  *)
(* the participants of its room as long as the room exists: the list of a    *)
(* registration is right with both.                                          *)
OwnRegistry == \A u \in DOMAIN clients : \A s \in clients[u] : UserOf[s] = u

MembersCopied ==
  \A c \in DOMAIN meetings : RoomOf[c] \notin gone => meetings[c].members = Members[RoomOf[c]]

ScreensInv == OwnRegistry /\ MembersCopied /\ ScreensCurrent

(* What a room is told depends on the summaries of its meetings only. *)
LEMMA SameTold ==
  ASSUME NEW r,
         \A c : RoomOf[c] = r => (c \in DOMAIN meetings' <=> c \in DOMAIN meetings),
         \A c \in DOMAIN meetings : RoomOf[c] = r =>
           SummaryOf(meetings'[c]) = SummaryOf(meetings[c])
  PROVE  Told(r)' = Told(r)
<1>1. MeetingsOf(r)' = MeetingsOf(r)
  BY DEF MeetingsOf
<1>2. \A c \in MeetingsOf(r) : SummaryOf(meetings'[c]) = SummaryOf(meetings[c])
  BY DEF MeetingsOf
<1>3. \A c \in MeetingsOf(r) : SummaryOf(meetings[c])' = SummaryOf(meetings'[c])
  BY DEF SummaryOf, UsersIn
<1> QED BY <1>1, <1>2, <1>3 DEF Told

(* A step that changes a meeting's summary only in a room it pushes, shows   *)
(* nothing and registers nobody.                                             *)
LEMMA ScreensKept ==
  ASSUME ScreensCurrent, screen' = screen,
         \A s \in Sockets : s \in SocketsOf(UserOf[s])' => s \in SocketsOf(UserOf[s]),
         pushing \union gone \subseteq pushing' \union gone',
         \A r \in Rooms : r \notin pushing' \union gone' => Told(r)' = Told(r)
  PROVE  ScreensCurrent'
  BY DEF ScreensCurrent

(* What the handlers do to a meeting's participants and summary: the rooms   *)
(* where a summary changes are pushed.                                       *)
LEMMA JoinSummary ==
  ASSUME MeetingsTypeOK, NEW s \in Sockets, NEW c \in Calls, JoinMeeting(s, c)
  PROVE  /\ DOMAIN meetings' = DOMAIN meetings
         /\ \A d \in DOMAIN meetings : meetings'[d].members = meetings[d].members
         /\ \A d \in DOMAIN meetings \ {c} : meetings'[d] = meetings[d]
         /\ pushing' = pushing \union {RoomOf[c]}
<1>1. c \in DOMAIN meetings /\ meetings[c] \in Meeting
  BY MeetingTypes DEF JoinMeeting, Active
<1> DEFINE m == meetings[c]
           joined == [m EXCEPT !.seats = @ \union {s},
                               !.white = IF m.kind = "HELP_DESK" THEN NoList ELSE @,
                               !.started = TRUE]
<1>2. joined.members = m.members
  BY <1>1 DEF Meeting
<1>3. meetings' = [meetings EXCEPT ![c] = joined]
  BY DEF JoinMeeting
<1>4. pushing' = pushing \union {RoomOf[c]}
  BY DEF JoinMeeting, Seat
<1> HIDE DEF joined
<1> QED BY <1>1, <1>2, <1>3, <1>4 DEF MeetingsTypeOK

LEMMA LeaveSummary ==
  ASSUME MeetingsTypeOK, NEW s \in Sockets, LeaveCall(s)
  PROVE  /\ DOMAIN meetings' \subseteq DOMAIN meetings
         /\ \A d \in DOMAIN meetings' : meetings'[d].members = meetings[d].members
         /\ pushing \subseteq pushing'
         /\ \A d : RoomOf[d] \notin pushing' =>
              /\ d \in DOMAIN meetings' <=> d \in DOMAIN meetings
              /\ d \in DOMAIN meetings => meetings'[d] = meetings[d]
<1>1. CASE ~InMeeting(s)
  BY <1>1 DEF LeaveCall
<1>2. CASE InMeeting(s)
  <2> DEFINE c == socketToRoom[s]
             left == LeftBy(s)
  <2>1. c \in DOMAIN meetings /\ meetings[c] \in Meeting
    BY <1>2, MeetingTypes DEF InMeeting, Active
  <2>2. left.members = meetings[c].members
    BY <2>1 DEF LeftBy, MeetingOf, Meeting
  <2>3. /\ meetings' \in {Without(meetings, c), [meetings EXCEPT ![c] = left]}
        /\ pushing' = pushing \union {RoomOf[c]}
    BY <1>2 DEF LeaveCall, LeaveInto
  <2> HIDE DEF left
  <2>4. CASE meetings' = Without(meetings, c)
    <3>1. /\ DOMAIN meetings' = DOMAIN meetings \ {c}
          /\ \A d \in DOMAIN meetings \ {c} : meetings'[d] = meetings[d]
      BY <2>4 DEF Without
    <3> QED BY <2>1, <2>3, <3>1
  <2>5. CASE meetings' = [meetings EXCEPT ![c] = left]
    BY <2>1, <2>2, <2>3, <2>5 DEF MeetingsTypeOK
  <2> QED BY <2>3, <2>4, <2>5
<1> QED BY <1>1, <1>2

LEMMA DoodleSummary ==
  ASSUME MeetingsTypeOK, NEW s \in Sockets, NEW owner, SetDoodle(s, owner)
  PROVE  /\ DOMAIN meetings' = DOMAIN meetings
         /\ \A d \in DOMAIN meetings : /\ meetings'[d].members = meetings[d].members
                                       /\ SummaryOf(meetings'[d]) = SummaryOf(meetings[d])
<1> DEFINE c == socketToRoom[s]
           drawn == [meetings[c] EXCEPT !.doodle = owner]
<1>1. c \in DOMAIN meetings /\ meetings[c] \in Meeting
  BY MeetingTypes DEF SetDoodle, InMeeting, Active
<1>2. /\ drawn.seats = meetings[c].seats /\ drawn.members = meetings[c].members
      /\ drawn.white = meetings[c].white
  BY <1>1 DEF Meeting
<1>3. meetings' = [meetings EXCEPT ![c] = drawn]
  BY DEF SetDoodle
<1> HIDE DEF drawn
<1>4. SummaryOf(drawn) = SummaryOf(meetings[c])
  BY <1>2 DEF SummaryOf, UsersIn
<1> QED BY <1>1, <1>2, <1>3, <1>4 DEF MeetingsTypeOK

LEMMA InvitationSummary ==
  ASSUME MeetingsTypeOK, NEW c \in Calls, NEW invited \in Invitations,
         SendInvitation(c, invited) \/ ResumeInvitation(c, invited)
  PROVE  /\ DOMAIN meetings' = DOMAIN meetings
         /\ \A d \in DOMAIN meetings : meetings'[d].members = meetings[d].members
         /\ \A d \in DOMAIN meetings : RoomOf[d] \notin pushing' => meetings'[d] = meetings[d]
         /\ pushing \subseteq pushing'
         /\ UNCHANGED <<clients, gone, screen>>
<1>1. CASE SetWhiteList(c, invited) /\ Active(c)
  <2> DEFINE listed == [meetings[c] EXCEPT !.white = invited]
  <2>1. c \in DOMAIN meetings /\ meetings[c] \in Meeting
    BY <1>1, MeetingTypes DEF Active
  <2>2. listed.members = meetings[c].members
    BY <2>1 DEF Meeting
  <2>3. /\ meetings' = [meetings EXCEPT ![c] = listed]
        /\ pushing' = pushing \union {RoomOf[c]}
        /\ UNCHANGED <<clients, gone, screen>>
    BY <1>1 DEF SetWhiteList, presenceVars
  <2> HIDE DEF listed
  <2> QED BY <2>1, <2>2, <2>3 DEF MeetingsTypeOK
<1>2. CASE ~(SetWhiteList(c, invited) /\ Active(c))
  <2>1. UNCHANGED <<meetings, pushing, clients, gone, screen>>
    BY <1>2 DEF SendInvitation, ResumeInvitation, SetWhiteList, presenceVars
  <2> QED BY <2>1
<1> QED BY <1>1, <1>2

LEMMA OwnNext ==
  ASSUME PresenceTypeOK, OwnRegistry, [MeetingsNext]_meetingsVars PROVE OwnRegistry'
<1>1. ASSUME UNCHANGED clients PROVE OwnRegistry'
  BY <1>1 DEF OwnRegistry
<1>2. ASSUME NEW s \in Sockets, Register(s) PROVE OwnRegistry'
  <2>1. UserOf[s] \in Users /\ JoinAdminRoom(s, UserOf[s])
    BY <1>2, MeetingsAssumption DEF Register
  <2>2. PICK u \in Users : u = UserOf[s]
    BY <2>1
  <2>3. /\ DOMAIN clients' = DOMAIN clients \union {u}
        /\ clients'[u] = SocketsOf(u) \union {s}
        /\ \A v \in DOMAIN clients \ {u} : clients'[v] = clients[v]
    BY <2>1, <2>2, Registered
  <2> QED BY <2>2, <2>3 DEF OwnRegistry, SocketsOf
<1>3. ASSUME NEW s \in Sockets, MeetingsDisconnect(s) PROVE OwnRegistry'
  BY <1>3, CleanedRegistry DEF MeetingsDisconnect, HandleDisconnect, OwnRegistry
<1>4. CASE MeetingsRestart
  BY <1>4 DEF MeetingsRestart, Restart, OwnRegistry
<1>5. ASSUME NEW s \in Sockets,
             MeetingsConnect(s) \/ HandleLeaveCall(s) \/ StartDoodle(s) \/ EndDoodle(s)
      PROVE  UNCHANGED clients
  BY <1>5 DEF MeetingsConnect, Connect, HandleLeaveCall, StartDoodle, EndDoodle, SetDoodle,
              presenceVars
<1>6. ASSUME NEW s \in Sockets, NEW c \in Calls,
             JoinMeeting(s, c) \/ BeginFirstJoin(s, c) \/ ResumeFirstJoin(s, c)
      PROVE  UNCHANGED clients
  BY <1>6 DEF JoinMeeting, BeginFirstJoin, ResumeFirstJoin, Seat, presenceVars
<1>7. ASSUME NEW c \in Calls, NEW invited \in Invitations,
             SendInvitation(c, invited) \/ ResumeInvitation(c, invited)
      PROVE  UNCHANGED clients
  BY <1>7 DEF SendInvitation, ResumeInvitation, SetWhiteList, presenceVars
<1>8. ASSUME NEW r \in Rooms, PushRoom(r) PROVE UNCHANGED clients
  BY <1>8 DEF PushRoom, presenceVars
<1>9. ASSUME NEW j \in jobs, FinishJob(j) PROVE UNCHANGED clients
  BY <1>9 DEF FinishJob, presenceVars
<1>10. CASE UNCHANGED meetingsVars
  BY <1>1, <1>10 DEF meetingsVars, presenceVars
<1>11. CASE MeetingsNext
  BY <1>1, <1>2, <1>3, <1>4, <1>5, <1>6, <1>7, <1>8, <1>9, <1>11 DEF MeetingsNext
<1> QED BY <1>10, <1>11

LEMMA CopiedNext ==
  ASSUME MeetingsTypeOK, MembersCopied, [MeetingsNext]_meetingsVars PROVE MembersCopied'
<1>1. ASSUME UNCHANGED meetings, gone \subseteq gone' PROVE MembersCopied'
  BY <1>1 DEF MembersCopied
<1>2. ASSUME gone' = gone, DOMAIN meetings' \subseteq DOMAIN meetings,
             \A c \in DOMAIN meetings' : meetings'[c].members = meetings[c].members
      PROVE  MembersCopied'
  BY <1>2 DEF MembersCopied
<1>3. ASSUME NEW s \in Sockets, NEW c \in Calls, JoinMeeting(s, c) PROVE MembersCopied'
  <2>1. gone' = gone
    BY <1>3 DEF JoinMeeting, Seat
  <2> QED BY <1>2, <1>3, <2>1, JoinSummary
<1>4. ASSUME NEW s \in Sockets, NEW c \in Calls, ResumeFirstJoin(s, c) PROVE MembersCopied'
  BY <1>4 DEF ResumeFirstJoin, Seat, With, MembersCopied
<1>5. ASSUME NEW s \in Sockets, LeaveCall(s), gone' = gone PROVE MembersCopied'
  BY <1>2, <1>5, LeaveSummary
<1>6. ASSUME NEW s \in Sockets, NEW owner, SetDoodle(s, owner) PROVE MembersCopied'
  <2>1. gone' = gone
    BY <1>6 DEF SetDoodle
  <2> QED BY <1>2, <1>6, <2>1, DoodleSummary
<1>7. ASSUME NEW c \in Calls, NEW invited \in Invitations,
             SendInvitation(c, invited) \/ ResumeInvitation(c, invited)
      PROVE  MembersCopied'
  BY <1>2, <1>7, InvitationSummary
<1>8. CASE MeetingsRestart
  BY <1>8 DEF MeetingsRestart, MembersCopied
<1>9. ASSUME NEW s \in Sockets, MeetingsConnect(s) \/ Register(s) PROVE MembersCopied'
  BY <1>1, <1>9 DEF MeetingsConnect, Register, callVars
<1>10. ASSUME NEW s \in Sockets, NEW c \in Calls, BeginFirstJoin(s, c) PROVE MembersCopied'
  BY <1>1, <1>10 DEF BeginFirstJoin
<1>11. ASSUME NEW r \in Rooms, PushRoom(r) PROVE MembersCopied'
  BY <1>1, <1>11 DEF PushRoom
<1>12. ASSUME NEW j \in jobs, FinishJob(j) PROVE MembersCopied'
  BY <1>1, <1>12 DEF FinishJob
<1>13. CASE UNCHANGED meetingsVars
  BY <1>1, <1>13 DEF meetingsVars, callVars
<1>14. ASSUME NEW s \in Sockets, HandleLeaveCall(s) \/ MeetingsDisconnect(s)
       PROVE  MembersCopied'
  BY <1>5, <1>14 DEF HandleLeaveCall, MeetingsDisconnect
<1>15. ASSUME NEW s \in Sockets, StartDoodle(s) \/ EndDoodle(s) PROVE MembersCopied'
  BY <1>6, <1>15 DEF StartDoodle, EndDoodle
<1>16. CASE MeetingsNext
  BY <1>3, <1>4, <1>7, <1>8, <1>9, <1>10, <1>11, <1>12, <1>14, <1>15, <1>16
     DEF MeetingsNext
<1> QED BY <1>13, <1>16
(* A registration shows the user's sockets the list of now. *)
LEMMA RegisterShows ==
  ASSUME MeetingsTypeOK, ScreensInv, NEW s \in Sockets, Register(s)
  PROVE  ScreensCurrent'
<1> DEFINE u == UserOf[s]
<1>1. u \in Users /\ JoinAdminRoom(s, u)
  BY MeetingsAssumption DEF Register
<1>2. /\ clients'[u] = SocketsOf(u) \union {s}
      /\ \A v \in DOMAIN clients \ {u} : clients'[v] = clients[v]
      /\ DOMAIN clients' = DOMAIN clients \union {u}
  <2> HIDE DEF u
  <2> QED BY <1>1, Registered DEF MeetingsTypeOK
<1>3. \A t \in clients'[u] : UserOf[t] = u
  BY <1>2 DEF ScreensInv, OwnRegistry, SocketsOf
<1>4. UNCHANGED <<meetings, pushing, gone>>
  BY DEF Register
<1>5. \A r : Told(r)' = Told(r)
  BY <1>4, SameTold
<1>6. PICK l \in [Rooms -> (UNION {Told(r) : r \in Rooms}) \union {NoMeeting}] :
        /\ \A r \in Rooms :
             LET Mine == {c \in MeetingsOf(r) : u \in meetings[c].members} IN
             IF Mine = {} THEN l[r] = NoMeeting
             ELSE \E c \in Mine : l[r] = SummaryOf(meetings[c])
        /\ screen' = [t \in Sockets |-> IF t \in clients'[u] THEN l ELSE screen[t]]
  BY DEF Register
<1>7. ASSUME NEW r \in Rooms, r \notin gone, u \in Members[r] PROVE l[r] \in Told(r)
  <2>1. \A c \in MeetingsOf(r) : u \in meetings[c].members
    BY <1>7 DEF ScreensInv, MembersCopied, MeetingsOf
  <2>2. IF MeetingsOf(r) = {} THEN l[r] = NoMeeting
        ELSE \E c \in MeetingsOf(r) : l[r] = SummaryOf(meetings[c])
    BY <1>6, <2>1
  <2> QED BY <2>2 DEF Told
<1>8. ASSUME NEW t \in Sockets, NEW r \in Rooms, t \in SocketsOf(UserOf[t])',
             UserOf[t] \in Members[r], r \notin pushing \union gone
      PROVE  screen'[t][r] \in Told(r)
  <2>1. CASE t \in clients'[u]
    BY <1>3, <1>6, <1>7, <1>8, <2>1
  <2>2. CASE t \notin clients'[u]
    <3>1. UserOf[t] # u /\ t \in SocketsOf(UserOf[t])
      BY <1>2, <1>8, <2>2 DEF SocketsOf
    <3>2. screen'[t] = screen[t]
      BY <1>6, <2>2
    <3> QED BY <1>8, <3>1, <3>2 DEF ScreensInv, ScreensCurrent
  <2> QED BY <2>1, <2>2
<1> QED BY <1>4, <1>5, <1>8 DEF ScreensCurrent

(* pushMeetingList shows the sockets of the room's members what there is. *)
LEMMA PushShows ==
  ASSUME MeetingsTypeOK, ScreensCurrent, NEW r \in Rooms, PushRoom(r)
  PROVE  ScreensCurrent'
<1>1. UNCHANGED <<clients, meetings, gone>> /\ pushing' = pushing \ {r}
  BY DEF PushRoom, presenceVars
<1>2. \A q : Told(q)' = Told(q)
  BY <1>1, SameTold
<1>3. \A v : SocketsOf(v)' = SocketsOf(v)
  BY <1>1 DEF SocketsOf
<1>4. CASE r \in gone
  <2>1. screen' = screen
    BY <1>4 DEF PushRoom
  <2> QED BY <1>1, <1>2, <1>3, <1>4, <2>1 DEF ScreensCurrent
<1>5. CASE r \notin gone
  <2>1. PICK told \in Told(r) : Show(r, told)
    BY <1>5 DEF PushRoom
  <2>2. ASSUME NEW t \in Sockets, NEW q \in Rooms, t \in SocketsOf(UserOf[t]),
               UserOf[t] \in Members[q], q \notin pushing' \union gone
        PROVE  screen'[t][q] \in Told(q)
    <3>1. screen[t] \in [Rooms -> {NoMeeting} \union Summary]
      BY DEF MeetingsTypeOK
    <3>2. q # r => screen'[t][q] = screen[t][q]
      BY <2>1, <3>1 DEF Show
    <3>3. q = r => screen'[t][q] = told
      <4>1. ASSUME q = r PROVE t \in UNION {SocketsOf(v) : v \in Members[r]}
        BY <2>2, <4>1
      <4>2. ASSUME q = r PROVE t \in Addressed(r)
        BY <4>1, <4>2 DEF Addressed
      <4> QED BY <2>1, <3>1, <4>2 DEF Show
    <3> QED BY <1>1, <2>1, <2>2, <3>2, <3>3 DEF ScreensCurrent
  <2> QED BY <1>1, <1>2, <1>3, <2>2 DEF ScreensCurrent
<1> QED BY <1>4, <1>5

(* leaveCall shows nothing, and takes away registrations if any. *)
LEMMA LeaveShows ==
  ASSUME MeetingsTypeOK, ScreensCurrent, NEW s \in Sockets, LeaveCall(s), gone' = gone
  PROVE  /\ pushing \union gone \subseteq pushing' \union gone'
         /\ \A r \in Rooms : r \notin pushing' \union gone' => Told(r)' = Told(r)
<1>1. ASSUME NEW r \in Rooms, r \notin pushing' PROVE Told(r)' = Told(r)
  BY <1>1, LeaveSummary, SameTold
<1> QED BY <1>1, LeaveSummary

LEMMA ScreensNext ==
  ASSUME MeetingsTypeOK, ScreensInv, [MeetingsNext]_meetingsVars PROVE ScreensCurrent'
<1>0. ScreensCurrent
  BY DEF ScreensInv
<1>1. ASSUME UNCHANGED <<clients, meetings, pushing, screen>>, gone \subseteq gone'
      PROVE  ScreensCurrent'
  <2>1. \A r : Told(r)' = Told(r)
    BY <1>1, SameTold
  <2>2. \A s \in Sockets : s \in SocketsOf(UserOf[s])' => s \in SocketsOf(UserOf[s])
    BY <1>1 DEF SocketsOf
  <2> QED BY <1>0, <1>1, <2>1, <2>2, ScreensKept
<1>2. ASSUME NEW s \in Sockets, NEW c \in Calls, JoinMeeting(s, c) PROVE ScreensCurrent'
  <2>1. UNCHANGED <<clients, gone, screen>>
    BY <1>2 DEF JoinMeeting, Seat, presenceVars
  <2>2. ASSUME NEW r \in Rooms, r \notin pushing' PROVE Told(r)' = Told(r)
    BY <1>2, <2>2, JoinSummary, SameTold
  <2>3. \A t \in Sockets : t \in SocketsOf(UserOf[t])' => t \in SocketsOf(UserOf[t])
    BY <2>1 DEF SocketsOf
  <2> QED BY <1>0, <1>2, <2>1, <2>2, <2>3, JoinSummary, ScreensKept
<1>3. ASSUME NEW s \in Sockets, NEW c \in Calls, ResumeFirstJoin(s, c) PROVE ScreensCurrent'
  <2>1. UNCHANGED <<clients, gone, screen>> /\ pushing' = pushing \union {RoomOf[c]}
    BY <1>3 DEF ResumeFirstJoin, Seat, presenceVars
  <2>2. ASSUME NEW r \in Rooms, r \notin pushing' PROVE Told(r)' = Told(r)
    BY <1>3, <2>1, <2>2, FirstJoinEffect, SameTold
  <2>3. \A t \in Sockets : t \in SocketsOf(UserOf[t])' => t \in SocketsOf(UserOf[t])
    BY <2>1 DEF SocketsOf
  <2> QED BY <1>0, <2>1, <2>2, <2>3, ScreensKept
<1>4. ASSUME NEW s \in Sockets, HandleLeaveCall(s) PROVE ScreensCurrent'
  <2>1. UNCHANGED <<clients, gone, screen>> /\ LeaveCall(s)
    BY <1>4 DEF HandleLeaveCall, presenceVars
  <2>2. \A t \in Sockets : t \in SocketsOf(UserOf[t])' => t \in SocketsOf(UserOf[t])
    BY <2>1 DEF SocketsOf
  <2> QED BY <1>0, <2>1, <2>2, LeaveShows, ScreensKept
<1>5. ASSUME NEW s \in Sockets, MeetingsDisconnect(s) PROVE ScreensCurrent'
  <2>1. LeaveCall(s) /\ gone' = gone /\ HandleDisconnect(s)
    BY <1>5 DEF MeetingsDisconnect
  <2>2. \A u : SocketsOf(u)' \subseteq SocketsOf(u) \ {s}
    BY <2>1, CleanedRegistry DEF HandleDisconnect, SocketsOf, MeetingsTypeOK
  <2>3. \A t \in Sockets \ {s} : screen'[t] = screen[t]
    BY <1>5 DEF MeetingsDisconnect, MeetingsTypeOK
  <2> QED BY <1>0, <2>1, <2>2, <2>3, LeaveShows DEF ScreensCurrent
<1>6. ASSUME NEW s \in Sockets, NEW owner, SetDoodle(s, owner) PROVE ScreensCurrent'
  <2>1. UNCHANGED <<clients, pushing, gone, screen>>
    BY <1>6 DEF SetDoodle, presenceVars
  <2>2. \A r : Told(r)' = Told(r)
    BY <1>6, DoodleSummary, SameTold
  <2>3. \A t \in Sockets : t \in SocketsOf(UserOf[t])' => t \in SocketsOf(UserOf[t])
    BY <2>1 DEF SocketsOf
  <2> QED BY <1>0, <2>1, <2>2, <2>3, ScreensKept
<1>7. ASSUME NEW c \in Calls, NEW invited \in Invitations,
             SendInvitation(c, invited) \/ ResumeInvitation(c, invited)
      PROVE  ScreensCurrent'
  <2>1. UNCHANGED <<clients, gone, screen>> /\ pushing \subseteq pushing'
    BY <1>7, InvitationSummary
  <2>2. ASSUME NEW r \in Rooms, r \notin pushing' PROVE Told(r)' = Told(r)
    BY <1>7, <2>2, InvitationSummary, SameTold
  <2>3. \A t \in Sockets : t \in SocketsOf(UserOf[t])' => t \in SocketsOf(UserOf[t])
    BY <2>1 DEF SocketsOf
  <2> QED BY <1>0, <2>1, <2>2, <2>3, ScreensKept
<1>8. CASE MeetingsRestart
  BY <1>8 DEF MeetingsRestart, Restart, ScreensCurrent, SocketsOf
<1>9. ASSUME NEW s \in Sockets, MeetingsConnect(s) PROVE ScreensCurrent'
  BY <1>1, <1>9 DEF MeetingsConnect, Connect, callVars
<1>10. ASSUME NEW s \in Sockets, NEW c \in Calls, BeginFirstJoin(s, c) PROVE ScreensCurrent'
  BY <1>1, <1>10 DEF BeginFirstJoin, presenceVars
<1>11. ASSUME NEW r \in Rooms, PushRoom(r) PROVE ScreensCurrent'
  BY <1>0, <1>11, PushShows
<1>12. ASSUME NEW j \in jobs, FinishJob(j) PROVE ScreensCurrent'
  BY <1>1, <1>12 DEF FinishJob, presenceVars
<1>13. CASE UNCHANGED meetingsVars
  BY <1>1, <1>13 DEF meetingsVars, presenceVars, callVars
<1>14. ASSUME NEW s \in Sockets, StartDoodle(s) \/ EndDoodle(s) PROVE ScreensCurrent'
  BY <1>6, <1>14 DEF StartDoodle, EndDoodle
<1>15. CASE MeetingsNext
  BY <1>2, <1>3, <1>4, <1>5, <1>7, <1>8, <1>9, <1>10, <1>11, <1>12, <1>14, <1>15,
     RegisterShows DEF MeetingsNext
<1> QED BY <1>13, <1>15

(* A registered socket of a member shows the meeting of the room as it is,   *)
(* whenever no push of the room is under way.                                *)
THEOREM ScreensHold == MeetingsSpec => []ScreensCurrent
<1>1. MeetingsInit => ScreensInv
  BY DEF MeetingsInit, PresenceInit, ScreensInv, OwnRegistry, MembersCopied, ScreensCurrent,
         SocketsOf
<1>2. MeetingsTypeOK /\ ScreensInv /\ [MeetingsNext]_meetingsVars => ScreensInv'
  BY OwnNext, CopiedNext, ScreensNext DEF ScreensInv, MeetingsTypeOK
<1>3. ScreensInv => ScreensCurrent
  BY DEF ScreensInv
<1> QED BY <1>1, <1>2, <1>3, MeetingsTypes, PTL DEF MeetingsSpec
=============================================================================
