------------------------------- MODULE Spaces -------------------------------
(***************************************************************************)
(* The members of one help desk space, its extension and the conversations *)
(* with its clients: HelpDeskService, with the help desk rooms that        *)
(* RoomsService keeps.                                                     *)
(*                                                                         *)
(* A save of the space pushes an entry, which moves the version v and asks *)
(* nothing; or sets fields of the entry at a place, which asks for the     *)
(* version that was read and does not move it; or writes the whole list,   *)
(* which asks for the version and moves it.  A user is also the email of   *)
(* the user.  A client takes no part but to have conversations.            *)
(*                                                                         *)
(* What RoomsService lets a participant of any room do, deleteContact for  *)
(* one, is asked of the rooms of two in Contacts, not of the conversations. *)
(***************************************************************************)
EXTENDS Naturals, Sequences, SequencesExt, Lists

CONSTANTS
  Folk,
  Boss,         \* the user who created the space
  Firsts,       \* the users invited with its creation, in order
  Clerks,       \* the requests that may be under way at a time
  MaxOrders     \* bound on the requests begun

ASSUME SpacesAssumption ==
  Boss \in Folk /\ Firsts \in Seq(Folk \ {Boss}) /\ IsInjective(Firsts) /\ MaxOrders \in Nat

VARIABLES
  space,        \* the Space document
  extension,    \* the status of its HelpDeskBusiness document
  talks,        \* its help desk rooms, by the request that made them
  order,        \* [Clerks -> the request it runs]
  orders,       \* the number of requests so far
  settled,      \* history: see Unsettled
  marks         \* history: which requests wrote the extension and closed it

spacesVars == <<space, extension, talks, order, orders, settled, marks>>

(* The tokens of the requests, and those of the first invitations. *)
Links == 1..(MaxOrders + Len(Firsts))

Roles == {"admin", "member"}

Seat == [email : Folk, role : Roles, status : {"invited", "joined", "deleted"},
         named : BOOLEAN, token : Links \union {0}]

Space == [members : Seq(Seat), active : BOOLEAN, v : Nat]

Talk == [n : 1..MaxOrders, people : SUBSET Folk, open : BOOLEAN, greeted : BOOLEAN]

(* opener: the request that wrote the extension last, by its number; wrote,   *)
(* gone: the number of requests so far when it did, and when the space was    *)
(* deleted; closers: the deletions of the space that came to their end.       *)
Marks == [opener : 0..MaxOrders, wrote : 0..MaxOrders, gone : 0..MaxOrders,
          closers : SUBSET (1..MaxOrders)]

(* at: the next step of the request; seat, i, list: what it saves, and where; *)
(* people: whom its conversation will have.                                  *)
Order == [at : {"idle", "push", "put", "delete", "role", "join", "decline", "enter", "open",
                "greet", "extend", "endExtension", "endTalks", "close", "closeExtension",
                "saveExtension"},
          n : 0..MaxOrders, who : Folk, i : Nat, seat : Seat, list : Seq(Seat), v : Nat,
          people : SUBSET Folk, greets : BOOLEAN]

Creator == [email |-> Boss, role |-> "admin", status |-> "joined", named |-> TRUE, token |-> 0]

NoOrder == [at |-> "idle", n |-> 0, who |-> Boss, i |-> 0, seat |-> Creator, list |-> <<>>,
            v |-> 0, people |-> {}, greets |-> FALSE]

(* createOrEditSpace without a space: the owner has joined, the others are   *)
(* invited once each.                                                        *)
SpacesInit ==
  /\ space = [active |-> TRUE, v |-> 0,
              members |-> <<Creator>> \o
                [i \in DOMAIN Firsts |->
                   [email |-> Firsts[i], role |-> "member", status |-> "invited",
                    named |-> FALSE, token |-> MaxOrders + i]]]
  /\ extension = "none" /\ talks = {}
  /\ order = [k \in Clerks |-> NoOrder] /\ orders = 0
  /\ settled = Folk
  /\ marks = [opener |-> 0, wrote |-> 0, gone |-> 0, closers |-> {}]

-----------------------------------------------------------------------------
(* The first entry of the user that is not deleted, or 0. *)
SeatOf(u) == SelectInSeq(space.members, LAMBDA m : m.email = u /\ m.status # "deleted")

Holding(t) == SelectInSeq(space.members, LAMBDA m : m.token = t)

IsColleague(u) ==
  \E m \in Range(space.members) : m.email = u /\ m.named /\ m.status = "joined"

(* isAdminSpace *)
IsAdmin(u) ==
  \E m \in Range(space.members) :
    m.email = u /\ m.named /\ m.status = "joined" /\ m.role = "admin"

(* findByIdAndUserId gives a conversation to a participant who is a member.  *)
Serves(t, u) == t.open /\ u \in t.people /\ space.active /\ IsColleague(u)

(* getMyInvitations: the token of the first entry with the email, whichever  *)
(* entry is the invitation.                                                  *)
ShownToken(u) ==
  space.members[SelectInSeq(space.members, LAMBDA m : m.email = u)].token

(* spaceVerify *)
Honours(u, token) ==
  /\ space.active /\ Holding(token) # 0
  /\ space.members[Holding(token)].email = u
  /\ space.members[Holding(token)].status = "invited"

(* A refusal writes the list of all, a new conversation has all who joined.  *)
Regards(k, u) ==
  order[k].at # "idle" /\ (order[k].who = u \/ order[k].at \in {"decline", "open"})

InHand(u) == \E k \in Clerks : Regards(k, u)

(* History: the users whom requests regard one at a time and to the end, who *)
(* answered no invitation but a pending one and got none after a removal.    *)
Unsettled(us) == settled' = settled \ us

MetBy(u) == IF InHand(u) THEN {u} ELSE {}

(* A request begins, having read the space. *)
Begun(k, o) ==
  /\ order[k] = NoOrder /\ orders < MaxOrders
  /\ orders' = orders + 1
  /\ order' = [order EXCEPT ![k] = [o EXCEPT !.n = orders + 1, !.v = space.v]]
  /\ UNCHANGED <<space, extension, talks>>

Saving(at, u, i, seat) == [NoOrder EXCEPT !.at = at, !.who = u, !.i = i, !.seat = seat]

Invited(u, role) ==
  [email |-> u, role |-> role, status |-> "invited", named |-> FALSE, token |-> orders + 1]

(* inviteMembers, by an admin; the owner alone makes admins. *)
InviteMember(k, u, role) ==
  /\ space.active /\ SeatOf(u) = 0
  /\ \E a \in Folk : IsAdmin(a) /\ (role = "admin" => a = Boss)
  /\ Begun(k, Saving("push", u, 0, Invited(u, role)))
  /\ Unsettled(MetBy(u) \union {m.email : m \in {e \in Range(space.members) : e.email = u}})
  /\ UNCHANGED marks

(* resendInvitation, by an admin: the entry is replaced whatever its status. *)
ResendInvitation(k, u, role) ==
  /\ space.active /\ SeatOf(u) # 0 /\ \E a \in Folk : IsAdmin(a)
  /\ Begun(k, Saving("put", u, SeatOf(u), Invited(u, role)))
  /\ Unsettled(MetBy(u)) /\ UNCHANGED marks

(* removeMember, by the owner: anybody. *)
RemoveMember(k, u) ==
  /\ space.active /\ SeatOf(u) # 0
  /\ Begun(k, Saving("delete", u, SeatOf(u), space.members[SeatOf(u)]))
  /\ Unsettled(MetBy(u)) /\ UNCHANGED marks

(* changeRole, by the owner, of anybody else. *)
ChangeRole(k, u, role) ==
  /\ space.active /\ SeatOf(u) # 0
  /\ ~(space.members[SeatOf(u)].named /\ u = Boss)
  /\ Begun(k, Saving("role", u, SeatOf(u), [space.members[SeatOf(u)] EXCEPT !.role = role]))
  /\ Unsettled(MetBy(u)) /\ UNCHANGED marks

(* validateInvite of a refusal: the list without the entries of the token.   *)
Decline(k, u, i) ==
  /\ space.members[i].status = "invited"
  /\ Begun(k, [Saving("decline", u, i, space.members[i]) EXCEPT
                 !.list = Filtered(space.members, {j \in DOMAIN space.members :
                                                   space.members[j].token # space.members[i].token})])
  /\ Unsettled({w \in Folk : InHand(w)})

(* validateInvite of anything else, unless the entry has joined. *)
Accept(k, u, i) ==
  /\ space.members[i].status # "joined"
  /\ Begun(k, Saving("join", u, i, space.members[i]))
  /\ Unsettled(IF space.members[i].status = "invited" THEN MetBy(u) ELSE {u})

ValidateInvite(k, u, token, accept) ==
  /\ space.active /\ Holding(token) # 0 /\ space.members[Holding(token)].email = u
  /\ LET i == Holding(token)
     IN IF ~accept /\ space.members[i].status = "invited" THEN Decline(k, u, i)
                                                          ELSE Accept(k, u, i)
  /\ UNCHANGED marks

(* createClient does not ask for the status of the space or the extension.   *)
CreateClient(k, greets) ==
  /\ extension # "none"
  /\ Begun(k, [NoOrder EXCEPT !.at = "open", !.greets = greets,
                              !.people = {u \in Folk : IsColleague(u)}])
  /\ Unsettled({u \in Folk : InHand(u)}) /\ UNCHANGED marks

(* Forms with a mistake, which no step takes: EditsDeletedSpaces, Unread,    *)
(* EntersGreetedTalks.                                                       *)
EditsDeletedSpaces(k) ==
  /\ \E a \in Folk : IsAdmin(a)
  /\ Begun(k, [NoOrder EXCEPT !.at = "extend"])
  /\ UNCHANGED <<settled, marks>>

(* createOrEditExtension, by an admin. *)
EditExtension(k) ==
  /\ space.active /\ \E a \in Folk : IsAdmin(a)
  /\ Begun(k, [NoOrder EXCEPT !.at = "extend"])
  /\ UNCHANGED <<settled, marks>>

(* deleteExtension, by the user who wrote it last. *)
DeleteExtension(k) ==
  /\ extension = "active"
  /\ Begun(k, [NoOrder EXCEPT !.at = "endExtension"])
  /\ UNCHANGED <<settled, marks>>

(* deleteSpace, by the owner. *)
DeleteSpace(k) ==
  /\ space.active
  /\ Begun(k, [NoOrder EXCEPT !.at = "close"])
  /\ UNCHANGED <<settled, marks>>

-----------------------------------------------------------------------------
Finishes(k) == order' = [order EXCEPT ![k] = NoOrder]

Proceeds(k, at) == order' = [order EXCEPT ![k].at = at]

(* A request ends before its last write. *)
GivesUp(k) ==
  /\ Finishes(k)
  /\ Unsettled({u \in Folk : Regards(k, u)})
  /\ UNCHANGED marks

PushesSeat(k) ==
  /\ order[k].at = "push"
  /\ space' = [space EXCEPT !.members = Append(@, order[k].seat), !.v = @ + 1]
  /\ Finishes(k)
  /\ UNCHANGED <<extension, talks, orders, settled, marks>>

(* What the save of the entry at a place makes of it. *)
SeatSaved(k) ==
  CASE order[k].at = "put" -> order[k].seat
    [] order[k].at = "join" -> [space.members[order[k].i] EXCEPT !.status = "joined", !.named = TRUE]
    [] order[k].at = "delete" -> [space.members[order[k].i] EXCEPT !.status = "deleted"]
    [] order[k].at = "role" -> [space.members[order[k].i] EXCEPT !.role = order[k].seat.role]

Unread(k) == TRUE

(* The version that mongoose asks for. *)
StillRead(k) == space.v = order[k].v

SavesSeat(k) ==
  /\ order[k].at \in {"put", "join", "delete", "role"}
  /\ IF StillRead(k)
     THEN /\ space' = [space EXCEPT !.members[order[k].i] = SeatSaved(k)]
          /\ IF order[k].at = "join" THEN Proceeds(k, "enter") ELSE Finishes(k)
          /\ UNCHANGED <<settled, marks>>
     ELSE GivesUp(k) /\ UNCHANGED space
  /\ UNCHANGED <<extension, talks, orders>>

SavesList(k) ==
  /\ order[k].at = "decline"
  /\ IF StillRead(k)
     THEN /\ space' = [space EXCEPT !.members = order[k].list, !.v = @ + 1]
          /\ Finishes(k) /\ UNCHANGED <<settled, marks>>
     ELSE GivesUp(k) /\ UNCHANGED space
  /\ UNCHANGED <<extension, talks, orders>>

EntersGreetedTalks(k) ==
  /\ order[k].at = "enter"
  /\ talks' = {IF t.greeted THEN [t EXCEPT !.people = @ \union {order[k].who}] ELSE t : t \in talks}
  /\ Finishes(k)
  /\ UNCHANGED <<space, extension, orders, settled, marks>>

(* addHelpDeskParticipant *)
EntersTalks(k) ==
  /\ order[k].at = "enter"
  /\ talks' = {[t EXCEPT !.people = @ \union {order[k].who}] : t \in talks}
  /\ Finishes(k)
  /\ UNCHANGED <<space, extension, orders, settled, marks>>

(* createHelpDeskRoom *)
OpensTalk(k) ==
  /\ order[k].at = "open"
  /\ talks' = talks \union {[n |-> order[k].n, people |-> order[k].people,
                             open |-> TRUE, greeted |-> FALSE]}
  /\ IF order[k].greets THEN Proceeds(k, "greet") ELSE Finishes(k)
  /\ UNCHANGED <<space, extension, orders, settled, marks>>

(* initHelpDeskConversation, in the name of the owner, whom findByIdAndUserId *)
(* may refuse.                                                               *)
Greets(k) ==
  /\ order[k].at = "greet"
  /\ talks' = {IF t.n = order[k].n /\ Serves(t, Boss) THEN [t EXCEPT !.greeted = TRUE] ELSE t :
                 t \in talks}
  /\ Finishes(k)
  /\ UNCHANGED <<space, extension, orders, settled, marks>>

WritesExtension(k) ==
  /\ order[k].at = "extend"
  /\ extension' = "active" /\ Finishes(k)
  /\ marks' = [marks EXCEPT !.opener = order[k].n, !.wrote = orders]
  /\ UNCHANGED <<space, talks, orders, settled>>

EndsExtension(k) ==
  /\ order[k].at = "endExtension"
  /\ extension' = "deleted" /\ Proceeds(k, "endTalks")
  /\ UNCHANGED <<space, talks, orders, settled, marks>>

(* changeHelpDeskRoomStatusByUser *)
EndsTalks(k) ==
  /\ order[k].at = "endTalks"
  /\ talks' = {[t EXCEPT !.open = FALSE] : t \in talks}
  /\ Finishes(k)
  /\ UNCHANGED <<space, extension, orders, settled, marks>>

(* The space is deleted, whichever request or account does it. *)
SpaceGoes ==
  /\ space' = [space EXCEPT !.active = FALSE]
  /\ marks' = [marks EXCEPT !.gone = IF space.active THEN orders ELSE @]

ClosesSpace(k) ==
  /\ order[k].at = "close"
  /\ SpaceGoes /\ Proceeds(k, "closeExtension")
  /\ UNCHANGED <<extension, talks, orders, settled>>

(* A deletion of the space comes to its end. *)
ClosesAll(k) == Finishes(k) /\ marks' = [marks EXCEPT !.closers = @ \union {order[k].n}]

(* The extension is found.  A status that is set to what it was is not saved. *)
FindsExtension(k) ==
  /\ order[k].at = "closeExtension"
  /\ \/ extension = "active" /\ Proceeds(k, "saveExtension") /\ UNCHANGED marks
     \/ extension # "active" /\ ClosesAll(k)
  /\ UNCHANGED <<space, extension, talks, orders, settled>>

SavesExtension(k) ==
  /\ order[k].at = "saveExtension"
  /\ extension' = "deleted" /\ ClosesAll(k)
  /\ UNCHANGED <<space, talks, orders, settled>>

(* deleteSpacesIfExistByOwner, when the account of the owner is deleted: the  *)
(* status in one update, and nothing else.                                    *)
DeleteSpacesByOwner ==
  /\ SpaceGoes
  /\ UNCHANGED <<extension, talks, order, orders, settled>>

(* A call that a request awaits fails, or the process ends. *)
OrderFails(k) ==
  /\ order[k] # NoOrder
  /\ GivesUp(k)
  /\ UNCHANGED <<space, extension, talks, orders>>

-----------------------------------------------------------------------------
Orders(k) ==
  \/ \E u \in Folk :
       \/ RemoveMember(k, u)
       \/ \E role \in Roles :
            InviteMember(k, u, role) \/ ResendInvitation(k, u, role) \/ ChangeRole(k, u, role)
       \/ \E token \in Links, accept \in BOOLEAN : ValidateInvite(k, u, token, accept)
  \/ \E greets \in BOOLEAN : CreateClient(k, greets)
  \/ EditExtension(k) \/ DeleteExtension(k) \/ DeleteSpace(k)

Works(k) ==
  \/ PushesSeat(k) \/ SavesSeat(k) \/ SavesList(k) \/ EntersTalks(k) \/ OpensTalk(k) \/ Greets(k)
  \/ WritesExtension(k) \/ EndsExtension(k) \/ EndsTalks(k) \/ ClosesSpace(k)
  \/ FindsExtension(k) \/ SavesExtension(k) \/ OrderFails(k)

SpacesNext == (\E k \in Clerks : Orders(k) \/ Works(k)) \/ DeleteSpacesByOwner

SpacesSpec == SpacesInit /\ [][SpacesNext]_spacesVars

-----------------------------------------------------------------------------
(* Types. *)
SpacesTypeOK ==
  /\ space \in Space /\ extension \in {"none", "active", "deleted"}
  /\ talks \subseteq Talk /\ orders \in 0..MaxOrders
  /\ order \in [Clerks -> Order]
  /\ settled \subseteq Folk /\ marks \in Marks

(* A user whom requests regard one at a time and to the end, and who answers *)
(* pending invitations only, has one live entry at most; takes part in every *)
(* conversation with a client, of before and after, as soon as he has joined; *)
(* and is shown by getMyInvitations the invitation that is pending.          *)
SettledColleagues ==
  \A u \in settled : ~InHand(u) =>
    /\ \A i, j \in DOMAIN space.members :
         /\ space.members[i].email = u /\ space.members[i].status # "deleted"
         /\ space.members[j].email = u /\ space.members[j].status # "deleted"
         => i = j
    /\ IsColleague(u) => \A t \in talks : u \in t.people
    /\ space.active /\ SeatOf(u) # 0 /\ space.members[SeatOf(u)].status = "invited"
         => Honours(u, ShownToken(u))

(* The entries of a user, at their places. *)
EntriesOf(u) ==
  [i \in {j \in DOMAIN space.members : space.members[j].email = u} |-> space.members[i]]

(* The entries of a user change by a request about that user, or by a        *)
(* refusal, which writes back the list that it read: a place that moved      *)
(* under a request is not taken for the place of another user.               *)
OthersEntriesKept ==
  [][\A u \in Folk : EntriesOf(u)' # EntriesOf(u) =>
       \E k \in Clerks : order[k] # order'[k] /\ Regards(k, u)]_spacesVars

(* The extension of a space that was deleted, by its owner or with the       *)
(* account of its owner, is open only by an edit that began before the space *)
(* was deleted, and that wrote it after every deletion of the space that     *)
(* came to its end had begun.                                                *)
ClosedWithSpace ==
  ~space.active /\ extension = "active" =>
    /\ marks.opener <= marks.gone
    /\ \A d \in marks.closers : d <= marks.wrote
=============================================================================
