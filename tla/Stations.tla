------------------------------ MODULE Stations ------------------------------
(***************************************************************************)
(* The members of one station: StationsService, with the list of stations  *)
(* that UsersService keeps for each user.                                  *)
(*                                                                         *)
(* The entries of `members` are never taken away, so an entry is known by  *)
(* its place.  A save pushes an entry, which moves the version v and asks  *)
(* nothing, or sets fields of the entry at a place, which asks for the     *)
(* version that was read and does not move it.  A user is also the email   *)
(* of the user.  An invitation that has expired is refused like one that   *)
(* is never answered, and needs no step.                                   *)
(***************************************************************************)
EXTENDS Naturals, Sequences, SequencesExt

CONSTANTS
  People,
  Owner,        \* the user who created the station
  Desks,        \* the requests that may be under way at a time
  MaxAsked      \* bound on the requests begun

ASSUME StationsAssumption == Owner \in People /\ MaxAsked \in Nat

VARIABLES
  station,      \* the Station document
  stationsOf,   \* the users whose list of stations has it
  defaults,     \* the users whose default station it is
  links,        \* the InvitationStation documents, by the request that made them
  pulls,        \* the updates of the lists that nobody awaits
  ask,          \* [Desks -> the request it runs]
  asked,        \* the number of requests so far
  plain         \* history: see Disturbed

stationVars == <<station, stationsOf, defaults, links, pulls, ask, asked, plain>>

NoToken == 0

Tokens == 1..MaxAsked

Status == {"invited", "joined", "deleted", "rejected"}

(* named: the entry has the id of its user. *)
Member == [email : People, status : Status, named : BOOLEAN, token : Tokens \union {NoToken}]

Station == [members : Seq(Member), active : BOOLEAN, v : Nat]

(* at: the next step of the request; then: the save that follows its update  *)
(* of the user's list.                                                       *)
Asked == [at : {"idle", "add", "push", "put", "join", "reject", "delete", "linked",
                "default", "noDefault", "clearDefaults", "clearLists", "close", "make"},
          then : {"none", "push", "put", "join"},
          n : 0..MaxAsked, who : People, i : Nat, entry : Member, v : Nat]

Joined(u) == [email |-> u, status |-> "joined", named |-> TRUE, token |-> NoToken]

Free == [at |-> "idle", then |-> "none", n |-> 0, who |-> Owner, i |-> 0,
         entry |-> Joined(Owner), v |-> 0]

(* createStation: the owner has joined.  Whom it invites besides is invited  *)
(* like anybody later.                                                       *)
StationsInit ==
  /\ station = [members |-> <<Joined(Owner)>>, active |-> TRUE, v |-> 0]
  /\ stationsOf = {Owner} /\ defaults = {} /\ links = {} /\ pulls = {}
  /\ ask = [q \in Desks |-> Free] /\ asked = 0
  /\ plain = People

-----------------------------------------------------------------------------
(* The first entry of the user with one of the statuses, or 0. *)
EntryOf(u, statuses) ==
  SelectInSeq(station.members, LAMBDA m : m.email = u /\ m.status \in statuses)

WithToken(t) == SelectInSeq(station.members, LAMBDA m : m.token = t)

IsMember(u) ==
  \E m \in Range(station.members) : m.email = u /\ m.named /\ m.status = "joined"

(* findStationByIdAndUserId and getStations find the station for its members. *)
Lists(u) == station.active /\ IsMember(u)

(* stationVerify shows an invitation while it is pending. *)
Verifies(u, token) ==
  /\ station.active /\ WithToken(token) # 0
  /\ station.members[WithToken(token)].email = u
  /\ station.members[WithToken(token)].status = "invited"

(* A deletion concerns everybody. *)
Concerns(q, u) ==
  ask[q].at # "idle" /\ (ask[q].who = u \/ ask[q].at \in {"clearDefaults", "clearLists", "close"})

UnderWay(u) == u \in pulls \/ \E q \in Desks : Concerns(q, u)

(* History: the users whom requests concern one at a time and to the end,    *)
(* who declined nothing, and answered no invitation but a pending one.       *)
Disturbed(us) == plain' = plain \ us

(* A request begins, concerning u. *)
AsksFor(q, u, at, then, i, entry) ==
  /\ ask[q] = Free /\ asked < MaxAsked
  /\ asked' = asked + 1
  /\ ask' = [ask EXCEPT ![q] = [at |-> at, then |-> then, n |-> asked + 1, who |-> u,
                                i |-> i, entry |-> entry, v |-> station.v]]
  /\ UNCHANGED <<station, stationsOf, defaults, links, pulls>>

Overlapping(u) == IF UnderWay(u) THEN {u} ELSE {}

Invitation(u, named, token) ==
  [email |-> u, status |-> "invited", named |-> named, token |-> token]

(* inviteMembersWithEmails, and with ids, which names the user. *)
Invite(q, u) ==
  /\ station.active
  /\ LET i == EntryOf(u, Status \ {"deleted"})
     IN i # 0 => station.members[i].status \notin {"invited", "joined"}
  /\ \E named \in BOOLEAN :
       AsksFor(q, u, "push", "none", 0, Invitation(u, named, asked + 1))
  /\ Disturbed(Overlapping(u))

(* inviterMemberWithLink: the caller brings the token, and an invitation is  *)
(* replaced.                                                                 *)
InviteWithLink(q, u) ==
  /\ station.active
  /\ EntryOf(u, {"joined"}) = 0
  /\ LET i == EntryOf(u, {"invited"})
     IN AsksFor(q, u, IF i = 0 THEN "push" ELSE "put", "none", i,
                Invitation(u, FALSE, asked + 1))
  /\ Disturbed(Overlapping(u))

(* Forms with a mistake, which no step takes: ReadsLinkedAsFound,            *)
(* ForgetsTheList.                                                           *)

(* removeMember, by the owner: anybody but the owner. *)
RemoveStationMember(q, u) ==
  /\ station.active
  /\ LET i == EntryOf(u, Status \ {"deleted"})
     IN /\ i # 0 /\ ~(station.members[i].named /\ u = Owner)
        /\ AsksFor(q, u, "delete", "none", i, station.members[i])
  /\ Disturbed(Overlapping(u))

LeaveStation(q, u) ==
  /\ station.active /\ u # Owner
  /\ LET i == EntryOf(u, {"joined"})
     IN i # 0 /\ AsksFor(q, u, "delete", "none", i, station.members[i])
  /\ Disturbed(Overlapping(u))

(* validateInvite: whatever is not a refusal of a pending invitation is      *)
(* taken for an acceptance, unless the entry has joined.                     *)
Answer(q, u, token, accept) ==
  /\ station.active
  /\ LET i == WithToken(token) IN
       /\ i # 0 /\ station.members[i].email = u /\ station.members[i].status # "joined"
       /\ IF ~accept /\ station.members[i].status = "invited"
          THEN AsksFor(q, u, "reject", "none", i, station.members[i])
          ELSE AsksFor(q, u, "add", "join", i, station.members[i])
       /\ Disturbed(IF accept /\ station.members[i].status = "invited"
                    THEN Overlapping(u) ELSE {u})

(* joinByLink finds the link, then reads the station. *)
JoinByLink(q, u) ==
  /\ links # {}
  /\ AsksFor(q, u, "linked", "none", 0, Joined(u))
  /\ Disturbed(Overlapping(u))

(* setDefaultStation, removeDefaultStation *)
ChooseDefault(q, u) ==
  /\ station.active /\ IsMember(u)
  /\ \E at \in {"default", "noDefault"} : AsksFor(q, u, at, "none", 0, Joined(u))
  /\ Disturbed(Overlapping(u))

DeleteStation(q) ==
  /\ station.active
  /\ AsksFor(q, Owner, "clearDefaults", "none", 0, Joined(Owner))
  /\ Disturbed({u \in People : UnderWay(u)})

(* activeInvitationLink: there is none; the station is read, and found. *)
ActivateLink(q) ==
  /\ links = {} /\ station.active
  /\ AsksFor(q, Owner, "make", "none", 0, Joined(Owner))
  /\ UNCHANGED plain

-----------------------------------------------------------------------------
Leaves(q) == ask' = [ask EXCEPT ![q] = Free]

GoesOnTo(q, at) == ask' = [ask EXCEPT ![q].at = at]

SameRest == UNCHANGED <<defaults, links, asked>>

(* A request ends before its last write: whom it concerned is disturbed. *)
Stops(q) ==
  /\ Leaves(q)
  /\ Disturbed({u \in People : Concerns(q, u)})

ReadsLinkedAsFound(q) ==
  /\ ask[q].at = "linked"
  /\ ask' = [ask EXCEPT ![q].at = "add", ![q].i = EntryOf(ask[q].who, {"invited"}),
                        ![q].v = station.v, ![q].then = "put"]
  /\ UNCHANGED <<station, stationsOf, pulls, plain>> /\ SameRest

ReadsLinked(q) ==
  /\ ask[q].at = "linked"
  /\ IF station.active /\ EntryOf(ask[q].who, {"joined"}) = 0
     THEN LET i == EntryOf(ask[q].who, {"invited"})
          IN ask' = [ask EXCEPT ![q].at = "add", ![q].i = i, ![q].v = station.v,
                                ![q].then = IF i = 0 THEN "push" ELSE "put"]
     ELSE Leaves(q)
  /\ UNCHANGED <<station, stationsOf, pulls, plain>> /\ SameRest

(* addMemberToStation *)
AddsToList(q) ==
  /\ ask[q].at = "add"
  /\ stationsOf' = stationsOf \union {ask[q].who}
  /\ GoesOnTo(q, ask[q].then)
  /\ UNCHANGED <<station, pulls, plain>> /\ SameRest

Pushes(q) ==
  /\ ask[q].at = "push"
  /\ station' = [station EXCEPT !.members = Append(@, ask[q].entry), !.v = @ + 1]
  /\ Leaves(q)
  /\ UNCHANGED <<stationsOf, pulls, plain>> /\ SameRest

(* The save of the entry at a place: of all of it, or of its status. *)
Saved(q) ==
  CASE ask[q].at = "put" -> ask[q].entry
    [] ask[q].at = "join" -> [station.members[ask[q].i] EXCEPT !.status = "joined", !.named = TRUE]
    [] ask[q].at = "reject" -> [station.members[ask[q].i] EXCEPT !.status = "rejected"]
    [] ask[q].at = "delete" -> [station.members[ask[q].i] EXCEPT !.status = "deleted"]

ForgetsTheList(q) == {}

(* removeMember and leaveStation take the station from the list of the user  *)
(* that the entry they read names, and do not await it.                      *)
Unlists(q) ==
  IF ask[q].at = "delete" /\ ask[q].entry.named THEN {ask[q].who} ELSE {}

SavesEntry(q) ==
  /\ ask[q].at \in {"put", "join", "reject", "delete"}
  /\ IF station.v = ask[q].v
     THEN /\ station' = [station EXCEPT !.members[ask[q].i] = Saved(q)]
          /\ pulls' = pulls \union Unlists(q)
          /\ Leaves(q) /\ UNCHANGED plain
     ELSE Stops(q) /\ UNCHANGED <<station, pulls>>
  /\ UNCHANGED stationsOf /\ SameRest

(* removeMemberFromStation is executed, or fails. *)
Pulled(u) ==
  /\ u \in pulls
  /\ pulls' = pulls \ {u}
  /\ \/ stationsOf' = stationsOf \ {u} /\ UNCHANGED plain
     \/ UNCHANGED stationsOf /\ Disturbed({u})
  /\ UNCHANGED <<station, ask>> /\ SameRest

WritesDefault(q) ==
  /\ ask[q].at \in {"default", "noDefault"}
  /\ defaults' = IF ask[q].at = "default" THEN defaults \union {ask[q].who}
                                          ELSE defaults \ {ask[q].who}
  /\ Leaves(q)
  /\ UNCHANGED <<station, stationsOf, links, pulls, asked, plain>>

(* removeStationFromUser, then the save of the status. *)
ClearsDefaults(q) ==
  /\ ask[q].at = "clearDefaults"
  /\ defaults' = {} /\ GoesOnTo(q, "clearLists")
  /\ UNCHANGED <<station, stationsOf, links, pulls, asked, plain>>

ClearsLists(q) ==
  /\ ask[q].at = "clearLists"
  /\ stationsOf' = {} /\ GoesOnTo(q, "close")
  /\ UNCHANGED <<station, pulls, plain>> /\ SameRest

Closes(q) ==
  /\ ask[q].at = "close"
  /\ station' = [station EXCEPT !.active = FALSE]
  /\ Leaves(q)
  /\ UNCHANGED <<stationsOf, pulls, plain>> /\ SameRest

MakesLink(q) ==
  /\ ask[q].at = "make"
  /\ links' = links \union {ask[q].n}
  /\ Leaves(q)
  /\ UNCHANGED <<station, stationsOf, defaults, pulls, asked, plain>>

(* deleteInvitationLink deletes one link of the station. *)
DeleteLink ==
  /\ station.active
  /\ \E l \in links : links' = links \ {l}
  /\ UNCHANGED <<station, stationsOf, defaults, pulls, ask, asked, plain>>

(* A call that a request awaits fails, or the process ends. *)
StationFails(q) ==
  /\ ask[q] # Free
  /\ Stops(q)
  /\ UNCHANGED <<station, stationsOf, pulls>> /\ SameRest

-----------------------------------------------------------------------------
Asks(q) ==
  \/ \E u \in People :
       \/ Invite(q, u) \/ InviteWithLink(q, u) \/ RemoveStationMember(q, u)
       \/ LeaveStation(q, u) \/ JoinByLink(q, u) \/ ChooseDefault(q, u)
       \/ \E token \in Tokens, accept \in BOOLEAN : Answer(q, u, token, accept)
  \/ DeleteStation(q) \/ ActivateLink(q)

GoesOn(q) ==
  \/ ReadsLinked(q) \/ AddsToList(q) \/ Pushes(q) \/ SavesEntry(q)
  \/ WritesDefault(q) \/ ClearsDefaults(q) \/ ClearsLists(q) \/ Closes(q)
  \/ MakesLink(q) \/ StationFails(q)

StationsNext ==
  \/ \E q \in Desks : Asks(q) \/ GoesOn(q)
  \/ \E u \in People : Pulled(u)
  \/ DeleteLink

StationsSpec == StationsInit /\ [][StationsNext]_stationVars

-----------------------------------------------------------------------------
(* Types; a request that will save an entry has the place of one.            *)
StationsTypeOK ==
  /\ station \in Station
  /\ stationsOf \subseteq People /\ defaults \subseteq People /\ pulls \subseteq People
  /\ links \subseteq 1..asked /\ asked \in 0..MaxAsked /\ plain \subseteq People
  /\ ask \in [Desks -> Asked]
  /\ \A q \in Desks : ask[q].at \in {"put", "join", "reject", "delete"} =>
                        ask[q].i \in 1..Len(station.members)

(* Whatever overlaps, the owner has joined, by the first entry: no removal,  *)
(* leave, answer or invitation changes it.  A user whom requests concern one *)
(* at a time and to the end, and who takes every invitation that is answered *)
(* at all, has joined by one entry at most, and then no invitation of his is *)
(* still shown as pending; the station is in his list exactly if he has      *)
(* joined by it, while it is not deleted.  It is never the default of such a *)
(* user once deleted.                                                        *)
PlainMembersAgree ==
  /\ station.members[1] = Joined(Owner)
  /\ \A u \in plain : ~UnderWay(u) =>
    LET joined == {i \in DOMAIN station.members : /\ station.members[i].email = u
                                                  /\ station.members[i].status = "joined"}
    IN /\ \A i, j \in joined : i = j
       /\ u \in stationsOf <=> Lists(u)
       /\ u \in defaults => station.active
       /\ (\E m \in Range(station.members) : Verifies(u, m.token)) => joined = {}
=============================================================================
