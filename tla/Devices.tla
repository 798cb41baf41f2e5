------------------------------ MODULE Devices ------------------------------
(***************************************************************************)
(* Whom a push reaches, for one user: the tokens of the devices that       *)
(* subscribed, in the user's Notification document, and the rooms of one   *)
(* station that the user muted (NotificationService, with sign out and the *)
(* deletion of an account).                                                *)
(*                                                                         *)
(* The document is unique by an index.  A device subscribes as the app or  *)
(* as the extension, by the list its token is put in.                      *)
(***************************************************************************)
EXTENDS Naturals, FiniteSets

CONSTANTS
  DeviceTokens,
  QuietRooms,   \* the rooms of the station that the user is in
  Visits,       \* the requests that may be under way at a time
  MaxVisits     \* bound on the requests begun

VARIABLES
  tokens,       \* the Notification document, or NoTokens
  mutes,        \* the RoomNotification documents: [n, room]
  dead,         \* the tokens that the push service refuses
  refused,      \* the refused tokens whose pull is under way
  visit,        \* [Visits -> the request it runs]
  visits,       \* the number of requests so far
  wanted,       \* history: what the requests that ended leave subscribed and muted
  tangled       \* history: what requests overlapped on, or did not end for

devicesVars == <<tokens, mutes, dead, refused, visit, visits, wanted, tangled>>

TokenLists == {"tokens", "extensionTokens"}

Subscriptions == DeviceTokens \X TokenLists

ASSUME DevicesAssumption == QuietRooms \intersect Subscriptions = {} /\ MaxVisits \in Nat

(* n: the _id of the document. *)
Notification == [n : 1..MaxVisits, held : SUBSET Subscriptions]

NoTokens == [n |-> 0, held |-> {}]

RoomNotification == [n : 1..MaxVisits, room : QuietRooms]

(* about: the subscriptions or the rooms it concerns; doc: the document it   *)
(* found, 0 for none.                                                        *)
Visit == [at : {"idle", "create", "add", "mute", "unmute",
                "muteAll", "unmuteAll"},
          n : 0..MaxVisits, about : SUBSET (Subscriptions \union QuietRooms), doc : 0..MaxVisits]

NoVisit == [at |-> "idle", n |-> 0, about |-> {}, doc |-> 0]

DevicesInit ==
  /\ tokens = NoTokens /\ mutes = {} /\ dead = {} /\ refused = {}
  /\ visit = [v \in Visits |-> NoVisit] /\ visits = 0
  /\ wanted = {} /\ tangled = {}

-----------------------------------------------------------------------------
Held == tokens.held

MutedRooms == {d.room : d \in mutes}

Busy == UNION {visit[v].about : v \in Visits}

Comes(v, at, about, doc) ==
  /\ visit[v] = NoVisit /\ visits < MaxVisits
  /\ visits' = visits + 1
  /\ visit' = [visit EXCEPT ![v] = [at |-> at, n |-> visits + 1, about |-> about, doc |-> doc]]
  /\ tangled' = tangled \union (about \intersect Busy)

(* storageToken finds the document. *)
Subscribe(v, x) ==
  /\ Comes(v, IF tokens.n = 0 THEN "create" ELSE "add", {x}, tokens.n)
  /\ UNCHANGED <<tokens, mutes, dead, refused, wanted>>

Departs(v) == visit' = [visit EXCEPT ![v] = NoVisit] /\ UNCHANGED visits

(* The save fails on the index when there is a document already. *)
CreatesDocument(v) ==
  /\ visit[v].at = "create"
  /\ IF tokens.n = 0
     THEN /\ tokens' = [n |-> visit[v].n, held |-> visit[v].about]
          /\ wanted' = wanted \union visit[v].about /\ UNCHANGED tangled
     ELSE /\ tangled' = tangled \union visit[v].about /\ UNCHANGED <<tokens, wanted>>
  /\ Departs(v) /\ UNCHANGED <<mutes, dead, refused>>

(* A form with a mistake, which no step takes. *)
AddsAnyway(v) ==
  /\ visit[v].at = "add"
  /\ tokens' = [tokens EXCEPT !.held = @ \union visit[v].about]
  /\ wanted' = wanted \union visit[v].about
  /\ Departs(v) /\ UNCHANGED <<mutes, dead, refused, tangled>>

(* $addToSet on the document that was found, which may be gone. *)
AddsToken(v) ==
  /\ visit[v].at = "add"
  /\ tokens' = IF tokens.n = visit[v].doc THEN [tokens EXCEPT !.held = @ \union visit[v].about]
                                          ELSE tokens
  /\ wanted' = wanted \union visit[v].about
  /\ Departs(v) /\ UNCHANGED <<mutes, dead, refused, tangled>>

(* One update: what overlaps it is tangled. *)
Drops(xs) ==
  /\ wanted' = wanted \ xs
  /\ tangled' = tangled \union (xs \intersect Busy)
  /\ UNCHANGED <<mutes, dead, visit, visits>>

(* A form with a mistake, which no step takes. *)
DropsTheOther(x) ==
  /\ tokens' = [tokens EXCEPT !.held = {y \in @ : y[1] # x[1] \/ y[2] = x[2]}]
  /\ Drops({x}) /\ UNCHANGED refused

(* deleteToken: of the list that is named; a sign out names none and means   *)
(* the app's.                                                                *)
Unsubscribe(x) ==
  /\ tokens' = [tokens EXCEPT !.held = @ \ {x}]
  /\ Drops({x}) /\ UNCHANGED refused

(* deleteAllTokens, after the account was deleted. *)
DropAll ==
  /\ tokens' = NoTokens
  /\ Drops(Subscriptions) /\ UNCHANGED refused

(* A device uninstalls the app or withdraws its permission. *)
Dies(t) ==
  /\ t \notin dead
  /\ dead' = dead \union {t}
  /\ UNCHANGED <<tokens, mutes, refused, visit, visits, wanted, tangled>>

(* sendNotification, to this user or to another who has the token: the       *)
(* service refuses a dead token, and an update that nobody awaits pulls it.  *)
Push(x) ==
  /\ x[1] \in dead /\ refused' = refused \union {x}
  /\ UNCHANGED <<tokens, mutes, dead, visit, visits, wanted, tangled>>

(* The update pulls it from any one document that has it: this, or another's. *)
PullsRefused(x) ==
  /\ x \in refused
  /\ refused' = refused \ {x}
  /\ \/ tokens' = [tokens EXCEPT !.held = @ \ {x}] /\ Drops({x})
     \/ UNCHANGED <<tokens, mutes, dead, visit, visits, wanted, tangled>>

-----------------------------------------------------------------------------
(* toggleNotification finds the document of the room, any of them.           *)
ToggleRoom(v, r) ==
  /\ \/ \E d \in mutes : d.room = r /\ Comes(v, "unmute", {r}, d.n)
     \/ r \notin MutedRooms /\ Comes(v, "mute", {r}, 0)
  /\ UNCHANGED <<tokens, mutes, dead, refused, wanted>>

(* toggleStationNotification finds the documents of all the rooms.           *)
ToggleStation(v) ==
  /\ Comes(v, IF mutes = {} THEN "muteAll" ELSE "unmuteAll", QuietRooms, 0)
  /\ UNCHANGED <<tokens, mutes, dead, refused, wanted>>

NewMutes(v) == mutes \union {[n |-> visit[v].n, room |-> r] : r \in visit[v].about}

AfterToggle(v) ==
  CASE visit[v].at \in {"mute", "muteAll"} -> NewMutes(v)
    [] visit[v].at = "unmute" -> {d \in mutes : ~(d.n = visit[v].doc /\ d.room \in visit[v].about)}
    [] visit[v].at = "unmuteAll" -> {}

Toggles(v) ==
  /\ visit[v].at \in {"mute", "unmute", "muteAll", "unmuteAll"}
  /\ mutes' = AfterToggle(v)
  /\ wanted' = IF visit[v].at \in {"mute", "muteAll"} THEN wanted \union visit[v].about
                                                      ELSE wanted \ visit[v].about
  /\ Departs(v) /\ UNCHANGED <<tokens, dead, refused, tangled>>

(* A call that a request awaits fails, or the process ends. *)
VisitFails(v) ==
  /\ visit[v] # NoVisit
  /\ Departs(v)
  /\ tangled' = tangled \union visit[v].about
  /\ UNCHANGED <<tokens, mutes, dead, refused, wanted>>

-----------------------------------------------------------------------------
DevicesNext ==
  \/ \E v \in Visits :
       \/ \E x \in Subscriptions : Subscribe(v, x)
       \/ \E r \in QuietRooms : ToggleRoom(v, r)
       \/ ToggleStation(v) \/ CreatesDocument(v) \/ AddsToken(v) \/ Toggles(v) \/ VisitFails(v)
  \/ \E x \in Subscriptions : Unsubscribe(x) \/ Push(x) \/ PullsRefused(x)
  \/ \E t \in DeviceTokens : Dies(t)
  \/ DropAll

DevicesSpec == DevicesInit /\ [][DevicesNext]_devicesVars

-----------------------------------------------------------------------------
(* Types. *)
DevicesTypeOK ==
  /\ tokens \in Notification \union {NoTokens}
  /\ mutes \subseteq RoomNotification /\ dead \subseteq DeviceTokens
  /\ refused \subseteq Subscriptions /\ visit \in [Visits -> Visit] /\ visits \in 0..MaxVisits
  /\ wanted \subseteq Subscriptions \union QuietRooms
  /\ tangled \subseteq Subscriptions \union QuietRooms

(* A device whose last request was to subscribe is stored where it asked,    *)
(* and one that unsubscribed, signed out, went with the account or was       *)
(* refused is not; the rooms the user muted last have one document each, and *)
(* the others none: unless requests about them overlapped or failed.         *)
SettledDevices ==
  LET settled == (Subscriptions \union QuietRooms) \ (tangled \union Busy)
  IN /\ settled \intersect (Held \union MutedRooms) = settled \intersect wanted
     /\ \A d, e \in mutes : d.room = e.room /\ d.room \in settled => d = e
=============================================================================
