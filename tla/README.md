# Verification of the Middo translate backend

TLA+ models of the backend (a NestJS server in TypeScript under `src/src`), TLC
configurations that check them on small instances, and proofs that TLAPS checks
for every instance. File names below are relative to `src/src`.

## 1. The system

One Node process serves an HTTP API and a socket.io gateway, keeps some state in
memory, and the rest in MongoDB through mongoose. There is no lock, and no
transaction but those that create a bot or a station: a handler runs alone up to its
next `await`, and everything else may run before it continues. Services tell the
gateway about changes through an `EventEmitter2`; the gateway calls
`CallService` and `WatchingService` directly, mostly without awaiting them.

| Component | State | Operations | What is hard | What makes it correct |
|---|---|---|---|---|
| Online registry (`events/events.gateway.ts`) | `clients`: user id to socket ids, in memory | connect, `joinAdminRoom`, disconnect, restart | a socket that registers as several users | nobody is shown online without an open socket, everybody who registered is |
| Video meetings (`events/events.gateway.ts`) | `meetings`, `socketToRoom`, in memory | join, invite, leave, doodle, push to screens, disconnect | handlers that await the room half-way; several tabs; several calls of a socket | seats are held by sockets that will give them up, one seat per user at a help desk, current screens |
| Calls (`call`) | `Call` documents, rooms of the call links, call messages | `joinVideoCallRoom`, links, `callStart`, `endCall` | find, then create; save of a document read earlier; creations nobody awaits | one open call of a room unless requests overlap; an ended call stays ended; a participant stays one |
| Watching (`watching`, chat events of the gateway) | `Watching` documents | create at `chat.join`, delete at `chat.leave` and disconnect | writes issued without awaiting; delete by socket and not by room | documents say which room a tab is in, so that pushes skip the right devices |
| Push notifications (`notifications`) | tokens and ignore lists | `storageToken`, `deleteToken`, `toggleRoomNotification`, `sendNotification` | find, then create of a user's tokens | no push to a device that watches the room or ignores it |
| Rooms (`rooms`) | `Room` documents: participants, waiting, rejected, status, archive and delete lists | create, accept, reject, leave, add, remove, archive, pin, contact deletion | whole lists written back after awaits, some with a version check and some without | nobody is put in a room against their settings; who left stays out; one room per pair |
| Messages (`messages`) | `Message` and `PinMessage` documents, `lastMessage` of a room | create, reply, react, seen, update, pin, remove, forward | lists saved whole after awaits; a first answer accepts a contact | nobody's reaction is touched by others; a removed message stays removed; edits and pins are undone only by requests that overlap them |
| Stations (`stations`) | `Station` documents with their members, invitation links, the stations in a user's list | invite by email, id or link, answer, leave, remove, defaults, join by link, delete | entries saved at a place, some with a version check; a user's list written before or after; a token answered twice or late | one joined entry per user, in agreement with the user's list; the owner stays |
| Help desk (`help-desk`) | spaces, their members and invitations, extension, scripts, tags, ratings, conversations | invite, resend, answer, remove, change role, start a conversation, delete | a refusal writes the list whole; what goes and what refers to it are separate writes | colleagues take part in all conversations; nothing refers to what is deleted |
| Forms (`form`) | forms, fields, answers | create, edit, delete, submit | fields removed, written and listed in turn; answers looked up and then stored | a form lists its fields; one answer per client |
| Users, authentication (`users`, `auth`) | accounts, blacklists, pins, `verifyToken` | sign up, activate, reset, set up, delete, block, pin | one `verifyToken` for several purposes; blacklists written whole and read before a message is stored | a token is used once; a session has an activated account; a block holds |
| Speech to text (`events/events.gateway.ts`) | `recognizeStreams` | start, stop, audio, restart at a final result | the stream's callback after its socket's disconnection | no stream without its socket |
| Gateway relays (`events/events.gateway.ts`) | the rooms of socket.io | forward to users, rooms or a socket | a list of sockets that is empty | users hear what is for them |
| App notifications, bots (`app-notifications`, `bots`) | single documents | create, read, delete | nothing interleaves | |
| Search, recommendation, translation, helpers, mail, storage, configuration | none | pure input and output, queries | | |

The components interact in these ways:

* The gateway's `joinAdminRoom` and `handleDisconnect` change the registry and
  the meetings, in one step each; disconnection also issues a delete of a
  `Watching` document.
* A meeting's second participant makes the gateway issue `callStart`, its end
  `endCall`; neither is awaited. `endCall` of an anonymous call deletes the room,
  which the pushes and the first joins of the meetings read.
* `lastMessage` of a room is written by the creation of a message, and again by `remove`
  and `seen` of the message they found there. A lookup of the room by its members
  guards the requests on a message.
* A client obtains the call id of its `call.join` from `joinVideoCallRoom`.
* `sendNotification` reads the `Watching` documents that the gateway's chat
  events write, and the tokens of `Devices`.
* `Station` entries and the station list of a `User` are two documents that each
  request writes one after the other. A member of a space who joins is added to every help desk
  room of it, and a room that is opened gets everybody who has joined.
* The deletion of an account deletes its spaces, but not their extensions, and then its devices. The room of two
  users is found, created, accepted or parted by requests and by messages alike.
* Everything a service tells the gateway is relayed to the sockets that the registry has
  of the users concerned.

## 2. The modules

| Module | Models | Abstracts or composes |
|---|---|---|
| `OnlineUsers` | the promise of the presence list: who is shown is who identified | |
| `Presence` | the registry | implements `OnlineUsers` (property `PresenceRefinesOnline`) |
| `Watching`, `MCWatching` | chat events, `WatchingService`, the filter of `sendNotification` | extends `Presence` |
| `Meetings`, `MCMeetings` | the call events of the gateway and the screens of its clients | extends `Presence`, and implements it (theorem `MeetingsImplementPresence`) |
| `Calls`, `MCCalls` | `CallService` with its rooms and messages | |
| `Membership` | the promise of a group room, one request after the other | |
| `GroupRoom`, `MCGroupRoom` | the membership of a group room under overlapping requests | implements `Membership` where reads are current |
| `Messages`, `MCMessages` | one message after it was sent: reactions, removals, edits, pins, the room's last message | the members of the room are any at each lookup |
| `Relays` | the other events of the gateway, and `recognizeStreams` | extends `Presence`, whose promise it keeps |
| `Devices` | a user's devices and muted rooms, and the tokens that a push finds dead | |
| `Accounts` | the accounts of one email, from sign up to deletion | |
| `Contacts` | the rooms of two users with blocks, strangers, hidden and pinned rooms, and the lists each user has | |
| `Stations` | the members of a station, its links, and the station lists of users | |
| `Spaces` | the members of a space, its extension and its conversations | |
| `Desk` | the scripts, tags and ratings of a space | |
| `Forms` | the forms of a space, with fields and answers | |
| `MCPeople` | | `Relays`, `Devices`, `Accounts`, `Contacts` side by side |
| `MCBackOffice` | | `Stations`, `Spaces`, `Desk`, `Forms` side by side |
| `Lists` | the filter of an array, by the places it keeps | used by `Spaces` and `Contacts` |
| `Presence_proofs`, `Meetings_proofs`, `GroupRoom_proofs`, `Messages_proofs`, `Calls_proofs` | theorems about the module of the name | |
| `People_proofs` | theorems about `Relays`, `Devices`, `Accounts`, `Contacts`, `Watching` and `MCPeople` | |
| `BackOffice_proofs` | theorems about `Forms`, `Desk`, `Spaces`, `Stations` and `MCBackOffice` | |
| `Lists_proofs` | lemmas about `Lists` | |

How state and actions correspond to the code:

* **Atomicity.** An action is what runs between two awaits. In `Meetings` the
  first join of a call (`BeginFirstJoin`, `ResumeFirstJoin`), an invitation
  (`SendInvitation`, `ResumeInvitation`) and the push of a room (a member of
  `pushing`, then `PushRoom`) are cut in two at the await of the room; every other
  handler is one action. In `Calls` every database operation is a step of the
  request (`req[q].pc`) or of the ending (`ends[n].pc`). In `GroupRoom` a request
  carries the room it read (`req[q].read`) and the step it is about to make
  (`req[q].at`); the awaits between that change no list and end nothing are no steps.
  In `Watching` a write that nobody awaits is a member of `writes`, executed in any
  order.
* **Maps.** The objects used as maps (`clients`, `meetings`, `socketToRoom`) are
  functions whose domain changes, so that an absent key and an empty list are
  distinct, as they are in the code. Where the code takes the first or last match
  in the order of an object's keys, the action takes any.
* **Arrays** that are appended to, filtered by value and tested are sets.
  A participant of a meeting is its socket; its user is `UserOf` of the socket. One
  client stays one user, except in `Presence`, where a socket may register as
  several.
* **Documents.** `save()` of mongoose sends the fields that differ from what was
  read, and checks and advances the version only when an array was replaced:
  `Saved` and `SaveFails` in `Calls`, the version `v` in `GroupRoom`.
  `findByIdAndUpdate` is a single step; that of `updateRoom` writes whole lists as they
  were read, and neither checks nor advances the version.
* **Outgoing messages** are kept only where a client's state depends on them:
  `announced` is the last `client.list`, `screen` what `meeting.list`,
  `meeting.update` and `meeting.end` left on each client.
* **Failures.** `Restart`, `MeetingsRestart`, `ProcessEnds` and `Crash` end the
  process: memory is lost, a write under way was executed or not. A refused
  duplicate in `Watching` is a rejected promise nobody awaits, and ends the
  process on the newer of the Node versions the package admits.
* **Group rooms.** The requests are those of the controller: accept, reject, leave,
  add, remove. Before they take a user out, `leaveRoom` and `removeParticipant` unpin and
  unarchive the room for them; of that, only `unarchive` matters, which throws when the
  user is in neither list any more. After a leave, an addition or a removal the
  controller creates an action message of the user, and `MessagesService.create`
  accepts the invitation of a sender who waits: `Announces` and `AcceptsFirst`. An addition
  reads the users it names one by one (`AddReadsUser`), each with the setting of that moment.
* **Messages.** A request carries the message it read (`req[q].read`), as in `GroupRoom`.
  Three kinds of save differ: a reaction pushed at the end asks for no version and moves
  it, a list replaced as a whole asks for the version read and moves it, and the emoji of
  a reaction found by its place asks for it and does not move it. `updateOne` of an
  edit and `updateRoom` neither ask nor move. A save of mongoose that would ask for the
  version and is refused throws, which ends the request. Content, translations, the
  status of an edit and the readers are left out: the first three are overwritten
  by the last edit, and the readers are only ever added to by the database.
* **The newer modules** (`Stations` to `Contacts`) have one shape. A request is what a
  slot runs (`ask`, `order`, `task`, `edit`, `visit`, `call`, `thread`): an action begins
  it with the reads that come before its first write and the guards on them, and then there
  is one action for each write, named for what it does. What is read again is read there.
  Reads that follow one another with no write between them are one action where no property
  tells their order apart. A slot may fail at any step (`StationFails`, ...): a call it
  awaits throws, or the process ends, and its last writes are not made.
* **Entries.** The members of a station or a space, and the tags, are sequences, since the code
  finds an entry and then saves it by its place. A push moves the version and asks for none; the
  fields of a place ask for the version read; a whole list does both. In `Stations` and in
  `Desk` no entry is ever taken out, so a place keeps its meaning; in `Spaces` a refusal
  takes one out.
* **A user is also an email** in `Stations` and `Spaces`: an entry is of an email, and
  `named` says that it has the id of the user too, which it gets when its user joins, or is
  invited by id.
* **Filter.** `Filtered(s, I)` of `Lists` has the elements of `s` at the places `I`, in their
  order, by the rank of each place. `SelectSeq` would say the same, but it is recursive, and
  what a recursive operator yields cannot be proved.
* **Relayed events.** `heard` holds the sockets that heard the last event. To address no
  socket at all is to address every one in socket.io (`Emitted`, and `Addressed` of `Meetings`,
  where a socket that has not registered shows nothing yet), which the handlers of
  spaces, stations and notifications guard against and the others do not.
* **History variables** (marked in the modules) record what a property speaks
  about, and no guard reads them: `late`, `hopped`, `tidy`, `recorded`, `lost`,
  `consented`, `leavers`, `written`, `saw`, `edited`, `plain`, `settled`, `marks`, `crossed`, `stray`,
  `mixed`, `wanted`, `tangled`, `latest`, `activated`, `raced`, `blocked`, `mingled`, `hurried`. `issued` and `begun` bound the events,
  endings and requests.

Definitions under the heading "Forms with a mistake" are variants of an action
with a plausible bug; they belong to no specification. PROJECT.json names, for
each property, the variant that the property rejects.

## 3. The runs

| Run | Question | Instance |
|---|---|---|
| `watching` | are the documents of a tab right although writes overtake one another? | 2 tabs of a browser, 2 rooms, 3 events for each tab |
| `watching_comment` | is a device in a room never pushed to? (No.) | 1 tab, 2 rooms, 3 events |
| `meetings_desk` | a help desk: one seat for each user, current screens, who loses a seat | a visitor, an agent with 2 tabs, 1 call |
| `meetings_pair` | who holds seats and doodles when tabs hop between calls? | 1 user with 2 tabs, 2 calls of a link |
| `meetings_live` | does the end of a meeting reach the screens? | a visitor, an agent, 1 call |
| `meetings_white_list` | does an invitation keep the others out? (No.) | as `meetings_desk` |
| `calls` | do overlapping joins and endings keep calls consistent, keep guests of call links out of team rooms, and does an `endCall` end the call? | 2 requests, 2 callers, a guest, a team room, a link, 2 endings |
| `call_messages` | is a deleted room's chat deleted with it? (No.) | as `calls`, 1 ending |
| `group_room` | what holds of a group's membership when requests overlap? | 3 users, 3 requests, 2 at a time |
| `back_office` | do the entries of a user agree with what the user and the conversations have? does anything refer to what is deleted? what is stored twice? | a station of 2 users and 4 requests; a space of 3 users, two invited, and 3 requests; 2 scripts, 2 names of tags, a conversation, 4 requests; 2 forms of a field or two, 3 requests; each 2 at a time |
| `people` | do streams end with their sockets, and who hears what? are devices, tokens and accounts what the last request made them? do blocks hold, and does the room of two stay in sight? | 2 sockets, 2 users, 3 streams; a device, 2 rooms, 3 requests; an email, 4 requests; 2 users who may block a third, 3 requests; each 2 at a time |
| `messages` | what can overlapping requests on a message undo of one another, and what not? | the sender and another user, 2 emojis, 3 requests, 2 at a time |

**Bounds.** `MaxEvents` bounds the chat events of a socket: three are enough to
join, leave and join again, or to be in two rooms and leave one. `MaxJobs` bounds
the `CallService` calls under way in a meeting run: they are a set, so one is enough
for an ending to overlap a rejoin. `MaxEnds` bounds the endings: two endings of one
call, or of two calls, may overlap. One link is enough for two calls of its creator: when an
ending has deleted its room, it stands for the next link that is made. Each request of `Calls` runs
once: two are enough for the find of one to precede the creation by the other.
`MaxRequests` bounds the requests of `GroupRoom` and of `Messages`, `Slots` those under way at a time: two
may overlap and a third follow, or be begun when either is over. `Additions` lets a
request name two users, one who is added and one who is asked; to name a user who is in the room already
and allows unknown users is to name the other alone. Sockets are used once, as socket.io never
reuses an id: three sockets allow two tabs and a peer, or a tab that comes back.
The meetings runs need no bound on the number of events. A message starts with any one
reaction of each user, so three requests reach what needs a reaction before them: a
changed emoji that an older read brings back, two reactions or pins of overlapping
requests, a lost edit, a last message that goes back, a removal that is undone.

`back_office` and `people` check four components each, which share no variable: a behaviour
begins with one of them and takes only its steps, so the states are the sum of the four and
not their product, and a property of one is checked in all of its states. `MaxAsked`,
`MaxOrders`, `MaxTasks`, `MaxEdits`, `MaxVisits`, `MaxSteps` and `MaxTalks` bound the requests
begun: an invitation, an answer, a removal and a late second answer are four; to get
a token, a second one, and use either are four with the sign up; a block, a message
and an unblock that overlap are three. `MaxStreams` bounds the streams: a stream, the one that
a late result starts, and one of another socket or of the next start.
`MaxFields` bounds the new fields of a request.

The properties of these two runs hold of what was not disturbed: a history variable
collects the users, names or rooms that two requests overlapped on, or that a failing request was
about, and those used in a way the code does not refuse but does not provide for (each named at
the property). `marks` numbers the requests instead: the deletion of an account deletes
the spaces of its user and never looks at their extension, and an edit that has looked at the space
may write the extension afterwards, so `ClosedWithSpace` says how an extension that is open although
the space is gone came about: by an edit begun before, which wrote it after every
deletion of the space that came to its end had begun. A deletion that failed half-way promises nothing. What such cases leave behind is no part of the promise, since nothing in the code
repairs it. Whatever overlaps, on the other hand, these hold: the owner of a station
stays (`PlainMembersAgree`), nobody else's entries are changed (`OthersEntriesKept`), blocks hold for
messages begun under them (`BlocksHold`), nobody signs in who was not activated
(`SessionsActivated`), and all properties of the relays but that of the streams.

**Symmetry** is used only in runs without liveness, over sockets with the same user,
in `GroupRoom` over slots and over users, and in `Messages` over slots, emojis and the users
other than the sender, which the constants do not tell apart.

**Fairness.** `FairMeetings` assumes weak fairness of `PushRoom(r)` and `FairCalls`
of `EndStep(n)`: the database answers a read or a write, so a handler that awaits it
goes on. Nothing is assumed of clients. A client may never leave, and no socket
is assumed to close.

**Deadlock** is checked in every run but two: in each instance a restart, a crash or a
connection remains possible. In `back_office` and `people` a behaviour stops when its
requests are used up.

**Types.** The invariants `PresenceTypeOK`, `MeetingsTypeOK`, `GroupTypeOK` and
`MessagesTypeOK`, and with them `NoGhostOnline` and `MeetingsNonEmpty`, are proved
for every instance, and no run checks them any more. `BackOfficeTypes` and `PeopleTypes`
are the type invariants of the four modules of their run; they are checked and proved.

### What the runs with a violation show

* `watching_comment`: `chat.leave` deletes one document of the socket, whichever.
  In the trace a tab enters room A before it has registered, which stores no document,
  then registers, enters B, and leaves A: the delete takes the document of B, the only one
  there is, and the device is pushed to while it watches B. All writes are executed before the
  next event, so nothing was reordered, and a delete by room would leave the document
  alone; `recorded` counts a document only if it was stored with every delete before it
  executed. `SettledDocsExact` says when documents are right: one room at a time,
  registered first, no event before the previous write is done.
* `meetings_white_list`: the first join awaits the room and then assigns a new
  meeting. An invitation handled meanwhile sets the white list on a meeting which the
  resumed join replaces; the next user gets in without being invited, or the
  replacement itself seats one who is not.
* `call_messages`: the message that announces a call is not awaited and may be stored
  after `endCall` deleted the messages of the room.

## 4. The proofs

Every invariant and every action property of the passing runs is also a theorem: for any
number of users, sockets, documents and requests, and any number of requests at a time.

Assumptions, each named in the module that declares the constants: the bounds on the requests
are natural numbers, and what stands for "none" is none of the things it stands beside
(`NoList`, `NoSocket`, `NoUser`, `NoEmoji`, `NoPin`, `NoCall`, `NoScript`, `Third`, `Null`);
`MeetingsAssumption` has the types of its constants; `MessagesAssumption` says that the sender
is a user, `StationsAssumption` and `SpacesAssumption` that the owner is one of the people, and those
invited with the creation of a space distinct others;
`DevicesAssumption` that no room is a subscription. `ContactsAssumption` says that the pair is
of two users, which is what the module is about. `Calls`, `Forms` and `Desk` ask that the sets
of which a slot names a member are not empty. `Presence` assumes nothing. No assumption
bounds the sets: they may be infinite where the definitions allow it.

None of the properties is inductive. What is added to each is, in most cases, what one request
under way may still rely on of what it read: while nothing it was disturbed by happened, the
documents are as its next write expects them (`Expects`, `Sound`, `Awaits`, `PhaseOK`,
`FindsOK`). The proofs share a form: lemmas that say what a step does to the slots and to the
documents; lemmas that a request keeps what it relies on under such a step of another; and one
lemma for each action.

* `Presence_proofs`. `PresenceInv` is `PresenceTypeOK`, `NoGhostOnline` and
  *announced = DOMAIN clients*; the last two depend on each other through
  `CleanedOf`, which keeps a key while it has sockets. `PresenceRefinement` maps each
  step to a step of `OnlineUsers`: a disconnection is a `Drop`, and a restart a `Reset`.
* `Meetings_proofs`. Every step of the meetings is a step of the registry or leaves it
  unchanged (`MeetingsImplementPresence`), so the theorems of `Presence` hold in the
  composition; with them `MeetingsTypeOK` is inductive. `SoundMeetings` is what each meeting
  satisfies on its own, non-empty and one seat per user at a help desk: five lemmas say what
  each handler does to a meeting, and `SoundNext` combines them. `HelpDeskOneSeatPerUser` needs
  the guard `Blocked`; `MeetingsNonEmpty` needs the test of `LeaveCall`. That a seat belongs to
  a bound socket is not inductive alone: a closed socket could be bound, and a new socket could
  hold a seat already. The invariant is `MeetingsBound` with `NewIsFresh`: a socket that never
  connected has no binding, no seat, no join under way. `EvictionHolds` is an action property
  that follows from the effect lemmas and from what a binding says. For `ScreensCurrent`,
  `MembersCopied` says that the members a meeting was given are those of its room, so that a
  push reaches everybody who is told, and `OwnRegistry` that a client is registered as its
  user; then every handler that changes what is shown begins a push of that room.
* `GroupRoom_proofs`. `ConsentNeeded`
  is not inductive: a write may bring in whoever is in the list that was read, so
  `ConsentInv` says the same of each such list and of each user found fit. For
  `LeavesKeepLeavers`, `LeaversInv` says that a leave read at the current version read
  a list without the leavers: other writes do not move the version, but they only put
  back users who by that are no longer leavers. `CurrentReadsKeepPromise` needs of each
  request that it was justified in the room it read (`AllJustified`); a current read
  then justifies the step of `Membership`. With one slot every read is current, and the
  room implements `Membership` (`SerialKeepsPromise`).
* `Messages_proofs`. `GlobalInv` adds to the properties that the requests under way are
  distinct, that what a request saw was written, and that reactions and pins are of
  requests that wrote. `SlotInv` says what the read of a request still
  guarantees. While the version it read is current, the reactions are those it read, but for
  their emojis, and so are the removals (`ReadInv`). An edit it saw stored is in the history it
  read, or was lost to an edit that overlapped it (`EditInv`). No pin was stored when a
  request that will insert one looked (`PinInv`). A request that will write the last message
  began before the newer one, or another had already put this message back that did
  (`LastInv`). The proof is by rely: `Kept` says
  that `SlotInv` of one request survives a step of another as long as that step is one of
  `Evolves`, and a lemma for each action shows that it is.
* `Calls_proofs`. `CallsInv` says of each request what it has found (`ReqOK`): one about to
  create a call has seen none that the new one would be a twin of, one that was answered is
  among the participants of its call; and of each ending that it read its call as anonymous
  or not as the call is (`EndOK`), since an ending deletes a room by that. `Evolves` is
  what any step may do to the calls that are there: an ordinary one stays in its room, loses
  nobody and does not open again. Two of the action properties follow from it.
* `People_proofs`, in five parts.
  *Relays*: the relays make the registry's own steps (`RelaysImplementPresence`), and a
  stream kept for a socket is that socket's, so that ending it ends no other (`StreamsInv`).
  *Devices*: `FitsInv` is `SettledDevices` for what is busy as well, with what the one request
  about it still expects (`Expects`): the document it found is there, the room it mutes is not
  muted yet, the document it deletes is the only one of its room. What breaks an expectation is
  another request about the same device or room, and that is `tangled`.
  *Accounts*: `SessionsActivated` is inductive with the fact that a request to set up or to
  delete an account comes from a session of it (`ActivatedInv`), and holds whatever overlaps.
  `KeptInv` says that every account not in `raced` is sound as seen from the step its one request
  has reached (`Sound`); it rests on `FreshInv`: the account and the tokens of a request that
  is still to come are nobody's.
  *Watching*: the chat events leave the registry its promise; `SettledInv` says of each tidy
  socket which documents and which writes under way it has, all with its own token, and
  then `PushSkipsSettledWatchers` follows from the documents that a push reads.
  *Contacts*: `ThreadOK` says of a request that the blocks it noticed stand, so that none is
  passed (`BlocksHold`); `BlacklistOK` that the one request about a list still has what is
  stored; `RoomOK` and `PhaseOK` say of a room that no requests overlapped on how far its one
  request has brought it: who still waits, and what the request saw; and `OneRoom` that a
  second room of the two is made only by requests that overlapped.
* `BackOffice_proofs`, in four parts.
  *Forms*: `EditOK` (a request brings fields of its own), `Awaits` (what the one
  request about a form still expects of its fields), `NameOK` and `AnswerOK` (whoever looked
  and is about to store found nothing), and `Apart`: two requests about one subject are
  recorded in `mixed`.
  *Desk*: the same with `ScriptOK`, `TagOK`, `RatingOK` and `TagNameOK`; the two tags
  that every space begins with stay where they are (`FirstTags`), so that the task that
  completes a conversation gives it a tag that lives.
  *Spaces*: `TokensOK` (a token is of one entry) and `OrderOK` (while the version it read
  stands, the place a request has is one of its user) need each other: a push, a refusal and
  a save all depend on the version check for it. `OthersEntriesKept` follows from `OrderOK`.
  `SettledOK` says that a user whom requests regard one at a time has one entry, that a
  refusal under way has of him what the space has (`ListOK`), and that whoever opens a
  conversation meanwhile counted him. An edit may be under way while the space is
  deleted, so `ClosedInv` counts: an edit that is about to write the extension of a deleted space
  began before the space was deleted, an open extension was written since each deletion that came
  to its end had begun, and no mark is ahead of the number of requests; a deletion that ends
  leaves the extension closed, or finds it so.
  *Stations*: `AskOK` holds whatever overlaps: the place that a request has is one of its user
  and never the first, which is the owner's. `PlainOK` is `PlainMembersAgree` for users about whom a
  request is under way as well: the list of a user may be ahead of his entry only while
  the save that follows is to come (`Ahead`), or the update of the list that nobody awaits
  (`pulls`), or the close of a deletion that has cleared the lists; an entry that a save is
  for is the only live one of its user and still pending.
  `LeastPlace` serves all searches of a list: the minimum of a non-empty set of
  naturals is in it, by the well-foundedness of their order.
* `Lists_proofs`. The ranks of the places kept are one to one with the places of the
  result (`RanksOfPlaces`), so a filtered list has an element for each place kept, and nothing
  else (`FilteredPlaces`).

The runs of four modules side by side take steps of each alone: `PeopleApart` and
`BackOfficeApart` carry what is proved of one to the run.

Only model-checked: the liveness properties `EndIsSeen` and `EndCallEnds`, which depend on
fairness and are out of the prover's reach. That the three documented promises of section 3 fail
is shown by the runs that find the violation.

## 5. Not modelled

* *Queries.* Analytics and charts of the help desk, search and recommendation, the lists
  of stations, spaces, forms, submissions and messages. They change no state; of the lists,
  those that decide whether a user still sees a room are operators of `Contacts`.
* *Wording and pure data.* The text of notifications and mails, translations, drawings of
  doodles and screen sharing, the names, avatars and colours of rooms, stations and spaces,
  profiles. `callStart` sets a start time that nothing reads back.
* *Single writes nothing else depends on.* App notifications, bots and their summaries, teams
  of a station, visitors of a space, the notifications of a space, readers of a message.
* *External.* Mail, storage, the translation service and Firebase hold none of this state;
  `Dies` and `Utterance` say what the last and the speech service may do.
* *Kinds of room.* `deleteContact` does not look at the kind of the room, and would make a group
  or a conversation of a help desk wait; it is modelled in the rooms of
  two only (`Contacts`), whose users are contacts. A user who blocks themselves, and the lists of a user whose account is
  deleted, are left out there.
* *Not together.* `Meetings` and `Calls` are not composed: an `endCall` under way while a
  participant rejoins is in each of them alone, and the call that a restart leaves open in neither
  property. The push of a message decides at its read of the documents whom it reaches; who joins
  the room before it is sent is pushed to (`SendNotification`).
  The messages of discussions and forwarded ones are not modelled, nor is what `create`
  does for a bot.
* *A flaw seen and not in a run.* A socket that disconnects while its first join awaits is seated
  afterwards, in a meeting that nothing deletes (`late` in `Meetings`).

## 6. What comes next

1. `CallSystem`: `Meetings` with `Calls`, rejoining while `endCall` runs, and restarts; with it
   a proof that each of the two is implemented by the composition.
2. The safety facts that the liveness properties rest on: that a push is under way whenever a
   screen is not current for a member, and that each ending is at a step that is enabled.
3. Messages of discussions and forwarded ones.
