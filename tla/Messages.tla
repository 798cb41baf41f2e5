------------------------------ MODULE Messages ------------------------------
(***************************************************************************)
(* What MessagesService does to one message of a group after it was sent:  *)
(* react, remove, update (an edit), pin and seen, and what these make of   *)
(* the last message of its room.                                           *)
(*                                                                         *)
(* Each method reads the document, awaits other reads, and writes.  The    *)
(* saves of react and remove are those of mongoose: a $push moves the      *)
(* version v and asks nothing; a whole array moves it and asks for the     *)
(* version that was read; the field of an element found by its position    *)
(* asks for it and does not move it.  The update of an edit and of a room  *)
(* asks nothing and moves nothing.                                         *)
(*                                                                         *)
(* A reaction is told from the others by its user and the request that     *)
(* pushed it: the code does it by its place in the list, which no save     *)
(* moves without moving the version.  An edit is the request that made it. *)
(***************************************************************************)
EXTENDS Naturals

CONSTANTS
  Users,
  Sender,      \* the user who sent the message
  Emojis,
  Slots,       \* the requests that may be under way at a time
  NoEmoji,
  NoPin,
  MaxRequests  \* bound on the requests begun

ASSUME MessagesAssumption ==
  /\ Sender \in Users
  /\ NoEmoji \notin Emojis
  /\ MaxRequests \in Nat
  /\ NoPin \notin [id : 1..MaxRequests, user : Users]

VARIABLES
  message,  \* the Message document
  pins,     \* the PinMessage documents of the message
  last,     \* the last message of its room: this one or a newer one
  req,      \* [Slots -> the request it runs]
  begun,    \* the number of requests so far
  written,  \* history: the requests that made their write, Earlier, Newer
  saw,      \* history: what was written when each request made its read
  edited    \* history: the requests whose edit was stored

messagesVars == <<message, pins, last, req, begun, written, saw, edited>>

Requests == 1..MaxRequests

(* Two more writers among the requests: whoever reacted to the message       *)
(* before, and whoever sends a newer one.                                    *)
Earlier == 0

Newer == MaxRequests + 1

Writers == 0..(MaxRequests + 1)

(* One entry of the reactions of a message. *)
Reaction == [id : {Earlier} \union Requests, user : Users, emoji : Emojis]

Message == [reactions : SUBSET Reaction, removedFor : SUBSET Users,
            edits : SUBSET Requests, v : Nat]

(* One pin per user and message: the unique index. *)
Pin == [id : Requests, user : Users]

Last == {"this", "newer"}

(* The members of the room as one lookup finds them: GroupRoom moves them.   *)
Members == [participants : SUBSET Users, waitingUsers : SUBSET Users]

(* at: what the request does next, with the message it has read.             *)
Request == [at : {"react", "removeRoom", "remove", "edit", "findPin", "pin", "unpin",
                  "seenRoom", "last"},
            n : Requests, user : Users, emoji : Emojis \union {NoEmoji},
            all : BOOLEAN, hide : SUBSET Users, last : Last,
            pin : Pin \union {NoPin}, read : Message]

Sent == [reactions |-> {}, removedFor |-> {}, edits |-> {}, v |-> 0]

Idle == [at |-> "idle", n |-> 0, user |-> Sender, emoji |-> NoEmoji, all |-> FALSE,
         hide |-> {}, last |-> "this", pin |-> NoPin, read |-> Sent]

(* The message was sent, and some users have reacted to it. *)
MessagesInit ==
  /\ \E emojiOf \in [Users -> Emojis \union {NoEmoji}] :
       message = [Sent EXCEPT !.reactions =
         {[id |-> Earlier, user |-> u, emoji |-> emojiOf[u]] :
            u \in {w \in Users : emojiOf[w] # NoEmoji}}]
  /\ pins = {}
  /\ last = "this"
  /\ req = [q \in Slots |-> Idle] /\ begun = 0
  /\ written = {Earlier} /\ saw = [n \in {Earlier} \union Requests |-> {}]
  /\ edited = {}

-----------------------------------------------------------------------------
(* findByIdAndUserId finds the room for those who take part or are invited.  *)
FindsRoom(u, members) == u \in members.participants \union members.waitingUsers

(* A request of u begins at step `at`: it keeps what it will read of the     *)
(* message.                                                                  *)
Begins(q, at, u, emoji, all, read) ==
  /\ req[q] = Idle
  /\ begun < MaxRequests /\ begun' = begun + 1
  /\ req' = [req EXCEPT ![q] =
       [at |-> at, n |-> begun + 1, user |-> u, emoji |-> emoji, all |-> all,
        hide |-> {}, last |-> "this", pin |-> NoPin, read |-> read]]
  /\ saw' = [saw EXCEPT ![begun + 1] = written]
  /\ UNCHANGED <<message, pins, last, written, edited>>

Ends(q) == req' = [req EXCEPT ![q] = Idle]

Goes(q, at) == req' = [req EXCEPT ![q].at = at]

Wrote(q) == written' = written \union {req[q].n}

Unwritten == UNCHANGED <<message, pins, written, edited>>

(* Whether a save that asks for the version it read is let through. *)
Current(q) == message.v = req[q].read.v

(* Forms with a mistake, for the runs that show which property would notice  *)
(* it: MineOfNobody, UnreactsUnchecked, RemoveSavesUnchecked,                *)
(* SeenReadsNothing, EditSavesAlone, FindsNoPin.                             *)

React(q, u, emoji) == Begins(q, "react", u, emoji, FALSE, message)

MineOfNobody(q) == {}

(* The reactions of the user, as the request read them. *)
Mine(q) == {r \in req[q].read.reactions : r.user = req[q].user}

(* Case 2, no reaction yet: one is pushed, whatever others did meanwhile. *)
Pushes(q) ==
  /\ Mine(q) = {}
  /\ message' = [message EXCEPT
       !.reactions = @ \union {[id |-> req[q].n, user |-> req[q].user,
                                emoji |-> req[q].emoji]},
       !.v = @ + 1]
  /\ Wrote(q)

UnreactsUnchecked(q) ==
  /\ \E first \in Mine(q) : first.emoji = req[q].emoji
  /\ message' = [message EXCEPT !.reactions = req[q].read.reactions \ Mine(q),
                                !.v = @ + 1]
  /\ Wrote(q)

(* Case 1, the first reaction has the emoji: all of the user's are left out, *)
(* and the others are written as they were read.                             *)
Unreacts(q) ==
  /\ \E first \in Mine(q) : first.emoji = req[q].emoji
  /\ IF Current(q)
     THEN /\ message' = [message EXCEPT !.reactions = req[q].read.reactions \ Mine(q),
                                        !.v = @ + 1]
          /\ Wrote(q)
     ELSE UNCHANGED <<message, written>>

(* Case 3, it has another: the emoji of the first is replaced in its place.  *)
ChangesEmoji(q) ==
  \E first \in Mine(q) :
    /\ first.emoji # req[q].emoji
    /\ IF Current(q)
       THEN /\ message' = [message EXCEPT !.reactions =
                 {IF <<r.id, r.user>> = <<first.id, first.user>>
                  THEN [r EXCEPT !.emoji = req[q].emoji] ELSE r : r \in @}]
            /\ Wrote(q)
       ELSE UNCHANGED <<message, written>>

ReactSaves(q) ==
  /\ req[q].at = "react"
  /\ Pushes(q) \/ Unreacts(q) \/ ChangesEmoji(q)
  /\ Ends(q)
  /\ UNCHANGED <<pins, last, begun, saw, edited>>

Remove(q, u, all) == Begins(q, "removeRoom", u, NoEmoji, all, message)

(* remove looks the room up, and throws unless it finds it, and for all      *)
(* unless the user is the sender.                                            *)
RemoveReadsRoom(q) ==
  /\ req[q].at = "removeRoom"
  /\ \E members \in Members :
       IF FindsRoom(req[q].user, members) /\ (req[q].all => req[q].user = Sender)
       THEN req' = [req EXCEPT ![q].at = "remove", ![q].last = last,
              ![q].hide = IF req[q].all THEN members.participants
                          ELSE req[q].read.removedFor \union {req[q].user}]
       ELSE Ends(q)
  /\ UNCHANGED <<last, begun, saw>> /\ Unwritten

(* The last message of the room is written again if it was this message. *)
GoesToLast(q) == IF req[q].last = "this" THEN Goes(q, "last") ELSE Ends(q)

SavesRemoved(q) ==
  /\ message' = [message EXCEPT !.removedFor = req[q].hide, !.v = @ + 1]
  /\ Wrote(q)
  /\ GoesToLast(q)

RemoveSavesUnchecked(q) ==
  /\ req[q].at = "remove"
  /\ SavesRemoved(q)
  /\ UNCHANGED <<pins, last, begun, saw, edited>>

(* The save of removedFor.  Nothing is saved of a list that is equal to the  *)
(* one read, which of two equal sets is so or not with the order of the list. *)
RemoveSaves(q) ==
  /\ req[q].at = "remove"
  /\ \/ Current(q) /\ SavesRemoved(q)
     \/ ~Current(q) /\ Ends(q) /\ UNCHANGED <<message, written>>
     \/ /\ req[q].all /\ req[q].hide = req[q].read.removedFor
        /\ GoesToLast(q) /\ UNCHANGED <<message, written>>
  /\ UNCHANGED <<pins, last, begun, saw, edited>>

SeenReadsNothing(q) ==
  /\ req[q].at = "seenRoom"
  /\ Goes(q, "last")
  /\ UNCHANGED <<last, begun, saw>> /\ Unwritten

(* seen marks the message as read, then looks whether it is the last.        *)
Seen(q, u) == Begins(q, "seenRoom", u, NoEmoji, FALSE, Sent)

SeenReadsRoom(q) ==
  /\ req[q].at = "seenRoom"
  /\ IF last = "this" THEN Goes(q, "last") ELSE Ends(q)
  /\ UNCHANGED <<last, begun, saw>> /\ Unwritten

(* The update of the room that remove and seen do not await. *)
LastWrites(q) ==
  /\ req[q].at = "last"
  /\ last' = "this"
  /\ Wrote(q)
  /\ Ends(q)
  /\ UNCHANGED <<message, pins, begun, saw, edited>>

(* update with a content, by any user; the text is translated meanwhile. *)
Edit(q, u) == Begins(q, "edit", u, NoEmoji, FALSE, message)

EditSavesAlone(q) ==
  /\ req[q].at = "edit"
  /\ message' = [message EXCEPT !.edits = {req[q].n}]
  /\ Wrote(q) /\ edited' = edited \union {req[q].n}
  /\ Ends(q)
  /\ UNCHANGED <<pins, last, begun, saw>>

(* The history that was read, with the new content in front. *)
EditSaves(q) ==
  /\ req[q].at = "edit"
  /\ message' = [message EXCEPT !.edits = req[q].read.edits \union {req[q].n}]
  /\ Wrote(q) /\ edited' = edited \union {req[q].n}
  /\ Ends(q)
  /\ UNCHANGED <<pins, last, begun, saw>>

Pins(q, u) == Begins(q, "findPin", u, NoEmoji, FALSE, Sent)

FindsNoPin(q) ==
  /\ req[q].at = "findPin"
  /\ Goes(q, "pin")
  /\ saw' = [saw EXCEPT ![req[q].n] = written]
  /\ UNCHANGED <<last, begun>> /\ Unwritten

(* pin toggles: it finds a pin of the message, by whoever it is, or none. *)
FindsPin(q) ==
  /\ req[q].at = "findPin"
  /\ IF pins = {} THEN Goes(q, "pin")
     ELSE \E p \in pins : req' = [req EXCEPT ![q].at = "unpin", ![q].pin = p]
  /\ saw' = [saw EXCEPT ![req[q].n] = written]
  /\ UNCHANGED <<last, begun>> /\ Unwritten

(* A second pin of the same user is refused by the unique index. *)
Inserts(q) ==
  /\ req[q].at = "pin"
  /\ IF \E p \in pins : p.user = req[q].user
     THEN UNCHANGED <<pins, written>>
     ELSE pins' = pins \union {[id |-> req[q].n, user |-> req[q].user]} /\ Wrote(q)
  /\ Ends(q)
  /\ UNCHANGED <<message, last, begun, saw, edited>>

Unpins(q) ==
  /\ req[q].at = "unpin"
  /\ pins' = pins \ {req[q].pin} /\ Wrote(q)
  /\ Ends(q)
  /\ UNCHANGED <<message, last, begun, saw, edited>>

-----------------------------------------------------------------------------
(* A request ends early: a call it awaits fails, or the process ends. *)
Fails(q) ==
  /\ req[q] # Idle
  /\ Ends(q)
  /\ UNCHANGED <<last, begun, saw>> /\ Unwritten

(* create writes a newer message, the first or another, as the last of the room. *)
NewerMessage ==
  /\ last' = "newer"
  /\ written' = written \union {Newer}
  /\ UNCHANGED <<message, pins, req, begun, saw, edited>>

RequestBegins(q) ==
  \E u \in Users :
    \/ \E emoji \in Emojis : React(q, u, emoji)
    \/ \E all \in BOOLEAN : Remove(q, u, all)
    \/ Seen(q, u) \/ Edit(q, u) \/ Pins(q, u)

RequestGoesOn(q) ==
  \/ ReactSaves(q)
  \/ RemoveReadsRoom(q) \/ RemoveSaves(q)
  \/ SeenReadsRoom(q) \/ LastWrites(q)
  \/ EditSaves(q)
  \/ FindsPin(q) \/ Inserts(q) \/ Unpins(q)
  \/ Fails(q)

MessagesNext ==
  \/ \E q \in Slots : RequestBegins(q) \/ RequestGoesOn(q)
  \/ NewerMessage

MessagesSpec == MessagesInit /\ [][MessagesNext]_messagesVars

-----------------------------------------------------------------------------
(* Types; the version never falls behind one that was read, so that a save   *)
(* never meets an older document than it read.                               *)
MessagesTypeOK ==
  /\ message \in Message
  /\ pins \subseteq Pin
  /\ last \in Last
  /\ req \in [Slots -> Request \union {Idle}]
  /\ begun \in 0..MaxRequests
  /\ written \subseteq {Earlier, Newer} \union 1..begun
  /\ saw \in [{Earlier} \union Requests -> SUBSET Writers]
  /\ edited \subseteq written \ {Earlier, Newer}
  /\ \A q \in Slots : /\ req[q].read.v <= message.v
                      /\ req[q].at = "react" => req[q].emoji \in Emojis

(* A request of react, remove or update leaves every reaction of another     *)
(* user where it is, and adds none for him; his emoji stays what it is, or   *)
(* is again what the request read, if he changed it meanwhile: a change of   *)
(* an emoji does not move the version.                                       *)
OthersReactionsKept ==
  [][\A q \in Slots :
       req'[q] # req[q] =>
         LET others == {r \in message.reactions : r.user # req[q].user}
             others2 == {r \in message'.reactions : r.user # req[q].user}
         IN /\ {<<r.id, r.user>> : r \in others} = {<<r.id, r.user>> : r \in others2}
            /\ \A r \in others2 : r \in others \union req[q].read.reactions]_messagesVars

(* A user has two reactions only if the requests that pushed them            *)
(* overlapped: neither had been stored when the other read the message.      *)
TwinReactionsOverlapped ==
  \A r, s \in message.reactions :
    r.user = s.user /\ r # s => r.id \notin saw[s.id] /\ s.id \notin saw[r.id]

(* A message is removed for a user until the sender removes it for all       *)
(* while the user takes no part in the room: the list of the participants is *)
(* written in the place of the list of those who removed it.                 *)
RemovedStays ==
  [][\A u \in message.removedFor \ message'.removedFor :
       \E q \in Slots : /\ req[q].at = "remove" /\ req[q].all
                        /\ req[q].user = Sender /\ u \notin req[q].hide]_messagesVars

(* An edit that was stored is missing from the history only if an edit that  *)
(* is there overlapped it.                                                   *)
LostEditsOverlapped ==
  \A n \in edited \ message.edits : \E m \in message.edits : n \notin saw[m]

(* A message has two pins only if they are of two users, whose requests      *)
(* overlapped: neither pin was stored when the other looked for one.         *)
TwinPinsOverlapped ==
  \A p, p2 \in pins :
    p # p2 => p.user # p2.user /\ p.id \notin saw[p2.id] /\ p2.id \notin saw[p.id]

(* Once a newer message was written as the last of the room, this one is the *)
(* last again only if some request that wrote began before the newer message *)
(* did: that request, or one that found this message the last after it.      *)
LastGoesBackOverlapped ==
  Newer \in written /\ last = "this" =>
    \E n \in written \ {Earlier, Newer} : Newer \notin saw[n]
=============================================================================
