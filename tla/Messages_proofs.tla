--------------------------- MODULE Messages_proofs ---------------------------
(***************************************************************************)
(* Theorems about Messages, for any number of users, of emojis, of         *)
(* requests and of requests under way at a time.                           *)
(***************************************************************************)
EXTENDS Messages, TLAPS

-----------------------------------------------------------------------------
(* Types.                                                                    *)

LEMMA SentType == Sent \in Message /\ Sent.v = 0
  BY DEF Sent, Message

(* A slot at a step runs a request. *)
LEMMA RunningType ==
  ASSUME MessagesTypeOK, NEW q \in Slots, req[q].at # "idle"
  PROVE  /\ req[q] \in Request
         /\ req[q].n \in Requests /\ req[q].user \in Users
         /\ req[q].read \in Message /\ req[q].hide \subseteq Users
         /\ req[q].pin \in Pin \union {NoPin} /\ req[q].all \in BOOLEAN
         /\ req[q].last \in Last
<1>1. req[q] \in Request
  BY DEF MessagesTypeOK, Idle
<1> QED
  BY <1>1 DEF Request

(* A slot turned to a request that read no newer document, or freed.         *)
LEMMA SlotTypes ==
  ASSUME MessagesTypeOK, NEW q \in Slots, NEW new \in Request \union {Idle},
         new.read.v <= message.v, new.at = "react" => new.emoji \in Emojis,
         message'.v \in Nat, message.v <= message'.v,
         req' = [req EXCEPT ![q] = new]
  PROVE  /\ req' \in [Slots -> Request \union {Idle}]
         /\ \A p \in Slots : /\ req'[p].read.v <= message'.v
                             /\ req'[p].at = "react" => req'[p].emoji \in Emojis
<1>1. req' \in [Slots -> Request \union {Idle}]
  BY DEF MessagesTypeOK
<1>2. ASSUME NEW p \in Slots
      PROVE  /\ req'[p].read.v <= message'.v
             /\ req'[p].at = "react" => req'[p].emoji \in Emojis
  <2>1. \A r \in Request \union {Idle} : r.read.v \in Nat
    BY SentType DEF Request, Idle, Message
  <2>2. message.v \in Nat
    BY DEF MessagesTypeOK, Message
  <2>3. req'[p] \in Request \union {Idle} /\ req'[p].read.v <= message.v
    BY <1>1 DEF MessagesTypeOK
  <2>4. req'[p].read.v \in Nat
    BY <2>1, <2>3
  <2>5. req'[p].at = "react" => req'[p].emoji \in Emojis
    BY <1>1 DEF MessagesTypeOK
  <2> QED
    BY <2>2, <2>3, <2>4, <2>5
<1> QED
  BY <1>1, <1>2

LEMMA EndsTypes ==
  ASSUME MessagesTypeOK, NEW q \in Slots, Ends(q),
         message'.v \in Nat, message.v <= message'.v
  PROVE  /\ req' \in [Slots -> Request \union {Idle}]
         /\ \A p \in Slots : /\ req'[p].read.v <= message'.v
                             /\ req'[p].at = "react" => req'[p].emoji \in Emojis
<1>1. Idle.read.v = 0 /\ message.v \in Nat
  BY SentType DEF Idle, MessagesTypeOK, Message
<1>2. PICK new \in Request \union {Idle} : new = Idle
  OBVIOUS
<1>3. new.read.v <= message.v /\ new.at # "react" /\ req' = [req EXCEPT ![q] = new]
  BY <1>1, <1>2 DEF Ends, Idle
<1> QED
  BY <1>3, SlotTypes

LEMMA GoesTypes ==
  ASSUME MessagesTypeOK, NEW q \in Slots, req[q].at # "idle",
         NEW at \in {"pin", "last"}, Goes(q, at),
         message'.v \in Nat, message.v <= message'.v
  PROVE  /\ req' \in [Slots -> Request \union {Idle}]
         /\ \A p \in Slots : /\ req'[p].read.v <= message'.v
                             /\ req'[p].at = "react" => req'[p].emoji \in Emojis
<1>1. [req[q] EXCEPT !.at = at] \in Request
  BY RunningType DEF Request
<1>2. [req[q] EXCEPT !.at = at].read = req[q].read /\ [req[q] EXCEPT !.at = at].at = at
  BY RunningType DEF Request
<1>3. req' = [req EXCEPT ![q] = [req[q] EXCEPT !.at = at]]
  BY DEF Goes
<1>4. [req[q] EXCEPT !.at = at].read.v <= message.v
  BY <1>2 DEF MessagesTypeOK
<1> QED
  BY <1>1, <1>2, <1>3, <1>4, SlotTypes

LEMMA BeginsTypes ==
  ASSUME MessagesTypeOK, NEW q \in Slots, NEW u \in Users,
         NEW at \in {"react", "removeRoom", "edit", "findPin", "seenRoom"},
         NEW emoji \in Emojis \union {NoEmoji}, NEW all \in BOOLEAN,
         NEW read \in {message, Sent}, at = "react" => emoji \in Emojis,
         Begins(q, at, u, emoji, all, read)
  PROVE  /\ MessagesTypeOK'
         /\ req' = [req EXCEPT ![q] =
              [at |-> at, n |-> begun + 1, user |-> u, emoji |-> emoji, all |-> all,
               hide |-> {}, last |-> "this", pin |-> NoPin, read |-> read]]
<1> PICK new : new = [at |-> at, n |-> begun + 1, user |-> u, emoji |-> emoji,
                      all |-> all, hide |-> {}, last |-> "this", pin |-> NoPin,
                      read |-> read]
  OBVIOUS
<1>1. begun + 1 \in Requests /\ begun' \in 0..MaxRequests /\ begun' = begun + 1
  BY MessagesAssumption DEF Begins, MessagesTypeOK, Requests
<1>2. new \in Request /\ new.read = read /\ new.at = at /\ new.emoji = emoji
  BY <1>1, SentType DEF Request, MessagesTypeOK, Last
<1>3. read.v <= message.v /\ message.v \in Nat /\ message.v <= message.v
  BY SentType DEF MessagesTypeOK, Message
<1>4. req' = [req EXCEPT ![q] = new]
  BY DEF Begins
<1>5. message' = message
  BY DEF Begins
<1>6. /\ req' \in [Slots -> Request \union {Idle}]
      /\ \A p \in Slots : /\ req'[p].read.v <= message'.v
                          /\ req'[p].at = "react" => req'[p].emoji \in Emojis
  BY <1>2, <1>3, <1>4, <1>5, SlotTypes
<1>7. written' \subseteq {Earlier, Newer} \union 1..begun'
  BY <1>1 DEF Begins, MessagesTypeOK
<1>8. saw' \in [{Earlier} \union Requests -> SUBSET Writers]
  BY <1>1, MessagesAssumption DEF Begins, MessagesTypeOK, Requests, Writers, Earlier, Newer
<1>9. MessagesTypeOK'
  BY <1>1, <1>5, <1>6, <1>7, <1>8 DEF Begins, MessagesTypeOK
<1> QED
  BY <1>4, <1>9

(* What a request that reacts does to the message. *)
ReactEffect(q) == Pushes(q) \/ Unreacts(q) \/ ChangesEmoji(q)

(* The reactions after it. *)
Pushed(q) ==
  message.reactions \union
    {[id |-> req[q].n, user |-> req[q].user, emoji |-> req[q].emoji]}

Left(q) == req[q].read.reactions \ Mine(q)

Changed(q, first) ==
  {IF <<r.id, r.user>> = <<first.id, first.user>>
   THEN [r EXCEPT !.emoji = req[q].emoji] ELSE r : r \in message.reactions}

(* Only the reactions R and the version v are written. *)
Reacted(R, v) ==
  /\ message' \in Message
  /\ message'.reactions = R /\ message'.v = v
  /\ message'.removedFor = message.removedFor /\ message'.edits = message.edits

(* A push, what is left of a current read, or a current read with an emoji   *)
(* changed.                                                                  *)
LEMMA ReactCases ==
  ASSUME MessagesTypeOK, NEW q \in Slots, req[q].at = "react", ReactEffect(q)
  PROVE  \/ Mine(q) = {} /\ Wrote(q) /\ Reacted(Pushed(q), message.v + 1)
         \/ Current(q) /\ Wrote(q) /\ Reacted(Left(q), message.v + 1)
         \/ /\ Current(q) /\ Wrote(q)
            /\ \E first \in Mine(q) : Reacted(Changed(q, first), message.v)
         \/ UNCHANGED <<message, written>>
<1>0. /\ message \in Message /\ message.v \in Nat
      /\ message.reactions \subseteq Reaction /\ req[q].read.reactions \subseteq Reaction
      /\ req[q].user \in Users /\ req[q].n \in Requests /\ req[q].emoji \in Emojis
  BY RunningType DEF MessagesTypeOK, Message
<1> PICK w \in Nat : w = message.v + 1
  BY <1>0
<1>1. CASE Pushes(q)
  <2>1. PICK R \in SUBSET Reaction : R = Pushed(q)
    <3>1. [id |-> req[q].n, user |-> req[q].user, emoji |-> req[q].emoji] \in Reaction
      BY <1>0 DEF Reaction
    <3>2. Pushed(q) \subseteq Reaction
      BY <1>0, <3>1 DEF Pushed
    <3> QED
      BY <3>2
  <2>2. message' = [message EXCEPT !.reactions = R, !.v = w]
    BY <1>1, <2>1 DEF Pushes, Pushed
  <2>3. Reacted(R, w)
    BY <1>0, <2>2 DEF Message, Reacted
  <2> QED
    BY <1>1, <2>1, <2>3 DEF Pushes
<1>2. CASE Unreacts(q) /\ Current(q)
  <2>1. PICK R \in SUBSET Reaction : R = Left(q)
    BY <1>0 DEF Left
  <2>2. message' = [message EXCEPT !.reactions = R, !.v = w]
    BY <1>2, <2>1 DEF Unreacts, Left
  <2>3. Reacted(R, w)
    BY <1>0, <2>2 DEF Message, Reacted
  <2> QED
    BY <1>2, <2>1, <2>3 DEF Unreacts
<1>3. CASE ChangesEmoji(q) /\ Current(q)
  <2>1. PICK first \in Mine(q) :
          message' = [message EXCEPT !.reactions = Changed(q, first)] /\ Wrote(q)
    BY <1>3 DEF ChangesEmoji, Changed
  <2>2. PICK R \in SUBSET Reaction : R = Changed(q, first)
    <3>1. \A r \in message.reactions : [r EXCEPT !.emoji = req[q].emoji] \in Reaction
      <4> TAKE r \in message.reactions
      <4>1. r \in Reaction
        BY <1>0
      <4> QED
        BY <1>0, <4>1 DEF Reaction
    <3>2. Changed(q, first) \subseteq Reaction
      BY <1>0, <3>1 DEF Changed
    <3> QED
      BY <3>2
  <2>3. Reacted(R, message.v)
    BY <1>0, <2>1, <2>2 DEF Message, Reacted
  <2> QED
    BY <1>3, <2>1, <2>2, <2>3
<1>4. CASE ~Current(q) /\ ~Pushes(q)
  BY <1>4 DEF ReactEffect, Unreacts, ChangesEmoji
<1> QED
  BY <1>1, <1>2, <1>3, <1>4 DEF ReactEffect

LEMMA RunningWrites ==
  ASSUME MessagesTypeOK, NEW q \in Slots, req[q].at # "idle", req[q].n <= begun,
         written' \in {written, written \union {req[q].n}}
  PROVE  written' \subseteq {Earlier, Newer} \union 1..begun
  BY RunningType DEF MessagesTypeOK, Requests

(* The requests under way have begun. *)
Begun == \A q \in Slots : req[q].at # "idle" => req[q].n <= begun

TypeInv == MessagesTypeOK /\ Begun

LEMMA BeginStepTypes ==
  ASSUME TypeInv, NEW q \in Slots, RequestBegins(q)
  PROVE  /\ MessagesTypeOK'
         /\ \E u \in Users, at \in {"react", "removeRoom", "edit", "findPin", "seenRoom"},
               emoji \in Emojis \union {NoEmoji}, all \in BOOLEAN, read \in {message, Sent} :
              /\ at \in {"react", "removeRoom", "edit"} => read = message
              /\ Begins(q, at, u, emoji, all, read)
<1> PICK u \in Users : \/ \E emoji \in Emojis : React(q, u, emoji)
                       \/ \E all \in BOOLEAN : Remove(q, u, all)
                       \/ Seen(q, u) \/ Edit(q, u) \/ Pins(q, u)
  BY DEF RequestBegins
<1>1. CASE \E emoji \in Emojis : React(q, u, emoji)
  BY <1>1, BeginsTypes DEF React, TypeInv
<1>2. CASE \E all \in BOOLEAN : Remove(q, u, all)
  BY <1>2, BeginsTypes DEF Remove, TypeInv
<1>3. CASE Seen(q, u)
  BY <1>3, BeginsTypes DEF Seen, TypeInv
<1>4. CASE Edit(q, u)
  BY <1>4, BeginsTypes DEF Edit, TypeInv
<1>5. CASE Pins(q, u)
  BY <1>5, BeginsTypes DEF Pins, TypeInv
<1> QED
  BY <1>1, <1>2, <1>3, <1>4, <1>5

(* The requests as a step leaves them, where the message was not written.    *)
RequestTypes ==
  /\ req' \in [Slots -> Request \union {Idle}]
  /\ \A p \in Slots : /\ req'[p].read.v <= message'.v
                      /\ req'[p].at = "react" => req'[p].emoji \in Emojis

LEMMA SameVersion ==
  ASSUME MessagesTypeOK, message' = message
  PROVE  message' \in Message /\ message'.v \in Nat /\ message.v <= message'.v
  BY DEF MessagesTypeOK, Message

LEMMA ReactSavesTypes ==
  ASSUME TypeInv, NEW q \in Slots, ReactSaves(q)
  PROVE  MessagesTypeOK'
<1>1. ReactEffect(q) /\ req[q].at = "react" /\ MessagesTypeOK /\ Ends(q)
      /\ UNCHANGED <<pins, last, begun, saw, edited>>
  BY DEF ReactSaves, ReactEffect, TypeInv
<1>2. message' \in Message /\ message.v <= message'.v /\ message'.v \in Nat
      /\ written' \in {written, written \union {req[q].n}}
  <2>1. message \in Message /\ message.v \in Nat
    BY <1>1 DEF MessagesTypeOK, Message
  <2>2. message' \in Message => message'.v \in Nat
    BY DEF Message
  <2> QED
    BY <1>1, <2>1, <2>2, ReactCases DEF Reacted, Wrote
<1>3. RequestTypes
  BY <1>1, <1>2, EndsTypes DEF RequestTypes
<1>4. written' \subseteq {Earlier, Newer} \union 1..begun
  BY <1>1, <1>2, RunningWrites DEF TypeInv, Begun
<1>5. edited \subseteq written' \ {Earlier, Newer}
  BY <1>1, <1>2 DEF MessagesTypeOK
<1> QED
  BY <1>1, <1>2, <1>3, <1>4, <1>5 DEF MessagesTypeOK, RequestTypes

LEMMA GoesToLastTypes ==
  ASSUME MessagesTypeOK, NEW q \in Slots, req[q].at # "idle", GoesToLast(q),
         message'.v \in Nat, message.v <= message'.v
  PROVE  RequestTypes
  BY EndsTypes, GoesTypes DEF GoesToLast, RequestTypes

LEMMA RemoveTypes ==
  ASSUME TypeInv, NEW q \in Slots, RemoveReadsRoom(q) \/ RemoveSaves(q)
  PROVE  MessagesTypeOK'
<1>0. MessagesTypeOK /\ req[q].at # "idle"
  BY DEF RemoveReadsRoom, RemoveSaves, TypeInv
<1>1. CASE RemoveReadsRoom(q)
  <2>1. /\ UNCHANGED <<message, pins, last, begun, written, saw, edited>>
        /\ message' \in Message /\ message'.v \in Nat /\ message.v <= message'.v
    BY <1>0, <1>1, SameVersion DEF RemoveReadsRoom, Unwritten
  <2>2. CASE Ends(q)
    BY <1>0, <2>1, <2>2, EndsTypes DEF MessagesTypeOK
  <2>3. CASE ~Ends(q)
    <3>1. PICK members \in Members :
            req' = [req EXCEPT ![q].at = "remove", ![q].last = last,
              ![q].hide = IF req[q].all THEN members.participants
                          ELSE req[q].read.removedFor \union {req[q].user}]
      BY <1>1, <2>3 DEF RemoveReadsRoom
    <3>2. PICK hide \in SUBSET Users :
            hide = IF req[q].all THEN members.participants
                   ELSE req[q].read.removedFor \union {req[q].user}
      BY <1>0, RunningType DEF Members, Message
    <3>3. PICK new : new = [req[q] EXCEPT !.at = "remove", !.last = last, !.hide = hide]
      OBVIOUS
    <3>4. last \in Last /\ req[q] \in Request
      BY <1>0, RunningType DEF MessagesTypeOK
    <3>5. new \in Request /\ new.read = req[q].read /\ new.at = "remove"
      BY <3>3, <3>4 DEF Request
    <3>6. req' = [req EXCEPT ![q] = new] /\ new.read.v <= message.v
      BY <1>0, <3>1, <3>2, <3>3, <3>5 DEF MessagesTypeOK
    <3> QED
      BY <1>0, <2>1, <3>5, <3>6, SlotTypes DEF MessagesTypeOK
  <2> QED
    BY <2>2, <2>3
<1>2. CASE RemoveSaves(q)
  <2>1. CASE SavesRemoved(q)
    <3> PICK H \in SUBSET Users : H = req[q].hide
      BY <1>0, RunningType
    <3>1. message \in Message /\ message.v \in Nat
      BY <1>0 DEF MessagesTypeOK, Message
    <3> PICK w \in Nat : w = message.v + 1
      BY <3>1
    <3>2. message' = [message EXCEPT !.removedFor = H, !.v = w]
      BY <2>1 DEF SavesRemoved
    <3>3. message' \in Message /\ message'.v = w
      BY <3>1, <3>2 DEF Message
    <3>4. RequestTypes
      BY <1>0, <2>1, <3>1, <3>3, GoesToLastTypes DEF SavesRemoved
    <3>5. written' = written \union {req[q].n} /\ UNCHANGED <<pins, last, begun, saw, edited>>
      BY <1>2, <2>1 DEF SavesRemoved, Wrote, RemoveSaves
    <3>6. written' \subseteq {Earlier, Newer} \union 1..begun
      BY <1>0, <3>5, RunningWrites DEF TypeInv, Begun
    <3> QED
      BY <1>0, <3>3, <3>4, <3>5, <3>6 DEF MessagesTypeOK, RequestTypes
  <2>2. CASE ~SavesRemoved(q)
    <3>1. /\ UNCHANGED <<message, pins, last, begun, written, saw, edited>>
          /\ Ends(q) \/ GoesToLast(q)
      BY <1>2, <2>2 DEF RemoveSaves
    <3>2. message' \in Message /\ message'.v \in Nat /\ message.v <= message'.v
      BY <1>0, <3>1, SameVersion
    <3>3. RequestTypes
      BY <1>0, <3>1, <3>2, EndsTypes, GoesToLastTypes DEF RequestTypes
    <3> QED
      BY <1>0, <3>1, <3>2, <3>3 DEF MessagesTypeOK, RequestTypes
  <2> QED
    BY <2>1, <2>2
<1> QED
  BY <1>1, <1>2

LEMMA EditTypes ==
  ASSUME TypeInv, NEW q \in Slots, EditSaves(q)
  PROVE  MessagesTypeOK'
<1>0. /\ MessagesTypeOK /\ req[q].at # "idle" /\ Ends(q)
      /\ message \in Message /\ message.v \in Nat
      /\ UNCHANGED <<pins, last, begun, saw>>
  BY DEF EditSaves, TypeInv, MessagesTypeOK, Message
<1>1. PICK edits \in SUBSET Requests : edits = req[q].read.edits \union {req[q].n}
  BY <1>0, RunningType DEF Message
<1>2. message' = [message EXCEPT !.edits = edits]
  BY <1>1 DEF EditSaves
<1>3. message' \in Message /\ message'.v = message.v
  BY <1>0, <1>2 DEF Message
<1>4. RequestTypes
  BY <1>0, <1>3, EndsTypes DEF RequestTypes
<1>5. written' = written \union {req[q].n} /\ edited' = edited \union {req[q].n}
  BY DEF EditSaves, Wrote
<1>6. written' \subseteq {Earlier, Newer} \union 1..begun
  BY <1>0, <1>5, RunningWrites DEF TypeInv, Begun
<1>7. edited' \subseteq written' \ {Earlier, Newer}
  BY <1>0, <1>5, RunningType, MessagesAssumption
  DEF MessagesTypeOK, Requests, Earlier, Newer
<1> QED
  BY <1>0, <1>3, <1>4, <1>5, <1>6, <1>7 DEF MessagesTypeOK, RequestTypes

LEMMA OtherTypes ==
  ASSUME TypeInv, NEW q \in Slots,
         SeenReadsRoom(q) \/ LastWrites(q) \/ FindsPin(q) \/ Inserts(q) \/ Unpins(q) \/ Fails(q)
  PROVE  MessagesTypeOK'
<1>0. /\ MessagesTypeOK /\ req[q] # Idle /\ message' = message
      /\ UNCHANGED <<begun, edited>>
  BY DEF SeenReadsRoom, LastWrites, FindsPin, Inserts, Unpins, Fails, TypeInv, Idle,
         Unwritten
<1>1. req[q] \in Request /\ req[q].at # "idle"
  BY <1>0 DEF MessagesTypeOK, Request
<1>2. message' \in Message /\ message'.v \in Nat /\ message.v <= message'.v
  BY <1>0, SameVersion
<1>3. RequestTypes
  <2>1. CASE Ends(q) \/ Goes(q, "last") \/ Goes(q, "pin")
    BY <1>0, <1>1, <1>2, <2>1, EndsTypes, GoesTypes DEF RequestTypes
  <2>2. CASE \E p \in pins : req' = [req EXCEPT ![q].at = "unpin", ![q].pin = p]
    <3> PICK p \in pins : req' = [req EXCEPT ![q].at = "unpin", ![q].pin = p]
      BY <2>2
    <3>1. p \in Pin
      BY <1>0 DEF MessagesTypeOK
    <3>2. PICK new : new = [req[q] EXCEPT !.at = "unpin", !.pin = p]
      OBVIOUS
    <3>3. new \in Request /\ new.read = req[q].read /\ new.at = "unpin"
      BY <1>1, <3>1, <3>2 DEF Request
    <3>4. req' = [req EXCEPT ![q] = new] /\ new.read.v <= message.v
      BY <1>0, <3>2, <3>3 DEF MessagesTypeOK
    <3> QED
      BY <1>0, <1>2, <3>3, <3>4, SlotTypes DEF RequestTypes
  <2> QED
    BY <2>1, <2>2 DEF SeenReadsRoom, LastWrites, FindsPin, Inserts, Unpins, Fails
<1>4. written' \in {written, written \union {req[q].n}}
  BY DEF SeenReadsRoom, LastWrites, FindsPin, Inserts, Unpins, Fails, Unwritten, Wrote
<1>5. written' \subseteq {Earlier, Newer} \union 1..begun
  BY <1>0, <1>1, <1>4, RunningWrites DEF TypeInv, Begun
<1>6. edited \subseteq written' \ {Earlier, Newer}
  BY <1>0, <1>4 DEF MessagesTypeOK
<1>7. pins' \subseteq Pin /\ last' \in Last
  <2>1. [id |-> req[q].n, user |-> req[q].user] \in Pin
    BY <1>0, <1>1, RunningType DEF Pin
  <2> QED
    BY <1>0, <2>1 DEF SeenReadsRoom, LastWrites, FindsPin, Inserts, Unpins, Fails, Unwritten,
                      MessagesTypeOK, Last
<1>8. saw' \in [{Earlier} \union Requests -> SUBSET Writers]
  <2>1. written \subseteq Writers
    BY <1>0, MessagesAssumption DEF MessagesTypeOK, Earlier, Newer, Writers
  <2> QED
    BY <1>0, <1>1, <2>1, RunningType
    DEF SeenReadsRoom, LastWrites, FindsPin, Inserts, Unpins, Fails, MessagesTypeOK
<1> QED
  BY <1>0, <1>2, <1>3, <1>5, <1>6, <1>7, <1>8 DEF MessagesTypeOK, RequestTypes

-----------------------------------------------------------------------------
(* The invariant.  What a request read, and what was written when it read it, *)
(* bounds what the others can have changed since.                            *)

(* S has the reaction r, perhaps with another emoji. *)
Has(S, r) == \E s \in S : s.id = r.id /\ s.user = r.user

SameKeys(S, T) == (\A r \in S : Has(T, r)) /\ (\A r \in T : Has(S, r))

(* No two entries of one user and request. *)
Alone(S) == \A r, s \in S : r.id = s.id /\ r.user = s.user => r = s

(* Some request that made its write began before the newer message.          *)
Explained == \E n \in written \ {Earlier, Newer} : Newer \notin saw[n]

Numbered(q) ==
  req[q].at # "idle" =>
    req[q].n <= begun /\ (req[q].at # "last" => req[q].n \notin written)

(* While the version it read is current, a request has read the reactions    *)
(* there are, but for their emojis, and the users the message is removed for; *)
(* and it has read each reaction pushed by a write made before its read.     *)
ReadInv(q) ==
  req[q].at \in {"react", "removeRoom", "remove", "edit"} =>
    /\ Alone(req[q].read.reactions)
    /\ req[q].read.edits \subseteq edited
    /\ Current(q) => /\ SameKeys(message.reactions, req[q].read.reactions)
                     /\ message.removedFor = req[q].read.removedFor
    /\ \A r \in message.reactions :
         r.id \in saw[req[q].n] => Has(req[q].read.reactions, r)

HideInv(q) ==
  req[q].at = "remove" =>
    IF req[q].all THEN req[q].user = Sender ELSE req[q].read.removedFor \subseteq req[q].hide

EditInv(q) ==
  req[q].at = "edit" =>
    \A k \in edited \intersect saw[req[q].n] :
      k \in req[q].read.edits \/ \E m \in req[q].read.edits : k \notin saw[m]

PinInv(q) == req[q].at = "pin" => \A p \in pins : p.id \notin saw[req[q].n]

LastInv(q) ==
  req[q].at = "last" \/ (req[q].at = "remove" /\ req[q].last = "this") =>
    (Newer \in saw[req[q].n] => Explained)

SlotInv(q) ==
  Numbered(q) /\ ReadInv(q) /\ HideInv(q) /\ EditInv(q) /\ PinInv(q) /\ LastInv(q)

Distinct ==
  \A p, q \in Slots :
    p # q /\ req[p].at # "idle" /\ req[q].at # "idle" => req[p].n # req[q].n

SawWritten == \A m \in {Earlier} \union Requests : saw[m] \subseteq written

IdsWritten ==
  /\ \A r \in message.reactions : r.id \in written
  /\ \A p \in pins : p.id \in written
  /\ message.edits \subseteq edited

PropertiesInv ==
  /\ Alone(message.reactions) /\ TwinReactionsOverlapped
  /\ LostEditsOverlapped /\ TwinPinsOverlapped /\ LastGoesBackOverlapped

GlobalInv == Distinct /\ SawWritten /\ IdsWritten /\ PropertiesInv

Inv == TypeInv /\ GlobalInv /\ \A q \in Slots : SlotInv(q)

-----------------------------------------------------------------------------
(* What a step does to the requests that do not take it.                     *)

Fresh == written' \ written

Evolves ==
  /\ written \subseteq written'
  /\ \A m \in written : saw'[m] = saw[m]
  /\ edited \subseteq edited' /\ edited' \subseteq edited \union Fresh
  /\ \A r \in message'.reactions : r.id \in Fresh \/ Has(message.reactions, r)
  /\ message.v <= message'.v
  /\ message'.v = message.v => /\ SameKeys(message.reactions, message'.reactions)
                               /\ message'.removedFor = message.removedFor
  /\ \A p \in pins' : p \in pins \/ p.id \in Fresh

Keeps(p) ==
  /\ req'[p] = req[p]
  /\ req[p].at # "idle" => /\ saw'[req[p].n] = saw[req[p].n]
                           /\ begun <= begun' /\ req[p].n \notin Fresh

LEMMA ExplainedStays ==
  ASSUME Explained, Evolves
  PROVE  Explained'
  BY DEF Explained, Evolves, Earlier, Newer

LEMMA Kept ==
  ASSUME Inv, MessagesTypeOK', Evolves, NEW p \in Slots, Keeps(p)
  PROVE  SlotInv(p)'
<1>0. CASE req[p].at = "idle"
  BY <1>0 DEF Keeps, SlotInv, Numbered, ReadInv, HideInv, EditInv, PinInv, LastInv
<1>1. CASE req[p].at # "idle"
  <2>0. /\ SlotInv(p) /\ req' [p] = req[p] /\ saw'[req[p].n] = saw[req[p].n]
        /\ saw[req[p].n] \subseteq written /\ saw[req[p].n] \intersect Fresh = {}
        /\ MessagesTypeOK
    BY <1>1, RunningType DEF Inv, TypeInv, GlobalInv, SawWritten, Keeps, Fresh
  <2>1. Numbered(p)'
    <3>1. begun \in Nat /\ begun' \in Nat /\ req[p].n \in Nat
      BY <1>1, <2>0, RunningType DEF MessagesTypeOK, Requests
    <3> QED
      BY <1>1, <2>0, <3>1 DEF Keeps, SlotInv, Numbered, Fresh
  <2>2. ReadInv(p)'
    <3> SUFFICES ASSUME req[p].at \in {"react", "removeRoom", "remove", "edit"}
                 PROVE  /\ Alone(req[p].read.reactions)
                        /\ req[p].read.edits \subseteq edited'
                        /\ Current(p)' =>
                             /\ SameKeys(message'.reactions, req[p].read.reactions)
                             /\ message'.removedFor = req[p].read.removedFor
                        /\ \A r \in message'.reactions :
                             r.id \in saw[req[p].n] => Has(req[p].read.reactions, r)
      BY <2>0 DEF ReadInv, Alone, SameKeys, Has
    <3>0. ReadInv(p)
      BY <2>0 DEF SlotInv
    <3>1. Alone(req[p].read.reactions) /\ req[p].read.edits \subseteq edited'
      BY <3>0 DEF ReadInv, Evolves
    <3>2. ASSUME Current(p)'
          PROVE  /\ SameKeys(message'.reactions, req[p].read.reactions)
                 /\ message'.removedFor = req[p].read.removedFor
      <4>1. /\ message'.v = req[p].read.v /\ req[p].read.v <= message.v
            /\ message.v \in Nat /\ message'.v \in Nat
        BY <2>0, <3>2 DEF Current, MessagesTypeOK, Message
      <4>2. message'.v = message.v
        BY <4>1 DEF Evolves
      <4> QED
        BY <3>0, <4>1, <4>2 DEF Evolves, ReadInv, Current, SameKeys, Has
    <3>3. ASSUME NEW r \in message'.reactions, r.id \in saw[req[p].n]
          PROVE  Has(req[p].read.reactions, r)
      BY <2>0, <3>0, <3>3 DEF Evolves, ReadInv, Has
    <3> QED
      BY <3>1, <3>2, <3>3
  <2>3. HideInv(p)'
    BY <2>0 DEF SlotInv, HideInv
  <2>4. EditInv(p)'
    <3> SUFFICES ASSUME req[p].at = "edit", NEW k \in edited', k \in saw[req[p].n]
                 PROVE  \/ k \in req[p].read.edits
                        \/ \E m \in req[p].read.edits : k \notin saw'[m]
      BY <2>0 DEF EditInv
    <3>1. k \in edited
      BY <2>0 DEF Evolves
    <3>2. req[p].read.edits \subseteq written
      BY <2>0 DEF SlotInv, ReadInv, MessagesTypeOK
    <3> QED
      BY <2>0, <3>1, <3>2 DEF SlotInv, EditInv, Evolves
  <2>5. PinInv(p)'
    BY <2>0 DEF SlotInv, PinInv, Evolves
  <2>6. LastInv(p)'
    <3>1. Newer' = Newer
      BY DEF Newer
    <3> QED
      BY <2>0, <3>1, ExplainedStays DEF SlotInv, LastInv
  <2> QED
    BY <2>1, <2>2, <2>3, <2>4, <2>5, <2>6 DEF SlotInv
<1> QED
  BY <1>0, <1>1

(* A request under way leaves the others as they are. *)
LEMMA OthersKeep ==
  ASSUME Inv, NEW q \in Slots, req[q].at # "idle",
         \A p \in Slots \ {q} : req'[p] = req[p],
         Fresh \subseteq {req[q].n}, begun' = begun,
         \A m \in Requests : m # req[q].n => saw'[m] = saw[m]
  PROVE  \A p \in Slots \ {q} : Keeps(p)
<1> TAKE p \in Slots \ {q}
<1>1. CASE req[p].at # "idle"
  <2>1. req[p].n # req[q].n /\ req[p].n \in Requests /\ begun \in Nat
    BY <1>1, RunningType DEF Inv, TypeInv, GlobalInv, Distinct, MessagesTypeOK
  <2> QED
    BY <1>1, <2>1 DEF Keeps
<1> QED
  BY <1>1 DEF Keeps

LEMMA IdleSlot ==
  ASSUME NEW q \in Slots, req'[q] = Idle
  PROVE  SlotInv(q)'
  BY DEF Idle, SlotInv, Numbered, ReadInv, HideInv, EditInv, PinInv, LastInv

LEMMA EndsSlots ==
  ASSUME Inv, NEW q \in Slots, Ends(q)
  PROVE  /\ req'[q] = Idle
         /\ \A p \in Slots \ {q} : req'[p] = req[p]
         /\ Distinct'
  BY DEF Ends, Inv, TypeInv, MessagesTypeOK, GlobalInv, Distinct, Idle

LEMMA SameKeysReflexive ==
  ASSUME NEW S
  PROVE  SameKeys(S, S)
  BY DEF SameKeys, Has

(* Neither the message nor its pins were written. *)
LEMMA QuietEvolves ==
  ASSUME Inv, UNCHANGED <<message, pins, written, edited>>,
         \A m \in written : saw'[m] = saw[m]
  PROVE  Evolves /\ Fresh = {} /\ IdsWritten'
<1>1. message.v <= message.v
  BY DEF Inv, TypeInv, MessagesTypeOK, Message
<1> QED
  BY <1>1, SameKeysReflexive
  DEF Inv, GlobalInv, Evolves, Fresh, IdsWritten, SameKeys, Has

(* The properties about the message and its pins, where they were not        *)
(* written.                                                                  *)
LEMMA QuietProperties ==
  ASSUME Inv, MessagesTypeOK', UNCHANGED <<message, pins, edited>>, Evolves
  PROVE  /\ Alone(message.reactions)' /\ TwinReactionsOverlapped'
         /\ LostEditsOverlapped' /\ TwinPinsOverlapped'
<1>0. /\ PropertiesInv /\ IdsWritten /\ MessagesTypeOK
      /\ edited \subseteq written
  BY DEF Inv, GlobalInv, TypeInv, MessagesTypeOK
<1>1. Alone(message.reactions)'
  BY <1>0 DEF PropertiesInv, Alone
<1>2. TwinReactionsOverlapped'
  BY <1>0 DEF PropertiesInv, TwinReactionsOverlapped, IdsWritten, Evolves
<1>3. LostEditsOverlapped'
  BY <1>0 DEF PropertiesInv, LostEditsOverlapped, IdsWritten, Evolves
<1>4. TwinPinsOverlapped'
  BY <1>0 DEF PropertiesInv, TwinPinsOverlapped, IdsWritten, Evolves
<1> QED
  BY <1>1, <1>2, <1>3, <1>4

(* The last message of the room stays, or is this one by a request that is   *)
(* explained, or the newer one.                                              *)
LEMMA LastKept ==
  ASSUME Inv, Evolves,
         \/ last' = last /\ (Newer \in written' => Newer \in written)
         \/ last' = "newer"
         \/ Newer \in written' => Explained'
  PROVE  LastGoesBackOverlapped'
<1>1. Newer' = Newer /\ Earlier' = Earlier
  BY DEF Newer, Earlier
<1> QED
  BY <1>1, ExplainedStays
  DEF Inv, GlobalInv, PropertiesInv, LastGoesBackOverlapped, Explained

LEMMA SawStays ==
  ASSUME Inv, UNCHANGED saw, written \subseteq written'
  PROVE  SawWritten'
  BY DEF Inv, GlobalInv, SawWritten, Earlier, Requests

(* A step of q that ends it, and writes nothing. *)
LEMMA QuietEnd ==
  ASSUME Inv, MessagesTypeOK', NEW q \in Slots, req[q].at # "idle", Ends(q),
         UNCHANGED <<message, pins, last, begun, written, saw, edited>>
  PROVE  Inv'
<1>1. Evolves /\ Fresh = {} /\ IdsWritten'
  BY QuietEvolves
<1>2. \A p \in Slots : SlotInv(p)'
  BY <1>1, EndsSlots, OthersKeep, Kept, IdleSlot
<1>3. GlobalInv'
  BY <1>1, EndsSlots, QuietProperties, LastKept, SawStays DEF GlobalInv, PropertiesInv
<1> QED
  BY <1>2, <1>3 DEF Inv, TypeInv, SlotInv, Numbered, Begun

(* A step of q to `at` that writes nothing, given what the next step needs.  *)
LEMMA QuietGoes ==
  ASSUME Inv, MessagesTypeOK', NEW q \in Slots, req[q].at # "idle",
         req'[q].n = req[q].n, req'[q].at # "idle", SlotInv(q)',
         \A p \in Slots \ {q} : req'[p] = req[p],
         UNCHANGED <<message, pins, last, begun, written, edited>>,
         \A m \in written : saw'[m] = saw[m], SawWritten',
         \A m \in Requests : m # req[q].n => saw'[m] = saw[m]
  PROVE  Inv'
<1>1. Evolves /\ Fresh = {} /\ IdsWritten'
  BY QuietEvolves
<1>2. \A p \in Slots : SlotInv(p)'
  BY <1>1, OthersKeep, Kept
<1>3. Distinct'
  BY DEF Inv, GlobalInv, Distinct
<1>4. GlobalInv'
  BY <1>1, <1>3, QuietProperties, LastKept DEF GlobalInv, PropertiesInv
<1> QED
  BY <1>2, <1>4 DEF Inv, TypeInv, SlotInv, Numbered, Begun

-----------------------------------------------------------------------------
(* The steps that write nothing.                                             *)

LEMMA NewerSeen ==
  ASSUME Inv, NEW q \in Slots, req[q].at # "idle", last = "this", Newer \in saw[req[q].n]
  PROVE  Explained
<1>1. Newer \in written
  BY RunningType DEF Inv, TypeInv, GlobalInv, SawWritten
<1> QED
  BY <1>1 DEF Inv, GlobalInv, PropertiesInv, LastGoesBackOverlapped, Explained

LEMMA BeginsInv ==
  ASSUME Inv, NEW q \in Slots, RequestBegins(q)
  PROVE  Inv'
<1>0. TypeInv
  BY DEF Inv
<1>1. MessagesTypeOK'
  BY <1>0, BeginStepTypes
<1>2. PICK u \in Users, at \in {"react", "removeRoom", "edit", "findPin", "seenRoom"},
           emoji \in Emojis \union {NoEmoji}, all \in BOOLEAN, read \in {message, Sent} :
        /\ at \in {"react", "removeRoom", "edit"} => read = message
        /\ Begins(q, at, u, emoji, all, read)
  BY <1>0, BeginStepTypes
<1> PICK k : k = begun + 1
  OBVIOUS
<1>3. /\ k \in Requests /\ begun \in Nat /\ begun' = k /\ k > begun
      /\ k \notin written
  BY <1>0, <1>2, MessagesAssumption
  DEF Begins, TypeInv, MessagesTypeOK, Requests, Earlier, Newer
<1>4. /\ req' = [req EXCEPT ![q] =
           [at |-> at, n |-> k, user |-> u, emoji |-> emoji, all |-> all,
            hide |-> {}, last |-> "this", pin |-> NoPin, read |-> read]]
      /\ saw' = [saw EXCEPT ![k] = written]
      /\ UNCHANGED <<message, pins, last, written, edited>>
  BY <1>2 DEF Begins
<1>5. /\ saw'[k] = written
      /\ \A m \in {Earlier} \union Requests : m # k => saw'[m] = saw[m]
      /\ \A m \in written : saw'[m] = saw[m]
  BY <1>0, <1>3, <1>4 DEF TypeInv, MessagesTypeOK
<1>6. /\ req'[q].at = at /\ req'[q].n = k /\ req'[q].read = read
      /\ \A p \in Slots \ {q} : req'[p] = req[p]
  BY <1>0, <1>4 DEF TypeInv, MessagesTypeOK
<1>7. Evolves /\ Fresh = {} /\ IdsWritten'
  BY <1>4, <1>5, QuietEvolves
<1>8. ASSUME NEW p \in Slots \ {q} PROVE Keeps(p)
  <2>1. req[p].at # "idle" => req[p].n \in Requests /\ req[p].n <= begun
    BY <1>0, RunningType DEF TypeInv, Begun
  <2> QED
    BY <1>3, <1>5, <1>6, <1>7, <2>1 DEF Keeps, Requests
<1>9. SlotInv(q)'
  <2>1. Numbered(q)'
    BY <1>3, <1>4, <1>6 DEF Numbered
  <2>2. ReadInv(q)'
    <3> SUFFICES ASSUME at \in {"react", "removeRoom", "edit"} PROVE ReadInv(q)'
      BY <1>6 DEF ReadInv
    <3>1. req'[q].read = message /\ message' = message /\ edited' = edited
      BY <1>2, <1>4, <1>6
    <3>2. Alone(message.reactions) /\ message.edits \subseteq edited
      BY DEF Inv, GlobalInv, PropertiesInv, IdsWritten
    <3> QED
      BY <3>1, <3>2 DEF ReadInv, Alone, SameKeys, Has
  <2>3. HideInv(q)' /\ PinInv(q)' /\ LastInv(q)'
    BY <1>6 DEF HideInv, PinInv, LastInv
  <2>4. EditInv(q)'
    <3> SUFFICES ASSUME at = "edit", NEW j \in edited, j \notin message.edits
                 PROVE  \E m \in message.edits : j \notin saw'[m]
      BY <1>2, <1>4, <1>6 DEF EditInv
    <3>1. message.edits \subseteq written
      BY <1>0 DEF Inv, GlobalInv, IdsWritten, TypeInv, MessagesTypeOK
    <3> QED
      BY <1>5, <3>1 DEF Inv, GlobalInv, PropertiesInv, LostEditsOverlapped
  <2> QED
    BY <2>1, <2>2, <2>3, <2>4 DEF SlotInv
<1>10. \A p \in Slots : SlotInv(p)'
  BY <1>1, <1>7, <1>8, <1>9, Kept
<1>11. Distinct'
  <2>1. \A p \in Slots \ {q} : req[p].at # "idle" => req[p].n # k
    BY <1>0, <1>3, RunningType DEF TypeInv, Begun, Requests
  <2> QED
    BY <1>6, <2>1 DEF Inv, GlobalInv, Distinct
<1>12. SawWritten'
  BY <1>4, <1>5, <1>7 DEF Inv, GlobalInv, SawWritten, Earlier, Requests
<1>13. GlobalInv'
  BY <1>1, <1>4, <1>7, <1>11, <1>12, QuietProperties, LastKept DEF GlobalInv, PropertiesInv
<1> QED
  BY <1>1, <1>10, <1>13 DEF Inv, TypeInv, SlotInv, Numbered, Begun

LEMMA RemoveReadsRoomInv ==
  ASSUME Inv, NEW q \in Slots, RemoveReadsRoom(q)
  PROVE  Inv'
<1>0. /\ TypeInv /\ MessagesTypeOK' /\ req[q].at = "removeRoom" /\ req[q] \in Request
      /\ UNCHANGED <<message, pins, last, begun, written, saw, edited>>
  BY RemoveTypes, RunningType DEF Inv, TypeInv, RemoveReadsRoom, Unwritten
<1>1. CASE Ends(q)
  BY <1>0, <1>1, QuietEnd
<1>2. CASE ~Ends(q)
  <2>1. PICK members \in Members :
          /\ req[q].all => req[q].user = Sender
          /\ req' = [req EXCEPT ![q].at = "remove", ![q].last = last,
               ![q].hide = IF req[q].all THEN members.participants
                           ELSE req[q].read.removedFor \union {req[q].user}]
    BY <1>2 DEF RemoveReadsRoom
  <2>2. PICK hide : hide = IF req[q].all THEN members.participants
                           ELSE req[q].read.removedFor \union {req[q].user}
    OBVIOUS
  <2>3. /\ req'[q] = [req[q] EXCEPT !.at = "remove", !.last = last, !.hide = hide]
        /\ \A p \in Slots \ {q} : req'[p] = req[p]
    BY <1>0, <2>1, <2>2 DEF TypeInv, MessagesTypeOK
  <2>4. /\ req'[q].at = "remove" /\ req'[q].last = last /\ req'[q].hide = hide
        /\ req'[q].n = req[q].n /\ req'[q].read = req[q].read
        /\ req'[q].all = req[q].all /\ req'[q].user = req[q].user
    BY <1>0, <2>3 DEF Request
  <2>5. SlotInv(q)
    BY DEF Inv
  <2>6. Numbered(q)' /\ ReadInv(q)' /\ EditInv(q)' /\ PinInv(q)'
    BY <1>0, <2>4, <2>5
    DEF SlotInv, Numbered, ReadInv, EditInv, PinInv, Current, SameKeys, Has, Alone
  <2>7. HideInv(q)'
    BY <2>1, <2>2, <2>4 DEF HideInv
  <2>8. LastInv(q)'
    BY <1>0, <2>4, NewerSeen DEF LastInv, Explained, Newer, Earlier
  <2>9. SlotInv(q)' /\ SawWritten'
    BY <1>0, <2>6, <2>7, <2>8, SawStays DEF SlotInv
  <2> QED
    BY <1>0, <2>3, <2>4, <2>9, QuietGoes
<1> QED
  BY <1>1, <1>2

LEMMA SeenReadsRoomInv ==
  ASSUME Inv, NEW q \in Slots, SeenReadsRoom(q)
  PROVE  Inv'
<1>0. /\ TypeInv /\ MessagesTypeOK' /\ req[q].at = "seenRoom" /\ req[q] \in Request
      /\ UNCHANGED <<message, pins, last, begun, written, saw, edited>>
  BY OtherTypes, RunningType DEF Inv, TypeInv, SeenReadsRoom, Unwritten
<1>1. CASE Ends(q)
  BY <1>0, <1>1, QuietEnd
<1>2. CASE ~Ends(q)
  <2>1. Goes(q, "last") /\ last = "this"
    BY <1>2 DEF SeenReadsRoom
  <2>2. /\ req'[q].at = "last" /\ req'[q].n = req[q].n
        /\ \A p \in Slots \ {q} : req'[p] = req[p]
    BY <1>0, <2>1 DEF Goes, TypeInv, MessagesTypeOK, Request
  <2>3. LastInv(q)'
    BY <1>0, <2>1, <2>2, NewerSeen DEF LastInv, Explained, Newer, Earlier
  <2>4. SlotInv(q)' /\ SawWritten'
    BY <1>0, <2>2, <2>3, SawStays
    DEF Inv, SlotInv, Numbered, ReadInv, HideInv, EditInv, PinInv
  <2> QED
    BY <1>0, <2>2, <2>4, QuietGoes
<1> QED
  BY <1>1, <1>2

LEMMA FindsPinInv ==
  ASSUME Inv, NEW q \in Slots, FindsPin(q)
  PROVE  Inv'
<1>0. /\ TypeInv /\ MessagesTypeOK' /\ req[q].at = "findPin" /\ req[q] \in Request
      /\ req[q].n \in Requests
      /\ UNCHANGED <<message, pins, last, begun, written, edited>>
      /\ saw' = [saw EXCEPT ![req[q].n] = written]
  BY OtherTypes, RunningType DEF Inv, TypeInv, FindsPin, Unwritten
<1>1. req[q].n \notin written
  BY <1>0 DEF Inv, SlotInv, Numbered
<1>2. /\ \A m \in {Earlier} \union Requests : m # req[q].n => saw'[m] = saw[m]
      /\ \A m \in written : saw'[m] = saw[m]
      /\ saw'[req[q].n] = written
  BY <1>0, <1>1 DEF TypeInv, MessagesTypeOK
<1>3. SawWritten'
  BY <1>0, <1>2 DEF Inv, GlobalInv, SawWritten, Earlier, Requests
<1>4. /\ \/ req'[q].at = "pin" /\ pins = {}
         \/ req'[q].at = "unpin"
      /\ req'[q].n = req[q].n
      /\ \A p \in Slots \ {q} : req'[p] = req[p]
  BY <1>0 DEF FindsPin, Goes, TypeInv, MessagesTypeOK, Request
<1>5. SlotInv(q)'
  BY <1>0, <1>4 DEF Inv, SlotInv, Numbered, ReadInv, HideInv, EditInv, PinInv, LastInv
<1> QED
  BY <1>0, <1>2, <1>3, <1>4, <1>5, QuietGoes

LEMMA FailsInv ==
  ASSUME Inv, NEW q \in Slots, Fails(q)
  PROVE  Inv'
<1>1. MessagesTypeOK' /\ Ends(q)
      /\ UNCHANGED <<message, pins, last, begun, written, saw, edited>>
  BY OtherTypes DEF Inv, Fails, Unwritten
<1>2. req[q].at # "idle"
  BY DEF Fails, Inv, TypeInv, MessagesTypeOK, Request
<1> QED
  BY <1>1, <1>2, QuietEnd

-----------------------------------------------------------------------------
(* The steps that write.                                                     *)

(* A step of q that ends it, given what it wrote. *)
LEMMA WritingEnd ==
  ASSUME Inv, MessagesTypeOK', NEW q \in Slots, req[q].at # "idle", Ends(q),
         UNCHANGED <<begun, saw>>, Evolves, Fresh \subseteq {req[q].n},
         IdsWritten', PropertiesInv'
  PROVE  Inv'
<1>1. \A p \in Slots : SlotInv(p)'
  BY EndsSlots, OthersKeep, Kept, IdleSlot
<1>2. GlobalInv'
  BY EndsSlots, SawStays DEF GlobalInv, Evolves
<1> QED
  BY <1>1, <1>2 DEF Inv, TypeInv, SlotInv, Numbered, Begun

(* The reactions a request leaves are those it read, and were there. *)
LEMMA CurrentReads ==
  ASSUME Inv, NEW q \in Slots, req[q].at = "react", Current(q)
  PROVE  /\ SameKeys(message.reactions, req[q].read.reactions)
         /\ Alone(req[q].read.reactions)
  BY DEF Inv, SlotInv, ReadInv

LEMMA ReactSavesInv ==
  ASSUME Inv, NEW q \in Slots, ReactSaves(q)
  PROVE  Inv'
<1>0. /\ TypeInv /\ MessagesTypeOK /\ MessagesTypeOK' /\ req[q].at = "react" /\ Ends(q)
      /\ UNCHANGED <<pins, last, begun, saw, edited>>
      /\ ReactEffect(q) /\ req[q].n \in Requests /\ req[q].n \notin written
      /\ req[q].n # Newer /\ req[q].n # Earlier /\ message.v \in Nat
      /\ SlotInv(q) /\ GlobalInv /\ Alone(message.reactions)
  BY ReactSavesTypes, RunningType, MessagesAssumption
  DEF Inv, TypeInv, ReactSaves, ReactEffect, SlotInv, Numbered, Requests, Newer, Earlier,
      MessagesTypeOK, Message, GlobalInv, PropertiesInv
<1>1. CASE UNCHANGED <<message, written>>
  BY <1>0, <1>1, QuietEnd
<1> SUFFICES ASSUME written' = written \union {req[q].n}
             PROVE  Inv'
  BY <1>0, <1>1, ReactCases DEF Wrote
<1>2. Fresh = {req[q].n}
  BY <1>0 DEF Fresh
<1>3. /\ \A r \in message'.reactions : r.id \in Fresh \/ Has(message.reactions, r)
      /\ message.v <= message'.v
      /\ message'.v = message.v => SameKeys(message.reactions, message'.reactions)
      /\ message'.removedFor = message.removedFor /\ message'.edits = message.edits
      /\ Alone(message'.reactions)
      /\ \A r \in message'.reactions : r.id \in Fresh => r.user = req[q].user /\ Mine(q) = {}
  <2>1. CASE Mine(q) = {} /\ Reacted(Pushed(q), message.v + 1)
    <3>1. \A r \in message.reactions : r.id # req[q].n
      BY <1>0 DEF GlobalInv, IdsWritten
    <3>2. \A r \in message'.reactions : r \in message.reactions
             \/ (r.id = req[q].n /\ r = [id |-> req[q].n, user |-> req[q].user,
                                        emoji |-> req[q].emoji])
      BY <2>1 DEF Reacted, Pushed
    <3>3. Alone(message'.reactions)
      BY <1>0, <3>1, <3>2 DEF Alone
    <3>4. message'.v # message.v /\ message.v <= message'.v
      BY <1>0, <2>1 DEF Reacted
    <3> QED
      BY <1>0, <1>2, <2>1, <3>1, <3>2, <3>3, <3>4 DEF Reacted, Has
  <2>2. CASE Current(q) /\ Reacted(Left(q), message.v + 1)
    <3>1. message'.v # message.v /\ message.v <= message'.v
      BY <1>0, <2>2 DEF Reacted
    <3>2. message'.reactions \subseteq req[q].read.reactions
      BY <2>2 DEF Reacted, Left
    <3>3. \A r \in message'.reactions : Has(message.reactions, r)
      BY <1>0, <2>2, <3>2, CurrentReads DEF SameKeys
    <3>4. Alone(message'.reactions)
      BY <1>0, <2>2, <3>2, CurrentReads DEF Alone
    <3>5. \A r \in message'.reactions : r.id \notin Fresh
      BY <1>0, <1>2, <3>3 DEF Has, GlobalInv, IdsWritten
    <3> QED
      BY <2>2, <3>1, <3>3, <3>4, <3>5 DEF Reacted
  <2>3. CASE \E first \in Mine(q) : Reacted(Changed(q, first), message.v)
    <3> PICK first \in Mine(q) : Reacted(Changed(q, first), message.v)
      BY <2>3
    <3>1. message.v <= message'.v
      BY <1>0 DEF Reacted
    <3>2. ASSUME NEW r \in message.reactions
          PROVE  LET r2 == IF <<r.id, r.user>> = <<first.id, first.user>>
                           THEN [r EXCEPT !.emoji = req[q].emoji] ELSE r
                 IN r2.id = r.id /\ r2.user = r.user
      <4>1. r \in Reaction
        BY <1>0 DEF MessagesTypeOK, Message
      <4> QED
        BY <4>1 DEF Reaction
    <3>3. SameKeys(message.reactions, message'.reactions)
      <4>1. ASSUME NEW r \in message.reactions PROVE Has(message'.reactions, r)
        BY <3>2 DEF Has, Reacted, Changed
      <4>2. ASSUME NEW r2 \in message'.reactions PROVE Has(message.reactions, r2)
        <5>1. PICK r \in message.reactions :
                r2 = IF <<r.id, r.user>> = <<first.id, first.user>>
                     THEN [r EXCEPT !.emoji = req[q].emoji] ELSE r
          BY DEF Reacted, Changed
        <5> QED
          BY <3>2, <5>1 DEF Has
      <4> QED
        BY <4>1, <4>2 DEF SameKeys
    <3>4. Alone(message'.reactions)
      <4> SUFFICES ASSUME NEW r2 \in message'.reactions, NEW s2 \in message'.reactions,
                          r2.id = s2.id, r2.user = s2.user
                   PROVE  r2 = s2
        BY DEF Alone
      <4>1. PICK r \in message.reactions :
              r2 = IF <<r.id, r.user>> = <<first.id, first.user>>
                   THEN [r EXCEPT !.emoji = req[q].emoji] ELSE r
        BY DEF Reacted, Changed
      <4>2. PICK s \in message.reactions :
              s2 = IF <<s.id, s.user>> = <<first.id, first.user>>
                   THEN [s EXCEPT !.emoji = req[q].emoji] ELSE s
        BY DEF Reacted, Changed
      <4>3. r.id = s.id /\ r.user = s.user
        BY <3>2, <4>1, <4>2
      <4>4. r = s
        BY <1>0, <4>3 DEF Alone
      <4> QED
        BY <4>1, <4>2, <4>4
    <3>5. \A r \in message'.reactions : r.id \notin Fresh
      BY <1>0, <1>2, <3>3 DEF SameKeys, Has, GlobalInv, IdsWritten
    <3> QED
      BY <3>1, <3>3, <3>4, <3>5 DEF Reacted, SameKeys
  <2> QED
    BY <1>0, <1>1, <2>1, <2>2, <2>3, ReactCases
<1>4. Evolves
  BY <1>0, <1>3 DEF Evolves
<1>5. IdsWritten'
  BY <1>0, <1>2, <1>3 DEF GlobalInv, IdsWritten, Has
<1>6. TwinReactionsOverlapped'
  <2> SUFFICES ASSUME NEW r \in message'.reactions, NEW s \in message'.reactions,
                      r.user = s.user, r # s
               PROVE  r.id \notin saw[s.id]
    BY <1>0 DEF TwinReactionsOverlapped
  <2>0. /\ \A m \in {Earlier} \union Requests : saw[m] \subseteq written
        /\ \A t \in message'.reactions : t.id \in {Earlier} \union Requests
    BY <1>0 DEF GlobalInv, SawWritten, MessagesTypeOK, Message, Reaction
  <2>1. CASE s.id \in Fresh
    <3>1. s.id = req[q].n /\ s.user = req[q].user /\ Mine(q) = {}
      BY <1>2, <1>3, <2>1
    <3>2. r.id # s.id
      BY <1>3 DEF Alone
    <3>3. PICK t \in message.reactions : t.id = r.id /\ t.user = r.user
      BY <1>2, <1>3, <3>1, <3>2 DEF Has
    <3>4. t.id \in saw[req[q].n] => Has(req[q].read.reactions, t)
      BY <1>0 DEF SlotInv, ReadInv
    <3>5. ~Has(req[q].read.reactions, t)
      BY <3>1, <3>3 DEF Has, Mine
    <3> QED
      BY <3>1, <3>3, <3>4, <3>5
  <2>2. CASE r.id \in Fresh
    BY <1>0, <1>2, <2>0, <2>2
  <2>3. CASE r.id \notin Fresh /\ s.id \notin Fresh
    <3>1. PICK t \in message.reactions : t.id = r.id /\ t.user = r.user
      BY <1>3, <2>3 DEF Has
    <3>2. PICK w \in message.reactions : w.id = s.id /\ w.user = s.user
      BY <1>3, <2>3 DEF Has
    <3>3. t # w
      BY <1>3, <3>1, <3>2 DEF Alone
    <3> QED
      BY <1>0, <3>1, <3>2, <3>3 DEF GlobalInv, PropertiesInv, TwinReactionsOverlapped
  <2> QED
    BY <2>1, <2>2, <2>3
<1>7. LostEditsOverlapped' /\ TwinPinsOverlapped'
  BY <1>0, <1>3 DEF GlobalInv, PropertiesInv, LostEditsOverlapped, TwinPinsOverlapped
<1>8. LastGoesBackOverlapped'
  BY <1>0, <1>4, LastKept
<1>9. PropertiesInv'
  BY <1>3, <1>6, <1>7, <1>8 DEF PropertiesInv
<1> QED
  BY <1>0, <1>2, <1>4, <1>5, <1>9, WritingEnd

LEMMA RemoveSavesInv ==
  ASSUME Inv, NEW q \in Slots, RemoveSaves(q)
  PROVE  Inv'
<1>0. /\ TypeInv /\ MessagesTypeOK /\ MessagesTypeOK' /\ req[q].at = "remove"
      /\ req[q] \in Request /\ req[q].hide \subseteq Users /\ req[q].n \in Requests
      /\ req[q].n \notin written /\ req[q].n # Newer
      /\ SlotInv(q) /\ GlobalInv /\ UNCHANGED <<pins, last, begun, saw, edited>>
      /\ message \in Message /\ message.v \in Nat
  BY RemoveTypes, RunningType, MessagesAssumption
  DEF Inv, TypeInv, RemoveSaves, SlotInv, Numbered, Requests, Newer, MessagesTypeOK, Message
<1>1. CASE ~SavesRemoved(q) /\ Ends(q)
  BY <1>0, <1>1, QuietEnd DEF RemoveSaves
<1>2. CASE ~SavesRemoved(q) /\ ~Ends(q)
  <2>1. Goes(q, "last") /\ req[q].last = "this" /\ UNCHANGED <<message, written>>
    BY <1>2 DEF RemoveSaves, GoesToLast
  <2>2. /\ req'[q].at = "last" /\ req'[q].n = req[q].n
        /\ \A p \in Slots \ {q} : req'[p] = req[p]
    BY <1>0, <2>1 DEF Goes, MessagesTypeOK, Request
  <2>3. LastInv(q)'
    BY <1>0, <2>1, <2>2 DEF SlotInv, LastInv, Explained, Newer, Earlier
  <2>4. SlotInv(q)' /\ SawWritten'
    BY <1>0, <2>1, <2>2, <2>3, SawStays
    DEF SlotInv, Numbered, ReadInv, HideInv, EditInv, PinInv
  <2> QED
    BY <1>0, <2>1, <2>2, <2>4, QuietGoes
<1>3. CASE SavesRemoved(q)
  <2> PICK w \in Nat : w = message.v + 1
    BY <1>0
  <2>1. message' = [message EXCEPT !.removedFor = req[q].hide, !.v = w]
        /\ written' = written \union {req[q].n} /\ GoesToLast(q)
    BY <1>3 DEF SavesRemoved, Wrote
  <2>2. /\ message'.reactions = message.reactions /\ message'.edits = message.edits
        /\ message'.v = w
    BY <1>0, <2>1 DEF Message
  <2>3. Evolves /\ Fresh = {req[q].n} /\ IdsWritten'
    BY <1>0, <2>1, <2>2 DEF Evolves, Fresh, IdsWritten, GlobalInv, Has
  <2>4. PropertiesInv'
    <3>1. LastGoesBackOverlapped'
      BY <1>0, <2>1, <2>3, LastKept DEF Newer
    <3> QED
      BY <1>0, <2>2, <3>1 DEF GlobalInv, PropertiesInv, Alone, TwinReactionsOverlapped,
                             LostEditsOverlapped, TwinPinsOverlapped
  <2>5. CASE Ends(q)
    BY <1>0, <2>3, <2>4, <2>5, WritingEnd
  <2>6. CASE ~Ends(q)
    <3>1. Goes(q, "last") /\ req[q].last = "this"
      BY <2>1, <2>6 DEF GoesToLast
    <3>2. /\ req'[q].at = "last" /\ req'[q].n = req[q].n
          /\ \A p \in Slots \ {q} : req'[p] = req[p]
      BY <1>0, <3>1 DEF Goes, MessagesTypeOK, Request
    <3>3. LastInv(q)'
      <4>1. LastInv(q)
        BY <1>0 DEF SlotInv
      <4>2. Newer' = Newer
        BY DEF Newer
      <4> QED
        BY <1>0, <2>3, <3>1, <3>2, <4>1, <4>2, ExplainedStays DEF LastInv
    <3>4. SlotInv(q)'
      BY <1>0, <3>2, <3>3 DEF SlotInv, Numbered, ReadInv, HideInv, EditInv, PinInv
    <3>5. \A p \in Slots : SlotInv(p)'
      BY <1>0, <2>3, <3>2, <3>4, OthersKeep, Kept
    <3>6. Distinct' /\ SawWritten'
      BY <1>0, <2>1, <3>2, SawStays DEF GlobalInv, Distinct
    <3> QED
      BY <1>0, <2>3, <2>4, <3>5, <3>6 DEF Inv, TypeInv, GlobalInv, SlotInv, Numbered, Begun
  <2> QED
    BY <2>5, <2>6
<1> QED
  BY <1>1, <1>2, <1>3

LEMMA LastWritesInv ==
  ASSUME Inv, NEW q \in Slots, LastWrites(q)
  PROVE  Inv'
<1>0. /\ TypeInv /\ MessagesTypeOK' /\ req[q].at = "last" /\ Ends(q)
      /\ req[q].n \in Requests /\ req[q].n # Newer /\ req[q].n # Earlier
      /\ SlotInv(q) /\ GlobalInv /\ UNCHANGED <<message, pins, begun, saw, edited>>
      /\ written' = written \union {req[q].n} /\ message.v <= message.v
  BY OtherTypes, RunningType, MessagesAssumption
  DEF Inv, TypeInv, LastWrites, Wrote, Requests, Newer, Earlier, MessagesTypeOK, Message
<1>1. Fresh \subseteq {req[q].n}
  BY <1>0 DEF Fresh
<1>2. Evolves /\ IdsWritten'
  BY <1>0, SameKeysReflexive DEF Evolves, Fresh, IdsWritten, GlobalInv, Has
<1>3. Newer \in written' => Explained'
  <2>1. CASE Newer \in saw[req[q].n]
    BY <1>0, <1>2, <2>1, ExplainedStays DEF SlotInv, LastInv
  <2>2. CASE Newer \notin saw[req[q].n]
    BY <1>0, <2>2 DEF Explained, Newer, Earlier
  <2> QED
    BY <2>1, <2>2
<1>4. PropertiesInv'
  BY <1>0, <1>2, <1>3, QuietProperties, LastKept DEF PropertiesInv
<1> QED
  BY <1>0, <1>1, <1>2, <1>4, WritingEnd

LEMMA EditSavesInv ==
  ASSUME Inv, NEW q \in Slots, EditSaves(q)
  PROVE  Inv'
<1>0. /\ TypeInv /\ MessagesTypeOK /\ MessagesTypeOK' /\ req[q].at = "edit" /\ Ends(q)
      /\ req[q].n \in Requests /\ req[q].n \notin written /\ req[q].n # Newer
      /\ SlotInv(q) /\ GlobalInv /\ UNCHANGED <<pins, last, begun, saw>>
      /\ message \in Message /\ message.v <= message.v
  BY EditTypes, RunningType, MessagesAssumption
  DEF Inv, TypeInv, EditSaves, SlotInv, Numbered, MessagesTypeOK, Message, Requests, Newer
<1>1. /\ written' = written \union {req[q].n} /\ edited' = edited \union {req[q].n}
      /\ message' = [message EXCEPT !.edits = req[q].read.edits \union {req[q].n}]
  BY DEF EditSaves, Wrote
<1>2. /\ message'.edits = req[q].read.edits \union {req[q].n}
      /\ message'.reactions = message.reactions /\ message'.v = message.v
      /\ message'.removedFor = message.removedFor
  BY <1>0, <1>1 DEF Message
<1>3. Fresh = {req[q].n}
  BY <1>0, <1>1 DEF Fresh
<1>4. Evolves
  BY <1>0, <1>1, <1>2, <1>3, SameKeysReflexive DEF Evolves, Has
<1>5. IdsWritten'
  BY <1>0, <1>1, <1>2 DEF IdsWritten, GlobalInv, SlotInv, ReadInv
<1>6. LostEditsOverlapped'
  BY <1>0, <1>1, <1>2 DEF LostEditsOverlapped, SlotInv, EditInv
<1>7. PropertiesInv'
  <2>1. LastGoesBackOverlapped'
    BY <1>0, <1>1, <1>4, LastKept
  <2> QED
    BY <1>0, <1>2, <1>6, <2>1 DEF GlobalInv, PropertiesInv, Alone, TwinReactionsOverlapped,
                                  TwinPinsOverlapped
<1> QED
  BY <1>0, <1>3, <1>4, <1>5, <1>7, WritingEnd

LEMMA PinStepInv ==
  ASSUME Inv, NEW q \in Slots, Inserts(q) \/ Unpins(q)
  PROVE  Inv'
<1>0. /\ TypeInv /\ MessagesTypeOK' /\ req[q].at \in {"pin", "unpin"} /\ Ends(q)
      /\ req[q].n \in Requests /\ req[q].n \notin written /\ req[q].n # Newer
      /\ SlotInv(q) /\ GlobalInv /\ UNCHANGED <<message, last, begun, saw, edited>>
      /\ message.v <= message.v /\ pins \subseteq Pin
  BY OtherTypes, RunningType, MessagesAssumption
  DEF Inv, TypeInv, Inserts, Unpins, SlotInv, Numbered, MessagesTypeOK, Message, Requests,
      Newer
<1>1. CASE UNCHANGED <<pins, written>>
  BY <1>0, <1>1, QuietEnd
<1>2. CASE ~UNCHANGED <<pins, written>>
  <2>1. /\ written' = written \union {req[q].n}
        /\ \/ pins' \subseteq pins
           \/ /\ req[q].at = "pin" /\ \A p \in pins : p.user # req[q].user
              /\ pins' = pins \union {[id |-> req[q].n, user |-> req[q].user]}
    BY <1>2 DEF Inserts, Unpins, Wrote
  <2>2. Fresh = {req[q].n}
    BY <1>0, <2>1 DEF Fresh
  <2>3. Evolves /\ IdsWritten'
    BY <1>0, <2>1, <2>2, SameKeysReflexive DEF Evolves, IdsWritten, GlobalInv, Has
  <2>4. TwinPinsOverlapped'
    <3>1. \A p \in pins : p.id \in Requests /\ saw[p.id] \subseteq written
      BY <1>0 DEF Pin, GlobalInv, SawWritten
    <3>2. req[q].at = "pin" => \A p \in pins : p.id \notin saw[req[q].n]
      BY <1>0 DEF SlotInv, PinInv
    <3> QED
      BY <1>0, <2>1, <3>1, <3>2 DEF TwinPinsOverlapped, GlobalInv, PropertiesInv
  <2>5. LastGoesBackOverlapped'
    BY <1>0, <2>1, <2>3, LastKept
  <2>6. PropertiesInv'
    BY <1>0, <2>4, <2>5 DEF GlobalInv, PropertiesInv, Alone, TwinReactionsOverlapped,
                            LostEditsOverlapped
  <2> QED
    BY <1>0, <2>2, <2>3, <2>6, WritingEnd
<1> QED
  BY <1>1, <1>2

LEMMA NewerMessageInv ==
  ASSUME Inv, NewerMessage
  PROVE  Inv'
<1>0. /\ TypeInv /\ GlobalInv /\ UNCHANGED <<message, pins, req, begun, saw, edited>>
      /\ written' = written \union {Newer} /\ last' = "newer"
      /\ message.v <= message.v /\ begun <= begun
  BY DEF Inv, TypeInv, MessagesTypeOK, Message, NewerMessage
<1>1. MessagesTypeOK'
  BY <1>0 DEF TypeInv, MessagesTypeOK, Last
<1>2. Fresh \subseteq {Newer}
  BY <1>0 DEF Fresh
<1>3. Evolves /\ IdsWritten'
  BY <1>0, SameKeysReflexive DEF Evolves, Fresh, IdsWritten, GlobalInv, Has
<1>4. ASSUME NEW p \in Slots PROVE Keeps(p)
  <2>1. req[p].at # "idle" => req[p].n # Newer
    BY <1>0, RunningType, MessagesAssumption DEF TypeInv, Requests, Newer
  <2> QED
    BY <1>0, <1>2, <2>1 DEF Keeps
<1>5. \A p \in Slots : SlotInv(p)'
  BY <1>1, <1>3, <1>4, Kept
<1>6. Distinct' /\ SawWritten'
  BY <1>0, SawStays DEF GlobalInv, Distinct
<1>7. PropertiesInv'
  BY <1>0, <1>1, <1>3, QuietProperties, LastKept DEF PropertiesInv
<1> QED
  BY <1>1, <1>3, <1>5, <1>6, <1>7 DEF Inv, TypeInv, GlobalInv, SlotInv, Numbered, Begun

LEMMA StutterInv ==
  ASSUME Inv, UNCHANGED messagesVars
  PROVE  Inv'
<1> USE DEF messagesVars
<1>1. TypeInv'
  BY DEF Inv, TypeInv, MessagesTypeOK, Begun
<1>2. GlobalInv'
  BY DEF Inv, GlobalInv, Distinct, SawWritten, IdsWritten, PropertiesInv, Alone,
         TwinReactionsOverlapped, LostEditsOverlapped, TwinPinsOverlapped,
         LastGoesBackOverlapped
<1>3. \A q \in Slots : SlotInv(q)'
  BY DEF Inv, SlotInv, Numbered, ReadInv, HideInv, EditInv, PinInv, LastInv, Current,
         SameKeys, Has, Alone, Explained
<1> QED
  BY <1>1, <1>2, <1>3 DEF Inv

LEMMA InitInv == MessagesInit => Inv
<1> SUFFICES ASSUME MessagesInit PROVE Inv
  OBVIOUS
<1>1. PICK emojiOf \in [Users -> Emojis \union {NoEmoji}] :
        message = [Sent EXCEPT !.reactions =
          {[id |-> Earlier, user |-> u, emoji |-> emojiOf[u]] :
             u \in {w \in Users : emojiOf[w] # NoEmoji}}]
  BY DEF MessagesInit
<1>2. message.reactions = {[id |-> Earlier, user |-> u, emoji |-> emojiOf[u]] :
                             u \in {w \in Users : emojiOf[w] # NoEmoji}}
      /\ message.removedFor = {} /\ message.edits = {} /\ message.v = 0
  BY <1>1 DEF Sent
<1>3. message.reactions \subseteq Reaction
  BY <1>2 DEF Reaction
<1>4. message \in Message
  <2>1. PICK R \in SUBSET Reaction : R = message.reactions
    BY <1>3
  <2>2. message = [Sent EXCEPT !.reactions = R]
    BY <1>1, <1>2, <2>1
  <2> QED
    BY <2>2, SentType DEF Message
<1>5. /\ \A q \in Slots : req[q] = Idle
      /\ written = {Earlier} /\ edited = {} /\ pins = {} /\ last = "this" /\ begun = 0
      /\ saw = [n \in {Earlier} \union Requests |-> {}]
  BY DEF MessagesInit
<1>6. TypeInv
  <2>1. Idle.read.v = 0 /\ Idle.at = "idle"
    BY SentType DEF Idle
  <2>2. req \in [Slots -> Request \union {Idle}]
    BY DEF MessagesInit
  <2>3. 0 \in 0..MaxRequests /\ Newer # Earlier
    BY MessagesAssumption DEF Newer, Earlier
  <2> QED
    BY <1>2, <1>4, <1>5, <2>1, <2>2, <2>3 DEF TypeInv, MessagesTypeOK, Begun, Last
<1>7. \A q \in Slots : SlotInv(q)
  BY <1>5 DEF Idle, SlotInv, Numbered, ReadInv, HideInv, EditInv, PinInv, LastInv
<1>8. GlobalInv
  <2>1. Distinct
    BY <1>5 DEF Distinct, Idle
  <2>2. SawWritten
    BY <1>5 DEF SawWritten
  <2>3. IdsWritten
    BY <1>2, <1>5 DEF IdsWritten
  <2>4. Alone(message.reactions)
    BY <1>2 DEF Alone
  <2>5. TwinReactionsOverlapped
    BY <1>2 DEF TwinReactionsOverlapped
  <2>6. LostEditsOverlapped /\ TwinPinsOverlapped
    BY <1>5 DEF LostEditsOverlapped, TwinPinsOverlapped
  <2>7. LastGoesBackOverlapped
    BY <1>5, MessagesAssumption DEF LastGoesBackOverlapped, Newer, Earlier
  <2> QED
    BY <2>1, <2>2, <2>3, <2>4, <2>5, <2>6, <2>7 DEF GlobalInv, PropertiesInv
<1> QED
  BY <1>6, <1>7, <1>8 DEF Inv

LEMMA Inductive == Inv /\ [MessagesNext]_messagesVars => Inv'
<1> SUFFICES ASSUME Inv, [MessagesNext]_messagesVars PROVE Inv'
  OBVIOUS
<1>1. CASE \E q \in Slots : RequestBegins(q)
  BY <1>1, BeginsInv
<1>2. CASE \E q \in Slots : RequestGoesOn(q)
  BY <1>2, ReactSavesInv, RemoveReadsRoomInv, RemoveSavesInv, SeenReadsRoomInv,
     LastWritesInv, EditSavesInv, FindsPinInv, PinStepInv, FailsInv DEF RequestGoesOn
<1>3. CASE NewerMessage
  BY <1>3, NewerMessageInv
<1>4. CASE UNCHANGED messagesVars
  BY <1>4, StutterInv
<1> QED
  BY <1>1, <1>2, <1>3, <1>4 DEF MessagesNext

LEMMA Invariance == MessagesSpec => []Inv
  BY InitInv, Inductive, PTL DEF MessagesSpec

(* Every value that is written back has its type, and the version of the     *)
(* message never falls behind one that was read.                             *)
THEOREM MessageTypes == MessagesSpec => []MessagesTypeOK
<1>1. Inv => MessagesTypeOK
  BY DEF Inv, TypeInv
<1> QED
  BY <1>1, Invariance, PTL

(* Two reactions of one user come of requests that overlapped.               *)
THEOREM ReactionTwins == MessagesSpec => []TwinReactionsOverlapped
<1>1. Inv => TwinReactionsOverlapped
  BY DEF Inv, GlobalInv, PropertiesInv
<1> QED
  BY <1>1, Invariance, PTL

(* Two pins of one message come of requests that overlapped.                 *)
THEOREM PinTwins == MessagesSpec => []TwinPinsOverlapped
<1>1. Inv => TwinPinsOverlapped
  BY DEF Inv, GlobalInv, PropertiesInv
<1> QED
  BY <1>1, Invariance, PTL

(* An edit is lost only to one that overlapped it.                           *)
THEOREM EditLosses == MessagesSpec => []LostEditsOverlapped
<1>1. Inv => LostEditsOverlapped
  BY DEF Inv, GlobalInv, PropertiesInv
<1> QED
  BY <1>1, Invariance, PTL

(* A message is the last of its room again after a newer one only if some    *)
(* request that wrote began before the newer one was written.                *)
THEOREM LastGoesBack == MessagesSpec => []LastGoesBackOverlapped
<1>1. Inv => LastGoesBackOverlapped
  BY DEF Inv, GlobalInv, PropertiesInv
<1> QED
  BY <1>1, Invariance, PTL

-----------------------------------------------------------------------------
(* What a step does to the message: one request at `react` writes reactions,  *)
(* one at `remove` writes for whom it is removed.                            *)
LEMMA StepKinds ==
  ASSUME Inv, [MessagesNext]_messagesVars
  PROVE  \/ \E q \in Slots : ReactSaves(q)
         \/ \E q \in Slots : RemoveSaves(q) /\ SavesRemoved(q)
         \/ /\ message'.reactions = message.reactions
            /\ message'.removedFor = message.removedFor
<1>1. CASE \E q \in Slots : EditSaves(q)
  <2>1. message \in Message
    BY DEF Inv, TypeInv, MessagesTypeOK
  <2> QED
    BY <1>1, <2>1 DEF EditSaves, Message
<1>2. CASE \E q \in Slots : RequestBegins(q)
  BY <1>2 DEF RequestBegins, React, Remove, Seen, Edit, Pins, Begins
<1>3. CASE \E q \in Slots : RemoveSaves(q) /\ ~SavesRemoved(q)
  BY <1>3 DEF RemoveSaves
<1>4. CASE \E q \in Slots : \/ RemoveReadsRoom(q) \/ SeenReadsRoom(q) \/ LastWrites(q)
                           \/ FindsPin(q) \/ Inserts(q) \/ Unpins(q) \/ Fails(q)
  BY <1>4 DEF RemoveReadsRoom, SeenReadsRoom, LastWrites, FindsPin, Inserts, Unpins, Fails,
              Unwritten
<1>5. CASE NewerMessage \/ UNCHANGED messagesVars
  BY <1>5 DEF NewerMessage, messagesVars
<1> QED
  BY <1>1, <1>2, <1>3, <1>4, <1>5 DEF MessagesNext, RequestGoesOn

(* The reactions of the other users after a request of q that reacts.        *)
LEMMA ReactKeepsOthers ==
  ASSUME Inv, NEW q \in Slots, ReactSaves(q)
  PROVE  LET others == {r \in message.reactions : r.user # req[q].user}
             others2 == {r \in message'.reactions : r.user # req[q].user}
         IN /\ {<<r.id, r.user>> : r \in others} = {<<r.id, r.user>> : r \in others2}
            /\ \A r \in others2 : r \in others \union req[q].read.reactions
<1> DEFINE others == {r \in message.reactions : r.user # req[q].user}
           others2 == {r \in message'.reactions : r.user # req[q].user}
<1>0. /\ MessagesTypeOK /\ req[q].at = "react" /\ ReactEffect(q)
  BY DEF Inv, TypeInv, ReactSaves, ReactEffect
<1>1. CASE Mine(q) = {} /\ Reacted(Pushed(q), message.v + 1)
  <2>1. others2 = others
    BY <1>1 DEF Reacted, Pushed
  <2> QED
    BY <2>1
<1>2. CASE Current(q) /\ Reacted(Left(q), message.v + 1)
  <2>1. others2 = {r \in req[q].read.reactions : r.user # req[q].user}
    BY <1>2 DEF Reacted, Left, Mine
  <2>2. SameKeys(message.reactions, req[q].read.reactions)
    BY <1>0, <1>2, CurrentReads
  <2>3. \A r \in others : \E s \in others2 : s.id = r.id /\ s.user = r.user
    BY <2>1, <2>2 DEF SameKeys, Has
  <2>4. \A r \in others2 : \E s \in others : s.id = r.id /\ s.user = r.user
    BY <2>1, <2>2 DEF SameKeys, Has
  <2>5. {<<r.id, r.user>> : r \in others} = {<<r.id, r.user>> : r \in others2}
    BY <2>3, <2>4
  <2> QED
    BY <2>1, <2>5
<1>3. CASE \E first \in Mine(q) : Reacted(Changed(q, first), message.v)
  <2> PICK first \in Mine(q) : Reacted(Changed(q, first), message.v)
    BY <1>3
  <2>1. first.user = req[q].user
    BY DEF Mine
  <2>2. \A r \in message.reactions :
          [r EXCEPT !.emoji = req[q].emoji].user = r.user
    <3> TAKE r \in message.reactions
    <3>1. r \in Reaction
      BY <1>0 DEF MessagesTypeOK, Message
    <3> QED
      BY <3>1 DEF Reaction
  <2>3. others2 = others
    BY <2>1, <2>2 DEF Reacted, Changed
  <2> QED
    BY <2>3
<1>4. CASE UNCHANGED message
  BY <1>4
<1> QED
  BY <1>0, <1>1, <1>2, <1>3, <1>4, ReactCases

(* A request leaves the reactions of the other users, but for an emoji that  *)
(* its user changed after the request had read it.                           *)
THEOREM OthersStay == MessagesSpec => OthersReactionsKept
<1> DEFINE Kept2(q) ==
      LET others == {r \in message.reactions : r.user # req[q].user}
          others2 == {r \in message'.reactions : r.user # req[q].user}
      IN /\ {<<r.id, r.user>> : r \in others} = {<<r.id, r.user>> : r \in others2}
         /\ \A r \in others2 : r \in others \union req[q].read.reactions
<1>1. ASSUME Inv, [MessagesNext]_messagesVars, NEW q \in Slots, req'[q] # req[q]
      PROVE  Kept2(q)
  <2>1. CASE \E p \in Slots : ReactSaves(p)
    <3> PICK p \in Slots : ReactSaves(p)
      BY <2>1
    <3>1. p = q
      BY <1>1, EndsSlots DEF ReactSaves
    <3> QED
      BY <1>1, <3>1, ReactKeepsOthers
  <2>2. CASE message'.reactions = message.reactions
    BY <2>2
  <2>3. CASE \E p \in Slots : SavesRemoved(p)
    <3>1. message \in Message
      BY <1>1 DEF Inv, TypeInv, MessagesTypeOK
    <3>2. message'.reactions = message.reactions
      BY <2>3, <3>1 DEF SavesRemoved, Message
    <3> QED
      BY <3>2
  <2> QED
    BY <1>1, <2>1, <2>2, <2>3, StepKinds
<1>2. Inv /\ [MessagesNext]_messagesVars =>
        [\A q \in Slots : req'[q] # req[q] => Kept2(q)]_messagesVars
  BY <1>1
<1> QED
  BY <1>2, Invariance, PTL DEF MessagesSpec, OthersReactionsKept

(* A message stays removed for a user until the sender removes it for all    *)
(* while that user takes no part in the room.                                *)
THEOREM RemovalsStay == MessagesSpec => RemovedStays
<1>1. ASSUME Inv, [MessagesNext]_messagesVars, NEW u \in message.removedFor \ message'.removedFor
      PROVE  \E q \in Slots : /\ req[q].at = "remove" /\ req[q].all
                             /\ req[q].user = Sender /\ u \notin req[q].hide
  <2>0. message \in Message
    BY <1>1 DEF Inv, TypeInv, MessagesTypeOK
  <2>1. CASE \E q \in Slots : ReactSaves(q)
    <3> PICK q \in Slots : ReactSaves(q)
      BY <2>1
    <3>1. message'.removedFor = message.removedFor
      BY <1>1, ReactCases DEF Inv, TypeInv, ReactSaves, ReactEffect, Reacted
    <3> QED
      BY <1>1, <3>1
  <2>2. CASE \E q \in Slots : RemoveSaves(q) /\ SavesRemoved(q)
    <3> PICK q \in Slots : RemoveSaves(q) /\ SavesRemoved(q)
      BY <2>2
    <3>1. message'.removedFor = req[q].hide /\ req[q].at = "remove"
      BY <2>0 DEF SavesRemoved, RemoveSaves, Message
    <3>2. SlotInv(q) /\ req[q].all \in BOOLEAN
      BY <1>1, <3>1, RunningType DEF Inv, TypeInv
    <3>3. CASE req[q].all
      BY <1>1, <3>1, <3>2, <3>3 DEF SlotInv, HideInv
    <3>4. CASE ~req[q].all /\ Current(q)
      BY <1>1, <3>1, <3>2, <3>4 DEF SlotInv, HideInv, ReadInv
    <3>5. CASE ~req[q].all /\ ~Current(q)
      BY <1>1, <3>5 DEF RemoveSaves
    <3> QED
      BY <3>2, <3>3, <3>4, <3>5
  <2> QED
    BY <1>1, <2>1, <2>2, StepKinds
<1>2. Inv /\ [MessagesNext]_messagesVars =>
        [\A u \in message.removedFor \ message'.removedFor :
           \E q \in Slots : /\ req[q].at = "remove" /\ req[q].all
                            /\ req[q].user = Sender /\ u \notin req[q].hide]_messagesVars
  BY <1>1
<1> QED
  BY <1>2, Invariance, PTL DEF MessagesSpec, RemovedStays
=============================================================================
