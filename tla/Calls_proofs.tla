---------------------------- MODULE Calls_proofs ----------------------------
(***************************************************************************)
(* Proofs about the calls of CallService, for every set of users, rooms    *)
(* and requests and any number of endings.                                 *)
(***************************************************************************)
EXTENDS Calls, TLAPS

LEMMA SomeDocTypes == SomeDoc \in Call /\ SomeDoc.by \in Users
<1>1. (CHOOSE r \in Rooms : TRUE) \in Rooms /\ (CHOOSE u \in Callers : TRUE) \in Callers
  BY CallsAssumption
<1> QED BY <1>1 DEF SomeDoc, Call, Users

(* save() changes the fields that differ from what was read. *)
LEMMA SavedFields ==
  ASSUME NEW read \in Call, NEW new \in Call, NEW cur \in Call
  PROVE  /\ Saved(read, new, cur) \in Call
         /\ Saved(read, new, cur).anonymous = cur.anonymous
         /\ Saved(read, new, cur).by = cur.by
         /\ Saved(read, new, cur).room = IF new.room # read.room THEN new.room ELSE cur.room
         /\ Saved(read, new, cur).parts = IF new.parts # read.parts THEN new.parts ELSE cur.parts
         /\ Saved(read, new, cur).open = IF new.open # read.open THEN new.open ELSE cur.open
<1> DEFINE room == IF new.room # read.room THEN new.room ELSE cur.room
           parts == IF new.parts # read.parts THEN new.parts ELSE cur.parts
           open == IF new.open # read.open THEN new.open ELSE cur.open
           v == IF new.parts # read.parts THEN cur.v + 1 ELSE cur.v
<1>1. room \in Rooms /\ parts \in SUBSET Users /\ open \in BOOLEAN /\ v \in Nat
  BY DEF Call
<1>2. Saved(read, new, cur) = [cur EXCEPT !.room = room, !.parts = parts, !.open = open, !.v = v]
  BY DEF Saved, Call
<1> HIDE DEF room, parts, open, v
<1>3. /\ Saved(read, new, cur) \in Call
      /\ Saved(read, new, cur).anonymous = cur.anonymous
      /\ Saved(read, new, cur).by = cur.by
      /\ Saved(read, new, cur).room = room
      /\ Saved(read, new, cur).parts = parts
      /\ Saved(read, new, cur).open = open
  BY <1>1, <1>2 DEF Call
<1> QED BY <1>3 DEF room, parts, open

(* A request that goes on, and one that is answered. *)
LEMMA GoesTypes ==
  ASSUME CallsTypeOK, NEW q \in Requests,
         NEW pc \in {"idle", "room", "find", "own", "save", "add", "create", "done"}, Goes(q, pc)
  PROVE  /\ req' \in [Requests -> Request]
         /\ \A p \in Requests \ {q} : req'[p] = req[p]
         /\ req'[q] = [req[q] EXCEPT !.pc = pc]
  BY DEF Goes, CallsTypeOK, Request

LEMMA AnswersTypes ==
  ASSUME CallsTypeOK, NEW q \in Requests,
         NEW reply \in {"ROOM_NOT_FOUND", "USER_NOT_IN_ROOM", "SERVER_ERROR", "JOIN_ROOM", "NEW_CALL"},
         Answers(q, reply)
  PROVE  /\ req' \in [Requests -> Request]
         /\ \A p \in Requests \ {q} : req'[p] = req[p]
         /\ req'[q] = [req[q] EXCEPT !.pc = "done", !.reply = reply, !.doc = SomeDoc]
<1>1. req[q] \in Request
  BY DEF CallsTypeOK
<1> DEFINE new == [req[q] EXCEPT !.pc = "done", !.reply = reply, !.doc = SomeDoc]
<1>2. new \in Request
  BY <1>1, SomeDocTypes DEF Request
<1>3. req' = [req EXCEPT ![q] = new]
  BY DEF Answers
<1> HIDE DEF new
<1>4. /\ req' \in [Requests -> Request]
      /\ \A p \in Requests \ {q} : req'[p] = req[p]
      /\ req'[q] = new
  BY <1>2, <1>3 DEF CallsTypeOK
<1> QED BY <1>4 DEF new

LEMMA AskTypes ==
  ASSUME CallsTypeOK, NEW q \in Requests, NEW u \in Callers, NEW r \in Rooms,
         Ask(q, u, r) \/ AskAnonymous(q, u, r)
  PROVE  /\ req' \in [Requests -> Request]
         /\ \A p \in Requests \ {q} : req'[p] = req[p]
         /\ req'[q] = [req[q] EXCEPT !.pc = "room", !.user = u, !.room = r]
<1>1. req[q] \in Request
  BY DEF CallsTypeOK
<1> DEFINE new == [req[q] EXCEPT !.pc = "room", !.user = u, !.room = r]
<1>2. new \in Request
  BY <1>1 DEF Request, Users
<1>3. req' = [req EXCEPT ![q] = new]
  BY <1>1 DEF Ask, AskAnonymous, CallsTypeOK
<1> HIDE DEF new
<1>4. /\ req' \in [Requests -> Request]
      /\ \A p \in Requests \ {q} : req'[p] = req[p]
      /\ req'[q] = new
  BY <1>2, <1>3 DEF CallsTypeOK
<1> QED BY <1>4 DEF new

(* What a find leaves to the request: another step of it, the call found and *)
(* the calls it saw.                                                         *)
LEMMA FindTypes ==
  ASSUME CallsTypeOK, NEW q \in Requests, FindOpenCall(q) \/ FindOwnCall(q)
  PROVE  /\ req' \in [Requests -> Request]
         /\ \A p \in Requests \ {q} : req'[p] = req[p]
         /\ req'[q].user = req[q].user /\ req'[q].room = req[q].room
         /\ req'[q].reply = req[q].reply /\ req'[q].pc \in {"own", "save", "add", "create"}
         /\ req'[q].saw \in {req[q].saw, DOMAIN calls}
         /\ req'[q].pc = "own" => Anonymous(req[q].room)
         /\ req'[q].pc = "save" => /\ req[q].pc = "own"
                                  /\ req'[q].call \in DOMAIN calls
                                  /\ calls[req'[q].call].anonymous
         /\ req'[q].pc = "add" => req'[q].call \in DOMAIN calls
         /\ req'[q].pc = "create" =>
              /\ req'[q].saw = DOMAIN calls
              /\ IF req[q].pc = "own"
                 THEN \A c \in DOMAIN calls : ~(calls[c].anonymous /\ calls[c].by = req[q].user)
                 ELSE ~Anonymous(req[q].room) /\ OpenIn(req[q].room) = {}
<1>0. req[q] \in Request /\ DOMAIN calls \in SUBSET CallIds
  BY DEF CallsTypeOK
<1>1. CASE FindOpenCall(q) /\ Anonymous(req[q].room)
  <2>1. Goes(q, "own")
    BY <1>1 DEF FindOpenCall, FoundAny
  <2>2. /\ req' \in [Requests -> Request]
        /\ \A p \in Requests \ {q} : req'[p] = req[p]
        /\ req'[q] = [req[q] EXCEPT !.pc = "own"]
    BY <2>1, GoesTypes
  <2> QED BY <1>0, <1>1, <2>2 DEF Request
<1>2. CASE FindOpenCall(q) /\ ~Anonymous(req[q].room)
  <2>1. PICK c \in IF OpenIn(req[q].room) = {} THEN {NoCall} ELSE OpenIn(req[q].room) :
          req' = [req EXCEPT ![q].call = c, ![q].saw = DOMAIN calls,
                             ![q].pc = IF c = NoCall THEN "create" ELSE "add"]
    BY <1>2 DEF FindOpenCall, FoundAny
  <2>2. c \in CallIds \union {NoCall} /\ (c # NoCall => c \in DOMAIN calls)
    BY <1>0, <2>1 DEF OpenIn
  <2>3. c = NoCall => OpenIn(req[q].room) = {}
    BY <1>0, <2>1, CallsAssumption DEF OpenIn, CallIds
  <2> DEFINE pc == IF c = NoCall THEN "create" ELSE "add"
             new == [req[q] EXCEPT !.call = c, !.saw = DOMAIN calls, !.pc = pc]
  <2>4. pc \in {"create", "add"} /\ (pc = "create" => c = NoCall)
    OBVIOUS
  <2>5. req' = [req EXCEPT ![q] = new]
    BY <1>0, <2>1 DEF CallsTypeOK
  <2> HIDE DEF pc
  <2>6. /\ new \in Request /\ new.pc = pc /\ new.call = c /\ new.saw = DOMAIN calls
        /\ new.user = req[q].user /\ new.room = req[q].room /\ new.reply = req[q].reply
    BY <1>0, <2>2, <2>4 DEF Request
  <2> HIDE DEF new
  <2>7. /\ req' \in [Requests -> Request]
        /\ \A p \in Requests \ {q} : req'[p] = req[p]
        /\ req'[q] = new
    BY <2>5, <2>6 DEF CallsTypeOK
  <2>8. req[q].pc = "find"
    BY <1>2 DEF FindOpenCall
  <2>9. pc = "add" => c \in DOMAIN calls
    BY <2>2 DEF pc
  <2> QED BY <1>2, <2>3, <2>4, <2>6, <2>7, <2>8, <2>9
<1>3. CASE FindOwnCall(q)
  <2> DEFINE own == {c \in DOMAIN calls : calls[c].anonymous /\ calls[c].by = req[q].user}
  <2>1. req[q].pc = "own"
    BY <1>3 DEF FindOwnCall
  <2>2. CASE own = {} /\ req' = [req EXCEPT ![q].saw = DOMAIN calls, ![q].pc = "create"]
    <3> DEFINE new == [req[q] EXCEPT !.saw = DOMAIN calls, !.pc = "create"]
    <3>1. req' = [req EXCEPT ![q] = new]
      BY <1>0, <2>2 DEF CallsTypeOK
    <3>2. /\ new \in Request /\ new.pc = "create" /\ new.saw = DOMAIN calls
          /\ new.user = req[q].user /\ new.room = req[q].room /\ new.reply = req[q].reply
      BY <1>0 DEF Request
    <3> HIDE DEF new
    <3>3. /\ req' \in [Requests -> Request]
          /\ \A p \in Requests \ {q} : req'[p] = req[p]
          /\ req'[q] = new
      BY <3>1, <3>2 DEF CallsTypeOK
    <3> QED BY <2>1, <2>2, <3>2, <3>3
  <2>3. ASSUME NEW c \in own,
               req' = [req EXCEPT ![q].call = c, ![q].doc = calls[c], ![q].pc = "save"]
        PROVE  /\ req' \in [Requests -> Request]
               /\ \A p \in Requests \ {q} : req'[p] = req[p]
               /\ req'[q].user = req[q].user /\ req'[q].room = req[q].room
               /\ req'[q].reply = req[q].reply /\ req'[q].pc = "save"
               /\ req'[q].saw = req[q].saw /\ req'[q].call = c
    <3> DEFINE new == [req[q] EXCEPT !.call = c, !.doc = calls[c], !.pc = "save"]
    <3>0. c \in CallIds /\ calls[c] \in Call
      BY DEF CallsTypeOK
    <3>1. req' = [req EXCEPT ![q] = new]
      BY <1>0, <2>3 DEF CallsTypeOK
    <3>2. /\ new \in Request /\ new.pc = "save" /\ new.saw = req[q].saw /\ new.call = c
          /\ new.user = req[q].user /\ new.room = req[q].room /\ new.reply = req[q].reply
      BY <1>0, <3>0 DEF Request
    <3> HIDE DEF new
    <3>3. /\ req' \in [Requests -> Request]
          /\ \A p \in Requests \ {q} : req'[p] = req[p]
          /\ req'[q] = new
      BY <3>1, <3>2 DEF CallsTypeOK
    <3> QED BY <3>2, <3>3
  <2> QED BY <1>3, <2>1, <2>2, <2>3 DEF FindOwnCall
<1> QED BY <1>1, <1>2, <1>3
-----------------------------------------------------------------------------
(* The inductive invariant.  An anonymous call is of an anonymous room. *)
Shaped == \A c \in DOMAIN calls : calls[c].anonymous => Anonymous(calls[c].room)

(* A request names the call it found, has made none before it is done, and   *)
(* when about to create one has seen no call that it would be a twin of.     *)
ReqOK(q) ==
  /\ req[q].saw \subseteq DOMAIN calls
  /\ req[q].pc # "done" => req[q].reply = "none" /\ q \notin DOMAIN calls
  /\ req[q].pc \in {"own", "save"} => Anonymous(req[q].room)
  /\ req[q].pc = "save" => req[q].call \in DOMAIN calls /\ calls[req[q].call].anonymous
  /\ req[q].pc = "add" => req[q].call \in DOMAIN calls
  /\ req[q].reply \in {"JOIN_ROOM", "NEW_CALL"} =>
       /\ req[q].call \in DOMAIN calls
       /\ calls[req[q].call].anonymous \/ req[q].user \in calls[req[q].call].parts
  /\ req[q].pc = "create" =>
       \A c \in req[q].saw :
         IF Anonymous(req[q].room)
         THEN ~(calls[c].anonymous /\ calls[c].by = req[q].user)
         ELSE calls[c].anonymous \/ ~(calls[c].room = req[q].room /\ calls[c].open)

(* An ending read its call as anonymous or not as the call is. *)
EndOK(n) ==
  LET e == ends[n] IN
  /\ e.call \in DOMAIN calls
  /\ e.pc # "read" => e.doc.anonymous = calls[e.call].anonymous
  /\ e.pc # "read" /\ e.doc.anonymous => Anonymous(e.doc.room)
  /\ e.pc \in {"room", "messages"} => e.doc.anonymous

CallsInv ==
  /\ CallsTypeOK
  /\ Shaped
  /\ \A q \in Requests : ReqOK(q)
  /\ \A n \in DOMAIN ends : EndOK(n)

(* What a step may do to the calls that are there: who made one and whether  *)
(* it is anonymous stay; an ordinary one stays in its room, loses nobody and *)
(* does not open again.                                                      *)
Evolves ==
  /\ DOMAIN calls \subseteq DOMAIN calls'
  /\ \A c \in DOMAIN calls :
       /\ calls'[c].anonymous = calls[c].anonymous /\ calls'[c].by = calls[c].by
       /\ ~calls[c].anonymous =>
            /\ calls'[c].room = calls[c].room
            /\ calls[c].parts \subseteq calls'[c].parts
            /\ calls'[c].open => calls[c].open

CallsTyped == DOMAIN calls \subseteq CallIds /\ calls \in [DOMAIN calls -> Call]

LEMMA CallTypes ==
  ASSUME CallsTypeOK, NEW c \in DOMAIN calls PROVE c \in CallIds /\ calls[c] \in Call
  BY DEF CallsTypeOK

(* One call is written. *)
LEMMA OneCall ==
  ASSUME CallsTypeOK, Shaped, NEW c \in DOMAIN calls, NEW new \in Call,
         calls' = [calls EXCEPT ![c] = new],
         new.anonymous = calls[c].anonymous, new.by = calls[c].by,
         new.anonymous => Anonymous(new.room),
         ~new.anonymous => /\ new.room = calls[c].room
                           /\ calls[c].parts \subseteq new.parts
                           /\ new.open => calls[c].open
  PROVE  /\ CallsTyped' /\ Shaped' /\ Evolves
         /\ DOMAIN calls' = DOMAIN calls /\ calls'[c] = new
<1>1. /\ DOMAIN calls' = DOMAIN calls /\ calls'[c] = new
      /\ calls' \in [DOMAIN calls -> Call]
      /\ \A d \in DOMAIN calls \ {c} : calls'[d] = calls[d]
  BY DEF CallsTypeOK
<1>2. CallsTyped'
  BY <1>1 DEF CallsTyped, CallsTypeOK
<1>3. Shaped'
  BY <1>1 DEF Shaped
<1>4. Evolves
  BY <1>1 DEF Evolves
<1> QED BY <1>1, <1>2, <1>3, <1>4

LEMMA PostingTypes ==
  ASSUME CallsTypeOK, NEW c \in CallIds, NEW r \in Rooms,
         posting' = posting \union {[call |-> c, room |-> r, checked |-> FALSE]}
  PROVE  posting' \subseteq [call : CallIds, room : Rooms, checked : BOOLEAN]
<1>1. [call |-> c, room |-> r, checked |-> FALSE] \in [call : CallIds, room : Rooms, checked : BOOLEAN]
  OBVIOUS
<1>2. posting \subseteq [call : CallIds, room : Rooms, checked : BOOLEAN]
  BY DEF CallsTypeOK
<1> QED BY <1>1, <1>2

LEMMA SameCalls ==
  ASSUME CallsTypeOK, Shaped, calls' = calls PROVE CallsTyped' /\ Shaped' /\ Evolves
  BY DEF CallsTypeOK, CallsTyped, Shaped, Evolves

LEMMA SaveOwnEffect ==
  ASSUME CallsInv, NEW q \in Requests, SaveOwnCall(q)
  PROVE  /\ CallsTyped' /\ Shaped' /\ Evolves /\ DOMAIN calls' = DOMAIN calls
         /\ Goes(q, "add") \/ Answers(q, "SERVER_ERROR")
         /\ posting' \subseteq [call : CallIds, room : Rooms, checked : BOOLEAN]
<1> DEFINE c == req[q].call
           read == req[q].doc
           new == [read EXCEPT !.room = req[q].room, !.parts = {req[q].user}, !.open = TRUE]
<1>0. CallsTypeOK /\ Shaped /\ req[q] \in Request
  BY DEF CallsInv, CallsTypeOK
<1>1. c \in DOMAIN calls /\ calls[c].anonymous /\ Anonymous(req[q].room)
  BY DEF SaveOwnCall, CallsInv, ReqOK
<1>2. c \in CallIds /\ calls[c] \in Call /\ req[q].room \in Rooms
  BY <1>0, <1>1, CallTypes DEF Request
<1>3. read \in Call /\ new \in Call /\ new.room = req[q].room
  BY <1>0 DEF Request, Call
<1>4. CASE SaveFails(read, new, calls[c]) /\ Answers(q, "SERVER_ERROR") /\ UNCHANGED <<calls, posting>>
  BY <1>0, <1>4, SameCalls DEF CallsTypeOK
<1>5. CASE /\ calls' = [calls EXCEPT ![c] = Saved(read, new, @)]
           /\ posting' = posting \union {[call |-> c, room |-> req[q].room, checked |-> FALSE]}
           /\ Goes(q, "add")
  <2> HIDE DEF new, read, c
  <2>1. PICK saved : saved = Saved(read, new, calls[c])
    OBVIOUS
  <2>2. /\ saved \in Call /\ saved.anonymous = calls[c].anonymous /\ saved.by = calls[c].by
        /\ saved.room = IF new.room # read.room THEN new.room ELSE calls[c].room
    BY <1>2, <1>3, <2>1, SavedFields
  <2>3. calls' = [calls EXCEPT ![c] = saved]
    BY <1>5, <2>1
  <2>4. Anonymous(saved.room)
    BY <1>0, <1>1, <1>3, <2>2 DEF Shaped
  <2>5. CallsTyped' /\ Shaped' /\ Evolves /\ DOMAIN calls' = DOMAIN calls
    BY <1>0, <1>1, <2>2, <2>3, <2>4, OneCall
  <2>6. posting' \subseteq [call : CallIds, room : Rooms, checked : BOOLEAN]
    BY <1>0, <1>2, <1>5, PostingTypes
  <2> QED BY <1>5, <2>5, <2>6
<1> QED BY <1>4, <1>5 DEF SaveOwnCall

LEMMA AddEffect ==
  ASSUME CallsInv, NEW q \in Requests, AddParticipant(q)
  PROVE  /\ CallsTyped' /\ Shaped' /\ Evolves /\ DOMAIN calls' = DOMAIN calls
         /\ req[q].call \in DOMAIN calls /\ req[q].user \in calls'[req[q].call].parts
<1> DEFINE c == req[q].call
           new == [calls[c] EXCEPT !.parts = @ \union {req[q].user}]
<1>0. CallsTypeOK /\ Shaped /\ req[q].user \in Users
  BY DEF CallsInv, CallsTypeOK, Request
<1>1. c \in DOMAIN calls
  BY DEF AddParticipant, CallsInv, ReqOK
<1>2. calls[c] \in Call /\ (calls[c].anonymous => Anonymous(calls[c].room))
  BY <1>0, <1>1, CallTypes DEF Shaped
<1>3. /\ new \in Call /\ new.anonymous = calls[c].anonymous /\ new.by = calls[c].by
      /\ new.room = calls[c].room /\ new.open = calls[c].open
      /\ new.parts = calls[c].parts \union {req[q].user}
  BY <1>0, <1>2 DEF Call
<1>4. calls' = [calls EXCEPT ![c] = new]
  BY DEF AddParticipant
<1> HIDE DEF new, c
<1>5. /\ CallsTyped' /\ Shaped' /\ Evolves /\ DOMAIN calls' = DOMAIN calls /\ calls'[c] = new
  BY <1>0, <1>1, <1>2, <1>3, <1>4, OneCall
<1>6. req[q].user \in calls'[c].parts
  BY <1>3, <1>5
<1> QED BY <1>1, <1>5, <1>6 DEF c

LEMMA CreateEffect ==
  ASSUME CallsInv, NEW q \in Requests, CreateCall(q)
  PROVE  /\ CallsTyped' /\ Shaped' /\ Evolves
         /\ q \notin DOMAIN calls /\ DOMAIN calls' = DOMAIN calls \union {q}
         /\ \A c \in DOMAIN calls : calls'[c] = calls[c]
         /\ calls'[q] = [room |-> req[q].room, anonymous |-> Anonymous(req[q].room),
                         by |-> req[q].user, parts |-> {req[q].user}, open |-> TRUE, v |-> 0]
         /\ posting' \subseteq [call : CallIds, room : Rooms, checked : BOOLEAN]
         /\ req' \in [Requests -> Request]
         /\ \A p \in Requests \ {q} : req'[p] = req[p]
         /\ req'[q] = [req[q] EXCEPT !.call = q, !.pc = "done", !.reply = "NEW_CALL"]
<1> DEFINE made == [room |-> req[q].room, anonymous |-> Anonymous(req[q].room),
                    by |-> req[q].user, parts |-> {req[q].user}, open |-> TRUE, v |-> 0]
           new == [req[q] EXCEPT !.call = q, !.pc = "done", !.reply = "NEW_CALL"]
<1>0. CallsTypeOK /\ Shaped /\ req[q] \in Request
  BY DEF CallsInv, CallsTypeOK
<1>1. q \notin DOMAIN calls /\ q \in CallIds /\ req[q].room \in Rooms
  BY <1>0 DEF CreateCall, CallsInv, ReqOK, CallIds, Request
<1>2. /\ made \in Call /\ made.room = req[q].room
      /\ made.anonymous = Anonymous(req[q].room)
  BY <1>0 DEF Request, Call, Anonymous
<1>3. new \in Request
  BY <1>0 DEF Request, CallIds
<1>4. req' = [req EXCEPT ![q] = new]
  BY <1>0 DEF CreateCall, CallsTypeOK
<1>5. calls' = With(calls, q, made)
  BY DEF CreateCall
<1>6. posting' \subseteq [call : CallIds, room : Rooms, checked : BOOLEAN]
  BY <1>0, <1>1, PostingTypes DEF CreateCall
<1> HIDE DEF made, new
<1>7. /\ DOMAIN calls' = DOMAIN calls \union {q}
      /\ \A c \in DOMAIN calls : calls'[c] = calls[c]
      /\ calls'[q] = made
      /\ calls' \in [DOMAIN calls' -> Call]
  BY <1>0, <1>1, <1>2, <1>5 DEF With, CallsTypeOK
<1>8. CallsTyped'
  BY <1>0, <1>1, <1>7 DEF CallsTyped, CallsTypeOK
<1>9. Shaped' /\ Evolves
  BY <1>0, <1>2, <1>7 DEF Shaped, Evolves
<1>10. /\ req' \in [Requests -> Request]
       /\ \A p \in Requests \ {q} : req'[p] = req[p]
       /\ req'[q] = new
  BY <1>0, <1>3, <1>4 DEF CallsTypeOK
<1> QED BY <1>1, <1>6, <1>7, <1>8, <1>9, <1>10 DEF made, new

LEMMA EndSaveEffect ==
  ASSUME CallsInv, NEW n \in DOMAIN ends, EndSavesCall(n)
  PROVE  CallsTyped' /\ Shaped' /\ Evolves /\ DOMAIN calls' = DOMAIN calls
<1> DEFINE c == ends[n].call
           read == ends[n].doc
           new == [read EXCEPT !.open = FALSE, !.parts = IF read.anonymous THEN {} ELSE @]
<1>0. CallsTypeOK /\ Shaped /\ ends[n] \in Ending
  BY DEF CallsInv, CallsTypeOK
<1>1. c \in DOMAIN calls /\ read.anonymous = calls[c].anonymous
  BY DEF EndSavesCall, CallsInv, EndOK
<1>2. calls[c] \in Call /\ read \in Call /\ (calls[c].anonymous => Anonymous(calls[c].room))
  BY <1>0, <1>1, CallTypes DEF Ending, Shaped
<1>3. /\ new \in Call /\ new.room = read.room
      /\ ~read.anonymous => new.parts = read.parts
  BY <1>2 DEF Call
<1> HIDE DEF new, read, c
<1>4. CASE calls' = calls
  BY <1>0, <1>4, SameCalls
<1>5. CASE calls' = [calls EXCEPT ![c] = [Saved(read, new, @) EXCEPT !.open = FALSE]]
  <2>1. PICK saved : saved = Saved(read, new, calls[c])
    OBVIOUS
  <2>2. /\ saved \in Call /\ saved.anonymous = calls[c].anonymous /\ saved.by = calls[c].by
        /\ saved.room = calls[c].room
        /\ ~calls[c].anonymous => saved.parts = calls[c].parts
    BY <1>1, <1>2, <1>3, <2>1, SavedFields
  <2> DEFINE shut == [saved EXCEPT !.open = FALSE]
  <2>3. /\ shut \in Call /\ shut.anonymous = saved.anonymous /\ shut.by = saved.by
        /\ shut.room = saved.room /\ shut.parts = saved.parts /\ shut.open = FALSE
    BY <2>2 DEF Call
  <2>4. calls' = [calls EXCEPT ![c] = shut]
    BY <1>5, <2>1
  <2> HIDE DEF shut
  <2> QED BY <1>0, <1>1, <1>2, <2>2, <2>3, <2>4, OneCall
<1> QED BY <1>4, <1>5 DEF EndSavesCall, read, new, c
-----------------------------------------------------------------------------
(* Every step keeps the calls typed and shaped, and only a creation adds one.*)
CallsStep ==
  /\ CallsTyped' /\ Shaped' /\ Evolves
  /\ \A q \in DOMAIN calls' \ DOMAIN calls : req'[q].pc = "done"

LEMMA CallsNextStep ==
  ASSUME CallsInv, [CallsNext]_callsVars PROVE CallsStep
<1>0. CallsTypeOK /\ Shaped
  BY DEF CallsInv
<1>1. ASSUME calls' = calls PROVE CallsStep
  BY <1>0, <1>1, SameCalls DEF CallsStep
<1>2. ASSUME CallsTyped' /\ Shaped' /\ Evolves /\ DOMAIN calls' = DOMAIN calls PROVE CallsStep
  BY <1>2 DEF CallsStep
<1>3. ASSUME NEW q \in Requests, RequestStep(q) PROVE CallsStep
  <2>1. ReadRoom(q) \/ FindOpenCall(q) \/ FindOwnCall(q) => calls' = calls
    BY DEF ReadRoom, FindOpenCall, FindOwnCall
  <2>2. ASSUME CreateCall(q) PROVE CallsStep
    <3>1. req'[q].pc = "done"
      <4>1. req[q] \in Request /\ req'[q] = [req[q] EXCEPT !.call = q, !.pc = "done", !.reply = "NEW_CALL"]
        BY <1>0, <2>2, CreateEffect DEF CallsTypeOK
      <4> QED BY <4>1 DEF Request
    <3> QED BY <2>2, <3>1, CreateEffect DEF CallsStep
  <2> QED BY <1>1, <1>2, <1>3, <2>1, <2>2, SaveOwnEffect, AddEffect DEF RequestStep
<1>4. ASSUME NEW n \in EndIds, EndStep(n) PROVE CallsStep
  <2>1. n \in DOMAIN ends
    BY <1>4 DEF EndStep
  <2>2. EndReadsCall(n) \/ EndDeletesRoom(n) \/ EndDeletesMessages(n) => calls' = calls
    BY DEF EndReadsCall, EndDeletesRoom, EndDeletesMessages
  <2> QED BY <1>1, <1>2, <1>4, <2>1, <2>2, EndSaveEffect DEF EndStep
<1>5. ASSUME NEW q \in Requests, NEW u \in Callers, NEW r \in Rooms,
             Ask(q, u, r) \/ AskAnonymous(q, u, r)
      PROVE  calls' = calls
  BY <1>5 DEF Ask, AskAnonymous
<1>6. ASSUME NEW m \in posting, CheckMessageRoom(m) \/ StoreMessage(m) PROVE calls' = calls
  BY <1>6 DEF CheckMessageRoom, StoreMessage
<1>7. ASSUME NEW u \in Guests, NEW c \in CallIds, GuestFindsCall(u, c) PROVE calls' = calls
  BY <1>7 DEF GuestFindsCall
<1>8. ASSUME NEW g \in guests, GuestEnters(g) PROVE calls' = calls
  BY <1>8 DEF GuestEnters
<1>9. ASSUME NEW c \in CallIds, IssueEndCall(c) PROVE calls' = calls
  BY <1>9 DEF IssueEndCall
<1>10. ASSUME Crash PROVE calls' = calls
  BY <1>10 DEF Crash
<1>11. ASSUME UNCHANGED callsVars PROVE calls' = calls
  BY <1>11 DEF callsVars
<1>12. CASE CallsNext
  BY <1>1, <1>3, <1>4, <1>5, <1>6, <1>7, <1>8, <1>9, <1>10, <1>12 DEF CallsNext
<1> QED BY <1>1, <1>11, <1>12

-----------------------------------------------------------------------------
(* A request that is left alone, or that a crash cuts off. *)
LEMMA SameReq ==
  ASSUME NEW q \in Requests, ReqOK(q), CallsStep, req'[q] = req[q]
  PROVE  ReqOK(q)'
<1>1. req[q].pc # "done" => q \notin DOMAIN calls'
  BY DEF CallsStep, ReqOK
<1>2. Evolves
  BY DEF CallsStep
<1>3. req[q].saw \subseteq DOMAIN calls'
  BY <1>2 DEF ReqOK, Evolves
<1>4. req[q].call \in DOMAIN calls =>
        /\ req[q].call \in DOMAIN calls'
        /\ calls'[req[q].call].anonymous = calls[req[q].call].anonymous
        /\ ~calls[req[q].call].anonymous =>
             calls[req[q].call].parts \subseteq calls'[req[q].call].parts
  BY <1>2 DEF Evolves
<1>5. ASSUME req[q].pc = "create", NEW c \in req[q].saw
      PROVE  IF Anonymous(req[q].room)
             THEN ~(calls'[c].anonymous /\ calls'[c].by = req[q].user)
             ELSE calls'[c].anonymous \/ ~(calls'[c].room = req[q].room /\ calls'[c].open)
  BY <1>2, <1>5 DEF ReqOK, Evolves
<1> QED BY <1>1, <1>3, <1>4, <1>5 DEF ReqOK, Anonymous

(* What a request keeps while it answers nothing yet. *)
LEMMA OtherReqs ==
  ASSUME CallsInv, CallsStep, NEW q \in Requests,
         \A p \in Requests \ {q} : req'[p] = req[p], ReqOK(q)'
  PROVE  \A p \in Requests : ReqOK(p)'
  BY SameReq DEF CallsInv

LEMMA ReqNext ==
  ASSUME CallsInv, CallsStep, [CallsNext]_callsVars PROVE \A q \in Requests : ReqOK(q)'
<1>0. CallsTypeOK /\ \A q \in Requests : ReqOK(q) /\ req[q] \in Request
  BY DEF CallsInv, CallsTypeOK
<1>1. ASSUME UNCHANGED req PROVE \A q \in Requests : ReqOK(q)'
  BY <1>0, <1>1, SameReq
<1>2. ASSUME NEW q \in Requests, NEW u \in Callers, NEW r \in Rooms,
             Ask(q, u, r) \/ AskAnonymous(q, u, r)
      PROVE  \A p \in Requests : ReqOK(p)'
  <2>1. /\ \A p \in Requests \ {q} : req'[p] = req[p]
        /\ req'[q] = [req[q] EXCEPT !.pc = "room", !.user = u, !.room = r]
    BY <1>0, <1>2, AskTypes
  <2>2. req[q].pc = "idle" /\ calls' = calls
    BY <1>2 DEF Ask, AskAnonymous
  <2>3. /\ req'[q].pc = "room" /\ req'[q].reply = req[q].reply /\ req'[q].saw = req[q].saw
    BY <1>0, <2>1 DEF Request
  <2>4. ReqOK(q)'
    BY <1>0, <2>2, <2>3 DEF ReqOK
  <2> QED BY <2>1, <2>4, OtherReqs
<1>3. ASSUME NEW q \in Requests, ReadRoom(q) PROVE \A p \in Requests : ReqOK(p)'
  <2>0. calls' = calls /\ req[q].pc = "room"
    BY <1>3 DEF ReadRoom
  <2>1. CASE Goes(q, "find")
    <3>1. /\ \A p \in Requests \ {q} : req'[p] = req[p]
          /\ req'[q] = [req[q] EXCEPT !.pc = "find"]
      BY <1>0, <2>1, GoesTypes
    <3>2. req'[q].pc = "find" /\ req'[q].reply = req[q].reply /\ req'[q].saw = req[q].saw
      BY <1>0, <3>1 DEF Request
    <3>3. ReqOK(q)'
      BY <1>0, <2>0, <3>2 DEF ReqOK
    <3> QED BY <3>1, <3>3, OtherReqs
  <2>2. ASSUME NEW reply \in {"ROOM_NOT_FOUND", "USER_NOT_IN_ROOM"}, Answers(q, reply)
        PROVE  \A p \in Requests : ReqOK(p)'
    <3>1. /\ \A p \in Requests \ {q} : req'[p] = req[p]
          /\ req'[q] = [req[q] EXCEPT !.pc = "done", !.reply = reply, !.doc = SomeDoc]
      BY <1>0, <2>2, AnswersTypes
    <3>2. req'[q].pc = "done" /\ req'[q].reply = reply /\ req'[q].saw = req[q].saw
      BY <1>0, <3>1 DEF Request
    <3>3. ReqOK(q)'
      BY <1>0, <2>0, <3>2 DEF ReqOK
    <3> QED BY <3>1, <3>3, OtherReqs
  <2> QED BY <1>3, <2>1, <2>2 DEF ReadRoom
<1>4. ASSUME NEW q \in Requests, FindOpenCall(q) \/ FindOwnCall(q)
      PROVE  \A p \in Requests : ReqOK(p)'
  <2>0. calls' = calls /\ req[q].pc \in {"find", "own"}
    BY <1>4 DEF FindOpenCall, FindOwnCall
  <2>1. /\ \A p \in Requests \ {q} : req'[p] = req[p]
        /\ req'[q].user = req[q].user /\ req'[q].room = req[q].room
        /\ req'[q].reply = req[q].reply /\ req'[q].pc \in {"own", "save", "add", "create"}
        /\ req'[q].saw \in {req[q].saw, DOMAIN calls}
        /\ req'[q].pc = "own" => Anonymous(req[q].room)
        /\ req'[q].pc = "save" => /\ req[q].pc = "own"
                                 /\ req'[q].call \in DOMAIN calls
                                 /\ calls[req'[q].call].anonymous
        /\ req'[q].pc = "add" => req'[q].call \in DOMAIN calls
        /\ req'[q].pc = "create" =>
             /\ req'[q].saw = DOMAIN calls
             /\ IF req[q].pc = "own"
                THEN \A c \in DOMAIN calls : ~(calls[c].anonymous /\ calls[c].by = req[q].user)
                ELSE ~Anonymous(req[q].room) /\ OpenIn(req[q].room) = {}
    BY <1>0, <1>4, FindTypes
  <2>2. req[q].reply = "none" /\ q \notin DOMAIN calls
        /\ (req[q].pc = "own" => Anonymous(req[q].room)) /\ req[q].saw \subseteq DOMAIN calls
    BY <1>0, <2>0 DEF ReqOK
  <2>3. ASSUME req'[q].pc = "create", NEW c \in DOMAIN calls
        PROVE  IF Anonymous(req[q].room)
               THEN ~(calls[c].anonymous /\ calls[c].by = req[q].user)
               ELSE calls[c].anonymous \/ ~(calls[c].room = req[q].room /\ calls[c].open)
    <3>1. OpenIn(req[q].room) = {} => ~(calls[c].room = req[q].room /\ calls[c].open)
      BY DEF OpenIn
    <3> QED BY <2>1, <2>2, <2>3, <3>1
  <2>4. ReqOK(q)'
    BY <2>0, <2>1, <2>2, <2>3 DEF ReqOK, Anonymous
  <2> QED BY <2>1, <2>4, OtherReqs
<1>5. ASSUME NEW q \in Requests, SaveOwnCall(q) PROVE \A p \in Requests : ReqOK(p)'
  <2>0. /\ DOMAIN calls' = DOMAIN calls /\ (Goes(q, "add") \/ Answers(q, "SERVER_ERROR"))
        /\ req[q].pc = "save"
    BY <1>5, SaveOwnEffect DEF SaveOwnCall
  <2>1. CASE Goes(q, "add")
    <3>1. /\ \A p \in Requests \ {q} : req'[p] = req[p]
          /\ req'[q] = [req[q] EXCEPT !.pc = "add"]
      BY <1>0, <2>1, GoesTypes
    <3>2. /\ req'[q].pc = "add" /\ req'[q].reply = req[q].reply /\ req'[q].saw = req[q].saw
          /\ req'[q].call = req[q].call
      BY <1>0, <3>1 DEF Request
    <3>3. ReqOK(q)'
      BY <1>0, <2>0, <3>2 DEF ReqOK
    <3> QED BY <3>1, <3>3, OtherReqs
  <2>2. CASE Answers(q, "SERVER_ERROR")
    <3>1. /\ \A p \in Requests \ {q} : req'[p] = req[p]
          /\ req'[q] = [req[q] EXCEPT !.pc = "done", !.reply = "SERVER_ERROR", !.doc = SomeDoc]
      BY <1>0, <2>2, AnswersTypes
    <3>2. req'[q].pc = "done" /\ req'[q].reply = "SERVER_ERROR" /\ req'[q].saw = req[q].saw
      BY <1>0, <3>1 DEF Request
    <3>3. ReqOK(q)'
      BY <1>0, <2>0, <3>2 DEF ReqOK
    <3> QED BY <3>1, <3>3, OtherReqs
  <2> QED BY <2>0, <2>1, <2>2
<1>6. ASSUME NEW q \in Requests, AddParticipant(q) PROVE \A p \in Requests : ReqOK(p)'
  <2>0. /\ DOMAIN calls' = DOMAIN calls /\ req[q].call \in DOMAIN calls
        /\ req[q].user \in calls'[req[q].call].parts
        /\ req[q].pc = "add" /\ Answers(q, "JOIN_ROOM")
    BY <1>6, AddEffect DEF AddParticipant
  <2>1. /\ \A p \in Requests \ {q} : req'[p] = req[p]
        /\ req'[q] = [req[q] EXCEPT !.pc = "done", !.reply = "JOIN_ROOM", !.doc = SomeDoc]
    BY <1>0, <2>0, AnswersTypes
  <2>2. /\ req'[q].pc = "done" /\ req'[q].reply = "JOIN_ROOM" /\ req'[q].saw = req[q].saw
        /\ req'[q].call = req[q].call /\ req'[q].user = req[q].user
    BY <1>0, <2>1 DEF Request
  <2>3. ReqOK(q)'
    BY <1>0, <2>0, <2>2 DEF ReqOK
  <2> QED BY <2>1, <2>3, OtherReqs
<1>7. ASSUME NEW q \in Requests, CreateCall(q) PROVE \A p \in Requests : ReqOK(p)'
  <2>1. /\ DOMAIN calls' = DOMAIN calls \union {q}
        /\ calls'[q] = [room |-> req[q].room, anonymous |-> Anonymous(req[q].room),
                        by |-> req[q].user, parts |-> {req[q].user}, open |-> TRUE, v |-> 0]
        /\ \A p \in Requests \ {q} : req'[p] = req[p]
        /\ req'[q] = [req[q] EXCEPT !.call = q, !.pc = "done", !.reply = "NEW_CALL"]
    BY <1>7, CreateEffect
  <2>2. /\ req'[q].pc = "done" /\ req'[q].saw = req[q].saw
        /\ req'[q].call = q /\ req'[q].user = req[q].user
    BY <1>0, <2>1 DEF Request
  <2>3. req[q].user \in calls'[q].parts
    BY <2>1
  <2>4. ReqOK(q)'
    BY <1>0, <2>1, <2>2, <2>3 DEF ReqOK
  <2> QED BY <2>1, <2>4, OtherReqs
<1>8. CASE Crash
  <2> SUFFICES ASSUME NEW q \in Requests PROVE ReqOK(q)'
    OBVIOUS
  <2>1. CASE req[q].pc \in {"idle", "done"}
    BY <1>0, <1>8, <2>1, SameReq DEF Crash
  <2>2. CASE req[q].pc \notin {"idle", "done"}
    <3>1. req'[q] = [req[q] EXCEPT !.pc = "done", !.reply = "none", !.doc = SomeDoc]
      BY <1>8, <2>2 DEF Crash
    <3>2. req'[q].pc = "done" /\ req'[q].reply = "none" /\ req'[q].saw = req[q].saw
      BY <1>0, <3>1 DEF Request
    <3>3. calls' = calls
      BY <1>8 DEF Crash
    <3> QED BY <1>0, <3>2, <3>3 DEF ReqOK
  <2> QED BY <2>1, <2>2
<1>9. ASSUME NEW m \in posting, CheckMessageRoom(m) \/ StoreMessage(m) PROVE UNCHANGED req
  BY <1>9 DEF CheckMessageRoom, StoreMessage
<1>10. ASSUME NEW u \in Guests, NEW c \in CallIds, GuestFindsCall(u, c) PROVE UNCHANGED req
  BY <1>10 DEF GuestFindsCall
<1>11. ASSUME NEW g \in guests, GuestEnters(g) PROVE UNCHANGED req
  BY <1>11 DEF GuestEnters
<1>12. ASSUME (\E c \in CallIds : IssueEndCall(c)) \/ \E n \in EndIds : EndStep(n) PROVE UNCHANGED req
  BY <1>12 DEF IssueEndCall, EndStep, EndReadsCall, EndDeletesRoom, EndDeletesMessages,
               EndSavesCall
<1>13. CASE UNCHANGED callsVars
  BY <1>1, <1>13 DEF callsVars
<1>14. CASE CallsNext
  BY <1>1, <1>2, <1>3, <1>4, <1>5, <1>6, <1>7, <1>8, <1>9, <1>10, <1>11, <1>12, <1>14
     DEF CallsNext, RequestStep
<1> QED BY <1>13, <1>14
-----------------------------------------------------------------------------
EndsOK ==
  /\ DOMAIN ends \subseteq EndIds /\ ends \in [DOMAIN ends -> Ending]
  /\ \A n \in DOMAIN ends : EndOK(n)

(* An ending that is left alone. *)
LEMMA SameEnd ==
  ASSUME NEW n \in DOMAIN ends, EndOK(n), Evolves, ends'[n] = ends[n] PROVE EndOK(n)'
  BY DEF EndOK, Evolves, Anonymous

(* One ending begins, goes on or is over. *)
LEMMA OneEnd ==
  ASSUME CallsInv, Evolves, NEW n \in EndIds, NEW new \in Ending,
         (ends' = [ends EXCEPT ![n] = new] /\ n \in DOMAIN ends) \/ ends' = With(ends, n, new),
         new.call \in DOMAIN calls',
         new.pc # "read" => new.doc.anonymous = calls'[new.call].anonymous,
         new.pc # "read" /\ new.doc.anonymous => Anonymous(new.doc.room),
         new.pc \in {"room", "messages"} => new.doc.anonymous
  PROVE  EndsOK'
<1>1. /\ DOMAIN ends' = DOMAIN ends \union {n} /\ ends' \in [DOMAIN ends' -> Ending]
      /\ ends'[n] = new /\ \A d \in DOMAIN ends \ {n} : ends'[d] = ends[d]
  BY DEF CallsInv, CallsTypeOK, With
<1>2. DOMAIN ends' \subseteq EndIds
  BY <1>1 DEF CallsInv, CallsTypeOK
<1>3. EndOK(n)'
  BY <1>1 DEF EndOK, Anonymous
<1>4. ASSUME NEW d \in DOMAIN ends \ {n} PROVE EndOK(d)'
  BY <1>1, SameEnd DEF CallsInv
<1> QED BY <1>1, <1>2, <1>3, <1>4 DEF EndsOK

LEMMA OverEnd ==
  ASSUME CallsInv, Evolves, NEW n \in EndIds, EndIsOver(n) PROVE EndsOK'
<1>1. /\ DOMAIN ends' = DOMAIN ends \ {n} /\ ends' \in [DOMAIN ends' -> Ending]
      /\ \A d \in DOMAIN ends \ {n} : ends'[d] = ends[d]
  BY DEF CallsInv, CallsTypeOK, EndIsOver, Without
<1>2. DOMAIN ends' \subseteq EndIds
  BY <1>1 DEF CallsInv, CallsTypeOK
<1>3. ASSUME NEW d \in DOMAIN ends \ {n} PROVE EndOK(d)'
  BY <1>1, SameEnd DEF CallsInv
<1> QED BY <1>1, <1>2, <1>3 DEF EndsOK

LEMMA GoesEnd ==
  ASSUME CallsInv, Evolves, NEW n \in DOMAIN ends, ends[n].pc # "read",
         NEW pc \in {"messages", "save"}, EndGoes(n, pc),
         ends[n].doc.anonymous
  PROVE  EndsOK'
<1>0. ends[n] \in Ending /\ EndOK(n) /\ n \in EndIds
  BY DEF CallsInv, CallsTypeOK
<1>1. PICK new : new = [ends[n] EXCEPT !.pc = pc]
  OBVIOUS
<1>2. new \in Ending /\ new.pc = pc /\ new.doc = ends[n].doc /\ new.call = ends[n].call
  BY <1>0, <1>1 DEF Ending
<1>3. ends' = [ends EXCEPT ![n] = new]
  BY <1>1 DEF EndGoes
<1>4. new.call \in DOMAIN calls' /\ calls'[new.call].anonymous = calls[new.call].anonymous
  BY <1>0, <1>2 DEF EndOK, Evolves
<1>5. new.doc.anonymous = calls'[new.call].anonymous /\ Anonymous(new.doc.room)
  BY <1>0, <1>2, <1>4 DEF EndOK
<1> QED BY <1>0, <1>2, <1>3, <1>4, <1>5, OneEnd

LEMMA EndStepEnds ==
  ASSUME CallsInv, Evolves, NEW n \in DOMAIN ends, EndStep(n) PROVE EndsOK'
<1>0. ends[n] \in Ending /\ EndOK(n) /\ n \in EndIds /\ ends[n].call \in DOMAIN calls
  BY DEF CallsInv, CallsTypeOK, EndOK
<1>1. CASE EndReadsCall(n)
  <2>1. PICK c \in DOMAIN calls : c = ends[n].call
    BY <1>0
  <2>2. calls' = calls /\ calls[c] \in Call /\ (calls[c].anonymous => Anonymous(calls[c].room))
    BY <1>1, CallTypes DEF EndReadsCall, CallsInv, Shaped
  <2>3. ASSUME NEW pc \in {"room", "save"}, pc = "room" => calls[c].anonymous, EndReads(n, pc)
        PROVE  EndsOK'
    <3>1. PICK new : new = [ends[n] EXCEPT !.pc = pc, !.doc = calls[c]]
      OBVIOUS
    <3>2. new \in Ending /\ new.pc = pc /\ new.doc = calls[c] /\ new.call = c
      BY <1>0, <2>1, <2>2, <3>1 DEF Ending
    <3>3. ends' = [ends EXCEPT ![n] = new]
      BY <1>0, <2>1, <2>3, <3>1 DEF EndReads, CallsInv, CallsTypeOK
    <3> QED BY <1>0, <2>2, <2>3, <3>2, <3>3, OneEnd
  <2> QED BY <1>0, <1>1, <2>1, <2>3, OverEnd DEF EndReadsCall
<1>2. CASE EndDeletesRoom(n)
  <2>1. ends[n].pc = "room" /\ ends[n].doc.anonymous
    BY <1>0, <1>2 DEF EndDeletesRoom, EndOK
  <2> QED BY <1>0, <1>2, <2>1, GoesEnd, OverEnd DEF EndDeletesRoom
<1>3. CASE EndDeletesMessages(n)
  <2>1. ends[n].pc = "messages" /\ ends[n].doc.anonymous
    BY <1>0, <1>3 DEF EndDeletesMessages, EndOK
  <2> QED BY <1>3, <2>1, GoesEnd DEF EndDeletesMessages
<1>4. CASE EndSavesCall(n)
  BY <1>0, <1>4, OverEnd DEF EndSavesCall
<1> QED BY <1>1, <1>2, <1>3, <1>4 DEF EndStep

LEMMA EndsNext ==
  ASSUME CallsInv, CallsStep, [CallsNext]_callsVars PROVE EndsOK'
<1>0. Evolves
  BY DEF CallsStep
<1>1. ASSUME UNCHANGED ends PROVE EndsOK'
  <2>1. \A n \in DOMAIN ends : EndOK(n)'
    BY <1>0, <1>1, SameEnd DEF CallsInv
  <2> QED BY <1>1, <2>1 DEF EndsOK, CallsInv, CallsTypeOK
<1>2. ASSUME NEW q \in Requests, RequestStep(q) PROVE UNCHANGED ends
  BY <1>2 DEF RequestStep, ReadRoom, FindOpenCall, FindOwnCall, SaveOwnCall,
              AddParticipant, CreateCall
<1>3. ASSUME NEW q \in Requests, NEW u \in Callers, NEW r \in Rooms,
             Ask(q, u, r) \/ AskAnonymous(q, u, r)
      PROVE  UNCHANGED ends
  BY <1>3 DEF Ask, AskAnonymous
<1>4. ASSUME NEW m \in posting, CheckMessageRoom(m) \/ StoreMessage(m) PROVE UNCHANGED ends
  BY <1>4 DEF CheckMessageRoom, StoreMessage
<1>5. ASSUME NEW u \in Guests, NEW c \in CallIds, GuestFindsCall(u, c) PROVE UNCHANGED ends
  BY <1>5 DEF GuestFindsCall
<1>6. ASSUME NEW g \in guests, GuestEnters(g) PROVE UNCHANGED ends
  BY <1>6 DEF GuestEnters
<1>7. ASSUME NEW c \in CallIds, IssueEndCall(c) PROVE EndsOK'
  <2>1. PICK new : new = [call |-> c, pc |-> "read", doc |-> SomeDoc]
    OBVIOUS
  <2>2. new \in Ending /\ new.pc = "read" /\ new.call = c
    BY <2>1, SomeDocTypes DEF Ending
  <2>3. ends' = With(ends, issued + 1, new) /\ c \in DOMAIN calls'
    BY <1>7, <2>1 DEF IssueEndCall
  <2>4. issued + 1 \in EndIds
    BY <1>7, CallsAssumption DEF IssueEndCall, EndIds, CallsInv, CallsTypeOK
  <2> QED BY <1>0, <2>2, <2>3, <2>4, OneEnd
<1>8. ASSUME NEW n \in EndIds, EndStep(n) PROVE EndsOK'
  <2>1. n \in DOMAIN ends
    BY <1>8 DEF EndStep
  <2> QED BY <1>0, <1>8, <2>1, EndStepEnds
<1>9. CASE Crash
  <2>1. DOMAIN ends' = {} /\ ends' \in [DOMAIN ends' -> Ending]
    BY <1>9 DEF Crash
  <2> QED BY <2>1 DEF EndsOK
<1>10. CASE UNCHANGED callsVars
  BY <1>1, <1>10 DEF callsVars
<1>11. CASE CallsNext
  BY <1>1, <1>2, <1>3, <1>4, <1>5, <1>6, <1>7, <1>8, <1>9, <1>11 DEF CallsNext
<1> QED BY <1>10, <1>11
-----------------------------------------------------------------------------
RoomsTyped == DOMAIN rooms \subseteq Rooms /\ rooms \in [DOMAIN rooms -> SUBSET Users]

LEMMA EnterEffect ==
  ASSUME RoomsTyped, NEW r \in Rooms, NEW u \in Users,
         rooms' = IF Exists(r) /\ Anonymous(r) THEN [rooms EXCEPT ![r] = @ \union {u}] ELSE rooms
  PROVE  /\ RoomsTyped'
         /\ \A x \in DOMAIN rooms : ~Anonymous(x) => x \in DOMAIN rooms' /\ rooms'[x] = rooms[x]
<1>1. CASE Exists(r) /\ Anonymous(r)
  <2>1. rooms[r] \union {u} \in SUBSET Users /\ r \in DOMAIN rooms
    BY <1>1 DEF RoomsTyped, Exists
  <2>2. rooms' = [rooms EXCEPT ![r] = rooms[r] \union {u}]
    BY <1>1
  <2>3. /\ DOMAIN rooms' = DOMAIN rooms /\ rooms' \in [DOMAIN rooms -> SUBSET Users]
        /\ \A x \in DOMAIN rooms : x # r => rooms'[x] = rooms[x]
    BY <2>1, <2>2 DEF RoomsTyped
  <2> QED BY <1>1, <2>3 DEF RoomsTyped
<1>2. CASE ~(Exists(r) /\ Anonymous(r))
  BY <1>2 DEF RoomsTyped
<1> QED BY <1>1, <1>2

(* The rooms stay typed, and no step takes an ordinary one away or changes  *)
(* who is in it.                                                            *)
RoomsStep ==
  /\ RoomsTyped'
  /\ \A r \in DOMAIN rooms : ~Anonymous(r) => r \in DOMAIN rooms' /\ rooms'[r] = rooms[r]

LEMMA RoomsNext ==
  ASSUME CallsInv, [CallsNext]_callsVars PROVE RoomsStep
<1>0. CallsTypeOK /\ RoomsTyped
  BY DEF CallsInv, CallsTypeOK, RoomsTyped
<1>1. ASSUME UNCHANGED rooms PROVE RoomsStep
  BY <1>0, <1>1 DEF RoomsTyped, RoomsStep
<1>2. ASSUME NEW q \in Requests, RequestStep(q) PROVE UNCHANGED rooms
  BY <1>2 DEF RequestStep, ReadRoom, FindOpenCall, FindOwnCall, SaveOwnCall,
              AddParticipant, CreateCall
<1>3. ASSUME NEW q \in Requests, NEW u \in Callers, NEW r \in Rooms,
             Ask(q, u, r) \/ AskAnonymous(q, u, r)
      PROVE  RoomsStep
  <2>1. CASE AskAnonymous(q, u, r)
    <3>1. rooms' = With(rooms, r, {u}) /\ {u} \in SUBSET Users /\ r \notin DOMAIN rooms
      BY <2>1 DEF AskAnonymous, Users, Exists
    <3>2. /\ DOMAIN rooms' = DOMAIN rooms \union {r} /\ rooms' \in [DOMAIN rooms' -> SUBSET Users]
          /\ \A x \in DOMAIN rooms : rooms'[x] = rooms[x]
      BY <1>0, <3>1 DEF With, RoomsTyped
    <3> QED BY <1>0, <3>2 DEF RoomsTyped, RoomsStep
  <2> QED BY <1>1, <1>3, <2>1 DEF Ask
<1>4. ASSUME NEW m \in posting, CheckMessageRoom(m) \/ StoreMessage(m) PROVE UNCHANGED rooms
  BY <1>4 DEF CheckMessageRoom, StoreMessage
<1>5. ASSUME NEW u \in Guests, NEW c \in CallIds, GuestFindsCall(u, c) PROVE UNCHANGED rooms
  BY <1>5 DEF GuestFindsCall
<1>6. ASSUME NEW g \in guests, GuestEnters(g) PROVE RoomsStep
  <2>1. g[1] \in Users /\ g[2] \in Rooms
    BY <1>0 DEF CallsTypeOK
  <2>2. rooms' = IF Exists(g[2]) /\ Anonymous(g[2])
                 THEN [rooms EXCEPT ![g[2]] = @ \union {g[1]}] ELSE rooms
    BY <1>6 DEF GuestEnters
  <2> QED BY <1>0, <2>1, <2>2, EnterEffect DEF RoomsStep
<1>7. ASSUME NEW c \in CallIds, IssueEndCall(c) PROVE UNCHANGED rooms
  BY <1>7 DEF IssueEndCall
<1>8. ASSUME NEW n \in EndIds, EndStep(n) PROVE RoomsStep
  <2>1. CASE EndDeletesRoom(n) /\ Exists(ends[n].doc.room)
    <3> DEFINE r == ends[n].doc.room
    <3>1. n \in DOMAIN ends /\ ends[n].pc = "room" /\ rooms' = Without(rooms, r)
      BY <1>8, <2>1 DEF EndStep, EndDeletesRoom
    <3>2. Anonymous(r)
      BY <3>1 DEF CallsInv, EndOK
    <3> HIDE DEF r
    <3>3. /\ DOMAIN rooms' = DOMAIN rooms \ {r} /\ rooms' \in [DOMAIN rooms' -> SUBSET Users]
          /\ \A x \in DOMAIN rooms : x # r => x \in DOMAIN rooms' /\ rooms'[x] = rooms[x]
      BY <1>0, <3>1 DEF Without, RoomsTyped
    <3> QED BY <1>0, <3>2, <3>3 DEF RoomsTyped, RoomsStep
  <2>2. CASE EndDeletesRoom(n) /\ ~Exists(ends[n].doc.room)
    BY <1>1, <2>2 DEF EndDeletesRoom
  <2>3. EndReadsCall(n) \/ EndDeletesMessages(n) \/ EndSavesCall(n) => UNCHANGED rooms
    BY DEF EndReadsCall, EndDeletesMessages, EndSavesCall
  <2> QED BY <1>1, <1>8, <2>1, <2>2, <2>3 DEF EndStep
<1>9. CASE Crash
  BY <1>1, <1>9 DEF Crash
<1>10. CASE UNCHANGED callsVars
  BY <1>1, <1>10 DEF callsVars
<1>11. CASE CallsNext
  BY <1>1, <1>2, <1>3, <1>4, <1>5, <1>6, <1>7, <1>8, <1>9, <1>11 DEF CallsNext
<1> QED BY <1>10, <1>11

-----------------------------------------------------------------------------
ReqTyped == req \in [Requests -> Request]
PostingTyped == posting \subseteq [call : CallIds, room : Rooms, checked : BOOLEAN]

LEMMA RequestStepTypes ==
  ASSUME CallsInv, NEW q \in Requests, RequestStep(q) PROVE ReqTyped' /\ PostingTyped'
<1>0. CallsTypeOK /\ PostingTyped
  BY DEF CallsInv, CallsTypeOK, PostingTyped
<1>1. CASE ReadRoom(q)
  BY <1>0, <1>1, GoesTypes, AnswersTypes DEF ReadRoom, ReqTyped, PostingTyped
<1>2. CASE FindOpenCall(q) \/ FindOwnCall(q)
  <2>1. ReqTyped'
    BY <1>0, <1>2, FindTypes DEF ReqTyped
  <2> QED BY <1>0, <1>2, <2>1 DEF FindOpenCall, FindOwnCall, PostingTyped
<1>3. CASE SaveOwnCall(q)
  <2>1. PostingTyped' /\ (Goes(q, "add") \/ Answers(q, "SERVER_ERROR"))
    BY <1>3, SaveOwnEffect DEF PostingTyped
  <2> QED BY <1>0, <2>1, GoesTypes, AnswersTypes DEF ReqTyped
<1>4. CASE AddParticipant(q)
  BY <1>0, <1>4, AnswersTypes DEF AddParticipant, ReqTyped, PostingTyped
<1>5. CASE CreateCall(q)
  BY <1>5, CreateEffect DEF ReqTyped, PostingTyped
<1> QED BY <1>1, <1>2, <1>3, <1>4, <1>5 DEF RequestStep

RestTyped ==
  /\ messages \subseteq CallIds \X Rooms /\ guests \subseteq Users \X Rooms
  /\ issued \in 0..MaxEnds /\ lost \subseteq CallIds

LEMMA RestNext ==
  ASSUME CallsInv, [CallsNext]_callsVars PROVE ReqTyped' /\ PostingTyped' /\ RestTyped'
<1>0. CallsTypeOK /\ ReqTyped /\ PostingTyped /\ RestTyped
  BY DEF CallsInv, CallsTypeOK, ReqTyped, PostingTyped, RestTyped
<1> DEFINE Goal == ReqTyped' /\ PostingTyped' /\ RestTyped'
<1>1. ASSUME NEW q \in Requests, RequestStep(q) PROVE Goal
  <2>1. UNCHANGED <<messages, guests, issued, lost>>
    BY <1>1 DEF RequestStep, ReadRoom, FindOpenCall, FindOwnCall, SaveOwnCall,
                AddParticipant, CreateCall
  <2> QED BY <1>0, <1>1, <2>1, RequestStepTypes DEF RestTyped
<1>2. ASSUME NEW q \in Requests, NEW u \in Callers, NEW r \in Rooms,
             Ask(q, u, r) \/ AskAnonymous(q, u, r)
      PROVE  Goal
  <2>1. UNCHANGED <<posting, messages, guests, issued, lost>>
    BY <1>2 DEF Ask, AskAnonymous
  <2>2. ReqTyped'
    BY <1>0, <1>2, AskTypes DEF ReqTyped
  <2> QED BY <1>0, <2>1, <2>2 DEF RestTyped, PostingTyped
<1>3. ASSUME NEW m \in posting, CheckMessageRoom(m) \/ StoreMessage(m) PROVE Goal
  <2>0. m \in [call : CallIds, room : Rooms, checked : BOOLEAN]
    BY <1>0 DEF PostingTyped
  <2>1. UNCHANGED <<req, guests, issued, lost>>
    BY <1>3 DEF CheckMessageRoom, StoreMessage
  <2>2. [m EXCEPT !.checked = TRUE] \in [call : CallIds, room : Rooms, checked : BOOLEAN]
    BY <2>0
  <2>3. PostingTyped'
    BY <1>0, <1>3, <2>2 DEF CheckMessageRoom, StoreMessage, PostingTyped
  <2>4. <<m.call, m.room>> \in CallIds \X Rooms
    BY <2>0
  <2>5. messages' \subseteq CallIds \X Rooms
    BY <1>0, <1>3, <2>4 DEF CheckMessageRoom, StoreMessage, RestTyped
  <2> QED BY <1>0, <2>1, <2>3, <2>5 DEF RestTyped, ReqTyped
<1>4. ASSUME NEW u \in Guests, NEW c \in CallIds, GuestFindsCall(u, c) PROVE Goal
  <2>1. c \in DOMAIN calls /\ guests' = guests \union {<<u, calls[c].room>>}
        /\ UNCHANGED <<req, posting, messages, issued, lost>>
    BY <1>4 DEF GuestFindsCall
  <2>2. <<u, calls[c].room>> \in Users \X Rooms
    BY <1>0, <2>1, CallTypes DEF Users, Call
  <2> QED BY <1>0, <2>1, <2>2 DEF RestTyped, ReqTyped, PostingTyped
<1>5. ASSUME NEW g \in guests, GuestEnters(g) PROVE Goal
  BY <1>0, <1>5 DEF GuestEnters, RestTyped, ReqTyped, PostingTyped
<1>6. ASSUME NEW c \in CallIds, IssueEndCall(c) PROVE Goal
  BY <1>0, <1>6, CallsAssumption DEF IssueEndCall, RestTyped, ReqTyped, PostingTyped
<1>7. ASSUME NEW n \in EndIds, EndStep(n) PROVE Goal
  <2>1. UNCHANGED <<req, posting, guests, issued, lost>>
    BY <1>7 DEF EndStep, EndReadsCall, EndDeletesRoom, EndDeletesMessages, EndSavesCall
  <2>2. messages' \subseteq messages
    BY <1>7 DEF EndStep, EndReadsCall, EndDeletesRoom, EndDeletesMessages, EndSavesCall
  <2> QED BY <1>0, <2>1, <2>2 DEF RestTyped, ReqTyped, PostingTyped
<1>8. CASE Crash
  <2>1. ReqTyped'
    <3>1. \A q \in Requests :
            [req[q] EXCEPT !.pc = "done", !.reply = "none", !.doc = SomeDoc] \in Request
      <4> SUFFICES ASSUME NEW q \in Requests
                   PROVE [req[q] EXCEPT !.pc = "done", !.reply = "none", !.doc = SomeDoc] \in Request
        OBVIOUS
      <4>1. req[q] \in Request
        BY <1>0 DEF ReqTyped
      <4> QED BY <4>1, SomeDocTypes DEF Request
    <3> QED BY <1>0, <1>8, <3>1 DEF Crash, ReqTyped
  <2>2. posting' = {} /\ guests' = {} /\ lost' = lost \union {ends[n].call : n \in DOMAIN ends}
        /\ UNCHANGED <<messages, issued>>
    BY <1>8 DEF Crash
  <2>3. \A n \in DOMAIN ends : ends[n].call \in CallIds
    BY <1>0 DEF CallsTypeOK, Ending
  <2> QED BY <1>0, <2>1, <2>2, <2>3 DEF PostingTyped, RestTyped
<1>9. CASE UNCHANGED callsVars
  BY <1>0, <1>9 DEF callsVars, RestTyped, ReqTyped, PostingTyped
<1>10. CASE CallsNext
  BY <1>1, <1>2, <1>3, <1>4, <1>5, <1>6, <1>7, <1>8, <1>10 DEF CallsNext
<1> QED BY <1>9, <1>10

-----------------------------------------------------------------------------
LEMMA CallsInvInit == CallsInit => CallsInv
<1> SUFFICES ASSUME CallsInit PROVE CallsInv
  OBVIOUS
<1>1. DOMAIN calls = {} /\ DOMAIN ends = {}
  BY DEF CallsInit
<1>2. CallsTypeOK
  <2>1. DOMAIN rooms \subseteq Rooms /\ rooms \in [DOMAIN rooms -> SUBSET Users]
    BY CallsAssumption DEF CallsInit, Users
  <2>2. calls \in [DOMAIN calls -> Call] /\ ends \in [DOMAIN ends -> Ending]
    BY DEF CallsInit
  <2>3. req \in [Requests -> Request]
    <3>1. [pc |-> "idle", user |-> SomeDoc.by, room |-> SomeDoc.room, call |-> NoCall,
           saw |-> {}, doc |-> SomeDoc, reply |-> "none"] \in Request
      BY SomeDocTypes DEF Request, Call
    <3> QED BY <3>1 DEF CallsInit
  <2>4. messages = {} /\ posting = {} /\ guests = {} /\ lost = {} /\ issued \in 0..MaxEnds
    BY CallsAssumption DEF CallsInit
  <2> QED BY <1>1, <2>1, <2>2, <2>3, <2>4 DEF CallsTypeOK
<1>3. \A q \in Requests : ReqOK(q)
  BY <1>1 DEF ReqOK, CallsInit
<1> QED BY <1>1, <1>2, <1>3 DEF CallsInv, Shaped

LEMMA CallsInvNext == CallsInv /\ [CallsNext]_callsVars => CallsInv'
<1> SUFFICES ASSUME CallsInv, [CallsNext]_callsVars PROVE CallsInv'
  OBVIOUS
<1>1. CallsStep
  BY CallsNextStep
<1>2. EndsOK' /\ RoomsTyped' /\ ReqTyped' /\ PostingTyped' /\ RestTyped' /\ CallsTyped'
  BY <1>1, EndsNext, RoomsNext, RestNext DEF RoomsStep, CallsStep
<1>3. CallsTypeOK'
  BY <1>2 DEF CallsTypeOK, EndsOK, RoomsTyped, ReqTyped, PostingTyped, RestTyped, CallsTyped
<1>4. \A q \in Requests : ReqOK(q)'
  BY <1>1, ReqNext
<1>5. Shaped' /\ \A n \in DOMAIN ends' : EndOK(n)'
  BY <1>1, <1>2 DEF CallsStep, EndsOK
<1> QED BY <1>3, <1>4, <1>5 DEF CallsInv

THEOREM CallsHold == CallsSpec => []CallsInv
<1>1. CallsInit => CallsInv
  BY CallsInvInit
<1>2. CallsInv /\ [CallsNext]_callsVars => CallsInv'
  BY CallsInvNext
<1> QED BY <1>1, <1>2, PTL DEF CallsSpec

(* The documents and the service calls under way are of their types.         *)
THEOREM CallsTypes == CallsSpec => []CallsTypeOK
<1>1. CallsInv => CallsTypeOK
  BY DEF CallsInv
<1> QED BY <1>1, CallsHold, PTL

(* Whoever was answered JOIN_ROOM or NEW_CALL is a participant of that call, *)
(* however joins and the save of an endCall interleave.                      *)
THEOREM AnsweredAre == CallsSpec => []AnsweredIsParticipant
<1>1. CallsInv => AnsweredIsParticipant
  BY DEF CallsInv, ReqOK, AnsweredIsParticipant
<1> QED BY <1>1, CallsHold, PTL

(* An ended call of an ordinary room never opens again.                      *)
THEOREM EndedStay == CallsSpec => EndedStaysEnded
<1>1. CallsInv /\ [CallsNext]_callsVars =>
        [\A c \in DOMAIN calls : ~calls[c].anonymous /\ ~calls[c].open
            => ~calls'[c].open]_callsVars
  <2> SUFFICES ASSUME CallsInv, [CallsNext]_callsVars, NEW c \in DOMAIN calls,
                      ~calls[c].anonymous, ~calls[c].open
               PROVE  ~calls'[c].open
    OBVIOUS
  <2>1. CallsStep
    BY CallsNextStep
  <2> QED BY <2>1 DEF CallsStep, Evolves
<1> QED BY <1>1, CallsHold, PTL DEF CallsSpec, EndedStaysEnded

(* No step of a call link or of an ending touches an ordinary room.          *)
THEOREM OrdinaryKeep == CallsSpec => OrdinaryRoomsKeepMembers
<1>1. CallsInv /\ [CallsNext]_callsVars =>
        [\A r \in DOMAIN rooms : ~Anonymous(r) =>
            r \in DOMAIN rooms' /\ rooms'[r] = rooms[r]]_callsVars
  BY RoomsNext DEF RoomsStep
<1> QED BY <1>1, CallsHold, PTL DEF CallsSpec, OrdinaryRoomsKeepMembers
-----------------------------------------------------------------------------
(* A request that is done is left as it is. *)
LEMMA DoneStays ==
  ASSUME CallsInv, [CallsNext]_callsVars, NEW p \in Requests, req[p].pc = "done"
  PROVE  req'[p] = req[p]
<1>0. CallsTypeOK /\ req[p] \in Request
  BY DEF CallsInv, CallsTypeOK
<1>1. ASSUME NEW q \in Requests, RequestStep(q) PROVE req'[p] = req[p]
  <2>1. q # p
    BY <1>1 DEF RequestStep, ReadRoom, FindOpenCall, FindOwnCall, SaveOwnCall,
                AddParticipant, CreateCall
  <2>2. CASE ReadRoom(q)
    BY <1>0, <2>1, <2>2, GoesTypes, AnswersTypes DEF ReadRoom
  <2>3. CASE FindOpenCall(q) \/ FindOwnCall(q)
    BY <1>0, <2>1, <2>3, FindTypes
  <2>4. CASE SaveOwnCall(q)
    <3>1. Goes(q, "add") \/ Answers(q, "SERVER_ERROR")
      BY <2>4, SaveOwnEffect
    <3> QED BY <1>0, <2>1, <3>1, GoesTypes, AnswersTypes
  <2>5. CASE AddParticipant(q)
    BY <1>0, <2>1, <2>5, AnswersTypes DEF AddParticipant
  <2>6. CASE CreateCall(q)
    BY <2>1, <2>6, CreateEffect
  <2> QED BY <1>1, <2>2, <2>3, <2>4, <2>5, <2>6 DEF RequestStep
<1>2. ASSUME NEW q \in Requests, NEW u \in Callers, NEW r \in Rooms,
             Ask(q, u, r) \/ AskAnonymous(q, u, r)
      PROVE  req'[p] = req[p]
  <2>1. q # p
    BY <1>2 DEF Ask, AskAnonymous
  <2> QED BY <1>0, <1>2, <2>1, AskTypes
<1>3. ASSUME NEW m \in posting, CheckMessageRoom(m) \/ StoreMessage(m) PROVE UNCHANGED req
  BY <1>3 DEF CheckMessageRoom, StoreMessage
<1>4. ASSUME NEW u \in Guests, NEW c \in CallIds, GuestFindsCall(u, c) PROVE UNCHANGED req
  BY <1>4 DEF GuestFindsCall
<1>5. ASSUME NEW g \in guests, GuestEnters(g) PROVE UNCHANGED req
  BY <1>5 DEF GuestEnters
<1>6. ASSUME (\E c \in CallIds : IssueEndCall(c)) \/ \E n \in EndIds : EndStep(n) PROVE UNCHANGED req
  BY <1>6 DEF IssueEndCall, EndStep, EndReadsCall, EndDeletesRoom, EndDeletesMessages,
              EndSavesCall
<1>7. CASE Crash
  BY <1>7 DEF Crash
<1>8. CASE UNCHANGED callsVars
  BY <1>8 DEF callsVars
<1>9. CASE CallsNext
  BY <1>1, <1>2, <1>3, <1>4, <1>5, <1>6, <1>7, <1>9 DEF CallsNext
<1> QED BY <1>8, <1>9

(* Calls that become twins of each other were so, or one of them is new. *)
LEMMA TwinsEvolve ==
  ASSUME CallsInv, Evolves, NEW c \in DOMAIN calls, NEW d \in DOMAIN calls, TwinCalls(c, d)'
  PROVE  TwinCalls(c, d)
<1>1. /\ calls'[c].anonymous = calls[c].anonymous /\ calls'[d].anonymous = calls[d].anonymous
      /\ calls'[c].by = calls[c].by /\ calls'[d].by = calls[d].by
      /\ calls'[c].anonymous = calls'[d].anonymous
  BY DEF Evolves, TwinCalls
<1>2. CASE calls[c].anonymous
  BY <1>1, <1>2 DEF TwinCalls
<1>3. CASE ~calls[c].anonymous
  <2>1. /\ calls'[c].room = calls[c].room /\ calls'[d].room = calls[d].room
        /\ calls'[c].open => calls[c].open
        /\ calls'[d].open => calls[d].open
    BY <1>1, <1>3 DEF Evolves
  <2> QED BY <1>1, <1>3, <2>1 DEF TwinCalls
<1> QED BY <1>2, <1>3

LEMMA TwinsNext ==
  ASSUME CallsInv, TwinsOverlapped, [CallsNext]_callsVars PROVE TwinsOverlapped'
<1>0. CallsStep /\ Evolves
  BY CallsNextStep DEF CallsStep
<1>1. \A c \in DOMAIN calls : c \in Requests /\ req[c].pc = "done" /\ req'[c] = req[c]
                              /\ req[c].saw \subseteq DOMAIN calls
  <2> SUFFICES ASSUME NEW c \in DOMAIN calls
               PROVE  c \in Requests /\ req[c].pc = "done" /\ req'[c] = req[c]
                      /\ req[c].saw \subseteq DOMAIN calls
    OBVIOUS
  <2>1. c \in Requests
    BY DEF CallsInv, CallsTypeOK, CallIds
  <2>2. req[c].pc = "done" /\ req[c].saw \subseteq DOMAIN calls
    BY <2>1 DEF CallsInv, ReqOK
  <2> QED BY <2>1, <2>2, DoneStays
<1>2. SUFFICES ASSUME NEW c \in DOMAIN calls', NEW d \in DOMAIN calls', c # d,
                      TwinCalls(c, d)'
               PROVE  d \notin req'[c].saw
  <2>1. \A c, d : TwinCalls(c, d)' => TwinCalls(d, c)'
    BY DEF TwinCalls
  <2> QED BY <1>2, <2>1 DEF TwinsOverlapped
<1>3. CASE c \in DOMAIN calls /\ d \in DOMAIN calls
  BY <1>0, <1>1, <1>2, <1>3, TwinsEvolve DEF TwinsOverlapped
<1>4. CASE ~(c \in DOMAIN calls /\ d \in DOMAIN calls)
  <2>1. PICK q \in Requests : CreateCall(q)
    <3>1. ASSUME calls' = calls PROVE FALSE
      BY <1>4, <3>1
    <3>2. ASSUME DOMAIN calls' = DOMAIN calls PROVE FALSE
      BY <1>4, <3>2
    <3>3. ASSUME NEW q \in Requests, RequestStep(q) PROVE CreateCall(q)
      <4>1. ReadRoom(q) \/ FindOpenCall(q) \/ FindOwnCall(q) => calls' = calls
        BY DEF ReadRoom, FindOpenCall, FindOwnCall
      <4> QED BY <3>1, <3>2, <3>3, <4>1, SaveOwnEffect, AddEffect DEF RequestStep
    <3>4. ASSUME NEW n \in EndIds, EndStep(n) PROVE FALSE
      <4>1. EndReadsCall(n) \/ EndDeletesRoom(n) \/ EndDeletesMessages(n) => calls' = calls
        BY DEF EndReadsCall, EndDeletesRoom, EndDeletesMessages
      <4> QED BY <3>1, <3>2, <3>4, <4>1, EndSaveEffect DEF EndStep
    <3>5. ASSUME NEW q \in Requests, NEW u \in Callers, NEW r \in Rooms,
                 Ask(q, u, r) \/ AskAnonymous(q, u, r)
          PROVE  FALSE
      BY <3>1, <3>5 DEF Ask, AskAnonymous
    <3>6. ASSUME NEW m \in posting, CheckMessageRoom(m) \/ StoreMessage(m) PROVE FALSE
      BY <3>1, <3>6 DEF CheckMessageRoom, StoreMessage
    <3>7. ASSUME NEW u \in Guests, NEW e \in CallIds, GuestFindsCall(u, e) PROVE FALSE
      BY <3>1, <3>7 DEF GuestFindsCall
    <3>8. ASSUME NEW g \in guests, GuestEnters(g) PROVE FALSE
      BY <3>1, <3>8 DEF GuestEnters
    <3>9. ASSUME NEW e \in CallIds, IssueEndCall(e) PROVE FALSE
      BY <3>1, <3>9 DEF IssueEndCall
    <3>10. Crash \/ UNCHANGED callsVars => FALSE
      BY <3>1 DEF Crash, callsVars
    <3>11. CallsNext
      BY <3>10
    <3> QED BY <3>3, <3>4, <3>5, <3>6, <3>7, <3>8, <3>9, <3>10, <3>11 DEF CallsNext
  <2>2. /\ q \notin DOMAIN calls /\ DOMAIN calls' = DOMAIN calls \union {q}
        /\ \A x \in DOMAIN calls : calls'[x] = calls[x]
        /\ calls'[q] = [room |-> req[q].room, anonymous |-> Anonymous(req[q].room),
                        by |-> req[q].user, parts |-> {req[q].user}, open |-> TRUE, v |-> 0]
        /\ req'[q] = [req[q] EXCEPT !.call = q, !.pc = "done", !.reply = "NEW_CALL"]
    BY <2>1, CreateEffect
  <2>3. req'[q].saw = req[q].saw
    BY <2>2 DEF CallsInv, CallsTypeOK, Request
  <2>4. req[q].pc = "create" /\ ReqOK(q) /\ req[q].saw \subseteq DOMAIN calls
    BY <2>1 DEF CreateCall, CallsInv, ReqOK
  <2>5. CASE c = q
    <3>1. d \in DOMAIN calls
      BY <1>2, <2>2, <2>5
    <3>2. /\ calls[d].anonymous = Anonymous(req[q].room)
          /\ IF Anonymous(req[q].room) THEN calls[d].by = req[q].user
             ELSE calls[d].room = req[q].room /\ calls[d].open
      BY <1>2, <2>2, <2>5, <3>1 DEF TwinCalls
    <3> QED BY <2>3, <2>4, <2>5, <3>1, <3>2 DEF ReqOK
  <2>6. CASE d = q /\ c \in DOMAIN calls
    BY <1>1, <2>2, <2>6
  <2> QED BY <1>2, <1>4, <2>2, <2>5, <2>6
<1> QED BY <1>3, <1>4

(* Two open calls of an ordinary room, or two anonymous calls of a creator,  *)
(* come from overlapping requests: neither creation saw the other's call.    *)
THEOREM CallTwins == CallsSpec => []TwinsOverlapped
<1>1. CallsInit => TwinsOverlapped
  BY DEF CallsInit, TwinsOverlapped
<1>2. CallsInv /\ TwinsOverlapped /\ [CallsNext]_callsVars => TwinsOverlapped'
  BY TwinsNext
<1> QED BY <1>1, <1>2, CallsHold, PTL DEF CallsSpec
=============================================================================
