-------------------------------- MODULE Desk --------------------------------
(***************************************************************************)
(* What the members of a help desk space keep besides one another: its     *)
(* scripts and the one its extension runs, the tags of its conversations   *)
(* and the ratings of its clients (HelpDeskService, RoomsService).         *)
(*                                                                         *)
(* Tags are never taken out of the space, so a tag is known by its place.  *)
(* A save that pushes moves the version of the document and asks nothing;  *)
(* one of the fields at a place asks for the version that was read.        *)
(***************************************************************************)
EXTENDS Naturals, Sequences, SequencesExt

CONSTANTS
  Scripts,
  NoScript,     \* an extension without a script
  TagNames,
  Chats,        \* the help desk rooms of the space
  Raters,       \* the clients who rate
  Agents,       \* the requests that may be under way at a time
  MaxTasks      \* bound on the requests begun

ASSUME DeskAssumption ==
  NoScript \notin Scripts /\ MaxTasks \in Nat /\ Chats # {} /\ Raters # {}

VARIABLES
  script,       \* [Scripts -> its state]
  currentScript,
  board,        \* the tags of the space, with its version
  tagOf,        \* [Chats -> the place of its tag, or 0]
  ratings,      \* the ratings of the extension, with its version
  task,         \* [Agents -> the request it runs]
  tasks,        \* the number of requests so far
  stray         \* history: the subjects that requests about them overlapped

deskVars == <<script, currentScript, board, tagOf, ratings, task, tasks, stray>>

Tag == [name : TagNames \union {"pending", "completed"}, isDeleted : BOOLEAN,
        isReadonly : BOOLEAN]

(* about: its subjects; more: the scripts, or the place of a tag or rating;  *)
(* of: the script, chat, tag or client.                                      *)
Task == [at : {"idle", "makeScript", "choose", "dropScripts", "pushTag", "editTag", "dropTag",
               "clearTag", "giveTag", "pushRating", "editRating"},
         scripts : SUBSET Scripts, chat : Chats, tag : Tag, i : Nat, rater : Raters, v : Nat]

ReadonlyTag(name) == [name |-> name, isDeleted |-> FALSE, isReadonly |-> TRUE]

NoTask == [at |-> "idle", scripts |-> {}, chat |-> CHOOSE c \in Chats : TRUE,
           tag |-> ReadonlyTag("pending"), i |-> 0, rater |-> CHOOSE r \in Raters : TRUE, v |-> 0]

DeskInit ==
  /\ script = [s \in Scripts |-> "none"] /\ currentScript = NoScript
  /\ board = [tags |-> <<ReadonlyTag("pending"), ReadonlyTag("completed")>>, v |-> 0]
  /\ tagOf = [c \in Chats |-> 0]
  /\ ratings = [by |-> <<>>, v |-> 0]
  /\ task = [d \in Agents |-> NoTask] /\ tasks = 0 /\ stray = {}

-----------------------------------------------------------------------------
(* The scripts, tags, names of tags and clients a request is about. *)
AboutOf(t) ==
  CASE t.at \in {"choose", "dropScripts"} -> {<<"script", s>> : s \in t.scripts}
    [] t.at = "pushTag" -> {<<"name", t.tag.name>>}
    [] t.at = "editTag" -> {<<"name", t.tag.name>>, <<"tag", t.i>>}
    [] t.at \in {"dropTag", "clearTag", "giveTag"} -> {<<"tag", t.i>>}
    [] t.at \in {"pushRating", "editRating"} -> {<<"rating", t.rater>>}
    [] OTHER -> {}

Busy == UNION {AboutOf(task[d]) : d \in Agents}

(* A request begins; odd: the subjects it regards though it should not.      *)
Takes(d, t, odd) ==
  /\ task[d] = NoTask /\ tasks < MaxTasks
  /\ task' = [task EXCEPT ![d] = t]
  /\ tasks' = tasks + 1
  /\ stray' = stray \union odd \union (AboutOf(t) \intersect Busy)
  /\ UNCHANGED <<script, currentScript, board, tagOf, ratings>>

(* createOrEditScript without a script; an edit changes no state kept here.  *)
CreateScript(d, s) ==
  /\ script[s] = "none"
  /\ \A e \in Agents : task[e].at = "makeScript" => s \notin task[e].scripts
  /\ Takes(d, [NoTask EXCEPT !.at = "makeScript", !.scripts = {s}], {})

(* createOrEditExtension: what find gives is an array, empty for a script    *)
(* that was deleted, and never refused.                                      *)
ChooseScript(d, ss) ==
  /\ \A s \in ss : script[s] # "none"
  /\ Takes(d, [NoTask EXCEPT !.at = "choose", !.scripts = ss],
           {<<"script", s>> : s \in {t \in ss : script[t] # "live"}})

(* Forms with a mistake, which no step takes: RemovesScriptsInUse,           *)
(* RatesAgain.                                                               *)
RemovesScriptsInUse(d, ss) ==
  /\ \A s \in ss : script[s] # "none"
  /\ Takes(d, [NoTask EXCEPT !.at = "dropScripts", !.scripts = ss], {})

(* removeScript and removeScripts: none may be in use. *)
RemoveScripts(d, ss) ==
  /\ \A s \in ss : script[s] # "none"
  /\ currentScript \notin ss
  /\ Takes(d, [NoTask EXCEPT !.at = "dropScripts", !.scripts = ss], {})

NamedLive(name) ==
  {i \in DOMAIN board.tags : board.tags[i].name = name /\ ~board.tags[i].isDeleted}

(* createOrEditTag without a tag: the name must be new. *)
CreateTag(d, name) ==
  /\ NamedLive(name) = {}
  /\ Takes(d, [NoTask EXCEPT !.at = "pushTag",
                             !.tag = [name |-> name, isDeleted |-> FALSE, isReadonly |-> FALSE]], {})

(* createOrEditTag with a tag: the name may be another tag's. *)
EditTag(d, i, name) ==
  /\ i \in DOMAIN board.tags /\ ~board.tags[i].isReadonly
  /\ Takes(d, [NoTask EXCEPT !.at = "editTag", !.i = i, !.v = board.v, !.tag.name = name],
           IF NamedLive(name) \ {i} = {} THEN {} ELSE {<<"name", name>>})

DeleteTag(d, i) ==
  /\ i \in DOMAIN board.tags /\ ~board.tags[i].isReadonly /\ ~board.tags[i].isDeleted
  /\ Takes(d, [NoTask EXCEPT !.at = "dropTag", !.i = i, !.v = board.v], {})

(* changeTagRoom: any tag of the space, a deleted one too. *)
ChangeTagRoom(d, c, i) ==
  /\ i \in DOMAIN board.tags /\ tagOf[c] # i
  /\ Takes(d, [NoTask EXCEPT !.at = "giveTag", !.chat = c, !.i = i],
           IF board.tags[i].isDeleted THEN {<<"tag", i>>} ELSE {})

(* endConversation: the first tag with the name. *)
EndConversation(d, c) ==
  LET i == SelectInSeq(board.tags, LAMBDA t : t.name = "completed")
  IN /\ i # 0
     /\ Takes(d, [NoTask EXCEPT !.at = "giveTag", !.chat = c, !.i = i], {})

RatesAgain(d, u) ==
  Takes(d, [NoTask EXCEPT !.at = "pushRating", !.rater = u, !.v = ratings.v], {})

(* rating: a client's rating is changed, or pushed. *)
Rate(d, u) ==
  LET i == SelectInSeq(ratings.by, LAMBDA r : r = u)
  IN Takes(d, [NoTask EXCEPT !.at = IF i = 0 THEN "pushRating" ELSE "editRating",
                             !.rater = u, !.i = i, !.v = ratings.v], {})

-----------------------------------------------------------------------------
Done(d) == task' = [task EXCEPT ![d] = NoTask] /\ UNCHANGED <<tasks, stray>>

(* A request ends before its last write. *)
Drops(d) ==
  /\ task' = [task EXCEPT ![d] = NoTask]
  /\ stray' = stray \union AboutOf(task[d])
  /\ UNCHANGED tasks

MakesScript(d) ==
  /\ task[d].at = "makeScript"
  /\ script' = [s \in Scripts |-> IF s \in task[d].scripts THEN "live" ELSE script[s]]
  /\ Done(d) /\ UNCHANGED <<currentScript, board, tagOf, ratings>>

(* The extension runs the script, or none. *)
Chooses(d) ==
  /\ task[d].at = "choose"
  /\ \/ task[d].scripts = {} /\ currentScript' = NoScript
     \/ currentScript' \in task[d].scripts
  /\ Done(d) /\ UNCHANGED <<script, board, tagOf, ratings>>

DropsScripts(d) ==
  /\ task[d].at = "dropScripts"
  /\ script' = [s \in Scripts |-> IF s \in task[d].scripts THEN "deleted" ELSE script[s]]
  /\ Done(d) /\ UNCHANGED <<currentScript, board, tagOf, ratings>>

PushesTag(d) ==
  /\ task[d].at = "pushTag"
  /\ board' = [tags |-> Append(board.tags, task[d].tag), v |-> board.v + 1]
  /\ Done(d) /\ UNCHANGED <<script, currentScript, tagOf, ratings>>

DropsTag(d) ==
  /\ board' = [board EXCEPT !.tags[task[d].i].isDeleted = TRUE]
  /\ task' = [task EXCEPT ![d].at = "clearTag"] /\ UNCHANGED <<tasks, stray>>

SavesTag(d) ==
  /\ task[d].at \in {"editTag", "dropTag"}
  /\ IF board.v # task[d].v THEN Drops(d) /\ UNCHANGED board
     ELSE IF task[d].at = "dropTag" THEN DropsTag(d)
     ELSE board' = [board EXCEPT !.tags[task[d].i].name = task[d].tag.name] /\ Done(d)
  /\ UNCHANGED <<script, currentScript, tagOf, ratings>>

(* removeTagsBySpaceIdAndTagId *)
ClearsTag(d) ==
  /\ task[d].at = "clearTag"
  /\ tagOf' = [c \in Chats |-> IF tagOf[c] = task[d].i THEN 0 ELSE tagOf[c]]
  /\ Done(d) /\ UNCHANGED <<script, currentScript, board, ratings>>

(* updateRoom *)
GivesTag(d) ==
  /\ task[d].at = "giveTag"
  /\ tagOf' = [tagOf EXCEPT ![task[d].chat] = task[d].i]
  /\ Done(d) /\ UNCHANGED <<script, currentScript, board, ratings>>

SavesRating(d) ==
  /\ \/ /\ task[d].at = "pushRating"
        /\ ratings' = [by |-> Append(ratings.by, task[d].rater), v |-> ratings.v + 1]
        /\ Done(d)
     \/ /\ task[d].at = "editRating"
        /\ UNCHANGED ratings
        /\ IF ratings.v = task[d].v THEN Done(d) ELSE Drops(d)
  /\ UNCHANGED <<script, currentScript, board, tagOf>>

(* A call that a request awaits fails, or the process ends. *)
TaskFails(d) ==
  /\ task[d] # NoTask
  /\ Drops(d)
  /\ UNCHANGED <<script, currentScript, board, tagOf, ratings>>

-----------------------------------------------------------------------------
Begins(d) ==
  \/ \E s \in Scripts : CreateScript(d, s)
  \/ \E ss \in {{}} \union {{s} : s \in Scripts} : ChooseScript(d, ss)
  \/ \E ss \in SUBSET Scripts : ss # {} /\ RemoveScripts(d, ss)
  \/ \E name \in TagNames : CreateTag(d, name) \/ \E i \in 1..Len(board.tags) : EditTag(d, i, name)
  \/ \E i \in 1..Len(board.tags) : DeleteTag(d, i) \/ \E c \in Chats : ChangeTagRoom(d, c, i)
  \/ \E c \in Chats : EndConversation(d, c)
  \/ \E u \in Raters : Rate(d, u)

Continues(d) ==
  \/ MakesScript(d) \/ Chooses(d) \/ DropsScripts(d) \/ PushesTag(d) \/ SavesTag(d)
  \/ ClearsTag(d) \/ GivesTag(d) \/ SavesRating(d) \/ TaskFails(d)

DeskNext == \E d \in Agents : Begins(d) \/ Continues(d)

DeskSpec == DeskInit /\ [][DeskNext]_deskVars

-----------------------------------------------------------------------------
(* Types. *)
DeskTypeOK ==
  /\ script \in [Scripts -> {"none", "live", "deleted"}]
  /\ currentScript \in Scripts \union {NoScript}
  /\ board \in [tags : Seq(Tag), v : Nat] /\ ratings \in [by : Seq(Raters), v : Nat]
  /\ tagOf \in [Chats -> 0..Len(board.tags)]
  /\ task \in [Agents -> Task] /\ tasks \in 0..MaxTasks

Calm(subject) == subject \notin stray /\ subject \notin Busy

(* The script that the extension runs is not deleted, unless it was when it  *)
(* was chosen, or the choice and a removal overlapped.                       *)
ScriptInUseLives ==
  currentScript # NoScript /\ Calm(<<"script", currentScript>>) => script[currentScript] = "live"

(* No conversation has a tag that was deleted, unless it was given it after  *)
(* the deletion or while it was under way, or the deletion was not ended.    *)
DeletedTagsCleared ==
  \A i \in DOMAIN board.tags :
    board.tags[i].isDeleted /\ Calm(<<"tag", i>>) => \A c \in Chats : tagOf[c] # i

(* Two ratings of a client come from requests that overlapped, and two tags  *)
(* of one name from such requests or from a tag that was renamed.            *)
DeskTwinsOverlapped ==
  /\ \A i, j \in DOMAIN ratings.by :
       ratings.by[i] = ratings.by[j] /\ Calm(<<"rating", ratings.by[i]>>) => i = j
  /\ \A name \in TagNames : Calm(<<"name", name>>) => \A i, j \in NamedLive(name) : i = j
=============================================================================
