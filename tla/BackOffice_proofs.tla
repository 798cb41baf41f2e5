------------------------- MODULE BackOffice_proofs -------------------------
(***************************************************************************)
(* Proofs about the back office, the station, the space, its desk and its  *)
(* forms, for any number of users, documents and requests, and about the   *)
(* run that checks the four of them side by side.                          *)
(***************************************************************************)
EXTENDS MCBackOffice, Lists_proofs, FiniteSetTheorems, SequenceTheorems, TLAPS

(* The first of the places found. *)
LEMMA FirstOf ==
  ASSUME NEW I \in SUBSET Nat, I # {} PROVE Min(I) \in I /\ \A j \in I : Min(I) <= j
<1>1. PICK x \in I : \A y \in I : ~(<<y, x>> \in OpToRel(<, Nat))
  BY NatLessThanWellFounded, WFMin
<1>2. \A y \in I : ~(y < x)
  BY <1>1 DEF OpToRel
<1>3. \A y \in I : x <= y
  BY <1>2
<1> QED BY <1>3 DEF Min

(* What a search of a list finds: the first of the places, or 0.            *)
LEMMA LeastPlace ==
  ASSUME NEW S, NEW s \in Seq(S), NEW I \in SUBSET DOMAIN s, NEW p, p = IF I # {} THEN Min(I) ELSE 0
  PROVE  /\ p \in Nat
         /\ p # 0 => p \in I /\ p \in DOMAIN s /\ \A i \in I : p <= i
         /\ p = 0 => I = {}
<1>1. DOMAIN s = 1..Len(s) /\ Len(s) \in Nat
  BY LenProperties
<1>2. I \in SUBSET Nat /\ \A i \in I : i # 0 /\ i \in Nat
  BY <1>1
<1>3. CASE I # {}
  <2>1. Min(I) \in I /\ \A j \in I : Min(I) <= j
    BY <1>2, <1>3, FirstOf
  <2> QED BY <1>2, <1>3, <2>1
<1> QED BY <1>3

(* A list of a finite set has each element of it once. *)
LEMMA ListOfSet ==
  ASSUME NEW S, NEW T, S \subseteq T, IsFiniteSet(S)
  PROVE  SetToSeq(S) \in Seq(T) /\ IsInjective(SetToSeq(S)) /\ Range(SetToSeq(S)) \subseteq S
<1>1. Cardinality(S) \in Nat /\ ExistsBijection(1..Cardinality(S), S)
  BY FS_CardinalityType
<1>2. \E f \in [1..Cardinality(S) -> S] : IsInjective(f)
  BY <1>1 DEF ExistsBijection, Bijection, Injection, IsInjective
<1>3. SetToSeq(S) \in [1..Cardinality(S) -> S] /\ IsInjective(SetToSeq(S))
  BY <1>2 DEF SetToSeq
<1>4. SetToSeq(S) \in Seq(T)
  BY <1>1, <1>3
<1> QED BY <1>3, <1>4 DEF Range

LEMMA ListsTogether ==
  ASSUME NEW S, NEW s \in Seq(S), NEW t \in Seq(S), IsInjective(s), IsInjective(t),
         Range(s) \intersect Range(t) = {}
  PROVE  s \o t \in Seq(S) /\ IsInjective(s \o t) /\ Range(s \o t) = Range(s) \union Range(t)
<1>1. /\ s \o t \in Seq(S) /\ Len(s \o t) = Len(s) + Len(t) /\ Len(s) \in Nat /\ Len(t) \in Nat
      /\ \A i \in 1..Len(s) + Len(t) :
           (s \o t)[i] = IF i <= Len(s) THEN s[i] ELSE t[i - Len(s)]
  BY ConcatProperties, LenProperties
<1>2. DOMAIN s = 1..Len(s) /\ DOMAIN t = 1..Len(t) /\ DOMAIN (s \o t) = 1..Len(s) + Len(t)
  BY <1>1, LenProperties
<1>3. ASSUME NEW i \in DOMAIN (s \o t), NEW j \in DOMAIN (s \o t), (s \o t)[i] = (s \o t)[j]
      PROVE  i = j
  <2>1. CASE i <= Len(s) /\ j <= Len(s)
    BY <1>1, <1>2, <1>3, <2>1 DEF IsInjective
  <2>2. CASE ~(i <= Len(s)) /\ ~(j <= Len(s))
    <3>1. i - Len(s) \in DOMAIN t /\ j - Len(s) \in DOMAIN t
      BY <1>1, <1>2, <2>2
    <3>2. t[i - Len(s)] = t[j - Len(s)]
      BY <1>1, <1>2, <1>3, <2>2
    <3>3. i - Len(s) = j - Len(s)
      BY <3>1, <3>2 DEF IsInjective
    <3> QED BY <1>1, <1>2, <3>3
  <2>3. CASE i <= Len(s) /\ ~(j <= Len(s))
    <3>1. i \in DOMAIN s /\ j - Len(s) \in DOMAIN t
      BY <1>1, <1>2, <2>3
    <3>2. s[i] = t[j - Len(s)]
      BY <1>1, <1>2, <1>3, <2>3
    <3> QED BY <3>1, <3>2 DEF Range
  <2>4. CASE ~(i <= Len(s)) /\ j <= Len(s)
    <3>1. i - Len(s) \in DOMAIN t /\ j \in DOMAIN s
      BY <1>1, <1>2, <2>4
    <3>2. t[i - Len(s)] = s[j]
      BY <1>1, <1>2, <1>3, <2>4
    <3> QED BY <3>1, <3>2 DEF Range
  <2> QED BY <2>1, <2>2, <2>3, <2>4
<1> QED BY <1>1, <1>3, RangeConcatenation DEF IsInjective

-----------------------------------------------------------------------------
(* The forms.                                                                *)

FormRequests == {"make", "fill", "list", "remove", "write", "relist"}
NameRequests == {"make", "remove", "write", "relist"}

AboutForm(q, f) == edit[q].at \in FormRequests /\ edit[q].form = f
AboutName(q, name) == edit[q].at \in NameRequests /\ edit[q].name = name
AboutAnswer(q, f, u) ==
  edit[q].at \in {"read", "answer"} /\ edit[q].form = f /\ edit[q].user = u

(* A request brings each field once, and none of a request to come; it is    *)
(* about a form that was made, but for the one that makes it.                *)
EditOK(q) ==
  /\ IsInjective(edit[q].fields)
  /\ \A i \in Range(edit[q].fields) : i[1] <= edits
  /\ edit[q].at \in {"remove", "write"} => edit[q].left \subseteq Range(edit[q].fields)
  /\ edit[q].at = "remove" => edit[q].left = Range(edit[q].fields)
  /\ edit[q].at \in (FormRequests \ {"make"}) \union {"delete"} => form[edit[q].form].status # "none"

(* What the one request about a form still expects of its fields. *)
Awaits(q) ==
  LET mine == Range(edit[q].fields)  there == FieldsOf(edit[q].form)
  IN /\ edit[q].at \in {"make", "fill"} => there = {}
     /\ edit[q].at \in {"list", "relist"} => there = mine
     /\ edit[q].at = "write" => there \subseteq mine /\ mine \ edit[q].left \subseteq there

(* A form, a name and the answers of a client, that no two requests          *)
(* overlapped on, with at most the one request about it.                     *)
FormOK(f) ==
  /\ form[f].status = "none" => FieldsOf(f) = {} /\ form[f].formFields = <<>>
  /\ <<"form", f>> \notin mixed =>
       /\ \A q \in Editors : AboutForm(q, f) => Awaits(q)
       /\ (\A q \in Editors : ~AboutForm(q, f)) =>
            Range(form[f].formFields) = FieldsOf(f) /\ IsInjective(form[f].formFields)

NameOK(name) ==
  <<"name", name>> \notin mixed =>
    /\ \A f, g \in LiveNamed(name) : f = g
    /\ \A q \in Editors : AboutName(q, name) =>
         LiveNamed(name) \subseteq IF edit[q].at = "make" THEN {} ELSE {edit[q].form}

AnswerOK(f, u) ==
  <<"answer", f, u>> \notin mixed =>
    /\ \A q \in Editors : AboutAnswer(q, f, u) => ~Answered(f, u)
    /\ \A i, j \in DOMAIN response :
         response[i].form = f /\ response[i].user = u /\ response[j].form = f /\ response[j].user = u
         => i = j

(* Requests about one subject are about a mixed one. *)
Apart ==
  \A p, q \in Editors : p # q =>
    /\ \A f \in FormIds : AboutForm(p, f) /\ AboutForm(q, f) => <<"form", f>> \in mixed
    /\ \A name \in FormNames : AboutName(p, name) /\ AboutName(q, name) => <<"name", name>> \in mixed
    /\ \A f \in FormIds, u \in Clients :
         AboutAnswer(p, f, u) /\ AboutAnswer(q, f, u) => <<"answer", f, u>> \in mixed

FormsInv ==
  /\ FormsTypeOK
  /\ \A d \in formField : d.id[1] <= edits
  /\ \A q \in Editors : EditOK(q)
  /\ Apart
  /\ \A f \in FormIds : FormOK(f)
  /\ \A name \in FormNames : NameOK(name)
  /\ \A f \in FormIds, u \in Clients : AnswerOK(f, u)

LEMMA SubjectFacts ==
  ASSUME NEW e \in Edit
  PROVE  /\ \A f : <<"form", f>> \in SubjectsOf(e) <=> e.at \in FormRequests /\ e.form = f
         /\ \A m : <<"name", m>> \in SubjectsOf(e) <=> e.at \in NameRequests /\ e.name = m
         /\ \A f, u : <<"answer", f, u>> \in SubjectsOf(e) <=>
              e.at \in {"read", "answer"} /\ e.form = f /\ e.user = u
<1>0. e.at \in {"idle", "make", "fill", "remove", "write", "list", "relist", "delete", "read", "answer"}
  BY DEF Edit
<1>1. CASE e.at \in {"read", "answer"}
  BY <1>1 DEF SubjectsOf, FormRequests, NameRequests
<1>2. CASE e.at \in {"fill", "list"}
  BY <1>2 DEF SubjectsOf, FormRequests, NameRequests
<1>3. CASE e.at \in {"make", "remove", "write", "relist"}
  BY <1>3 DEF SubjectsOf, FormRequests, NameRequests
<1>4. CASE e.at \in {"idle", "delete"}
  BY <1>4 DEF SubjectsOf, FormRequests, NameRequests
<1> QED BY <1>0, <1>1, <1>2, <1>3, <1>4

LEMMA NoEditTypes == NoEdit \in Edit /\ NoEdit.at = "idle" /\ NoEdit.fields = <<>> /\ NoEdit.left = {}
<1>1. /\ (CHOOSE f \in FormIds : TRUE) \in FormIds /\ (CHOOSE m \in FormNames : TRUE) \in FormNames
      /\ (CHOOSE u \in Clients : TRUE) \in Clients
  BY FormsAssumption
<1> QED BY <1>1, FormsAssumption DEF NoEdit, Edit
LEMMA OneEdit ==
  ASSUME FormsTypeOK, NEW q \in Editors, NEW new \in Edit, edit' = [edit EXCEPT ![q] = new]
  PROVE  edit' \in [Editors -> Edit] /\ edit'[q] = new /\ \A p \in Editors \ {q} : edit'[p] = edit[p]
  BY DEF FormsTypeOK

(* A request begins. *)
LEMMA OpensEffect ==
  ASSUME FormsInv, NEW q \in Editors, NEW e \in Edit, NEW also, Opens(q, e, also)
  PROVE  /\ edit' \in [Editors -> Edit] /\ \A p \in Editors \ {q} : edit'[p] = edit[p]
         /\ edit'[q].at = e.at /\ edit'[q].form = e.form /\ edit'[q].name = e.name
         /\ edit'[q].user = e.user /\ edit'[q].fields = e.fields /\ edit'[q].left = e.left
         /\ edit[q].at = "idle" /\ edits \in Nat /\ edits' = edits + 1 /\ edits' \in 0..MaxEdits
         /\ mixed \subseteq mixed' /\ also \subseteq mixed'
         /\ \A p \in Editors : SubjectsOf(e) \intersect SubjectsOf(edit[p]) \subseteq mixed'
         /\ UNCHANGED <<form, formField, response>>
<1> DEFINE new == [e EXCEPT !.n = edits + 1]
<1>1. edits \in Nat /\ edits + 1 \in 0..MaxEdits /\ FormsTypeOK
  BY FormsAssumption DEF Opens, FormsInv, FormsTypeOK
<1>2. /\ new \in Edit /\ new.at = e.at /\ new.form = e.form /\ new.name = e.name
      /\ new.user = e.user /\ new.fields = e.fields /\ new.left = e.left
  BY <1>1 DEF Edit
<1>3. edit' = [edit EXCEPT ![q] = new]
  BY DEF Opens
<1> HIDE DEF new
<1>4. edit' \in [Editors -> Edit] /\ edit'[q] = new /\ \A p \in Editors \ {q} : edit'[p] = edit[p]
  BY <1>1, <1>2, <1>3, OneEdit
<1>5. edit[q].at = "idle"
  BY NoEditTypes DEF Opens
<1> QED BY <1>1, <1>2, <1>4, <1>5 DEF Opens, OnHand

(* A request is over, and one that goes on. *)
LEMMA EndsEffect ==
  ASSUME FormsTypeOK, NEW q \in Editors, EndsEdit(q)
  PROVE  /\ edit' \in [Editors -> Edit] /\ \A p \in Editors \ {q} : edit'[p] = edit[p]
         /\ edit'[q] = NoEdit
  BY NoEditTypes, OneEdit DEF EndsEdit

LEMMA OntoEffect ==
  ASSUME FormsTypeOK, NEW q \in Editors,
         NEW at \in {"fill", "write", "list"}, Onto(q, at)
  PROVE  /\ edit' \in [Editors -> Edit] /\ \A p \in Editors \ {q} : edit'[p] = edit[p]
         /\ edit'[q].at = at /\ edit'[q].form = edit[q].form /\ edit'[q].name = edit[q].name
         /\ edit'[q].fields = edit[q].fields /\ edit'[q].left = edit[q].left
<1>0. edit[q] \in Edit
  BY DEF FormsTypeOK
<1> DEFINE new == [edit[q] EXCEPT !.at = at]
<1>1. /\ new \in Edit /\ new.at = at /\ new.form = edit[q].form /\ new.name = edit[q].name
      /\ new.fields = edit[q].fields /\ new.left = edit[q].left
  BY <1>0 DEF Edit
<1>2. edit' = [edit EXCEPT ![q] = new]
  BY DEF Onto
<1> HIDE DEF new
<1> QED BY <1>1, <1>2, OneEdit

-----------------------------------------------------------------------------
(* What a step of one request leaves of the invariant.                       *)
SameOthers(q) == \A p \in Editors \ {q} : edit'[p] = edit[p]

LEMMA SameEdit ==
  ASSUME NEW p \in Editors, EditOK(p), edit'[p] = edit[p], edits \in Nat, edits' \in {edits, edits + 1},
         FormsTypeOK,
         \A f \in FormIds : form'[f].status = "none" => form[f].status = "none"
  PROVE  EditOK(p)'
<1>1. \A i \in Range(edit[p].fields) : i[1] \in Nat
  <2>1. edit[p].fields \in Seq(FieldIds)
    BY DEF FormsTypeOK, Edit
  <2>2. Range(edit[p].fields) \subseteq FieldIds
    BY <2>1, RangeOfSeq
  <2> QED BY <2>2, FormsAssumption DEF FieldIds
<1>2. edit[p].form \in FormIds
  BY DEF FormsTypeOK, Edit
<1> QED BY <1>1, <1>2 DEF EditOK

(* A form that the step leaves alone. *)
LEMMA FormUntouched ==
  ASSUME NEW f \in FormIds, FormOK(f), NEW q \in Editors, SameOthers(q), mixed \subseteq mixed',
         form'[f].formFields = form[f].formFields, FieldsOf(f)' = FieldsOf(f),
         form'[f].status = "none" => form[f].status = "none",
         ~AboutForm(q, f), ~AboutForm(q, f)'
  PROVE  FormOK(f)'
<1>1. ASSUME NEW p \in Editors PROVE AboutForm(p, f)' <=> AboutForm(p, f)
  BY DEF SameOthers, AboutForm
<1>2. ASSUME NEW p \in Editors, AboutForm(p, f), Awaits(p) PROVE Awaits(p)'
  <2>1. edit'[p] = edit[p] /\ edit[p].form = f
    BY <1>2 DEF SameOthers, AboutForm
  <2> QED BY <1>2, <2>1 DEF Awaits
<1> QED BY <1>1, <1>2 DEF FormOK

(* A form that the step of a request about it writes. *)
LEMMA FormTouched ==
  ASSUME FormsInv, NEW f \in FormIds, NEW q \in Editors, SameOthers(q), mixed \subseteq mixed',
         AboutForm(q, f), form'[f].status # "none" \/ (UNCHANGED form /\ FieldsOf(f)' = FieldsOf(f)),
         <<"form", f>> \notin mixed' /\ Awaits(q) =>
           IF AboutForm(q, f)' THEN Awaits(q)'
           ELSE Range(form'[f].formFields) = FieldsOf(f)' /\ IsInjective(form'[f].formFields)
  PROVE  FormOK(f)'
<1>1. form'[f].status = "none" => FieldsOf(f)' = {} /\ form'[f].formFields = <<>>
  BY DEF FormsInv, FormOK
<1>2. ASSUME <<"form", f>> \notin mixed'
      PROVE  /\ \A p \in Editors : AboutForm(p, f)' => Awaits(p)'
             /\ (\A p \in Editors : ~AboutForm(p, f)') =>
                  Range(form'[f].formFields) = FieldsOf(f)' /\ IsInjective(form'[f].formFields)
  <2>1. Awaits(q)
    BY <1>2 DEF FormsInv, FormOK
  <2>2. ASSUME NEW p \in Editors \ {q} PROVE ~AboutForm(p, f)'
    BY <1>2, <2>2 DEF FormsInv, Apart, SameOthers, AboutForm
  <2> QED BY <1>2, <2>1, <2>2
<1> QED BY <1>1, <1>2 DEF FormOK

(* A form that a request begins about. *)
LEMMA FormBegun ==
  ASSUME FormsInv, NEW f \in FormIds, NEW q \in Editors, SameOthers(q), mixed \subseteq mixed',
         UNCHANGED <<form, formField>>, edit[q].at = "idle",
         \A p \in Editors : AboutForm(p, f) => <<"form", f>> \in mixed',
         Awaits(q)', AboutForm(q, f)'
  PROVE  FormOK(f)'
<1>1. ASSUME <<"form", f>> \notin mixed', NEW p \in Editors \ {q} PROVE ~AboutForm(p, f)'
  BY <1>1 DEF SameOthers, AboutForm
<1>2. FormOK(f) /\ FieldsOf(f)' = FieldsOf(f)
  BY DEF FormsInv, FieldsOf
<1> QED BY <1>1, <1>2 DEF FormOK

(* A name that forms may only lose, and one that a request about it gives.   *)
LEMMA NameUntouched ==
  ASSUME NEW m \in FormNames, NameOK(m), NEW q \in Editors, SameOthers(q), mixed \subseteq mixed',
         LiveNamed(m)' \subseteq LiveNamed(m), ~AboutName(q, m)'
  PROVE  NameOK(m)'
<1>1. ASSUME NEW p \in Editors, AboutName(p, m)' PROVE AboutName(p, m) /\ edit'[p] = edit[p]
  BY <1>1 DEF SameOthers, AboutName
<1> QED BY <1>1 DEF NameOK

LEMMA NameTouched ==
  ASSUME FormsInv, NEW m \in FormNames, NEW q \in Editors, SameOthers(q), mixed \subseteq mixed',
         AboutName(q, m),
         <<"name", m>> \notin mixed' /\
         LiveNamed(m) \subseteq (IF edit[q].at = "make" THEN {} ELSE {edit[q].form}) =>
           /\ \A f, g \in LiveNamed(m)' : f = g
           /\ AboutName(q, m)' =>
                LiveNamed(m)' \subseteq IF edit'[q].at = "make" THEN {} ELSE {edit'[q].form}
  PROVE  NameOK(m)'
<1> SUFFICES ASSUME <<"name", m>> \notin mixed'
             PROVE  /\ \A f, g \in LiveNamed(m)' : f = g
                    /\ \A p \in Editors : AboutName(p, m)' =>
                         LiveNamed(m)' \subseteq IF edit'[p].at = "make" THEN {} ELSE {edit'[p].form}
  BY DEF NameOK
<1>1. LiveNamed(m) \subseteq IF edit[q].at = "make" THEN {} ELSE {edit[q].form}
  BY DEF FormsInv, NameOK
<1>2. ASSUME NEW p \in Editors \ {q} PROVE ~AboutName(p, m)'
  BY <1>2 DEF FormsInv, Apart, SameOthers, AboutName
<1> QED BY <1>1, <1>2

LEMMA NameBegun ==
  ASSUME FormsInv, NEW m \in FormNames, NEW q \in Editors, SameOthers(q), mixed \subseteq mixed',
         UNCHANGED form, \A p \in Editors : AboutName(p, m) => <<"name", m>> \in mixed',
         <<"name", m>> \notin mixed' /\ (\A f, g \in LiveNamed(m) : f = g) /\ AboutName(q, m)' =>
           LiveNamed(m) \subseteq IF edit'[q].at = "make" THEN {} ELSE {edit'[q].form}
  PROVE  NameOK(m)'
<1>1. ASSUME <<"name", m>> \notin mixed', NEW p \in Editors \ {q} PROVE ~AboutName(p, m)'
  BY <1>1 DEF SameOthers, AboutName
<1>2. NameOK(m) /\ LiveNamed(m)' = LiveNamed(m)
  BY DEF FormsInv, LiveNamed
<1> QED BY <1>1, <1>2 DEF NameOK

(* The answers of a client that the step adds nothing to. *)
LEMMA AnswersUntouched ==
  ASSUME FormsInv, NEW f \in FormIds, NEW u \in Clients, NEW q \in Editors, SameOthers(q),
         mixed \subseteq mixed', UNCHANGED response,
         AboutAnswer(q, f, u)' => \/ AboutAnswer(q, f, u)
                                  \/ ~Answered(f, u)
  PROVE  AnswerOK(f, u)'
<1>1. Answered(f, u)' <=> Answered(f, u)
  BY DEF Answered
<1>2. AnswerOK(f, u)
  BY DEF FormsInv
<1>3. ASSUME NEW p \in Editors \ {q}, AboutAnswer(p, f, u)' PROVE AboutAnswer(p, f, u)
  BY <1>3 DEF SameOthers, AboutAnswer
<1> QED BY <1>1, <1>2, <1>3 DEF AnswerOK

(* Of two requests about one subject, when one of them goes on or begins.    *)
LEMMA ApartNext ==
  ASSUME FormsInv, NEW q \in Editors, SameOthers(q), mixed \subseteq mixed',
         \A f \in FormIds : AboutForm(q, f)' =>
           \/ AboutForm(q, f)
           \/ \A p \in Editors : AboutForm(p, f) => <<"form", f>> \in mixed',
         \A m \in FormNames : AboutName(q, m)' =>
           \/ AboutName(q, m)
           \/ \A p \in Editors : AboutName(p, m) => <<"name", m>> \in mixed',
         \A f \in FormIds, u \in Clients : AboutAnswer(q, f, u)' =>
           \/ AboutAnswer(q, f, u)
           \/ \A p \in Editors : AboutAnswer(p, f, u) => <<"answer", f, u>> \in mixed'
  PROVE  Apart'
<1>1. ASSUME NEW p \in Editors \ {q}
      PROVE  /\ \A f \in FormIds : AboutForm(p, f)' <=> AboutForm(p, f)
             /\ \A m \in FormNames : AboutName(p, m)' <=> AboutName(p, m)
             /\ \A f \in FormIds, u \in Clients : AboutAnswer(p, f, u)' <=> AboutAnswer(p, f, u)
  BY DEF SameOthers, AboutForm, AboutName, AboutAnswer
<1>2. Apart
  BY DEF FormsInv
<1> SUFFICES ASSUME NEW p \in Editors, NEW r \in Editors, p # r
             PROVE  /\ \A f \in FormIds : AboutForm(p, f)' /\ AboutForm(r, f)' => <<"form", f>> \in mixed'
                    /\ \A m \in FormNames : AboutName(p, m)' /\ AboutName(r, m)' => <<"name", m>> \in mixed'
                    /\ \A f \in FormIds, u \in Clients :
                         AboutAnswer(p, f, u)' /\ AboutAnswer(r, f, u)' => <<"answer", f, u>> \in mixed'
  BY DEF Apart
<1>3. \A f \in FormIds : AboutForm(p, f)' /\ AboutForm(r, f)' => <<"form", f>> \in mixed'
  BY <1>1, <1>2 DEF Apart
<1>4. \A m \in FormNames : AboutName(p, m)' /\ AboutName(r, m)' => <<"name", m>> \in mixed'
  BY <1>1, <1>2 DEF Apart
<1>5. \A f \in FormIds, u \in Clients :
        AboutAnswer(p, f, u)' /\ AboutAnswer(r, f, u)' => <<"answer", f, u>> \in mixed'
  BY <1>1, <1>2 DEF Apart
<1> QED BY <1>3, <1>4, <1>5
-----------------------------------------------------------------------------
(* The steps of a request.                                                   *)
FieldsKnown == \A d \in formField : d.id[1] <= edits

LEMMA FormsAt ==
  ASSUME FormsInv, NEW q \in Editors
  PROVE  /\ FormsTypeOK /\ edit[q] \in Edit /\ edit[q].form \in FormIds /\ edit[q].name \in FormNames
         /\ edit[q].user \in Clients /\ edit[q].fields \in Seq(FieldIds)
         /\ Range(edit[q].fields) \subseteq FieldIds /\ edit[q].left \subseteq FieldIds
         /\ edits \in Nat /\ EditOK(q) /\ FieldsKnown
         /\ form \in [FormIds -> Form]
<1>1. /\ FormsTypeOK /\ edit[q] \in Edit /\ edits \in Nat /\ EditOK(q) /\ FieldsKnown
      /\ form \in [FormIds -> Form]
  BY FormsAssumption DEF FormsInv, FormsTypeOK, FieldsKnown
<1>2. /\ edit[q].form \in FormIds /\ edit[q].name \in FormNames /\ edit[q].user \in Clients
      /\ edit[q].fields \in Seq(FieldIds) /\ edit[q].left \subseteq FieldIds
  BY <1>1 DEF Edit
<1> QED BY <1>1, <1>2, RangeOfSeq

LEMMA FieldsNumbered == \A i \in FieldIds : i[1] \in Nat
  BY FormsAssumption DEF FieldIds

(* A request begins about a form, or about what a client answers.            *)
LEMMA OpensKeeps ==
  ASSUME FormsInv, NEW q \in Editors, NEW e \in Edit, NEW also, Opens(q, e, also),
         e.at \in {"make", "remove", "delete", "read"},
         IsInjective(e.fields), \A i \in Range(e.fields) : i[1] <= edits + 1,
         e.at = "remove" => e.left = Range(e.fields),
         e.at \in {"remove", "delete"} => form[e.form].status # "none",
         e.at = "make" => form[e.form].status = "none" /\ LiveNamed(e.name) = {},
         e.at = "remove" => \/ form[e.form].status = "live" /\ form[e.form].name = e.name
                            \/ <<"name", e.name>> \in also,
         e.at = "read" => ~Answered(e.form, e.user)
  PROVE  FormsInv'
<1>0. /\ FormsTypeOK /\ edits \in Nat /\ FieldsKnown /\ e.form \in FormIds /\ e.name \in FormNames
      /\ e.user \in Clients
  BY FormsAt DEF Edit
<1>1. /\ edit' \in [Editors -> Edit] /\ SameOthers(q)
      /\ edit'[q].at = e.at /\ edit'[q].form = e.form /\ edit'[q].name = e.name
      /\ edit'[q].user = e.user /\ edit'[q].fields = e.fields /\ edit'[q].left = e.left
      /\ edit[q].at = "idle" /\ edits' = edits + 1 /\ edits' \in 0..MaxEdits
      /\ mixed \subseteq mixed' /\ also \subseteq mixed'
      /\ \A p \in Editors : SubjectsOf(e) \intersect SubjectsOf(edit[p]) \subseteq mixed'
      /\ UNCHANGED <<form, formField, response>>
  BY OpensEffect DEF SameOthers
<1>2. FormsTypeOK'
  BY <1>0, <1>1 DEF FormsTypeOK
<1>3. \A d \in formField' : d.id[1] <= edits'
  <2>1. \A d \in formField : d.id[1] \in Nat
    BY <1>0, FieldsNumbered DEF FormsTypeOK, FormField
  <2> QED BY <1>0, <1>1, <2>1 DEF FieldsKnown
<1>4. \A p \in Editors : EditOK(p)'
  <2>1. EditOK(q)'
    BY <1>1 DEF EditOK, FormRequests
  <2>2. ASSUME NEW p \in Editors \ {q} PROVE EditOK(p)'
    <3>1. EditOK(p) /\ edit'[p] = edit[p]
      BY <1>1, <2>2 DEF FormsInv, SameOthers
    <3> QED BY <1>0, <1>1, <2>2, <3>1, SameEdit
  <2> QED BY <2>1, <2>2
<1>5. /\ \A f \in FormIds : AboutForm(q, f)' =>
           /\ f = e.form
           /\ \A p \in Editors : AboutForm(p, f) => <<"form", f>> \in mixed'
      /\ \A m \in FormNames : AboutName(q, m)' =>
           /\ m = e.name
           /\ \A p \in Editors : AboutName(p, m) => <<"name", m>> \in mixed'
      /\ \A f \in FormIds, u \in Clients : AboutAnswer(q, f, u)' =>
           /\ f = e.form /\ u = e.user /\ e.at = "read"
           /\ \A p \in Editors : AboutAnswer(p, f, u) => <<"answer", f, u>> \in mixed'
  <2>1. \A p \in Editors : edit[p] \in Edit
    BY <1>0 DEF FormsTypeOK
  <2>2. ASSUME NEW f \in FormIds, AboutForm(q, f)'
        PROVE  f = e.form /\ \A p \in Editors : AboutForm(p, f) => <<"form", f>> \in mixed'
    <3>1. f = e.form /\ <<"form", f>> \in SubjectsOf(e)
      BY <1>1, <2>2, SubjectFacts DEF AboutForm
    <3>2. ASSUME NEW p \in Editors, AboutForm(p, f) PROVE <<"form", f>> \in SubjectsOf(edit[p])
      BY <2>1, <3>2, SubjectFacts DEF AboutForm
    <3> QED BY <1>1, <3>1, <3>2
  <2>3. ASSUME NEW m \in FormNames, AboutName(q, m)'
        PROVE  m = e.name /\ \A p \in Editors : AboutName(p, m) => <<"name", m>> \in mixed'
    <3>1. m = e.name /\ <<"name", m>> \in SubjectsOf(e)
      BY <1>1, <2>3, SubjectFacts DEF AboutName
    <3>2. ASSUME NEW p \in Editors, AboutName(p, m) PROVE <<"name", m>> \in SubjectsOf(edit[p])
      BY <2>1, <3>2, SubjectFacts DEF AboutName
    <3> QED BY <1>1, <3>1, <3>2
  <2>4. ASSUME NEW f \in FormIds, NEW u \in Clients, AboutAnswer(q, f, u)'
        PROVE  /\ f = e.form /\ u = e.user /\ e.at = "read"
               /\ \A p \in Editors : AboutAnswer(p, f, u) => <<"answer", f, u>> \in mixed'
    <3>1. f = e.form /\ u = e.user /\ e.at = "read" /\ <<"answer", f, u>> \in SubjectsOf(e)
      BY <1>1, <2>4, SubjectFacts DEF AboutAnswer
    <3>2. ASSUME NEW p \in Editors, AboutAnswer(p, f, u)
          PROVE  <<"answer", f, u>> \in SubjectsOf(edit[p])
      BY <2>1, <3>2, SubjectFacts DEF AboutAnswer
    <3> QED BY <1>1, <3>1, <3>2
  <2> QED BY <2>2, <2>3, <2>4
<1>6. Apart'
  BY <1>1, <1>5, ApartNext
<1>7. ASSUME NEW f \in FormIds PROVE FormOK(f)'
  <2>1. CASE AboutForm(q, f)'
    <3>1. f = e.form /\ FieldsOf(f)' = FieldsOf(f)
      BY <1>1, <1>5, <2>1 DEF FieldsOf
    <3>2. Awaits(q)'
      <4>1. e.at = "make" => FieldsOf(f) = {}
        BY <3>1 DEF FormsInv, FormOK
      <4> QED BY <1>1, <3>1, <4>1 DEF Awaits
    <3> QED BY <1>1, <1>5, <2>1, <3>2, FormBegun
  <2>2. CASE ~AboutForm(q, f)'
    <3>1. ~AboutForm(q, f) /\ FormOK(f) /\ FieldsOf(f)' = FieldsOf(f)
      BY <1>1 DEF AboutForm, FormRequests, FormsInv, FieldsOf
    <3> QED BY <1>1, <2>2, <3>1, FormUntouched
  <2> QED BY <2>1, <2>2
<1>8. ASSUME NEW m \in FormNames PROVE NameOK(m)'
  <2>1. CASE AboutName(q, m)'
    <3>1. m = e.name /\ e.at \in {"make", "remove"}
      BY <1>1, <1>5, <2>1 DEF AboutName, NameRequests
    <3>2. <<"name", m>> \notin mixed' /\ (\A f, g \in LiveNamed(m) : f = g) =>
            LiveNamed(m) \subseteq IF edit'[q].at = "make" THEN {} ELSE {edit'[q].form}
      <4>1. CASE e.at = "make"
        BY <1>1, <3>1, <4>1
      <4>2. CASE e.at = "remove" /\ form[e.form].status = "live" /\ form[e.form].name = e.name
        BY <1>0, <1>1, <3>1, <4>2 DEF LiveNamed
      <4>3. CASE <<"name", e.name>> \in also
        BY <1>1, <3>1, <4>3
      <4> QED BY <3>1, <4>1, <4>2, <4>3
    <3> QED BY <1>1, <1>5, <2>1, <3>2, NameBegun
  <2>2. CASE ~AboutName(q, m)'
    BY <1>1, <2>2, NameUntouched DEF FormsInv, LiveNamed
  <2> QED BY <2>1, <2>2
<1>9. ASSUME NEW f \in FormIds, NEW u \in Clients PROVE AnswerOK(f, u)'
  BY <1>1, <1>5, AnswersUntouched
<1> QED BY <1>2, <1>3, <1>4, <1>6, <1>7, <1>8, <1>9 DEF FormsInv

LEMMA NewFields ==
  ASSUME NEW n \in 1..MaxEdits, NEW k \in 0..MaxFields
  PROVE  /\ [i \in 1..k |-> <<n, i>>] \in Seq(FieldIds) /\ IsInjective([i \in 1..k |-> <<n, i>>])
         /\ \A i \in Range([j \in 1..k |-> <<n, j>>]) : i[1] = n
<1>1. k \in Nat /\ \A i \in 1..k : <<n, i>> \in FieldIds
  BY FormsAssumption DEF FieldIds
<1>2. [i \in 1..k |-> <<n, i>>] \in [1..k -> FieldIds]
  BY <1>1
<1>3. [i \in 1..k |-> <<n, i>>] \in Seq(FieldIds)
  BY <1>1, <1>2
<1> QED BY <1>3 DEF IsInjective, Range

LEMMA EmptyList == IsInjective(<<>>) /\ Range(<<>>) = {}
  BY DEF IsInjective, Range

LEMMA BeginningKeeps ==
  ASSUME FormsInv, NEW q \in Editors, OpensAny(q) PROVE FormsInv'
<1>0. FormsTypeOK /\ edits \in Nat /\ FieldsKnown
  BY FormsAt
<1>1. ASSUME NEW f \in FormIds, NEW name \in FormNames, NEW k \in 1..MaxFields, CreateForm(q, f, name, k)
      PROVE  FormsInv'
  <2>1. PICK e : e = [NoEdit EXCEPT !.at = "make", !.form = f, !.name = name,
                                    !.fields = [i \in 1..k |-> <<edits + 1, i>>]]
    OBVIOUS
  <2>2. /\ form[f].status = "none" /\ LiveNamed(name) = {} /\ Opens(q, e, {})
        /\ edits + 1 \in 1..MaxEdits /\ k \in 0..MaxFields
    <3>1. form[f].status = "none" /\ LiveNamed(name) = {} /\ Opens(q, e, {})
      BY <1>1, <2>1 DEF CreateForm
    <3>2. edits < MaxEdits
      BY <3>1 DEF Opens
    <3> QED BY <1>0, <3>1, <3>2, FormsAssumption
  <2>3. /\ [i \in 1..k |-> <<edits + 1, i>>] \in Seq(FieldIds)
        /\ IsInjective([i \in 1..k |-> <<edits + 1, i>>])
        /\ \A i \in Range([j \in 1..k |-> <<edits + 1, j>>]) : i[1] = edits + 1
    BY <2>2, NewFields
  <2>4. /\ e \in Edit /\ e.at = "make" /\ e.form = f /\ e.name = name
        /\ e.fields = [i \in 1..k |-> <<edits + 1, i>>]
    BY <2>1, <2>3, NoEditTypes DEF Edit
  <2>5. \A i \in Range(e.fields) : i[1] <= edits + 1
    BY <1>0, <2>3, <2>4
  <2> QED BY <2>2, <2>3, <2>4, <2>5, OpensKeeps
<1>2. ASSUME NEW f \in FormIds, NEW name \in FormNames, NEW keeps \in SUBSET FieldsOf(f),
             NEW more \in 0..MaxFields, EditForm(q, f, name, keeps, more)
      PROVE  FormsInv'
  <2>1. PICK fields : fields = SetToSeq(keeps) \o [i \in 1..more |-> <<edits + 1, i>>]
    OBVIOUS
  <2>2. PICK e : e = [NoEdit EXCEPT !.at = "remove", !.form = f, !.name = name,
                                    !.fields = fields, !.left = Range(fields)]
    OBVIOUS
  <2>3. PICK also : also = {<<"name", name>>} \ {<<"name", m>> : m \in {form[f].name}}
    OBVIOUS
  <2>4. form[f].status = "live" /\ Opens(q, e, also) /\ edits + 1 \in 1..MaxEdits
    <3>1. form[f].status = "live" /\ Opens(q, e, also)
      BY <1>2, <2>1, <2>2, <2>3 DEF EditForm
    <3>2. edits < MaxEdits
      BY <3>1 DEF Opens
    <3> QED BY <1>0, <3>1, <3>2, FormsAssumption
  <2>5. keeps \subseteq FieldIds /\ \A i \in keeps : i[1] <= edits
    BY <1>0 DEF FieldsOf, FieldsKnown, FormsTypeOK, FormField
  <2>6. SetToSeq(keeps) \in Seq(FieldIds) /\ IsInjective(SetToSeq(keeps)) /\ Range(SetToSeq(keeps)) \subseteq keeps
    <3>1. IsFiniteSet(FieldIds)
      <4>1. MaxEdits \in Int /\ MaxFields \in Int
        BY FormsAssumption
      <4>2. IsFiniteSet(1..MaxEdits) /\ IsFiniteSet(1..MaxFields)
        BY <4>1, FS_Interval
      <4> QED BY <4>2, FS_Product DEF FieldIds
    <3>2. IsFiniteSet(keeps)
      BY <2>5, <3>1, FS_Subset
    <3> QED BY <2>5, <3>2, ListOfSet
  <2>7. /\ [i \in 1..more |-> <<edits + 1, i>>] \in Seq(FieldIds)
        /\ IsInjective([i \in 1..more |-> <<edits + 1, i>>])
        /\ \A i \in Range([j \in 1..more |-> <<edits + 1, j>>]) : i[1] = edits + 1
    BY <2>4, NewFields
  <2>8. \A i \in keeps : i[1] \in Nat
    BY <2>5, FieldsNumbered
  <2>9. Range(SetToSeq(keeps)) \intersect Range([i \in 1..more |-> <<edits + 1, i>>]) = {}
    <3>1. \A i \in Range(SetToSeq(keeps)) : i[1] \in Nat /\ i[1] <= edits
      BY <2>5, <2>6, <2>8
    <3>2. edits \in Nat /\ ~(edits + 1 <= edits)
      BY <1>0
    <3> QED BY <2>7, <3>1, <3>2
  <2>10. /\ fields \in Seq(FieldIds) /\ IsInjective(fields)
         /\ Range(fields) = Range(SetToSeq(keeps)) \union Range([i \in 1..more |-> <<edits + 1, i>>])
    <3>1. PICK s : s = SetToSeq(keeps)
      OBVIOUS
    <3>2. PICK t : t = [i \in 1..more |-> <<edits + 1, i>>]
      OBVIOUS
    <3>3. /\ s \in Seq(FieldIds) /\ t \in Seq(FieldIds) /\ IsInjective(s) /\ IsInjective(t)
          /\ Range(s) \intersect Range(t) = {} /\ fields = s \o t
      BY <2>1, <2>6, <2>7, <2>9, <3>1, <3>2
    <3>4. fields \in Seq(FieldIds) /\ IsInjective(fields) /\ Range(fields) = Range(s) \union Range(t)
      BY <3>3, ListsTogether
    <3> QED BY <3>1, <3>2, <3>4
  <2>11. \A i \in Range(fields) : i[1] <= edits + 1
    <3>1. ASSUME NEW i \in keeps PROVE i[1] <= edits + 1
      <4>1. i[1] \in Nat /\ i[1] <= edits /\ edits \in Nat
        BY <1>0, <2>5, <2>8
      <4> QED BY <4>1
    <3>2. edits + 1 <= edits + 1
      BY <1>0
    <3>3. PICK new : new = Range([i \in 1..more |-> <<edits + 1, i>>])
      OBVIOUS
    <3>4. \A i \in new : i[1] = edits + 1
      BY <2>7, <3>3
    <3>5. Range(fields) \subseteq keeps \union new
      BY <2>6, <2>10, <3>3
    <3> QED BY <3>1, <3>2, <3>4, <3>5
  <2>12. Range(fields) \subseteq FieldIds
    BY <2>10, RangeOfSeq
  <2>13. /\ e \in Edit /\ e.at = "remove" /\ e.form = f /\ e.name = name
         /\ e.fields = fields /\ e.left = Range(fields)
    BY <2>2, <2>10, <2>12, NoEditTypes DEF Edit
  <2>14. form[f].name = name \/ <<"name", name>> \in also
    BY <2>3
  <2> QED BY <2>4, <2>10, <2>11, <2>13, <2>14, OpensKeeps
<1>3. ASSUME NEW f \in FormIds, DeleteForm(q, f) PROVE FormsInv'
  <2>1. PICK e : e = [NoEdit EXCEPT !.at = "delete", !.form = f]
    OBVIOUS
  <2>2. form[f].status = "live" /\ Opens(q, e, {})
    BY <1>3, <2>1 DEF DeleteForm
  <2>3. e \in Edit /\ e.at = "delete" /\ e.form = f /\ e.fields = <<>>
    BY <2>1, NoEditTypes DEF Edit
  <2> QED BY <2>2, <2>3, EmptyList, OpensKeeps
<1>4. ASSUME NEW f \in FormIds, NEW u \in Clients, SubmitForm(q, f, u) PROVE FormsInv'
  <2>1. PICK e : e = [NoEdit EXCEPT !.at = "read", !.form = f, !.user = u]
    OBVIOUS
  <2>2. ~Answered(f, u) /\ Opens(q, e, {})
    BY <1>4, <2>1 DEF SubmitForm
  <2>3. e \in Edit /\ e.at = "read" /\ e.form = f /\ e.user = u /\ e.fields = <<>>
    BY <2>1, NoEditTypes DEF Edit
  <2> QED BY <2>2, <2>3, EmptyList, OpensKeeps
<1> QED BY <1>1, <1>2, <1>3, <1>4 DEF OpensAny
(* A request goes on or ends: the form and the name it is about, and the     *)
(* answers it adds, remain to be shown.                                      *)
LEMMA EditGoesOn ==
  ASSUME FormsInv, NEW q \in Editors, SameOthers(q), edits' = edits, mixed \subseteq mixed',
         FormsTypeOK', FieldsKnown', EditOK(q)',
         \A f \in FormIds : form'[f].status = "none" => form[f].status = "none",
         \A f \in FormIds : AboutForm(q, f)' => AboutForm(q, f),
         \A m \in FormNames : AboutName(q, m)' => AboutName(q, m),
         \A f \in FormIds, u \in Clients : AboutAnswer(q, f, u)' => AboutAnswer(q, f, u),
         \A f \in FormIds : AboutForm(q, f) => FormOK(f)',
         \A f \in FormIds : ~AboutForm(q, f) =>
            form'[f].formFields = form[f].formFields /\ FieldsOf(f)' = FieldsOf(f),
         \A m \in FormNames : AboutName(q, m) => NameOK(m)',
         \A m \in FormNames : ~AboutName(q, m) => LiveNamed(m)' \subseteq LiveNamed(m),
         UNCHANGED response \/ \A f \in FormIds, u \in Clients : AnswerOK(f, u)'
  PROVE  FormsInv'
<1>1. \A p \in Editors : EditOK(p)'
  <2>1. ASSUME NEW p \in Editors \ {q} PROVE EditOK(p)'
    <3>1. EditOK(p) /\ edit'[p] = edit[p] /\ FormsTypeOK /\ edits \in Nat
      BY <2>1, FormsAt DEF FormsInv, SameOthers
    <3> QED BY <2>1, <3>1, SameEdit
  <2> QED BY <2>1
<1>2. Apart'
  BY ApartNext
<1>3. \A f \in FormIds : FormOK(f)'
  <2>1. ASSUME NEW f \in FormIds, ~AboutForm(q, f) PROVE FormOK(f)'
    <3>1. FormOK(f) /\ ~AboutForm(q, f)'
      BY <2>1 DEF FormsInv
    <3> QED BY <2>1, <3>1, FormUntouched
  <2> QED BY <2>1
<1>4. \A m \in FormNames : NameOK(m)'
  <2>1. ASSUME NEW m \in FormNames, ~AboutName(q, m) PROVE NameOK(m)'
    <3>1. NameOK(m) /\ ~AboutName(q, m)'
      BY <2>1 DEF FormsInv
    <3> QED BY <2>1, <3>1, NameUntouched
  <2> QED BY <2>1
<1>5. \A f \in FormIds, u \in Clients : AnswerOK(f, u)'
  <2>1. CASE UNCHANGED response
    BY <2>1, AnswersUntouched
  <2> QED BY <2>1
<1> QED BY <1>1, <1>2, <1>3, <1>4, <1>5 DEF FormsInv, FieldsKnown

(* Some fields of a form are written. *)
LEMMA FieldsWritten ==
  ASSUME NEW f, NEW S, formField' = formField \union {[id |-> i, form |-> f] : i \in S}
  PROVE  FieldsOf(f)' = FieldsOf(f) \union S /\ \A g \in FormIds \ {f} : FieldsOf(g)' = FieldsOf(g)
<1> DEFINE new == {[id |-> i, form |-> f] : i \in S}
<1>1. \A x \in new : x.form = f /\ x.id \in S
  OBVIOUS
<1>2. \A i \in S : \E x \in new : x.form = f /\ x.id = i
  <2>1. ASSUME NEW i \in S PROVE \E x \in new : x.form = f /\ x.id = i
    <3>1. PICK x : x = [id |-> i, form |-> f]
      OBVIOUS
    <3>2. x \in new /\ x.form = f /\ x.id = i
      BY <3>1
    <3> QED BY <3>2
  <2> QED BY <2>1
<1>3. formField' = formField \union new
  OBVIOUS
<1> HIDE DEF new
<1>4. FieldsOf(f)' = FieldsOf(f) \union S
  <2>1. FieldsOf(f)' \subseteq FieldsOf(f) \union S
    BY <1>1, <1>3 DEF FieldsOf
  <2>2. FieldsOf(f) \subseteq FieldsOf(f)'
    BY <1>3 DEF FieldsOf
  <2>3. S \subseteq FieldsOf(f)'
    BY <1>2, <1>3 DEF FieldsOf
  <2> QED BY <2>1, <2>2, <2>3
<1>5. ASSUME NEW g \in FormIds \ {f} PROVE FieldsOf(g)' = FieldsOf(g)
  <2>1. {x \in formField' : x.form = g} = {x \in formField : x.form = g}
    BY <1>1, <1>3
  <2> QED BY <2>1 DEF FieldsOf
<1> QED BY <1>4, <1>5

LEMMA MakesFormKeeps ==
  ASSUME FormsInv, NEW q \in Editors, MakesForm(q) PROVE FormsInv'
<1>a. PICK f0, m0 : f0 = edit[q].form /\ m0 = edit[q].name
  OBVIOUS
<1>0. /\ FormsTypeOK /\ edit[q] \in Edit /\ f0 \in FormIds /\ m0 \in FormNames /\ EditOK(q)
      /\ FieldsKnown /\ form \in [FormIds -> Form]
  BY <1>a, FormsAt
<1>1. /\ edit' \in [Editors -> Edit] /\ SameOthers(q)
      /\ edit'[q].at = "fill" /\ edit'[q].form = f0 /\ edit'[q].name = m0
      /\ edit'[q].fields = edit[q].fields /\ edit'[q].left = edit[q].left
  BY <1>a, <1>0, OntoEffect DEF MakesForm, SameOthers
<1>2. /\ edit[q].at = "make" /\ UNCHANGED <<edits, mixed, formField, response>>
      /\ form' = [form EXCEPT ![f0] = [status |-> "live", name |-> m0, formFields |-> <<>>]]
  BY <1>a DEF MakesForm, SameHistory
<1>3. /\ form' \in [FormIds -> Form] /\ form'[f0].status = "live" /\ form'[f0].name = m0
      /\ form'[f0].formFields = <<>>
      /\ \A f \in FormIds \ {f0} : form'[f] = form[f]
  <2>1. [status |-> "live", name |-> m0, formFields |-> <<>>] \in Form
    BY <1>0 DEF Form
  <2> QED BY <1>0, <1>2, <2>1
<1>4. FormsTypeOK'
  BY <1>0, <1>1, <1>2, <1>3 DEF FormsTypeOK
<1>5. FieldsKnown'
  BY <1>0, <1>2 DEF FieldsKnown
<1>6. EditOK(q)'
  BY <1>0, <1>1, <1>2, <1>3 DEF EditOK, FormRequests
<1>7. \A f \in FormIds : FieldsOf(f)' = FieldsOf(f)
  BY <1>2 DEF FieldsOf
<1>8. /\ \A f : AboutForm(q, f) <=> f = f0
      /\ \A f : AboutForm(q, f)' <=> f = f0
      /\ \A m : AboutName(q, m) <=> m = m0
      /\ \A m : ~AboutName(q, m)'
      /\ \A f, u : ~AboutAnswer(q, f, u)'
  BY <1>a, <1>1, <1>2 DEF AboutForm, AboutName, AboutAnswer, FormRequests, NameRequests
<1>9. Awaits(q) => Awaits(q)'
  BY <1>a, <1>0, <1>1, <1>2, <1>7 DEF Awaits
<1>10. FormOK(f0)'
  <2>1. mixed \subseteq mixed' /\ AboutForm(q, f0) /\ form'[f0].status # "none" /\ AboutForm(q, f0)'
    BY <1>2, <1>3, <1>8
  <2> QED BY <1>0, <1>1, <1>9, <2>1, FormTouched
<1>11. \A m \in FormNames : LiveNamed(m)' \subseteq LiveNamed(m) \union IF m = m0 THEN {f0} ELSE {}
  BY <1>3 DEF LiveNamed
<1>12. NameOK(m0)'
  <2>1. m0 \in FormNames /\ SameOthers(q) /\ mixed \subseteq mixed' /\ AboutName(q, m0)
    BY <1>0, <1>1, <1>2, <1>8
  <2>2. ASSUME LiveNamed(m0) \subseteq (IF edit[q].at = "make" THEN {} ELSE {edit[q].form})
        PROVE  \A f, g \in LiveNamed(m0)' : f = g
    <3>1. LiveNamed(m0) \subseteq {}
      BY <1>2, <2>2
    <3>2. LiveNamed(m0)' \subseteq {f0}
      BY <1>11, <2>1, <3>1
    <3> QED BY <3>2
  <2>3. ~AboutName(q, m0)'
    BY <1>8
  <2> QED BY <2>1, <2>2, <2>3, NameTouched
<1> QED BY <1>0, <1>1, <1>2, <1>3, <1>4, <1>5, <1>6, <1>7, <1>8, <1>10, <1>11, <1>12, EditGoesOn

LEMMA FillsFormKeeps ==
  ASSUME FormsInv, NEW q \in Editors, FillsForm(q) PROVE FormsInv'
<1>a. PICK f0, m0 : f0 = edit[q].form /\ m0 = edit[q].name
  OBVIOUS
<1>0. /\ FormsTypeOK /\ edit[q] \in Edit /\ f0 \in FormIds /\ EditOK(q)
      /\ Range(edit[q].fields) \subseteq FieldIds
      /\ FieldsKnown /\ form \in [FormIds -> Form] /\ formField \subseteq FormField
  BY <1>a, FormsAt DEF FormsTypeOK
<1>1. /\ edit' \in [Editors -> Edit] /\ SameOthers(q)
      /\ edit'[q].at = "list" /\ edit'[q].form = f0 /\ edit'[q].name = m0
      /\ edit'[q].fields = edit[q].fields /\ edit'[q].left = edit[q].left
  BY <1>a, <1>0, OntoEffect DEF FillsForm, SameOthers
<1>2. /\ edit[q].at = "fill" /\ UNCHANGED <<edits, mixed, form, response>>
      /\ formField' = formField \union {[id |-> i, form |-> f0] : i \in Range(edit[q].fields)}
  BY <1>a DEF FillsForm, SameHistory
<1>3. formField' \subseteq FormField
  BY <1>0, <1>2 DEF FormField
<1>4. FormsTypeOK'
  BY <1>0, <1>1, <1>2, <1>3 DEF FormsTypeOK
<1>5. FieldsKnown'
  BY <1>0, <1>2 DEF FieldsKnown, EditOK
<1>6. EditOK(q)'
  BY <1>a, <1>0, <1>1, <1>2 DEF EditOK, FormRequests
<1>7. FieldsOf(f0)' = FieldsOf(f0) \union Range(edit[q].fields) /\ \A f \in FormIds \ {f0} : FieldsOf(f)' = FieldsOf(f)
  <2>1. PICK S : S = Range(edit[q].fields)
    OBVIOUS
  <2>2. formField' = formField \union {[id |-> i, form |-> f0] : i \in S}
    BY <1>2, <2>1
  <2>3. FieldsOf(f0)' = FieldsOf(f0) \union S /\ \A f \in FormIds \ {f0} : FieldsOf(f)' = FieldsOf(f)
    BY <2>2, FieldsWritten
  <2> QED BY <2>1, <2>3
<1>8. /\ \A f : AboutForm(q, f) <=> f = f0
      /\ \A f : AboutForm(q, f)' <=> f = f0
      /\ \A m : ~AboutName(q, m) /\ ~AboutName(q, m)'
      /\ \A f, u : ~AboutAnswer(q, f, u)'
  BY <1>a, <1>1, <1>2 DEF AboutForm, AboutName, AboutAnswer, FormRequests, NameRequests
<1>9. Awaits(q) => Awaits(q)'
  BY <1>a, <1>0, <1>1, <1>2, <1>7 DEF Awaits
<1>10. FormOK(f0)'
  <2>1. form'[f0].status # "none"
    BY <1>a, <1>0, <1>2 DEF EditOK, FormRequests
  <2>2. mixed \subseteq mixed' /\ AboutForm(q, f0) /\ AboutForm(q, f0)'
    BY <1>2, <1>8
  <2> QED BY <1>0, <1>1, <1>9, <2>1, <2>2, FormTouched
<1>11. \A m \in FormNames : LiveNamed(m)' \subseteq LiveNamed(m)
  BY <1>2 DEF LiveNamed
<1> QED BY <1>0, <1>1, <1>2, <1>4, <1>5, <1>6, <1>7, <1>8, <1>10, <1>11, EditGoesOn

LEMMA RemovesFieldsKeeps ==
  ASSUME FormsInv, NEW q \in Editors, RemovesFields(q) PROVE FormsInv'
<1>a. PICK f0, m0 : f0 = edit[q].form /\ m0 = edit[q].name
  OBVIOUS
<1>0. /\ FormsTypeOK /\ edit[q] \in Edit /\ f0 \in FormIds /\ EditOK(q)
      /\ FieldsKnown /\ form \in [FormIds -> Form] /\ formField \subseteq FormField
      /\ m0 \in FormNames
  BY <1>a, FormsAt DEF FormsTypeOK
<1>1. /\ edit' \in [Editors -> Edit] /\ SameOthers(q)
      /\ edit'[q].at = "write" /\ edit'[q].form = f0 /\ edit'[q].name = m0
      /\ edit'[q].fields = edit[q].fields /\ edit'[q].left = edit[q].left
  BY <1>a, <1>0, OntoEffect DEF RemovesFields, SameOthers
<1>2. /\ edit[q].at = "remove" /\ UNCHANGED <<edits, mixed, form, response>>
      /\ formField' = {d \in formField : d.form = f0 => d.id \in Range(edit[q].fields)}
  BY <1>a DEF RemovesFields, SameHistory
<1>4. FormsTypeOK'
  BY <1>0, <1>1, <1>2 DEF FormsTypeOK
<1>5. FieldsKnown'
  BY <1>0, <1>2 DEF FieldsKnown
<1>6. EditOK(q)'
  BY <1>a, <1>0, <1>1, <1>2 DEF EditOK, FormRequests
<1>7. FieldsOf(f0)' \subseteq Range(edit[q].fields) /\ \A f \in FormIds \ {f0} : FieldsOf(f)' = FieldsOf(f)
  <2>1. ASSUME NEW f \in FormIds \ {f0} PROVE {x \in formField' : x.form = f} = {x \in formField : x.form = f}
    BY <1>2, <2>1
  <2>2. \A x \in formField' : x.form = f0 => x.id \in Range(edit[q].fields)
    BY <1>2
  <2> QED BY <2>1, <2>2 DEF FieldsOf
<1>8. /\ \A f : AboutForm(q, f) <=> f = f0
      /\ \A f : AboutForm(q, f)' <=> f = f0
      /\ \A m : AboutName(q, m) <=> m = m0
      /\ \A m : AboutName(q, m)' <=> m = m0
      /\ \A f, u : ~AboutAnswer(q, f, u)'
  BY <1>a, <1>1, <1>2 DEF AboutForm, AboutName, AboutAnswer, FormRequests, NameRequests
<1>9. Awaits(q)'
  BY <1>0, <1>1, <1>2, <1>7 DEF Awaits, EditOK
<1>10. FormOK(f0)'
  <2>1. form'[f0].status # "none"
    BY <1>a, <1>0, <1>2 DEF EditOK, FormRequests
  <2>2. mixed \subseteq mixed' /\ AboutForm(q, f0) /\ AboutForm(q, f0)'
    BY <1>2, <1>8
  <2> QED BY <1>0, <1>1, <1>9, <2>1, <2>2, FormTouched
<1>11. \A m \in FormNames : LiveNamed(m)' = LiveNamed(m)
  BY <1>2 DEF LiveNamed
<1>12. NameOK(m0)'
  BY <1>a, <1>0, <1>1, <1>2, <1>8, <1>11, NameTouched
<1> QED BY <1>0, <1>1, <1>2, <1>4, <1>5, <1>6, <1>7, <1>8, <1>10, <1>11, <1>12, EditGoesOn
LEMMA WritesFieldKeeps ==
  ASSUME FormsInv, NEW q \in Editors, WritesField(q) PROVE FormsInv'
<1>a. PICK f0, m0 : f0 = edit[q].form /\ m0 = edit[q].name
  OBVIOUS
<1>0. /\ FormsTypeOK /\ edit[q] \in Edit /\ f0 \in FormIds /\ m0 \in FormNames /\ EditOK(q)
      /\ Range(edit[q].fields) \subseteq FieldIds /\ edit[q].left \subseteq FieldIds
      /\ FieldsKnown /\ form \in [FormIds -> Form] /\ formField \subseteq FormField
  BY <1>a, FormsAt DEF FormsTypeOK
<1>1. PICK i \in edit[q].left :
        /\ formField' = formField \union {[id |-> i, form |-> f0]}
        /\ edit' = [edit EXCEPT ![q].left = @ \ {i},
                                ![q].at = IF edit[q].left = {i} THEN "relist" ELSE "write"]
  BY <1>a DEF WritesField
<1>2. edit[q].at = "write" /\ UNCHANGED <<edits, mixed, form, response>>
  BY DEF WritesField, SameHistory
<1>3. /\ edit' \in [Editors -> Edit] /\ SameOthers(q)
      /\ edit'[q].at = (IF edit[q].left = {i} THEN "relist" ELSE "write")
      /\ edit'[q].form = f0 /\ edit'[q].name = m0
      /\ edit'[q].fields = edit[q].fields /\ edit'[q].left = edit[q].left \ {i}
  <2>1. PICK new : new = [edit[q] EXCEPT !.left = @ \ {i},
                                         !.at = IF edit[q].left = {i} THEN "relist" ELSE "write"]
    OBVIOUS
  <2>2. /\ new \in Edit /\ new.at = (IF edit[q].left = {i} THEN "relist" ELSE "write")
        /\ new.form = f0 /\ new.name = m0 /\ new.fields = edit[q].fields
        /\ new.left = edit[q].left \ {i}
    BY <1>a, <1>0, <2>1 DEF Edit
  <2>3. edit' = [edit EXCEPT ![q] = new]
    BY <1>0, <1>1, <2>1 DEF Edit
  <2>4. edit' \in [Editors -> Edit] /\ edit'[q] = new /\ \A p \in Editors \ {q} : edit'[p] = edit[p]
    BY <1>0, <2>2, <2>3, OneEdit
  <2> QED BY <2>2, <2>4 DEF SameOthers
<1>4. i \in Range(edit[q].fields) /\ i \in FieldIds /\ i[1] <= edits
  BY <1>0, <1>2 DEF EditOK
<1>5. formField' \subseteq FormField
  BY <1>0, <1>1, <1>4 DEF FormField
<1>6. FormsTypeOK'
  BY <1>0, <1>2, <1>3, <1>5 DEF FormsTypeOK
<1>7. FieldsKnown'
  BY <1>0, <1>1, <1>2, <1>4 DEF FieldsKnown
<1>8. EditOK(q)'
  BY <1>a, <1>0, <1>2, <1>3 DEF EditOK, FormRequests
<1>9. FieldsOf(f0)' = FieldsOf(f0) \union {i} /\ \A f \in FormIds \ {f0} : FieldsOf(f)' = FieldsOf(f)
  <2>1. formField' = formField \union {[id |-> j, form |-> f0] : j \in {i}}
    BY <1>1
  <2> QED BY <2>1, FieldsWritten
<1>10. /\ \A f : AboutForm(q, f) <=> f = f0
       /\ \A f : AboutForm(q, f)' <=> f = f0
       /\ \A m : AboutName(q, m) <=> m = m0
       /\ \A m : AboutName(q, m)' <=> m = m0
       /\ \A f, u : ~AboutAnswer(q, f, u)'
  BY <1>a, <1>2, <1>3 DEF AboutForm, AboutName, AboutAnswer, FormRequests, NameRequests
<1>11. Awaits(q) => Awaits(q)'
  <2>1. CASE edit[q].left = {i}
    BY <1>a, <1>2, <1>3, <1>4, <1>9, <2>1 DEF Awaits
  <2>2. CASE edit[q].left # {i}
    BY <1>a, <1>2, <1>3, <1>4, <1>9, <2>2 DEF Awaits
  <2> QED BY <2>1, <2>2
<1>12. FormOK(f0)'
  <2>1. form'[f0].status # "none"
    BY <1>a, <1>0, <1>2 DEF EditOK, FormRequests
  <2>2. mixed \subseteq mixed' /\ AboutForm(q, f0) /\ AboutForm(q, f0)'
    BY <1>2, <1>10
  <2> QED BY <1>0, <1>3, <1>11, <2>1, <2>2, FormTouched
<1>13. \A m \in FormNames : LiveNamed(m)' = LiveNamed(m)
  BY <1>2 DEF LiveNamed
<1>14. NameOK(m0)'
  <2>1. /\ edit[q].at # "make" /\ edit[q].form = f0 /\ edit'[q].at # "make" /\ edit'[q].form = f0
        /\ AboutName(q, m0) /\ AboutName(q, m0)' /\ mixed \subseteq mixed'
        /\ LiveNamed(m0)' = LiveNamed(m0)
    BY <1>a, <1>0, <1>2, <1>3, <1>10, <1>13
  <2>2. LiveNamed(m0) \subseteq {f0} =>
          (\A f, g \in LiveNamed(m0)' : f = g) /\ LiveNamed(m0)' \subseteq {f0}
    BY <2>1
  <2>3. LiveNamed(m0) \subseteq (IF edit[q].at = "make" THEN {} ELSE {edit[q].form}) =>
          /\ \A f, g \in LiveNamed(m0)' : f = g
          /\ LiveNamed(m0)' \subseteq IF edit'[q].at = "make" THEN {} ELSE {edit'[q].form}
    BY <2>1, <2>2
  <2> QED BY <1>0, <1>3, <2>1, <2>3, NameTouched
<1> QED BY <1>0, <1>2, <1>3, <1>6, <1>7, <1>8, <1>9, <1>10, <1>12, <1>13, <1>14, EditGoesOn

LEMMA ListsFieldsKeeps ==
  ASSUME FormsInv, NEW q \in Editors, ListsFields(q) PROVE FormsInv'
<1>a. PICK f0, m0 : f0 = edit[q].form /\ m0 = edit[q].name
  OBVIOUS
<1>0. /\ FormsTypeOK /\ edit[q] \in Edit /\ f0 \in FormIds /\ m0 \in FormNames /\ EditOK(q)
      /\ edit[q].fields \in Seq(FieldIds) /\ FieldsKnown /\ form \in [FormIds -> Form]
  BY <1>a, FormsAt
<1>1. edit' \in [Editors -> Edit] /\ SameOthers(q) /\ edit'[q] = NoEdit
  BY <1>0, EndsEffect DEF ListsFields, SameOthers
<1>2. /\ edit[q].at \in {"list", "relist"} /\ UNCHANGED <<edits, mixed, formField, response>>
      /\ form' = [form EXCEPT ![f0].formFields = edit[q].fields,
                              ![f0].name = IF edit[q].at = "list" THEN @ ELSE m0]
  BY <1>a DEF ListsFields, SameHistory
<1>3. /\ form' \in [FormIds -> Form] /\ form'[f0].status = form[f0].status
      /\ form'[f0].formFields = edit[q].fields
      /\ form'[f0].name = (IF edit[q].at = "list" THEN form[f0].name ELSE m0)
      /\ \A f \in FormIds \ {f0} : form'[f] = form[f]
  <2>1. PICK new : new = [form[f0] EXCEPT !.formFields = edit[q].fields,
                                          !.name = IF edit[q].at = "list" THEN @ ELSE m0]
    OBVIOUS
  <2>2. /\ new \in Form /\ new.status = form[f0].status /\ new.formFields = edit[q].fields
        /\ new.name = (IF edit[q].at = "list" THEN form[f0].name ELSE m0)
    BY <1>0, <2>1 DEF Form
  <2>3. form' = [form EXCEPT ![f0] = new]
    BY <1>0, <1>2, <2>1 DEF Form
  <2> QED BY <1>0, <2>2, <2>3
<1>4. FormsTypeOK'
  BY <1>0, <1>1, <1>2, <1>3 DEF FormsTypeOK
<1>5. FieldsKnown'
  BY <1>0, <1>2 DEF FieldsKnown
<1>6. EditOK(q)'
  BY <1>1, NoEditTypes, EmptyList DEF EditOK, FormRequests
<1>7. \A f \in FormIds : FieldsOf(f)' = FieldsOf(f)
  BY <1>2 DEF FieldsOf
<1>8. /\ \A f : AboutForm(q, f) <=> f = f0
      /\ \A f : ~AboutForm(q, f)'
      /\ \A m : AboutName(q, m) <=> m = m0 /\ edit[q].at = "relist"
      /\ \A m : ~AboutName(q, m)'
      /\ \A f, u : ~AboutAnswer(q, f, u)'
  BY <1>a, <1>1, <1>2, NoEditTypes DEF AboutForm, AboutName, AboutAnswer, FormRequests, NameRequests
<1>9. Awaits(q) => Range(form'[f0].formFields) = FieldsOf(f0)' /\ IsInjective(form'[f0].formFields)
  BY <1>a, <1>0, <1>2, <1>3, <1>7 DEF Awaits, EditOK
<1>10. FormOK(f0)'
  <2>1. form'[f0].status # "none"
    BY <1>a, <1>0, <1>2, <1>3 DEF EditOK, FormRequests
  <2>2. mixed \subseteq mixed' /\ AboutForm(q, f0) /\ ~AboutForm(q, f0)'
    BY <1>2, <1>8
  <2> QED BY <1>0, <1>1, <1>9, <2>1, <2>2, FormTouched
<1>11. \A m \in FormNames :
         LiveNamed(m)' \subseteq LiveNamed(m)
                                 \union IF m = m0 /\ edit[q].at = "relist" THEN {f0} ELSE {}
  BY <1>2, <1>3 DEF LiveNamed
<1>12. edit[q].at = "relist" => NameOK(m0)'
  BY <1>a, <1>0, <1>1, <1>2, <1>8, <1>11, NameTouched
<1> QED BY <1>0, <1>1, <1>2, <1>3, <1>4, <1>5, <1>6, <1>7, <1>8, <1>10, <1>11, <1>12, EditGoesOn

LEMMA DeletesFormKeeps ==
  ASSUME FormsInv, NEW q \in Editors, DeletesForm(q) PROVE FormsInv'
<1>a. PICK f0 : f0 = edit[q].form
  OBVIOUS
<1>0. /\ FormsTypeOK /\ edit[q] \in Edit /\ f0 \in FormIds /\ EditOK(q)
      /\ FieldsKnown /\ form \in [FormIds -> Form]
  BY <1>a, FormsAt
<1>1. edit' \in [Editors -> Edit] /\ SameOthers(q) /\ edit'[q] = NoEdit
  BY <1>0, EndsEffect DEF DeletesForm, SameOthers
<1>2. /\ edit[q].at = "delete" /\ UNCHANGED <<edits, mixed, formField, response>>
      /\ form' = [form EXCEPT ![f0].status = "deleted"]
  BY <1>a DEF DeletesForm, SameHistory
<1>3. /\ form' \in [FormIds -> Form] /\ form'[f0].status = "deleted"
      /\ form'[f0].formFields = form[f0].formFields
      /\ \A f \in FormIds \ {f0} : form'[f] = form[f]
  <2>1. PICK new : new = [form[f0] EXCEPT !.status = "deleted"]
    OBVIOUS
  <2>2. new \in Form /\ new.status = "deleted" /\ new.formFields = form[f0].formFields
    BY <1>0, <2>1 DEF Form
  <2>3. form' = [form EXCEPT ![f0] = new]
    BY <1>0, <1>2, <2>1 DEF Form
  <2> QED BY <1>0, <2>2, <2>3
<1>4. FormsTypeOK'
  BY <1>0, <1>1, <1>2, <1>3 DEF FormsTypeOK
<1>5. FieldsKnown'
  BY <1>0, <1>2 DEF FieldsKnown
<1>6. EditOK(q)'
  BY <1>1, NoEditTypes, EmptyList DEF EditOK, FormRequests
<1>7. \A f \in FormIds : FieldsOf(f)' = FieldsOf(f)
  BY <1>2 DEF FieldsOf
<1>8. /\ \A f : ~AboutForm(q, f) /\ ~AboutForm(q, f)'
      /\ \A m : ~AboutName(q, m) /\ ~AboutName(q, m)'
      /\ \A f, u : ~AboutAnswer(q, f, u)'
  BY <1>1, <1>2, NoEditTypes DEF AboutForm, AboutName, AboutAnswer, FormRequests, NameRequests
<1>9. \A m \in FormNames : LiveNamed(m)' \subseteq LiveNamed(m)
  BY <1>3 DEF LiveNamed
<1>10. \A f \in FormIds : form'[f].status # "none" \/ form'[f] = form[f]
  BY <1>3
<1>11. \A f \in FormIds : form'[f].formFields = form[f].formFields
  BY <1>3
<1> QED BY <1>0, <1>1, <1>2, <1>4, <1>5, <1>6, <1>7, <1>8, <1>9, <1>10, <1>11, EditGoesOn
LEMMA ReadsFormKeeps ==
  ASSUME FormsInv, NEW q \in Editors, ReadsForm(q) PROVE FormsInv'
<1>0. /\ FormsTypeOK /\ edit[q] \in Edit /\ EditOK(q) /\ FieldsKnown /\ formField \subseteq FormField
  BY FormsAt DEF FormsTypeOK
<1>1. /\ edit[q].at = "read" /\ UNCHANGED <<edits, mixed, form, formField, response>>
  BY DEF ReadsForm, SameHistory
<1>2. /\ edit' \in [Editors -> Edit] /\ SameOthers(q)
      /\ edit'[q].at = "answer" /\ edit'[q].form = edit[q].form /\ edit'[q].user = edit[q].user
      /\ edit'[q].fields = edit[q].fields
  <2>1. PICK left : left = Range(form[edit[q].form].formFields) \intersect FieldsOf(edit[q].form)
    OBVIOUS
  <2>2. left \subseteq FieldIds
    BY <1>0, <2>1 DEF FieldsOf, FormField
  <2>3. PICK new : new = [edit[q] EXCEPT !.at = "answer", !.left = left]
    OBVIOUS
  <2>4. /\ new \in Edit /\ new.at = "answer" /\ new.form = edit[q].form /\ new.user = edit[q].user
        /\ new.fields = edit[q].fields
    BY <1>0, <2>2, <2>3 DEF Edit
  <2>5. edit' = [edit EXCEPT ![q] = new]
    BY <1>0, <2>1, <2>3 DEF ReadsForm, Edit
  <2>6. edit' \in [Editors -> Edit] /\ edit'[q] = new /\ \A p \in Editors \ {q} : edit'[p] = edit[p]
    BY <1>0, <2>4, <2>5, OneEdit
  <2> QED BY <2>4, <2>6 DEF SameOthers
<1>3. FormsTypeOK'
  BY <1>0, <1>1, <1>2 DEF FormsTypeOK
<1>4. FieldsKnown'
  BY <1>0, <1>1 DEF FieldsKnown
<1>5. EditOK(q)'
  BY <1>0, <1>1, <1>2 DEF EditOK, FormRequests
<1>6. /\ \A f : ~AboutForm(q, f) /\ ~AboutForm(q, f)'
      /\ \A m : ~AboutName(q, m) /\ ~AboutName(q, m)'
      /\ \A f, u : AboutAnswer(q, f, u)' <=> AboutAnswer(q, f, u)
  BY <1>1, <1>2 DEF AboutForm, AboutName, AboutAnswer, FormRequests, NameRequests
<1>7. /\ \A m \in FormNames : LiveNamed(m)' = LiveNamed(m)
      /\ \A f \in FormIds : FieldsOf(f)' = FieldsOf(f)
  BY <1>1 DEF LiveNamed, FieldsOf
<1> QED BY <1>0, <1>1, <1>2, <1>3, <1>4, <1>5, <1>6, <1>7, EditGoesOn

LEMMA StoresAnswerKeeps ==
  ASSUME FormsInv, NEW q \in Editors, StoresAnswer(q) PROVE FormsInv'
<1>a. PICK f0, u0 : f0 = edit[q].form /\ u0 = edit[q].user
  OBVIOUS
<1>0. /\ FormsTypeOK /\ edit[q] \in Edit /\ EditOK(q) /\ FieldsKnown /\ response \in Seq(Response)
      /\ f0 \in FormIds /\ u0 \in Clients /\ edit[q].left \subseteq FieldIds
  BY <1>a, FormsAt DEF FormsTypeOK
<1>1. edit[q].at = "answer" /\ UNCHANGED <<edits, mixed, form, formField>>
  BY DEF StoresAnswer, SameHistory
<1>2. edit' \in [Editors -> Edit] /\ SameOthers(q) /\ edit'[q] = NoEdit
  BY <1>0, EndsEffect DEF StoresAnswer, SameOthers
<1>3. PICK new : new = [form |-> f0, user |-> u0, answers |-> edit[q].left]
  OBVIOUS
<1>4. new \in Response /\ new.form = f0 /\ new.user = u0 /\ response' = Append(response, new)
  BY <1>a, <1>0, <1>3 DEF StoresAnswer, Response
<1>5. response' \in Seq(Response)
  BY <1>0, <1>4
<1>6. FormsTypeOK'
  BY <1>0, <1>1, <1>2, <1>5 DEF FormsTypeOK
<1>7. FieldsKnown'
  BY <1>0, <1>1 DEF FieldsKnown
<1>8. EditOK(q)'
  BY <1>2, NoEditTypes, EmptyList DEF EditOK, FormRequests
<1>9. /\ \A f : ~AboutForm(q, f) /\ ~AboutForm(q, f)'
      /\ \A m : ~AboutName(q, m) /\ ~AboutName(q, m)'
      /\ \A f, u : AboutAnswer(q, f, u) <=> f = f0 /\ u = u0
      /\ \A f, u : ~AboutAnswer(q, f, u)'
  BY <1>a, <1>1, <1>2, NoEditTypes DEF AboutForm, AboutName, AboutAnswer, FormRequests, NameRequests
<1>10. /\ \A m \in FormNames : LiveNamed(m)' = LiveNamed(m)
       /\ \A f \in FormIds : FieldsOf(f)' = FieldsOf(f)
  BY <1>1 DEF LiveNamed, FieldsOf
<1>11. /\ DOMAIN response' = DOMAIN response \union {Len(response) + 1}
       /\ response'[Len(response) + 1] = new /\ Len(response) + 1 \notin DOMAIN response
       /\ \A i \in DOMAIN response : response'[i] = response[i]
  BY <1>0, <1>4
<1>12. ASSUME NEW f \in FormIds, NEW u \in Clients PROVE AnswerOK(f, u)'
  <2>1. AnswerOK(f, u)
    BY DEF FormsInv
  <2>2. CASE f = f0 /\ u = u0
    <3>1. <<"answer", f, u>> \notin mixed' => ~Answered(f, u)
      BY <1>1, <1>9, <2>1, <2>2 DEF AnswerOK
    <3>2. ASSUME NEW p \in Editors, AboutAnswer(p, f, u)' PROVE <<"answer", f, u>> \in mixed'
      <4>1. p # q /\ AboutAnswer(p, f, u)
        BY <1>2, <1>9, <3>2 DEF SameOthers, AboutAnswer
      <4> QED BY <1>1, <1>9, <2>2, <4>1 DEF FormsInv, Apart
    <3>3. ~Answered(f, u) =>
            \A i, j \in DOMAIN response' :
               response'[i].form = f /\ response'[i].user = u
               /\ response'[j].form = f /\ response'[j].user = u => i = j
      BY <1>11 DEF Answered
    <3> QED BY <3>1, <3>2, <3>3 DEF AnswerOK
  <2>3. CASE ~(f = f0 /\ u = u0)
    <3>1. Answered(f, u)' <=> Answered(f, u)
      BY <1>4, <1>11, <2>3 DEF Answered
    <3>2. ASSUME NEW p \in Editors, AboutAnswer(p, f, u)' PROVE AboutAnswer(p, f, u)
      BY <1>2, <1>9, <3>2 DEF SameOthers, AboutAnswer
    <3>3. \A i \in DOMAIN response' : response'[i].form = f /\ response'[i].user = u =>
            i \in DOMAIN response /\ response[i] = response'[i]
      BY <1>4, <1>11, <2>3
    <3> QED BY <1>1, <2>1, <3>1, <3>2, <3>3 DEF AnswerOK
  <2> QED BY <2>2, <2>3
<1> QED BY <1>0, <1>1, <1>2, <1>6, <1>7, <1>8, <1>9, <1>10, <1>12, EditGoesOn

LEMMA EditFailsKeeps ==
  ASSUME FormsInv, NEW q \in Editors, EditFails(q) PROVE FormsInv'
<1>0. FormsTypeOK /\ edit[q] \in Edit /\ EditOK(q) /\ FieldsKnown
  BY FormsAt
<1>1. /\ mixed' = mixed \union SubjectsOf(edit[q])
      /\ UNCHANGED <<edits, form, formField, response>>
  BY DEF EditFails
<1>2. edit' \in [Editors -> Edit] /\ SameOthers(q) /\ edit'[q] = NoEdit
  BY <1>0, EndsEffect DEF EditFails, SameOthers
<1>3. FormsTypeOK'
  BY <1>0, <1>1, <1>2 DEF FormsTypeOK
<1>4. FieldsKnown'
  BY <1>0, <1>1 DEF FieldsKnown
<1>5. EditOK(q)'
  BY <1>2, NoEditTypes, EmptyList DEF EditOK, FormRequests
<1>6. /\ \A f : ~AboutForm(q, f)'
      /\ \A m : ~AboutName(q, m)'
      /\ \A f, u : ~AboutAnswer(q, f, u)'
  BY <1>2, NoEditTypes DEF AboutForm, AboutName, AboutAnswer, FormRequests, NameRequests
<1>7. /\ \A f \in FormIds : AboutForm(q, f) => <<"form", f>> \in mixed'
      /\ \A m \in FormNames : AboutName(q, m) => <<"name", m>> \in mixed'
  BY <1>0, <1>1, SubjectFacts DEF AboutForm, AboutName
<1>8. /\ \A m \in FormNames : LiveNamed(m)' = LiveNamed(m)
      /\ \A f \in FormIds : FieldsOf(f)' = FieldsOf(f)
  BY <1>1 DEF LiveNamed, FieldsOf
<1>9. ASSUME NEW f \in FormIds, AboutForm(q, f) PROVE FormOK(f)'
  BY <1>1, <1>7, <1>8, <1>9 DEF FormOK, FormsInv
<1>10. ASSUME NEW m \in FormNames, AboutName(q, m) PROVE NameOK(m)'
  BY <1>7, <1>10 DEF NameOK
<1> QED BY <1>0, <1>1, <1>2, <1>3, <1>4, <1>5, <1>6, <1>8, <1>9, <1>10, EditGoesOn

-----------------------------------------------------------------------------
LEMMA FormsBegin == FormsInit => FormsInv
<1> SUFFICES ASSUME FormsInit PROVE FormsInv
  OBVIOUS
<1>1. /\ form = [f \in FormIds |-> [status |-> "none", name |-> NoEdit.name, formFields |-> <<>>]]
      /\ formField = {} /\ response = <<>> /\ mixed = {}
      /\ edit = [e \in Editors |-> NoEdit] /\ edits = 0
  BY DEF FormsInit
<1>2. NoEdit.name \in FormNames
  BY NoEditTypes DEF Edit
<1>3. \A q \in Editors : edit[q] = NoEdit /\ edit[q].at = "idle"
  BY <1>1, NoEditTypes
<1>4. \A f \in FormIds : form[f].status = "none" /\ form[f].formFields = <<>> /\ FieldsOf(f) = {}
  BY <1>1 DEF FieldsOf
<1>5. FormsTypeOK
  <2>1. form \in [FormIds -> Form]
    BY <1>1, <1>2 DEF Form
  <2>2. edits \in 0..MaxEdits
    BY <1>1, FormsAssumption
  <2> QED BY <1>1, <2>1, <2>2, NoEditTypes DEF FormsTypeOK
<1>6. \A q \in Editors : EditOK(q)
  BY <1>3, NoEditTypes, EmptyList DEF EditOK, FormRequests
<1>7. \A q \in Editors : /\ \A f : ~AboutForm(q, f)
                         /\ \A m : ~AboutName(q, m)
                         /\ \A f, u : ~AboutAnswer(q, f, u)
  BY <1>3 DEF AboutForm, AboutName, AboutAnswer, FormRequests, NameRequests
<1>8. \A f \in FormIds : FormOK(f)
  BY <1>4, <1>7, EmptyList DEF FormOK
<1>9. \A m \in FormNames : NameOK(m)
  BY <1>4, <1>7 DEF NameOK, LiveNamed
<1>10. \A f \in FormIds, u \in Clients : AnswerOK(f, u)
  BY <1>1, <1>7 DEF AnswerOK
<1> QED BY <1>1, <1>5, <1>6, <1>7, <1>8, <1>9, <1>10 DEF FormsInv, Apart

LEMMA FormsStay == FormsInv /\ UNCHANGED formsVars => FormsInv'
<1> SUFFICES ASSUME FormsInv, UNCHANGED formsVars PROVE FormsInv'
  OBVIOUS
<1>1. UNCHANGED <<form, formField, response, edit, edits, mixed>>
  BY DEF formsVars
<1>2. FormsTypeOK' /\ (\A d \in formField' : d.id[1] <= edits') /\ \A q \in Editors : EditOK(q)'
  BY <1>1 DEF FormsInv, FormsTypeOK, EditOK
<1>3. /\ \A q \in Editors : /\ \A f \in FormIds : AboutForm(q, f)' <=> AboutForm(q, f)
                            /\ \A m \in FormNames : AboutName(q, m)' <=> AboutName(q, m)
                            /\ \A f \in FormIds, u \in Clients : AboutAnswer(q, f, u)' <=> AboutAnswer(q, f, u)
  BY <1>1 DEF AboutForm, AboutName, AboutAnswer
<1>4. Apart'
  BY <1>1, <1>3 DEF FormsInv, Apart
<1>5. \A f \in FormIds : FormOK(f)'
  <2>1. \A f : FieldsOf(f)' = FieldsOf(f)
    BY <1>1 DEF FieldsOf
  <2>2. \A q \in Editors : Awaits(q) => Awaits(q)'
    BY <1>1, <2>1 DEF Awaits
  <2> QED BY <1>1, <1>3, <2>1, <2>2 DEF FormsInv, FormOK
<1>6. \A m \in FormNames : NameOK(m)'
  BY <1>1, <1>3 DEF FormsInv, NameOK, LiveNamed
<1>7. \A f \in FormIds, u \in Clients : AnswerOK(f, u)'
  BY <1>1, <1>3 DEF FormsInv, AnswerOK, Answered
<1> QED BY <1>2, <1>4, <1>5, <1>6, <1>7 DEF FormsInv

LEMMA FormsKeep == FormsInv /\ [FormsNext]_formsVars => FormsInv'
<1> SUFFICES ASSUME FormsInv, [FormsNext]_formsVars PROVE FormsInv'
  OBVIOUS
<1>1. ASSUME NEW q \in Editors, GoesThrough(q) PROVE FormsInv'
  BY <1>1, MakesFormKeeps, FillsFormKeeps, RemovesFieldsKeeps, WritesFieldKeeps, ListsFieldsKeeps,
     DeletesFormKeeps, ReadsFormKeeps, StoresAnswerKeeps, EditFailsKeeps DEF GoesThrough
<1>2. ASSUME UNCHANGED formsVars PROVE FormsInv'
  BY <1>2, FormsStay
<1> QED BY <1>1, <1>2, BeginningKeeps DEF FormsNext

(* What the specification says of requests in progress, in its own words.    *)
LEMMA FormsListed == FormsInv => FormsListTheirFields
<1> SUFFICES ASSUME FormsInv, NEW f \in FormIds, Clear(<<"form", f>>)
             PROVE  Range(form[f].formFields) = FieldsOf(f) /\ IsInjective(form[f].formFields)
  BY DEF FormsListTheirFields
<1>1. \A q \in Editors : ~AboutForm(q, f)
  BY FormsAt, SubjectFacts DEF Clear, OnHand, AboutForm
<1> QED BY <1>1 DEF FormsInv, FormOK, Clear

LEMMA FormTwins == FormsInv => FormTwinsOverlapped
<1> SUFFICES ASSUME FormsInv PROVE FormTwinsOverlapped
  OBVIOUS
<1>1. ASSUME NEW i \in DOMAIN response, NEW j \in DOMAIN response,
             response[i].form = response[j].form, response[i].user = response[j].user,
             Clear(<<"answer", response[i].form, response[i].user>>)
      PROVE  i = j
  <2>1. response[i].form \in FormIds /\ response[i].user \in Clients
    <3>1. response \in Seq(Response)
      BY DEF FormsInv, FormsTypeOK
    <3>2. response[i] \in Response
      BY <3>1
    <3> QED BY <3>2 DEF Response
  <2>2. AnswerOK(response[i].form, response[i].user)
    BY <2>1 DEF FormsInv
  <2> QED BY <1>1, <2>2 DEF AnswerOK, Clear
<1>2. ASSUME NEW name \in FormNames, Clear(<<"name", name>>), NEW f \in LiveNamed(name),
             NEW g \in LiveNamed(name)
      PROVE  f = g
  BY <1>2 DEF FormsInv, NameOK, Clear
<1> QED BY <1>1, <1>2 DEF FormTwinsOverlapped

(* The types of the forms. *)
THEOREM FormsTypes == FormsSpec => []FormsTypeOK
<1>1. FormsInv => FormsTypeOK
  BY DEF FormsInv
<1> QED BY <1>1, FormsBegin, FormsKeep, PTL DEF FormsSpec

(* A form lists exactly the fields that name it, each once, while no request *)
(* about it is under way, unless two of them overlapped or one was not ended *)
(* (createOrEditForm).                                                       *)
THEOREM FormsListTheirs == FormsSpec => []FormsListTheirFields
<1> QED BY FormsBegin, FormsKeep, FormsListed, PTL DEF FormsSpec

(* Two answers of a client to a form, and two forms of one name, come only   *)
(* of requests that overlapped or of a form that was renamed (submitForm,    *)
(* createOrEditForm).                                                        *)
THEOREM FormTwinsOverlap == FormsSpec => []FormTwinsOverlapped
<1> QED BY FormsBegin, FormsKeep, FormTwins, PTL DEF FormsSpec
-----------------------------------------------------------------------------
(* The desk.                                                                 *)

(* The tags that every space begins with stay where they are. *)
FirstTags ==
  /\ Len(board.tags) >= 2
  /\ board.tags[1] = ReadonlyTag("pending") /\ board.tags[2] = ReadonlyTag("completed")

(* A request names a tag of the space, and changes none of the first two. *)
TaskOK(d) ==
  /\ task[d].at \in {"editTag", "dropTag", "clearTag"} => task[d].i \in 3..Len(board.tags)
  /\ task[d].at = "giveTag" => task[d].i \in 1..Len(board.tags)
  /\ task[d].at \in {"pushTag", "editTag"} => task[d].tag.name \in TagNames
  /\ task[d].at = "pushTag" => ~task[d].tag.isDeleted

TasksApart ==
  \A p, q \in Agents : p # q => AboutOf(task[p]) \intersect AboutOf(task[q]) \subseteq stray

(* A script, a tag, a client and a name that no two requests overlapped on.  *)
ScriptOK(s) ==
  <<"script", s>> \notin stray =>
    /\ currentScript = s => script[s] = "live"
    /\ \A d \in Agents : s \in task[d].scripts =>
         /\ task[d].at = "choose" => script[s] = "live"
         /\ task[d].at = "dropScripts" => currentScript # s

TagOK(i) ==
  <<"tag", i>> \notin stray /\ board.tags[i].isDeleted =>
    /\ (\A d \in Agents : task[d].at = "clearTag" => task[d].i # i) => \A c \in Chats : tagOf[c] # i
    /\ \A d \in Agents : task[d].at = "giveTag" => task[d].i # i

RatingOK(u) ==
  <<"rating", u>> \notin stray =>
    /\ \A i, j \in DOMAIN ratings.by : ratings.by[i] = u /\ ratings.by[j] = u => i = j
    /\ \A d \in Agents : task[d].at = "pushRating" /\ task[d].rater = u => u \notin Range(ratings.by)

TagNameOK(name) ==
  <<"name", name>> \notin stray =>
    /\ \A i, j \in NamedLive(name) : i = j
    /\ \A d \in Agents : task[d].tag.name = name =>
         /\ task[d].at = "pushTag" => NamedLive(name) = {}
         /\ task[d].at = "editTag" => NamedLive(name) \subseteq {task[d].i}

DeskInv ==
  /\ DeskTypeOK /\ FirstTags /\ TasksApart
  /\ \A d \in Agents : TaskOK(d)
  /\ \A s \in Scripts : ScriptOK(s)
  /\ \A i \in DOMAIN board.tags : TagOK(i)
  /\ \A u \in Raters : RatingOK(u)
  /\ \A name \in TagNames : TagNameOK(name)

LEMMA AboutFacts ==
  ASSUME NEW t \in Task
  PROVE  /\ \A s : <<"script", s>> \in AboutOf(t) <=> t.at \in {"choose", "dropScripts"} /\ s \in t.scripts
         /\ \A m : <<"name", m>> \in AboutOf(t) <=> t.at \in {"pushTag", "editTag"} /\ t.tag.name = m
         /\ \A i : <<"tag", i>> \in AboutOf(t) <=>
              t.at \in {"editTag", "dropTag", "clearTag", "giveTag"} /\ t.i = i
         /\ \A u : <<"rating", u>> \in AboutOf(t) <=>
              t.at \in {"pushRating", "editRating"} /\ t.rater = u
<1>0. t.at \in {"idle", "makeScript", "choose", "dropScripts", "pushTag", "editTag", "dropTag",
                "clearTag", "giveTag", "pushRating", "editRating"}
  BY DEF Task
<1>1. CASE t.at \in {"choose", "dropScripts"}
  BY <1>1 DEF AboutOf
<1>2. CASE t.at = "pushTag"
  BY <1>2 DEF AboutOf
<1>3. CASE t.at = "editTag"
  BY <1>3 DEF AboutOf
<1>4. CASE t.at \in {"dropTag", "clearTag", "giveTag"}
  BY <1>4 DEF AboutOf
<1>5. CASE t.at \in {"pushRating", "editRating"}
  BY <1>5 DEF AboutOf
<1>6. CASE t.at \in {"idle", "makeScript"}
  BY <1>6 DEF AboutOf
<1> QED BY <1>0, <1>1, <1>2, <1>3, <1>4, <1>5, <1>6

LEMMA NoTaskTypes == NoTask \in Task /\ NoTask.at = "idle" /\ AboutOf(NoTask) = {}
<1>1. (CHOOSE c \in Chats : TRUE) \in Chats /\ (CHOOSE r \in Raters : TRUE) \in Raters
  BY DeskAssumption
<1>2. ReadonlyTag("pending") \in Tag
  BY DEF ReadonlyTag, Tag
<1> QED BY <1>1, <1>2 DEF NoTask, Task, AboutOf

LEMMA DeskAt ==
  ASSUME DeskInv, NEW d \in Agents
  PROVE  /\ DeskTypeOK /\ task[d] \in Task /\ TaskOK(d) /\ tasks \in Nat
         /\ task[d].scripts \in SUBSET Scripts /\ task[d].chat \in Chats /\ task[d].tag \in Tag
         /\ task[d].i \in Nat /\ task[d].rater \in Raters
         /\ board.tags \in Seq(Tag) /\ board.v \in Nat /\ ratings.by \in Seq(Raters) /\ ratings.v \in Nat
         /\ DOMAIN board.tags = 1..Len(board.tags) /\ Len(board.tags) \in Nat
<1>1. DeskTypeOK /\ task[d] \in Task /\ TaskOK(d) /\ tasks \in Nat
  BY DeskAssumption DEF DeskInv, DeskTypeOK
<1>2. /\ task[d].scripts \in SUBSET Scripts /\ task[d].chat \in Chats /\ task[d].tag \in Tag
      /\ task[d].i \in Nat /\ task[d].rater \in Raters
  BY <1>1 DEF Task
<1>3. /\ board.tags \in Seq(Tag) /\ board.v \in Nat /\ ratings.by \in Seq(Raters) /\ ratings.v \in Nat
  BY <1>1 DEF DeskTypeOK
<1>4. DOMAIN board.tags = 1..Len(board.tags) /\ Len(board.tags) \in Nat
  BY <1>3
<1> QED BY <1>1, <1>2, <1>3, <1>4

OtherTasks(d) == \A e \in Agents \ {d} : task'[e] = task[e]

LEMMA OneTask ==
  ASSUME DeskTypeOK, NEW d \in Agents, NEW new \in Task, task' = [task EXCEPT ![d] = new]
  PROVE  task' \in [Agents -> Task] /\ task'[d] = new /\ OtherTasks(d)
  BY DEF DeskTypeOK, OtherTasks

LEMMA TakesEffect ==
  ASSUME DeskInv, NEW d \in Agents, NEW t \in Task, NEW odd, Takes(d, t, odd)
  PROVE  /\ task' \in [Agents -> Task] /\ task'[d] = t /\ OtherTasks(d) /\ task[d] = NoTask
         /\ tasks' \in 0..MaxTasks /\ stray \subseteq stray' /\ odd \subseteq stray'
         /\ \A e \in Agents : AboutOf(t) \intersect AboutOf(task[e]) \subseteq stray'
         /\ UNCHANGED <<script, currentScript, board, tagOf, ratings>>
<1>1. DeskTypeOK /\ tasks \in Nat /\ tasks < MaxTasks /\ tasks' = tasks + 1
  BY DeskAt DEF Takes
<1>2. task' \in [Agents -> Task] /\ task'[d] = t /\ OtherTasks(d)
  BY <1>1, OneTask DEF Takes
<1>3. tasks' \in 0..MaxTasks
  BY <1>1, DeskAssumption
<1> QED BY <1>2, <1>3 DEF Takes, Busy

(* Requests stay apart when one of them is about no more than it was, or     *)
(* what it comes to be about is noted.                                       *)
LEMMA TasksApartNext ==
  ASSUME DeskInv, NEW d \in Agents, OtherTasks(d), stray \subseteq stray',
         \/ AboutOf(task'[d]) \subseteq AboutOf(task[d])
         \/ \A e \in Agents : AboutOf(task'[d]) \intersect AboutOf(task[e]) \subseteq stray'
  PROVE  TasksApart'
<1> SUFFICES ASSUME NEW p \in Agents, NEW q \in Agents, p # q
             PROVE  AboutOf(task'[p]) \intersect AboutOf(task'[q]) \subseteq stray'
  BY DEF TasksApart
<1>1. \A e \in Agents \ {d} : AboutOf(task'[e]) = AboutOf(task[e])
  BY DEF OtherTasks
<1>2. AboutOf(task[p]) \intersect AboutOf(task[q]) \subseteq stray
  BY DEF DeskInv, TasksApart
<1>3. CASE p = d
  BY <1>1, <1>2, <1>3
<1>4. CASE q = d
  BY <1>1, <1>2, <1>4
<1> QED BY <1>1, <1>2, <1>3, <1>4

(* A request begins. *)
LEMMA TakesKeeps ==
  ASSUME DeskInv, NEW d \in Agents, NEW t \in Task, NEW odd, Takes(d, t, odd),
         t.at \notin {"idle", "clearTag"},
         t.at \in {"editTag", "dropTag"} => t.i \in 3..Len(board.tags),
         t.at = "giveTag" => t.i \in 1..Len(board.tags),
         t.at \in {"pushTag", "editTag"} => t.tag.name \in TagNames,
         t.at = "pushTag" => ~t.tag.isDeleted /\ NamedLive(t.tag.name) = {},
         t.at = "choose" => \A s \in t.scripts : script[s] = "live" \/ <<"script", s>> \in odd,
         t.at = "dropScripts" => currentScript \notin t.scripts,
         t.at = "giveTag" => ~board.tags[t.i].isDeleted \/ <<"tag", t.i>> \in odd,
         t.at = "pushRating" => t.rater \notin Range(ratings.by),
         t.at = "editTag" => NamedLive(t.tag.name) \subseteq {t.i} \/ <<"name", t.tag.name>> \in odd
  PROVE  DeskInv'
<1>1. /\ task' \in [Agents -> Task] /\ task'[d] = t /\ OtherTasks(d) /\ task[d].at = "idle"
      /\ tasks' \in 0..MaxTasks /\ stray \subseteq stray' /\ odd \subseteq stray'
      /\ \A e \in Agents : AboutOf(t) \intersect AboutOf(task[e]) \subseteq stray'
      /\ UNCHANGED <<script, currentScript, board, tagOf, ratings>>
  BY TakesEffect, NoTaskTypes
<1>2. \A e \in Agents : e = d \/ task'[e] = task[e]
  BY <1>1 DEF OtherTasks
<1>3. DeskTypeOK' /\ FirstTags'
  BY <1>1 DEF DeskInv, DeskTypeOK, FirstTags
<1>4. TasksApart'
  BY <1>1, TasksApartNext
<1>5. \A e \in Agents : TaskOK(e)'
  BY <1>1, <1>2 DEF DeskInv, TaskOK
<1>6. \A s \in Scripts : ScriptOK(s)'
  BY <1>1, <1>2 DEF DeskInv, ScriptOK
<1>7. \A i \in DOMAIN board.tags : TagOK(i)'
  BY <1>1, <1>2 DEF DeskInv, TagOK
<1>8. \A u \in Raters : RatingOK(u)'
  BY <1>1, <1>2 DEF DeskInv, RatingOK
<1>9. \A m \in TagNames : TagNameOK(m)'
  <2>1. \A m : NamedLive(m)' = NamedLive(m)
    BY <1>1 DEF NamedLive
  <2> QED BY <1>1, <1>2, <2>1 DEF DeskInv, TagNameOK
<1> QED BY <1>1, <1>3, <1>4, <1>5, <1>6, <1>7, <1>8, <1>9 DEF DeskInv
LEMMA EditableTags ==
  ASSUME DeskInv, NEW i \in DOMAIN board.tags, ~board.tags[i].isReadonly
  PROVE  i \in 3..Len(board.tags)
<1>1. board.tags \in Seq(Tag)
  BY DEF DeskInv, DeskTypeOK
<1>2. i \in 1..Len(board.tags) /\ Len(board.tags) \in Nat
  BY <1>1
<1>3. board.tags[1].isReadonly /\ board.tags[2].isReadonly
  BY DEF DeskInv, FirstTags, ReadonlyTag
<1>4. i # 1 /\ i # 2
  BY <1>3
<1> QED BY <1>2, <1>4

LEMMA DeskBeginningKeeps ==
  ASSUME DeskInv, NEW d \in Agents, Begins(d) PROVE DeskInv'
<1>0. /\ DeskTypeOK /\ NoTask \in Task /\ NoTask.tag \in Tag /\ FirstTags
      /\ board.tags \in Seq(Tag) /\ board.v \in Nat /\ ratings.by \in Seq(Raters) /\ ratings.v \in Nat
      /\ DOMAIN board.tags = 1..Len(board.tags) /\ Len(board.tags) \in Nat
  BY DeskAt, NoTaskTypes DEF Task, DeskInv
<1>1. ASSUME NEW s \in Scripts, CreateScript(d, s) PROVE DeskInv'
  <2>1. PICK t : t = [NoTask EXCEPT !.at = "makeScript", !.scripts = {s}]
    OBVIOUS
  <2>2. t \in Task /\ t.at = "makeScript" /\ Takes(d, t, {})
    BY <1>0, <1>1, <2>1 DEF CreateScript, Task
  <2> QED BY <2>2, TakesKeeps
<1>2. ASSUME NEW ss \in SUBSET Scripts, ChooseScript(d, ss) PROVE DeskInv'
  <2>1. PICK t : t = [NoTask EXCEPT !.at = "choose", !.scripts = ss]
    OBVIOUS
  <2>2. PICK odd : odd = {<<"script", s>> : s \in {x \in ss : script[x] # "live"}}
    OBVIOUS
  <2>3. t \in Task /\ t.at = "choose" /\ t.scripts = ss /\ Takes(d, t, odd)
    BY <1>0, <1>2, <2>1, <2>2 DEF ChooseScript, Task
  <2>4. \A s \in ss : script[s] = "live" \/ <<"script", s>> \in odd
    BY <2>2
  <2> QED BY <2>3, <2>4, TakesKeeps
<1>3. ASSUME NEW ss \in SUBSET Scripts, RemoveScripts(d, ss) PROVE DeskInv'
  <2>1. PICK t : t = [NoTask EXCEPT !.at = "dropScripts", !.scripts = ss]
    OBVIOUS
  <2>2. t \in Task /\ t.at = "dropScripts" /\ t.scripts = ss /\ Takes(d, t, {}) /\ currentScript \notin ss
    BY <1>0, <1>3, <2>1 DEF RemoveScripts, Task
  <2> QED BY <2>2, TakesKeeps
<1>4. ASSUME NEW name \in TagNames, CreateTag(d, name) PROVE DeskInv'
  <2>1. PICK tag : tag = [name |-> name, isDeleted |-> FALSE, isReadonly |-> FALSE]
    OBVIOUS
  <2>2. tag \in Tag /\ tag.name = name /\ tag.isDeleted = FALSE
    BY <2>1 DEF Tag
  <2>3. PICK t : t = [NoTask EXCEPT !.at = "pushTag", !.tag = tag]
    OBVIOUS
  <2>4. t \in Task /\ t.at = "pushTag" /\ t.tag = tag
    BY <1>0, <2>2, <2>3 DEF Task
  <2>5. Takes(d, t, {}) /\ NamedLive(name) = {}
    BY <1>4, <2>1, <2>3 DEF CreateTag
  <2> QED BY <2>2, <2>4, <2>5, TakesKeeps
<1>5. ASSUME NEW name \in TagNames, NEW i \in 1..Len(board.tags), EditTag(d, i, name) PROVE DeskInv'
  <2>1. PICK tag : tag = [NoTask.tag EXCEPT !.name = name]
    OBVIOUS
  <2>2. tag \in Tag /\ tag.name = name
    BY <1>0, <2>1 DEF Tag
  <2>3. PICK t : t = [NoTask EXCEPT !.at = "editTag", !.i = i, !.v = board.v, !.tag = tag]
    OBVIOUS
  <2>4. t \in Task /\ t.at = "editTag" /\ t.tag = tag /\ t.i = i
    <3>1. i \in Nat
      BY <1>0
    <3> QED BY <1>0, <2>2, <2>3, <3>1 DEF Task
  <2>5. PICK odd : odd = IF NamedLive(name) \ {i} = {} THEN {} ELSE {<<"name", name>>}
    OBVIOUS
  <2>6. t = [NoTask EXCEPT !.at = "editTag", !.i = i, !.v = board.v, !.tag.name = name]
    BY <1>0, <2>1, <2>3 DEF Task, Tag
  <2>7. Takes(d, t, odd) /\ i \in DOMAIN board.tags /\ ~board.tags[i].isReadonly
    BY <1>5, <2>5, <2>6 DEF EditTag
  <2>8. i \in 3..Len(board.tags)
    BY <2>7, EditableTags
  <2>9. NamedLive(name) \subseteq {i} \/ <<"name", name>> \in odd
    BY <2>5
  <2> QED BY <2>2, <2>4, <2>7, <2>8, <2>9, TakesKeeps
<1>6. ASSUME NEW i \in 1..Len(board.tags), DeleteTag(d, i) PROVE DeskInv'
  <2>1. PICK t : t = [NoTask EXCEPT !.at = "dropTag", !.i = i, !.v = board.v]
    OBVIOUS
  <2>2. t \in Task /\ t.at = "dropTag" /\ t.i = i
    <3>1. i \in Nat
      BY <1>0
    <3> QED BY <1>0, <2>1, <3>1 DEF Task
  <2>3. Takes(d, t, {}) /\ i \in DOMAIN board.tags /\ ~board.tags[i].isReadonly
    BY <1>6, <2>1 DEF DeleteTag
  <2>4. i \in 3..Len(board.tags)
    BY <2>3, EditableTags
  <2> QED BY <2>2, <2>3, <2>4, TakesKeeps
<1>7. ASSUME NEW i \in 1..Len(board.tags), NEW c \in Chats, ChangeTagRoom(d, c, i) PROVE DeskInv'
  <2>1. PICK t : t = [NoTask EXCEPT !.at = "giveTag", !.chat = c, !.i = i]
    OBVIOUS
  <2>2. PICK odd : odd = IF board.tags[i].isDeleted THEN {<<"tag", i>>} ELSE {}
    OBVIOUS
  <2>3. t \in Task /\ t.at = "giveTag" /\ t.i = i
    <3>1. i \in Nat
      BY <1>0
    <3> QED BY <1>0, <2>1, <3>1 DEF Task
  <2>4. Takes(d, t, odd)
    BY <1>7, <2>1, <2>2 DEF ChangeTagRoom
  <2>5. ~board.tags[i].isDeleted \/ <<"tag", i>> \in odd
    BY <2>2
  <2> QED BY <2>3, <2>4, <2>5, TakesKeeps
<1>8. ASSUME NEW c \in Chats, EndConversation(d, c) PROVE DeskInv'
  <2>1. PICK I : I = {j \in 1..Len(board.tags) : board.tags[j].name = "completed"}
    OBVIOUS
  <2>2. PICK i : i = IF I # {} THEN Min(I) ELSE 0
    OBVIOUS
  <2>3. PICK t : t = [NoTask EXCEPT !.at = "giveTag", !.chat = c, !.i = i]
    OBVIOUS
  <2>4. Takes(d, t, {})
    BY <1>8, <2>1, <2>2, <2>3 DEF EndConversation, SelectInSeq
  <2>5. 2 \in I /\ 1 \notin I
    BY <1>0, <2>1 DEF FirstTags, ReadonlyTag
  <2>6. I \subseteq Nat /\ I \subseteq 1..Len(board.tags)
    BY <2>1
  <2>7. i \in I /\ i <= 2
    BY <2>2, <2>5, <2>6, FirstOf
  <2>8. i = 2
    BY <2>5, <2>6, <2>7
  <2>9. i \in 1..Len(board.tags) /\ ~board.tags[i].isDeleted
    BY <1>0, <2>6, <2>7, <2>8 DEF FirstTags, ReadonlyTag
  <2>10. t \in Task /\ t.at = "giveTag" /\ t.i = i
    BY <1>0, <2>3, <2>8 DEF Task
  <2> QED BY <2>4, <2>9, <2>10, TakesKeeps
<1>9. ASSUME NEW u \in Raters, Rate(d, u) PROVE DeskInv'
  <2>1. PICK I : I = {j \in 1..Len(ratings.by) : ratings.by[j] = u}
    OBVIOUS
  <2>2. PICK i : i = IF I # {} THEN Min(I) ELSE 0
    OBVIOUS
  <2>3. PICK t : t = [NoTask EXCEPT !.at = IF i = 0 THEN "pushRating" ELSE "editRating",
                                    !.rater = u, !.i = i, !.v = ratings.v]
    OBVIOUS
  <2>4. Takes(d, t, {})
    BY <1>9, <2>1, <2>2, <2>3 DEF Rate, SelectInSeq
  <2>5. I \subseteq Nat /\ 0 \notin I
    BY <2>1
  <2>6. (I # {} => i \in I) /\ (I = {} => i = 0)
    BY <2>2, <2>5, FirstOf
  <2>7. t \in Task /\ t.at = (IF i = 0 THEN "pushRating" ELSE "editRating") /\ t.rater = u
    <3>1. i \in Nat
      <4>1. CASE I = {}
        BY <2>6, <4>1
      <4>2. CASE I # {}
        BY <2>5, <2>6, <4>2
      <4> QED BY <4>1, <4>2
    <3> QED BY <1>0, <2>3, <3>1 DEF Task
  <2>8. t.at = "pushRating" => u \notin Range(ratings.by)
    BY <1>0, <2>1, <2>5, <2>6, <2>7 DEF Range
  <2> QED BY <2>4, <2>7, <2>8, TakesKeeps
<1> QED BY <1>1, <1>2, <1>3, <1>4, <1>5, <1>6, <1>7, <1>8, <1>9 DEF Begins
(* A request that is over, and one dropped before its last write. *)
LEMMA DoneEffect ==
  ASSUME DeskInv, NEW d \in Agents, task' = [task EXCEPT ![d] = NoTask]
  PROVE  /\ task' \in [Agents -> Task] /\ task'[d] = NoTask /\ task'[d].at = "idle" /\ OtherTasks(d)
         /\ AboutOf(task'[d]) = {} /\ TaskOK(d)'
<1>1. DeskTypeOK
  BY DEF DeskInv
<1>2. task' \in [Agents -> Task] /\ task'[d] = NoTask /\ OtherTasks(d)
  BY <1>1, OneTask, NoTaskTypes
<1> QED BY <1>2, NoTaskTypes DEF TaskOK

(* The requests about something that a step of another leaves alone.         *)
LEMMA ScriptsUntouched ==
  ASSUME DeskInv, NEW d \in Agents, OtherTasks(d), stray \subseteq stray',
         task'[d].at \notin {"choose", "dropScripts"}, UNCHANGED currentScript,
         \A s \in Scripts : script[s] = "live" => script'[s] = "live"
  PROVE  \A s \in Scripts : ScriptOK(s)'
<1>1. \A e \in Agents : e = d \/ task'[e] = task[e]
  BY DEF OtherTasks
<1> QED BY <1>1 DEF DeskInv, ScriptOK

LEMMA RatingsUntouched ==
  ASSUME DeskInv, NEW d \in Agents, OtherTasks(d), stray \subseteq stray',
         task'[d].at # "pushRating", UNCHANGED ratings
  PROVE  \A u \in Raters : RatingOK(u)'
<1>1. \A e \in Agents : e = d \/ task'[e] = task[e]
  BY DEF OtherTasks
<1> QED BY <1>1 DEF DeskInv, RatingOK

LEMMA NamesUntouched ==
  ASSUME DeskInv, NEW d \in Agents, OtherTasks(d), stray \subseteq stray',
         task'[d].at \notin {"pushTag", "editTag"},
         NEW m \in TagNames, NamedLive(m)' \subseteq NamedLive(m)
  PROVE  TagNameOK(m)'
<1>1. \A e \in Agents : e = d \/ task'[e] = task[e]
  BY DEF OtherTasks
<1> QED BY <1>1 DEF DeskInv, TagNameOK

LEMMA TagsUntouched ==
  ASSUME DeskInv, NEW d \in Agents, OtherTasks(d), stray \subseteq stray',
         task'[d].at \notin {"clearTag", "giveTag"}, UNCHANGED <<board, tagOf>>,
         task[d].at = "clearTag" => <<"tag", task[d].i>> \in stray'
  PROVE  \A i \in DOMAIN board'.tags : TagOK(i)'
<1>1. \A e \in Agents : e = d \/ task'[e] = task[e]
  BY DEF OtherTasks
<1> QED BY <1>1 DEF DeskInv, TagOK

(* A step after which the request is over: what it wrote remains to be shown. *)
LEMMA TaskEnds ==
  ASSUME DeskInv, NEW d \in Agents, task' = [task EXCEPT ![d] = NoTask], stray \subseteq stray', UNCHANGED tasks,
         DeskTypeOK', FirstTags', Len(board.tags) <= Len(board'.tags),
         \A s \in Scripts : ScriptOK(s)', \A i \in DOMAIN board'.tags : TagOK(i)',
         \A u \in Raters : RatingOK(u)', \A m \in TagNames : TagNameOK(m)'
  PROVE  DeskInv'
<1>1. OtherTasks(d) /\ AboutOf(task'[d]) = {} /\ TaskOK(d)'
  BY DoneEffect
<1>2. TasksApart'
  BY <1>1, TasksApartNext
<1>3. ASSUME NEW e \in Agents, e # d PROVE TaskOK(e)'
  <2>1. task'[e] = task[e] /\ TaskOK(e)
    BY <1>1, <1>3 DEF OtherTasks, DeskInv
  <2>2. Len(board.tags) \in Nat /\ Len(board'.tags) \in Nat
    <3>1. board.tags \in Seq(Tag) /\ board'.tags \in Seq(Tag)
      BY DEF DeskInv, DeskTypeOK
    <3> QED BY <3>1
  <2>3. 3..Len(board.tags) \subseteq 3..Len(board'.tags) /\ 1..Len(board.tags) \subseteq 1..Len(board'.tags)
    BY <2>2
  <2> QED BY <2>1, <2>3 DEF TaskOK
<1> QED BY <1>1, <1>2, <1>3 DEF DeskInv

(* What a step that leaves the tags alone leaves true of them. *)
LEMMA BoardUntouched ==
  ASSUME DeskInv, NEW d \in Agents, OtherTasks(d), stray \subseteq stray', UNCHANGED <<board, tagOf>>,
         task'[d].at = "idle", task[d].at = "clearTag" => <<"tag", task[d].i>> \in stray'
  PROVE  /\ FirstTags' /\ Len(board.tags) <= Len(board'.tags)
         /\ \A i \in DOMAIN board'.tags : TagOK(i)'
         /\ \A m \in TagNames : TagNameOK(m)'
<1>1. \A m : NamedLive(m)' = NamedLive(m)
  BY DEF NamedLive
<1>2. FirstTags'
  BY DEF DeskInv, FirstTags
<1>3. Len(board.tags) <= Len(board'.tags)
  BY DeskAt
<1> QED BY <1>1, <1>2, <1>3, TagsUntouched, NamesUntouched

LEMMA MakesScriptKeeps ==
  ASSUME DeskInv, NEW d \in Agents, MakesScript(d) PROVE DeskInv'
<1>1. /\ task' = [task EXCEPT ![d] = NoTask] /\ UNCHANGED <<currentScript, board, tagOf, ratings, tasks, stray>>
      /\ task[d].at = "makeScript"
      /\ script' = [s \in Scripts |-> IF s \in task[d].scripts THEN "live" ELSE script[s]]
  BY DEF MakesScript, Done
<1>2. task' \in [Agents -> Task] /\ task'[d].at = "idle" /\ OtherTasks(d)
  BY <1>1, DoneEffect
<1>3. DeskTypeOK'
  BY <1>1, <1>2 DEF DeskInv, DeskTypeOK
<1>4. \A s \in Scripts : script[s] = "live" => script'[s] = "live"
  BY <1>1
<1>5. \A s \in Scripts : ScriptOK(s)'
  BY <1>1, <1>2, <1>4, ScriptsUntouched
<1>6. /\ FirstTags' /\ Len(board.tags) <= Len(board'.tags)
      /\ \A i \in DOMAIN board'.tags : TagOK(i)'
      /\ \A m \in TagNames : TagNameOK(m)'
  BY <1>1, <1>2, BoardUntouched
<1>7. \A u \in Raters : RatingOK(u)'
  BY <1>1, <1>2, RatingsUntouched
<1> QED BY <1>1, <1>3, <1>5, <1>6, <1>7, TaskEnds

LEMMA ChoosesKeeps ==
  ASSUME DeskInv, NEW d \in Agents, Chooses(d) PROVE DeskInv'
<1>1. /\ task' = [task EXCEPT ![d] = NoTask] /\ UNCHANGED <<script, board, tagOf, ratings, tasks, stray>>
      /\ task[d].at = "choose"
      /\ \/ task[d].scripts = {} /\ currentScript' = NoScript
         \/ currentScript' \in task[d].scripts
  BY DEF Chooses, Done
<1>2. task' \in [Agents -> Task] /\ task'[d].at = "idle" /\ OtherTasks(d)
  BY <1>1, DoneEffect
<1>3. /\ FirstTags' /\ Len(board.tags) <= Len(board'.tags)
      /\ \A i \in DOMAIN board'.tags : TagOK(i)'
      /\ \A m \in TagNames : TagNameOK(m)'
  BY <1>1, <1>2, BoardUntouched
<1>4. \A u \in Raters : RatingOK(u)'
  BY <1>1, <1>2, RatingsUntouched
<1>5. DeskTypeOK'
  <2>1. currentScript' \in Scripts \union {NoScript}
    BY <1>1, DeskAt
  <2> QED BY <1>1, <1>2, <2>1 DEF DeskInv, DeskTypeOK
<1>6. ASSUME NEW s \in Scripts PROVE ScriptOK(s)'
  <2>1. CASE currentScript' # s
    BY <1>1, <1>2, <2>1 DEF DeskInv, ScriptOK, OtherTasks
  <2>2. CASE currentScript' = s
    <3>1. s \in task[d].scripts
      BY <1>1, <2>2, DeskAssumption
    <3>2. <<"script", s>> \notin stray => script[s] = "live"
      BY <1>1, <3>1 DEF DeskInv, ScriptOK
    <3>3. ASSUME NEW e \in Agents, s \in task'[e].scripts, <<"script", s>> \notin stray,
                 task'[e].at = "dropScripts"
          PROVE  FALSE
      <4>1. e # d /\ task'[e] = task[e]
        BY <1>2, <3>3 DEF OtherTasks
      <4>2. <<"script", s>> \in AboutOf(task[e]) /\ <<"script", s>> \in AboutOf(task[d])
        BY <1>1, <3>1, <3>3, <4>1, DeskAt, AboutFacts
      <4> QED BY <3>3, <4>1, <4>2 DEF DeskInv, TasksApart
    <3> QED BY <1>1, <1>2, <3>2, <3>3 DEF DeskInv, ScriptOK, OtherTasks
  <2> QED BY <2>1, <2>2
<1> QED BY <1>1, <1>3, <1>4, <1>5, <1>6, TaskEnds

LEMMA DropsScriptsKeeps ==
  ASSUME DeskInv, NEW d \in Agents, DropsScripts(d) PROVE DeskInv'
<1>1. /\ task' = [task EXCEPT ![d] = NoTask] /\ UNCHANGED <<currentScript, board, tagOf, ratings, tasks, stray>>
      /\ task[d].at = "dropScripts"
      /\ script' = [s \in Scripts |-> IF s \in task[d].scripts THEN "deleted" ELSE script[s]]
  BY DEF DropsScripts, Done
<1>2. task' \in [Agents -> Task] /\ task'[d].at = "idle" /\ OtherTasks(d)
  BY <1>1, DoneEffect
<1>3. /\ FirstTags' /\ Len(board.tags) <= Len(board'.tags)
      /\ \A i \in DOMAIN board'.tags : TagOK(i)'
      /\ \A m \in TagNames : TagNameOK(m)'
  BY <1>1, <1>2, BoardUntouched
<1>4. \A u \in Raters : RatingOK(u)'
  BY <1>1, <1>2, RatingsUntouched
<1>5. DeskTypeOK'
  BY <1>1, <1>2 DEF DeskInv, DeskTypeOK
<1>6. ASSUME NEW s \in Scripts PROVE ScriptOK(s)'
  <2>1. CASE s \notin task[d].scripts
    BY <1>1, <1>2, <2>1 DEF DeskInv, ScriptOK, OtherTasks
  <2>2. CASE s \in task[d].scripts
    <3>1. <<"script", s>> \notin stray => currentScript # s
      BY <1>1, <2>2 DEF DeskInv, ScriptOK
    <3>2. ASSUME NEW e \in Agents, s \in task'[e].scripts, <<"script", s>> \notin stray,
                 task'[e].at = "choose"
          PROVE  FALSE
      <4>1. e # d /\ task'[e] = task[e]
        BY <1>2, <3>2 DEF OtherTasks
      <4>2. <<"script", s>> \in AboutOf(task[e]) /\ <<"script", s>> \in AboutOf(task[d])
        BY <1>1, <2>2, <3>2, <4>1, DeskAt, AboutFacts
      <4> QED BY <3>2, <4>1, <4>2 DEF DeskInv, TasksApart
    <3> QED BY <1>1, <3>1, <3>2 DEF ScriptOK
  <2> QED BY <2>1, <2>2
<1> QED BY <1>1, <1>3, <1>4, <1>5, <1>6, TaskEnds
LEMMA PushesTagKeeps ==
  ASSUME DeskInv, NEW d \in Agents, PushesTag(d) PROVE DeskInv'
<1>a. PICK m0, n : m0 = task[d].tag.name /\ n = Len(board.tags)
  OBVIOUS
<1>0. /\ DeskTypeOK /\ task[d].tag \in Tag /\ m0 \in TagNames /\ ~task[d].tag.isDeleted
      /\ board.tags \in Seq(Tag) /\ board.v \in Nat /\ n \in Nat /\ DOMAIN board.tags = 1..n
      /\ FirstTags
  BY <1>a, DeskAt DEF PushesTag, TaskOK, DeskInv
<1>1. /\ task' = [task EXCEPT ![d] = NoTask] /\ task[d].at = "pushTag"
      /\ UNCHANGED <<script, currentScript, tagOf, ratings, tasks, stray>>
      /\ board' = [tags |-> Append(board.tags, task[d].tag), v |-> board.v + 1]
  BY DEF PushesTag, Done
<1>2. task' \in [Agents -> Task] /\ task'[d].at = "idle" /\ OtherTasks(d)
  BY <1>1, DoneEffect
<1>3. /\ board'.tags \in Seq(Tag) /\ Len(board'.tags) = n + 1 /\ DOMAIN board'.tags = 1..n + 1
      /\ board'.tags[n + 1] = task[d].tag /\ \A i \in 1..n : board'.tags[i] = board.tags[i]
  <2>1. board'.tags = Append(board.tags, task[d].tag)
    BY <1>1
  <2> QED BY <1>a, <1>0, <2>1
<1>4. DeskTypeOK'
  <2>1. board' \in [tags : Seq(Tag), v : Nat]
    <3>1. Append(board.tags, task[d].tag) \in Seq(Tag) /\ board.v + 1 \in Nat
      BY <1>0
    <3> QED BY <1>1, <3>1
  <2>2. tagOf' \in [Chats -> 0..Len(board'.tags)]
    <3>1. tagOf \in [Chats -> 0..n] /\ 0..n \subseteq 0..n + 1
      BY <1>a, <1>0 DEF DeskTypeOK
    <3> QED BY <1>1, <1>3, <3>1
  <2> QED BY <1>0, <1>1, <1>2, <2>1, <2>2 DEF DeskTypeOK
<1>5. FirstTags' /\ Len(board.tags) <= Len(board'.tags)
  <2>1. n >= 2 /\ 1 \in 1..n /\ 2 \in 1..n /\ n + 1 >= 2 /\ n <= n + 1
    BY <1>a, <1>0 DEF FirstTags
  <2> QED BY <1>a, <1>0, <1>3, <2>1 DEF FirstTags
<1>6. \A s \in Scripts : ScriptOK(s)'
  BY <1>1, <1>2, ScriptsUntouched
<1>7. \A u \in Raters : RatingOK(u)'
  BY <1>1, <1>2, RatingsUntouched
<1>8. ASSUME NEW i \in DOMAIN board'.tags PROVE TagOK(i)'
  <2>1. CASE i = n + 1
    BY <1>0, <1>3, <2>1 DEF TagOK
  <2>2. CASE i # n + 1
    <3>1. i \in 1..n
      BY <1>0, <1>3, <2>2
    <3>2. TagOK(i) /\ board'.tags[i] = board.tags[i]
      BY <1>0, <1>3, <3>1 DEF DeskInv
    <3>3. task[d].at # "clearTag" /\ task'[d].at \notin {"clearTag", "giveTag"} /\ \A e \in Agents \ {d} : task'[e] = task[e]
      BY <1>1, <1>2 DEF OtherTasks
    <3>4. /\ \A e \in Agents : task'[e].at = "giveTag" => task[e].at = "giveTag" /\ task'[e].i = task[e].i
          /\ \A e \in Agents : task[e].at = "clearTag" => task'[e].at = "clearTag" /\ task'[e].i = task[e].i
      BY <3>3
    <3> QED BY <1>1, <3>2, <3>4 DEF TagOK
  <2> QED BY <2>1, <2>2
<1>9. \A m : NamedLive(m)' \subseteq NamedLive(m) \union IF m = m0 THEN {n + 1} ELSE {}
  <2>1. \A i \in 1..n + 1 : i \in 1..n \/ i = n + 1
    BY <1>0
  <2> QED BY <1>a, <1>0, <1>3, <2>1 DEF NamedLive
<1>10. ASSUME NEW m \in TagNames PROVE TagNameOK(m)'
  <2>1. CASE m # m0
    BY <1>1, <1>2, <1>9, <2>1, NamesUntouched
  <2>2. CASE m = m0
    <3>1. <<"name", m>> \notin stray => NamedLive(m) = {}
      BY <1>a, <1>1, <2>2 DEF DeskInv, TagNameOK
    <3>2. ASSUME NEW e \in Agents, task'[e].at \in {"pushTag", "editTag"}, task'[e].tag.name = m,
                 <<"name", m>> \notin stray
          PROVE  FALSE
      <4>1. e # d /\ task'[e] = task[e]
        BY <1>2, <3>2 DEF OtherTasks
      <4>2. <<"name", m>> \in AboutOf(task[e]) /\ <<"name", m>> \in AboutOf(task[d])
        BY <1>a, <1>1, <2>2, <3>2, <4>1, DeskAt, AboutFacts
      <4> QED BY <3>2, <4>1, <4>2 DEF DeskInv, TasksApart
    <3> QED BY <1>1, <1>9, <2>2, <3>1, <3>2 DEF TagNameOK
  <2> QED BY <2>1, <2>2
<1> QED BY <1>1, <1>4, <1>5, <1>6, <1>7, <1>8, <1>10, TaskEnds

(* A request to change a tag. *)
LEMMA SavesTagKeeps ==
  ASSUME DeskInv, NEW d \in Agents, SavesTag(d) PROVE DeskInv'
<1>a. PICK m0, i0, n : m0 = task[d].tag.name /\ i0 = task[d].i /\ n = Len(board.tags)
  OBVIOUS
<1>0. /\ DeskTypeOK /\ task[d] \in Task /\ i0 \in 3..n /\ n \in Nat /\ DOMAIN board.tags = 1..n
      /\ board.tags \in Seq(Tag) /\ board \in [tags : Seq(Tag), v : Nat] /\ FirstTags
      /\ i0 \in 1..n /\ i0 # 1 /\ i0 # 2
  <2>1. i0 \in 3..n /\ n \in Nat
    BY <1>a, DeskAt DEF SavesTag, TaskOK
  <2>2. i0 \in 1..n /\ i0 # 1 /\ i0 # 2
    BY <2>1
  <2> QED BY <1>a, <2>1, <2>2, DeskAt DEF DeskInv, DeskTypeOK
<1>1. task[d].at \in {"editTag", "dropTag"} /\ UNCHANGED <<script, currentScript, tagOf, ratings>>
  BY DEF SavesTag
<1>2. CASE board.v # task[d].v
  <2>1. /\ task' = [task EXCEPT ![d] = NoTask] /\ stray' = stray \union AboutOf(task[d])
        /\ UNCHANGED <<board, tasks>>
    BY <1>2 DEF SavesTag, Drops
  <2>2. task' \in [Agents -> Task] /\ task'[d].at = "idle" /\ OtherTasks(d)
    BY <2>1, DoneEffect
  <2>3. stray \subseteq stray' /\ task[d].at # "clearTag"
    BY <1>1, <2>1
  <2>4. /\ FirstTags' /\ Len(board.tags) <= Len(board'.tags)
        /\ \A i \in DOMAIN board'.tags : TagOK(i)'
        /\ \A m \in TagNames : TagNameOK(m)'
    BY <1>1, <2>1, <2>2, <2>3, BoardUntouched
  <2>5. DeskTypeOK'
    BY <1>0, <1>1, <2>1, <2>2 DEF DeskTypeOK
  <2>6. \A s \in Scripts : ScriptOK(s)'
    BY <1>1, <2>2, <2>3, ScriptsUntouched
  <2>7. \A u \in Raters : RatingOK(u)'
    BY <1>1, <2>2, <2>3, RatingsUntouched
  <2> QED BY <2>1, <2>3, <2>4, <2>5, <2>6, <2>7, TaskEnds
<1>3. CASE board.v = task[d].v /\ task[d].at = "editTag"
  <2>1. /\ task' = [task EXCEPT ![d] = NoTask] /\ UNCHANGED <<tasks, stray>>
        /\ board' = [board EXCEPT !.tags[i0].name = m0]
    BY <1>a, <1>3 DEF SavesTag, Done
  <2>2. task' \in [Agents -> Task] /\ task'[d].at = "idle" /\ OtherTasks(d)
    BY <2>1, DoneEffect
  <2>3. m0 \in TagNames
    BY <1>a, <1>3, DeskAt DEF TaskOK
  <2>4. /\ board' \in [tags : Seq(Tag), v : Nat] /\ Len(board'.tags) = n /\ DOMAIN board'.tags = 1..n
        /\ board'.tags[i0].name = m0 /\ board'.tags[i0].isDeleted = board.tags[i0].isDeleted
        /\ \A i \in 1..n : i # i0 => board'.tags[i] = board.tags[i]
    <3>1. board.tags[i0] \in Tag
      BY <1>0
    <3>2. PICK new : new = [board.tags[i0] EXCEPT !.name = m0]
      OBVIOUS
    <3>3. new \in Tag /\ new.name = m0 /\ new.isDeleted = board.tags[i0].isDeleted
      BY <2>3, <3>1, <3>2 DEF Tag
    <3>4. PICK tags : tags = [board.tags EXCEPT ![i0] = new]
      OBVIOUS
    <3>5. /\ tags \in Seq(Tag) /\ Len(tags) = n /\ DOMAIN tags = 1..n /\ tags[i0] = new
          /\ \A i \in 1..n : i # i0 => tags[i] = board.tags[i]
      BY <1>a, <1>0, <3>3, <3>4
    <3>6. board' = [board EXCEPT !.tags = tags]
      BY <2>1, <3>2, <3>4
    <3>7. board'.tags = tags /\ board' \in [tags : Seq(Tag), v : Nat]
      BY <1>0, <3>5, <3>6
    <3> QED BY <3>3, <3>5, <3>7
  <2>5. DeskTypeOK'
    BY <1>a, <1>0, <1>1, <2>1, <2>2, <2>4 DEF DeskTypeOK
  <2>6. FirstTags' /\ Len(board.tags) <= Len(board'.tags)
    <3>1. n >= 2 /\ 1 \in 1..n /\ 2 \in 1..n /\ n <= n
      BY <1>a, <1>0 DEF FirstTags
    <3> QED BY <1>a, <1>0, <2>4, <3>1 DEF FirstTags
  <2>7. \A s \in Scripts : ScriptOK(s)'
    BY <1>1, <2>1, <2>2, ScriptsUntouched
  <2>8. \A u \in Raters : RatingOK(u)'
    BY <1>1, <2>1, <2>2, RatingsUntouched
  <2>9. ASSUME NEW i \in DOMAIN board'.tags PROVE TagOK(i)'
    <3>1. i \in DOMAIN board.tags /\ board'.tags[i].isDeleted = board.tags[i].isDeleted
      BY <1>0, <2>4
    <3>2. \A e \in Agents : e = d \/ task'[e] = task[e]
      BY <2>2 DEF OtherTasks
    <3> QED BY <1>1, <1>3, <2>1, <2>2, <3>1, <3>2 DEF DeskInv, TagOK
  <2>10. \A m : NamedLive(m)' \subseteq NamedLive(m) \union IF m = m0 THEN {i0} ELSE {}
    BY <1>0, <2>4 DEF NamedLive
  <2>11. ASSUME NEW m \in TagNames PROVE TagNameOK(m)'
    <3>1. CASE m # m0
      BY <2>1, <2>2, <2>10, <3>1, NamesUntouched
    <3>2. CASE m = m0
      <4>1. <<"name", m>> \notin stray => NamedLive(m) \subseteq {i0}
        BY <1>a, <1>3, <3>2 DEF DeskInv, TagNameOK
      <4>2. ASSUME NEW e \in Agents, task'[e].at \in {"pushTag", "editTag"}, task'[e].tag.name = m,
                   <<"name", m>> \notin stray
            PROVE  FALSE
        <5>1. e # d /\ task'[e] = task[e]
          BY <2>2, <4>2 DEF OtherTasks
        <5>2. <<"name", m>> \in AboutOf(task[e]) /\ <<"name", m>> \in AboutOf(task[d])
          BY <1>a, <1>3, <3>2, <4>2, <5>1, DeskAt, AboutFacts
        <5> QED BY <4>2, <5>1, <5>2 DEF DeskInv, TasksApart
      <4> QED BY <2>1, <2>10, <3>2, <4>1, <4>2 DEF TagNameOK
    <3> QED BY <3>1, <3>2
  <2> QED BY <2>1, <2>5, <2>6, <2>7, <2>8, <2>9, <2>11, TaskEnds
<1>4. CASE board.v = task[d].v /\ task[d].at = "dropTag"
  <2>1. /\ task' = [task EXCEPT ![d].at = "clearTag"] /\ UNCHANGED <<tasks, stray>>
        /\ board' = [board EXCEPT !.tags[i0].isDeleted = TRUE]
    BY <1>a, <1>4 DEF SavesTag, DropsTag
  <2>2. /\ task' \in [Agents -> Task] /\ task'[d].at = "clearTag" /\ task'[d].i = i0 /\ OtherTasks(d)
        /\ AboutOf(task'[d]) = AboutOf(task[d])
    <3>1. PICK new : new = [task[d] EXCEPT !.at = "clearTag"]
      OBVIOUS
    <3>2. new \in Task /\ new.at = "clearTag" /\ new.i = i0
      BY <1>a, <1>0, <3>1 DEF Task
    <3>3. task' = [task EXCEPT ![d] = new]
      BY <2>1, <3>1
    <3>4. task' \in [Agents -> Task] /\ task'[d] = new /\ OtherTasks(d)
      BY <1>0, <3>2, <3>3, OneTask
    <3>5. AboutOf(new) = AboutOf(task[d])
      BY <1>a, <1>4, <3>2 DEF AboutOf
    <3> QED BY <3>2, <3>4, <3>5
  <2>4. /\ board' \in [tags : Seq(Tag), v : Nat] /\ Len(board'.tags) = n /\ DOMAIN board'.tags = 1..n
        /\ board'.tags[i0].isDeleted = TRUE
        /\ \A i \in 1..n : i # i0 => board'.tags[i] = board.tags[i]
    <3>1. board.tags[i0] \in Tag
      BY <1>0
    <3>2. PICK new : new = [board.tags[i0] EXCEPT !.isDeleted = TRUE]
      OBVIOUS
    <3>3. new \in Tag /\ new.isDeleted = TRUE
      BY <3>1, <3>2 DEF Tag
    <3>4. PICK tags : tags = [board.tags EXCEPT ![i0] = new]
      OBVIOUS
    <3>5. /\ tags \in Seq(Tag) /\ Len(tags) = n /\ DOMAIN tags = 1..n /\ tags[i0] = new
          /\ \A i \in 1..n : i # i0 => tags[i] = board.tags[i]
      BY <1>a, <1>0, <3>3, <3>4
    <3>6. board' = [board EXCEPT !.tags = tags]
      BY <2>1, <3>2, <3>4
    <3>7. board'.tags = tags /\ board' \in [tags : Seq(Tag), v : Nat]
      BY <1>0, <3>5, <3>6
    <3> QED BY <3>3, <3>5, <3>7
  <2>5. DeskTypeOK'
    BY <1>a, <1>0, <1>1, <2>1, <2>2, <2>4 DEF DeskTypeOK
  <2>6. FirstTags'
    <3>1. n >= 2 /\ 1 \in 1..n /\ 2 \in 1..n
      BY <1>a, <1>0 DEF FirstTags
    <3> QED BY <1>a, <1>0, <2>4, <3>1 DEF FirstTags
  <2>7. \A e \in Agents : e = d \/ task'[e] = task[e]
    BY <2>2 DEF OtherTasks
  <2>8. TasksApart'
    BY <2>1, <2>2, TasksApartNext
  <2>9. \A e \in Agents : TaskOK(e)'
    BY <1>a, <1>0, <2>2, <2>4, <2>7 DEF DeskInv, TaskOK
  <2>10. \A s \in Scripts : ScriptOK(s)'
    BY <1>1, <2>1, <2>2, ScriptsUntouched
  <2>11. \A u \in Raters : RatingOK(u)'
    BY <1>1, <2>1, <2>2, RatingsUntouched
  <2>12. ASSUME NEW i \in DOMAIN board'.tags PROVE TagOK(i)'
    <3>1. CASE i = i0
      <4>1. ASSUME NEW e \in Agents, task'[e].at = "giveTag", task'[e].i = i, <<"tag", i>> \notin stray
            PROVE  FALSE
        <5>1. e # d /\ task'[e] = task[e]
          BY <2>2, <2>7, <4>1
        <5>2. <<"tag", i>> \in AboutOf(task[e]) /\ <<"tag", i>> \in AboutOf(task[d])
          BY <1>a, <1>1, <3>1, <4>1, <5>1, DeskAt, AboutFacts
        <5> QED BY <4>1, <5>1, <5>2 DEF DeskInv, TasksApart
      <4> QED BY <2>1, <2>2, <3>1, <4>1 DEF TagOK
    <3>2. CASE i # i0
      <4>1. i \in DOMAIN board.tags /\ board'.tags[i] = board.tags[i]
        BY <1>0, <2>4, <3>2
      <4>2. TagOK(i)
        BY <4>1 DEF DeskInv
      <4> QED BY <1>1, <1>4, <2>1, <2>2, <2>7, <3>2, <4>1, <4>2 DEF TagOK
    <3> QED BY <3>1, <3>2
  <2>13. \A m \in TagNames : TagNameOK(m)'
    <3>1. \A m : NamedLive(m)' \subseteq NamedLive(m)
      BY <1>0, <2>4 DEF NamedLive
    <3> QED BY <2>1, <2>2, <3>1, NamesUntouched
  <2> QED BY <2>5, <2>6, <2>8, <2>9, <2>10, <2>11, <2>12, <2>13 DEF DeskInv
<1> QED BY <1>1, <1>2, <1>3, <1>4

LEMMA ClearsTagKeeps ==
  ASSUME DeskInv, NEW d \in Agents, ClearsTag(d) PROVE DeskInv'
<1>1. /\ task' = [task EXCEPT ![d] = NoTask] /\ task[d].at = "clearTag"
      /\ UNCHANGED <<script, currentScript, board, ratings, tasks, stray>>
      /\ tagOf' = [c \in Chats |-> IF tagOf[c] = task[d].i THEN 0 ELSE tagOf[c]]
  BY DEF ClearsTag, Done
<1>2. task' \in [Agents -> Task] /\ task'[d].at = "idle" /\ OtherTasks(d)
  BY <1>1, DoneEffect
<1>3. DeskTypeOK'
  <2>1. 0 \in 0..Len(board.tags)
    BY DeskAt
  <2> QED BY <1>1, <1>2, <2>1 DEF DeskInv, DeskTypeOK
<1>4. FirstTags' /\ Len(board.tags) <= Len(board'.tags)
  BY <1>1, DeskAt DEF DeskInv, FirstTags
<1>5. \A s \in Scripts : ScriptOK(s)'
  BY <1>1, <1>2, ScriptsUntouched
<1>6. \A u \in Raters : RatingOK(u)'
  BY <1>1, <1>2, RatingsUntouched
<1>7. \A m \in TagNames : TagNameOK(m)'
  <2>1. \A m : NamedLive(m)' = NamedLive(m)
    BY <1>1 DEF NamedLive
  <2> QED BY <1>1, <1>2, <2>1, NamesUntouched
<1>8. ASSUME NEW i \in DOMAIN board'.tags PROVE TagOK(i)'
  <2>1. TagOK(i) /\ i # 0
    BY <1>1, DeskAt DEF DeskInv
  <2>2. \A e \in Agents : e = d \/ task'[e] = task[e]
    BY <1>2 DEF OtherTasks
  <2>3. \A c \in Chats : tagOf'[c] = i => tagOf[c] = i /\ i # task[d].i
    BY <1>1, <2>1
  <2>4. i # task[d].i => ((\A e \in Agents : task'[e].at = "clearTag" => task'[e].i # i) =>
                         (\A e \in Agents : task[e].at = "clearTag" => task[e].i # i))
    BY <2>2
  <2> QED BY <1>1, <1>2, <2>1, <2>2, <2>3, <2>4 DEF TagOK
<1> QED BY <1>1, <1>3, <1>4, <1>5, <1>6, <1>7, <1>8, TaskEnds

LEMMA GivesTagKeeps ==
  ASSUME DeskInv, NEW d \in Agents, GivesTag(d) PROVE DeskInv'
<1>1. /\ task' = [task EXCEPT ![d] = NoTask] /\ task[d].at = "giveTag"
      /\ UNCHANGED <<script, currentScript, board, ratings, tasks, stray>>
      /\ tagOf' = [tagOf EXCEPT ![task[d].chat] = task[d].i]
  BY DEF GivesTag, Done
<1>2. task' \in [Agents -> Task] /\ task'[d].at = "idle" /\ OtherTasks(d)
  BY <1>1, DoneEffect
<1>3. DeskTypeOK'
  <2>1. task[d].i \in 0..Len(board.tags)
    <3>1. task[d].i \in 1..Len(board.tags) /\ Len(board.tags) \in Nat
      BY <1>1, DeskAt DEF TaskOK
    <3> QED BY <3>1
  <2> QED BY <1>1, <1>2, <2>1 DEF DeskInv, DeskTypeOK
<1>4. FirstTags' /\ Len(board.tags) <= Len(board'.tags)
  BY <1>1, DeskAt DEF DeskInv, FirstTags
<1>5. \A s \in Scripts : ScriptOK(s)'
  BY <1>1, <1>2, ScriptsUntouched
<1>6. \A u \in Raters : RatingOK(u)'
  BY <1>1, <1>2, RatingsUntouched
<1>7. \A m \in TagNames : TagNameOK(m)'
  <2>1. \A m : NamedLive(m)' = NamedLive(m)
    BY <1>1 DEF NamedLive
  <2> QED BY <1>1, <1>2, <2>1, NamesUntouched
<1>8. ASSUME NEW i \in DOMAIN board'.tags PROVE TagOK(i)'
  <2>1. TagOK(i)
    BY <1>1 DEF DeskInv
  <2>2. \A e \in Agents : e = d \/ task'[e] = task[e]
    BY <1>2 DEF OtherTasks
  <2>3. \A c \in Chats : tagOf'[c] = tagOf[c] \/ tagOf'[c] = task[d].i
    BY <1>1 DEF DeskInv, DeskTypeOK
  <2> QED BY <1>1, <1>2, <2>1, <2>2, <2>3 DEF TagOK
<1> QED BY <1>1, <1>3, <1>4, <1>5, <1>6, <1>7, <1>8, TaskEnds
LEMMA SavesRatingKeeps ==
  ASSUME DeskInv, NEW d \in Agents, SavesRating(d) PROVE DeskInv'
<1>1. /\ task' = [task EXCEPT ![d] = NoTask] /\ task[d].at \in {"pushRating", "editRating"}
      /\ UNCHANGED <<script, currentScript, board, tagOf, tasks>> /\ stray \subseteq stray'
  BY DEF SavesRating, Done, Drops
<1>2. task' \in [Agents -> Task] /\ task'[d].at = "idle" /\ OtherTasks(d)
  BY <1>1, DoneEffect
<1>3. /\ FirstTags' /\ Len(board.tags) <= Len(board'.tags)
      /\ \A i \in DOMAIN board'.tags : TagOK(i)'
      /\ \A m \in TagNames : TagNameOK(m)'
  <2>1. task[d].at # "clearTag"
    BY <1>1
  <2> QED BY <1>1, <1>2, <2>1, BoardUntouched
<1>4. \A s \in Scripts : ScriptOK(s)'
  BY <1>1, <1>2, ScriptsUntouched
<1>5. CASE UNCHANGED ratings
  <2>1. DeskTypeOK'
    BY <1>1, <1>2, <1>5 DEF DeskInv, DeskTypeOK
  <2>2. \A u \in Raters : RatingOK(u)'
    BY <1>1, <1>2, <1>5, RatingsUntouched
  <2> QED BY <1>1, <1>3, <1>4, <2>1, <2>2, TaskEnds
<1>6. CASE /\ task[d].at = "pushRating" /\ UNCHANGED stray
           /\ ratings' = [by |-> Append(ratings.by, task[d].rater), v |-> ratings.v + 1]
  <2>a. PICK u0, n : u0 = task[d].rater /\ n = Len(ratings.by)
    OBVIOUS
  <2>1. ratings.by \in Seq(Raters) /\ ratings.v \in Nat /\ u0 \in Raters /\ n \in Nat
    BY <2>a, DeskAt
  <2>2. /\ ratings'.by \in Seq(Raters) /\ ratings'.v \in Nat /\ DOMAIN ratings'.by = 1..n + 1
        /\ DOMAIN ratings.by = 1..n /\ ratings'.by[n + 1] = u0
        /\ \A i \in 1..n : ratings'.by[i] = ratings.by[i]
    <3>1. ratings'.by = Append(ratings.by, u0) /\ ratings'.v = ratings.v + 1
      BY <1>6, <2>a
    <3> QED BY <2>a, <2>1, <3>1
  <2>3. ratings' \in [by : Seq(Raters), v : Nat]
    BY <1>6, <2>2
  <2>4. DeskTypeOK'
    BY <1>1, <1>2, <2>3 DEF DeskInv, DeskTypeOK
  <2>5. \A i \in 1..n + 1 : i \in 1..n \/ i = n + 1
    BY <2>1
  <2>6. ASSUME NEW u \in Raters PROVE RatingOK(u)'
    <3>1. CASE u = u0
      <4>1. <<"rating", u>> \notin stray => u \notin Range(ratings.by)
        BY <1>6, <2>a, <3>1 DEF DeskInv, RatingOK
      <4>2. ASSUME NEW e \in Agents, task'[e].at = "pushRating", task'[e].rater = u, <<"rating", u>> \notin stray
            PROVE  FALSE
        <5>1. e # d /\ task'[e] = task[e]
          BY <1>2, <4>2 DEF OtherTasks
        <5>2. <<"rating", u>> \in AboutOf(task[e]) /\ <<"rating", u>> \in AboutOf(task[d])
          BY <1>6, <2>a, <3>1, <4>2, <5>1, DeskAt, AboutFacts
        <5> QED BY <4>2, <5>1, <5>2 DEF DeskInv, TasksApart
      <4>3. u \notin Range(ratings.by) =>
              \A i, j \in DOMAIN ratings'.by : ratings'.by[i] = u /\ ratings'.by[j] = u => i = j
        BY <2>2, <2>5 DEF Range
      <4> QED BY <1>6, <4>1, <4>2, <4>3 DEF RatingOK
    <3>2. CASE u # u0
      <4>1. RatingOK(u)
        BY DEF DeskInv
      <4>2. \A e \in Agents : e = d \/ task'[e] = task[e]
        BY <1>2 DEF OtherTasks
      <4>3. \A i \in DOMAIN ratings'.by : ratings'.by[i] = u => i \in DOMAIN ratings.by /\ ratings.by[i] = u
        BY <2>2, <2>5, <3>2
      <4>4. u \in Range(ratings'.by) => u \in Range(ratings.by)
        BY <4>3 DEF Range
      <4> QED BY <1>2, <1>6, <4>1, <4>2, <4>3, <4>4 DEF RatingOK
    <3> QED BY <3>1, <3>2
  <2> QED BY <1>1, <1>3, <1>4, <2>4, <2>6, TaskEnds
<1> QED BY <1>5, <1>6 DEF SavesRating, Done

LEMMA TaskFailsKeeps ==
  ASSUME DeskInv, NEW d \in Agents, TaskFails(d) PROVE DeskInv'
<1>1. /\ task' = [task EXCEPT ![d] = NoTask] /\ stray' = stray \union AboutOf(task[d])
      /\ UNCHANGED <<script, currentScript, board, tagOf, ratings, tasks>>
  BY DEF TaskFails, Drops
<1>2. task' \in [Agents -> Task] /\ task'[d].at = "idle" /\ OtherTasks(d) /\ stray \subseteq stray'
  BY <1>1, DoneEffect
<1>3. task[d].at = "clearTag" => <<"tag", task[d].i>> \in stray'
  BY <1>1, DeskAt, AboutFacts
<1>4. /\ FirstTags' /\ Len(board.tags) <= Len(board'.tags)
      /\ \A i \in DOMAIN board'.tags : TagOK(i)'
      /\ \A m \in TagNames : TagNameOK(m)'
  BY <1>1, <1>2, <1>3, BoardUntouched
<1>5. DeskTypeOK'
  BY <1>1, <1>2 DEF DeskInv, DeskTypeOK
<1>6. \A s \in Scripts : ScriptOK(s)'
  BY <1>1, <1>2, ScriptsUntouched
<1>7. \A u \in Raters : RatingOK(u)'
  BY <1>1, <1>2, RatingsUntouched
<1> QED BY <1>1, <1>2, <1>4, <1>5, <1>6, <1>7, TaskEnds

-----------------------------------------------------------------------------
LEMMA DeskBegins == DeskInit => DeskInv
<1> SUFFICES ASSUME DeskInit PROVE DeskInv
  OBVIOUS
<1>1. /\ script = [s \in Scripts |-> "none"] /\ currentScript = NoScript
      /\ board = [tags |-> <<ReadonlyTag("pending"), ReadonlyTag("completed")>>, v |-> 0]
      /\ tagOf = [c \in Chats |-> 0] /\ ratings = [by |-> <<>>, v |-> 0]
      /\ task = [d \in Agents |-> NoTask] /\ tasks = 0 /\ stray = {}
  BY DEF DeskInit
<1>2. \A d \in Agents : task[d] = NoTask /\ task[d].at = "idle" /\ AboutOf(task[d]) = {}
  BY <1>1, NoTaskTypes
<1>3. /\ board.tags = <<ReadonlyTag("pending"), ReadonlyTag("completed")>>
      /\ board.tags \in Seq(Tag) /\ Len(board.tags) = 2 /\ DOMAIN board.tags = 1..2
  <2>1. ReadonlyTag("pending") \in Tag /\ ReadonlyTag("completed") \in Tag
    BY DEF ReadonlyTag, Tag
  <2> QED BY <1>1, <2>1
<1>4. FirstTags
  BY <1>3 DEF FirstTags
<1>5. DeskTypeOK
  <2>1. tasks \in 0..MaxTasks
    BY <1>1, DeskAssumption
  <2>2. tagOf \in [Chats -> 0..Len(board.tags)]
    BY <1>1, <1>3
  <2>3. board \in [tags : Seq(Tag), v : Nat] /\ ratings \in [by : Seq(Raters), v : Nat]
    BY <1>1, <1>3
  <2> QED BY <1>1, <2>1, <2>2, <2>3, NoTaskTypes DEF DeskTypeOK
<1>6. TasksApart /\ \A d \in Agents : TaskOK(d)
  BY <1>2 DEF TasksApart, TaskOK
<1>7. \A s \in Scripts : ScriptOK(s)
  BY <1>1, <1>2, DeskAssumption DEF ScriptOK
<1>8. ASSUME NEW i \in DOMAIN board.tags PROVE TagOK(i)
  <2>1. i = 1 \/ i = 2
    BY <1>3
  <2>2. ~board.tags[i].isDeleted
    BY <1>4, <2>1 DEF FirstTags, ReadonlyTag
  <2> QED BY <2>2 DEF TagOK
<1>9. \A u \in Raters : RatingOK(u)
  BY <1>1, <1>2 DEF RatingOK
<1>10. ASSUME NEW m \in TagNames PROVE TagNameOK(m)
  <2>1. \A i, j \in NamedLive(m) : i = j
    <3>1. NamedLive(m) \subseteq 1..2 /\ \A i \in NamedLive(m) : board.tags[i].name = m
      BY <1>3 DEF NamedLive
    <3>2. board.tags[1].name = "pending" /\ board.tags[2].name = "completed"
      BY <1>4 DEF FirstTags, ReadonlyTag
    <3>3. \A i \in 1..2 : i = 1 \/ i = 2
      OBVIOUS
    <3> QED BY <3>1, <3>2, <3>3
  <2> QED BY <1>2, <2>1 DEF TagNameOK
<1> QED BY <1>4, <1>5, <1>6, <1>7, <1>8, <1>9, <1>10 DEF DeskInv

LEMMA DeskStays == DeskInv /\ UNCHANGED deskVars => DeskInv'
<1> SUFFICES ASSUME DeskInv, UNCHANGED deskVars PROVE DeskInv'
  OBVIOUS
<1>1. UNCHANGED <<script, currentScript, board, tagOf, ratings, task, tasks, stray>>
  BY DEF deskVars
<1>2. DeskTypeOK' /\ FirstTags' /\ TasksApart' /\ \A d \in Agents : TaskOK(d)'
  BY <1>1 DEF DeskInv, DeskTypeOK, FirstTags, TasksApart, TaskOK
<1>3. (\A s \in Scripts : ScriptOK(s)') /\ \A i \in DOMAIN board'.tags : TagOK(i)'
  BY <1>1 DEF DeskInv, ScriptOK, TagOK
<1>4. (\A u \in Raters : RatingOK(u)') /\ \A m \in TagNames : TagNameOK(m)'
  <2>1. \A m : NamedLive(m)' = NamedLive(m)
    BY <1>1 DEF NamedLive
  <2> QED BY <1>1, <2>1 DEF DeskInv, RatingOK, TagNameOK
<1> QED BY <1>2, <1>3, <1>4 DEF DeskInv

LEMMA DeskKeeps == DeskInv /\ [DeskNext]_deskVars => DeskInv'
<1> SUFFICES ASSUME DeskInv, [DeskNext]_deskVars PROVE DeskInv'
  OBVIOUS
<1>1. ASSUME NEW d \in Agents, Continues(d) PROVE DeskInv'
  BY <1>1, MakesScriptKeeps, ChoosesKeeps, DropsScriptsKeeps, PushesTagKeeps, SavesTagKeeps,
     ClearsTagKeeps, GivesTagKeeps, SavesRatingKeeps, TaskFailsKeeps DEF Continues
<1>2. ASSUME UNCHANGED deskVars PROVE DeskInv'
  BY <1>2, DeskStays
<1> QED BY <1>1, <1>2, DeskBeginningKeeps DEF DeskNext

LEMMA ScriptsLive == DeskInv => ScriptInUseLives
<1>1. DeskInv => currentScript \in Scripts \union {NoScript}
  BY DEF DeskInv, DeskTypeOK
<1> QED BY <1>1 DEF DeskInv, ScriptOK, ScriptInUseLives, Calm

LEMMA TagsCleared == DeskInv => DeletedTagsCleared
<1> SUFFICES ASSUME DeskInv, NEW i \in DOMAIN board.tags, board.tags[i].isDeleted, Calm(<<"tag", i>>)
             PROVE  \A c \in Chats : tagOf[c] # i
  BY DEF DeletedTagsCleared
<1>1. ASSUME NEW d \in Agents, task[d].at = "clearTag" PROVE task[d].i # i
  <2>1. <<"tag", i>> \notin AboutOf(task[d])
    BY DEF Calm, Busy
  <2> QED BY <1>1, <2>1, DeskAt, AboutFacts
<1> QED BY <1>1 DEF DeskInv, TagOK, Calm

LEMMA DeskTwins == DeskInv => DeskTwinsOverlapped
<1> SUFFICES ASSUME DeskInv PROVE DeskTwinsOverlapped
  OBVIOUS
<1>1. ASSUME NEW i \in DOMAIN ratings.by, NEW j \in DOMAIN ratings.by, ratings.by[i] = ratings.by[j],
             Calm(<<"rating", ratings.by[i]>>)
      PROVE  i = j
  <2>1. ratings.by \in Seq(Raters)
    BY DEF DeskInv, DeskTypeOK
  <2>2. ratings.by[i] \in Raters
    BY <2>1
  <2>3. RatingOK(ratings.by[i])
    BY <2>2 DEF DeskInv
  <2> QED BY <1>1, <2>3 DEF RatingOK, Calm
<1>2. \A name \in TagNames : Calm(<<"name", name>>) => \A i, j \in NamedLive(name) : i = j
  BY DEF DeskInv, TagNameOK, Calm
<1> QED BY <1>1, <1>2 DEF DeskTwinsOverlapped

(* The types of the desk. *)
THEOREM DeskTypes == DeskSpec => []DeskTypeOK
<1>1. DeskInv => DeskTypeOK
  BY DEF DeskInv
<1> QED BY <1>1, DeskBegins, DeskKeeps, PTL DEF DeskSpec

(* The script that an extension runs is one that is there, and no            *)
(* conversation keeps a tag that was deleted, but for requests that          *)
(* overlapped or were not ended (removeScripts, createOrEditExtension,       *)
(* deleteTag, changeTagRoom, endConversation).                               *)
THEOREM DeskReferences == DeskSpec => [](ScriptInUseLives /\ DeletedTagsCleared)
<1>1. DeskInv => ScriptInUseLives /\ DeletedTagsCleared
  BY ScriptsLive, TagsCleared
<1> QED BY <1>1, DeskBegins, DeskKeeps, PTL DEF DeskSpec

(* Two ratings of a client, and two tags of one name, come only of requests  *)
(* that overlapped or of a tag that was renamed (rating, createOrEditTag).   *)
THEOREM DeskTwinsOverlap == DeskSpec => []DeskTwinsOverlapped
<1> QED BY DeskBegins, DeskKeeps, DeskTwins, PTL DEF DeskSpec
-----------------------------------------------------------------------------
(* The space: the colleagues of a help desk.                                 *)

(* No two entries have the token of one invitation, nor has one the token of *)
(* an invitation under way; and an invitation has a token.                   *)
TokensOK(s) ==
  /\ \A i \in DOMAIN s : /\ s[i].status = "invited" => s[i].token # 0
                         /\ s[i].token <= orders \/ s[i].token > MaxOrders
                         /\ \A k \in Clerks : order[k].at \in {"push", "put"} => s[i].token # order[k].n
  /\ \A i, j \in DOMAIN s : s[i].token = s[j].token /\ s[i].token # 0 => i = j

Numbered(k) == order[k].at # "idle" => order[k].n \in 1..orders

(* A request that will save an entry has the place of one of its user, while *)
(* the version that it read stands.                                          *)
OrderOK(k) ==
  /\ order[k].v <= space.v
  /\ order[k].at \in {"push", "put"} =>
       /\ order[k].seat.token = order[k].n /\ order[k].seat.email = order[k].who
       /\ order[k].seat.status = "invited"
  /\ order[k].at \in {"put", "join", "delete", "role"} /\ order[k].v = space.v =>
       order[k].i \in DOMAIN space.members /\ space.members[order[k].i].email = order[k].who
  /\ order[k].at = "decline" => TokensOK(order[k].list)

NumbersApart ==
  \A k, q \in Clerks : order[k].at # "idle" /\ order[q].at # "idle" /\ order[k].n = order[q].n => k = q

(* The requests that may change whether the user is a colleague, or who was  *)
(* one when they read.                                                       *)
Writes(k, u) ==
  \/ order[k].at \in {"push", "put", "delete", "role", "join", "enter"} /\ order[k].who = u
  \/ order[k].at \in {"decline", "open"}

(* A user whom requests regard one at a time has one entry, deleted or not.  *)
OneEntry(s, u) == \A i, j \in DOMAIN s : s[i].email = u /\ s[j].email = u => i = j

(* What a refusal writes back of the user is what the space has.             *)
ListOK(k, u) ==
  /\ OneEntry(order[k].list, u)
  /\ order[k].v = space.v =>
       \A j \in DOMAIN order[k].list : order[k].list[j].email = u =>
         \E i \in DOMAIN space.members : space.members[i] = order[k].list[j]

SettledOK(u) ==
  /\ \A k, q \in Clerks : Writes(k, u) /\ Writes(q, u) => k = q
  /\ OneEntry(space.members, u)
  /\ \A k \in Clerks :
       /\ order[k].at = "push" /\ order[k].who = u => \A i \in DOMAIN space.members : space.members[i].email # u
       /\ order[k].at = "open" /\ IsColleague(u) => u \in order[k].people
       /\ order[k].at = "decline" => ListOK(k, u)
  /\ IsColleague(u) /\ (\A k \in Clerks : order[k].at = "enter" => order[k].who # u) =>
       \A t \in talks : u \in t.people

OrdersOK == SpacesTypeOK /\ \A k \in Clerks : Numbered(k)

SpacesInv ==
  /\ OrdersOK /\ NumbersApart
  /\ TokensOK(space.members)
  /\ \A k \in Clerks : OrderOK(k)
  /\ \A u \in settled : SettledOK(u)

-----------------------------------------------------------------------------
LEMMA SpaceConstants ==
  /\ MaxOrders \in Nat /\ Len(Firsts) \in Nat /\ Boss \in Folk
  /\ 0 \in Links \union {0} /\ \A n \in 1..MaxOrders : n \in Links
  BY SpacesAssumption, LenProperties DEF Links

LEMMA NoOrderTypes == NoOrder \in Order /\ NoOrder.at = "idle" /\ Creator \in Seat
<1>1. Creator \in Seat
  BY SpaceConstants DEF Creator, Seat, Roles
<1> QED BY <1>1, SpaceConstants DEF NoOrder, Order

LEMMA MembersAre ==
  ASSUME space \in Space
  PROVE  /\ space.members \in Seq(Seat) /\ space.v \in Nat /\ space.active \in BOOLEAN
         /\ DOMAIN space.members = 1..Len(space.members)
         /\ \A i \in DOMAIN space.members : space.members[i] \in Seat
  BY LenProperties DEF Space

LEMMA SeatFound ==
  ASSUME space \in Space, NEW u
  PROVE  /\ SeatOf(u) \in Nat
         /\ SeatOf(u) # 0 =>
              /\ SeatOf(u) \in DOMAIN space.members
              /\ space.members[SeatOf(u)].email = u /\ space.members[SeatOf(u)].status # "deleted"
         /\ SeatOf(u) = 0 =>
              \A i \in DOMAIN space.members : space.members[i].email = u => space.members[i].status = "deleted"
<1>1. PICK s : s = space.members /\ s \in Seq(Seat) /\ DOMAIN s = 1..Len(s)
  BY MembersAre
<1>2. PICK I : I = {i \in 1..Len(s) : s[i].email = u /\ s[i].status # "deleted"}
  OBVIOUS
<1>3. PICK p : p = SeatOf(u) /\ p = IF I # {} THEN Min(I) ELSE 0
  BY <1>1, <1>2 DEF SeatOf, SelectInSeq
<1>4. I \in SUBSET DOMAIN s
  BY <1>1, <1>2
<1>5. p \in Nat /\ (p # 0 => p \in I /\ p \in DOMAIN s) /\ (p = 0 => I = {})
  BY <1>1, <1>3, <1>4, LeastPlace
<1> QED BY <1>1, <1>2, <1>3, <1>5

LEMMA HoldingFound ==
  ASSUME space \in Space, NEW t
  PROVE  /\ Holding(t) \in Nat
         /\ Holding(t) # 0 =>
              Holding(t) \in DOMAIN space.members /\ space.members[Holding(t)].token = t
         /\ Holding(t) = 0 => \A i \in DOMAIN space.members : space.members[i].token # t
<1>1. PICK s : s = space.members /\ s \in Seq(Seat) /\ DOMAIN s = 1..Len(s)
  BY MembersAre
<1>2. PICK I : I = {i \in 1..Len(s) : s[i].token = t}
  OBVIOUS
<1>3. PICK p : p = Holding(t) /\ p = IF I # {} THEN Min(I) ELSE 0
  BY <1>1, <1>2 DEF Holding, SelectInSeq
<1>4. I \in SUBSET DOMAIN s
  BY <1>1, <1>2
<1>5. p \in Nat /\ (p # 0 => p \in I /\ p \in DOMAIN s) /\ (p = 0 => I = {})
  BY <1>1, <1>3, <1>4, LeastPlace
<1> QED BY <1>1, <1>2, <1>3, <1>5

(* An entry with the email is shown, if there is one. *)
LEMMA ShownFound ==
  ASSUME space \in Space, NEW u, NEW i \in DOMAIN space.members, space.members[i].email = u
  PROVE  \E j \in DOMAIN space.members : space.members[j].email = u /\ ShownToken(u) = space.members[j].token
<1>1. PICK s : s = space.members /\ s \in Seq(Seat) /\ DOMAIN s = 1..Len(s)
  BY MembersAre
<1>2. PICK I : I = {j \in 1..Len(s) : s[j].email = u}
  OBVIOUS
<1>3. PICK p : ShownToken(u) = s[p].token /\ p = IF I # {} THEN Min(I) ELSE 0
  BY <1>1, <1>2 DEF ShownToken, SelectInSeq
<1>4. I \in SUBSET DOMAIN s /\ i \in I
  BY <1>1, <1>2
<1>5. (p # 0 => p \in I /\ p \in DOMAIN s) /\ (p = 0 => I = {})
  BY <1>1, <1>3, <1>4, LeastPlace
<1> QED BY <1>1, <1>2, <1>3, <1>4, <1>5
-----------------------------------------------------------------------------
(* What a request that begins has to do. *)
Founded(t) ==
  /\ t.at \in {"push", "put", "delete", "role", "join", "decline", "open", "extend", "endExtension", "close"}
  /\ t.at \in {"push", "put"} =>
       t.seat.token = t.n /\ t.seat.email = t.who /\ t.seat.status = "invited"
  /\ t.at \in {"put", "join", "delete", "role"} =>
       t.i \in DOMAIN space.members /\ space.members[t.i].email = t.who
  /\ t.at = "open" => t.people = {u \in Folk : IsColleague(u)}
  /\ t.at = "decline" => \E I \in SUBSET DOMAIN space.members : t.list = Filtered(space.members, I)

TakesHold(t, u) ==
  \/ t.at \in {"push", "put", "delete", "role", "join"} /\ t.who = u
  \/ t.at \in {"decline", "open"}

Starts(k, t) ==
  /\ t \in Order /\ order' = [order EXCEPT ![k] = t] /\ order[k] = NoOrder
  /\ orders < MaxOrders /\ orders' = orders + 1 /\ UNCHANGED <<space, extension, talks>>
  /\ t.n = orders + 1 /\ t.v = space.v /\ settled' \subseteq settled
  /\ Founded(t)
  /\ \A u \in settled' : TakesHold(t, u) => ~InHand(u)
  /\ \A u \in settled' : t.at = "push" /\ t.who = u => \A i \in DOMAIN space.members : space.members[i].email # u

LEMMA BegunStarts ==
  ASSUME OrdersOK, NEW k \in Clerks, NEW o \in Order, Begun(k, o)
  PROVE  \E t \in Order :
           /\ order' = [order EXCEPT ![k] = t] /\ order[k] = NoOrder
           /\ orders < MaxOrders /\ orders' = orders + 1 /\ UNCHANGED <<space, extension, talks>>
           /\ t.n = orders + 1 /\ t.v = space.v /\ t.at = o.at /\ t.who = o.who /\ t.i = o.i
           /\ t.seat = o.seat /\ t.list = o.list /\ t.people = o.people
<1>1. space.v \in Nat /\ orders \in 0..MaxOrders /\ MaxOrders \in Nat
  BY SpaceConstants, MembersAre DEF OrdersOK, SpacesTypeOK
<1>2. PICK t : t = [o EXCEPT !.n = orders + 1, !.v = space.v]
  OBVIOUS
<1>3. orders < MaxOrders /\ orders + 1 \in 0..MaxOrders
  BY <1>1 DEF Begun
<1>4. t \in Order
  BY <1>1, <1>2, <1>3 DEF Order
<1>5. /\ t.n = orders + 1 /\ t.v = space.v /\ t.at = o.at /\ t.who = o.who /\ t.i = o.i
      /\ t.seat = o.seat /\ t.list = o.list /\ t.people = o.people
  BY <1>2 DEF Order
<1> QED BY <1>2, <1>4, <1>5 DEF Begun

LEMMA SavingTypes ==
  ASSUME NEW at \in {"push", "put", "delete", "role", "join", "decline"}, NEW u \in Folk, NEW i \in Nat, NEW seat \in Seat
  PROVE  /\ Saving(at, u, i, seat) \in Order /\ Saving(at, u, i, seat).at = at
         /\ Saving(at, u, i, seat).who = u /\ Saving(at, u, i, seat).i = i /\ Saving(at, u, i, seat).seat = seat
  BY NoOrderTypes DEF Saving, NoOrder, Order

LEMMA InvitedTypes ==
  ASSUME OrdersOK, orders < MaxOrders, NEW u \in Folk, NEW role \in Roles
  PROVE  /\ Invited(u, role) \in Seat /\ Invited(u, role).token = orders + 1
         /\ Invited(u, role).email = u /\ Invited(u, role).status = "invited"
<1>1. orders + 1 \in Links
  BY SpaceConstants DEF OrdersOK, SpacesTypeOK, Links
<1> QED BY <1>1 DEF Invited, Seat

LEMMA InviteStarts ==
  ASSUME OrdersOK, NEW k \in Clerks, NEW u \in Folk, NEW role \in Roles,
         InviteMember(k, u, role) \/ ResendInvitation(k, u, role)
  PROVE  (\E t : Starts(k, t)) /\ UNCHANGED marks
<1>1. space \in Space /\ orders < MaxOrders /\ SeatOf(u) \in Nat
  BY SeatFound DEF OrdersOK, SpacesTypeOK, InviteMember, ResendInvitation, Begun
<1>2. PICK seat \in Seat : seat = Invited(u, role) /\ seat.token = orders + 1 /\ seat.email = u /\ seat.status = "invited"
  BY <1>1, InvitedTypes
<1>3. CASE InviteMember(k, u, role)
  <2>1. PICK o \in Order : o = Saving("push", u, 0, seat) /\ o.at = "push" /\ o.who = u /\ o.seat = seat
    BY SavingTypes
  <2>2. Begun(k, o)
    BY <1>2, <1>3, <2>1 DEF InviteMember
  <2>3. PICK t \in Order :
           /\ order' = [order EXCEPT ![k] = t] /\ order[k] = NoOrder
           /\ orders < MaxOrders /\ orders' = orders + 1 /\ UNCHANGED <<space, extension, talks>>
           /\ t.n = orders + 1 /\ t.v = space.v /\ t.at = "push" /\ t.who = u /\ t.seat = seat
    BY <2>1, <2>2, BegunStarts
  <2>4. settled' = settled \ (MetBy(u) \union {m.email : m \in {e \in Range(space.members) : e.email = u}})
    BY <1>3 DEF InviteMember, Unsettled
  <2>5. u \in settled' => ~InHand(u) /\ \A i \in DOMAIN space.members : space.members[i].email # u
    BY <2>4 DEF MetBy, Range
  <2>6. Starts(k, t)
    BY <1>2, <2>3, <2>4, <2>5 DEF Starts, Founded, TakesHold
  <2> QED BY <1>3, <2>6 DEF InviteMember
<1>4. CASE ResendInvitation(k, u, role)
  <2>1. PICK o \in Order : o = Saving("put", u, SeatOf(u), seat) /\ o.at = "put" /\ o.who = u /\ o.seat = seat /\ o.i = SeatOf(u)
    BY <1>1, SavingTypes
  <2>2. Begun(k, o) /\ SeatOf(u) # 0
    BY <1>2, <1>4, <2>1 DEF ResendInvitation
  <2>3. PICK t \in Order :
           /\ order' = [order EXCEPT ![k] = t] /\ order[k] = NoOrder
           /\ orders < MaxOrders /\ orders' = orders + 1 /\ UNCHANGED <<space, extension, talks>>
           /\ t.n = orders + 1 /\ t.v = space.v /\ t.at = "put" /\ t.who = u /\ t.seat = seat /\ t.i = SeatOf(u)
    BY <2>1, <2>2, BegunStarts
  <2>4. settled' = settled \ MetBy(u)
    BY <1>4 DEF ResendInvitation, Unsettled
  <2>5. u \in settled' => ~InHand(u)
    BY <2>4 DEF MetBy
  <2>6. t.i \in DOMAIN space.members /\ space.members[t.i].email = u
    BY <1>1, <2>2, <2>3, SeatFound
  <2>7. Starts(k, t)
    BY <1>2, <2>3, <2>4, <2>5, <2>6 DEF Starts, Founded, TakesHold
  <2> QED BY <1>4, <2>7 DEF ResendInvitation
<1> QED BY <1>3, <1>4

(* Requests that change an entry at its place. *)
LEMMA PlaceStarts ==
  ASSUME OrdersOK, NEW k \in Clerks, NEW u \in Folk, NEW at \in {"delete", "role", "join"},
         NEW i \in DOMAIN space.members, NEW seat \in Seat,
         space.members[i].email = u, Begun(k, Saving(at, u, i, seat)),
         settled' = settled \ MetBy(u) \/ settled' = settled \ {u}
  PROVE  \E t : Starts(k, t)
<1>1. i \in Nat
  BY MembersAre DEF OrdersOK, SpacesTypeOK
<1>2. PICK o \in Order : o = Saving(at, u, i, seat) /\ o.at = at /\ o.who = u /\ o.i = i
  BY <1>1, SavingTypes
<1>3. PICK t \in Order :
         /\ order' = [order EXCEPT ![k] = t] /\ order[k] = NoOrder
         /\ orders < MaxOrders /\ orders' = orders + 1 /\ UNCHANGED <<space, extension, talks>>
         /\ t.n = orders + 1 /\ t.v = space.v /\ t.at = at /\ t.who = u /\ t.i = i
  BY <1>2, BegunStarts
<1>4. settled' \subseteq settled /\ (u \in settled' => ~InHand(u))
  BY DEF MetBy
<1>5. Starts(k, t)
  BY <1>3, <1>4 DEF Starts, Founded, TakesHold
<1> QED BY <1>5

LEMMA ChangeStarts ==
  ASSUME OrdersOK, NEW k \in Clerks, NEW u \in Folk, NEW role \in Roles,
         RemoveMember(k, u) \/ ChangeRole(k, u, role)
  PROVE  (\E t : Starts(k, t)) /\ UNCHANGED marks
<1>1. space \in Space /\ SeatOf(u) # 0
  BY DEF OrdersOK, SpacesTypeOK, RemoveMember, ChangeRole
<1>2. PICK i \in DOMAIN space.members : i = SeatOf(u) /\ space.members[i].email = u /\ space.members[i] \in Seat
  BY <1>1, SeatFound, MembersAre
<1>3. CASE RemoveMember(k, u)
  <2>1. Begun(k, Saving("delete", u, i, space.members[i])) /\ settled' = settled \ MetBy(u)
    BY <1>2, <1>3 DEF RemoveMember, Unsettled
  <2>2. PICK seat \in Seat : seat = space.members[i]
    BY <1>2
  <2> QED BY <1>2, <1>3, <2>1, <2>2, PlaceStarts DEF RemoveMember
<1>4. CASE ChangeRole(k, u, role)
  <2>1. PICK seat \in Seat : seat = [space.members[i] EXCEPT !.role = role]
    BY <1>2 DEF Seat
  <2>2. Begun(k, Saving("role", u, i, seat)) /\ settled' = settled \ MetBy(u)
    BY <1>2, <1>4, <2>1 DEF ChangeRole, Unsettled
  <2> QED BY <1>2, <1>4, <2>1, <2>2, PlaceStarts DEF ChangeRole
<1> QED BY <1>3, <1>4

LEMMA DeclineStarts ==
  ASSUME OrdersOK, NEW k \in Clerks, NEW u \in Folk, NEW i \in DOMAIN space.members, Decline(k, u, i)
  PROVE  \E t : Starts(k, t)
<1>1. space.members[i] \in Seat /\ i \in Nat /\ space.members \in Seq(Seat)
  BY MembersAre DEF OrdersOK, SpacesTypeOK
<1>2. PICK I \in SUBSET DOMAIN space.members :
        I = {j \in DOMAIN space.members : space.members[j].token # space.members[i].token}
  OBVIOUS
<1>3. PICK list \in Seq(Seat) : list = Filtered(space.members, I)
  <2>1. PICK s \in Seq(Seat) : s = space.members
    BY <1>1
  <2>2. I \in SUBSET DOMAIN s
    BY <2>1
  <2>3. Filtered(s, I) \in Seq(Seat)
    BY <2>2, FilteredLists
  <2> QED BY <2>1, <2>3
<1>4. PICK p \in Order : p = Saving("decline", u, i, space.members[i]) /\ p.at = "decline" /\ p.who = u
  BY <1>1, SavingTypes
<1>5. PICK o \in Order : o = [p EXCEPT !.list = list] /\ o.at = "decline" /\ o.who = u /\ o.list = list
  <2>1. PICK o : o = [p EXCEPT !.list = list]
    OBVIOUS
  <2>2. o.at = p.at /\ o.who = p.who /\ o.list = list
    BY <2>1 DEF Order
  <2>3. o \in Order
    BY <2>1 DEF Order
  <2> QED BY <1>4, <2>1, <2>2, <2>3
<1>a. o.at = "decline" /\ o.who = u /\ o.list = list
  BY <1>5
<1>b. Begun(k, o)
  BY <1>2, <1>3, <1>4, <1>5 DEF Decline
<1>6. settled' = settled \ {w \in Folk : InHand(w)}
  BY DEF Decline, Unsettled
<1>7. PICK t \in Order :
         /\ order' = [order EXCEPT ![k] = t] /\ order[k] = NoOrder
         /\ orders < MaxOrders /\ orders' = orders + 1 /\ UNCHANGED <<space, extension, talks>>
         /\ t.n = orders + 1 /\ t.v = space.v /\ t.at = "decline" /\ t.who = u /\ t.list = list
  BY <1>a, <1>b, BegunStarts
<1>8. \A w \in settled' : w \in settled /\ ~InHand(w)
  BY <1>6 DEF OrdersOK, SpacesTypeOK
<1>9. Starts(k, t)
  BY <1>3, <1>7, <1>8 DEF Starts, Founded, TakesHold
<1> QED BY <1>9

LEMMA ValidateStarts ==
  ASSUME OrdersOK, NEW k \in Clerks, NEW u \in Folk, NEW token, NEW accept, ValidateInvite(k, u, token, accept)
  PROVE  (\E t : Starts(k, t)) /\ UNCHANGED marks
<1>1. space \in Space
  BY DEF OrdersOK, SpacesTypeOK
<1>2. PICK i \in DOMAIN space.members :
        /\ i = Holding(token) /\ space.members[i].email = u /\ space.members[i] \in Seat
        /\ Decline(k, u, i) \/ Accept(k, u, i)
  BY <1>1, HoldingFound, MembersAre DEF ValidateInvite
<1>3. CASE Accept(k, u, i)
  <2>1. Begun(k, Saving("join", u, i, space.members[i]))
    BY <1>3 DEF Accept
  <2>2. PICK seat \in Seat : seat = space.members[i]
    BY <1>2
  <2>3. settled' = settled \ MetBy(u) \/ settled' = settled \ {u}
    BY <1>3 DEF Accept, Unsettled
  <2>4. \E t : Starts(k, t)
    BY <1>2, <2>1, <2>2, <2>3, PlaceStarts
  <2> QED BY <2>4 DEF ValidateInvite
<1> QED BY <1>2, <1>3, DeclineStarts DEF ValidateInvite

LEMMA ClientStarts ==
  ASSUME OrdersOK, NEW k \in Clerks, NEW greets \in BOOLEAN, CreateClient(k, greets)
  PROVE  (\E t : Starts(k, t)) /\ UNCHANGED marks
<1>1. PICK o \in Order :
        /\ o = [NoOrder EXCEPT !.at = "open", !.greets = greets, !.people = {u \in Folk : IsColleague(u)}]
        /\ o.at = "open" /\ o.people = {u \in Folk : IsColleague(u)}
  <2>1. PICK people \in SUBSET Folk : people = {u \in Folk : IsColleague(u)}
    OBVIOUS
  <2>2. PICK o : o = [NoOrder EXCEPT !.at = "open", !.greets = greets, !.people = people]
    OBVIOUS
  <2>3. o.at = "open" /\ o.people = people
    BY <2>2 DEF NoOrder
  <2>4. o \in Order
    BY <2>2, NoOrderTypes DEF Order
  <2> QED BY <2>1, <2>2, <2>3, <2>4
<1>a. PICK people : people = {u \in Folk : IsColleague(u)} /\ o.at = "open" /\ o.people = people
  BY <1>1
<1>b. o.at = "open" /\ o.people = people
  BY <1>a
<1>c. Begun(k, o)
  BY <1>1 DEF CreateClient
<1>2. settled' = settled \ {u \in Folk : InHand(u)}
  BY DEF CreateClient, Unsettled
<1>3. PICK t \in Order :
         /\ order' = [order EXCEPT ![k] = t] /\ order[k] = NoOrder
         /\ orders < MaxOrders /\ orders' = orders + 1 /\ UNCHANGED <<space, extension, talks>>
         /\ t.n = orders + 1 /\ t.v = space.v /\ t.at = "open" /\ t.people = people
  BY <1>b, <1>c, BegunStarts
<1>4. \A w \in settled' : w \in settled /\ ~InHand(w)
  BY <1>2 DEF OrdersOK, SpacesTypeOK
<1>5. Starts(k, t)
  BY <1>a, <1>3, <1>4 DEF Starts, Founded, TakesHold
<1> QED BY <1>5 DEF CreateClient
LEMMA OrdersStart ==
  ASSUME OrdersOK, marks \in Marks, NEW k \in Clerks, Orders(k)
  PROVE  (\E t : Starts(k, t)) /\ marks' \in Marks
<1>1. ASSUME NEW at \in {"extend", "endExtension", "close"}, Begun(k, [NoOrder EXCEPT !.at = at]), UNCHANGED settled
      PROVE  \E t : Starts(k, t)
  <2>1. PICK o \in Order : o = [NoOrder EXCEPT !.at = at] /\ o.at = at
    <3>1. PICK o : o = [NoOrder EXCEPT !.at = at]
      OBVIOUS
    <3>2. o.at = at
      BY <3>1 DEF NoOrder
    <3>3. o \in Order
      BY <3>1, NoOrderTypes DEF Order
    <3> QED BY <3>1, <3>2, <3>3
  <2>2. Begun(k, o) /\ o.at = at
    BY <1>1, <2>1
  <2>3. PICK t \in Order :
           /\ order' = [order EXCEPT ![k] = t] /\ order[k] = NoOrder
           /\ orders < MaxOrders /\ orders' = orders + 1 /\ UNCHANGED <<space, extension, talks>>
           /\ t.n = orders + 1 /\ t.v = space.v /\ t.at = at
    BY <2>2, BegunStarts
  <2>4. Starts(k, t)
    BY <1>1, <2>3 DEF Starts, Founded, TakesHold
  <2> QED BY <2>4
<1>2. CASE EditExtension(k) \/ DeleteExtension(k) \/ DeleteSpace(k)
  <2>1. \E t : Starts(k, t)
    BY <1>1, <1>2 DEF EditExtension, DeleteExtension, DeleteSpace
  <2>2. marks' \in Marks
    BY <1>2 DEF EditExtension, DeleteExtension, DeleteSpace
  <2> QED BY <2>1, <2>2
<1>3. CASE \E u \in Folk : RemoveMember(k, u)
  BY <1>3, ChangeStarts DEF Roles
<1>4. CASE \E u \in Folk, role \in Roles :
             InviteMember(k, u, role) \/ ResendInvitation(k, u, role) \/ ChangeRole(k, u, role)
  BY <1>4, ChangeStarts, InviteStarts
<1>5. CASE \E u \in Folk, token \in Links, accept \in BOOLEAN : ValidateInvite(k, u, token, accept)
  BY <1>5, ValidateStarts
<1>6. CASE \E greets \in BOOLEAN : CreateClient(k, greets)
  BY <1>6, ClientStarts
<1> QED BY <1>2, <1>3, <1>4, <1>5, <1>6 DEF Orders

-----------------------------------------------------------------------------
(* What a request that began leaves. *)
LEMMA StartsTypes ==
  ASSUME OrdersOK, NEW k \in Clerks, NEW t, Starts(k, t), marks' \in Marks
  PROVE  /\ OrdersOK'
         /\ order'[k] = t /\ t.n \notin 1..orders /\ t.n \in 1..MaxOrders
         /\ \A q \in Clerks \ {k} : order'[q] = order[q]
<1>1. order \in [Clerks -> Order] /\ orders \in 0..MaxOrders /\ MaxOrders \in Nat
  BY SpaceConstants DEF OrdersOK, SpacesTypeOK
<1>2. order' \in [Clerks -> Order] /\ order'[k] = t /\ \A q \in Clerks \ {k} : order'[q] = order[q]
  BY <1>1 DEF Starts
<1>3. orders' = orders + 1 /\ orders < MaxOrders /\ t.n = orders + 1
  BY DEF Starts
<1>4. orders' \in 0..MaxOrders
  BY <1>1, <1>3
<1>5. \A q \in Clerks : Numbered(q)'
  BY <1>1, <1>2, <1>3 DEF OrdersOK, Numbered
<1>6. SpacesTypeOK'
  BY <1>2, <1>4 DEF OrdersOK, SpacesTypeOK, Starts
<1> QED BY <1>1, <1>2, <1>3, <1>5, <1>6 DEF OrdersOK

LEMMA StartsApart ==
  ASSUME OrdersOK, NumbersApart, NEW k \in Clerks, NEW t, Starts(k, t), marks' \in Marks
  PROVE  NumbersApart'
<1>1. order'[k] = t /\ t.n \notin 1..orders /\ \A q \in Clerks \ {k} : order'[q] = order[q]
  BY StartsTypes
<1> QED BY <1>1 DEF NumbersApart, OrdersOK, Numbered

LEMMA StartsTokens ==
  ASSUME OrdersOK, NEW k \in Clerks, NEW t, Starts(k, t), marks' \in Marks, NEW s \in Seq(Seat), TokensOK(s)
  PROVE  TokensOK(s)'
<1>1. /\ order'[k] = t /\ t.n \notin 1..orders /\ t.n \in 1..MaxOrders
      /\ \A q \in Clerks \ {k} : order'[q] = order[q]
  BY StartsTypes
<1>2. orders \in Nat /\ MaxOrders \in Nat /\ orders' = orders + 1 /\ t.n = orders + 1
  BY SpaceConstants DEF OrdersOK, SpacesTypeOK, Starts
<1>3. \A i \in DOMAIN s : s[i].token \in Nat
  <2>1. \A i \in DOMAIN s : s[i] \in Seat
    BY LenProperties
  <2> QED BY <2>1, SpaceConstants DEF Seat, Links
<1>4. ASSUME NEW i \in DOMAIN s, NEW q \in Clerks, order'[q].at \in {"push", "put"} PROVE s[i].token # order'[q].n
  <2>1. CASE q = k
    BY <1>1, <1>2, <1>3, <2>1 DEF TokensOK
  <2>2. CASE q # k
    BY <1>1, <1>4, <2>2 DEF TokensOK
  <2> QED BY <2>1, <2>2
<1>5. ASSUME NEW i \in DOMAIN s PROVE s[i].token <= orders' \/ s[i].token > MaxOrders
  BY <1>2, <1>3 DEF TokensOK
<1> QED BY <1>4, <1>5 DEF TokensOK
(* A filtered list takes each of its elements from a place of its own. *)
LEMMA FilteredFrom ==
  ASSUME NEW s \in Seq(Seat), NEW I \in SUBSET DOMAIN s
  PROVE  \E f : /\ \A n \in DOMAIN Filtered(s, I) : f[n] \in DOMAIN s /\ Filtered(s, I)[n] = s[f[n]]
                /\ \A n, p \in DOMAIN Filtered(s, I) : f[n] = f[p] => n = p
<1>1. PICK m \in Nat : DOMAIN s = 1..m
  BY LenProperties
<1>2. I \in SUBSET (1..m)
  BY <1>1
<1>3. /\ Cardinality(I) \in Nat /\ DOMAIN Filtered(s, I) = 1..Cardinality(I)
      /\ \A n \in 1..Cardinality(I) : NthOf(I, n) \in I /\ Filtered(s, I)[n] = s[NthOf(I, n)]
      /\ \A n, p \in 1..Cardinality(I) : n < p => NthOf(I, n) < NthOf(I, p)
  BY <1>2, FilteredPlaces
<1>4. PICK f : f = [n \in 1..Cardinality(I) |-> NthOf(I, n)]
  OBVIOUS
<1>5. \A n \in 1..Cardinality(I) : f[n] \in DOMAIN s /\ Filtered(s, I)[n] = s[f[n]]
  BY <1>3, <1>4
<1>6. ASSUME NEW n \in 1..Cardinality(I), NEW p \in 1..Cardinality(I), f[n] = f[p] PROVE n = p
  <2>1. f[n] \in Nat /\ n \in Nat /\ p \in Nat
    BY <1>1, <1>3, <1>5
  <2>2. (n < p => f[n] < f[p]) /\ (p < n => f[p] < f[n])
    BY <1>3, <1>4
  <2> QED BY <1>6, <2>1, <2>2
<1>7. \A n, p \in 1..Cardinality(I) : f[n] = f[p] => n = p
  BY <1>6
<1>8. /\ \A n \in DOMAIN Filtered(s, I) : f[n] \in DOMAIN s /\ Filtered(s, I)[n] = s[f[n]]
      /\ \A n, p \in DOMAIN Filtered(s, I) : f[n] = f[p] => n = p
  BY <1>3, <1>5, <1>7, Zenon
<1> QED BY <1>8, Zenon

LEMMA FilteredKeeps ==
  ASSUME NEW s \in Seq(Seat), NEW I \in SUBSET DOMAIN s, NEW list, list = Filtered(s, I)
  PROVE  /\ TokensOK(s) => TokensOK(list)
         /\ \A u : OneEntry(s, u) => OneEntry(list, u)
         /\ \A n \in DOMAIN list : \E i \in DOMAIN s : s[i] = list[n]
<1>1. PICK f : /\ \A n \in DOMAIN list : f[n] \in DOMAIN s /\ list[n] = s[f[n]]
               /\ \A n, p \in DOMAIN list : f[n] = f[p] => n = p
  BY FilteredFrom
<1>2. TokensOK(s) => TokensOK(list)
  BY <1>1 DEF TokensOK
<1>3. \A u : OneEntry(s, u) => OneEntry(list, u)
  BY <1>1 DEF OneEntry
<1>4. \A n \in DOMAIN list : \E i \in DOMAIN s : s[i] = list[n]
  BY <1>1
<1> QED BY <1>2, <1>3, <1>4

LEMMA OrdersAre ==
  ASSUME OrdersOK, NEW k \in Clerks
  PROVE  /\ order[k] \in Order /\ order[k].list \in Seq(Seat) /\ order[k].seat \in Seat
         /\ order[k].v \in Nat /\ order[k].i \in Nat /\ order[k].who \in Folk /\ order[k].people \in SUBSET Folk
         /\ order[k].n \in Nat
  BY SpaceConstants DEF OrdersOK, SpacesTypeOK, Order

LEMMA StartsOrders ==
  ASSUME SpacesInv, NEW k \in Clerks, NEW t, Starts(k, t), marks' \in Marks
  PROVE  TokensOK(space.members)' /\ \A q \in Clerks : OrderOK(q)'
<1>1. /\ OrdersOK /\ t \in Order /\ UNCHANGED space /\ order'[k] = t
      /\ \A q \in Clerks \ {k} : order'[q] = order[q]
  BY StartsTypes DEF SpacesInv, Starts
<1>2. PICK s \in Seq(Seat) : s = space.members
  BY <1>1, MembersAre DEF OrdersOK, SpacesTypeOK
<1>3. TokensOK(s)
  BY <1>2 DEF SpacesInv
<1>4. TokensOK(s)'
  BY <1>1, <1>3, StartsTokens
<1>5. TokensOK(space.members)'
  BY <1>1, <1>2, <1>4 DEF TokensOK
<1>6. ASSUME NEW q \in Clerks, q # k PROVE OrderOK(q)'
  <2>1. order'[q] = order[q] /\ OrderOK(q)
    BY <1>1, <1>6 DEF SpacesInv
  <2>2. ASSUME order[q].at = "decline" PROVE TokensOK(order[q].list)'
    <3>1. PICK list \in Seq(Seat) : list = order[q].list
      BY <1>1, OrdersAre
    <3>2. TokensOK(list)
      BY <2>1, <2>2, <3>1 DEF OrderOK
    <3>3. TokensOK(list)'
      BY <1>1, <3>2, StartsTokens
    <3> QED BY <2>1, <3>1, <3>3
  <2>3. UNCHANGED <<order[q], space>> /\ (order[q].at = "decline" => TokensOK(order[q].list)')
    BY <1>1, <2>1, <2>2
  <2> QED BY <2>1, <2>3 DEF OrderOK
<1>7. OrderOK(k)'
  <2>1. t.v = space.v /\ Founded(t) /\ space.v \in Nat
    BY <1>1, MembersAre DEF Starts, OrdersOK, SpacesTypeOK
  <2>2. ASSUME t.at = "decline" PROVE TokensOK(t.list)'
    <3>1. PICK I \in SUBSET DOMAIN s : t.list = Filtered(s, I)
      BY <1>2, <2>1, <2>2 DEF Founded
    <3>2. PICK list : list = t.list
      OBVIOUS
    <3>3. list \in Seq(Seat)
      BY <3>1, <3>2, FilteredLists
    <3>4. TokensOK(list)
      BY <1>3, <3>1, <3>2, FilteredKeeps
    <3>5. TokensOK(list)'
      BY <1>1, <3>3, <3>4, StartsTokens
    <3> QED BY <3>2, <3>5
  <2>3. t.at = "decline" => TokensOK(order[k].list)'
    BY <1>1, <2>2
  <2> QED BY <1>1, <2>1, <2>3 DEF OrderOK, Founded
<1> QED BY <1>5, <1>6, <1>7
LEMMA StartsSettled ==
  ASSUME SpacesInv, NEW k \in Clerks, NEW t, Starts(k, t), marks' \in Marks, NEW u \in settled'
  PROVE  SettledOK(u)'
<1>1. /\ OrdersOK /\ t \in Order /\ UNCHANGED <<space, talks>> /\ order'[k] = t /\ u \in settled
      /\ \A q \in Clerks \ {k} : order'[q] = order[q]
  BY StartsTypes DEF SpacesInv, Starts
<1>2. SettledOK(u)
  BY <1>1 DEF SpacesInv
<1>3. IsColleague(u)' <=> IsColleague(u)
  BY <1>1 DEF IsColleague
<1>4. /\ \A q \in Clerks \ {k} : Writes(q, u)' <=> Writes(q, u)
      /\ Writes(k, u)' => TakesHold(t, u)
  <2>1. Founded(t)
    BY DEF Starts
  <2> QED BY <1>1, <2>1 DEF Writes, TakesHold, Founded
<1>5. Writes(k, u)' => \A q \in Clerks : ~Writes(q, u)
  BY <1>4 DEF Starts, InHand, Regards, Writes
<1>6. \A q, r \in Clerks : Writes(q, u)' /\ Writes(r, u)' => q = r
  BY <1>2, <1>4, <1>5 DEF SettledOK
<1>7. PICK s \in Seq(Seat) : s = space.members
  BY <1>1, MembersAre DEF OrdersOK, SpacesTypeOK
<1>8. OneEntry(space.members, u)'
  BY <1>1, <1>2 DEF SettledOK, OneEntry
<1>9. order'[k].at = "push" /\ order'[k].who = u => \A i \in DOMAIN space'.members : space'.members[i].email # u
  BY <1>1 DEF Starts
<1>10. order'[k].at = "open" /\ IsColleague(u)' => u \in order'[k].people
  <2>1. u \in Folk
    BY <1>1 DEF OrdersOK, SpacesTypeOK
  <2> QED BY <1>1, <1>3, <2>1 DEF Starts, Founded
<1>11. ASSUME order'[k].at = "decline" PROVE ListOK(k, u)'
  <2>1. PICK I \in SUBSET DOMAIN s : t.list = Filtered(s, I)
    BY <1>1, <1>7, <1>11 DEF Starts, Founded
  <2>2. PICK list : list = t.list
    OBVIOUS
  <2>3. OneEntry(s, u)
    BY <1>2, <1>7 DEF SettledOK
  <2>4. OneEntry(list, u) /\ \A n \in DOMAIN list : \E i \in DOMAIN s : s[i] = list[n]
    BY <2>1, <2>2, <2>3, FilteredKeeps
  <2>5. order'[k].list = list /\ space'.members = s
    BY <1>1, <1>7, <2>2
  <2> QED BY <2>4, <2>5 DEF ListOK, OneEntry
<1>12. ASSUME NEW q \in Clerks, q # k
       PROVE  /\ order'[q].at = "push" /\ order'[q].who = u => \A i \in DOMAIN space'.members : space'.members[i].email # u
              /\ order'[q].at = "open" /\ IsColleague(u)' => u \in order'[q].people
              /\ order'[q].at = "decline" => ListOK(q, u)'
  BY <1>1, <1>2, <1>3, <1>12 DEF SettledOK, ListOK
<1>13. IsColleague(u)' /\ (\A q \in Clerks : order'[q].at = "enter" => order'[q].who # u) =>
         \A x \in talks' : u \in x.people
  <2>1. \A q \in Clerks : order[q].at = "enter" => q # k
    BY NoOrderTypes DEF Starts
  <2> QED BY <1>1, <1>2, <1>3, <2>1 DEF SettledOK
<1> QED BY <1>6, <1>8, <1>9, <1>10, <1>11, <1>12, <1>13 DEF SettledOK

LEMMA StartsKeeps ==
  ASSUME SpacesInv, NEW k \in Clerks, Orders(k) PROVE SpacesInv'
<1>1. PICK t : Starts(k, t) /\ marks' \in Marks
  BY OrdersStart DEF SpacesInv, OrdersOK, SpacesTypeOK
<1>2. OrdersOK' /\ NumbersApart'
  BY <1>1, StartsTypes, StartsApart DEF SpacesInv
<1>3. TokensOK(space.members)' /\ \A q \in Clerks : OrderOK(q)'
  BY <1>1, StartsOrders
<1>4. \A u \in settled' : SettledOK(u)'
  BY <1>1, StartsSettled
<1> QED BY <1>2, <1>3, <1>4 DEF SpacesInv
-----------------------------------------------------------------------------
(* What a step of a request does to the requests. *)
Goes(k) ==
  /\ order' \in [Clerks -> Order] /\ orders' = orders /\ settled' \subseteq settled /\ marks' \in Marks
  /\ \A q \in Clerks \ {k} : order'[q] = order[q]
  /\ \/ order'[k] = NoOrder
     \/ \E at \in {"enter", "greet", "endTalks", "closeExtension", "saveExtension"} :
          /\ order[k].at # "idle" /\ (at = "enter" => order[k].at = "join")
          /\ order'[k].at = at /\ order'[k].n = order[k].n /\ order'[k].who = order[k].who
          /\ order'[k].v = order[k].v

LEMMA FinishGoes ==
  ASSUME OrdersOK, NEW k \in Clerks, Finishes(k), orders' = orders, settled' \subseteq settled, marks' \in Marks
  PROVE  Goes(k)
  BY NoOrderTypes DEF OrdersOK, SpacesTypeOK, Finishes, Goes

LEMMA ProceedGoes ==
  ASSUME OrdersOK, NEW k \in Clerks, NEW at \in {"enter", "greet", "endTalks", "closeExtension", "saveExtension"}, Proceeds(k, at),
         order[k].at # "idle", at = "enter" => order[k].at = "join",
         orders' = orders, settled' \subseteq settled, marks' \in Marks
  PROVE  Goes(k)
<1>1. PICK o : o = [order[k] EXCEPT !.at = at]
  OBVIOUS
<1>2. order \in [Clerks -> Order] /\ order[k] \in Order
  BY DEF OrdersOK, SpacesTypeOK
<1>3. o \in Order
  BY <1>1, <1>2 DEF Order
<1>4. o.at = at /\ o.n = order[k].n /\ o.who = order[k].who /\ o.v = order[k].v
  BY <1>1, <1>2 DEF Order
<1>5. order' = [order EXCEPT ![k] = o]
  BY <1>1, <1>2 DEF Proceeds
<1>6. order' \in [Clerks -> Order] /\ order'[k] = o /\ \A q \in Clerks \ {k} : order'[q] = order[q]
  BY <1>2, <1>3, <1>5
<1> QED BY <1>4, <1>6 DEF Goes

LEMMA GivesUpGoes ==
  ASSUME OrdersOK, NEW k \in Clerks, GivesUp(k), orders' = orders
  PROVE  Goes(k)
<1>1. settled' \subseteq settled /\ marks' \in Marks /\ Finishes(k)
  BY DEF OrdersOK, SpacesTypeOK, GivesUp, Unsettled
<1> QED BY <1>1, FinishGoes

(* What a step of a request notes. *)
LEMMA WorksMarks ==
  ASSUME OrdersOK, NEW k \in Clerks, Works(k) PROVE marks' \in Marks
<1>1. /\ marks \in Marks /\ order[k].n \in 0..MaxOrders /\ orders \in 0..MaxOrders
      /\ order[k].at # "idle" => order[k].n \in 1..MaxOrders
  BY SpaceConstants DEF OrdersOK, SpacesTypeOK, Order, Numbered
<1>2. CASE WritesExtension(k)
  BY <1>1, <1>2 DEF WritesExtension, Marks
<1>3. CASE ClosesSpace(k)
  BY <1>1, <1>3 DEF ClosesSpace, SpaceGoes, Marks
<1>4. ASSUME ClosesAll(k), order[k].at # "idle" PROVE marks' \in Marks
  <2>1. PICK closers \in SUBSET (1..MaxOrders) : marks' = [marks EXCEPT !.closers = closers]
    BY <1>1, <1>4 DEF ClosesAll, Marks
  <2> QED BY <1>1, <2>1 DEF Marks
<1>5. CASE FindsExtension(k) \/ SavesExtension(k)
  BY <1>1, <1>4, <1>5 DEF FindsExtension, SavesExtension
<1>6. CASE \/ PushesSeat(k) \/ SavesSeat(k) \/ SavesList(k) \/ EntersTalks(k) \/ OpensTalk(k) \/ Greets(k)
           \/ EndsExtension(k) \/ EndsTalks(k) \/ OrderFails(k)
  <2>1. UNCHANGED marks
    BY <1>6 DEF PushesSeat, SavesSeat, SavesList, EntersTalks, OpensTalk, Greets, EndsExtension, EndsTalks, OrderFails,
                GivesUp
  <2> QED BY <1>1, <2>1
<1> QED BY <1>2, <1>3, <1>5, <1>6 DEF Works

LEMMA WorksGo ==
  ASSUME OrdersOK, NEW k \in Clerks, Works(k) PROVE Goes(k)
<1> USE DEF OrdersOK, SpacesTypeOK
<1>0. marks' \in Marks
  BY WorksMarks
<1>1. CASE PushesSeat(k)
  BY <1>1, FinishGoes DEF PushesSeat
<1>2. CASE SavesSeat(k)
  <2>1. CASE GivesUp(k)
    BY <1>2, <2>1, GivesUpGoes DEF SavesSeat
  <2>2. CASE ~GivesUp(k)
    <3>1. Finishes(k) \/ (order[k].at = "join" /\ Proceeds(k, "enter"))
      BY <1>2, <2>2 DEF SavesSeat
    <3>2. UNCHANGED <<orders, settled, marks>>
      BY <1>2, <2>2 DEF SavesSeat
    <3> QED BY <3>1, <3>2, FinishGoes, ProceedGoes
  <2> QED BY <2>1, <2>2
<1>3. CASE SavesList(k)
  <2>1. CASE GivesUp(k)
    BY <1>3, <2>1, GivesUpGoes DEF SavesList
  <2>2. CASE ~GivesUp(k)
    BY <1>3, <2>2, FinishGoes DEF SavesList
  <2> QED BY <2>1, <2>2
<1>4. CASE EntersTalks(k) \/ Greets(k) \/ WritesExtension(k) \/ EndsTalks(k) \/ SavesExtension(k)
  <2>1. Finishes(k) /\ UNCHANGED <<orders, settled>>
    BY <1>4 DEF EntersTalks, Greets, WritesExtension, EndsTalks, SavesExtension, ClosesAll
  <2> QED BY <1>0, <2>1, FinishGoes
<1>5. CASE OpensTalk(k)
  <2>1. (Finishes(k) \/ Proceeds(k, "greet")) /\ order[k].at = "open" /\ UNCHANGED <<orders, settled, marks>>
    BY <1>5 DEF OpensTalk
  <2> QED BY <2>1, FinishGoes, ProceedGoes
<1>6. CASE EndsExtension(k)
  <2>1. Proceeds(k, "endTalks") /\ order[k].at = "endExtension" /\ UNCHANGED <<orders, settled, marks>>
    BY <1>6 DEF EndsExtension
  <2> QED BY <2>1, ProceedGoes
<1>7. CASE ClosesSpace(k)
  <2>1. Proceeds(k, "closeExtension") /\ order[k].at = "close" /\ UNCHANGED <<orders, settled>>
    BY <1>7 DEF ClosesSpace
  <2> QED BY <1>0, <2>1, ProceedGoes
<1>8. CASE FindsExtension(k)
  <2>1. /\ order[k].at = "closeExtension" /\ UNCHANGED <<orders, settled>>
        /\ Proceeds(k, "saveExtension") \/ Finishes(k)
    BY <1>8 DEF FindsExtension, ClosesAll
  <2> QED BY <1>0, <2>1, FinishGoes, ProceedGoes
<1>9. CASE OrderFails(k)
  BY <1>9, GivesUpGoes DEF OrderFails
<1> QED BY <1>1, <1>2, <1>3, <1>4, <1>5, <1>6, <1>7, <1>8, <1>9 DEF Works

(* What a step of a request does to the members of the space. *)
SeatChanges(k, i, seat) ==
  /\ order[k].at \in {"put", "join", "delete", "role"} /\ order[k].v = space.v /\ i = order[k].i
  /\ space'.members = [space.members EXCEPT ![i] = seat] /\ space'.v = space.v
  /\ seat \in Seat /\ seat.email = order[k].who
  /\ i \in DOMAIN space.members /\ space.members[i].email = order[k].who
  /\ \/ order[k].at = "put" /\ seat = order[k].seat
     \/ seat.token = space.members[i].token /\ (seat.status = "invited" => space.members[i].status = "invited")
  /\ order[k].at # "join" /\ seat.status = "joined" => space.members[i].status = "joined" /\ seat.named = space.members[i].named
  /\ order[k].at = "join" => order'[k].at = "enter"

SeatPushed(k) ==
  /\ order[k].at = "push" /\ order'[k].at = "idle"
  /\ space'.members = Append(space.members, order[k].seat) /\ space'.v = space.v + 1

ListSaved(k) ==
  /\ order[k].at = "decline" /\ order[k].v = space.v /\ order'[k].at = "idle"
  /\ space'.members = order[k].list /\ space'.v = space.v + 1

SameMembers == space'.members = space.members /\ space'.v = space.v

LEMMA SavesEffect ==
  ASSUME OrdersOK, NEW k \in Clerks, OrderOK(k), SavesSeat(k)
  PROVE  space' \in Space /\ (SameMembers \/ \E i, seat : SeatChanges(k, i, seat))
<1>1. space \in Space /\ order \in [Clerks -> Order]
  BY DEF OrdersOK, SpacesTypeOK
<1>2. CASE StillRead(k)
  <2>1. order[k].v = space.v /\ order[k].at \in {"put", "join", "delete", "role"}
    BY <1>2 DEF StillRead, SavesSeat
  <2>2. PICK i \in DOMAIN space.members : i = order[k].i /\ space.members[i].email = order[k].who
    BY <2>1 DEF OrderOK
  <2>3. PICK m \in Seat : m = space.members[i]
    BY <1>1, MembersAre
  <2>4. PICK seat : seat = SeatSaved(k)
    OBVIOUS
  <2>5. /\ seat \in Seat /\ seat.email = order[k].who
        /\ \/ order[k].at = "put" /\ seat = order[k].seat
           \/ seat.token = m.token /\ (seat.status = "invited" => m.status = "invited")
        /\ order[k].at # "join" /\ seat.status = "joined" => m.status = "joined" /\ seat.named = m.named
    <3>1. CASE order[k].at = "put"
      BY <2>4, <3>1, OrdersAre DEF SeatSaved, OrderOK
    <3>2. CASE order[k].at = "join"
      <4>1. seat = [m EXCEPT !.status = "joined", !.named = TRUE]
        BY <2>2, <2>3, <2>4, <3>2 DEF SeatSaved
      <4>2. seat \in Seat /\ seat.email = m.email /\ seat.token = m.token /\ seat.status = "joined"
        BY <4>1 DEF Seat
      <4> QED BY <2>2, <2>3, <3>2, <4>2
    <3>3. CASE order[k].at = "delete"
      <4>1. seat = [m EXCEPT !.status = "deleted"]
        BY <2>2, <2>3, <2>4, <3>3 DEF SeatSaved
      <4>2. seat \in Seat /\ seat.email = m.email /\ seat.token = m.token /\ seat.status = "deleted"
        BY <4>1 DEF Seat
      <4> QED BY <2>2, <2>3, <3>3, <4>2
    <3>4. CASE order[k].at = "role"
      <4>1. PICK role \in Roles : role = order[k].seat.role
        BY OrdersAre DEF Seat
      <4>2. seat = [m EXCEPT !.role = role]
        BY <2>2, <2>3, <2>4, <3>4, <4>1 DEF SeatSaved
      <4>3. seat \in Seat /\ seat.email = m.email /\ seat.token = m.token /\ seat.status = m.status /\ seat.named = m.named
        BY <4>2 DEF Seat
      <4> QED BY <2>2, <2>3, <3>4, <4>3
    <3> QED BY <2>1, <3>1, <3>2, <3>3, <3>4
  <2>6. space' = [space EXCEPT !.members[i] = seat]
    BY <1>2, <2>2, <2>4 DEF SavesSeat
  <2>7. PICK members : members = [space.members EXCEPT ![i] = seat] /\ members \in Seq(Seat)
    <3>1. PICK s \in Seq(Seat) : s = space.members
      BY <1>1, MembersAre
    <3>2. [s EXCEPT ![i] = seat] \in Seq(Seat)
      BY <2>5, <3>1, ExceptSeq
    <3> QED BY <3>1, <3>2
  <2>8. space' = [space EXCEPT !.members = members]
    BY <1>1, <2>6, <2>7
  <2>9. space' \in Space /\ space'.members = members /\ space'.v = space.v
    BY <1>1, <2>7, <2>8 DEF Space
  <2>10. order[k].at = "join" => order'[k].at = "enter"
    <3>1. order[k].at = "join" => order' = [order EXCEPT ![k].at = "enter"]
      BY <1>2 DEF SavesSeat, Proceeds
    <3> QED BY <1>1, <3>1 DEF Order
  <2>11. SeatChanges(k, i, seat)
    BY <2>1, <2>2, <2>3, <2>5, <2>7, <2>9, <2>10 DEF SeatChanges
  <2> QED BY <2>9, <2>11
<1>3. CASE ~StillRead(k)
  BY <1>1, <1>3 DEF SavesSeat, SameMembers
<1> QED BY <1>2, <1>3

LEMMA WorksSpace ==
  ASSUME OrdersOK, NEW k \in Clerks, OrderOK(k), Works(k)
  PROVE  /\ space' \in Space
         /\ SameMembers \/ SeatPushed(k) \/ ListSaved(k) \/ \E i, seat : SeatChanges(k, i, seat)
<1>1. /\ space \in Space /\ order \in [Clerks -> Order]
      /\ space.members \in Seq(Seat) /\ space.v \in Nat /\ space.v + 1 \in Nat
  BY MembersAre DEF OrdersOK, SpacesTypeOK
<1>2. CASE PushesSeat(k)
  <2>1. PICK members \in Seq(Seat) : members = Append(space.members, order[k].seat)
    <3>1. PICK s \in Seq(Seat), seat \in Seat : s = space.members /\ seat = order[k].seat
      BY <1>1, OrdersAre
    <3>2. Append(s, seat) \in Seq(Seat)
      BY AppendProperties
    <3> QED BY <3>1, <3>2
  <2>2. space' = [space EXCEPT !.members = members, !.v = @ + 1]
    BY <1>2, <2>1 DEF PushesSeat
  <2>3. space' \in Space /\ space'.members = members /\ space'.v = space.v + 1
    BY <1>1, <2>2 DEF Space
  <2>4. order'[k].at = "idle"
    BY <1>1, <1>2, NoOrderTypes DEF PushesSeat, Finishes
  <2> QED BY <1>2, <2>1, <2>3, <2>4 DEF SeatPushed, PushesSeat
<1>3. CASE SavesSeat(k)
  BY <1>3, SavesEffect
<1>4. CASE SavesList(k)
  <2>1. CASE StillRead(k)
    <3>1. PICK members \in Seq(Seat) : members = order[k].list
      BY OrdersAre
    <3>2. space' = [space EXCEPT !.members = members, !.v = @ + 1]
      BY <1>4, <2>1, <3>1 DEF SavesList
    <3>3. space' \in Space /\ space'.members = members /\ space'.v = space.v + 1
      BY <1>1, <3>2 DEF Space
    <3>4. order'[k].at = "idle"
      BY <1>1, <1>4, <2>1, NoOrderTypes DEF SavesList, Finishes
    <3> QED BY <1>4, <2>1, <3>1, <3>3, <3>4 DEF ListSaved, SavesList, StillRead
  <2>2. CASE ~StillRead(k)
    BY <1>1, <1>4, <2>2 DEF SavesList, SameMembers
  <2> QED BY <2>1, <2>2
<1>5. CASE ClosesSpace(k)
  <2>1. space' = [space EXCEPT !.active = FALSE]
    BY <1>5 DEF ClosesSpace, SpaceGoes
  <2>2. space' \in Space /\ space'.members = space.members /\ space'.v = space.v
    BY <1>1, <2>1 DEF Space
  <2> QED BY <2>2 DEF SameMembers
<1>6. CASE EntersTalks(k) \/ OpensTalk(k) \/ Greets(k) \/ WritesExtension(k) \/ EndsExtension(k) \/ EndsTalks(k)
           \/ FindsExtension(k) \/ SavesExtension(k) \/ OrderFails(k)
  <2>1. UNCHANGED space
    BY <1>6 DEF EntersTalks, OpensTalk, Greets, WritesExtension, EndsExtension, EndsTalks, FindsExtension, SavesExtension, OrderFails
  <2> QED BY <1>1, <2>1 DEF SameMembers
<1> QED BY <1>2, <1>3, <1>4, <1>5, <1>6 DEF Works
(* What a step of a request does to the conversations. *)
LEMMA WorksTalks ==
  ASSUME OrdersOK, NEW k \in Clerks, Works(k)
  PROVE  /\ talks' \subseteq Talk /\ extension' \in {"none", "active", "deleted"}
         /\ \A x \in talks' :
              \/ \E y \in talks : y.people \subseteq x.people
              \/ order[k].at = "open" /\ x.people = order[k].people
         /\ \A u \in settled' : order[k].at = "enter" /\ order[k].who = u => \A x \in talks' : u \in x.people
<1>1. /\ talks \subseteq Talk /\ extension \in {"none", "active", "deleted"}
      /\ order[k].who \in Folk /\ order[k].people \in SUBSET Folk /\ Numbered(k)
      /\ orders \in 0..MaxOrders /\ MaxOrders \in Nat
  BY OrdersAre, SpaceConstants DEF OrdersOK, SpacesTypeOK
<1>2. CASE EntersTalks(k)
  <2>1. ASSUME NEW x \in talks'
        PROVE  \E y \in talks : x \in Talk /\ x.people = y.people \union {order[k].who}
    <3>1. PICK y \in talks : x = [y EXCEPT !.people = @ \union {order[k].who}]
      BY <1>2 DEF EntersTalks
    <3>2. x \in Talk /\ x.people = y.people \union {order[k].who}
      BY <1>1, <3>1 DEF Talk
    <3> QED BY <3>2
  <2>2. \A x \in talks' : x \in Talk /\ order[k].who \in x.people /\ \E y \in talks : y.people \subseteq x.people
    BY <2>1
  <2>3. extension' = extension
    BY <1>2 DEF EntersTalks
  <2> QED BY <1>1, <2>2, <2>3
<1>3. CASE OpensTalk(k)
  <2>1. PICK n \in 1..MaxOrders : n = order[k].n
    BY <1>1, <1>3 DEF OpensTalk, Numbered
  <2>2. PICK people \in SUBSET Folk : people = order[k].people
    BY <1>1
  <2>3. PICK x : x = [n |-> n, people |-> people, open |-> TRUE, greeted |-> FALSE]
    OBVIOUS
  <2>4. x \in Talk /\ x.people = order[k].people
    BY <2>2, <2>3 DEF Talk
  <2>5. talks' = talks \union {x} /\ extension' = extension /\ order[k].at = "open"
    BY <1>3, <2>1, <2>2, <2>3 DEF OpensTalk
  <2> QED BY <1>1, <2>4, <2>5
<1>4. CASE Greets(k)
  <2>1. ASSUME NEW x \in talks' PROVE x \in Talk /\ \E y \in talks : x.people = y.people
    <3>1. PICK y \in talks : x = [y EXCEPT !.greeted = TRUE] \/ x = y
      BY <1>4 DEF Greets
    <3> QED BY <1>1, <3>1 DEF Talk
  <2> QED BY <1>1, <1>4, <2>1 DEF Greets
<1>5. CASE EndsTalks(k)
  <2>1. ASSUME NEW x \in talks' PROVE x \in Talk /\ \E y \in talks : x.people = y.people
    <3>1. PICK y \in talks : x = [y EXCEPT !.open = FALSE]
      BY <1>5 DEF EndsTalks
    <3> QED BY <1>1, <3>1 DEF Talk
  <2> QED BY <1>1, <1>5, <2>1 DEF EndsTalks
<1>6. CASE PushesSeat(k) \/ SavesSeat(k) \/ SavesList(k) \/ WritesExtension(k) \/ EndsExtension(k) \/ ClosesSpace(k)
           \/ FindsExtension(k) \/ SavesExtension(k)
  <2>1. talks' = talks /\ order[k].at # "enter"
    BY <1>6 DEF PushesSeat, SavesSeat, SavesList, WritesExtension, EndsExtension, ClosesSpace, FindsExtension, SavesExtension
  <2>2. extension' \in {"none", "active", "deleted"}
    BY <1>1, <1>6 DEF PushesSeat, SavesSeat, SavesList, WritesExtension, EndsExtension, ClosesSpace, FindsExtension, SavesExtension
  <2> QED BY <1>1, <2>1, <2>2
<1>7. CASE OrderFails(k)
  <2>1. talks' = talks /\ extension' = extension /\ settled' = settled \ {u \in Folk : Regards(k, u)}
    BY <1>7 DEF OrderFails, GivesUp, Unsettled
  <2>2. \A u \in settled' : ~(order[k].at = "enter" /\ order[k].who = u)
    BY <1>1, <2>1 DEF Regards
  <2> QED BY <1>1, <2>1, <2>2
<1> QED BY <1>2, <1>3, <1>4, <1>5, <1>6, <1>7 DEF Works

LEMMA WorksTypes ==
  ASSUME OrdersOK, NEW k \in Clerks, OrderOK(k), Works(k)
  PROVE  OrdersOK'
<1>1. Goes(k) /\ space' \in Space /\ talks' \subseteq Talk /\ extension' \in {"none", "active", "deleted"}
  BY WorksGo, WorksSpace, WorksTalks
<1>2. SpacesTypeOK'
  BY <1>1 DEF OrdersOK, SpacesTypeOK, Goes
<1>3. \A q \in Clerks : Numbered(q)'
  BY <1>1, NoOrderTypes DEF OrdersOK, Numbered, Goes
<1> QED BY <1>2, <1>3 DEF OrdersOK

LEMMA WorksApart ==
  ASSUME OrdersOK, NumbersApart, NEW k \in Clerks, Works(k)
  PROVE  NumbersApart'
<1>1. Goes(k)
  BY WorksGo
<1>2. \A q \in Clerks : order'[q].at # "idle" => order[q].at # "idle" /\ order'[q].n = order[q].n
  BY <1>1, NoOrderTypes DEF Goes
<1> QED BY <1>2 DEF NumbersApart

LEMMA WorksTokens ==
  ASSUME OrdersOK, NEW k \in Clerks, Works(k), NEW s \in Seq(Seat), TokensOK(s)
  PROVE  TokensOK(s)'
<1>1. Goes(k)
  BY WorksGo
<1>2. \A q \in Clerks : order'[q].at \in {"push", "put"} => order'[q] = order[q]
  BY <1>1, NoOrderTypes DEF Goes
<1> QED BY <1>1, <1>2 DEF TokensOK, Goes

LEMMA SeatPlaces ==
  ASSUME OrdersOK, NEW k \in Clerks, SeatPushed(k), NEW m \in Nat, DOMAIN space.members = 1..m
  PROVE  /\ DOMAIN space'.members = 1..m + 1 /\ space'.members[m + 1] = order[k].seat
         /\ \A i \in 1..m : space'.members[i] = space.members[i]
<1>1. PICK s \in Seq(Seat), seat \in Seat : s = space.members /\ seat = order[k].seat
  BY OrdersAre, MembersAre DEF OrdersOK, SpacesTypeOK
<1>2. Len(s) = m
  BY <1>1, LenProperties
<1>3. PICK r : r = Append(s, seat)
  OBVIOUS
<1>4. r \in Seq(Seat) /\ Len(r) = m + 1 /\ r[m + 1] = seat /\ \A i \in 1..m : r[i] = s[i]
  BY <1>2, <1>3, AppendProperties
<1>5. DOMAIN r = 1..m + 1
  BY <1>4, LenProperties
<1> QED BY <1>1, <1>3, <1>4, <1>5 DEF SeatPushed
LEMMA GoesAt ==
  ASSUME NEW k \in Clerks, Goes(k)
  PROVE  /\ order'[k].at \in {"idle", "enter", "greet", "endTalks", "closeExtension", "saveExtension"}
         /\ \A q \in Clerks : order'[q].at \in {"push", "put", "delete", "role", "join", "decline", "open"} =>
                                q # k /\ order'[q] = order[q]
         /\ order'[k].at = "enter" => order[k].at = "join" /\ order'[k].who = order[k].who
<1>1. order'[k].at \in {"idle", "enter", "greet", "endTalks", "closeExtension", "saveExtension"}
  BY NoOrderTypes DEF Goes
<1>2. order'[k].at = "enter" => order[k].at = "join" /\ order'[k].who = order[k].who
  BY NoOrderTypes DEF Goes
<1>3. \A q \in Clerks \ {k} : order'[q] = order[q]
  BY DEF Goes
<1>4. ASSUME NEW q \in Clerks, order'[q].at \in {"push", "put", "delete", "role", "join", "decline", "open"} PROVE q # k
  BY <1>1, <1>4
<1> QED BY <1>1, <1>2, <1>3, <1>4

LEMMA MembersTokens ==
  ASSUME SpacesInv, NEW k \in Clerks, Works(k)
  PROVE  TokensOK(space.members)'
<1>1. /\ OrdersOK /\ NumbersApart /\ OrderOK(k) /\ Numbered(k) /\ Goes(k) /\ TokensOK(space.members)
      /\ orders' = orders /\ orders \in Nat
  BY WorksGo DEF SpacesInv, OrdersOK, SpacesTypeOK, Goes
<1>2. PICK s \in Seq(Seat) : s = space.members /\ TokensOK(s)
  BY <1>1, MembersAre DEF OrdersOK, SpacesTypeOK
<1>3. TokensOK(s)'
  BY <1>1, <1>2, WorksTokens
<1>4. \A q \in Clerks : order'[q].at \in {"push", "put"} => q # k /\ order'[q] = order[q]
  BY <1>1, GoesAt
<1>5. PICK n : n = order[k].n
  OBVIOUS
<1>6. ASSUME order[k].at \in {"push", "put"}
      PROVE  /\ n # 0 /\ n <= orders' /\ \A q \in Clerks : order'[q].at \in {"push", "put"} => n # order'[q].n
             /\ \A i \in DOMAIN s : s[i].token # n
             /\ order[k].seat.token = n /\ order[k].seat.status = "invited"
  <2>1. n \in 1..orders /\ order[k].at # "idle"
    BY <1>1, <1>5, <1>6 DEF Numbered
  <2>2. n # 0 /\ n <= orders'
    BY <1>1, <2>1
  <2>3. \A q \in Clerks : order'[q].at \in {"push", "put"} => n # order'[q].n
    BY <1>1, <1>4, <1>5, <2>1 DEF NumbersApart
  <2> QED BY <1>1, <1>2, <1>5, <1>6, <2>2, <2>3 DEF TokensOK, OrderOK
<1>7. CASE SameMembers
  BY <1>2, <1>3, <1>7 DEF SameMembers, TokensOK
<1>8. CASE SeatPushed(k)
  <2>1. PICK m \in Nat : DOMAIN s = 1..m
    BY LenProperties
  <2>2. PICK r : /\ r = space'.members /\ DOMAIN r = 1..m + 1 /\ r[m + 1] = order[k].seat
                 /\ \A i \in 1..m : r[i] = s[i]
    BY <1>1, <1>2, <1>8, <2>1, SeatPlaces
  <2>3. \A i \in DOMAIN r : (i \in DOMAIN s /\ r[i] = s[i]) \/ i = m + 1
    BY <2>1, <2>2
  <2>4. ASSUME NEW i \in DOMAIN r
        PROVE  /\ r[i].status = "invited" => r[i].token # 0
               /\ r[i].token <= orders' \/ r[i].token > MaxOrders
               /\ \A q \in Clerks : order'[q].at \in {"push", "put"} => r[i].token # order'[q].n
    <3>1. CASE i \in DOMAIN s /\ r[i] = s[i]
      BY <1>3, <3>1 DEF TokensOK
    <3>2. CASE i = m + 1
      BY <1>6, <1>8, <2>2, <3>2 DEF SeatPushed
    <3> QED BY <2>3, <3>1, <3>2
  <2>5. ASSUME NEW i \in DOMAIN r, NEW j \in DOMAIN r, r[i].token = r[j].token, r[i].token # 0 PROVE i = j
    <3>1. n = r[m + 1].token /\ \A x \in DOMAIN s : s[x].token # n
      BY <1>6, <1>8, <2>2 DEF SeatPushed
    <3> QED BY <1>2, <2>3, <2>5, <3>1 DEF TokensOK
  <2> QED BY <2>2, <2>4, <2>5 DEF TokensOK
<1>9. CASE ListSaved(k)
  <2>1. PICK list \in Seq(Seat) : list = order[k].list /\ TokensOK(list)
    BY <1>1, <1>9, OrdersAre DEF ListSaved, OrderOK
  <2>2. TokensOK(list)'
    BY <1>1, <2>1, WorksTokens
  <2> QED BY <1>9, <2>1, <2>2 DEF ListSaved, TokensOK
<1>10. ASSUME NEW p, NEW seat, SeatChanges(k, p, seat) PROVE TokensOK(space.members)'
  <2>1. PICK r : /\ r = space'.members /\ DOMAIN r = DOMAIN s /\ p \in DOMAIN s /\ r[p] = seat
                 /\ \A i \in DOMAIN s \ {p} : r[i] = s[i]
    BY <1>2, <1>10 DEF SeatChanges
  <2>2. \/ order[k].at = "put" /\ seat = order[k].seat
        \/ seat.token = s[p].token /\ (seat.status = "invited" => s[p].status = "invited")
    BY <1>2, <1>10 DEF SeatChanges
  <2>3. CASE order[k].at = "put" /\ seat = order[k].seat
    <3>1. /\ seat.token # 0 /\ seat.token <= orders'
          /\ \A q \in Clerks : order'[q].at \in {"push", "put"} => seat.token # order'[q].n
          /\ \A i \in DOMAIN s : s[i].token # seat.token
      BY <1>6, <2>3
    <3> QED BY <1>3, <2>1, <3>1 DEF TokensOK
  <2>4. CASE seat.token = s[p].token /\ (seat.status = "invited" => s[p].status = "invited")
    <3>1. \A i \in DOMAIN r : r[i].token = s[i].token /\ (r[i].status = "invited" => s[i].status = "invited")
      BY <2>1, <2>4
    <3> QED BY <1>3, <2>1, <3>1 DEF TokensOK
  <2> QED BY <2>2, <2>3, <2>4
<1> QED BY <1>1, <1>7, <1>8, <1>9, <1>10, WorksSpace

LEMMA WorksOrders ==
  ASSUME SpacesInv, NEW k \in Clerks, Works(k), NEW q \in Clerks
  PROVE  OrderOK(q)'
<1>1. OrdersOK /\ OrderOK(k) /\ OrderOK(q) /\ Goes(k) /\ space.v \in Nat /\ order[q].v \in Nat
  BY WorksGo, MembersAre, OrdersAre DEF SpacesInv, OrdersOK, SpacesTypeOK
<1>2. order'[q].v <= space'.v
  <2>1. order'[q].v = 0 \/ order'[q].v = order[q].v
    BY <1>1 DEF Goes, NoOrder
  <2>2. space'.v = space.v \/ space'.v = space.v + 1
    BY <1>1, WorksSpace DEF SameMembers, SeatPushed, ListSaved, SeatChanges
  <2> QED BY <1>1, <2>1, <2>2 DEF OrderOK
<1>3. CASE order'[q].at \notin {"push", "put", "delete", "role", "join", "decline", "open"}
  BY <1>2, <1>3 DEF OrderOK
<1>4. CASE order'[q].at \in {"push", "put", "delete", "role", "join", "decline", "open"}
  <2>1. order'[q] = order[q]
    BY <1>1, <1>4, GoesAt
  <2>2. ASSUME order[q].at = "decline" PROVE TokensOK(order[q].list)'
    <3>1. PICK list \in Seq(Seat) : list = order[q].list /\ TokensOK(list)
      BY <1>1, <2>2, OrdersAre DEF OrderOK
    <3>2. TokensOK(list)'
      BY <1>1, <3>1, WorksTokens
    <3> QED BY <2>1, <3>1, <3>2
  <2>3. ASSUME order[q].at \in {"put", "join", "delete", "role"}, order[q].v = space'.v
        PROVE  order[q].i \in DOMAIN space'.members /\ space'.members[order[q].i].email = order[q].who
    <3>1. order[q].v <= space.v
      BY <1>1 DEF OrderOK
    <3>2. CASE SameMembers
      BY <1>1, <2>3, <3>2 DEF SameMembers, OrderOK
    <3>3. CASE SeatPushed(k) \/ ListSaved(k)
      <4>1. space'.v = space.v + 1
        BY <3>3 DEF SeatPushed, ListSaved
      <4> QED BY <1>1, <2>3, <3>1, <4>1
    <3>4. ASSUME NEW i, NEW seat, SeatChanges(k, i, seat)
          PROVE  order[q].i \in DOMAIN space'.members /\ space'.members[order[q].i].email = order[q].who
      <4>1. order[q].i \in DOMAIN space.members /\ space.members[order[q].i].email = order[q].who
        BY <1>1, <2>3, <3>4 DEF SeatChanges, OrderOK
      <4>2. /\ DOMAIN space'.members = DOMAIN space.members
            /\ \A j \in DOMAIN space.members : space'.members[j].email = space.members[j].email
        BY <3>4 DEF SeatChanges
      <4> QED BY <4>1, <4>2
    <3> QED BY <1>1, <3>2, <3>3, <3>4, WorksSpace
  <2> QED BY <1>1, <1>2, <2>1, <2>2, <2>3 DEF OrderOK
<1> QED BY <1>3, <1>4
(* The requests that change the entries of a user. *)
Edits(k, u) ==
  \/ order[k].at \in {"push", "put", "delete", "role", "join"} /\ order[k].who = u
  \/ order[k].at = "decline"

EntriesStand(u) ==
  /\ \A i \in DOMAIN space.members : space.members[i].email = u =>
       i \in DOMAIN space'.members /\ space'.members[i] = space.members[i]
  /\ \A i \in DOMAIN space'.members : space'.members[i].email = u =>
       i \in DOMAIN space.members /\ space'.members[i] = space.members[i]

(* The entries of a user change by an edit of that user, or by a refusal.    *)
LEMMA OthersStand ==
  ASSUME OrdersOK, NEW k \in Clerks, OrderOK(k), Works(k), NEW u, ~Edits(k, u)
  PROVE  EntriesStand(u)
<1>1. CASE SameMembers
  BY <1>1 DEF SameMembers, EntriesStand
<1>2. CASE SeatPushed(k)
  <2>1. PICK m \in Nat : DOMAIN space.members = 1..m
    BY MembersAre, LenProperties DEF OrdersOK, SpacesTypeOK
  <2>2. /\ DOMAIN space'.members = 1..m + 1 /\ space'.members[m + 1] = order[k].seat
        /\ \A i \in 1..m : space'.members[i] = space.members[i]
    BY <1>2, <2>1, SeatPlaces
  <2>3. order[k].seat.email # u
    BY <1>2 DEF SeatPushed, OrderOK, Edits
  <2>4. \A i \in 1..m + 1 : i \in 1..m \/ i = m + 1
    BY <2>1
  <2>5. \A i \in 1..m : i \in 1..m + 1
    BY <2>1
  <2> QED BY <2>1, <2>2, <2>3, <2>4, <2>5 DEF EntriesStand
<1>3. CASE ListSaved(k)
  BY <1>3 DEF ListSaved, Edits
<1>4. ASSUME NEW i, NEW seat, SeatChanges(k, i, seat) PROVE EntriesStand(u)
  <2>1. seat.email # u /\ space.members[i].email # u
    BY <1>4 DEF SeatChanges, Edits
  <2> QED BY <1>4, <2>1 DEF SeatChanges, EntriesStand
<1> QED BY <1>1, <1>2, <1>3, <1>4, WorksSpace

LEMMA ColleagueStands ==
  ASSUME NEW u, EntriesStand(u) PROVE IsColleague(u)' => IsColleague(u)
  BY DEF EntriesStand, IsColleague, Range

(* A user becomes a colleague by joining. *)
LEMMA ColleagueJoins ==
  ASSUME SpacesInv, NEW k \in Clerks, Works(k), NEW u \in settled, IsColleague(u)', ~IsColleague(u)
  PROVE  order'[k].at = "enter" /\ order[k].who = u
<1>1. OrdersOK /\ OrderOK(k) /\ SettledOK(u)
  BY DEF SpacesInv
<1>2. Edits(k, u)
  BY <1>1, OthersStand, ColleagueStands
<1>3. PICK r : r = space'.members
  OBVIOUS
<1>4. PICK x \in DOMAIN r : r[x].email = u /\ r[x].named /\ r[x].status = "joined"
  BY <1>3 DEF IsColleague, Range
<1>5. \A i \in DOMAIN space.members : space.members[i].email = u =>
        ~space.members[i].named \/ space.members[i].status # "joined"
  BY DEF IsColleague, Range
<1>6. ~SameMembers
  BY <1>3, <1>4, <1>5 DEF SameMembers
<1>7. ~SeatPushed(k)
  <2>1. SUFFICES ASSUME SeatPushed(k) PROVE FALSE
    OBVIOUS
  <2>2. PICK m \in Nat : DOMAIN space.members = 1..m
    BY <1>1, MembersAre, LenProperties DEF OrdersOK, SpacesTypeOK
  <2>3. /\ DOMAIN r = 1..m + 1 /\ r[m + 1] = order[k].seat
        /\ \A i \in 1..m : r[i] = space.members[i]
    BY <1>1, <1>3, <2>1, <2>2, SeatPlaces
  <2>4. x # m + 1
    BY <1>1, <1>4, <2>1, <2>3 DEF SeatPushed, OrderOK
  <2>5. x \in 1..m
    BY <2>2, <2>3, <2>4
  <2> QED BY <1>4, <1>5, <2>2, <2>3, <2>5
<1>8. ~ListSaved(k)
  BY <1>1, <1>3, <1>4, <1>5 DEF ListSaved, SettledOK, ListOK
<1>9. PICK i, seat : SeatChanges(k, i, seat)
  BY <1>1, <1>6, <1>7, <1>8, WorksSpace
<1>10. order[k].who = u
  BY <1>2, <1>9 DEF SeatChanges, Edits
<1>11. order[k].at = "join"
  <2>1. SUFFICES ASSUME order[k].at # "join" PROVE FALSE
    OBVIOUS
  <2>2. CASE x = i
    BY <1>1, <1>3, <1>4, <1>5, <1>9, <2>1, <2>2 DEF SeatChanges, OrderOK
  <2>3. CASE x # i
    BY <1>3, <1>4, <1>5, <1>9, <2>3 DEF SeatChanges
  <2> QED BY <2>2, <2>3
<1> QED BY <1>9, <1>10, <1>11 DEF SeatChanges

LEMMA WorksOneEntry ==
  ASSUME SpacesInv, NEW k \in Clerks, Works(k), NEW u \in settled
  PROVE  OneEntry(space.members, u)'
<1>1. OrdersOK /\ OrderOK(k) /\ SettledOK(u) /\ OneEntry(space.members, u)
  BY DEF SpacesInv, SettledOK
<1>2. CASE ~Edits(k, u)
  BY <1>1, <1>2, OthersStand DEF EntriesStand, OneEntry
<1>3. CASE SameMembers
  BY <1>1, <1>3 DEF SameMembers, OneEntry
<1>4. CASE SeatPushed(k) /\ Edits(k, u)
  <2>1. \A i \in DOMAIN space.members : space.members[i].email # u
    BY <1>1, <1>4 DEF SeatPushed, Edits, SettledOK
  <2>2. PICK m \in Nat : DOMAIN space.members = 1..m
    BY <1>1, MembersAre, LenProperties DEF OrdersOK, SpacesTypeOK
  <2>3. DOMAIN space'.members = 1..m + 1 /\ \A i \in 1..m : space'.members[i] = space.members[i]
    BY <1>1, <1>4, <2>2, SeatPlaces
  <2>4. \A i \in DOMAIN space'.members : i \in 1..m \/ i = m + 1
    BY <2>2, <2>3
  <2>5. \A i \in DOMAIN space'.members : space'.members[i].email = u => i = m + 1
    BY <2>1, <2>2, <2>3, <2>4
  <2> QED BY <2>5 DEF OneEntry
<1>5. CASE ListSaved(k)
  BY <1>1, <1>5 DEF ListSaved, SettledOK, ListOK, OneEntry
<1>6. ASSUME NEW i, NEW seat, SeatChanges(k, i, seat) PROVE OneEntry(space.members, u)'
  <2>1. /\ DOMAIN space'.members = DOMAIN space.members
        /\ \A j \in DOMAIN space.members : space'.members[j].email = space.members[j].email
    BY <1>6 DEF SeatChanges
  <2> QED BY <1>1, <2>1 DEF OneEntry
<1> QED BY <1>1, <1>2, <1>3, <1>4, <1>5, <1>6, WorksSpace
LEMMA WorksSettled ==
  ASSUME SpacesInv, NEW k \in Clerks, Works(k), NEW u \in settled'
  PROVE  SettledOK(u)'
<1>1. OrdersOK /\ OrderOK(k) /\ Goes(k) /\ u \in settled /\ SettledOK(u) /\ \A q \in Clerks : OrderOK(q)
  BY WorksGo DEF SpacesInv, Goes
<1>2. /\ \A q \in Clerks : order'[q].at \in {"push", "put", "delete", "role", "join", "decline", "open"} =>
                             q # k /\ order'[q] = order[q]
      /\ order'[k].at = "enter" => order[k].at = "join" /\ order'[k].who = order[k].who
      /\ \A q \in Clerks \ {k} : order'[q] = order[q]
  BY <1>1, GoesAt DEF Goes
<1>3. \A q \in Clerks : Writes(q, u)' => Writes(q, u)
  BY <1>2 DEF Writes
<1>4. \A q, r \in Clerks : Writes(q, u)' /\ Writes(r, u)' => q = r
  BY <1>1, <1>3 DEF SettledOK
<1>5. OneEntry(space.members, u)'
  BY <1>1, WorksOneEntry
<1>6. ASSUME NEW q \in Clerks, Writes(q, u), q # k PROVE EntriesStand(u) /\ (IsColleague(u)' => IsColleague(u))
  <2>1. ~Writes(k, u)
    BY <1>1, <1>6 DEF SettledOK
  <2>2. EntriesStand(u)
    BY <1>1, <2>1, OthersStand DEF Writes, Edits
  <2> QED BY <2>2, ColleagueStands
<1>7. ASSUME NEW q \in Clerks
      PROVE  /\ order'[q].at = "push" /\ order'[q].who = u =>
                  \A i \in DOMAIN space'.members : space'.members[i].email # u
             /\ order'[q].at = "open" /\ IsColleague(u)' => u \in order'[q].people
             /\ order'[q].at = "decline" => ListOK(q, u)'
  <2>1. CASE order'[q].at = "push" /\ order'[q].who = u
    <3>1. q # k /\ order'[q] = order[q]
      BY <1>2, <2>1
    <3>2. EntriesStand(u)
      BY <1>6, <2>1, <3>1 DEF Writes
    <3> QED BY <1>1, <2>1, <3>1, <3>2 DEF SettledOK, EntriesStand
  <2>2. CASE order'[q].at = "open" /\ IsColleague(u)'
    <3>1. q # k /\ order'[q] = order[q]
      BY <1>2, <2>2
    <3>2. IsColleague(u)
      BY <1>6, <2>2, <3>1 DEF Writes
    <3> QED BY <1>1, <2>2, <3>1, <3>2 DEF SettledOK
  <2>3. CASE order'[q].at = "decline"
    <3>1. q # k /\ order'[q] = order[q]
      BY <1>2, <2>3
    <3>2. EntriesStand(u) /\ ListOK(q, u)
      BY <1>1, <1>6, <2>3, <3>1 DEF Writes, SettledOK
    <3>3. order[q].v = space'.v => order[q].v = space.v
      <4>1. space.v \in Nat /\ order[q].v <= space.v /\ order[q].v \in Nat
        BY <1>1, MembersAre, OrdersAre DEF OrdersOK, SpacesTypeOK, OrderOK
      <4>2. space'.v = space.v \/ space'.v = space.v + 1
        BY <1>1, WorksSpace DEF SameMembers, SeatPushed, ListSaved, SeatChanges
      <4> QED BY <4>1, <4>2
    <3>4. ASSUME order[q].v = space'.v, NEW j \in DOMAIN order[q].list, order[q].list[j].email = u
          PROVE  \E i \in DOMAIN space'.members : space'.members[i] = order[q].list[j]
      <4>1. PICK i \in DOMAIN space.members : space.members[i] = order[q].list[j]
        BY <3>2, <3>3, <3>4 DEF ListOK
      <4>2. i \in DOMAIN space'.members /\ space'.members[i] = space.members[i]
        BY <3>2, <3>4, <4>1 DEF EntriesStand
      <4> QED BY <4>1, <4>2
    <3> QED BY <2>3, <3>1, <3>2, <3>4 DEF ListOK, OneEntry
  <2> QED BY <2>1, <2>2, <2>3
<1>8. ASSUME IsColleague(u)', \A q \in Clerks : order'[q].at = "enter" => order'[q].who # u, NEW x \in talks'
      PROVE  u \in x.people
  <2>1. order[k].at = "enter" /\ order[k].who = u => u \in x.people
    BY <1>8, WorksTalks, <1>1
  <2>2. ASSUME ~(order[k].at = "enter" /\ order[k].who = u) PROVE u \in x.people
    <3>1. \A q \in Clerks : order[q].at = "enter" => order[q].who # u
      BY <1>2, <1>8, <2>2
    <3>2. IsColleague(u)
      <4>1. SUFFICES ASSUME ~IsColleague(u) PROVE FALSE
        OBVIOUS
      <4>2. order'[k].at = "enter" /\ order[k].who = u
        BY <1>1, <1>8, <4>1, ColleagueJoins
      <4> QED BY <1>2, <1>8, <4>2
    <3>3. \A y \in talks : u \in y.people
      BY <1>1, <3>1, <3>2 DEF SettledOK
    <3>4. order[k].at = "open" => u \in order[k].people
      BY <1>1, <3>2 DEF SettledOK
    <3>5. (\E y \in talks : y.people \subseteq x.people) \/ (order[k].at = "open" /\ x.people = order[k].people)
      BY <1>1, <1>8, WorksTalks
    <3> QED BY <3>3, <3>4, <3>5
  <2> QED BY <2>1, <2>2
<1> QED BY <1>4, <1>5, <1>7, <1>8 DEF SettledOK

LEMMA WorksKeeps ==
  ASSUME SpacesInv, NEW k \in Clerks, Works(k) PROVE SpacesInv'
<1>1. OrdersOK' /\ NumbersApart'
  BY WorksTypes, WorksApart DEF SpacesInv
<1>2. TokensOK(space.members)' /\ \A q \in Clerks : OrderOK(q)'
  BY MembersTokens, WorksOrders
<1>3. \A u \in settled' : SettledOK(u)'
  BY WorksSettled
<1> QED BY <1>1, <1>2, <1>3 DEF SpacesInv

LEMMA SpacesBegin == SpacesInit => SpacesInv
<1> SUFFICES ASSUME SpacesInit PROVE SpacesInv
  OBVIOUS
<1>1. /\ order = [k \in Clerks |-> NoOrder] /\ orders = 0 /\ talks = {} /\ extension = "none"
      /\ settled = Folk /\ marks \in Marks /\ space.v = 0 /\ space.active = TRUE
  BY SpaceConstants DEF SpacesInit, Marks
<1>2. PICK m \in Nat : m = Len(Firsts) /\ DOMAIN Firsts = 1..m
  BY SpacesAssumption, LenProperties
<1>3. PICK rest : rest = [i \in DOMAIN Firsts |-> [email |-> Firsts[i], role |-> "member", status |-> "invited",
                                                   named |-> FALSE, token |-> MaxOrders + i]]
  OBVIOUS
<1>4. rest \in Seq(Seat)
  <2>1. ASSUME NEW i \in 1..m PROVE rest[i] \in Seat
    <3>1. MaxOrders + i \in Links /\ Firsts[i] \in Folk
      BY <1>2, SpacesAssumption DEF Links
    <3> QED BY <1>2, <1>3, <3>1 DEF Seat, Roles
  <2>2. rest \in [1..m -> Seat]
    BY <1>2, <1>3, <2>1
  <2> QED BY <2>2
<1>5. PICK s : s = space.members /\ s = <<Creator>> \o rest
  BY <1>3 DEF SpacesInit
<1>6. /\ s \in Seq(Seat) /\ DOMAIN s = 1..m + 1 /\ s[1] = Creator
      /\ \A i \in 2..m + 1 : s[i] = rest[i - 1]
  <2>1. PICK one \in Seq(Seat) : one = <<Creator>> /\ Len(one) = 1 /\ one[1] = Creator
    <3>1. PICK c \in Seat : c = Creator
      BY NoOrderTypes
    <3>2. <<c>> \in Seq(Seat) /\ Len(<<c>>) = 1 /\ <<c>>[1] = c
      OBVIOUS
    <3> QED BY <3>1, <3>2
  <2>2. Len(rest) = m
    BY <1>2, <1>3, <1>4, LenProperties
  <2>3. /\ one \o rest \in Seq(Seat) /\ Len(one \o rest) = 1 + m
        /\ \A i \in 1..1 + m : (one \o rest)[i] = IF i <= 1 THEN one[i] ELSE rest[i - 1]
    BY <1>4, <2>1, <2>2, ConcatProperties
  <2>4. DOMAIN s = 1..m + 1
    BY <1>5, <2>1, <2>3, LenProperties
  <2> QED BY <1>5, <2>1, <2>3, <2>4
<1>7. \A i \in 2..m + 1 : /\ i - 1 \in 1..m /\ s[i].token = MaxOrders + (i - 1) /\ s[i].email = Firsts[i - 1]
                          /\ s[i].status = "invited"
  <2>1. ASSUME NEW i \in 2..m + 1
        PROVE  /\ i - 1 \in 1..m /\ s[i].token = MaxOrders + (i - 1) /\ s[i].email = Firsts[i - 1]
               /\ s[i].status = "invited"
    <3>1. i - 1 \in DOMAIN Firsts /\ s[i] = rest[i - 1]
      BY <1>2, <1>6
    <3> QED BY <1>2, <1>3, <3>1
  <2> QED BY <2>1
<1>8. s[1].token = 0 /\ s[1].email = Boss /\ s[1].status = "joined"
  BY <1>6 DEF Creator
<1>9. \A i \in 1..m + 1 : i = 1 \/ i \in 2..m + 1
  BY <1>2
<1>10. TokensOK(space.members)
  <2>1. ASSUME NEW i \in DOMAIN s
        PROVE  /\ s[i].status = "invited" => s[i].token # 0
               /\ s[i].token <= orders \/ s[i].token > MaxOrders
    <3>1. CASE i = 1
      BY <1>1, <1>8, <3>1
    <3>2. CASE i \in 2..m + 1
      <4>1. s[i].token = MaxOrders + (i - 1) /\ i - 1 \in 1..m
        BY <1>7, <3>2
      <4> QED BY <1>2, <4>1, SpaceConstants
    <3> QED BY <1>6, <1>9, <3>1, <3>2
  <2>2. ASSUME NEW i \in DOMAIN s, NEW j \in DOMAIN s, s[i].token = s[j].token, s[i].token # 0 PROVE i = j
    <3>1. i \in 2..m + 1 /\ j \in 2..m + 1
      BY <1>6, <1>8, <1>9, <2>2
    <3>2. MaxOrders + (i - 1) = MaxOrders + (j - 1)
      BY <1>7, <2>2, <3>1
    <3> QED BY <3>1, <3>2, SpaceConstants
  <2>3. \A q \in Clerks : order[q].at = "idle"
    BY <1>1, NoOrderTypes
  <2> QED BY <1>5, <2>1, <2>2, <2>3 DEF TokensOK
<1>11. OrdersOK
  <2>1. space \in Space
    <3>1. space = [active |-> TRUE, v |-> 0, members |-> s]
      BY <1>3, <1>5 DEF SpacesInit
    <3> QED BY <1>6, <3>1 DEF Space
  <2>2. order \in [Clerks -> Order] /\ orders \in 0..MaxOrders
    BY <1>1, NoOrderTypes, SpaceConstants
  <2>3. \A q \in Clerks : Numbered(q)
    BY <1>1, NoOrderTypes DEF Numbered
  <2> QED BY <1>1, <2>1, <2>2, <2>3 DEF OrdersOK, SpacesTypeOK
<1>12. NumbersApart /\ \A k \in Clerks : OrderOK(k)
  BY <1>1, NoOrderTypes DEF NumbersApart, OrderOK, NoOrder
<1>13. ASSUME NEW u \in settled PROVE SettledOK(u)
  <2>1. \A k \in Clerks : order[k].at = "idle"
    BY <1>1, NoOrderTypes
  <2>2. ASSUME NEW i \in DOMAIN s, NEW j \in DOMAIN s, s[i].email = s[j].email PROVE i = j
    <3>1. \A x \in 2..m + 1 : s[x].email # s[1].email
      <4>1. \A y \in 1..m : Firsts[y] # Boss
        BY <1>2, SpacesAssumption
      <4> QED BY <1>7, <1>8, <4>1
    <3>2. CASE i \in 2..m + 1 /\ j \in 2..m + 1
      <4>1. i - 1 \in DOMAIN Firsts /\ j - 1 \in DOMAIN Firsts /\ Firsts[i - 1] = Firsts[j - 1]
        BY <1>2, <1>7, <2>2, <3>2
      <4>2. i - 1 = j - 1
        BY <4>1, SpacesAssumption DEF IsInjective
      <4> QED BY <1>2, <3>2, <4>2
    <3> QED BY <1>6, <1>9, <2>2, <3>1, <3>2
  <2>3. OneEntry(space.members, u)
    BY <1>5, <2>2 DEF OneEntry
  <2> QED BY <1>1, <2>1, <2>3 DEF SettledOK, Writes
<1> QED BY <1>10, <1>11, <1>12, <1>13 DEF SpacesInv
LEMMA SpacesKeep == SpacesInv /\ [SpacesNext]_spacesVars => SpacesInv'
<1>1. ASSUME SpacesInv, UNCHANGED spacesVars PROVE SpacesInv'
  BY <1>1 DEF SpacesInv, OrdersOK, SpacesTypeOK, Numbered, NumbersApart, TokensOK, OrderOK, SettledOK, OneEntry, ListOK,
              Writes, IsColleague, spacesVars
<1>2. ASSUME SpacesInv, DeleteSpacesByOwner PROVE SpacesInv'
  <2>1. space \in Space /\ marks \in Marks /\ orders \in 0..MaxOrders
    BY <1>2 DEF SpacesInv, OrdersOK, SpacesTypeOK
  <2>2. space' \in Space /\ space'.members = space.members /\ space'.v = space.v
    BY <1>2, <2>1 DEF DeleteSpacesByOwner, SpaceGoes, Space
  <2>3. marks' \in Marks
    BY <1>2, <2>1 DEF DeleteSpacesByOwner, SpaceGoes, Marks
  <2>4. UNCHANGED <<extension, talks, order, orders, settled>>
    BY <1>2 DEF DeleteSpacesByOwner
  <2>5. OrdersOK' /\ NumbersApart'
    BY <1>2, <2>2, <2>3, <2>4 DEF SpacesInv, OrdersOK, SpacesTypeOK, Numbered, NumbersApart
  <2>6. TokensOK(space.members)' /\ \A q \in Clerks : OrderOK(q)'
    BY <1>2, <2>2, <2>4 DEF SpacesInv, TokensOK, OrderOK
  <2>7. \A u \in settled' : SettledOK(u)'
    BY <1>2, <2>2, <2>4 DEF SpacesInv, SettledOK, OneEntry, ListOK, Writes, IsColleague
  <2> QED BY <2>5, <2>6, <2>7 DEF SpacesInv
<1> QED BY <1>1, <1>2, StartsKeeps, WorksKeeps DEF SpacesNext

LEMMA SettledAre == SpacesInv => SettledColleagues
<1> SUFFICES ASSUME SpacesInv, NEW u \in settled, ~InHand(u)
             PROVE  /\ OneEntry(space.members, u)
                    /\ IsColleague(u) => \A t \in talks : u \in t.people
                    /\ space.active /\ SeatOf(u) # 0 /\ space.members[SeatOf(u)].status = "invited"
                         => Honours(u, ShownToken(u))
  BY DEF SettledColleagues, OneEntry
<1>1. space \in Space /\ SettledOK(u) /\ TokensOK(space.members)
  BY DEF SpacesInv, OrdersOK, SpacesTypeOK
<1>2. \A k \in Clerks : order[k].at = "enter" => order[k].who # u
  BY DEF InHand, Regards
<1>3. ASSUME space.active, SeatOf(u) # 0, space.members[SeatOf(u)].status = "invited" PROVE Honours(u, ShownToken(u))
  <2>1. PICK i \in DOMAIN space.members : i = SeatOf(u) /\ space.members[i].email = u
    BY <1>1, <1>3, SeatFound
  <2>2. PICK j \in DOMAIN space.members : space.members[j].email = u /\ ShownToken(u) = space.members[j].token
    BY <1>1, <2>1, ShownFound
  <2>3. i = j
    BY <1>1, <2>1, <2>2 DEF SettledOK, OneEntry
  <2>4. PICK t : t = ShownToken(u) /\ t = space.members[i].token /\ t # 0
    BY <1>1, <1>3, <2>1, <2>2, <2>3 DEF TokensOK
  <2>5. Holding(t) # 0 /\ Holding(t) \in DOMAIN space.members /\ space.members[Holding(t)].token = t
    BY <1>1, <2>4, HoldingFound
  <2>6. Holding(t) = i
    BY <1>1, <2>4, <2>5 DEF TokensOK
  <2> QED BY <1>3, <2>1, <2>4, <2>5, <2>6 DEF Honours
<1> QED BY <1>1, <1>2, <1>3 DEF SettledOK

(* The types of the documents of a help desk and of its requests             *)
(* (HelpDeskService).                                                        *)
THEOREM SpacesTypes == SpacesSpec => []SpacesTypeOK
<1>1. SpacesInv => SpacesTypeOK
  BY DEF SpacesInv, OrdersOK
<1> QED BY <1>1, SpacesBegin, SpacesKeep, PTL DEF SpacesSpec

(* A user whom requests regard one at a time and to the end, and who answers *)
(* pending invitations only, has one live entry at most; takes part in every *)
(* conversation with a client, of before and after, as soon as he has joined; *)
(* and is shown by getMyInvitations the invitation that is pending           *)
(* (inviteMembers, validateInvite, addHelpDeskParticipant).                  *)
THEOREM ColleaguesSettle == SpacesSpec => []SettledColleagues
  BY SettledAre, SpacesBegin, SpacesKeep, PTL DEF SpacesSpec

(* The entries of a user change by a request about that user, or by a        *)
(* refusal, which writes back the list that it read: a place that moved      *)
(* under a request is not taken for the place of another user.               *)
THEOREM OthersKept == SpacesSpec => OthersEntriesKept
<1>1. ASSUME NEW u, EntriesStand(u) PROVE EntriesOf(u)' = EntriesOf(u)
  <2>1. PICK D : D = {j \in DOMAIN space.members : space.members[j].email = u}
    OBVIOUS
  <2>2. {j \in DOMAIN space'.members : space'.members[j].email = u} = D
    BY <1>1, <2>1 DEF EntriesStand
  <2>3. \A i \in D : space'.members[i] = space.members[i]
    BY <1>1, <2>1 DEF EntriesStand
  <2> QED BY <2>1, <2>2, <2>3 DEF EntriesOf
<1>2. ASSUME SpacesInv, NEW k \in Clerks, Works(k), NEW u \in Folk, Edits(k, u)
      PROVE  EntriesOf(u)' = EntriesOf(u) \/ (order[k] # order'[k] /\ Regards(k, u))
  <2>1. Goes(k)
    BY <1>2, WorksGo DEF SpacesInv
  <2>2. order'[k].at \in {"idle", "enter", "greet", "endTalks", "closeExtension", "saveExtension"}
    BY <2>1, GoesAt
  <2> QED BY <1>2, <2>2 DEF Edits, Regards
<1>3. ASSUME SpacesInv, NEW k \in Clerks, Orders(k) \/ Works(k), NEW u \in Folk
      PROVE  EntriesOf(u)' # EntriesOf(u) => \E q \in Clerks : order[q] # order'[q] /\ Regards(q, u)
  <2>1. CASE Orders(k)
    <3>1. UNCHANGED space
      BY <1>3, <2>1, OrdersStart DEF SpacesInv, OrdersOK, SpacesTypeOK, Starts
    <3> QED BY <3>1 DEF EntriesOf
  <2>2. CASE Works(k) /\ ~Edits(k, u)
    BY <1>1, <1>3, <2>2, OthersStand DEF SpacesInv
  <2>3. CASE Works(k) /\ Edits(k, u)
    BY <1>2, <1>3, <2>3
  <2> QED BY <1>3, <2>1, <2>2, <2>3
<1>4. SpacesInv /\ [SpacesNext]_spacesVars =>
        [\A u \in Folk : EntriesOf(u)' # EntriesOf(u) =>
           \E k \in Clerks : order[k] # order'[k] /\ Regards(k, u)]_spacesVars
  <2>1. ASSUME SpacesInv, DeleteSpacesByOwner, NEW u \in Folk PROVE EntriesOf(u)' = EntriesOf(u)
    <3>1. space'.members = space.members
      BY <2>1 DEF DeleteSpacesByOwner, SpaceGoes, SpacesInv, OrdersOK, SpacesTypeOK, Space
    <3> QED BY <3>1 DEF EntriesOf
  <2> QED BY <1>3, <2>1 DEF SpacesNext
<1> QED BY <1>4, SpacesBegin, SpacesKeep, PTL DEF SpacesSpec, OthersEntriesKept
-----------------------------------------------------------------------------
(* The extension and the deletion of a space.  An edit that is under way when *)
(* the space is deleted began before; what it wrote last is of such an edit; *)
(* and a deletion that came to its end had begun when the extension was      *)
(* written, or the extension is closed.                                      *)
ClosedInv ==
  /\ marks.opener <= orders /\ \A d \in marks.closers : d <= orders
  /\ ~space.active => \A q \in Clerks : order[q].at = "extend" => order[q].n <= marks.gone
  /\ ~space.active /\ extension = "active" => marks.opener <= marks.gone
  /\ extension = "active" => \A d \in marks.closers : d <= marks.wrote

LEMMA NoOrderAt == NoOrder.at = "idle"
  BY DEF NoOrder

(* A request that begins takes the step of an edit or of a deletion only if  *)
(* it is one.                                                                *)
LEMMA OrderBegins ==
  ASSUME NEW k \in Clerks, NEW o, Begun(k, o), "at" \in DOMAIN o
  PROVE  \E t : /\ order' = [order EXCEPT ![k] = t] /\ t.at = o.at /\ order[k].at = "idle"
                /\ UNCHANGED <<space, extension>>
<1>1. PICK t : t = [o EXCEPT !.n = orders + 1, !.v = space.v]
  OBVIOUS
<1>2. order' = [order EXCEPT ![k] = t] /\ t.at = o.at
  BY <1>1 DEF Begun
<1> QED BY <1>2, NoOrderAt DEF Begun

LEMMA SavingAt ==
  ASSUME NEW at, NEW u, NEW i, NEW seat
  PROVE  Saving(at, u, i, seat).at = at /\ "at" \in DOMAIN Saving(at, u, i, seat)
  BY DEF Saving, NoOrder

Aloof == {"push", "put", "join", "delete", "role", "decline", "open", "endExtension"}

LEMMA OrdersBegin ==
  ASSUME NEW k \in Clerks, Orders(k)
  PROVE  \E t : /\ order' = [order EXCEPT ![k] = t] /\ order[k].at = "idle" /\ UNCHANGED <<space, extension>>
                /\ UNCHANGED marks /\ (t.at \in Aloof \/ (t.at \in {"extend", "close"} /\ space.active))
<1>1. ASSUME NEW u \in Folk, RemoveMember(k, u)
      PROVE  \E o : Begun(k, o) /\ "at" \in DOMAIN o /\ o.at \in Aloof /\ UNCHANGED marks
  BY <1>1, SavingAt DEF RemoveMember, Aloof
<1>2. ASSUME NEW u \in Folk, NEW role \in Roles,
             InviteMember(k, u, role) \/ ResendInvitation(k, u, role) \/ ChangeRole(k, u, role)
      PROVE  \E o : Begun(k, o) /\ "at" \in DOMAIN o /\ o.at \in Aloof /\ UNCHANGED marks
  BY <1>2, SavingAt DEF InviteMember, ResendInvitation, ChangeRole, Aloof
<1>3. ASSUME NEW u \in Folk, NEW token \in Links, NEW accept \in BOOLEAN, ValidateInvite(k, u, token, accept)
      PROVE  \E o : Begun(k, o) /\ "at" \in DOMAIN o /\ o.at \in Aloof /\ UNCHANGED marks
  <2>1. PICK i : (Decline(k, u, i) \/ Accept(k, u, i)) /\ UNCHANGED marks
    BY <1>3 DEF ValidateInvite
  <2>2. CASE Accept(k, u, i)
    BY <2>1, <2>2, SavingAt DEF Accept, Aloof
  <2>3. CASE Decline(k, u, i)
    <3>1. PICK l : Begun(k, [Saving("decline", u, i, space.members[i]) EXCEPT !.list = l])
      BY <2>3 DEF Decline
    <3>2. /\ "at" \in DOMAIN [Saving("decline", u, i, space.members[i]) EXCEPT !.list = l]
          /\ [Saving("decline", u, i, space.members[i]) EXCEPT !.list = l].at = "decline"
      BY DEF Saving, NoOrder
    <3> QED BY <2>1, <3>1, <3>2 DEF Aloof
  <2> QED BY <2>1, <2>2, <2>3
<1>4. ASSUME NEW greets \in BOOLEAN, CreateClient(k, greets)
      PROVE  \E o : Begun(k, o) /\ "at" \in DOMAIN o /\ o.at \in Aloof /\ UNCHANGED marks
  BY <1>4 DEF CreateClient, NoOrder, Aloof
<1>5. ASSUME DeleteExtension(k)
      PROVE  \E o : Begun(k, o) /\ "at" \in DOMAIN o /\ o.at \in Aloof /\ UNCHANGED marks
  BY <1>5 DEF DeleteExtension, NoOrder, Aloof
<1>6. ASSUME EditExtension(k) \/ DeleteSpace(k)
      PROVE  \E o : /\ Begun(k, o) /\ "at" \in DOMAIN o /\ o.at \in {"extend", "close"} /\ space.active
                    /\ UNCHANGED marks
  BY <1>6 DEF EditExtension, DeleteSpace, NoOrder
<1>7. CASE \E o : Begun(k, o) /\ "at" \in DOMAIN o /\ o.at \in Aloof /\ UNCHANGED marks
  BY <1>7, OrderBegins
<1>8. CASE EditExtension(k) \/ DeleteSpace(k)
  BY <1>6, <1>8, OrderBegins
<1> QED BY <1>1, <1>2, <1>3, <1>4, <1>5, <1>7, <1>8 DEF Orders

LEMMA OrdersKeepClosed ==
  ASSUME OrdersOK, ClosedInv, NEW k \in Clerks, Orders(k) PROVE ClosedInv'
<1>1. PICK t : /\ order' = [order EXCEPT ![k] = t] /\ order[k].at = "idle" /\ UNCHANGED <<space, extension>>
               /\ UNCHANGED marks /\ (t.at \in Aloof \/ (t.at \in {"extend", "close"} /\ space.active))
  BY OrdersBegin
<1>2. orders \in Nat /\ orders' = orders + 1
  BY OrdersStart, SpaceConstants DEF OrdersOK, SpacesTypeOK, Starts
<1>3. order'[k] = t /\ \A q \in Clerks \ {k} : order'[q] = order[q]
  BY <1>1 DEF OrdersOK, SpacesTypeOK
<1>4. /\ marks.opener \in Nat /\ marks.closers \subseteq Nat
  BY SpaceConstants DEF OrdersOK, SpacesTypeOK, Marks
<1>5. marks'.opener <= orders' /\ \A d \in marks'.closers : d <= orders'
  BY <1>1, <1>2, <1>4 DEF ClosedInv
<1>6. ~space'.active => \A q \in Clerks : order'[q].at = "extend" => order'[q].n <= marks'.gone
  BY <1>1, <1>3 DEF ClosedInv, Aloof
<1> QED BY <1>1, <1>5, <1>6 DEF ClosedInv

(* What a step of a request does to the space, its extension and the marks.  *)
LEMMA WorksClose ==
  ASSUME OrdersOK, NEW k \in Clerks, Works(k)
  PROVE  \/ UNCHANGED marks /\ space'.active = space.active /\ extension' \in {extension, "deleted"}
         \/ WritesExtension(k)
         \/ SpaceGoes /\ UNCHANGED extension
         \/ order[k].at # "idle" /\ ClosesAll(k) /\ extension' # "active" /\ UNCHANGED space
<1>1. space \in Space
  BY DEF OrdersOK, SpacesTypeOK
<1>2. CASE SavesSeat(k)
  <2>1. UNCHANGED <<marks, extension>>
    BY <1>2 DEF SavesSeat, GivesUp
  <2>2. UNCHANGED space \/ \E seats : space' = [space EXCEPT !.members = seats]
    BY <1>2 DEF SavesSeat
  <2> QED BY <1>1, <2>1, <2>2 DEF Space
<1>3. CASE PushesSeat(k) \/ SavesList(k)
  <2>1. UNCHANGED <<marks, extension>>
    BY <1>3 DEF PushesSeat, SavesList, GivesUp
  <2>2. UNCHANGED space \/ \E seats : space' = [space EXCEPT !.members = seats, !.v = @ + 1]
    BY <1>3 DEF PushesSeat, SavesList
  <2> QED BY <1>1, <2>1, <2>2 DEF Space
<1>4. CASE EntersTalks(k) \/ OpensTalk(k) \/ Greets(k) \/ EndsExtension(k) \/ EndsTalks(k) \/ OrderFails(k)
  BY <1>4 DEF EntersTalks, OpensTalk, Greets, EndsExtension, EndsTalks, OrderFails, GivesUp
<1>5. CASE ClosesSpace(k)
  BY <1>5 DEF ClosesSpace
<1>6. CASE FindsExtension(k) \/ SavesExtension(k)
  BY <1>6 DEF FindsExtension, SavesExtension
<1> QED BY <1>2, <1>3, <1>4, <1>5, <1>6 DEF Works

(* The space goes: every edit under way has begun. *)
LEMMA GoingKeepsClosed ==
  ASSUME OrdersOK, ClosedInv, SpaceGoes, UNCHANGED <<extension, orders>>,
         \A q \in Clerks : order'[q].at = "extend" => order'[q] = order[q]
  PROVE  ClosedInv'
<1>1. space \in Space /\ marks \in Marks
  BY DEF OrdersOK, SpacesTypeOK
<1>2. /\ ~space'.active /\ marks'.gone = IF space.active THEN orders ELSE marks.gone
      /\ marks'.opener = marks.opener /\ marks'.wrote = marks.wrote /\ marks'.closers = marks.closers
  BY <1>1 DEF SpaceGoes, Space, Marks
<1>3. \A q \in Clerks : order[q].at = "extend" => order[q].n <= orders
  BY DEF OrdersOK, SpacesTypeOK, Numbered
<1> QED BY <1>2, <1>3 DEF ClosedInv

LEMMA WorksKeepClosed ==
  ASSUME OrdersOK, ClosedInv, NEW k \in Clerks, Works(k) PROVE ClosedInv'
<1>1. Goes(k) /\ orders' = orders /\ marks \in Marks /\ orders \in Nat
  BY WorksGo, SpaceConstants DEF Goes, OrdersOK, SpacesTypeOK
<1>2. \A q \in Clerks : order'[q].at = "extend" => order'[q] = order[q]
  BY <1>1, GoesAt DEF Goes
<1>3. order[k].at # "idle" => order[k].n <= orders
  BY DEF OrdersOK, SpacesTypeOK, Numbered
<1>4. CASE UNCHANGED marks /\ space'.active = space.active /\ extension' \in {extension, "deleted"}
  BY <1>1, <1>2, <1>4 DEF ClosedInv
<1>5. CASE WritesExtension(k)
  <2>1. /\ order[k].at = "extend" /\ UNCHANGED space /\ marks'.opener = order[k].n /\ marks'.wrote = orders
        /\ marks'.gone = marks.gone /\ marks'.closers = marks.closers
    BY <1>1, <1>5 DEF WritesExtension, Marks
  <2> QED BY <1>1, <1>2, <1>3, <2>1 DEF ClosedInv
<1>6. CASE SpaceGoes /\ UNCHANGED extension
  BY <1>1, <1>2, <1>6, GoingKeepsClosed
<1>7. CASE order[k].at # "idle" /\ ClosesAll(k) /\ extension' # "active" /\ UNCHANGED space
  <2>1. /\ marks'.opener = marks.opener /\ marks'.gone = marks.gone
        /\ marks'.closers = marks.closers \union {order[k].n}
    BY <1>1, <1>7 DEF ClosesAll, Marks
  <2> QED BY <1>1, <1>2, <1>3, <1>7, <2>1 DEF ClosedInv
<1> QED BY <1>4, <1>5, <1>6, <1>7, WorksClose

LEMMA ClosedBegins == SpacesInit => ClosedInv
  BY DEF SpacesInit, ClosedInv

LEMMA ClosedKeeps == SpacesInv /\ ClosedInv /\ [SpacesNext]_spacesVars => ClosedInv'
<1>1. ASSUME ClosedInv, UNCHANGED spacesVars PROVE ClosedInv'
  BY <1>1 DEF ClosedInv, spacesVars
<1>2. ASSUME SpacesInv, ClosedInv, DeleteSpacesByOwner PROVE ClosedInv'
  BY <1>2, GoingKeepsClosed DEF SpacesInv, DeleteSpacesByOwner
<1> QED BY <1>1, <1>2, OrdersKeepClosed, WorksKeepClosed DEF SpacesNext, SpacesInv

(* The extension of a space that was deleted, by its owner or with the       *)
(* account of its owner, is open only by an edit that began before the space *)
(* was deleted, and that wrote it after every deletion of the space that     *)
(* came to its end had begun (deleteSpace, deleteSpacesIfExistByOwner,       *)
(* createOrEditExtension).                                                   *)
THEOREM ClosedTogether == SpacesSpec => []ClosedWithSpace
<1>1. ClosedInv => ClosedWithSpace
  BY DEF ClosedInv, ClosedWithSpace
<1> QED BY <1>1, SpacesBegin, SpacesKeep, ClosedBegins, ClosedKeeps, PTL DEF SpacesSpec

-----------------------------------------------------------------------------
(* The station.                                                              *)

(* A request that will save an entry at a place, and one that will push one. *)
Puts(o) == o.at = "put" \/ (o.at = "add" /\ o.then = "put")

Joins(o) == o.at = "join" \/ (o.at = "add" /\ o.then = "join")

Adds(o) == o.at = "push" \/ (o.at = "add" /\ o.then = "push")

Places(o) == Puts(o) \/ Joins(o) \/ o.at \in {"reject", "delete"}

(* The place is one of the user's, and not that of the owner.                *)
AskOK(o) ==
  /\ Places(o) => /\ o.i \in DOMAIN station.members /\ o.i # 1
                  /\ station.members[o.i].email = o.who
  /\ Adds(o) \/ Puts(o) => /\ o.entry.email = o.who /\ o.entry.status \in {"invited", "joined"}
                           /\ o.entry.status = "joined" => o.entry.named
  /\ o.at = "add" => o.then # "none" /\ (o.then \in {"put", "push"} => o.entry.status = "joined")
  /\ o.at = "linked" => o.entry = Joined(o.who)

(* The requests that have a part in what a user has of the station. *)
Parts(o, u) ==
  /\ o.at \notin {"idle", "make"}
  /\ o.who = u \/ o.at \in {"clearDefaults", "clearLists", "close"}

HasJoined(u) == \E i \in DOMAIN station.members : station.members[i].email = u /\ station.members[i].status = "joined"

EntriesOK(u) ==
  /\ \A i \in DOMAIN station.members : station.members[i].email = u =>
       /\ station.members[i].status # "rejected"
       /\ station.members[i].status = "joined" => station.members[i].named
  /\ \A i, j \in DOMAIN station.members :
       /\ station.members[i].email = u /\ station.members[i].status # "deleted"
       /\ station.members[j].email = u /\ station.members[j].status # "deleted"
       => i = j

(* What a request still finds of its user.                                   *)
FindsOK(o, u) ==
  /\ o.at # "reject"
  /\ Adds(o) => \A i \in DOMAIN station.members : station.members[i].email = u => station.members[i].status = "deleted"
  /\ Puts(o) \/ Joins(o) => station.members[o.i].status = "invited"
  /\ o.at = "delete" => /\ station.members[o.i].status # "deleted"
                        /\ station.members[o.i].status = "joined" => o.entry.named
  /\ Adds(o) \/ Puts(o) \/ Joins(o) \/ o.at = "default" => station.active

(* The list of the user is ahead of the members. *)
Ahead(o) == o.at = "join" \/ (o.at \in {"push", "put"} /\ o.entry.status = "joined")

PlainOK(u) ==
  /\ \A q, r \in Desks : Parts(ask[q], u) /\ Parts(ask[r], u) => q = r
  /\ u \in pulls => ~HasJoined(u) /\ \A q \in Desks : ~Parts(ask[q], u)
  /\ EntriesOK(u)
  /\ \A q \in Desks : ask[q].who = u => FindsOK(ask[q], u) /\ (Ahead(ask[q]) => u \in stationsOf)
  /\ \A q \in Desks : /\ ask[q].at \in {"clearLists", "close"} => u \notin defaults
                      /\ ask[q].at = "close" => u \notin stationsOf
  /\ u \notin pulls /\ (\A q \in Desks : ask[q].at # "close" /\ (ask[q].who = u => ~Ahead(ask[q]))) =>
       (u \in stationsOf <=> station.active /\ HasJoined(u))
  /\ u \in defaults => station.active

OwnerStays == station.members # <<>> /\ station.members[1] = Joined(Owner)

Counted == \A q \in Desks : ask[q].at # "idle" => ask[q].n \in 1..asked

StationsInv ==
  /\ StationsTypeOK /\ Counted /\ OwnerStays
  /\ \A q \in Desks : AskOK(ask[q])
  /\ \A u \in plain : PlainOK(u)

-----------------------------------------------------------------------------
LEMMA StationConstants ==
  /\ MaxAsked \in Nat /\ Owner \in People /\ NoToken = 0
  /\ \A u \in People : Joined(u) \in Member /\ Joined(u).email = u /\ Joined(u).status = "joined" /\ Joined(u).named
                       /\ Joined(u).token = 0
  BY StationsAssumption DEF NoToken, Joined, Member, Status

LEMMA FreeTypes == Free \in Asked /\ Free.at = "idle" /\ Free.who = Owner
  BY StationConstants DEF Free, Asked

LEMMA StationMembers ==
  ASSUME station \in Station
  PROVE  /\ station.members \in Seq(Member) /\ station.v \in Nat /\ station.active \in BOOLEAN
         /\ DOMAIN station.members = 1..Len(station.members)
         /\ \A i \in DOMAIN station.members : station.members[i] \in Member
  BY LenProperties DEF Station

LEMMA EntryFound ==
  ASSUME station \in Station, NEW u, NEW statuses
  PROVE  /\ EntryOf(u, statuses) \in Nat
         /\ EntryOf(u, statuses) # 0 =>
              /\ EntryOf(u, statuses) \in DOMAIN station.members
              /\ station.members[EntryOf(u, statuses)].email = u
              /\ station.members[EntryOf(u, statuses)].status \in statuses
              /\ \A i \in DOMAIN station.members :
                   station.members[i].email = u /\ station.members[i].status \in statuses => EntryOf(u, statuses) <= i
         /\ EntryOf(u, statuses) = 0 =>
              \A i \in DOMAIN station.members : station.members[i].email = u => station.members[i].status \notin statuses
<1>1. PICK s : s = station.members /\ s \in Seq(Member) /\ DOMAIN s = 1..Len(s)
  BY StationMembers
<1>2. PICK I : I = {i \in 1..Len(s) : s[i].email = u /\ s[i].status \in statuses}
  OBVIOUS
<1>3. PICK p : p = EntryOf(u, statuses) /\ p = IF I # {} THEN Min(I) ELSE 0
  BY <1>1, <1>2 DEF EntryOf, SelectInSeq
<1>4. I \in SUBSET DOMAIN s
  BY <1>1, <1>2
<1>5. p \in Nat /\ (p # 0 => p \in I /\ p \in DOMAIN s /\ \A i \in I : p <= i) /\ (p = 0 => I = {})
  BY <1>1, <1>3, <1>4, LeastPlace
<1> QED BY <1>1, <1>2, <1>3, <1>5

LEMMA TokenFound ==
  ASSUME station \in Station, NEW t
  PROVE  /\ WithToken(t) \in Nat
         /\ WithToken(t) # 0 =>
              WithToken(t) \in DOMAIN station.members /\ station.members[WithToken(t)].token = t
<1>1. PICK s : s = station.members /\ s \in Seq(Member) /\ DOMAIN s = 1..Len(s)
  BY StationMembers
<1>2. PICK I : I = {i \in 1..Len(s) : s[i].token = t}
  OBVIOUS
<1>3. PICK p : p = WithToken(t) /\ p = IF I # {} THEN Min(I) ELSE 0
  BY <1>1, <1>2 DEF WithToken, SelectInSeq
<1>4. I \in SUBSET DOMAIN s
  BY <1>1, <1>2
<1>5. p \in Nat /\ (p # 0 => p \in I /\ p \in DOMAIN s) /\ (p = 0 => I = {})
  BY <1>1, <1>3, <1>4, LeastPlace
<1> QED BY <1>1, <1>2, <1>3, <1>5

-----------------------------------------------------------------------------
(* What a request that begins has to do. *)
Asking(q, t) ==
  /\ t \in Asked /\ ask' = [ask EXCEPT ![q] = t] /\ ask[q] = Free
  /\ asked < MaxAsked /\ asked' = asked + 1 /\ UNCHANGED <<station, stationsOf, defaults, links, pulls>>
  /\ t.n = asked + 1 /\ plain' \subseteq plain
  /\ AskOK(t) /\ ~Ahead(t) /\ t.at \notin {"idle", "clearLists", "close"}
  /\ \A u \in plain' : (Parts(t, u) => ~UnderWay(u)) /\ (t.who = u => FindsOK(t, u))

LEMMA AsksTypes ==
  ASSUME StationsTypeOK, NEW q \in Desks, NEW u \in People,
         NEW at \in {"push", "put", "add", "reject", "delete", "linked", "default", "noDefault", "clearDefaults", "make"},
         NEW then \in {"none", "join"}, NEW i \in Nat, NEW entry \in Member, AsksFor(q, u, at, then, i, entry)
  PROVE  \E t \in Asked :
           /\ ask' = [ask EXCEPT ![q] = t] /\ ask[q] = Free
           /\ asked < MaxAsked /\ asked' = asked + 1 /\ UNCHANGED <<station, stationsOf, defaults, links, pulls>>
           /\ t.n = asked + 1 /\ t.at = at /\ t.then = then /\ t.who = u /\ t.i = i /\ t.entry = entry
<1>1. station.v \in Nat /\ asked \in 0..MaxAsked /\ MaxAsked \in Nat
  BY StationConstants, StationMembers DEF StationsTypeOK
<1>2. asked < MaxAsked /\ asked + 1 \in 0..MaxAsked
  BY <1>1 DEF AsksFor
<1>3. PICK t : t = [at |-> at, then |-> then, n |-> asked + 1, who |-> u, i |-> i, entry |-> entry, v |-> station.v]
  OBVIOUS
<1>4. t \in Asked
  BY <1>1, <1>2, <1>3 DEF Asked
<1>5. /\ t.n = asked + 1 /\ t.at = at /\ t.then = then /\ t.who = u /\ t.i = i /\ t.entry = entry
  BY <1>3
<1>6. ask' = [ask EXCEPT ![q] = t]
  BY <1>3 DEF AsksFor
<1> QED BY <1>2, <1>4, <1>5, <1>6 DEF AsksFor
(* Whom a request that begins leaves plain is concerned by no other. *)
LEMMA OverlappingGo ==
  ASSUME NEW u, plain' = plain \ Overlapping(u) \/ plain' = plain \ {u} PROVE plain' \subseteq plain /\ (u \in plain' => ~UnderWay(u))
  BY DEF Overlapping

LEMMA InviteAsks ==
  ASSUME StationsInv, NEW q \in Desks, NEW u \in People, Invite(q, u)
  PROVE  \E t : Asking(q, t)
<1>1. StationsTypeOK /\ station \in Station
  BY DEF StationsInv, StationsTypeOK
<1>a. PICK named \in BOOLEAN : AsksFor(q, u, "push", "none", 0, Invitation(u, named, asked + 1))
  BY DEF Invite
<1>2. PICK entry : entry = Invitation(u, named, asked + 1) /\ AsksFor(q, u, "push", "none", 0, entry)
  BY <1>a
<1>3. entry \in Member /\ entry.email = u /\ entry.status = "invited"
  <2>1. asked + 1 \in Tokens
    BY <1>1, <1>2, StationConstants DEF AsksFor, StationsTypeOK, Tokens
  <2> QED BY <1>2, <2>1 DEF Invitation, Member, Status
<1>4. PICK t \in Asked :
         /\ ask' = [ask EXCEPT ![q] = t] /\ ask[q] = Free
         /\ asked < MaxAsked /\ asked' = asked + 1 /\ UNCHANGED <<station, stationsOf, defaults, links, pulls>>
         /\ t.n = asked + 1 /\ t.at = "push" /\ t.then = "none" /\ t.who = u /\ t.i = 0 /\ t.entry = entry
  BY <1>1, <1>2, <1>3, AsksTypes
<1>5. plain' \subseteq plain /\ (u \in plain' => ~UnderWay(u))
  BY OverlappingGo DEF Invite, Disturbed
<1>6. ASSUME u \in plain', NEW i \in DOMAIN station.members, station.members[i].email = u
      PROVE  station.members[i].status = "deleted"
  <2>1. EntriesOK(u)
    BY <1>5, <1>6 DEF StationsInv, PlainOK
  <2>a. PICK live : live = Status \ {"deleted"}
    OBVIOUS
  <2>2. PICK p : p = EntryOf(u, live) /\ (p # 0 => station.members[p].status \notin {"invited", "joined"})
    BY <2>a DEF Invite
  <2>3. /\ p # 0 => p \in DOMAIN station.members /\ station.members[p].email = u /\ station.members[p].status \in live
        /\ p = 0 => \A j \in DOMAIN station.members : station.members[j].email = u => station.members[j].status \notin live
    BY <1>1, <2>2, EntryFound
  <2>4. p = 0
    BY <2>a, <2>1, <2>2, <2>3 DEF EntriesOK, Status
  <2>5. station.members[i].status \notin live
    BY <1>6, <2>3, <2>4
  <2>6. station.members[i].status \in Status
    BY <1>1, StationMembers DEF Member
  <2> QED BY <2>a, <2>5, <2>6
<1>7. station.active
  BY DEF Invite
<1>8. \A w \in plain' : (Parts(t, w) => ~UnderWay(w)) /\ (t.who = w => FindsOK(t, w))
  BY <1>4, <1>5, <1>6, <1>7 DEF Parts, FindsOK, Adds, Puts, Joins
<1>9. AskOK(t) /\ ~Ahead(t)
  BY <1>3, <1>4 DEF AskOK, Adds, Puts, Joins, Places, Ahead
<1> QED BY <1>4, <1>5, <1>8, <1>9 DEF Asking

LEMMA LinkInviteAsks ==
  ASSUME StationsInv, NEW q \in Desks, NEW u \in People, InviteWithLink(q, u)
  PROVE  \E t : Asking(q, t)
<1>1. StationsTypeOK /\ station \in Station /\ OwnerStays
  BY DEF StationsInv, StationsTypeOK
<1>2. PICK p \in Nat : p = EntryOf(u, {"invited"})
  BY <1>1, EntryFound
<1>a. PICK entry : entry = Invitation(u, FALSE, asked + 1)
  OBVIOUS
<1>3. PICK at \in {"push", "put"} :
        /\ entry = Invitation(u, FALSE, asked + 1) /\ AsksFor(q, u, at, "none", p, entry)
        /\ (at = "push") <=> (p = 0)
  BY <1>a, <1>2 DEF InviteWithLink
<1>4. entry \in Member /\ entry.email = u /\ entry.status = "invited"
  <2>1. asked + 1 \in Tokens
    BY <1>1, <1>3, StationConstants DEF AsksFor, StationsTypeOK, Tokens
  <2> QED BY <1>3, <2>1 DEF Invitation, Member, Status
<1>5. PICK t \in Asked :
         /\ ask' = [ask EXCEPT ![q] = t] /\ ask[q] = Free
         /\ asked < MaxAsked /\ asked' = asked + 1 /\ UNCHANGED <<station, stationsOf, defaults, links, pulls>>
         /\ t.n = asked + 1 /\ t.at = at /\ t.then = "none" /\ t.who = u /\ t.i = p /\ t.entry = entry
  <2>1. at \in {"push", "put", "add", "reject", "delete", "linked", "default", "noDefault", "clearDefaults", "make"}
    OBVIOUS
  <2>2. AsksFor(q, u, at, "none", p, entry)
    BY <1>3
  <2> QED BY <1>1, <1>4, <2>1, <2>2, AsksTypes
<1>6. plain' \subseteq plain /\ (u \in plain' => ~UnderWay(u)) /\ station.active
  BY OverlappingGo DEF InviteWithLink, Disturbed
<1>7. \A i \in DOMAIN station.members : station.members[i].email = u => station.members[i].status # "joined"
  BY <1>1, EntryFound DEF InviteWithLink
<1>8. at = "put" => p \in DOMAIN station.members /\ station.members[p].email = u /\ station.members[p].status = "invited" /\ p # 1
  BY <1>1, <1>2, <1>3, EntryFound, StationConstants DEF OwnerStays
<1>9. ASSUME u \in plain', at = "push", NEW i \in DOMAIN station.members, station.members[i].email = u
      PROVE  station.members[i].status = "deleted"
  <2>1. station.members[i].status \notin {"invited", "joined"}
    BY <1>1, <1>2, <1>3, <1>7, <1>9, EntryFound
  <2>2. EntriesOK(u)
    BY <1>6, <1>9 DEF StationsInv, PlainOK
  <2>3. station.members[i].status \in Status
    BY <1>1, StationMembers DEF Member
  <2> QED BY <1>9, <2>1, <2>2, <2>3 DEF EntriesOK, Status
<1>10. \A w \in plain' : (Parts(t, w) => ~UnderWay(w)) /\ (t.who = w => FindsOK(t, w))
  BY <1>3, <1>5, <1>6, <1>8, <1>9 DEF Parts, FindsOK, Adds, Puts, Joins
<1>11. AskOK(t) /\ ~Ahead(t)
  BY <1>3, <1>4, <1>5, <1>8 DEF AskOK, Adds, Puts, Joins, Places, Ahead
<1> QED BY <1>5, <1>6, <1>10, <1>11 DEF Asking

(* removeMember and leaveStation do not concern the entry of the owner.      *)
LEMMA DeleteAsks ==
  ASSUME StationsInv, NEW q \in Desks, NEW u \in People, NEW i \in DOMAIN station.members,
         station.members[i].email = u, station.members[i].status # "deleted", i # 1, AsksFor(q, u, "delete", "none", i, station.members[i]),
         plain' = plain \ Overlapping(u)
  PROVE  \E t : Asking(q, t)
<1>1. StationsTypeOK /\ station.members[i] \in Member /\ i \in Nat
  BY StationMembers DEF StationsInv, StationsTypeOK
<1>2. PICK entry \in Member : entry = station.members[i] /\ AsksFor(q, u, "delete", "none", i, entry)
  BY <1>1
<1>3. PICK t \in Asked :
         /\ ask' = [ask EXCEPT ![q] = t] /\ ask[q] = Free
         /\ asked < MaxAsked /\ asked' = asked + 1 /\ UNCHANGED <<station, stationsOf, defaults, links, pulls>>
         /\ t.n = asked + 1 /\ t.at = "delete" /\ t.then = "none" /\ t.who = u /\ t.i = i /\ t.entry = entry
  BY <1>1, <1>2, AsksTypes
<1>4. plain' \subseteq plain /\ (u \in plain' => ~UnderWay(u))
  BY OverlappingGo
<1>5. u \in plain' => (entry.status = "joined" => entry.named)
  BY <1>2, <1>4 DEF StationsInv, PlainOK, EntriesOK
<1>6. \A w \in plain' : (Parts(t, w) => ~UnderWay(w)) /\ (t.who = w => FindsOK(t, w))
  BY <1>2, <1>3, <1>4, <1>5 DEF Parts, FindsOK, Adds, Puts, Joins
<1>7. AskOK(t) /\ ~Ahead(t)
  BY <1>2, <1>3 DEF AskOK, Adds, Puts, Joins, Places, Ahead
<1> QED BY <1>3, <1>4, <1>6, <1>7 DEF Asking

LEMMA RemovalAsks ==
  ASSUME StationsInv, NEW q \in Desks, NEW u \in People, RemoveStationMember(q, u) \/ LeaveStation(q, u)
  PROVE  \E t : Asking(q, t)
<1>1. station \in Station /\ OwnerStays
  BY DEF StationsInv, StationsTypeOK
<1>3. CASE RemoveStationMember(q, u)
  <2>1. PICK i : /\ i = EntryOf(u, Status \ {"deleted"}) /\ i # 0 /\ ~(station.members[i].named /\ u = Owner)
                 /\ AsksFor(q, u, "delete", "none", i, station.members[i])
    BY <1>3 DEF RemoveStationMember
  <2>2. i \in DOMAIN station.members /\ station.members[i].email = u /\ station.members[i].status # "deleted"
    <3>1. PICK live : live = Status \ {"deleted"} /\ i = EntryOf(u, live)
      BY <2>1
    <3>2. i \in DOMAIN station.members /\ station.members[i].email = u /\ station.members[i].status \in live
      BY <1>1, <2>1, <3>1, EntryFound
    <3> QED BY <3>1, <3>2
  <2>3. i # 1
    <3>1. SUFFICES ASSUME i = 1 PROVE FALSE
      OBVIOUS
    <3>2. station.members[i] = Joined(Owner)
      BY <1>1, <3>1 DEF OwnerStays
    <3> QED BY <2>1, <2>2, <3>2, StationConstants
  <2>4. plain' = plain \ Overlapping(u)
    BY <1>3 DEF RemoveStationMember, Disturbed
  <2> QED BY <2>1, <2>2, <2>3, <2>4, DeleteAsks
<1>4. CASE LeaveStation(q, u)
  <2>1. PICK i : /\ i = EntryOf(u, {"joined"}) /\ i # 0 /\ u # Owner
                 /\ AsksFor(q, u, "delete", "none", i, station.members[i])
    BY <1>4 DEF LeaveStation
  <2>2. i \in DOMAIN station.members /\ station.members[i].email = u /\ station.members[i].status = "joined"
    BY <1>1, <2>1, EntryFound
  <2>3. i # 1
    BY <1>1, <2>1, <2>2, StationConstants DEF OwnerStays
  <2>4. plain' = plain \ Overlapping(u)
    BY <1>4 DEF LeaveStation, Disturbed
  <2> QED BY <2>1, <2>2, <2>3, <2>4, DeleteAsks
<1> QED BY <1>3, <1>4
LEMMA AnswerAsks ==
  ASSUME StationsInv, NEW q \in Desks, NEW u \in People, NEW token \in Tokens, NEW accept, Answer(q, u, token, accept)
  PROVE  \E t : Asking(q, t)
<1>1. StationsTypeOK /\ station \in Station /\ OwnerStays /\ token # 0
  BY StationConstants DEF StationsInv, StationsTypeOK, Tokens
<1>2. PICK i : /\ i = WithToken(token) /\ i # 0 /\ station.members[i].email = u
               /\ station.members[i].status # "joined" /\ station.active
               /\ IF ~accept /\ station.members[i].status = "invited"
                  THEN AsksFor(q, u, "reject", "none", i, station.members[i])
                  ELSE AsksFor(q, u, "add", "join", i, station.members[i])
               /\ plain' = plain \ (IF accept /\ station.members[i].status = "invited" THEN Overlapping(u) ELSE {u})
  BY DEF Answer, Disturbed
<1>3. i \in DOMAIN station.members /\ station.members[i].token = token /\ i \in Nat /\ station.members[i] \in Member
  BY <1>1, <1>2, TokenFound, StationMembers
<1>4. i # 1
  BY <1>1, <1>3, StationConstants DEF OwnerStays
<1>5. plain' \subseteq plain /\ (u \in plain' => ~UnderWay(u) /\ accept /\ station.members[i].status = "invited")
  BY <1>2, OverlappingGo
<1>6. PICK entry \in Member : entry = station.members[i]
  BY <1>3
<1>7. CASE AsksFor(q, u, "reject", "none", i, station.members[i]) /\ ~accept
  <2>1. PICK t \in Asked :
           /\ ask' = [ask EXCEPT ![q] = t] /\ ask[q] = Free
           /\ asked < MaxAsked /\ asked' = asked + 1 /\ UNCHANGED <<station, stationsOf, defaults, links, pulls>>
           /\ t.n = asked + 1 /\ t.at = "reject" /\ t.then = "none" /\ t.who = u /\ t.i = i /\ t.entry = entry
    BY <1>1, <1>3, <1>6, <1>7, AsksTypes
  <2>2. \A w \in plain' : (Parts(t, w) => ~UnderWay(w)) /\ (t.who = w => FindsOK(t, w))
    BY <1>5, <1>7, <2>1 DEF Parts
  <2>3. AskOK(t) /\ ~Ahead(t)
    BY <1>2, <1>3, <1>4, <2>1 DEF AskOK, Adds, Puts, Joins, Places, Ahead
  <2> QED BY <1>5, <2>1, <2>2, <2>3 DEF Asking
<1>8. CASE AsksFor(q, u, "add", "join", i, station.members[i])
  <2>1. PICK t \in Asked :
           /\ ask' = [ask EXCEPT ![q] = t] /\ ask[q] = Free
           /\ asked < MaxAsked /\ asked' = asked + 1 /\ UNCHANGED <<station, stationsOf, defaults, links, pulls>>
           /\ t.n = asked + 1 /\ t.at = "add" /\ t.then = "join" /\ t.who = u /\ t.i = i /\ t.entry = entry
    BY <1>1, <1>3, <1>6, <1>8, AsksTypes
  <2>2. \A w \in plain' : (Parts(t, w) => ~UnderWay(w)) /\ (t.who = w => FindsOK(t, w))
    BY <1>2, <1>5, <2>1 DEF Parts, FindsOK, Adds, Puts, Joins
  <2>3. AskOK(t) /\ ~Ahead(t)
    BY <1>2, <1>3, <1>4, <2>1 DEF AskOK, Adds, Puts, Joins, Places, Ahead
  <2> QED BY <1>5, <2>1, <2>2, <2>3 DEF Asking
<1> QED BY <1>2, <1>7, <1>8

(* Requests that look at no entry. *)
LEMMA OtherAsks ==
  ASSUME StationsInv, NEW q \in Desks, NEW u \in People,
         JoinByLink(q, u) \/ ChooseDefault(q, u) \/ (u = Owner /\ (DeleteStation(q) \/ ActivateLink(q)))
  PROVE  \E t : Asking(q, t)
<1>1. StationsTypeOK /\ Joined(u) \in Member
  BY StationConstants DEF StationsInv
<1>2. PICK at \in {"linked", "default", "noDefault", "clearDefaults", "make"} :
        /\ AsksFor(q, u, at, "none", 0, Joined(u))
        /\ at \in {"linked", "default", "noDefault"} => plain' = plain \ Overlapping(u)
        /\ at = "default" => station.active
        /\ at = "clearDefaults" => plain' = plain \ {w \in People : UnderWay(w)}
        /\ at = "make" => plain' = plain
  BY DEF JoinByLink, ChooseDefault, DeleteStation, ActivateLink, Disturbed
<1>3. PICK t \in Asked :
         /\ ask' = [ask EXCEPT ![q] = t] /\ ask[q] = Free
         /\ asked < MaxAsked /\ asked' = asked + 1 /\ UNCHANGED <<station, stationsOf, defaults, links, pulls>>
         /\ t.n = asked + 1 /\ t.at = at /\ t.then = "none" /\ t.who = u /\ t.i = 0 /\ t.entry = Joined(u)
  <2>1. at \in {"push", "put", "add", "reject", "delete", "linked", "default", "noDefault", "clearDefaults", "make"}
    OBVIOUS
  <2>2. PICK entry \in Member : entry = Joined(u) /\ AsksFor(q, u, at, "none", 0, entry)
    BY <1>1, <1>2
  <2>3. PICK t \in Asked :
         /\ ask' = [ask EXCEPT ![q] = t] /\ ask[q] = Free
         /\ asked < MaxAsked /\ asked' = asked + 1 /\ UNCHANGED <<station, stationsOf, defaults, links, pulls>>
         /\ t.n = asked + 1 /\ t.at = at /\ t.then = "none" /\ t.who = u /\ t.i = 0 /\ t.entry = entry
    BY <1>1, <2>1, <2>2, AsksTypes
  <2> QED BY <2>2, <2>3
<1>4. AskOK(t) /\ ~Ahead(t) /\ \A w : FindsOK(t, w)
  BY <1>2, <1>3 DEF AskOK, FindsOK, Adds, Puts, Joins, Places, Ahead
<1>5. plain' \subseteq plain /\ plain \subseteq People
  BY <1>1, <1>2, OverlappingGo DEF StationsTypeOK
<1>6. \A w \in plain' : Parts(t, w) => ~UnderWay(w)
  BY <1>2, <1>3, <1>5, OverlappingGo DEF Parts
<1> QED BY <1>3, <1>4, <1>5, <1>6 DEF Asking

LEMMA AsksBegin ==
  ASSUME StationsInv, NEW q \in Desks, Asks(q)
  PROVE  \E t : Asking(q, t)
<1>1. Owner \in People
  BY StationConstants
<1>2. CASE \E u \in People : Invite(q, u) \/ InviteWithLink(q, u)
  BY <1>2, InviteAsks, LinkInviteAsks
<1>3. CASE \E u \in People : RemoveStationMember(q, u) \/ LeaveStation(q, u)
  BY <1>3, RemovalAsks
<1>4. CASE \E u \in People : JoinByLink(q, u) \/ ChooseDefault(q, u)
  BY <1>4, OtherAsks
<1>5. CASE DeleteStation(q) \/ ActivateLink(q)
  BY <1>1, <1>5, OtherAsks
<1>6. CASE \E u \in People, token \in Tokens, accept \in BOOLEAN : Answer(q, u, token, accept)
  BY <1>6, AnswerAsks
<1> QED BY <1>2, <1>3, <1>4, <1>5, <1>6 DEF Asks
(* Formulas about one request do not change while the station does not. *)
LEMMA SameAsk ==
  ASSUME UNCHANGED station, NEW o
  PROVE  /\ AskOK(o) => AskOK(o)'
         /\ \A u : FindsOK(o, u) => FindsOK(o, u)'
         /\ \A u : (EntriesOK(u) => EntriesOK(u)') /\ (HasJoined(u)' <=> HasJoined(u))
<1>1. AskOK(o) => AskOK(o)'
  BY DEF AskOK
<1>2. \A u : FindsOK(o, u) => FindsOK(o, u)'
  BY DEF FindsOK
<1>3. \A u : (EntriesOK(u) => EntriesOK(u)') /\ (HasJoined(u)' <=> HasJoined(u))
  BY DEF EntriesOK, HasJoined
<1> QED BY <1>1, <1>2, <1>3

LEMMA AskingKeeps ==
  ASSUME StationsInv, NEW q \in Desks, NEW t, Asking(q, t) PROVE StationsInv'
<1>1. /\ ask \in [Desks -> Asked] /\ t \in Asked /\ asked \in 0..MaxAsked /\ MaxAsked \in Nat
      /\ UNCHANGED <<station, stationsOf, defaults, links, pulls>> /\ plain' \subseteq plain
      /\ asked < MaxAsked /\ asked' = asked + 1 /\ t.n = asked + 1
      /\ ask[q] = Free
  BY StationConstants DEF StationsInv, StationsTypeOK, Asking
<1>2. ask' \in [Desks -> Asked] /\ ask'[q] = t /\ \A r \in Desks \ {q} : ask'[r] = ask[r]
  BY <1>1 DEF Asking
<1>3. \A o : AskOK(o) => AskOK(o)'
  BY <1>1, SameAsk
<1>4. \A r \in Desks : AskOK(ask[r])'
  <2>2. \A r \in Desks : \E o : o = ask'[r] /\ AskOK(o)
    BY <1>2 DEF StationsInv, Asking
  <2>3. ASSUME NEW r \in Desks PROVE AskOK(ask[r])'
    <3>1. PICK o : o = ask'[r] /\ AskOK(o)
      BY <2>2
    <3>2. AskOK(o)'
      BY <1>3, <3>1
    <3> QED BY <3>1, <3>2 DEF AskOK, Places, Puts, Joins, Adds
  <2> QED BY <2>3
<1>5. StationsTypeOK'
  <2>1. asked' \in 0..MaxAsked /\ links' \subseteq 1..asked'
    BY <1>1 DEF StationsInv, StationsTypeOK
  <2>2. \A r \in Desks : ask'[r].at \in {"put", "join", "reject", "delete"} => ask'[r].i \in 1..Len(station'.members)
    <3>1. DOMAIN station'.members = 1..Len(station'.members)
      BY <1>1, StationMembers DEF StationsInv, StationsTypeOK
    <3> QED BY <1>4, <3>1 DEF AskOK, Places, Puts, Joins
  <2> QED BY <1>1, <1>2, <2>1, <2>2 DEF StationsInv, StationsTypeOK
<1>6. Counted'
  BY <1>1, <1>2 DEF StationsInv, Counted
<1>7. OwnerStays'
  BY <1>1 DEF StationsInv, OwnerStays
<1>8. ASSUME NEW u \in plain' PROVE PlainOK(u)'
  <2>1. PlainOK(u) /\ EntriesOK(u)
    BY <1>1, <1>8 DEF StationsInv, PlainOK
  <2>2. (EntriesOK(u))' /\ (HasJoined(u)' <=> HasJoined(u))
    BY <1>1, <2>1, SameAsk
  <2>3. /\ Parts(t, u) => u \notin pulls /\ \A r \in Desks : ~Parts(ask[r], u)
        /\ t.who = u => FindsOK(t, u)
        /\ ~Ahead(t) /\ t.at \notin {"clearLists", "close"}
    BY <1>8 DEF Asking, UnderWay, Concerns, Parts
  <2>4. ~Parts(ask[q], u) /\ ask[q].at \notin {"close", "clearLists"} /\ ~Ahead(ask[q])
    BY <1>1, FreeTypes DEF Parts, Ahead
  <2>5. \A r, s \in Desks : Parts(ask'[r], u) /\ Parts(ask'[s], u) => r = s
    BY <1>2, <2>1, <2>3 DEF PlainOK
  <2>6. u \in pulls => \A r \in Desks : ~Parts(ask'[r], u)
    BY <1>2, <2>1, <2>3 DEF PlainOK
  <2>7. ASSUME NEW r \in Desks, ask'[r].who = u PROVE FindsOK(ask[r], u)' /\ (Ahead(ask'[r]) => u \in stationsOf)
    <3>1. PICK o : o = ask'[r] /\ FindsOK(o, u) /\ (Ahead(o) => u \in stationsOf)
      BY <1>2, <2>1, <2>3, <2>7 DEF PlainOK
    <3>2. FindsOK(o, u)'
      BY <1>1, <3>1, SameAsk
    <3> QED BY <3>1, <3>2 DEF FindsOK, Puts, Joins, Adds
  <2>8. \A r \in Desks : ask'[r] = ask[r] \/ (r = q /\ ~Ahead(ask'[r]) /\ ask'[r].at \notin {"clearLists", "close"})
    BY <1>2, <2>3
  <2>9. \A r \in Desks : /\ ask'[r].at \in {"clearLists", "close"} => u \notin defaults
                         /\ ask'[r].at = "close" => u \notin stationsOf
    BY <2>1, <2>8 DEF PlainOK
  <2>10. (\A r \in Desks : ask'[r].at # "close" /\ (ask'[r].who = u => ~Ahead(ask'[r]))) =>
            (\A r \in Desks : ask[r].at # "close" /\ (ask[r].who = u => ~Ahead(ask[r])))
    BY <1>2, <2>4
  <2>11. \A r \in Desks : Ahead(ask[r])' <=> Ahead(ask'[r])
    BY DEF Ahead
  <2>12. \A r \in Desks : Parts(ask[r], u)' <=> Parts(ask'[r], u)
    BY DEF Parts
  <2> QED BY <1>1, <2>1, <2>2, <2>5, <2>6, <2>7, <2>9, <2>10, <2>11, <2>12 DEF PlainOK
<1> QED BY <1>4, <1>5, <1>6, <1>7, <1>8 DEF StationsInv
-----------------------------------------------------------------------------
(* What a step of a request does to the requests and to the entries. *)
OnlyAsk(q) ==
  /\ ask' \in [Desks -> Asked] /\ asked' = asked /\ \A r \in Desks \ {q} : ask'[r] = ask[r]
  /\ ask'[q].at # "idle" => ask[q].at # "idle" /\ ask'[q].n = ask[q].n /\ ask'[q].who = ask[q].who

SameStation == station'.members = station.members /\ station'.active = station.active

EntryPushed(q) ==
  /\ ask[q].at = "push" /\ ask'[q] = Free /\ station'.active = station.active
  /\ station'.members = Append(station.members, ask[q].entry)

EntrySaved(q, i, entry) ==
  /\ ask[q].at \in {"put", "join", "reject", "delete"} /\ i = ask[q].i /\ ask'[q] = Free
  /\ entry \in Member /\ entry.email = ask[q].who
  /\ station'.members = [station.members EXCEPT ![i] = entry] /\ station'.active = station.active
  /\ ask[q].at = "put" => entry = ask[q].entry
  /\ ask[q].at = "join" => entry.status = "joined" /\ entry.named
  /\ ask[q].at = "reject" => entry.status = "rejected"
  /\ ask[q].at = "delete" => entry.status = "deleted"

StationClosed(q) ==
  /\ ask[q].at = "close" /\ ask'[q] = Free
  /\ station'.members = station.members /\ station'.active = FALSE

LEMMA LeavesOnly ==
  ASSUME StationsTypeOK, NEW q \in Desks, Leaves(q), asked' = asked
  PROVE  OnlyAsk(q) /\ ask'[q] = Free
  BY FreeTypes DEF StationsTypeOK, Leaves, OnlyAsk

LEMMA GoesOnOnly ==
  ASSUME StationsTypeOK, NEW q \in Desks, ask[q].at # "idle", asked' = asked,
         NEW at \in {"push", "put", "join", "clearLists", "close"}, GoesOnTo(q, at)
  PROVE  /\ OnlyAsk(q)
         /\ \E o \in Asked : /\ o = ask'[q] /\ o.at = at /\ o.then = ask[q].then /\ o.n = ask[q].n /\ o.who = ask[q].who
                             /\ o.i = ask[q].i /\ o.entry = ask[q].entry
<1>1. ask \in [Desks -> Asked] /\ ask[q] \in Asked
  BY DEF StationsTypeOK
<1>2. PICK o : o = [ask[q] EXCEPT !.at = at]
  OBVIOUS
<1>3. o \in Asked
  BY <1>1, <1>2 DEF Asked
<1>4. /\ o.at = at /\ o.then = ask[q].then /\ o.n = ask[q].n /\ o.who = ask[q].who
      /\ o.i = ask[q].i /\ o.entry = ask[q].entry
  BY <1>1, <1>2 DEF Asked
<1>5. ask' = [ask EXCEPT ![q] = o]
  BY <1>1, <1>2 DEF GoesOnTo
<1>6. ask' \in [Desks -> Asked] /\ ask'[q] = o /\ \A r \in Desks \ {q} : ask'[r] = ask[r]
  BY <1>1, <1>3, <1>5
<1> QED BY <1>3, <1>4, <1>6 DEF OnlyAsk

LEMMA PushesEffect ==
  ASSUME StationsInv, NEW q \in Desks, Pushes(q)
  PROVE  station' \in Station /\ EntryPushed(q)
<1>1. station \in Station /\ station.members \in Seq(Member) /\ station.v \in Nat /\ ask[q] \in Asked /\ StationsTypeOK
  BY StationMembers DEF StationsInv, StationsTypeOK
<1>2. PICK entry \in Member : entry = ask[q].entry
  BY <1>1 DEF Asked
<1>3. PICK members \in Seq(Member) : members = Append(station.members, entry)
  BY <1>1, AppendProperties
<1>4. station' = [station EXCEPT !.members = members, !.v = @ + 1]
  BY <1>2, <1>3 DEF Pushes
<1>5. station' \in Station /\ station'.members = members /\ station'.active = station.active
  <2>1. station \in Station /\ station.v + 1 \in Nat
    BY <1>1
  <2> QED BY <1>4, <2>1 DEF Station
<1>6. ask'[q] = Free /\ ask[q].at = "push"
  BY <1>1, LeavesOnly DEF Pushes, SameRest
<1> QED BY <1>2, <1>3, <1>5, <1>6 DEF EntryPushed

LEMMA SavesEntryEffect ==
  ASSUME StationsInv, NEW q \in Desks, SavesEntry(q), station.v = ask[q].v
  PROVE  station' \in Station /\ \E i, entry : EntrySaved(q, i, entry)
<1>1. station \in Station /\ station.members \in Seq(Member) /\ ask[q] \in Asked /\ StationsTypeOK /\ AskOK(ask[q])
  BY StationMembers DEF StationsInv, StationsTypeOK
<1>2. PICK i \in DOMAIN station.members : i = ask[q].i /\ station.members[i].email = ask[q].who
  BY <1>1 DEF SavesEntry, AskOK, Places, Puts, Joins
<1>3. PICK m \in Member : m = station.members[i]
  BY <1>1, StationMembers
<1>4. PICK entry : entry = Saved(q)
  OBVIOUS
<1>5. /\ entry \in Member /\ entry.email = ask[q].who
      /\ ask[q].at = "put" => entry = ask[q].entry
      /\ ask[q].at = "join" => entry.status = "joined" /\ entry.named
      /\ ask[q].at = "reject" => entry.status = "rejected"
      /\ ask[q].at = "delete" => entry.status = "deleted"
  <2>1. CASE ask[q].at = "put"
    <3>1. entry = ask[q].entry
      BY <1>4, <2>1 DEF Saved
    <3>2. entry \in Member
      BY <1>1, <3>1 DEF Asked
    <3> QED BY <1>1, <2>1, <3>1, <3>2 DEF AskOK, Puts
  <2>2. CASE ask[q].at = "join"
    <3>1. entry = [m EXCEPT !.status = "joined", !.named = TRUE]
      BY <1>2, <1>3, <1>4, <2>2 DEF Saved
    <3>2. entry \in Member /\ entry.email = m.email /\ entry.status = "joined" /\ entry.named
      BY <3>1 DEF Member, Status
    <3> QED BY <1>2, <1>3, <2>2, <3>2
  <2>3. CASE ask[q].at = "reject"
    <3>1. entry = [m EXCEPT !.status = "rejected"]
      BY <1>2, <1>3, <1>4, <2>3 DEF Saved
    <3>2. entry \in Member /\ entry.email = m.email /\ entry.status = "rejected"
      BY <3>1 DEF Member, Status
    <3> QED BY <1>2, <1>3, <2>3, <3>2
  <2>4. CASE ask[q].at = "delete"
    <3>1. entry = [m EXCEPT !.status = "deleted"]
      BY <1>2, <1>3, <1>4, <2>4 DEF Saved
    <3>2. entry \in Member /\ entry.email = m.email /\ entry.status = "deleted"
      BY <3>1 DEF Member, Status
    <3> QED BY <1>2, <1>3, <2>4, <3>2
  <2> QED BY <2>1, <2>2, <2>3, <2>4 DEF SavesEntry
<1>6. station' = [station EXCEPT !.members[i] = entry]
  BY <1>2, <1>4 DEF SavesEntry
<1>7. PICK members : members = [station.members EXCEPT ![i] = entry] /\ members \in Seq(Member)
  <2>1. PICK s \in Seq(Member) : s = station.members /\ DOMAIN s = 1..Len(s)
    BY <1>1, LenProperties
  <2>2. [s EXCEPT ![i] = entry] \in Seq(Member)
    BY <1>5, <2>1, ExceptSeq
  <2> QED BY <2>1, <2>2
<1>8. station' = [station EXCEPT !.members = members]
  BY <1>1, <1>6, <1>7
<1>9. station' \in Station /\ station'.members = members /\ station'.active = station.active
  BY <1>1, <1>7, <1>8 DEF Station
<1>10. ask'[q] = Free /\ ask[q].at \in {"put", "join", "reject", "delete"}
  <2>1. Leaves(q) /\ asked' = asked
    BY DEF SavesEntry, SameRest
  <2> QED BY <1>1, <2>1, LeavesOnly DEF SavesEntry
<1>11. EntrySaved(q, i, entry)
  BY <1>2, <1>5, <1>7, <1>9, <1>10 DEF EntrySaved
<1> QED BY <1>9, <1>11

LEMMA ClosesEffect ==
  ASSUME StationsInv, NEW q \in Desks, Closes(q)
  PROVE  station' \in Station /\ StationClosed(q)
<1>1. station \in Station /\ StationsTypeOK
  BY DEF StationsInv, StationsTypeOK
<1>2. station' = [station EXCEPT !.active = FALSE]
  BY DEF Closes
<1>3. station' \in Station /\ station'.members = station.members /\ station'.active = FALSE
  BY <1>1, <1>2 DEF Station
<1>4. ask'[q] = Free
  BY <1>1, LeavesOnly DEF Closes, SameRest
<1> QED BY <1>3, <1>4 DEF StationClosed, Closes
(* joinByLink goes on with the entry that it found pending, if any.          *)
LEMMA ReadsLinkedEffect ==
  ASSUME StationsInv, NEW q \in Desks, ReadsLinked(q)
  PROVE  /\ OnlyAsk(q) /\ ask[q].at = "linked"
         /\ \/ ask'[q] = Free
            \/ \E o \in Asked :
                 /\ o = ask'[q] /\ o.at = "add" /\ o.then \in {"push", "put"} /\ o.who = ask[q].who
                 /\ o.entry = Joined(ask[q].who) /\ station.active /\ AskOK(o)
                 /\ o.then = "put" => station.members[o.i].status = "invited"
                 /\ o.then = "push" => \A i \in DOMAIN station.members :
                      station.members[i].email = o.who => station.members[i].status \notin {"invited", "joined"}
<1>1. /\ StationsTypeOK /\ station \in Station /\ OwnerStays /\ ask \in [Desks -> Asked] /\ ask[q] \in Asked
      /\ ask[q].at = "linked" /\ ask[q].entry = Joined(ask[q].who) /\ ask[q].who \in People /\ asked' = asked
      /\ station.v \in Nat
  BY StationMembers DEF StationsInv, StationsTypeOK, AskOK, ReadsLinked, SameRest, Asked
<1>2. CASE station.active /\ EntryOf(ask[q].who, {"joined"}) = 0
  <2>1. PICK i \in Nat : i = EntryOf(ask[q].who, {"invited"})
    BY <1>1, EntryFound
  <2>2. PICK then \in {"push", "put"} : then = IF i = 0 THEN "push" ELSE "put"
    OBVIOUS
  <2>3. PICK o : o = [ask[q] EXCEPT !.at = "add", !.i = i, !.v = station.v, !.then = then]
    OBVIOUS
  <2>4. o \in Asked
    BY <1>1, <2>3 DEF Asked
  <2>5. o.at = "add" /\ o.then = then /\ o.i = i /\ o.who = ask[q].who /\ o.n = ask[q].n /\ o.entry = ask[q].entry
    BY <1>1, <2>3 DEF Asked
  <2>6. ask' = [ask EXCEPT ![q].at = "add", ![q].i = i, ![q].v = station.v, ![q].then = then]
    BY <1>2, <2>1, <2>2 DEF ReadsLinked
  <2>7. ask'[q] = o /\ ask' \in [Desks -> Asked] /\ \A r \in Desks \ {q} : ask'[r] = ask[r]
    <3>1. ask' = [ask EXCEPT ![q] = o]
      BY <1>1, <2>3, <2>6
    <3> QED BY <1>1, <2>4, <3>1
  <2>8. \A j \in DOMAIN station.members : station.members[j].email = o.who => station.members[j].status # "joined"
    BY <1>1, <1>2, <2>5, EntryFound
  <2>9. then = "put" => i \in DOMAIN station.members /\ station.members[i].email = o.who /\ station.members[i].status = "invited"
    BY <1>1, <2>1, <2>2, <2>5, EntryFound
  <2>10. then = "push" => \A j \in DOMAIN station.members :
                            station.members[j].email = o.who => station.members[j].status # "invited"
    BY <1>1, <2>1, <2>2, <2>5, EntryFound
  <2>11. then = "put" => i # 1
    BY <1>1, <2>9, StationConstants DEF OwnerStays
  <2>12. AskOK(o)
    BY <1>1, <2>5, <2>9, <2>11, StationConstants DEF AskOK, Adds, Puts, Joins, Places
  <2>13. OnlyAsk(q)
    BY <1>1, <2>5, <2>7 DEF OnlyAsk
  <2> QED BY <1>1, <1>2, <2>4, <2>5, <2>7, <2>8, <2>9, <2>10, <2>12, <2>13
<1>3. CASE ~(station.active /\ EntryOf(ask[q].who, {"joined"}) = 0)
  <2>1. Leaves(q)
    BY <1>3 DEF ReadsLinked
  <2> QED BY <1>1, <2>1, LeavesOnly
<1> QED BY <1>2, <1>3

(* addMemberToStation, then the save that follows.                           *)
LEMMA AddsEffect ==
  ASSUME StationsInv, NEW q \in Desks, AddsToList(q)
  PROVE  /\ OnlyAsk(q) /\ ask[q].at = "add"
         /\ \E o \in Asked : /\ o = ask'[q] /\ o.at = ask[q].then /\ o.at \in {"push", "put", "join"}
                             /\ o.who = ask[q].who /\ o.i = ask[q].i /\ o.entry = ask[q].entry
<1>1. StationsTypeOK /\ ask[q].at = "add" /\ AskOK(ask[q]) /\ asked' = asked /\ ask[q] \in Asked
  BY DEF StationsInv, StationsTypeOK, AddsToList, SameRest
<1>2. PICK at \in {"push", "put", "join"} : at = ask[q].then
  BY <1>1 DEF AskOK, Asked
<1>3. GoesOnTo(q, at) /\ at \in {"push", "put", "join", "clearLists", "close"} /\ ask[q].at # "idle"
  BY <1>1, <1>2 DEF AddsToList
<1>4. /\ OnlyAsk(q)
      /\ \E o \in Asked : /\ o = ask'[q] /\ o.at = at /\ o.then = ask[q].then /\ o.n = ask[q].n /\ o.who = ask[q].who
                          /\ o.i = ask[q].i /\ o.entry = ask[q].entry
  BY <1>1, <1>3, GoesOnOnly
<1> QED BY <1>1, <1>2, <1>4

LEMMA ClearsEffect ==
  ASSUME StationsInv, NEW q \in Desks, ClearsDefaults(q) \/ ClearsLists(q)
  PROVE  /\ OnlyAsk(q) /\ ask'[q].who = ask[q].who
         /\ ask'[q].at = IF ask[q].at = "clearDefaults" THEN "clearLists" ELSE "close"
<1>1. /\ StationsTypeOK /\ asked' = asked /\ ask[q].at \in {"clearDefaults", "clearLists"}
      /\ GoesOnTo(q, IF ask[q].at = "clearDefaults" THEN "clearLists" ELSE "close")
  BY DEF StationsInv, ClearsDefaults, ClearsLists, SameRest
<1>2. PICK at \in {"clearLists", "close"} : at = IF ask[q].at = "clearDefaults" THEN "clearLists" ELSE "close"
  BY <1>1
<1>3. GoesOnTo(q, at) /\ at \in {"push", "put", "join", "clearLists", "close"} /\ ask[q].at # "idle"
  BY <1>1, <1>2
<1>4. /\ OnlyAsk(q)
      /\ \E o \in Asked : /\ o = ask'[q] /\ o.at = at /\ o.then = ask[q].then /\ o.n = ask[q].n /\ o.who = ask[q].who
                          /\ o.i = ask[q].i /\ o.entry = ask[q].entry
  BY <1>1, <1>3, GoesOnOnly
<1> QED BY <1>2, <1>4

LEMMA LeavingSteps ==
  ASSUME StationsTypeOK, NEW q \in Desks,
         WritesDefault(q) \/ Closes(q) \/ MakesLink(q) \/ StationFails(q) \/ Pushes(q) \/ SavesEntry(q)
  PROVE  OnlyAsk(q) /\ ask'[q] = Free
<1>1. Leaves(q) /\ asked' = asked
  BY DEF WritesDefault, Closes, MakesLink, StationFails, Pushes, SavesEntry, Stops, SameRest
<1> QED BY <1>1, LeavesOnly

LEMMA StationKinds ==
  ASSUME StationsInv, NEW q \in Desks, GoesOn(q)
  PROVE  /\ station' \in Station
         /\ SameStation \/ EntryPushed(q) \/ StationClosed(q) \/ \E i, entry : EntrySaved(q, i, entry)
<1>1. station \in Station
  BY DEF StationsInv, StationsTypeOK
<1>2. CASE ReadsLinked(q) \/ AddsToList(q) \/ WritesDefault(q) \/ ClearsDefaults(q) \/ ClearsLists(q) \/ MakesLink(q)
           \/ StationFails(q) \/ (SavesEntry(q) /\ station.v # ask[q].v)
  <2>1. UNCHANGED station
    BY <1>2 DEF ReadsLinked, AddsToList, WritesDefault, ClearsDefaults, ClearsLists, MakesLink, StationFails, SavesEntry
  <2> QED BY <1>1, <2>1 DEF SameStation
<1>3. CASE Pushes(q)
  BY <1>3, PushesEffect
<1>4. CASE SavesEntry(q) /\ station.v = ask[q].v
  BY <1>4, SavesEntryEffect
<1>5. CASE Closes(q)
  BY <1>5, ClosesEffect
<1> QED BY <1>2, <1>3, <1>4, <1>5 DEF GoesOn

(* The entries keep their places and their emails, and the owner keeps his.  *)
Grows == \A i \in DOMAIN station.members : /\ i \in DOMAIN station'.members
                                           /\ station'.members[i].email = station.members[i].email

LEMMA EntryPlaces ==
  ASSUME StationsInv, NEW q \in Desks, EntryPushed(q), NEW m \in Nat, DOMAIN station.members = 1..m
  PROVE  /\ DOMAIN station'.members = 1..m + 1 /\ station'.members[m + 1] = ask[q].entry
         /\ \A i \in 1..m : station'.members[i] = station.members[i]
<1>1. station \in Station /\ ask[q] \in Asked
  BY DEF StationsInv, StationsTypeOK
<1>2. PICK s \in Seq(Member), entry \in Member : s = station.members /\ entry = ask[q].entry
  BY <1>1, StationMembers DEF Asked
<1>3. Len(s) = m
  BY <1>2, LenProperties
<1>4. PICK r : r = Append(s, entry)
  OBVIOUS
<1>5. r \in Seq(Member) /\ Len(r) = m + 1 /\ r[m + 1] = entry /\ \A i \in 1..m : r[i] = s[i]
  BY <1>3, <1>4, AppendProperties
<1>6. DOMAIN r = 1..m + 1
  BY <1>5, LenProperties
<1> QED BY <1>2, <1>4, <1>5, <1>6 DEF EntryPushed

LEMMA MembersGrow ==
  ASSUME StationsInv, NEW q \in Desks,
         SameStation \/ EntryPushed(q) \/ StationClosed(q) \/ \E i, entry : EntrySaved(q, i, entry)
  PROVE  Grows /\ OwnerStays'
<1>1. station \in Station /\ OwnerStays /\ AskOK(ask[q])
  BY DEF StationsInv, StationsTypeOK
<1>2. PICK m \in Nat : DOMAIN station.members = 1..m /\ m # 0
  BY <1>1, StationMembers, LenProperties, EmptySeq DEF OwnerStays
<1>3. 1 \in 1..m
  BY <1>2
<1>4. CASE SameStation \/ StationClosed(q)
  BY <1>1, <1>4 DEF SameStation, StationClosed, Grows, OwnerStays
<1>5. CASE EntryPushed(q)
  <2>1. /\ DOMAIN station'.members = 1..m + 1 /\ \A i \in 1..m : station'.members[i] = station.members[i]
    BY <1>2, <1>5, EntryPlaces
  <2>2. \A i \in 1..m : i \in 1..m + 1
    BY <1>2
  <2>3. station'.members # <<>>
    <3>1. 1 \in DOMAIN station'.members
      BY <1>3, <2>1, <2>2
    <3> QED BY <3>1
  <2> QED BY <1>1, <1>2, <1>3, <2>1, <2>2, <2>3 DEF Grows, OwnerStays
<1>6. ASSUME NEW i, NEW entry, EntrySaved(q, i, entry) PROVE Grows /\ OwnerStays'
  <2>1. i \in DOMAIN station.members /\ i # 1 /\ station.members[i].email = ask[q].who
    BY <1>1, <1>6 DEF EntrySaved, AskOK, Places, Puts, Joins
  <2>2. /\ DOMAIN station'.members = DOMAIN station.members /\ station'.members[i] = entry
        /\ \A j \in DOMAIN station.members \ {i} : station'.members[j] = station.members[j]
    BY <1>6, <2>1 DEF EntrySaved
  <2>3. station'.members # <<>>
    BY <1>2, <1>3, <2>2
  <2> QED BY <1>1, <1>2, <1>3, <1>6, <2>1, <2>2, <2>3 DEF EntrySaved, Grows, OwnerStays
<1> QED BY <1>4, <1>5, <1>6
LEMMA AskGrows ==
  ASSUME Grows, NEW o, AskOK(o) PROVE AskOK(o)'
  BY DEF Grows, AskOK

LEMMA FreeOK == AskOK(Free) /\ ~Ahead(Free) /\ (\A u : ~Parts(Free, u) /\ FindsOK(Free, u))
  BY FreeTypes DEF AskOK, Ahead, Parts, FindsOK, Places, Puts, Joins, Adds

LEMMA GoesOnAsk ==
  ASSUME StationsInv, NEW q \in Desks, GoesOn(q)
  PROVE  OnlyAsk(q) /\ \E o : o = ask'[q] /\ AskOK(o)
<1>1. StationsTypeOK /\ AskOK(ask[q])
  BY DEF StationsInv
<1>2. CASE ReadsLinked(q)
  BY <1>2, ReadsLinkedEffect, FreeOK
<1>3. CASE AddsToList(q)
  <2>1. PICK o \in Asked : /\ o = ask'[q] /\ o.at = ask[q].then /\ o.at \in {"push", "put", "join"}
                           /\ o.who = ask[q].who /\ o.i = ask[q].i /\ o.entry = ask[q].entry
    BY <1>3, AddsEffect
  <2>2. AskOK(o)
    BY <1>1, <1>3, <2>1, AddsEffect DEF AskOK, Places, Puts, Joins, Adds
  <2> QED BY <1>3, <2>1, <2>2, AddsEffect
<1>4. CASE ClearsDefaults(q) \/ ClearsLists(q)
  <2>1. PICK o : o = ask'[q] /\ o.at \in {"clearLists", "close"}
    BY <1>4, ClearsEffect
  <2>2. AskOK(o)
    BY <2>1 DEF AskOK, Places, Puts, Joins, Adds
  <2> QED BY <1>4, <2>1, <2>2, ClearsEffect
<1>5. CASE WritesDefault(q) \/ Closes(q) \/ MakesLink(q) \/ StationFails(q) \/ Pushes(q) \/ SavesEntry(q)
  BY <1>1, <1>5, LeavingSteps, FreeOK
<1> QED BY <1>2, <1>3, <1>4, <1>5 DEF GoesOn

LEMMA RestTypes ==
  ASSUME StationsInv, NEW q \in Desks, GoesOn(q)
  PROVE  /\ stationsOf' \subseteq People /\ defaults' \subseteq People /\ pulls' \subseteq People
         /\ links' \subseteq 1..asked /\ plain' \subseteq plain
<1>1. /\ stationsOf \subseteq People /\ defaults \subseteq People /\ pulls \subseteq People
      /\ links \subseteq 1..asked /\ ask[q].who \in People /\ Counted
  BY DEF StationsInv, StationsTypeOK, Asked
<1>2. CASE ReadsLinked(q) \/ AddsToList(q) \/ Pushes(q) \/ ClearsLists(q) \/ Closes(q)
  BY <1>1, <1>2 DEF ReadsLinked, AddsToList, Pushes, ClearsLists, Closes, SameRest
<1>3. CASE SavesEntry(q)
  BY <1>1, <1>3 DEF SavesEntry, Unlists, SameRest, Stops, Disturbed
<1>4. CASE WritesDefault(q) \/ ClearsDefaults(q)
  BY <1>1, <1>4 DEF WritesDefault, ClearsDefaults
<1>5. CASE MakesLink(q)
  BY <1>1, <1>5 DEF MakesLink, Counted
<1>6. CASE StationFails(q)
  BY <1>1, <1>6 DEF StationFails, SameRest, Stops, Disturbed
<1> QED BY <1>2, <1>3, <1>4, <1>5, <1>6 DEF GoesOn

LEMMA CoreKeeps ==
  ASSUME StationsInv, NEW q \in Desks, GoesOn(q)
  PROVE  StationsTypeOK' /\ Counted' /\ OwnerStays' /\ \A r \in Desks : AskOK(ask[r])'
<1>1. Grows /\ OwnerStays' /\ station' \in Station
  BY StationKinds, MembersGrow
<1>2. OnlyAsk(q) /\ \E o : o = ask'[q] /\ AskOK(o)
  BY GoesOnAsk
<1>3. ASSUME NEW r \in Desks PROVE AskOK(ask[r])'
  <2>1. PICK o : o = ask'[r] /\ AskOK(o)
    BY <1>2 DEF StationsInv, OnlyAsk
  <2>2. AskOK(o)'
    BY <1>1, <2>1, AskGrows
  <2> QED BY <2>1, <2>2 DEF AskOK, Places, Puts, Joins, Adds
<1>4. Counted'
  BY <1>2, FreeTypes DEF StationsInv, Counted, OnlyAsk
<1>5. StationsTypeOK'
  <2>1. asked' = asked /\ ask' \in [Desks -> Asked]
    BY <1>2 DEF OnlyAsk
  <2>2. \A r \in Desks : ask'[r].at \in {"put", "join", "reject", "delete"} => ask'[r].i \in 1..Len(station'.members)
    <3>1. DOMAIN station'.members = 1..Len(station'.members)
      BY <1>1, LenProperties DEF Station
    <3> QED BY <1>3, <3>1 DEF AskOK, Places, Puts, Joins
  <2> QED BY <1>1, <2>1, <2>2, RestTypes DEF StationsInv, StationsTypeOK
<1> QED BY <1>1, <1>3, <1>4, <1>5

-----------------------------------------------------------------------------
(* A step that has no part in what a user has of the station.                *)
StandFor(u) ==
  /\ \A i \in DOMAIN station.members : station.members[i].email = u =>
       i \in DOMAIN station'.members /\ station'.members[i] = station.members[i]
  /\ \A i \in DOMAIN station'.members : station'.members[i].email = u =>
       i \in DOMAIN station.members /\ station'.members[i] = station.members[i]

LEMMA StandStill ==
  ASSUME NEW u, StandFor(u)
  PROVE  /\ EntriesOK(u) => EntriesOK(u)'
         /\ HasJoined(u)' <=> HasJoined(u)
         /\ \A o : AskOK(o) /\ o.who = u /\ FindsOK(o, u) /\ station'.active = station.active => FindsOK(o, u)'
<1>1. EntriesOK(u) => EntriesOK(u)'
  BY DEF EntriesOK, StandFor
<1>2. HasJoined(u)' <=> HasJoined(u)
  BY DEF HasJoined, StandFor
<1>3. ASSUME NEW o, AskOK(o), o.who = u, FindsOK(o, u), station'.active = station.active PROVE FindsOK(o, u)'
  <2>1. Places(o) => station'.members[o.i] = station.members[o.i]
    BY <1>3 DEF AskOK, StandFor
  <2> QED BY <1>3, <2>1 DEF FindsOK, StandFor, Places
<1> QED BY <1>1, <1>2, <1>3

LEMMA OthersUntouched ==
  ASSUME StationsInv, NEW q \in Desks, OnlyAsk(q), NEW u \in plain, ~Parts(ask[q], u), ~Parts(ask'[q], u),
         StandFor(u), station'.active = station.active, u \in stationsOf' <=> u \in stationsOf,
         u \in pulls' <=> u \in pulls, u \in defaults' <=> u \in defaults
  PROVE  PlainOK(u)'
<1>1. PlainOK(u) /\ EntriesOK(u) /\ \A r \in Desks : AskOK(ask[r])
  BY DEF StationsInv, PlainOK
<1>2. EntriesOK(u)' /\ (HasJoined(u)' <=> HasJoined(u))
  BY <1>1, StandStill
<1>3. \A r \in Desks \ {q} : ask'[r] = ask[r]
  BY DEF OnlyAsk
<1>4. /\ \A r, s \in Desks : Parts(ask'[r], u) /\ Parts(ask'[s], u) => r = s
      /\ u \in pulls => \A r \in Desks : ~Parts(ask'[r], u)
  BY <1>1, <1>3 DEF PlainOK
<1>5. /\ ask'[q].at \notin {"clearLists", "close"} /\ ask[q].at \notin {"clearLists", "close"}
      /\ ask'[q].who = u => ask'[q].at \in {"idle", "make"}
      /\ ask[q].who = u => ask[q].at \in {"idle", "make"}
  BY DEF Parts
<1>6. ASSUME NEW r \in Desks, ask'[r].who = u PROVE FindsOK(ask[r], u)' /\ (Ahead(ask'[r]) => u \in stationsOf)
  <2>1. CASE r = q
    BY <1>5, <1>6, <2>1 DEF FindsOK, Ahead, Puts, Joins, Adds
  <2>2. CASE r # q
    <3>1. PICK o : o = ask[r] /\ o = ask'[r] /\ AskOK(o) /\ o.who = u /\ FindsOK(o, u) /\ (Ahead(o) => u \in stationsOf)
      BY <1>1, <1>3, <1>6, <2>2 DEF PlainOK
    <3>2. FindsOK(o, u)'
      BY <3>1, StandStill
    <3> QED BY <3>1, <3>2 DEF FindsOK, Puts, Joins, Adds
  <2> QED BY <2>1, <2>2
<1>7. \A r \in Desks : /\ ask'[r].at \in {"clearLists", "close"} => u \notin defaults
                       /\ ask'[r].at = "close" => u \notin stationsOf
  BY <1>1, <1>3, <1>5 DEF PlainOK
<1>8. (\A r \in Desks : ask'[r].at # "close" /\ (ask'[r].who = u => ~Ahead(ask'[r]))) =>
         (\A r \in Desks : ask[r].at # "close" /\ (ask[r].who = u => ~Ahead(ask[r])))
  BY <1>3, <1>5 DEF Ahead
<1>9. \A r \in Desks : (Ahead(ask[r])' <=> Ahead(ask'[r])) /\ (Parts(ask[r], u)' <=> Parts(ask'[r], u))
  BY DEF Ahead, Parts
<1> QED BY <1>1, <1>2, <1>4, <1>6, <1>7, <1>8, <1>9 DEF PlainOK

(* The one request about a user ends.                                        *)
LEMMA Settles ==
  ASSUME StationsInv, NEW q \in Desks, OnlyAsk(q), NEW u \in plain, Parts(ask[q], u), ask'[q] = Free,
         EntriesOK(u)', u \in pulls' => ~HasJoined(u)',
         u \notin pulls' => (u \in stationsOf' <=> station'.active /\ HasJoined(u)'),
         u \in defaults' => station'.active
  PROVE  PlainOK(u)'
<1>1. PlainOK(u)
  BY DEF StationsInv
<1>2. \A r \in Desks : ~Parts(ask'[r], u)
  BY <1>1, FreeOK DEF OnlyAsk, PlainOK
<1>3. \A r \in Desks : ask'[r].at \notin {"clearLists", "close"} /\ (ask'[r].who = u => ask'[r].at \in {"idle", "make"})
  BY <1>2 DEF Parts
<1>4. \A r \in Desks : ask'[r].who = u => FindsOK(ask[r], u)' /\ ~Ahead(ask'[r])
  BY <1>3 DEF FindsOK, Ahead, Puts, Joins, Adds
<1>5. \A r \in Desks : (Ahead(ask[r])' <=> Ahead(ask'[r])) /\ (Parts(ask[r], u)' <=> Parts(ask'[r], u))
  BY DEF Ahead, Parts
<1> QED BY <1>2, <1>3, <1>4, <1>5 DEF PlainOK

(* The one request about a user goes on.                                     *)
LEMMA Proceeding ==
  ASSUME StationsInv, NEW q \in Desks, OnlyAsk(q), NEW u \in plain, Parts(ask[q], u), UNCHANGED <<station, pulls>>,
         NEW o, o = ask'[q], o.who = ask[q].who,
         o.who = u => FindsOK(o, u) /\ (Ahead(o) => u \in stationsOf'),
         o.at \in {"clearLists", "close"} => u \notin defaults',
         o.at = "close" => u \notin stationsOf',
         o.at # "close" /\ (o.who = u => ~Ahead(o)) => (u \in stationsOf' <=> station.active /\ HasJoined(u)),
         u \in defaults' => station.active
  PROVE  PlainOK(u)'
<1>1. PlainOK(u) /\ EntriesOK(u) /\ u \notin pulls
  BY DEF StationsInv, PlainOK
<1>2. EntriesOK(u)' /\ (HasJoined(u)' <=> HasJoined(u)) /\ (FindsOK(o, u) => FindsOK(o, u)')
  BY <1>1, SameAsk
<1>3. \A r \in Desks \ {q} : ask'[r] = ask[r] /\ ~Parts(ask[r], u)
  BY <1>1 DEF OnlyAsk, PlainOK
<1>4. \A r \in Desks \ {q} : ask'[r].at \notin {"clearLists", "close"} /\ (ask'[r].who = u => ask'[r].at \in {"idle", "make"})
  BY <1>3 DEF Parts
<1>5. \A r, s \in Desks : Parts(ask'[r], u) /\ Parts(ask'[s], u) => r = s
  BY <1>3
<1>6. \A r \in Desks \ {q} : ask'[r].who = u => FindsOK(ask[r], u)' /\ ~Ahead(ask'[r])
  BY <1>4 DEF FindsOK, Ahead, Puts, Joins, Adds
<1>7. o.who = u => FindsOK(ask[q], u)'
  BY <1>2 DEF FindsOK, Puts, Joins, Adds
<1>8. \A r \in Desks : (Ahead(ask[r])' <=> Ahead(ask'[r])) /\ (Parts(ask[r], u)' <=> Parts(ask'[r], u))
  BY DEF Ahead, Parts
<1>9. \A r \in Desks : ask'[r].who = u => FindsOK(ask[r], u)' /\ (Ahead(ask'[r]) => u \in stationsOf')
  BY <1>6, <1>7
<1>10. \A r \in Desks : /\ ask'[r].at \in {"clearLists", "close"} => u \notin defaults'
                        /\ ask'[r].at = "close" => u \notin stationsOf'
  BY <1>4
<1> QED BY <1>1, <1>2, <1>5, <1>8, <1>9, <1>10 DEF PlainOK
-----------------------------------------------------------------------------
(* What the one request about a user finds.                                  *)
LEMMA Agrees ==
  ASSUME StationsInv, NEW q \in Desks, NEW u \in plain, Parts(ask[q], u)
  PROVE  /\ u \notin pulls /\ EntriesOK(u) /\ (u \in defaults => station.active)
         /\ ask[q].who = u => FindsOK(ask[q], u) /\ (Ahead(ask[q]) => u \in stationsOf)
         /\ ask[q].at \in {"clearLists", "close"} => u \notin defaults
         /\ ask[q].at = "close" => u \notin stationsOf
         /\ ask[q].at # "close" /\ ~(ask[q].who = u /\ Ahead(ask[q])) =>
              (u \in stationsOf <=> station.active /\ HasJoined(u))
<1>1. PlainOK(u)
  BY DEF StationsInv
<1>2. \A r \in Desks \ {q} : ~Parts(ask[r], u)
  BY <1>1 DEF PlainOK
<1>3. \A r \in Desks \ {q} : ask[r].at # "close" /\ (ask[r].who = u => ~Ahead(ask[r]))
  BY <1>2 DEF Parts, Ahead
<1> QED BY <1>1, <1>3 DEF PlainOK

LEMMA NothingMoved ==
  ASSUME station'.members = station.members, NEW u PROVE StandFor(u) /\ (HasJoined(u)' <=> HasJoined(u))
  BY DEF StandFor, HasJoined

LEMMA ReadsLinkedPlain ==
  ASSUME StationsInv, NEW q \in Desks, ReadsLinked(q), NEW u \in plain PROVE PlainOK(u)'
<1>1. /\ OnlyAsk(q) /\ ask[q].at = "linked" /\ UNCHANGED <<station, stationsOf, pulls, defaults>>
      /\ AskOK(ask[q]) /\ station \in Station
  BY ReadsLinkedEffect DEF ReadsLinked, SameRest, StationsInv, StationsTypeOK
<1>2. StandFor(u) /\ (HasJoined(u)' <=> HasJoined(u)) /\ (EntriesOK(u) => EntriesOK(u)')
  BY <1>1, NothingMoved, SameAsk
<1>3. CASE ~Parts(ask[q], u)
  <2>1. ask[q].who # u
    BY <1>1, <1>3 DEF Parts
  <2>2. ~Parts(ask'[q], u)
    BY <2>1, ReadsLinkedEffect, FreeOK DEF Parts
  <2> QED BY <1>1, <1>2, <1>3, <2>2, OthersUntouched
<1>4. CASE Parts(ask[q], u)
  <2>1. /\ ask[q].who = u /\ ~Ahead(ask[q]) /\ EntriesOK(u) /\ u \notin pulls /\ (u \in defaults => station.active)
        /\ (u \in stationsOf <=> station.active /\ HasJoined(u))
    <3>1. ask[q].who = u /\ ~Ahead(ask[q]) /\ ask[q].at # "close"
      BY <1>1, <1>4 DEF Parts, Ahead
    <3> QED BY <1>4, <3>1, Agrees
  <2>2. CASE ask'[q] = Free
    BY <1>1, <1>2, <1>4, <2>1, <2>2, Settles
  <2>3. CASE ask'[q] # Free
    <3>1. PICK o \in Asked :
            /\ o = ask'[q] /\ o.at = "add" /\ o.then \in {"push", "put"} /\ o.who = ask[q].who
            /\ o.entry = Joined(ask[q].who) /\ station.active /\ AskOK(o)
            /\ o.then = "put" => station.members[o.i].status = "invited"
            /\ o.then = "push" => \A i \in DOMAIN station.members :
                 station.members[i].email = o.who => station.members[i].status \notin {"invited", "joined"}
      BY <2>3, ReadsLinkedEffect
    <3>2. \A i \in DOMAIN station.members : station.members[i].status \in Status
      BY <1>1, StationMembers DEF Member
    <3>3. o.then = "push" => \A i \in DOMAIN station.members :
            station.members[i].email = u => station.members[i].status = "deleted"
      BY <2>1, <3>1, <3>2 DEF EntriesOK, Status
    <3>4. FindsOK(o, u) /\ ~Ahead(o)
      BY <3>1, <3>3 DEF FindsOK, Ahead, Puts, Joins, Adds
    <3>5. o.at \notin {"clearLists", "close"}
      BY <3>1
    <3> QED BY <1>1, <1>4, <2>1, <3>1, <3>4, <3>5, Proceeding
  <2> QED BY <2>2, <2>3
<1> QED BY <1>3, <1>4

LEMMA AddsPlain ==
  ASSUME StationsInv, NEW q \in Desks, AddsToList(q), NEW u \in plain PROVE PlainOK(u)'
<1>1. /\ OnlyAsk(q) /\ ask[q].at = "add" /\ UNCHANGED <<station, pulls, defaults>> /\ AskOK(ask[q])
      /\ stationsOf' = stationsOf \union {ask[q].who}
  BY AddsEffect DEF AddsToList, SameRest, StationsInv
<1>2. PICK o \in Asked : /\ o = ask'[q] /\ o.at = ask[q].then /\ o.at \in {"push", "put", "join"}
                         /\ o.who = ask[q].who /\ o.i = ask[q].i /\ o.entry = ask[q].entry
  BY AddsEffect
<1>3. StandFor(u)
  BY <1>1, NothingMoved
<1>4. CASE ~Parts(ask[q], u)
  <2>1. ask[q].who # u
    BY <1>1, <1>4 DEF Parts
  <2>2. ~Parts(ask'[q], u)
    BY <1>2, <2>1 DEF Parts
  <2>3. u \in stationsOf' <=> u \in stationsOf
    BY <1>1, <2>1
  <2> QED BY <1>1, <1>3, <1>4, <2>2, <2>3, OthersUntouched
<1>5. CASE Parts(ask[q], u)
  <2>1. ask[q].who = u /\ FindsOK(ask[q], u) /\ (u \in defaults => station.active)
    <3>1. ask[q].who = u
      BY <1>1, <1>5 DEF Parts
    <3> QED BY <1>5, <3>1, Agrees
  <2>2. FindsOK(o, u)
    BY <1>1, <1>2, <2>1 DEF FindsOK, Puts, Joins, Adds
  <2>3. Ahead(o)
    BY <1>1, <1>2 DEF AskOK, Ahead
  <2>4. u \in stationsOf' /\ o.at \notin {"clearLists", "close"}
    BY <1>1, <1>2, <2>1
  <2> QED BY <1>1, <1>2, <1>5, <2>1, <2>2, <2>3, <2>4, Proceeding
<1> QED BY <1>4, <1>5

LEMMA PushesPlain ==
  ASSUME StationsInv, NEW q \in Desks, Pushes(q), NEW u \in plain PROVE PlainOK(u)'
<1>1. /\ OnlyAsk(q) /\ ask'[q] = Free /\ ask[q].at = "push" /\ AskOK(ask[q]) /\ EntryPushed(q)
      /\ UNCHANGED <<stationsOf, pulls, defaults>> /\ station'.active = station.active
      /\ station \in Station
  BY LeavingSteps, PushesEffect DEF Pushes, SameRest, StationsInv, StationsTypeOK, EntryPushed
<1>2. PICK m \in Nat : DOMAIN station.members = 1..m
  BY <1>1, StationMembers, LenProperties
<1>3. PICK r, entry :
        /\ r = station'.members /\ DOMAIN r = 1..m + 1 /\ r[m + 1] = entry /\ entry = ask[q].entry
        /\ \A i \in 1..m : r[i] = station.members[i]
  BY <1>1, <1>2, EntryPlaces
<1>4. /\ \A i \in 1..m + 1 : i \in 1..m \/ i = m + 1
      /\ \A i \in 1..m : i \in 1..m + 1
      /\ m + 1 \in 1..m + 1
  BY <1>2
<1>5. entry.email = ask[q].who /\ entry.status \in {"invited", "joined"} /\ (entry.status = "joined" => entry.named)
  BY <1>1, <1>3 DEF AskOK, Adds
<1>6. CASE ~Parts(ask[q], u)
  <2>1. ask[q].who # u /\ ~Parts(ask'[q], u)
    BY <1>1, <1>6, FreeOK DEF Parts
  <2>2. StandFor(u)
    BY <1>2, <1>3, <1>4, <1>5, <2>1 DEF StandFor
  <2> QED BY <1>1, <1>6, <2>1, <2>2, OthersUntouched
<1>7. CASE Parts(ask[q], u)
  <2>1. ask[q].who = u /\ ask[q].at # "close"
    BY <1>1, <1>7 DEF Parts
  <2>2. /\ u \notin pulls /\ EntriesOK(u) /\ FindsOK(ask[q], u) /\ (Ahead(ask[q]) => u \in stationsOf)
        /\ (u \in defaults => station.active)
        /\ ~Ahead(ask[q]) => (u \in stationsOf <=> station.active /\ HasJoined(u))
    BY <1>7, <2>1, Agrees
  <2>3. station.active /\ \A i \in 1..m : station.members[i].email = u => station.members[i].status = "deleted"
    BY <1>1, <1>2, <2>2 DEF FindsOK, Adds
  <2>4. \A i \in 1..m + 1 : r[i].email = u => i = m + 1 \/ r[i].status = "deleted"
    BY <1>3, <1>4, <2>3
  <2>5. EntriesOK(u)'
    BY <1>3, <1>5, <2>4 DEF EntriesOK
  <2>6. HasJoined(u)' <=> entry.status = "joined"
    BY <1>3, <1>4, <1>5, <2>1, <2>4 DEF HasJoined
  <2>7. ~HasJoined(u)
    BY <1>2, <2>3 DEF HasJoined
  <2>8. Ahead(ask[q]) <=> entry.status = "joined"
    BY <1>1, <1>3 DEF Ahead
  <2> QED BY <1>1, <1>7, <2>2, <2>3, <2>5, <2>6, <2>7, <2>8, Settles
<1> QED BY <1>6, <1>7
(* The entry that a request saves is the only one of its user that is not    *)
(* deleted.                                                                  *)
LEMMA OneEntrySaved ==
  ASSUME StationsInv, NEW q \in Desks, NEW u, NEW i, NEW entry, EntrySaved(q, i, entry), ask[q].who = u,
         EntriesOK(u), FindsOK(ask[q], u), entry.status \in {"invited", "joined", "deleted"},
         entry.status = "joined" => entry.named
  PROVE  /\ EntriesOK(u)' /\ (HasJoined(u)' <=> entry.status = "joined")
         /\ HasJoined(u) <=> station.members[i].status = "joined"
<1>1. /\ AskOK(ask[q]) /\ i \in DOMAIN station.members /\ station.members[i].email = u
  BY DEF StationsInv, EntrySaved, AskOK, Places, Puts, Joins
<1>2. /\ DOMAIN station'.members = DOMAIN station.members /\ station'.members[i] = entry
      /\ \A j \in DOMAIN station.members \ {i} : station'.members[j] = station.members[j]
  BY <1>1 DEF EntrySaved
<1>3. station.members[i].status # "deleted"
  BY DEF EntrySaved, FindsOK, Puts, Joins
<1>4. \A j \in DOMAIN station.members \ {i} : station.members[j].email = u => station.members[j].status = "deleted"
  BY <1>1, <1>3 DEF EntriesOK
<1>5. entry.email = u
  BY DEF EntrySaved
<1>6. \A j \in DOMAIN station'.members : station'.members[j].email = u => j = i \/ station'.members[j].status = "deleted"
  BY <1>2, <1>4
<1>7. EntriesOK(u)'
  BY <1>2, <1>6 DEF EntriesOK
<1>8. HasJoined(u)' <=> entry.status = "joined"
  BY <1>1, <1>2, <1>5, <1>6 DEF HasJoined
<1>9. HasJoined(u) <=> station.members[i].status = "joined"
  BY <1>1, <1>4 DEF HasJoined
<1> QED BY <1>7, <1>8, <1>9

LEMMA EntrySavedPlain ==
  ASSUME StationsInv, NEW q \in Desks, SavesEntry(q), station.v = ask[q].v, NEW u \in plain PROVE PlainOK(u)'
<1>1. PICK i, entry : EntrySaved(q, i, entry)
  BY SavesEntryEffect
<1>2. /\ OnlyAsk(q) /\ ask'[q] = Free /\ AskOK(ask[q]) /\ UNCHANGED <<stationsOf, defaults>>
      /\ pulls' = pulls \union Unlists(q) /\ station'.active = station.active
      /\ ask[q].at \in {"put", "join", "reject", "delete"}
  BY <1>1, LeavingSteps DEF SavesEntry, SameRest, StationsInv, EntrySaved
<1>3. i \in DOMAIN station.members /\ station.members[i].email = ask[q].who /\ entry.email = ask[q].who
  BY <1>1, <1>2 DEF EntrySaved, AskOK, Places, Puts, Joins
<1>4. CASE ~Parts(ask[q], u)
  <2>1. ask[q].who # u /\ ~Parts(ask'[q], u)
    BY <1>2, <1>4, FreeOK DEF Parts
  <2>2. /\ DOMAIN station'.members = DOMAIN station.members /\ station'.members[i] = entry
        /\ \A j \in DOMAIN station.members \ {i} : station'.members[j] = station.members[j]
    BY <1>1, <1>3 DEF EntrySaved
  <2>3. StandFor(u)
    BY <1>3, <2>1, <2>2 DEF StandFor
  <2>4. u \in pulls' <=> u \in pulls
    BY <1>2, <2>1 DEF Unlists
  <2> QED BY <1>2, <1>4, <2>1, <2>3, <2>4, OthersUntouched
<1>5. CASE Parts(ask[q], u)
  <2>1. ask[q].who = u /\ ask[q].at # "close"
    BY <1>2, <1>5 DEF Parts
  <2>2. /\ u \notin pulls /\ EntriesOK(u) /\ FindsOK(ask[q], u) /\ (Ahead(ask[q]) => u \in stationsOf)
        /\ (u \in defaults => station.active)
        /\ ~Ahead(ask[q]) => (u \in stationsOf <=> station.active /\ HasJoined(u))
    BY <1>5, <2>1, Agrees
  <2>3. ask[q].at # "reject"
    BY <2>2 DEF FindsOK
  <2>4. /\ entry.status \in {"invited", "joined", "deleted"} /\ (entry.status = "joined" => entry.named)
        /\ ask[q].at # "delete" => (Ahead(ask[q]) <=> entry.status = "joined")
        /\ ask[q].at = "delete" => ~Ahead(ask[q]) /\ entry.status = "deleted"
    <3>1. CASE ask[q].at = "put"
      BY <1>1, <1>2, <3>1 DEF EntrySaved, AskOK, Puts, Ahead
    <3>2. CASE ask[q].at = "join"
      BY <1>1, <3>2 DEF EntrySaved, Ahead
    <3>3. CASE ask[q].at = "delete"
      BY <1>1, <3>3 DEF EntrySaved, Ahead
    <3> QED BY <1>2, <2>3, <3>1, <3>2, <3>3
  <2>5. /\ EntriesOK(u)' /\ (HasJoined(u)' <=> entry.status = "joined")
        /\ HasJoined(u) <=> station.members[i].status = "joined"
    BY <1>1, <2>1, <2>2, <2>4, OneEntrySaved
  <2>6. CASE ask[q].at = "delete"
    <3>1. ~HasJoined(u)' /\ ~Ahead(ask[q])
      BY <2>4, <2>5, <2>6
    <3>2. u \notin pulls' => ~HasJoined(u)
      BY <1>1, <1>2, <2>1, <2>2, <2>5, <2>6 DEF Unlists, FindsOK, EntrySaved
    <3> QED BY <1>2, <1>5, <2>2, <2>5, <3>1, <3>2, Settles
  <2>7. CASE ask[q].at # "delete"
    <3>1. station.active /\ station.members[i].status = "invited"
      BY <1>1, <1>2, <2>2, <2>3, <2>7 DEF FindsOK, EntrySaved, Puts, Joins
    <3>2. ~HasJoined(u) /\ u \notin pulls'
      BY <1>2, <2>2, <2>5, <2>7, <3>1 DEF Unlists
    <3>3. u \in stationsOf <=> entry.status = "joined"
      BY <2>2, <2>4, <2>7, <3>2
    <3> QED BY <1>2, <1>5, <2>2, <2>5, <3>1, <3>2, <3>3, Settles
  <2> QED BY <2>6, <2>7
<1> QED BY <1>4, <1>5

(* A request that ends before its last write disturbs whom it concerned.     *)
LEMMA StopsPlain ==
  ASSUME StationsInv, NEW q \in Desks, Stops(q), asked' = asked, UNCHANGED <<station, stationsOf, defaults, pulls>>,
         NEW u \in plain'
  PROVE  PlainOK(u)'
<1>1. OnlyAsk(q) /\ ask'[q] = Free
  BY LeavesOnly DEF StationsInv, Stops
<1>2. u \in plain /\ ~Parts(ask[q], u)
  <2>1. plain \subseteq People
    BY DEF StationsInv, StationsTypeOK
  <2> QED BY <2>1 DEF Stops, Disturbed, Concerns, Parts
<1>3. StandFor(u)
  BY NothingMoved
<1> QED BY <1>1, <1>2, <1>3, FreeOK, OthersUntouched

LEMMA SavesEntryPlain ==
  ASSUME StationsInv, NEW q \in Desks, SavesEntry(q), NEW u \in plain' PROVE PlainOK(u)'
<1>1. CASE station.v = ask[q].v
  <2>1. u \in plain
    BY <1>1 DEF SavesEntry
  <2> QED BY <1>1, <2>1, EntrySavedPlain
<1>2. CASE station.v # ask[q].v
  <2>1. Stops(q) /\ asked' = asked /\ UNCHANGED <<station, stationsOf, defaults, pulls>>
    BY <1>2 DEF SavesEntry, SameRest
  <2> QED BY <2>1, StopsPlain
<1> QED BY <1>1, <1>2

LEMMA WritesDefaultPlain ==
  ASSUME StationsInv, NEW q \in Desks, WritesDefault(q), NEW u \in plain PROVE PlainOK(u)'
<1>1. /\ OnlyAsk(q) /\ ask'[q] = Free /\ UNCHANGED <<station, stationsOf, pulls>>
      /\ ask[q].at \in {"default", "noDefault"}
      /\ defaults' = IF ask[q].at = "default" THEN defaults \union {ask[q].who} ELSE defaults \ {ask[q].who}
  BY LeavingSteps DEF WritesDefault, StationsInv
<1>2. StandFor(u) /\ (HasJoined(u)' <=> HasJoined(u)) /\ (EntriesOK(u) => EntriesOK(u)')
  BY <1>1, NothingMoved, SameAsk
<1>3. CASE ~Parts(ask[q], u)
  <2>1. ask[q].who # u
    BY <1>1, <1>3 DEF Parts
  <2>2. ~Parts(ask'[q], u) /\ (u \in defaults' <=> u \in defaults)
    BY <1>1, <2>1, FreeOK
  <2> QED BY <1>1, <1>2, <1>3, <2>2, OthersUntouched
<1>4. CASE Parts(ask[q], u)
  <2>1. ask[q].who = u /\ ask[q].at # "close" /\ ~Ahead(ask[q])
    BY <1>1, <1>4 DEF Parts, Ahead
  <2>2. /\ u \notin pulls /\ EntriesOK(u) /\ FindsOK(ask[q], u) /\ (u \in defaults => station.active)
        /\ (u \in stationsOf <=> station.active /\ HasJoined(u))
    BY <1>4, <2>1, Agrees
  <2>3. u \in defaults' => station.active
    BY <1>1, <2>2 DEF FindsOK
  <2> QED BY <1>1, <1>2, <1>4, <2>2, <2>3, Settles
<1> QED BY <1>3, <1>4

(* A deletion has a part in what everybody has of the station.               *)
LEMMA ClearsPlain ==
  ASSUME StationsInv, NEW q \in Desks, ClearsDefaults(q) \/ ClearsLists(q), NEW u \in plain PROVE PlainOK(u)'
<1>1. /\ OnlyAsk(q) /\ UNCHANGED <<station, pulls>> /\ ask[q].at \in {"clearDefaults", "clearLists"}
      /\ ask[q].at = "clearDefaults" => defaults' = {} /\ stationsOf' = stationsOf
      /\ ask[q].at = "clearLists" => defaults' = defaults /\ stationsOf' = {}
  BY ClearsEffect DEF ClearsDefaults, ClearsLists, SameRest
<1>2. Parts(ask[q], u) /\ ~Ahead(ask[q]) /\ (ask[q].at = "clearDefaults" \/ ask[q].at = "clearLists")
  BY <1>1 DEF Parts, Ahead
<1>3. PICK o : o = ask'[q] /\ o.who = ask[q].who /\ o.at = IF ask[q].at = "clearDefaults" THEN "clearLists" ELSE "close"
  BY ClearsEffect
<1>4. FindsOK(o, u) /\ ~Ahead(o)
  BY <1>3 DEF FindsOK, Ahead, Puts, Joins, Adds
<1>5. /\ u \in defaults => station.active
      /\ ask[q].at = "clearLists" => u \notin defaults
      /\ u \in stationsOf <=> station.active /\ HasJoined(u)
  BY <1>1, <1>2, Agrees
<1>6. /\ u \in defaults' => u \in defaults
      /\ u \notin defaults'
      /\ o.at = "close" => u \notin stationsOf'
      /\ o.at # "close" => stationsOf' = stationsOf
  BY <1>1, <1>2, <1>3, <1>5
<1>7. o.at # "close" => (u \in stationsOf' <=> station.active /\ HasJoined(u))
  BY <1>5, <1>6
<1> QED BY <1>1, <1>2, <1>3, <1>4, <1>5, <1>6, <1>7, Proceeding

LEMMA ClosesPlain ==
  ASSUME StationsInv, NEW q \in Desks, Closes(q), NEW u \in plain PROVE PlainOK(u)'
<1>1. /\ OnlyAsk(q) /\ ask'[q] = Free /\ UNCHANGED <<stationsOf, defaults, pulls>> /\ ask[q].at = "close"
      /\ station'.members = station.members /\ station'.active = FALSE
  BY LeavingSteps, ClosesEffect DEF StationClosed, Closes, SameRest, StationsInv
<1>2. StandFor(u)
  BY <1>1, NothingMoved
<1>3. Parts(ask[q], u)
  BY <1>1 DEF Parts
<1>4. EntriesOK(u) /\ u \notin pulls /\ u \notin stationsOf /\ u \notin defaults
  BY <1>1, <1>3, Agrees
<1>5. EntriesOK(u)'
  BY <1>2, <1>4, StandStill
<1> QED BY <1>1, <1>3, <1>4, <1>5, Settles

LEMMA MakesLinkPlain ==
  ASSUME StationsInv, NEW q \in Desks, MakesLink(q), NEW u \in plain PROVE PlainOK(u)'
<1>1. /\ OnlyAsk(q) /\ ask'[q] = Free /\ UNCHANGED <<station, stationsOf, defaults, pulls>> /\ ask[q].at = "make"
  BY LeavingSteps DEF MakesLink, StationsInv
<1>2. StandFor(u) /\ ~Parts(ask[q], u)
  BY <1>1, NothingMoved DEF Parts
<1> QED BY <1>1, <1>2, FreeOK, OthersUntouched

LEMMA GoesOnKeeps ==
  ASSUME StationsInv, NEW q \in Desks, GoesOn(q) PROVE StationsInv'
<1>1. StationsTypeOK' /\ Counted' /\ OwnerStays' /\ \A r \in Desks : AskOK(ask[r])'
  BY CoreKeeps
<1>2. ASSUME NEW u \in plain' PROVE PlainOK(u)'
  <2>1. u \in plain
    BY <1>2, RestTypes
  <2>2. CASE StationFails(q)
    <3>1. Stops(q) /\ asked' = asked /\ UNCHANGED <<station, stationsOf, defaults, pulls>>
      BY <2>2 DEF StationFails, SameRest
    <3> QED BY <1>2, <3>1, StopsPlain
  <2> QED BY <1>2, <2>1, <2>2, ReadsLinkedPlain, AddsPlain, PushesPlain, SavesEntryPlain, WritesDefaultPlain,
             ClearsPlain, ClosesPlain, MakesLinkPlain DEF GoesOn
<1> QED BY <1>1, <1>2 DEF StationsInv

(* The update that nobody awaits is the last of the requests about its user. *)
LEMMA PulledKeeps ==
  ASSUME StationsInv, NEW w \in People, Pulled(w) PROVE StationsInv'
<1>1. /\ UNCHANGED <<station, ask, defaults, links, asked>> /\ pulls' = pulls \ {w} /\ plain' \subseteq plain
      /\ stationsOf' \subseteq stationsOf /\ \A u : u # w => (u \in stationsOf' <=> u \in stationsOf)
      /\ w \in plain' => w \notin stationsOf' /\ w \in pulls
  BY DEF Pulled, SameRest, Disturbed
<1>2. StationsTypeOK' /\ Counted' /\ OwnerStays' /\ \A r \in Desks : AskOK(ask[r])'
  <2>1. StationsTypeOK'
    BY <1>1 DEF StationsInv, StationsTypeOK
  <2>2. Counted' /\ OwnerStays' /\ \A r \in Desks : AskOK(ask[r])'
    BY <1>1 DEF StationsInv, Counted, OwnerStays, AskOK, Places, Puts, Joins, Adds
  <2> QED BY <2>1, <2>2
<1>3. ASSUME NEW u \in plain' PROVE PlainOK(u)'
  <2>1. PlainOK(u) /\ EntriesOK(u)
    BY <1>1, <1>3 DEF StationsInv, PlainOK
  <2>2. EntriesOK(u)' /\ (HasJoined(u)' <=> HasJoined(u))
    BY <1>1, <2>1, SameAsk
  <2>3. \A r \in Desks : ask[r].who = u => FindsOK(ask[r], u)' /\ (Ahead(ask[r]) => u \in stationsOf)
    BY <1>1, <2>1 DEF PlainOK, FindsOK, Puts, Joins, Adds
  <2>4. \A r \in Desks : (Ahead(ask[r])' <=> Ahead(ask[r])) /\ (Parts(ask[r], u)' <=> Parts(ask[r], u))
    BY <1>1 DEF Ahead, Parts
  <2>5. CASE u # w
    BY <1>1, <2>1, <2>2, <2>3, <2>4, <2>5 DEF PlainOK
  <2>6. CASE u = w
    <3>1. u \notin stationsOf' /\ u \in pulls /\ ~HasJoined(u) /\ \A r \in Desks : ~Parts(ask[r], u)
      BY <1>1, <1>3, <2>1, <2>6 DEF PlainOK
    <3>2. \A r \in Desks : ask[r].who = u => ~Ahead(ask[r])
      BY <3>1 DEF Parts, Ahead
    <3> QED BY <1>1, <2>1, <2>2, <2>3, <2>4, <2>6, <3>1, <3>2 DEF PlainOK
  <2> QED BY <2>5, <2>6
<1> QED BY <1>2, <1>3 DEF StationsInv

(* Nothing but a link, or nothing at all, changes.                           *)
LEMMA StationStands ==
  ASSUME StationsInv, UNCHANGED <<station, stationsOf, defaults, pulls, ask, asked, plain>>, links' \subseteq links
  PROVE  StationsInv'
<1>1. StationsTypeOK' /\ Counted' /\ OwnerStays'
  BY DEF StationsInv, StationsTypeOK, Counted, OwnerStays
<1>2. \A r \in Desks : AskOK(ask[r])'
  BY DEF StationsInv, AskOK, Places, Puts, Joins, Adds
<1>3. ASSUME NEW u \in plain PROVE PlainOK(u)'
  <2>1. PlainOK(u)
    BY <1>3 DEF StationsInv
  <2>2. \A r \in Desks : FindsOK(ask[r], u) => FindsOK(ask[r], u)'
    BY DEF FindsOK, Puts, Joins, Adds
  <2>3. \A r \in Desks : (Ahead(ask[r])' <=> Ahead(ask[r])) /\ (Parts(ask[r], u)' <=> Parts(ask[r], u))
    BY DEF Ahead, Parts
  <2>4. (EntriesOK(u) => EntriesOK(u)') /\ (HasJoined(u)' <=> HasJoined(u))
    BY SameAsk
  <2> QED BY <2>1, <2>2, <2>3, <2>4 DEF PlainOK
<1> QED BY <1>1, <1>2, <1>3 DEF StationsInv

LEMMA StationsBegin == StationsInit => StationsInv
<1> SUFFICES ASSUME StationsInit PROVE StationsInv
  OBVIOUS
<1>1. PICK e : e = Joined(Owner) /\ e \in Member
  BY StationConstants
<1>2. e.email = Owner /\ e.status = "joined" /\ e.named
  BY <1>1, StationConstants
<1>3. PICK s : s = <<e>> /\ s \in Seq(Member) /\ DOMAIN s = {1} /\ s[1] = e /\ s # <<>>
  <2>1. PICK s : s = <<e>>
    OBVIOUS
  <2>2. s \in Seq(Member) /\ Len(s) = 1 /\ s[1] = e
    BY <1>1, <2>1
  <2>3. DOMAIN s = 1..1
    BY <2>2, LenProperties
  <2>4. 1..1 = {1} /\ s # <<>>
    BY <2>2, <2>3
  <2> QED BY <2>1, <2>2, <2>3, <2>4
<1>4. station \in Station /\ station.members = s /\ station.active = TRUE
  BY <1>1, <1>3 DEF StationsInit, Station
<1>5. \A q \in Desks : ask[q] = Free
  BY DEF StationsInit
<1>6. StationsTypeOK
  <2>1. asked \in 0..MaxAsked /\ links \subseteq 1..asked
    BY StationConstants DEF StationsInit
  <2>2. ask \in [Desks -> Asked]
    BY FreeTypes DEF StationsInit
  <2>3. \A q \in Desks : ask[q].at \notin {"put", "join", "reject", "delete"}
    BY <1>5, FreeTypes
  <2> QED BY <1>4, <2>1, <2>2, <2>3, StationConstants DEF StationsInit, StationsTypeOK
<1>7. Counted /\ OwnerStays
  BY <1>1, <1>3, <1>4, <1>5, FreeTypes DEF Counted, OwnerStays
<1>8. \A q \in Desks : AskOK(ask[q]) /\ ~Ahead(ask[q]) /\ \A u : ~Parts(ask[q], u) /\ FindsOK(ask[q], u)
  BY <1>5, FreeOK
<1>9. ASSUME NEW u PROVE PlainOK(u)
  <2>1. EntriesOK(u)
    BY <1>2, <1>3, <1>4 DEF EntriesOK
  <2>2. HasJoined(u) <=> u = Owner
    BY <1>2, <1>3, <1>4 DEF HasJoined
  <2>3. \A q \in Desks : ask[q].at = "idle"
    BY <1>5, FreeTypes
  <2>4. u \notin pulls /\ u \notin defaults /\ (u \in stationsOf <=> u = Owner)
    BY DEF StationsInit
  <2> QED BY <1>4, <1>8, <2>1, <2>2, <2>3, <2>4 DEF PlainOK
<1> QED BY <1>6, <1>7, <1>8, <1>9 DEF StationsInv

LEMMA StationsKeep == StationsInv /\ [StationsNext]_stationVars => StationsInv'
<1> SUFFICES ASSUME StationsInv, [StationsNext]_stationVars PROVE StationsInv'
  OBVIOUS
<1>1. ASSUME NEW q \in Desks, Asks(q) PROVE StationsInv'
  BY <1>1, AsksBegin, AskingKeeps
<1>2. ASSUME NEW q \in Desks, GoesOn(q) PROVE StationsInv'
  BY <1>2, GoesOnKeeps
<1>3. ASSUME NEW w \in People, Pulled(w) PROVE StationsInv'
  BY <1>3, PulledKeeps
<1>4. CASE DeleteLink
  <2>1. UNCHANGED <<station, stationsOf, defaults, pulls, ask, asked, plain>> /\ links' \subseteq links
    BY <1>4 DEF DeleteLink
  <2> QED BY <2>1, StationStands
<1>5. CASE UNCHANGED stationVars
  <2>1. UNCHANGED <<station, stationsOf, defaults, pulls, ask, asked, plain>> /\ links' \subseteq links
    BY <1>5 DEF stationVars
  <2> QED BY <2>1, StationStands
<1> QED BY <1>1, <1>2, <1>3, <1>4, <1>5 DEF StationsNext

LEMMA StationsAgree == StationsInv => StationsTypeOK /\ PlainMembersAgree
<1> SUFFICES ASSUME StationsInv PROVE StationsTypeOK /\ PlainMembersAgree
  OBVIOUS
<1>1. StationsTypeOK /\ OwnerStays /\ station \in Station
  BY DEF StationsInv, StationsTypeOK
<1>2. ASSUME NEW u \in plain, ~UnderWay(u),
             NEW joined, joined = {i \in DOMAIN station.members : /\ station.members[i].email = u
                                                                  /\ station.members[i].status = "joined"}
      PROVE  /\ \A i, j \in joined : i = j
             /\ u \in stationsOf <=> Lists(u)
             /\ u \in defaults => station.active
             /\ (\E m \in Range(station.members) : Verifies(u, m.token)) => joined = {}
  <2>1. PlainOK(u) /\ EntriesOK(u) /\ u \notin pulls
    BY <1>2 DEF StationsInv, PlainOK, UnderWay
  <2>2. \A q \in Desks : ask[q].at = "idle" \/ (ask[q].who # u /\ ask[q].at \notin {"clearDefaults", "clearLists", "close"})
    BY <1>2 DEF UnderWay, Concerns
  <2>3. \A q \in Desks : ask[q].at # "close" /\ (ask[q].who = u => ~Ahead(ask[q]))
    BY <2>2 DEF Ahead
  <2>4. (u \in stationsOf <=> station.active /\ HasJoined(u)) /\ (u \in defaults => station.active)
    BY <2>1, <2>3 DEF PlainOK
  <2>5. \A i, j \in joined : i = j
    BY <1>2, <2>1 DEF EntriesOK
  <2>6. IsMember(u) <=> HasJoined(u)
    <3>1. Range(station.members) = {station.members[i] : i \in DOMAIN station.members}
      BY DEF Range
    <3>2. \A i \in DOMAIN station.members : /\ station.members[i].email = u /\ station.members[i].status = "joined"
                                            => station.members[i].named
      BY <2>1 DEF EntriesOK
    <3> QED BY <3>1, <3>2 DEF IsMember, HasJoined
  <2>7. ASSUME NEW m \in Range(station.members), Verifies(u, m.token) PROVE joined = {}
    <3>1. PICK p \in DOMAIN station.members : station.members[p].email = u /\ station.members[p].status = "invited"
      BY <1>1, <2>7, TokenFound DEF Verifies
    <3>2. \A j \in joined : j = p
      BY <1>2, <2>1, <3>1 DEF EntriesOK
    <3> QED BY <1>2, <3>1, <3>2
  <2>8. u \in stationsOf <=> Lists(u)
    BY <2>4, <2>6 DEF Lists
  <2> QED BY <2>4, <2>5, <2>7, <2>8
<1> QED BY <1>1, <1>2 DEF PlainMembersAgree, OwnerStays

LEMMA StationsHold == StationsSpec => []StationsInv
<1>1. StationsInit => StationsInv
  BY StationsBegin
<1>2. StationsInv /\ [StationsNext]_stationVars => StationsInv'
  BY StationsKeep
<1> QED BY <1>1, <1>2, PTL DEF StationsSpec

(* The type invariant of the members of a station: whatever overlaps, every  *)
(* save of an entry is at the place of one (StationsService).                *)
THEOREM StationsTypes == StationsSpec => []StationsTypeOK
<1>1. StationsInv => StationsTypeOK
  BY StationsAgree
<1> QED BY <1>1, StationsHold, PTL

(* The owner keeps the first entry whatever overlaps, and the list of a user *)
(* whom requests concerned one at a time and to the end agrees with the      *)
(* entries of the station when nothing about him is under way                *)
(* (StationsService with the lists of UsersService).                         *)
THEOREM PlainAgree == StationsSpec => []PlainMembersAgree
<1>1. StationsInv => PlainMembersAgree
  BY StationsAgree
<1> QED BY <1>1, StationsHold, PTL

-----------------------------------------------------------------------------
(* The run that takes the steps of one of the four at a time.                *)
LEMMA OneOfFour ==
  ASSUME [BackOfficeNext]_backOfficeVars
  PROVE  [StationsNext]_stationVars /\ [SpacesNext]_spacesVars /\ [DeskNext]_deskVars /\ [FormsNext]_formsVars
  BY DEF BackOfficeNext, backOfficeVars

(* What refers to something in the back office refers to what is there: the  *)
(* script an extension runs, the tag of a conversation, the fields a form    *)
(* lists.                                                                    *)
THEOREM OfficeReferences == BackOfficeSpec => []ReferencesHold
<1>1. BackOfficeInit => DeskInv /\ FormsInv
  BY DeskBegins, FormsBegin DEF BackOfficeInit
<1>2. DeskInv /\ FormsInv /\ [BackOfficeNext]_backOfficeVars => (DeskInv /\ FormsInv)'
  BY OneOfFour, DeskKeeps, FormsKeep
<1>3. DeskInv /\ FormsInv => ReferencesHold
  BY ScriptsLive, TagsCleared, FormsListed DEF ReferencesHold
<1> QED BY <1>1, <1>2, <1>3, PTL DEF BackOfficeSpec

(* What is looked up before it is stored is stored twice only by requests    *)
(* that overlapped, or under a name given anew: tags, ratings, forms and the *)
(* answers of a client.                                                      *)
THEOREM OfficeTwins == BackOfficeSpec => []OfficeTwinsOverlapped
<1>1. BackOfficeInit => DeskInv /\ FormsInv
  BY DeskBegins, FormsBegin DEF BackOfficeInit
<1>2. DeskInv /\ FormsInv /\ [BackOfficeNext]_backOfficeVars => (DeskInv /\ FormsInv)'
  BY OneOfFour, DeskKeeps, FormsKeep
<1>3. DeskInv /\ FormsInv => OfficeTwinsOverlapped
  BY DeskTwins, FormTwins DEF OfficeTwinsOverlapped
<1> QED BY <1>1, <1>2, <1>3, PTL DEF BackOfficeSpec

(* The run that begins with one of the four makes steps of each of them, or  *)
(* leaves it alone: what is proved of one holds in it.                       *)
THEOREM BackOfficeApart == BackOfficeSpec => StationsSpec /\ SpacesSpec /\ DeskSpec /\ FormsSpec
<1>1. BackOfficeInit => StationsInit /\ SpacesInit /\ DeskInit /\ FormsInit
  BY DEF BackOfficeInit
<1> QED BY <1>1, OneOfFour, PTL DEF BackOfficeSpec, StationsSpec, SpacesSpec, DeskSpec, FormsSpec

(* The types of the four parts of the back office.                           *)
THEOREM BackOfficeTyped == BackOfficeSpec => []BackOfficeTypes
<1>1. StationsTypeOK /\ SpacesTypeOK /\ DeskTypeOK /\ FormsTypeOK => BackOfficeTypes
  BY DEF BackOfficeTypes
<1> QED BY <1>1, BackOfficeApart, StationsTypes, SpacesTypes, DeskTypes, FormsTypes, PTL
=============================================================================
