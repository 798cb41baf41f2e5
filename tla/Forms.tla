------------------------------- MODULE Forms -------------------------------
(***************************************************************************)
(* The forms of a help desk space, their fields and the answers of its     *)
(* clients: FormService and what HelpDeskService adds to it.               *)
(*                                                                         *)
(* A form lists its fields, which are documents of their own and name      *)
(* their form: an edit removes the fields it does not have, writes those   *)
(* it has, and then writes the list.                                       *)
(***************************************************************************)
EXTENDS Naturals, Sequences, SequencesExt, FiniteSetsExt

CONSTANTS
  FormIds,
  FormNames,
  Clients,      \* the users who answer
  Editors,      \* the requests that may be under way at a time
  MaxFields,    \* bound on the fields a request brings new
  MaxEdits      \* bound on the requests begun

ASSUME FormsAssumption ==
  /\ MaxEdits \in Nat /\ MaxFields \in Nat \ {0}
  /\ FormIds # {} /\ FormNames # {} /\ Clients # {}

VARIABLES
  form,         \* [FormIds -> its document]
  formField,    \* the FormField documents: [id, form]
  response,     \* the FormResponse documents, in order
  edit,         \* [Editors -> the request it runs]
  edits,        \* the number of requests so far
  mixed         \* history: forms, names and answers that requests overlapped on

formsVars == <<form, formField, response, edit, edits, mixed>>

FieldIds == (1..MaxEdits) \X (1..MaxFields)

Form == [status : {"none", "live", "deleted"}, name : FormNames, formFields : Seq(FieldIds)]

FormField == [id : FieldIds, form : FormIds]

Response == [form : FormIds, user : Clients, answers : SUBSET FieldIds]

(* fields: the fields the request brings, in order; left: those of them that *)
(* it has not written, or the fields that it answers.                        *)
Edit == [at : {"idle", "make", "fill", "remove", "write", "list", "relist", "delete", "read", "answer"},
         n : 0..MaxEdits, form : FormIds, name : FormNames, user : Clients,
         fields : Seq(FieldIds), left : SUBSET FieldIds]

NoEdit == [at |-> "idle", n |-> 0, form |-> CHOOSE f \in FormIds : TRUE,
           name |-> CHOOSE m \in FormNames : TRUE, user |-> CHOOSE u \in Clients : TRUE,
           fields |-> <<>>, left |-> {}]

FormsInit ==
  /\ form = [f \in FormIds |-> [status |-> "none", name |-> NoEdit.name, formFields |-> <<>>]]
  /\ formField = {} /\ response = <<>>
  /\ edit = [e \in Editors |-> NoEdit] /\ edits = 0 /\ mixed = {}

-----------------------------------------------------------------------------
FieldsOf(f) == {d.id : d \in {x \in formField : x.form = f}}

LiveNamed(name) == {f \in FormIds : form[f].status = "live" /\ form[f].name = name}

Answered(f, u) == \E i \in DOMAIN response : response[i].form = f /\ response[i].user = u

(* The form, the name and the answer that a request is about. *)
SubjectsOf(e) ==
  CASE e.at \in {"read", "answer"} -> {<<"answer", e.form, e.user>>}
    [] e.at \in {"fill", "list"} -> {<<"form", e.form>>}
    [] e.at \in {"make", "remove", "write", "relist"} -> {<<"form", e.form>>, <<"name", e.name>>}
    [] OTHER -> {}

OnHand == UNION {SubjectsOf(edit[q]) : q \in Editors}

(* A request begins; also: what it brings into disorder by itself. *)
Opens(q, e, also) ==
  /\ edit[q] = NoEdit /\ edits < MaxEdits
  /\ edits' = edits + 1
  /\ edit' = [edit EXCEPT ![q] = [e EXCEPT !.n = edits + 1]]
  /\ mixed' = mixed \union also \union (SubjectsOf(e) \intersect OnHand)
  /\ UNCHANGED <<form, formField, response>>

(* createOrEditForm without a form: the name is new; some fields. *)
CreateForm(q, f, name, k) ==
  /\ form[f].status = "none" /\ \A p \in Editors : edit[p].at = "make" => edit[p].form # f
  /\ LiveNamed(name) = {}
  /\ Opens(q, [NoEdit EXCEPT !.at = "make", !.form = f, !.name = name,
                             !.fields = [i \in 1..k |-> <<edits + 1, i>>]], {})

(* createOrEditForm with a form: it keeps some of its fields, which it must  *)
(* have, and may get a new one, and has one in the end; the name may be      *)
(* another form's.                                                           *)
EditForm(q, f, name, keeps, more) ==
  /\ form[f].status = "live" /\ keeps \subseteq FieldsOf(f) /\ (keeps # {} \/ more > 0)
  /\ LET fields == SetToSeq(keeps) \o [i \in 1..more |-> <<edits + 1, i>>]
     IN Opens(q, [NoEdit EXCEPT !.at = "remove", !.form = f, !.name = name,
                                !.fields = fields, !.left = Range(fields)],
              {<<"name", name>>} \ {<<"name", m>> : m \in {form[f].name}})

DeleteForm(q, f) ==
  /\ form[f].status = "live"
  /\ Opens(q, [NoEdit EXCEPT !.at = "delete", !.form = f], {})

(* submitForm: one answer of a user.  A deleted form may be answered. *)
SubmitForm(q, f, u) ==
  /\ form[f].status # "none"
  /\ ~Answered(f, u)
  /\ Opens(q, [NoEdit EXCEPT !.at = "read", !.form = f, !.user = u], {})

-----------------------------------------------------------------------------
EndsEdit(q) == edit' = [edit EXCEPT ![q] = NoEdit]

Onto(q, at) == edit' = [edit EXCEPT ![q].at = at]

SameHistory == UNCHANGED <<edits, mixed>>

MakesForm(q) ==
  /\ edit[q].at = "make"
  /\ form' = [form EXCEPT ![edit[q].form] =
                [status |-> "live", name |-> edit[q].name, formFields |-> <<>>]]
  /\ Onto(q, "fill") /\ SameHistory /\ UNCHANGED <<formField, response>>

(* insertMany *)
FillsForm(q) ==
  /\ edit[q].at = "fill"
  /\ formField' = formField \union {[id |-> i, form |-> edit[q].form] : i \in Range(edit[q].fields)}
  /\ Onto(q, "list") /\ SameHistory /\ UNCHANGED <<form, response>>

(* deleteMany of the fields of the form that the request does not have. *)
RemovesFields(q) ==
  /\ edit[q].at = "remove"
  /\ formField' = {d \in formField : d.form = edit[q].form => d.id \in Range(edit[q].fields)}
  /\ Onto(q, "write")
  /\ SameHistory /\ UNCHANGED <<form, response>>

(* The fields are written in any order; one that was removed is inserted.    *)
WritesField(q) ==
  /\ edit[q].at = "write"
  /\ \E i \in edit[q].left :
       /\ formField' = formField \union {[id |-> i, form |-> edit[q].form]}
       /\ edit' = [edit EXCEPT ![q].left = @ \ {i},
                               ![q].at = IF edit[q].left = {i} THEN "relist" ELSE "write"]
  /\ SameHistory /\ UNCHANGED <<form, response>>

(* The list is written; by an edit, with the name.                           *)
ListsFields(q) ==
  /\ edit[q].at \in {"list", "relist"}
  /\ form' = [form EXCEPT ![edit[q].form].formFields = edit[q].fields,
                          ![edit[q].form].name = IF edit[q].at = "list" THEN @ ELSE edit[q].name]
  /\ EndsEdit(q) /\ SameHistory /\ UNCHANGED <<formField, response>>

(* deleteForm and deleteForms *)
DeletesForm(q) ==
  /\ edit[q].at = "delete"
  /\ form' = [form EXCEPT ![edit[q].form].status = "deleted"]
  /\ EndsEdit(q) /\ SameHistory /\ UNCHANGED <<formField, response>>

(* The fields that the form lists and has; an answer is to some of them.     *)
ReadsForm(q) ==
  LET f == edit[q].form IN
  /\ edit[q].at = "read"
  /\ edit' = [edit EXCEPT ![q].at = "answer",
                          ![q].left = Range(form[f].formFields) \intersect FieldsOf(f)]
  /\ SameHistory /\ UNCHANGED <<form, formField, response>>

StoresAnswer(q) ==
  /\ edit[q].at = "answer"
  /\ response' = Append(response, [form |-> edit[q].form, user |-> edit[q].user,
                                   answers |-> edit[q].left])
  /\ EndsEdit(q) /\ SameHistory /\ UNCHANGED <<form, formField>>

(* A call that a request awaits fails, or the process ends. *)
EditFails(q) ==
  /\ edit[q] # NoEdit
  /\ EndsEdit(q)
  /\ mixed' = mixed \union SubjectsOf(edit[q])
  /\ UNCHANGED <<form, formField, response, edits>>

-----------------------------------------------------------------------------
OpensAny(q) ==
  \E f \in FormIds :
    \/ \E name \in FormNames :
         \/ \E k \in 1..MaxFields : CreateForm(q, f, name, k)
         \/ \E keeps \in SUBSET FieldsOf(f), more \in 0..MaxFields : EditForm(q, f, name, keeps, more)
    \/ DeleteForm(q, f)
    \/ \E u \in Clients : SubmitForm(q, f, u)

GoesThrough(q) ==
  \/ MakesForm(q) \/ FillsForm(q) \/ RemovesFields(q) \/ WritesField(q) \/ ListsFields(q)
  \/ DeletesForm(q) \/ ReadsForm(q) \/ StoresAnswer(q) \/ EditFails(q)

FormsNext == \E q \in Editors : OpensAny(q) \/ GoesThrough(q)

FormsSpec == FormsInit /\ [][FormsNext]_formsVars

-----------------------------------------------------------------------------
(* Types. *)
FormsTypeOK ==
  /\ form \in [FormIds -> Form] /\ formField \subseteq FormField
  /\ response \in Seq(Response) /\ edit \in [Editors -> Edit] /\ edits \in 0..MaxEdits

Clear(subject) == subject \notin mixed /\ subject \notin OnHand

(* A form lists exactly the fields that name it, each once, unless two       *)
(* requests that write it overlapped or one was not ended.                   *)
FormsListTheirFields ==
  \A f \in FormIds : Clear(<<"form", f>>) =>
    /\ Range(form[f].formFields) = FieldsOf(f)
    /\ IsInjective(form[f].formFields)

(* Two answers of a client to one form come from requests that overlapped,   *)
(* and two forms of one name from such requests or from a form renamed.      *)
FormTwinsOverlapped ==
  /\ \A i, j \in DOMAIN response :
       response[i].form = response[j].form /\ response[i].user = response[j].user
       /\ Clear(<<"answer", response[i].form, response[i].user>>) => i = j
  /\ \A name \in FormNames : Clear(<<"name", name>>) => \A f, g \in LiveNamed(name) : f = g
=============================================================================
