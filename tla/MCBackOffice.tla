---------------------------- MODULE MCBackOffice ----------------------------
(***************************************************************************)
(* Stations, spaces, the desk and its forms share no variable, so one run  *)
(* checks them side by side: it begins with one of the four and takes the  *)
(* steps of that one only.  The members and the tags of a space are parts  *)
(* of one document with one version: what a push or a list of the one may  *)
(* do to a save of the other is to have it refused, which OrderFails and   *)
(* TaskFails do at any step.                                               *)
(***************************************************************************)
EXTENDS Stations, Spaces, Desk, Forms

CONSTANTS boss, amy, bob

InvitedFirst == <<amy, bob>>

VARIABLE office   \* the component that runs

backOfficeVars == <<stationVars, spacesVars, deskVars, formsVars, office>>

BackOfficeInit ==
  /\ StationsInit /\ SpacesInit /\ DeskInit /\ FormsInit
  /\ office \in {"stations", "spaces", "desk", "forms"}

BackOfficeNext ==
  \/ /\ office = "stations" /\ StationsNext
     /\ UNCHANGED <<spacesVars, deskVars, formsVars, office>>
  \/ /\ office = "spaces" /\ SpacesNext
     /\ UNCHANGED <<stationVars, deskVars, formsVars, office>>
  \/ /\ office = "desk" /\ DeskNext
     /\ UNCHANGED <<stationVars, spacesVars, formsVars, office>>
  \/ /\ office = "forms" /\ FormsNext
     /\ UNCHANGED <<stationVars, spacesVars, deskVars, office>>

BackOfficeSpec == BackOfficeInit /\ [][BackOfficeNext]_backOfficeVars

-----------------------------------------------------------------------------
(* The types of the four. *)
BackOfficeTypes == StationsTypeOK /\ SpacesTypeOK /\ DeskTypeOK /\ FormsTypeOK

(* What refers to something refers to what is there: the script in use, the  *)
(* tag of a conversation, the fields a form lists.                           *)
ReferencesHold == ScriptInUseLives /\ DeletedTagsCleared /\ FormsListTheirFields

(* What is looked up before it is stored is stored twice by requests that    *)
(* overlapped only, or by a name given anew: tags, ratings, forms, answers.  *)
OfficeTwinsOverlapped == DeskTwinsOverlapped /\ FormTwinsOverlapped
=============================================================================
