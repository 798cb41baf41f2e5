------------------------------ MODULE MCPeople ------------------------------
(***************************************************************************)
(* The sockets with the relays, one user's devices, one email's accounts   *)
(* and two users with their rooms share no state that these modules keep,  *)
(* so one run checks them side by side: it begins with one of the four and *)
(* takes the steps of that one only.                                       *)
(***************************************************************************)
EXTENDS Relays, Devices, Accounts, Contacts

VARIABLE area   \* the component that runs

peopleVars == <<relaysVars, devicesVars, accountsVars, contactsVars, area>>

PeopleInit ==
  /\ area \in {"relays", "devices", "accounts", "contacts"}
  /\ RelaysInit /\ DevicesInit /\ AccountsInit /\ ContactsInit
  /\ area # "contacts" => \A u \in Pair : pal[u].allowUnknown

PeopleNext ==
  \/ /\ area = "relays" /\ RelaysNext
     /\ UNCHANGED <<devicesVars, accountsVars, contactsVars, area>>
  \/ /\ area = "devices" /\ DevicesNext
     /\ UNCHANGED <<relaysVars, accountsVars, contactsVars, area>>
  \/ /\ area = "accounts" /\ AccountsNext
     /\ UNCHANGED <<relaysVars, devicesVars, contactsVars, area>>
  \/ /\ area = "contacts" /\ ContactsNext
     /\ UNCHANGED <<relaysVars, devicesVars, accountsVars, area>>

PeopleSpec == PeopleInit /\ [][PeopleNext]_peopleVars

-----------------------------------------------------------------------------
(* The types of the four. *)
PeopleTypes == RelaysTypeOK /\ DevicesTypeOK /\ AccountsTypeOK /\ ContactsTypeOK
=============================================================================
