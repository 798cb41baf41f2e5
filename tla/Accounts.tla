------------------------------ MODULE Accounts ------------------------------
(***************************************************************************)
(* The accounts of one email: AuthService, with what UsersService writes   *)
(* for it.                                                                 *)
(*                                                                         *)
(* The email is unique by an index, and a deleted account gives it up.     *)
(* Every link that is mailed carries a token of its own, and an account    *)
(* keeps one, whether the link activates it or resets its password.        *)
(*                                                                         *)
(* Left out: passwords, which any request may have right, user names, and  *)
(* the expiry of tokens, which refuses a link like a wrong one.            *)
(***************************************************************************)
EXTENDS Naturals, FiniteSets

CONSTANTS
  Phones,       \* the requests that may be under way at a time
  MaxSteps      \* bound on the requests begun

ASSUME AccountsAssumption == MaxSteps \in Nat

VARIABLES
  account,      \* [Ids -> the User document]; an account is named by the request that creates it
  sessions,     \* the accounts that somebody has signed in to
  mailed,       \* the tokens of the links that were mailed
  call,         \* [Phones -> the request it runs]
  calls,        \* the number of requests so far
  latest,       \* history: [Ids -> the token mailed last and not used since, or NoLink]
  activated,    \* history: the accounts that a link activated, or that are social
  raced         \* history: the accounts that requests overlapped on or did not end for

accountsVars == <<account, sessions, mailed, call, calls, latest, activated, raced>>

Ids == 1..MaxSteps

NoLink == 0

Nobody == 0

Possessions == {"spaces", "devices"}

(* mine: it has the email. *)
User == [status : {"none", "pending", "unset", "active", "deleted"}, mine : BOOLEAN, social : BOOLEAN,
         verifyToken : Ids \union {NoLink}, owns : SUBSET Possessions]

NoUser == [status |-> "none", mine |-> FALSE, social |-> FALSE, verifyToken |-> NoLink, owns |-> {}]

Call == [at : {"idle", "create", "social", "setToken", "mail", "activate", "reset", "setUp",
               "erase", "eraseSpaces", "eraseTokens"},
         n : 0..MaxSteps, id : Ids \union {Nobody}]

NoCall == [at |-> "idle", n |-> 0, id |-> Nobody]

AccountsInit ==
  /\ account = [d \in Ids |-> NoUser]
  /\ sessions = {} /\ mailed = {}
  /\ call = [p \in Phones |-> NoCall] /\ calls = 0
  /\ latest = [d \in Ids |-> NoLink] /\ activated = {} /\ raced = {}

-----------------------------------------------------------------------------
(* findByEmail: the one account with the email, if there is one. *)
Mine == {d \in Ids : account[d].mine}

Concerned == {call[p].id : p \in Phones}

Dials(p, at, id) ==
  /\ call[p] = NoCall /\ calls < MaxSteps
  /\ calls' = calls + 1
  /\ call' = [call EXCEPT ![p] = [at |-> at, n |-> calls + 1, id |-> id]]
  /\ raced' = raced \union (({id} \intersect Concerned) \ {Nobody})
  /\ UNCHANGED <<account, sessions, mailed, latest, activated>>

(* signUp: there is no such account. *)
SignUp(p) == Mine = {} /\ Dials(p, "create", Nobody)

ResendVerifyEmail(p) ==
  \E d \in Mine : account[d].status = "pending" /\ Dials(p, "setToken", d)

ForgotPassword(p) == \E d \in Mine : Dials(p, "setToken", d)

(* activateAccount, resetPassword: the link that was mailed has the token.   *)
Activate(p, t) ==
  \E d \in Mine : /\ account[d].status = "pending" /\ account[d].verifyToken = t
                  /\ Dials(p, "activate", d)

ResetPassword(p, t) ==
  \E d \in Mine : account[d].verifyToken = t /\ Dials(p, "reset", d)

(* socialSignIn: with no account, one is made. *)
SocialSignUp(p) == Mine = {} /\ Dials(p, "social", Nobody)

(* setUpInfo, deleteAccount: whoever has signed in once. *)
SetUpInfo(p, d) == d \in sessions /\ Dials(p, "setUp", d)

DeleteAccount(p, d) == d \in sessions /\ Dials(p, "erase", d)

(* Forms with a mistake, which no step takes: SignsInAnybody, KeepsToken.    *)
SignsInAnybody ==
  /\ sessions' = sessions \union Mine
  /\ UNCHANGED <<account, mailed, call, calls, latest, activated, raced>>

(* signIn, socialSignIn of a social account, and tokens refreshed: a session *)
(* once begun is never ended by the server.                                  *)
SignIn ==
  /\ sessions' = sessions \union {d \in Mine : account[d].status # "pending"}
  /\ UNCHANGED <<account, mailed, call, calls, latest, activated, raced>>

(* The index of the schema deletes an account pending for a day. *)
Expires(d) ==
  /\ account[d].status = "pending"
  /\ account' = [account EXCEPT ![d] = NoUser]
  /\ latest' = [latest EXCEPT ![d] = NoLink]
  /\ raced' = raced \union ({d} \intersect Concerned)
  /\ UNCHANGED <<sessions, mailed, call, calls, activated>>

(* A space is created, or a device subscribes, by an account that is set up. *)
Gains(d, x) ==
  /\ d \in sessions /\ account[d].status = "active"
  /\ account' = [account EXCEPT ![d].owns = @ \union {x}]
  /\ raced' = raced \union ({d} \intersect Concerned)
  /\ UNCHANGED <<sessions, mailed, call, calls, latest, activated>>

-----------------------------------------------------------------------------
HangsUp(p) == call' = [call EXCEPT ![p] = NoCall]

Turns(p, at, id) == call' = [call EXCEPT ![p].at = at, ![p].id = id]

(* The creation is refused by the index when the email is taken meanwhile.   *)
Creates(p) ==
  /\ call[p].at = "create"
  /\ IF Mine = {}
     THEN /\ account' = [account EXCEPT ![call[p].n] =
               [NoUser EXCEPT !.status = "pending", !.mine = TRUE, !.verifyToken = call[p].n]]
          /\ Turns(p, "mail", call[p].n)
     ELSE HangsUp(p) /\ UNCHANGED account
  /\ UNCHANGED <<sessions, mailed, calls, latest, activated, raced>>

CreatesSocial(p) ==
  /\ call[p].at = "social"
  /\ HangsUp(p)
  /\ IF Mine = {}
     THEN /\ account' = [account EXCEPT ![call[p].n] =
               [NoUser EXCEPT !.status = "active", !.mine = TRUE, !.social = TRUE]]
          /\ sessions' = sessions \union {call[p].n}
          /\ activated' = activated \union {call[p].n}
     ELSE UNCHANGED <<account, sessions, activated>>
  /\ UNCHANGED <<mailed, calls, latest, raced>>

(* update: of the account that was read, which may be gone. *)
There(p) == account[call[p].id].status # "none"

SetsToken(p) ==
  /\ call[p].at = "setToken"
  /\ IF There(p)
     THEN /\ account' = [account EXCEPT ![call[p].id].verifyToken = call[p].n]
          /\ Turns(p, "mail", call[p].id)
     ELSE HangsUp(p) /\ UNCHANGED account
  /\ UNCHANGED <<sessions, mailed, calls, latest, activated, raced>>

SendsMail(p) ==
  /\ call[p].at = "mail"
  /\ mailed' = mailed \union {call[p].n}
  /\ latest' = [latest EXCEPT ![call[p].id] = call[p].n]
  /\ HangsUp(p)
  /\ UNCHANGED <<account, sessions, calls, activated, raced>>

KeepsToken(p) ==
  IF call[p].at = "activate" THEN [account[call[p].id] EXCEPT !.status = "unset"]
                             ELSE account[call[p].id]

AfterLink(p) ==
  LET used == [account[call[p].id] EXCEPT !.verifyToken = NoLink]
  IN IF call[p].at = "activate" THEN [used EXCEPT !.status = "unset"] ELSE used

(* The updates of an activation and of a reset. *)
UsesLink(p) ==
  /\ call[p].at \in {"activate", "reset"}
  /\ IF There(p)
     THEN /\ account' = [account EXCEPT ![call[p].id] = AfterLink(p)]
          /\ latest' = [latest EXCEPT ![call[p].id] = NoLink]
          /\ activated' = IF call[p].at = "activate" THEN activated \union {call[p].id} ELSE activated
     ELSE UNCHANGED <<account, latest, activated>>
  /\ HangsUp(p)
  /\ UNCHANGED <<sessions, mailed, calls, raced>>

(* setUpInfo makes the account active, whatever it is. *)
SetsUp(p) ==
  /\ call[p].at = "setUp"
  /\ account' = [account EXCEPT ![call[p].id].status = "active"]
  /\ HangsUp(p)
  /\ raced' = raced \union (IF account[call[p].id].status = "deleted" THEN {call[p].id} ELSE {})
  /\ UNCHANGED <<sessions, mailed, calls, latest, activated>>

(* delete, deleteSpacesIfExistByOwner, deleteAllTokens *)
Erases(p) ==
  /\ call[p].at = "erase"
  /\ account' = [account EXCEPT ![call[p].id] =
       [@ EXCEPT !.status = "deleted", !.mine = FALSE, !.social = FALSE, !.verifyToken = NoLink]]
  /\ latest' = [latest EXCEPT ![call[p].id] = NoLink]
  /\ Turns(p, "eraseSpaces", call[p].id)
  /\ UNCHANGED <<sessions, mailed, calls, activated, raced>>

ErasesBelongings(p) ==
  /\ \/ /\ call[p].at = "eraseSpaces" /\ Turns(p, "eraseTokens", call[p].id)
        /\ account' = [account EXCEPT ![call[p].id].owns = @ \ {"spaces"}]
     \/ /\ call[p].at = "eraseTokens" /\ HangsUp(p)
        /\ account' = [account EXCEPT ![call[p].id].owns = @ \ {"devices"}]
  /\ UNCHANGED <<sessions, mailed, calls, latest, activated, raced>>

(* A call that a request awaits fails, or the process ends. *)
CallFails(p) ==
  /\ call[p] # NoCall
  /\ HangsUp(p)
  /\ raced' = raced \union ({call[p].id} \ {Nobody})
  /\ UNCHANGED <<account, sessions, mailed, calls, latest, activated>>

-----------------------------------------------------------------------------
DialsAny(p) ==
  \/ SignUp(p) \/ ResendVerifyEmail(p) \/ ForgotPassword(p) \/ SocialSignUp(p)
  \/ \E t \in mailed : Activate(p, t) \/ ResetPassword(p, t)
  \/ \E d \in Ids : SetUpInfo(p, d) \/ DeleteAccount(p, d)

TalksOn(p) ==
  \/ Creates(p) \/ CreatesSocial(p) \/ SetsToken(p) \/ SendsMail(p) \/ UsesLink(p)
  \/ SetsUp(p) \/ Erases(p) \/ ErasesBelongings(p) \/ CallFails(p)

AccountsNext ==
  \/ \E p \in Phones : DialsAny(p) \/ TalksOn(p)
  \/ \E d \in Ids : Expires(d) \/ \E x \in Possessions : Gains(d, x)
  \/ SignIn

AccountsSpec == AccountsInit /\ [][AccountsNext]_accountsVars

-----------------------------------------------------------------------------
(* Types. *)
AccountsTypeOK ==
  /\ account \in [Ids -> User] /\ sessions \subseteq Ids /\ mailed \subseteq Ids
  /\ call \in [Phones -> Call] /\ calls \in 0..MaxSteps
  /\ latest \in [Ids -> Ids \union {NoLink}] /\ activated \subseteq Ids /\ raced \subseteq Ids

(* The link mailed last is the one the account takes, until it is used, and  *)
(* then it takes none: one field serves the activation and the reset, and    *)
(* either use, and the deletion, empties it.  An account that was deleted    *)
(* leaves no space and no device.  Except for accounts that requests         *)
(* overlapped on or did not end for, or that were set up after the deletion. *)
SettledAccounts ==
  \A d \in Ids \ (raced \union Concerned) :
    /\ account[d].verifyToken = latest[d]
    /\ account[d].status = "deleted" => account[d].owns = {}

(* Nobody has signed in to an account that no link activated, and it is set  *)
(* up by nobody, whichever link its reset was mailed with.                   *)
SessionsActivated ==
  /\ sessions \subseteq activated
  /\ \A d \in Ids : account[d].status \in {"unset", "active", "deleted"} => d \in activated
=============================================================================
