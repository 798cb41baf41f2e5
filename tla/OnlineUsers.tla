---------------------------- MODULE OnlineUsers ----------------------------
(***************************************************************************)
(* What the presence list promises: the users shown as online are exactly  *)
(* those some live socket has identified as, at every moment.  A socket    *)
(* may identify as a user, a socket may go away, and the server may        *)
(* restart, which takes every socket with it.                              *)
(***************************************************************************)
CONSTANTS Users, Sockets

VARIABLES
  bound,    \* the pairs <<socket, user>> of the live identifications
  shown     \* the list of online users last told to everybody

onlineVars == <<bound, shown>>

OnlineIn(b) == {u \in Users : \E s \in Sockets : <<s, u>> \in b}

OInit == bound = {} /\ shown = {}

Show(b) == bound' = b /\ shown' = OnlineIn(b)

Identify(s, u) == Show(bound \union {<<s, u>>})

Drop(s) == Show({p \in bound : p[1] # s})

Reset == Show({})

ONext ==
  \/ \E s \in Sockets, u \in Users : Identify(s, u)
  \/ \E s \in Sockets : Drop(s)
  \/ Reset

OSpec == OInit /\ [][ONext]_onlineVars
=============================================================================
