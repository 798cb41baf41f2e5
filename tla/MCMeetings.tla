----------------------------- MODULE MCMeetings -----------------------------
(* Small instances of Meetings. *)
EXTENDS Meetings, TLC

CONSTANTS s1, s2, s3, vic, ann, desk, link, k1, k2

(* A help desk room: the visitor vic with a socket, the agent ann with two. *)
DeskUserOf == (s1 :> vic) @@ (s2 :> ann) @@ (s3 :> ann)
DeskRoomOf == k1 :> desk
DeskKind == desk :> "HELP_DESK"
DeskMembers == desk :> {vic, ann}
DeskInvitations == {{ann}}

(* The two tabs of ann are interchangeable. *)
DeskSymmetry == Permutations({s2, s3})

(* The desk with the visitor and one tab of the agent only. *)
DuoUserOf == (s1 :> vic) @@ (s2 :> ann)

(* Two open calls in the room of an anonymous call link, one participant     *)
(* with two tabs: tabs and calls are interchangeable.                        *)
PairUserOf == (s1 :> ann) @@ (s2 :> ann)
PairRoomOf == (k1 :> link) @@ (k2 :> link)
PairKind == link :> "ANONYMOUS"
PairMembers == link :> {ann}
PairTabs == Permutations({s1, s2})
PairCalls == Permutations({k1, k2})
PairSymmetry == {t @@ c : t \in PairTabs, c \in PairCalls}
=============================================================================
