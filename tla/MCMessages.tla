---------------------------- MODULE MCMessages ----------------------------
(* Small instances of Messages. *)
EXTENDS Messages, TLC

(* Slots are interchangeable, and so are emojis and the users but the sender. *)
MessagesSymmetry ==
  Permutations(Slots) \union Permutations(Emojis) \union Permutations(Users \ {Sender})
=============================================================================
