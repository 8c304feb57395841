-------------------------- MODULE MCConversations --------------------------
(* Conversations on small sets of ids. *)
EXTENDS Conversations, TLC

(* The read loops are told apart by nothing. *)
Symmetry == Permutations(Loops)
=============================================================================
