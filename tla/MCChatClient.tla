---------------------------- MODULE MCChatClient ----------------------------
(* ChatClient on small sets of model values. *)
EXTENDS ChatClient, TLC

(* The conversations are told apart by nothing. *)
Symmetry == Permutations(Convs)
=============================================================================
