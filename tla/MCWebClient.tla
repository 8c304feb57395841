---------------------------- MODULE MCWebClient ----------------------------
(* WebClient in one or two tabs. *)
EXTENDS WebClient, TLC

(* The users are told apart by nothing. *)
Symmetry == Permutations(Users)
=============================================================================
