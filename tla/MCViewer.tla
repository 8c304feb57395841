------------------------------ MODULE MCViewer ------------------------------
(* Viewer for TLC. *)
EXTENDS Viewer, TLC

(* Neither the users nor the requests are told apart by anything. *)
Symmetry == Permutations(Users) \cup Permutations(Requests)
=============================================================================
