------------------------------ MODULE MCPosts ------------------------------
(* Posts on small sets of model values. *)
EXTENDS Posts, TLC

(* Handlers and file names are told apart by nothing. *)
Symmetry == Permutations(Handlers) \cup Permutations(Files)
=============================================================================
