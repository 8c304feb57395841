----------------------------- MODULE MCStartup -----------------------------
(* Startup on small databases. *)
EXTENDS Startup, TLC

(* The read loops, the request handlers and the words are told apart by    *)
(* nothing.                                                                *)
Symmetry == Permutations(Loops) \cup Permutations(Handlers) \cup Permutations(Words)
=============================================================================
