---------------------------- MODULE MCSessions ----------------------------
(* Sessions on small sets of model values. *)
EXTENDS Sessions, TLC

(* No two of these sets are told apart by any definition of Sessions. *)
Symmetry == Permutations(Users) \cup Permutations(SessionIDs) \cup Permutations(Clients)
            \cup Permutations(Conns) \cup Permutations(Otps)
            \cup Permutations(Handlers)
=============================================================================
