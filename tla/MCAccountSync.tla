--------------------------- MODULE MCAccountSync ---------------------------
(* Small instances of AccountSync. *)
EXTENDS AccountSync, TLC

CONSTANTS a1, a2, r1, r2
Symmetry == Permutations({a1, a2}) \cup Permutations({r1, r2})
=============================================================================
