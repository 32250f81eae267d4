--------------------------- MODULE MCIdentitySync ---------------------------
(* Small instances of IdentitySync. *)
EXTENDS IdentitySync, TLC

CONSTANTS i1, i2, k1
Symmetry == Permutations({i1, i2})
=============================================================================
