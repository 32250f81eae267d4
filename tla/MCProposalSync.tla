--------------------------- MODULE MCProposalSync ---------------------------
(* Small instances of ProposalSync. *)
EXTENDS ProposalSync

CONSTANTS r1, r2
=============================================================================
