--------------------------- MODULE MCLiveCustody ---------------------------
(* Values for the constants of LiveCustody that a .cfg cannot write.       *)
EXTENDS LiveCustody, TLC

CONSTANTS e1, e2

Swap == Permutations({e1, e2})
=============================================================================
