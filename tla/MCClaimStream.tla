--------------------------- MODULE MCClaimStream ----------------------------
(***************************************************************************)
(* Small instances of ClaimStream.                                         *)
(***************************************************************************)
EXTENDS ClaimStream, TLC

Symmetry == Permutations(Sockets)
=============================================================================
