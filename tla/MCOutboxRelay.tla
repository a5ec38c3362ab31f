--------------------------- MODULE MCOutboxRelay ----------------------------
(***************************************************************************)
(* Small instances of OutboxRelay: two events of one claim and one of      *)
(* another, so that batches, keys and rows can all be crossed.             *)
(***************************************************************************)
EXTENDS OutboxRelay, TLC

CONSTANTS e1, e2, e3, k1, k2

MCKey == e1 :> k1 @@ e2 :> k1 @@ e3 :> k2

Symmetry == Permutations(Relays)
=============================================================================
