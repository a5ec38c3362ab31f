----------------------------- MODULE MCLiveView -----------------------------
(***************************************************************************)
(* A small instance of LiveView: two claims on pages of one row, and two   *)
(* sockets of the page, so that a new one meets the old one that has not   *)
(* been noticed to be gone.                                                *)
(***************************************************************************)
EXTENDS LiveView

OneAfterTheOther ==
  CHOOSE f \in [Claims -> 1..Cardinality(Claims)] :
    \A c, d \in Claims : f[c] = f[d] => c = d
=============================================================================
