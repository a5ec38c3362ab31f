------------------------------ MODULE MCIntake ------------------------------
(***************************************************************************)
(* Small instances of Intake.                                              *)
(***************************************************************************)
EXTENDS Intake, TLC

\* Clients are treated alike.
Symmetry == Permutations(Clients)
=============================================================================
