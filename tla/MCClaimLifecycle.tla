-------------------------- MODULE MCClaimLifecycle --------------------------
(***************************************************************************)
(* Small instances of ClaimLifecycle: an adjuster who may approve 1, a     *)
(* senior who may approve 2, and amounts up to 3, above everybody's limit. *)
(***************************************************************************)
EXTENDS ClaimLifecycle, TLC

CONSTANTS ann, sam, t1, t2

MCRole == ann :> "adjuster" @@ sam :> "senior_adjuster"

MCLimit == ann :> 1 @@ sam :> 2

\* One policy in force for a while, one cancelled.
MCPolicies == {[active |-> TRUE, first |-> 1, last |-> 2],
               [active |-> FALSE, first |-> 0, last |-> 3]}

\* Sessions and assessments are interchangeable.
Symmetry == Permutations(Txs) \cup Permutations(Assessments)
=============================================================================
