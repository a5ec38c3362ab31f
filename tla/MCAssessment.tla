---------------------------- MODULE MCAssessment ----------------------------
(***************************************************************************)
(* A small instance of Assessment: two workers with two documents of one   *)
(* claim, two requirements and the narrative in batches of two, and two    *)
(* clauses that both match both requirements.                              *)
(***************************************************************************)
EXTENDS Assessment

MCRequirements == <<"scope", "licence">>

MCFiles == <<<<"clause1", "clause2">>, <<"precedent">>>>

\* The first clause fits the second requirement better than the first.
MCSimilarity ==
  [scope |-> [clause1 |-> 2, clause2 |-> 1, precedent |-> 0],
   licence |-> [clause1 |-> 3, clause2 |-> 4, precedent |-> 0],
   narrative |-> [clause1 |-> 0, clause2 |-> 1, precedent |-> 2]]

MCTexts == {"scope", "licence", "narrative", "clause1", "clause2", "precedent"}
=============================================================================
