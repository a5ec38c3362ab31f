----------------------------- MODULE Retriever ------------------------------
(***************************************************************************)
(* Retrieval (decision-worker/decider/retriever.py): one search per        *)
(* coverage requirement over the policy clauses, one with the narrative    *)
(* over the precedents, merged into the evidence of an assessment.  Each   *)
(* search is a statement of its own and reads what is committed by then.   *)
(***************************************************************************)
EXTENDS Integers, Sequences, FiniteSets

CONSTANTS
  Requirements,   \* COVERAGE_REQUIREMENTS, in order
  Narrative,      \* the narrative of the claim
  Clauses,        \* rows policy_chunks may have
  Precedents,     \* rows claim_precedents of the product may have
  PerRequirement, \* per_requirement
  PrecedentLimit, \* precedent_limit
  Similarity      \* Similarity[query][row]; no two rows are equally similar

Queries == Append(Requirements, Narrative)

Rows == Clauses \cup Precedents

ASSUME RetrieverAssumption ==
  /\ {PerRequirement, PrecedentLimit} \subseteq Nat \ {0}
  /\ \A i \in DOMAIN Queries : Similarity[Queries[i]] \in [Rows -> Nat]

VARIABLE indexed  \* rows of policy_chunks and claim_precedents, committed

\* ORDER BY distance LIMIT n.
Nearest(query, rows, n) ==
  {k \in rows :
     Cardinality({j \in rows : Similarity[query][j] > Similarity[query][k]}) < n}

\* SEARCH_CLAUSES takes the clauses of every product, SEARCH_PRECEDENTS the
\* precedents of the claim's own.
Search(query, rows) ==
  IF query = Narrative
  THEN Nearest(query, rows \cap Precedents, PrecedentLimit)
  ELSE Nearest(query, rows \cap Clauses, PerRequirement)

\* mutant: a row found before stays with its first query.
FirstFound(query, found, evidence) ==
  [k \in DOMAIN evidence \cup found |->
     IF k \in DOMAIN evidence THEN evidence[k] ELSE query]

\* A row found before stays with its query unless this one is more similar.
Merged(query, found, evidence) ==
  [k \in DOMAIN evidence \cup found |->
     IF k \in DOMAIN evidence
        /\ (k \in found => Similarity[query][k] <= Similarity[evidence[k]][k])
     THEN evidence[k] ELSE query]

\* What gather() promises when search i reads the rows read[i]: every row that
\* a search finds, with the query it is most similar to of those that find it.
IsEvidence(evidence, read) ==
  LET found == [i \in DOMAIN Queries |-> Search(Queries[i], read[i])] IN
  /\ DOMAIN evidence = UNION {found[i] : i \in DOMAIN Queries}
  /\ \A k \in DOMAIN evidence :
       /\ \E i \in DOMAIN Queries : evidence[k] = Queries[i] /\ k \in found[i]
       /\ \A i \in DOMAIN Queries : k \in found[i] =>
            Similarity[Queries[i]][k] <= Similarity[evidence[k]][k]
=============================================================================
