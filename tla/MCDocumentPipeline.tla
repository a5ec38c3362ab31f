------------------------- MODULE MCDocumentPipeline -------------------------
(***************************************************************************)
(* Small instances of DocumentPipeline: each document has a partition of   *)
(* its own, so that two of them can be worked on at once.                  *)
(***************************************************************************)
EXTENDS DocumentPipeline

OwnPartition == [d \in Docs |-> d]

\* The ingestion group starts with one process for all partitions, the decision
\* group with a partition for each of its processes if it has enough of them.
Spread(ws) ==
  CHOOSE f \in [Docs -> ws] :
    Cardinality(Docs) <= Cardinality(ws) => \A d, e \in Docs : f[d] = f[e] => d = e
OneIngester == CHOOSE w \in Ingesters : TRUE
Owners == [g \in Groups |-> IF g = "ingestion-worker"
             THEN [p \in Docs |-> OneIngester] ELSE Spread(Deciders)]

=============================================================================
