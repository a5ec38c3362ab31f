-------------------------- MODULE DocumentPipeline --------------------------
(***************************************************************************)
(* The ingestion workers and the decision workers at work on the documents *)
(* of one claim: both groups read the same topic, the second what the      *)
(* first has written to the outbox.                                        *)
(***************************************************************************)
EXTENDS IngestionWorker, DecisionWorker

vars == <<topicVars, calls, decideVars>>

Init == TopicInit /\ IngestInit /\ DecideInit

Next ==
  \/ /\ \/ \E e \in outbox : PublishEvent(e)
        \/ \E w \in Workers : Fetch(w) \/ EndBatch(w)
        \/ \E p \in Partitions, w \in Workers : Rebalance(p, w)
     /\ UNCHANGED <<calls, decideVars>>
  \/ \E w \in Workers :
       Crash(w) /\ UNCHANGED <<calls, decideVars>>
  \/ \E w \in Ingesters : Ingest(w) /\ UNCHANGED decideVars
  \/ \E w \in Deciders : (Decide(w) \/ Raise(w)) /\ UNCHANGED calls

Spec == Init /\ [][Next]_vars

Publish == (\E e \in outbox : PublishEvent(e)) /\ UNCHANGED <<calls, decideVars>>

\* run(): the loop of a worker goes on.
Run(w) ==
  \/ (Fetch(w) \/ EndBatch(w)) /\ UNCHANGED <<calls, decideVars>>
  \/ w \in Ingesters /\ Ingest(w) /\ UNCHANGED decideVars
  \/ w \in Deciders /\ Decide(w) /\ UNCHANGED calls

FairSpec == Spec /\ WF_vars(Publish) /\ \A w \in Workers : WF_vars(Run(w))

-----------------------------------------------------------------------------
(***************************************************************************)
(* Properties                                                              *)
(***************************************************************************)
Loops == [stage : {"poll", "handle", "called", "unreadable", "begun",
                   "read"},
          batch : SUBSET (Partitions \X Nat),
          hand : (Partitions \X Nat) \cup {NoPlace},
          failed : BOOLEAN, position : [Partitions -> Nat]]

\* Type invariant.  A group never commits past what its member has fetched,
\* and nobody commits past the end of a partition.
TypeOK ==
  /\ log \in [Partitions -> Seq(Events)]
  /\ outbox \subseteq Events
  /\ offset \in [Groups -> [Partitions -> Nat]]
  /\ loop \in [Workers -> Loops]
  /\ ledger \subseteq Events \X Groups
  /\ extractions \in [Docs -> Seq({"extracted", "failed"})]
  /\ deadLetters \in [Groups -> [Docs -> Nat]]
  /\ calls \in [Docs -> Nat]
  /\ assessed \in [Docs -> Nat]
  /\ \A g \in Groups : \A p \in Partitions :
       /\ offset[g][p] <= loop[owner[g][p]].position[p]
       /\ loop[owner[g][p]].position[p] <= Len(log[p])

\* Every message of the type below a group's committed offset is in the
\* group's ledger.
OffsetCovers(g, type) ==
  \A p \in Partitions : \A i \in 1..offset[g][p] :
    log[p][i].type = type => <<log[p][i], g>> \in ledger

\* main.py of both workers commits offsets only after the messages were
\* handled: although partitions change hands under a running batch and
\* processes die, no upload is passed over, and no extraction unless a
\* decision handler raised.
OffsetsCoverWork ==
  /\ OffsetCovers("ingestion-worker", "uploaded")
  /\ raised = 0 => OffsetCovers("decision-worker", "extracted")

Done(type, g, d) == IF <<Event(type, d), g>> \in ledger THEN 1 ELSE 0

Extracted(d) == \E i \in DOMAIN extractions[d] : extractions[d][i] = "extracted"

\* README.md:57-59: the ledger row is written with the side effect, so an
\* upload has one extraction (and a dead letter if that failed), an
\* extraction one assessment or one dead letter, whoever processes them and
\* however often they are delivered.
OneOutcomeEach ==
  \A d \in Docs :
    /\ Len(extractions[d]) = Done("uploaded", "ingestion-worker", d)
    /\ deadLetters["ingestion-worker"][d] + (IF Extracted(d) THEN 1 ELSE 0)
         = Len(extractions[d])
    /\ assessed[d] + deadLetters["decision-worker"][d]
         = Done("extracted", "decision-worker", d)

\* ingestion main.py:9-12: a call is paid twice only because a process died
\* or lost its partition in the middle; a duplicate alone never costs one.
CallsExplained ==
  \A d \in Docs : calls[d] <= 1 + moves + crashes

\* What the pipeline comes to for a document: a dead letter or an assessment.
Concluded(d) ==
  \/ \E g \in Groups : deadLetters[g][d] > 0
  \/ assessed[d] > 0

\* Every uploaded document comes to an assessment or a dead letter, unless a
\* decision handler raised.
PipelineConcludes == \A d \in Docs : <>(Concluded(d) \/ raised > 0)

-----------------------------------------------------------------------------
(***************************************************************************)
(* What the documentation says and the code does not keep                  *)
(***************************************************************************)
\* decider/main.py:89-92: "Committing after a failure would silently drop the
\* work; leaving the offset means Kafka redelivers": the group's offset never
\* passes an extraction that was not handled.
NothingDropped == OffsetCovers("decision-worker", "extracted")
=============================================================================
