------------------------- MODULE ReadModelConsumer --------------------------
(***************************************************************************)
(* The consumer inside every claims-api replica (app/events/consumer.py):  *)
(* it reads assessment.completed, applies it to the claim's read model     *)
(* (risk_band, latest_assessment_id) and tells the replica's WebSocket     *)
(* clients.  Every replica reads every event, in a Kafka group of its own; *)
(* the ledger claims.processed_events, under one shared group name, makes  *)
(* the update happen once.                                                 *)
(*                                                                         *)
(* One claim, hence one partition.  INSERT ... ON CONFLICT DO NOTHING      *)
(* waits for an open transaction that has inserted the same key, and then  *)
(* skips or inserts depending on how that transaction ended.               *)
(***************************************************************************)
EXTENDS Integers, Sequences, FiniteSets

CONSTANTS
  Assessments,  \* events of the claim, named by their assessment
  Replicas,     \* claims-api processes
  BatchSize,    \* bound: messages one getmany returns
  MaxTopic,     \* bound: messages on the topic, duplicates included
  MaxFailures,  \* bound: handlers that raise
  MaxCrashes    \* bound: restarts of a process and of its group membership

ASSUME ConsumerAssumption ==
  /\ BatchSize \in Nat \ {0}
  /\ MaxTopic \in Nat /\ MaxFailures \in Nat /\ MaxCrashes \in Nat

VARIABLES
  topic,     \* the partition of the claim: a sequence of events
  ledger,    \* processed_events: <<event, consumer_group>> committed
  applied,   \* the updates of the claim in commit order; the last one is
             \* its latest_assessment_id
  rep,       \* the loop state of each replica
  failures,  \* bounds the failures
  crashes    \* bounds the crashes

vars == <<topic, ledger, applied, rep, failures, crashes>>

\* position: how far getmany has read; next: the message in hand; offset: the
\* committed offset of the replica's own group; failed: the batch's flag.
Loops == [pc : {"poll", "handle", "tx", "notify"}, position : Nat,
          next : Nat, offset : Nat, failed : BOOLEAN]

\* A process that joins a fresh group starts at the earliest message.
FreshLoop == [pc |-> "poll", position |-> 0, next |-> 1, offset |-> 0,
              failed |-> FALSE]

Init ==
  /\ topic = << >>
  /\ ledger = {}
  /\ applied = << >>
  /\ rep = [r \in Replicas |-> FreshLoop]
  /\ failures = 0
  /\ crashes = 0

\* The relay delivers an event, for the first time or again.
Deliver(a) ==
  /\ Len(topic) < MaxTopic
  /\ topic' = Append(topic, a)
  /\ UNCHANGED <<ledger, applied, rep, failures, crashes>>

InHand(r) == topic[rep[r].next]

\* mutant: each replica keeps a ledger of its own.
InstanceGroup(r) == r

SHARED_GROUP(r) == "claims-api-readmodel"

LedgerKey(r) == <<InHand(r), SHARED_GROUP(r)>>

\* getmany: the position in memory moves past the whole batch at once.
Fetch(r) ==
  /\ rep[r].pc = "poll"
  /\ rep[r].position < Len(topic)
  /\ \E n \in 1..BatchSize :
       /\ rep[r].position + n <= Len(topic)
       /\ rep' = [rep EXCEPT ![r].pc = "handle", ![r].failed = FALSE,
                             ![r].position = @ + n,
                             ![r].next = rep[r].position + 1]
  /\ UNCHANGED <<topic, ledger, applied, failures, crashes>>

Handling(r) == rep[r].pc = "handle" /\ rep[r].next <= rep[r].position

\* mutant: a key in another transaction's hands counts as processed.
SeenOrInFlight(r) ==
  \/ LedgerKey(r) \in ledger
  \/ \E s \in Replicas : rep[s].pc = "tx" /\ LedgerKey(s) = LedgerKey(r)

Seen(r) == LedgerKey(r) \in ledger

\* ON CONFLICT DO NOTHING returned no row: the handler returns.
SkipDuplicate(r) ==
  /\ Handling(r)
  /\ Seen(r)
  /\ rep' = [rep EXCEPT ![r].next = @ + 1]
  /\ UNCHANGED <<topic, ledger, applied, failures, crashes>>

\* The INSERT succeeds: the key is the transaction's, and others wait for it.
InsertKey(r) ==
  /\ Handling(r)
  /\ ~Seen(r)
  /\ \A s \in Replicas : rep[s].pc = "tx" => LedgerKey(s) # LedgerKey(r)
  /\ rep' = [rep EXCEPT ![r].pc = "tx"]
  /\ UNCHANGED <<topic, ledger, applied, failures, crashes>>

\* apply_assessment and the commit: ledger row and read model together.
CommitTx(r) ==
  /\ rep[r].pc = "tx"
  /\ ledger' = ledger \cup {LedgerKey(r)}
  /\ applied' = Append(applied, InHand(r))
  /\ rep' = [rep EXCEPT ![r].pc = "notify"]
  /\ UNCHANGED <<topic, failures, crashes>>

\* manager.broadcast, after the commit, to this replica's clients.
Notify(r) ==
  /\ rep[r].pc = "notify"
  /\ rep' = [rep EXCEPT ![r].pc = "handle", ![r].next = @ + 1]
  /\ UNCHANGED <<topic, ledger, applied, failures, crashes>>

\* The handler raises (the database is away): rollback, the flag is set and
\* the loop goes on with the next message.
HandlerFails(r) ==
  /\ Handling(r) \/ rep[r].pc = "tx"
  /\ failures < MaxFailures
  /\ rep' = [rep EXCEPT ![r].pc = "handle", ![r].next = @ + 1,
                        ![r].failed = TRUE]
  /\ failures' = failures + 1
  /\ UNCHANGED <<topic, ledger, applied, crashes>>

\* End of the batch: offsets are committed unless a message failed.
EndBatch(r) ==
  /\ rep[r].pc = "handle" /\ rep[r].next > rep[r].position
  /\ rep' = [rep EXCEPT ![r].pc = "poll",
                        ![r].offset = IF rep[r].failed THEN @
                                      ELSE rep[r].position]
  /\ UNCHANGED <<topic, ledger, applied, failures, crashes>>

\* The process dies and a new one takes its place: rollback, a new group,
\* and new connections.
Restart(r) ==
  /\ crashes < MaxCrashes
  /\ rep' = [rep EXCEPT ![r] = FreshLoop]
  /\ crashes' = crashes + 1
  /\ UNCHANGED <<topic, ledger, applied, failures>>

\* The process loses its group membership and rejoins: the position goes
\* back to the committed offset.
Rejoin(r) ==
  /\ rep[r].pc = "poll"
  /\ crashes < MaxCrashes
  /\ rep' = [rep EXCEPT ![r].position = rep[r].offset,
                        ![r].next = rep[r].offset + 1]
  /\ crashes' = crashes + 1
  /\ UNCHANGED <<topic, ledger, applied, failures>>

Next ==
  \/ \E a \in Assessments : Deliver(a)
  \/ \E r \in Replicas :
       \/ Fetch(r) \/ SkipDuplicate(r) \/ InsertKey(r) \/ CommitTx(r)
       \/ Notify(r) \/ HandlerFails(r) \/ EndBatch(r)
       \/ Restart(r) \/ Rejoin(r)

Spec == Init /\ [][Next]_vars

Work(r) ==
  Fetch(r) \/ SkipDuplicate(r) \/ InsertKey(r) \/ CommitTx(r) \/ Notify(r)
    \/ EndBatch(r)

\* The loop of a replica runs on: no step of it is put off for ever.
FairSpec == Spec /\ \A r \in Replicas : WF_vars(Work(r))

-----------------------------------------------------------------------------
(***************************************************************************)
(* Properties                                                              *)
(***************************************************************************)
Published == {topic[i] : i \in DOMAIN topic}

Applied == {applied[i] : i \in DOMAIN applied}

\* Type invariant of the topic, the ledger, the read model and the loops.
TypeOK ==
  /\ topic \in Seq(Assessments)
  /\ ledger \subseteq Assessments \X {"claims-api-readmodel"}
  /\ applied \in Seq(Assessments)
  /\ rep \in [Replicas -> Loops]
  /\ failures \in 0..MaxFailures
  /\ crashes \in 0..MaxCrashes
  /\ \A r \in Replicas :
       /\ rep[r].offset <= rep[r].position /\ rep[r].position <= Len(topic)
       /\ rep[r].next <= rep[r].position + 1

\* b is published after a: no copy of b precedes the first copy of a.
PublishedBefore(a, b) ==
  \E i \in DOMAIN topic :
    topic[i] = a /\ \A j \in DOMAIN topic : topic[j] = b => i < j

\* latest_assessment_id never regresses: unless a handler failed, the updates
\* commit in the order of the topic, although every replica races to apply
\* each of them and replicas restart and reread.
AppliedInOrder ==
  failures = 0 =>
    \A i, j \in DOMAIN applied :
      i < j => PublishedBefore(applied[i], applied[j])

Once == INSTANCE OnceEach WITH published <- Published

\* models/outbox.py, ProcessedEvent: "effectively exactly-once": ledger row
\* and update commit together, so replicas, duplicates, failures, restarts
\* and rejoins implement OnceEach.
ImplementsOnceEach == Once!OnceSpec

\* As long as fewer handlers fail than there are replicas, every assessment
\* on the topic is applied in the end: what one replica lets fall another
\* picks up.
EveryAssessmentApplied ==
  \A a \in Assessments : a \in Published ~> a \in Applied
=============================================================================
