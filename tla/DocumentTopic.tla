--------------------------- MODULE DocumentTopic ----------------------------
(***************************************************************************)
(* What the ingestion worker and the decision worker share: the topic      *)
(* claims.document.v1 with its two consumer groups, the loop both workers  *)
(* run (getmany, handle message after message, commit), and the tables     *)
(* they meet in.  Kafka is modelled by what aiokafka does for this loop:   *)
(* getmany moves a position in memory, commit() commits the positions of   *)
(* the partitions the process still owns, and a process that is given a    *)
(* partition starts at its committed offset.  A process whose batch takes  *)
(* longer than max_poll_interval_ms loses its partitions with the batch    *)
(* still in hand: model calls are retried with delays up to 30 s.          *)
(*                                                                         *)
(* A document has one document.uploaded and at most one of                 *)
(* document.extracted and document.extraction_failed, so type and document *)
(* name an event.                                                          *)
(***************************************************************************)
EXTENDS Integers, Sequences, FiniteSets

CONSTANTS
  Docs,         \* the documents of one claim
  PartitionOf,  \* PartitionOf[d]: where the hash of document d's id puts it
  Ingesters,    \* ingestion-worker processes
  Deciders,     \* decision-worker processes
  FirstOwner,   \* FirstOwner[g][p]: the process that has the partition first
  MaxCopies,    \* bound: events the relay publishes again
  MaxMoves,     \* bound: partitions that change hands
  MaxCrashes    \* bound: processes that end and are started again

Workers == Ingesters \cup Deciders

Partitions == {PartitionOf[d] : d \in Docs}

Groups == {"ingestion-worker", "decision-worker"}

Group(w) == IF w \in Ingesters THEN "ingestion-worker" ELSE "decision-worker"

Members(g) == {w \in Workers : Group(w) = g}

ASSUME TopicAssumption ==
  /\ DOMAIN PartitionOf = Docs
  /\ Ingesters \cap Deciders = {}
  /\ FirstOwner \in [Groups -> [Partitions -> Workers]]
  /\ \A g \in Groups : \A p \in Partitions : FirstOwner[g][p] \in Members(g)
  /\ MaxCopies \in Nat /\ MaxMoves \in Nat /\ MaxCrashes \in Nat

Event(type, d) == [type |-> type, doc |-> d]

Events ==
  [type : {"uploaded", "extracted", "extraction_failed"}, doc : Docs]

VARIABLES
  log,          \* log[p]: the messages of a partition
  outbox,       \* committed events the relay has still to publish
  copies,       \* bounds the events published again
  offset,       \* offset[g][p]: committed by the group
  owner,        \* owner[g][p]: the process the group gave the partition to
  loop,         \* the loop of each worker
  moves,        \* bounds the rebalances
  crashes,      \* bounds the crashes
  ledger,       \* processed_events: <<event, consumer_group>> committed
  extractions,  \* extractions[d]: the outcomes recorded, in order
  deadLetters   \* deadLetters[g][d]: letters written by a group for d

kafkaVars == <<log, outbox, copies, offset, owner, moves>>
tableVars == <<ledger, extractions, deadLetters>>
topicVars == <<kafkaVars, tableVars, loop, crashes>>

\* A message is named by its place: partition and number.
NoPlace == << >>

\* batch: places of the messages still to be handled; hand: of the one in hand.
NewLoop == [stage |-> "poll", batch |-> {}, hand |-> NoPlace, failed |-> FALSE,
            position |-> [p \in Partitions |-> 0]]

TopicInit ==
  /\ log = [p \in Partitions |-> << >>]
  /\ outbox = {Event("uploaded", d) : d \in Docs}
  /\ copies = 0
  /\ offset = [g \in Groups |-> [p \in Partitions |-> 0]]
  /\ owner = FirstOwner
  /\ loop = [w \in Workers |-> NewLoop]
  /\ moves = 0
  /\ crashes = 0
  /\ ledger = {}
  /\ extractions = [d \in Docs |-> << >>]
  /\ deadLetters = [g \in Groups |-> [d \in Docs |-> 0]]

\* The relay publishes a committed event; it may have to publish it again.
PublishEvent(e) ==
  /\ e \in outbox
  /\ log' = [log EXCEPT ![PartitionOf[e.doc]] = Append(@, e)]
  /\ \/ outbox' = outbox \ {e} /\ UNCHANGED copies
     \/ copies < MaxCopies /\ copies' = copies + 1 /\ UNCHANGED outbox
  /\ UNCHANGED <<offset, owner, moves, tableVars, loop, crashes>>

Owns(w, p) == owner[Group(w)][p] = w

HandledBy(w) == IF w \in Ingesters THEN "uploaded" ELSE "extracted"

Message(x) == log[x[1]][x[2]]

\* What w has not fetched of some partitions, without the messages its handler
\* returns from at once because of their type.
Fresh(w, parts) ==
  {x \in UNION {{p} \X (1..Len(log[p])) : p \in parts} :
     x[2] > loop[w].position[x[1]] /\ Message(x).type = HandledBy(w)}

\* A batch is handled partition after partition and in the order of each: the
\* places that may be next when partition p is at its turn.
NextPlaces(batch, p) ==
  IF batch = {} THEN {NoPlace} ELSE
    {x \in batch : \A y \in batch : IF y[1] = x[1] THEN x[2] <= y[2] ELSE y[1] # p}

\* getmany returns all there is of some of w's partitions, and their positions
\* move past it at once.
Fetch(w) ==
  /\ loop[w].stage = "poll"
  /\ \E parts \in SUBSET {p \in Partitions :
                         Owns(w, p) /\ loop[w].position[p] < Len(log[p])} :
       \E p \in parts : \E place \in NextPlaces(Fresh(w, parts), p) :
         loop' = [loop EXCEPT ![w] =
           [stage |-> "handle", batch |-> Fresh(w, parts), hand |-> place,
            failed |-> FALSE,
            position |-> [q \in Partitions |->
              IF q \in parts THEN Len(log[q]) ELSE @.position[q]]]]
  /\ UNCHANGED <<kafkaVars, tableVars, crashes>>

InHand(w) == Message(loop[w].hand)

Handling(w) == loop[w].stage = "handle" /\ loop[w].batch # {}

LedgerKey(w) == <<InHand(w), Group(w)>>

Seen(w) == LedgerKey(w) \in ledger

\* The loop of w when the handler is done with the message in hand.
Onward(w, failed) ==
  LET batch == loop[w].batch \ {loop[w].hand} IN
  \E place \in NextPlaces(batch, loop[w].hand[1]) :
    loop' = [loop EXCEPT ![w].stage = "handle", ![w].batch = batch,
                         ![w].hand = place, ![w].failed = failed]

Advance(w) == Onward(w, loop[w].failed)

Goto(w, stage) == loop' = [loop EXCEPT ![w].stage = stage]

\* mutant: the loop commits with messages of the batch still to handle.
CommitEarly(w) == loop[w].stage = "handle"

BatchDone(w) == loop[w].stage = "handle" /\ loop[w].batch = {}

\* mutant: commit() covers every partition the process ever had.
AnyPartition(w, p) == loop[w].position[p] > 0

Committable(w, p) == Owns(w, p)

\* End of the batch: unless a message failed, commit() commits the positions.
EndBatch(w) ==
  /\ BatchDone(w)
  /\ Goto(w, "poll")
  /\ offset' = IF loop[w].failed THEN offset ELSE
       [offset EXCEPT ![Group(w)] =
          [p \in Partitions |->
             IF Committable(w, p) THEN loop[w].position[p] ELSE @[p]]]
  /\ UNCHANGED <<log, outbox, copies, owner, moves, tableVars, crashes>>

\* The group gives a partition to another process, which goes on from the
\* committed offset; the old owner keeps the batch it has in hand.
Rebalance(p, w) ==
  /\ moves < MaxMoves
  /\ ~Owns(w, p)
  /\ owner' = [owner EXCEPT ![Group(w)][p] = w]
  /\ loop' = [loop EXCEPT ![w].position[p] = offset[Group(w)][p]]
  /\ moves' = moves + 1
  /\ UNCHANGED <<log, outbox, copies, offset, tableVars, crashes>>

\* A process ends, open transaction and batch with it, and is started again.
Crash(w) ==
  /\ loop[w].stage # "poll"
  /\ crashes < MaxCrashes
  /\ loop' = [loop EXCEPT ![w] =
                [NewLoop EXCEPT !.position = offset[Group(w)]]]
  /\ crashes' = crashes + 1
  /\ UNCHANGED <<kafkaVars, tableVars>>
=============================================================================
