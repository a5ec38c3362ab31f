----------------------- MODULE DocumentPipeline_proofs -----------------------
(***************************************************************************)
(* Proofs about DocumentPipeline, for any number of documents, partitions, *)
(* workers, copies, rebalances, crashes and handlers that raise.           *)
(*                                                                         *)
(* A worker's batch holds places of messages of its type, and everything   *)
(* its positions have passed is in the ledger or still in its batch        *)
(* (Covered): commit() commits positions when the batch is empty.  Only    *)
(* one transaction at a time reads for a decision (ReadInv).  The model is *)
(* called for a document by one holder of its partition at a time each, so *)
(* that calls are counted by holders and crashes (CallInv).                *)
(***************************************************************************)
EXTENDS DocumentPipeline, FiniteSetTheorems, TLAPS

-----------------------------------------------------------------------------
(***************************************************************************)
(* Types                                                                   *)
(***************************************************************************)
Counters == {moves, crashes, copies, raised}

KafkaTypes ==
  /\ log \in [Partitions -> Seq(Events)]
  /\ outbox \subseteq Events
  /\ offset \in [Groups -> [Partitions -> Nat]]
  /\ owner \in [Groups -> [Partitions -> Workers]]
  /\ loop \in [Workers -> Loops]
  /\ Counters \subseteq Nat

TableTypes ==
  /\ ledger \subseteq Events \X Groups
  /\ extractions \in [Docs -> Seq({"extracted", "failed"})]
  /\ deadLetters \in [Groups -> [Docs -> Nat]]
  /\ calls \in [Docs -> Nat]
  /\ assessed \in [Docs -> Nat]

\* x is the place of a message of the type w handles.
IsPlace(w, x) ==
  /\ x[1] \in Partitions /\ x[2] \in 1..Len(log[x[1]])
  /\ Message(x).type = HandledBy(w)

LoopSound(w, y) ==
  /\ \A x \in y.batch : IsPlace(w, x)
  /\ y.batch # {} => y.hand \in y.batch
  /\ y.stage = "poll" => y.batch = {}
  /\ y.stage \in {"called", "unreadable"} => w \in Ingesters /\ y.batch # {}
  /\ y.stage \in {"begun", "read"} => w \in Deciders /\ y.batch # {}
  /\ \A p \in Partitions : y.position[p] <= Len(log[p])

\* What the positions of a loop have passed is in the ledger or in its batch.
Passed(w, m) == <<m, Group(w)>> \in ledger \/ (w \in Deciders /\ raised > 0)

Covered(w, y) ==
  \A p \in Partitions : \A i \in 1..y.position[p] :
    log[p][i].type = HandledBy(w) => <<p, i>> \in y.batch \/ Passed(w, log[p][i])

\* The same of the committed offset of a group.
Committed(w) ==
  \A p \in Partitions : \A i \in 1..offset[Group(w)][p] :
    log[p][i].type = HandledBy(w) => Passed(w, log[p][i])

GroupInv ==
  /\ \A g \in Groups : \A p \in Partitions :
       /\ owner[g][p] \in Members(g)
       /\ offset[g][p] <= loop[owner[g][p]].position[p]
  /\ \A p \in Partitions : \A i \in 1..Len(log[p]) : PartitionOf[log[p][i].doc] = p

LoopInv ==
  \A w \in Workers : LoopSound(w, loop[w]) /\ Covered(w, loop[w]) /\ Committed(w)

Turn(w, y) == loop' = [loop EXCEPT ![w] = y] /\ y \in Loops

-----------------------------------------------------------------------------
(***************************************************************************)
(* What the steps of a loop make of it                                     *)
(***************************************************************************)
LEMMA GroupOf ==
  ASSUME NEW w \in Workers
  PROVE  /\ Group(w) \in Groups
         /\ w \in Ingesters <=> Group(w) = "ingestion-worker"
         /\ w \in Deciders <=> Group(w) = "decision-worker"
         /\ w \in Ingesters <=> HandledBy(w) = "uploaded"
         /\ w \in Deciders <=> HandledBy(w) = "extracted"
BY TopicAssumption DEF Group, Groups, HandledBy, Workers

LEMMA MessageIs ==
  ASSUME KafkaTypes, NEW w, NEW x, IsPlace(w, x)
  PROVE  Message(x) \in Events
BY DEF KafkaTypes, IsPlace, Message

LEMMA GotoTurn ==
  ASSUME KafkaTypes, NEW w \in Workers,
         NEW s \in {"poll", "handle", "called", "unreadable", "begun", "read"},
         Goto(w, s)
  PROVE  \E y : /\ Turn(w, y) /\ y.stage = s /\ y.batch = loop[w].batch
                /\ y.hand = loop[w].hand /\ y.position = loop[w].position
<1>1. PICK x : x = loop[w] /\ x \in Loops
  BY DEF KafkaTypes
<1>2. PICK y : y = [x EXCEPT !.stage = s]
  OBVIOUS
<1>3. /\ y \in Loops /\ y.stage = s /\ y.batch = x.batch
      /\ y.hand = x.hand /\ y.position = x.position
  BY <1>1, <1>2 DEF Loops
<1>4. loop' = [loop EXCEPT ![w] = y]
  BY <1>1, <1>2 DEF Goto
<1> QED BY <1>1, <1>3, <1>4 DEF Turn

LEMMA NextPlacesAre ==
  ASSUME NEW batch, NEW p, NEW place \in NextPlaces(batch, p)
  PROVE  IF batch = {} THEN place = NoPlace ELSE place \in batch
BY DEF NextPlaces

\* The message in hand is done with.
LEMMA OnwardTurn ==
  ASSUME KafkaTypes, NEW w \in Workers, NEW failed \in BOOLEAN, Onward(w, failed)
  PROVE  \E y : /\ Turn(w, y) /\ y.stage = "handle"
                /\ y.batch = loop[w].batch \ {loop[w].hand}
                /\ y.batch # {} => y.hand \in y.batch
                /\ y.position = loop[w].position
<1>1. PICK x : x = loop[w] /\ x \in Loops
  BY DEF KafkaTypes
<1>2. PICK b : b = x.batch \ {x.hand}
  OBVIOUS
<1>3. PICK place \in NextPlaces(b, x.hand[1]) :
        loop' = [loop EXCEPT ![w].stage = "handle", ![w].batch = b,
                             ![w].hand = place, ![w].failed = failed]
  BY <1>1, <1>2 DEF Onward
<1>4. IF b = {} THEN place = NoPlace ELSE place \in b
  BY <1>3, NextPlacesAre
<1>5. b \in SUBSET (Partitions \X Nat)
  BY <1>1, <1>2 DEF Loops
<1>6. place \in (Partitions \X Nat) \cup {NoPlace}
  BY <1>4, <1>5
<1>7. PICK y : y = [x EXCEPT !.stage = "handle", !.batch = b, !.hand = place,
                             !.failed = failed]
  OBVIOUS
<1>8. /\ y \in Loops /\ y.stage = "handle" /\ y.batch = b
      /\ y.hand = place /\ y.position = x.position
  BY <1>1, <1>5, <1>6, <1>7 DEF Loops
<1>9. loop' = [loop EXCEPT ![w] = y]
  BY <1>1, <1>3, <1>7
<1> QED BY <1>1, <1>2, <1>4, <1>8, <1>9 DEF Turn

LEMMA CrashTurn ==
  ASSUME KafkaTypes, NEW w \in Workers, Crash(w)
  PROVE  \E y : /\ Turn(w, y) /\ y.stage = "poll" /\ y.batch = {}
                /\ y.position = offset[Group(w)]
<1>1. PICK o : o = offset[Group(w)] /\ o \in [Partitions -> Nat]
  BY GroupOf DEF KafkaTypes
<1>2. PICK y : y = [NewLoop EXCEPT !.position = o]
  OBVIOUS
<1>3. /\ y \in Loops /\ y.stage = "poll" /\ y.batch = {} /\ y.position = o
  BY <1>1, <1>2 DEF NewLoop, Loops
<1>4. loop' = [loop EXCEPT ![w] = y]
  BY <1>1, <1>2 DEF Crash
<1> QED BY <1>1, <1>3, <1>4 DEF Turn

LEMMA RebalanceTurn ==
  ASSUME KafkaTypes, NEW w \in Workers, NEW p \in Partitions, Rebalance(p, w)
  PROVE  \E y : /\ Turn(w, y) /\ y.stage = loop[w].stage /\ y.batch = loop[w].batch
                /\ y.hand = loop[w].hand
                /\ y.position = [loop[w].position EXCEPT ![p] = offset[Group(w)][p]]
<1>1. PICK x : x = loop[w] /\ x \in Loops
  BY DEF KafkaTypes
<1>2. PICK o \in Nat : o = offset[Group(w)][p]
  BY GroupOf DEF KafkaTypes
<1>3. PICK n : n = [x.position EXCEPT ![p] = o]
  OBVIOUS
<1>4. n \in [Partitions -> Nat]
  BY <1>1, <1>3 DEF Loops
<1>5. PICK y : y = [x EXCEPT !.position = n]
  OBVIOUS
<1>6. /\ y \in Loops /\ y.stage = x.stage /\ y.batch = x.batch
      /\ y.hand = x.hand /\ y.position = n
  BY <1>1, <1>4, <1>5 DEF Loops
<1>7. loop' = [loop EXCEPT ![w] = y]
  BY <1>1, <1>2, <1>3, <1>5 DEF Rebalance
<1> QED BY <1>1, <1>2, <1>3, <1>6, <1>7 DEF Turn

\* The partitions fetched are the worker's, and all there is of them.
LEMMA FetchTurn ==
  ASSUME KafkaTypes, NEW w \in Workers, Fetch(w)
  PROVE  \E y : \E parts \in SUBSET Partitions :
           /\ \A q \in parts : Owns(w, q)
           /\ Turn(w, y) /\ y.stage = "handle"
           /\ y.batch = Fresh(w, parts)
           /\ y.batch # {} => y.hand \in y.batch
           /\ y.position = [q \in Partitions |->
                IF q \in parts THEN Len(log[q]) ELSE loop[w].position[q]]
           /\ loop[w].stage = "poll"
<1>1. PICK x : x = loop[w] /\ x \in Loops
  BY DEF KafkaTypes
<1>2. PICK parts \in SUBSET Partitions :
        /\ \A q \in parts : Owns(w, q)
        /\ \E p \in parts : \E place \in NextPlaces(Fresh(w, parts), p) :
             loop' = [loop EXCEPT ![w] =
               [stage |-> "handle", batch |-> Fresh(w, parts), hand |-> place,
                failed |-> FALSE,
                position |-> [q \in Partitions |->
                  IF q \in parts THEN Len(log[q]) ELSE @.position[q]]]]
  BY DEF Fetch
<1>3. PICK b : b = Fresh(w, parts)
  OBVIOUS
<1>4. PICK n : n = [q \in Partitions |->
                      IF q \in parts THEN Len(log[q]) ELSE x.position[q]]
  OBVIOUS
<1>5. PICK p, place :
        /\ place \in NextPlaces(b, p)
        /\ loop' = [loop EXCEPT ![w] =
             [stage |-> "handle", batch |-> b, hand |-> place, failed |-> FALSE,
              position |-> n]]
  BY <1>1, <1>2, <1>3, <1>4
<1>6. IF b = {} THEN place = NoPlace ELSE place \in b
  BY <1>5, NextPlacesAre
<1>7. n \in [Partitions -> Nat]
  <2>1. \A q \in Partitions : Len(log[q]) \in Nat
    BY DEF KafkaTypes
  <2> QED BY <1>1, <1>4, <2>1 DEF Loops
<1>8. b \in SUBSET (Partitions \X Nat)
  <2>1. \A q \in parts : {q} \X (1..Len(log[q])) \subseteq Partitions \X Nat
    BY <1>2
  <2> QED BY <1>3, <2>1 DEF Fresh
<1>9. place \in (Partitions \X Nat) \cup {NoPlace}
  BY <1>6, <1>8
<1>10. PICK y : y = [stage |-> "handle", batch |-> b, hand |-> place,
                     failed |-> FALSE, position |-> n]
  OBVIOUS
<1>11. /\ y \in Loops /\ y.stage = "handle" /\ y.batch = b
       /\ y.hand = place /\ y.position = n
  BY <1>7, <1>8, <1>9, <1>10 DEF Loops
<1>12. loop' = [loop EXCEPT ![w] = y]
  BY <1>5, <1>10
<1>13. loop[w].stage = "poll"
  BY DEF Fetch
<1>14. b # {} => place \in b
  BY <1>6
<1> QED BY <1>1, <1>2, <1>3, <1>4, <1>11, <1>12, <1>13, <1>14 DEF Turn

-----------------------------------------------------------------------------
(***************************************************************************)
(* The loops and the offsets                                               *)
(***************************************************************************)
PipeInv == KafkaTypes /\ TableTypes /\ GroupInv /\ LoopInv

\* The message in hand.
LEMMA HandIs ==
  ASSUME PipeInv, NEW w \in Workers, loop[w].batch # {}
  PROVE  /\ loop[w].hand \in loop[w].batch /\ IsPlace(w, loop[w].hand)
         /\ InHand(w) \in Events /\ InHand(w).doc \in Docs
         /\ InHand(w) = Event(HandledBy(w), InHand(w).doc)
         /\ PartitionOf[InHand(w).doc] = loop[w].hand[1]
<1>1. loop[w].hand \in loop[w].batch /\ IsPlace(w, loop[w].hand)
  BY DEF PipeInv, LoopInv, LoopSound
<1>2. PICK m : m = InHand(w)
  OBVIOUS
<1>3. m \in Events /\ m.type = HandledBy(w)
  BY <1>1, <1>2, MessageIs DEF PipeInv, InHand, IsPlace
<1>4. m.doc \in Docs /\ m = Event(HandledBy(w), m.doc)
  BY <1>3 DEF Events, Event
<1>5. PartitionOf[m.doc] = loop[w].hand[1]
  BY <1>1, <1>2 DEF PipeInv, GroupInv, IsPlace, InHand, Message
<1> QED BY <1>1, <1>2, <1>3, <1>4, <1>5

LEMMA LoopTurn ==
  ASSUME PipeInv, NEW w \in Workers, NEW y, Turn(w, y),
         UNCHANGED <<log, owner, offset>>, ledger \subseteq ledger',
         raised' \in Nat, raised <= raised', LoopSound(w, y), Covered(w, y)',
         \A p \in Partitions : Owns(w, p) => offset[Group(w)][p] <= y.position[p]
  PROVE  GroupInv' /\ LoopInv'
<1>1. loop'[w] = y /\ \A v \in Workers \ {w} : loop'[v] = loop[v]
  BY DEF Turn, PipeInv, KafkaTypes
<1>2. \A v, m : Passed(v, m) => Passed(v, m)'
  <2>1. raised \in Nat
    BY DEF PipeInv, KafkaTypes, Counters
  <2> QED BY <2>1 DEF Passed
<1>3. ASSUME NEW v \in Workers
      PROVE  LoopSound(v, loop[v])' /\ Covered(v, loop[v])' /\ Committed(v)'
  <2>1. \A z : LoopSound(v, z)' = LoopSound(v, z)
    BY DEF LoopSound, IsPlace, Message
  <2>2. \A z : Covered(v, z) => Covered(v, z)'
    BY <1>2 DEF Covered
  <2>3. PICK z : z = loop'[v]
    OBVIOUS
  <2>4. LoopSound(v, z)' /\ Covered(v, z)'
    BY <1>1, <2>1, <2>2, <2>3 DEF PipeInv, LoopInv
  <2>5. Committed(v)'
    BY <1>2 DEF PipeInv, LoopInv, Committed
  <2> QED BY <2>3, <2>4, <2>5
<1>4. GroupInv'
  <2>1. ASSUME NEW g \in Groups, NEW p \in Partitions
        PROVE  owner[g][p] \in Members(g) /\ offset[g][p] <= loop'[owner[g][p]].position[p]
    <3>1. PICK v \in Workers : v = owner[g][p] /\ Group(v) = g
      BY DEF PipeInv, GroupInv, Members
    <3>2. offset[g][p] <= loop[v].position[p] /\ v \in Members(g)
      BY <3>1 DEF PipeInv, GroupInv
    <3>3. v = w => Owns(w, p)
      BY <3>1 DEF Owns
    <3> QED BY <1>1, <3>1, <3>2, <3>3
  <2> QED BY <2>1 DEF PipeInv, GroupInv
<1> QED BY <1>3, <1>4 DEF LoopInv

LEMMA OwnedOffsets ==
  ASSUME PipeInv, NEW w \in Workers, NEW p \in Partitions, Owns(w, p)
  PROVE  offset[Group(w)][p] <= loop[w].position[p]
BY GroupOf DEF PipeInv, GroupInv, Owns

\* A handler goes on with the message in hand.
LEMMA GotoStep ==
  ASSUME PipeInv, NEW w \in Workers, loop[w].batch # {},
         NEW s \in {"called", "unreadable", "begun", "read"}, Goto(w, s),
         s \in {"called", "unreadable"} => w \in Ingesters,
         s \in {"begun", "read"} => w \in Deciders,
         UNCHANGED <<log, owner, offset, ledger, raised>>
  PROVE  GroupInv' /\ LoopInv' /\ loop' \in [Workers -> Loops]
<1>1. PICK y : /\ Turn(w, y) /\ y.stage = s /\ y.batch = loop[w].batch
               /\ y.hand = loop[w].hand /\ y.position = loop[w].position
  BY GotoTurn DEF PipeInv
<1>2. LoopSound(w, loop[w]) /\ Covered(w, loop[w])
  BY DEF PipeInv, LoopInv
<1>3. LoopSound(w, y)
  BY <1>1, <1>2 DEF LoopSound
<1>4. Covered(w, y)'
  BY <1>1, <1>2 DEF Covered, Passed
<1>5. \A p \in Partitions : Owns(w, p) => offset[Group(w)][p] <= y.position[p]
  BY <1>1, OwnedOffsets
<1>6. raised \in Nat
  BY DEF PipeInv, KafkaTypes, Counters
<1>7. loop' \in [Workers -> Loops]
  BY <1>1 DEF Turn, PipeInv, KafkaTypes
<1> QED BY <1>1, <1>3, <1>4, <1>5, <1>6, <1>7, LoopTurn

\* A handler is done with the message in hand, which has been passed.
LEMMA OnwardStep ==
  ASSUME PipeInv, NEW w \in Workers, NEW failed \in BOOLEAN, Onward(w, failed),
         loop[w].batch # {}, UNCHANGED <<log, owner, offset>>,
         ledger \subseteq ledger', raised' \in Nat, raised <= raised',
         NEW m, m = InHand(w), Passed(w, m)'
  PROVE  GroupInv' /\ LoopInv' /\ loop' \in [Workers -> Loops]
<1>1. PICK y : /\ Turn(w, y) /\ y.stage = "handle"
               /\ y.batch = loop[w].batch \ {loop[w].hand}
               /\ y.batch # {} => y.hand \in y.batch
               /\ y.position = loop[w].position
  BY OnwardTurn DEF PipeInv
<1>2. LoopSound(w, loop[w]) /\ Covered(w, loop[w])
  BY DEF PipeInv, LoopInv
<1>3. LoopSound(w, y)
  BY <1>1, <1>2 DEF LoopSound
<1>4. ASSUME NEW p \in Partitions, NEW i \in 1..y.position[p],
             log[p][i].type = HandledBy(w), <<p, i>> \notin y.batch
      PROVE  Passed(w, log[p][i])'
  <2>1. CASE <<p, i>> = loop[w].hand
    BY <2>1 DEF InHand, Message
  <2>2. CASE <<p, i>> # loop[w].hand
    <3>1. Passed(w, log[p][i])
      BY <1>1, <1>2, <1>4, <2>2 DEF Covered
    <3>2. raised \in Nat
      BY DEF PipeInv, KafkaTypes, Counters
    <3> QED BY <3>1, <3>2 DEF Passed
  <2> QED BY <2>1, <2>2
<1>5. Covered(w, y)'
  BY <1>4 DEF Covered
<1>6. \A p \in Partitions : Owns(w, p) => offset[Group(w)][p] <= y.position[p]
  BY <1>1, OwnedOffsets
<1>7. loop' \in [Workers -> Loops]
  BY <1>1 DEF Turn, PipeInv, KafkaTypes
<1> QED BY <1>1, <1>3, <1>5, <1>6, <1>7, LoopTurn

LEMMA FetchStep ==
  ASSUME PipeInv, NEW w \in Workers, Fetch(w), UNCHANGED raised
  PROVE  GroupInv' /\ LoopInv' /\ loop' \in [Workers -> Loops]
<1>0. PICK y : \E parts \in SUBSET Partitions :
           /\ \A q \in parts : Owns(w, q)
           /\ Turn(w, y) /\ y.stage = "handle"
           /\ y.batch = Fresh(w, parts)
           /\ y.batch # {} => y.hand \in y.batch
           /\ y.position = [q \in Partitions |->
                IF q \in parts THEN Len(log[q]) ELSE loop[w].position[q]]
           /\ loop[w].stage = "poll"
  BY FetchTurn DEF PipeInv
<1>1. PICK parts \in SUBSET Partitions :
           /\ \A q \in parts : Owns(w, q)
           /\ Turn(w, y) /\ y.stage = "handle"
           /\ y.batch = Fresh(w, parts)
           /\ y.batch # {} => y.hand \in y.batch
           /\ y.position = [q \in Partitions |->
                IF q \in parts THEN Len(log[q]) ELSE loop[w].position[q]]
           /\ loop[w].stage = "poll"
  BY <1>0
<1>2. /\ LoopSound(w, loop[w]) /\ Covered(w, loop[w]) /\ loop[w].batch = {}
      /\ \A p \in Partitions : Len(log[p]) \in Nat /\ loop[w].position[p] \in Nat
  BY <1>1 DEF PipeInv, LoopInv, LoopSound, KafkaTypes, Loops
<1>3. UNCHANGED <<log, owner, offset, ledger, raised>> /\ raised \in Nat
  BY DEF Fetch, kafkaVars, tableVars, PipeInv, KafkaTypes, Counters
<1>4. \A p \in Partitions : loop[w].position[p] <= y.position[p] /\ y.position[p] <= Len(log[p])
  BY <1>1, <1>2 DEF LoopSound
<1>5. LoopSound(w, y)
  <2>1. \A x \in y.batch : IsPlace(w, x)
    BY <1>1 DEF Fresh, IsPlace
  <2> QED BY <1>1, <1>4, <2>1 DEF LoopSound
<1>6. Covered(w, y)'
  <2>1. ASSUME NEW p \in Partitions, NEW i \in 1..y.position[p],
               log[p][i].type = HandledBy(w)
        PROVE  <<p, i>> \in y.batch \/ Passed(w, log[p][i])
    <3>1. CASE i <= loop[w].position[p]
      BY <1>2, <2>1, <3>1 DEF Covered
    <3>2. CASE i > loop[w].position[p]
      <4>1. p \in parts /\ i \in 1..Len(log[p])
        BY <1>1, <1>2, <2>1, <3>2
      <4>2. <<p, i>> \in UNION {{q} \X (1..Len(log[q])) : q \in parts}
        BY <4>1
      <4> QED BY <1>1, <2>1, <3>2, <4>2 DEF Fresh, Message
    <3> QED BY <1>2, <1>4, <2>1, <3>1, <3>2
  <2> QED BY <1>3, <2>1 DEF Covered, Passed
<1>7. \A p \in Partitions : Owns(w, p) => offset[Group(w)][p] <= y.position[p]
  <2> SUFFICES ASSUME NEW p \in Partitions, Owns(w, p)
               PROVE  offset[Group(w)][p] <= y.position[p]
    OBVIOUS
  <2>1. offset[Group(w)][p] \in Nat /\ y.position[p] \in Nat
    BY <1>1, <1>2, GroupOf DEF PipeInv, KafkaTypes
  <2> QED BY <1>2, <1>4, <2>1, OwnedOffsets
<1>8. loop' \in [Workers -> Loops]
  BY <1>1 DEF Turn, PipeInv, KafkaTypes
<1> QED BY <1>1, <1>3, <1>5, <1>6, <1>7, <1>8, LoopTurn

\* A process ends: its positions are the group's offsets.
LEMMA CrashStep ==
  ASSUME PipeInv, NEW w \in Workers, Crash(w), UNCHANGED raised
  PROVE  GroupInv' /\ LoopInv' /\ loop' \in [Workers -> Loops]
<1>1. PICK y : /\ Turn(w, y) /\ y.stage = "poll" /\ y.batch = {}
               /\ y.position = offset[Group(w)]
  BY CrashTurn DEF PipeInv
<1>2. UNCHANGED <<log, owner, offset, ledger, raised>> /\ raised \in Nat
  BY DEF Crash, kafkaVars, tableVars, PipeInv, KafkaTypes, Counters
<1>3. \A p \in Partitions : y.position[p] <= Len(log[p])
  <2> SUFFICES ASSUME NEW p \in Partitions PROVE offset[Group(w)][p] <= Len(log[p])
    BY <1>1
  <2>1. PICK v \in Workers : v = owner[Group(w)][p]
    BY GroupOf DEF PipeInv, KafkaTypes
  <2>2. offset[Group(w)][p] <= loop[v].position[p] /\ loop[v].position[p] <= Len(log[p])
    BY <2>1, GroupOf DEF PipeInv, GroupInv, LoopInv, LoopSound
  <2>3. offset[Group(w)][p] \in Nat /\ loop[v].position[p] \in Nat /\ Len(log[p]) \in Nat
    BY GroupOf DEF PipeInv, KafkaTypes, Loops
  <2> QED BY <2>2, <2>3
<1>4. LoopSound(w, y)
  BY <1>1, <1>3 DEF LoopSound
<1>5. Covered(w, y)'
  BY <1>1, <1>2 DEF PipeInv, LoopInv, Committed, Covered, Passed
<1>6. \A p \in Partitions : offset[Group(w)][p] <= y.position[p]
  BY <1>1, GroupOf DEF PipeInv, KafkaTypes
<1>7. loop' \in [Workers -> Loops]
  BY <1>1 DEF Turn, PipeInv, KafkaTypes
<1> QED BY <1>1, <1>2, <1>4, <1>5, <1>6, <1>7, LoopTurn

\* The new owner goes on from what is committed.
LEMMA RebalanceStep ==
  ASSUME PipeInv, NEW w \in Workers, NEW p \in Partitions, Rebalance(p, w),
         UNCHANGED raised
  PROVE  /\ GroupInv' /\ LoopInv' /\ loop' \in [Workers -> Loops]
         /\ owner' \in [Groups -> [Partitions -> Workers]]
<1>1. PICK y : /\ Turn(w, y) /\ y.stage = loop[w].stage /\ y.batch = loop[w].batch
               /\ y.hand = loop[w].hand
               /\ y.position = [loop[w].position EXCEPT ![p] = offset[Group(w)][p]]
  BY RebalanceTurn DEF PipeInv
<1>2. loop'[w] = y /\ \A v \in Workers \ {w} : loop'[v] = loop[v]
  BY <1>1 DEF Turn, PipeInv, KafkaTypes
<1>3. /\ UNCHANGED <<log, offset, ledger, raised>>
      /\ owner' = [owner EXCEPT ![Group(w)][p] = w]
  BY DEF Rebalance, tableVars
<1>4. Group(w) \in Groups /\ w \in Members(Group(w))
  BY GroupOf DEF Members
<1>5. y.position[p] = offset[Group(w)][p]
      /\ \A q \in Partitions \ {p} : y.position[q] = loop[w].position[q]
  BY <1>1 DEF PipeInv, KafkaTypes, Loops
<1>6. offset[Group(w)][p] <= Len(log[p])
  <2>1. PICK v \in Workers : v = owner[Group(w)][p]
    BY <1>4 DEF PipeInv, KafkaTypes
  <2>2. offset[Group(w)][p] <= loop[v].position[p] /\ loop[v].position[p] <= Len(log[p])
    BY <1>4, <2>1 DEF PipeInv, GroupInv, LoopInv, LoopSound
  <2>3. offset[Group(w)][p] \in Nat /\ loop[v].position[p] \in Nat /\ Len(log[p]) \in Nat
    BY <1>4 DEF PipeInv, KafkaTypes, Loops
  <2> QED BY <2>2, <2>3
<1>7. LoopSound(w, loop[w]) /\ Covered(w, loop[w]) /\ Committed(w)
  BY DEF PipeInv, LoopInv
<1>8. LoopSound(w, y)
  BY <1>1, <1>5, <1>6, <1>7 DEF LoopSound
<1>9. Covered(w, y)
  <2>1. ASSUME NEW q \in Partitions, NEW i \in 1..y.position[q],
               log[q][i].type = HandledBy(w)
        PROVE  <<q, i>> \in y.batch \/ Passed(w, log[q][i])
    BY <1>1, <1>5, <1>7, <2>1 DEF Covered, Committed
  <2> QED BY <2>1 DEF Covered
<1>10. LoopInv'
  <2>1. \A v, z : /\ LoopSound(v, z)' = LoopSound(v, z)
                  /\ Covered(v, z)' = Covered(v, z)
                  /\ Committed(v)' = Committed(v)
    BY <1>3 DEF LoopSound, IsPlace, Message, Covered, Passed, Committed
  <2>2. ASSUME NEW v \in Workers
        PROVE  LoopSound(v, loop[v])' /\ Covered(v, loop[v])' /\ Committed(v)'
    <3>1. PICK z : z = loop'[v]
      OBVIOUS
    <3>2. LoopSound(v, z) /\ Covered(v, z) /\ Committed(v)
      BY <1>2, <1>8, <1>9, <3>1 DEF PipeInv, LoopInv
    <3> QED BY <2>1, <3>1, <3>2
  <2> QED BY <2>2 DEF LoopInv
<1>11. ASSUME NEW g \in Groups, NEW q \in Partitions
       PROVE  /\ owner'[g][q] \in Members(g)
              /\ offset'[g][q] <= loop'[owner'[g][q]].position[q]
  <2>1. owner'[Group(w)][p] = w
    BY <1>3, <1>4 DEF PipeInv, KafkaTypes
  <2>2. offset[g][q] \in Nat
    BY DEF PipeInv, KafkaTypes
  <2>3. CASE g = Group(w) /\ q = p
    BY <1>2, <1>3, <1>4, <1>5, <2>1, <2>2, <2>3
  <2>4. CASE ~(g = Group(w) /\ q = p)
    <3>1. PICK v \in Workers : v = owner[g][q] /\ v \in Members(g)
          /\ offset[g][q] <= loop[v].position[q]
      BY DEF PipeInv, GroupInv, KafkaTypes
    <3>2. owner'[g][q] = v
      BY <1>3, <2>4, <3>1 DEF PipeInv, KafkaTypes
    <3>3. v = w => q # p
      BY <2>4, <3>1 DEF Members
    <3> QED BY <1>2, <1>3, <1>5, <3>1, <3>2, <3>3
  <2> QED BY <2>3, <2>4
<1>12. GroupInv'
  BY <1>3, <1>11 DEF PipeInv, GroupInv
<1>13. loop' \in [Workers -> Loops] /\ owner' \in [Groups -> [Partitions -> Workers]]
  BY <1>1, <1>3 DEF Turn, PipeInv, KafkaTypes
<1> QED BY <1>10, <1>12, <1>13

\* commit() covers what is in the ledger: the batch is empty.
LEMMA EndBatchStep ==
  ASSUME PipeInv, NEW w \in Workers, EndBatch(w), UNCHANGED raised
  PROVE  /\ GroupInv' /\ LoopInv' /\ loop' \in [Workers -> Loops]
         /\ offset' \in [Groups -> [Partitions -> Nat]]
<1>1. PICK y : /\ Turn(w, y) /\ y.stage = "poll" /\ y.batch = loop[w].batch
               /\ y.hand = loop[w].hand /\ y.position = loop[w].position
  BY GotoTurn DEF PipeInv, EndBatch
<1>2. loop'[w] = y /\ \A v \in Workers \ {w} : loop'[v] = loop[v]
  BY <1>1 DEF Turn, PipeInv, KafkaTypes
<1>3. UNCHANGED <<log, owner, ledger, raised>> /\ loop[w].batch = {}
  BY DEF EndBatch, BatchDone, tableVars
<1>4. Group(w) \in Groups
  BY GroupOf
<1>5. LoopSound(w, loop[w]) /\ Covered(w, loop[w])
  BY DEF PipeInv, LoopInv
<1>6. LoopSound(w, y)
  BY <1>1, <1>3, <1>5 DEF LoopSound
<1>7. Covered(w, y)
  BY <1>1, <1>5 DEF Covered
<1>8. PICK n : n = [p \in Partitions |->
                      IF Committable(w, p) THEN loop[w].position[p]
                      ELSE offset[Group(w)][p]]
  OBVIOUS
<1>9. n \in [Partitions -> Nat]
  BY <1>4, <1>8 DEF PipeInv, KafkaTypes, Loops
<1>10. offset' = offset \/ offset' = [offset EXCEPT ![Group(w)] = n]
  BY <1>8 DEF EndBatch
<1>11. offset' \in [Groups -> [Partitions -> Nat]]
  BY <1>4, <1>9, <1>10 DEF PipeInv, KafkaTypes
<1>12. \A g \in Groups, p \in Partitions :
         \/ offset'[g][p] = offset[g][p]
         \/ g = Group(w) /\ Owns(w, p) /\ offset'[g][p] = y.position[p]
  BY <1>1, <1>4, <1>8, <1>10 DEF PipeInv, KafkaTypes, Committable
<1>13. \A v \in Workers : Committed(v)'
  <2>1. ASSUME NEW v \in Workers, NEW p \in Partitions, NEW i \in 1..offset'[Group(v)][p],
               log[p][i].type = HandledBy(v)
        PROVE  Passed(v, log[p][i])
    <3>1. Group(v) \in Groups
      BY GroupOf
    <3>2. CASE offset'[Group(v)][p] = offset[Group(v)][p]
      BY <2>1, <3>2 DEF PipeInv, LoopInv, Committed
    <3>3. CASE Group(v) = Group(w) /\ offset'[Group(v)][p] = y.position[p]
      <4>1. HandledBy(v) = HandledBy(w) /\ (v \in Deciders <=> w \in Deciders)
        BY <3>3, GroupOf DEF HandledBy
      <4>2. Passed(w, log[p][i])
        BY <1>1, <1>3, <1>7, <2>1, <3>3, <4>1 DEF Covered
      <4> QED BY <3>3, <4>1, <4>2 DEF Passed
    <3> QED BY <1>12, <3>1, <3>2, <3>3
  <2>2. \A v, m : Passed(v, m)' = Passed(v, m)
    BY <1>3 DEF Passed
  <2> QED BY <1>3, <2>1, <2>2 DEF Committed
<1>14. LoopInv'
  <2>1. \A v, z : /\ LoopSound(v, z)' = LoopSound(v, z)
                  /\ Covered(v, z)' = Covered(v, z)
    BY <1>3 DEF LoopSound, IsPlace, Message, Covered, Passed
  <2>2. ASSUME NEW v \in Workers PROVE LoopSound(v, loop[v])' /\ Covered(v, loop[v])'
    <3>1. PICK z : z = loop'[v]
      OBVIOUS
    <3>2. LoopSound(v, z) /\ Covered(v, z)
      BY <1>2, <1>6, <1>7, <3>1 DEF PipeInv, LoopInv
    <3> QED BY <2>1, <3>1, <3>2
  <2> QED BY <1>13, <2>2 DEF LoopInv
<1>15. ASSUME NEW g \in Groups, NEW p \in Partitions
       PROVE  /\ owner[g][p] \in Members(g)
              /\ offset'[g][p] <= loop'[owner[g][p]].position[p]
  <2>1. PICK v \in Workers : v = owner[g][p] /\ v \in Members(g)
        /\ offset[g][p] <= loop[v].position[p]
    BY DEF PipeInv, GroupInv, KafkaTypes
  <2>2. loop'[v].position[p] = loop[v].position[p]
    BY <1>1, <1>2
  <2>3. loop[v].position[p] \in Nat
    BY DEF PipeInv, KafkaTypes, Loops
  <2>4. offset'[g][p] = offset[g][p] \/ (v = w /\ offset'[g][p] = loop[v].position[p])
    BY <1>1, <1>12, <2>1 DEF Owns
  <2> QED BY <2>1, <2>2, <2>3, <2>4
<1>16. GroupInv'
  BY <1>3, <1>15 DEF PipeInv, GroupInv
<1>17. loop' \in [Workers -> Loops]
  BY <1>1 DEF Turn, PipeInv, KafkaTypes
<1> QED BY <1>11, <1>14, <1>16, <1>17

\* A message more, at the end of the partition of its document.
Longer(q, e) ==
  \A p \in Partitions :
    /\ Len(log[p]) \in Nat /\ Len(log[p]) <= Len(log'[p])
    /\ \A i \in 1..Len(log[p]) : log'[p][i] = log[p][i]
    /\ \A i \in 1..Len(log'[p]) :
         i \in 1..Len(log[p]) \/ (p = q /\ i = Len(log[p]) + 1 /\ log'[p][i] = e)

LEMMA LogGrows ==
  ASSUME KafkaTypes, NEW e \in Events, NEW q, q = PartitionOf[e.doc],
         log' = [log EXCEPT ![q] = Append(@, e)]
  PROVE  /\ q \in Partitions /\ log' \in [Partitions -> Seq(Events)]
         /\ Longer(q, e)
<1>1. q \in Partitions
  BY DEF Events, Partitions
<1>2. PICK s : s = log[q] /\ s \in Seq(Events)
  BY <1>1 DEF KafkaTypes
<1>3. PICK t : t = Append(s, e)
  OBVIOUS
<1>4. /\ t \in Seq(Events) /\ Len(t) = Len(s) + 1 /\ t[Len(s) + 1] = e
      /\ \A i \in 1..Len(s) : t[i] = s[i]
  BY <1>2, <1>3
<1>5. log' \in [Partitions -> Seq(Events)] /\ log'[q] = t
      /\ \A p \in Partitions \ {q} : log'[p] = log[p]
  BY <1>1, <1>2, <1>3, <1>4 DEF KafkaTypes
<1>6. \A p \in Partitions : Len(log[p]) \in Nat
  BY DEF KafkaTypes
<1>7. Len(log'[q]) = Len(log[q]) + 1 /\ log'[q][Len(log[q]) + 1] = e
      /\ \A i \in 1..Len(log[q]) : log'[q][i] = log[q][i]
  BY <1>2, <1>4, <1>5
<1>8. Longer(q, e)
  <2> SUFFICES ASSUME NEW p \in Partitions
               PROVE  /\ Len(log[p]) \in Nat /\ Len(log[p]) <= Len(log'[p])
                      /\ \A i \in 1..Len(log[p]) : log'[p][i] = log[p][i]
                      /\ \A i \in 1..Len(log'[p]) :
                           \/ i \in 1..Len(log[p])
                           \/ p = q /\ i = Len(log[p]) + 1 /\ log'[p][i] = e
    BY DEF Longer
  <2>1. CASE p = q
    BY <1>6, <1>7, <2>1
  <2>2. CASE p # q
    BY <1>5, <1>6, <2>2
  <2> QED BY <2>1, <2>2
<1> QED BY <1>1, <1>5, <1>8

LEMMA PublishStep ==
  ASSUME PipeInv, NEW e \in outbox, PublishEvent(e), UNCHANGED raised
  PROVE  GroupInv' /\ LoopInv' /\ log' \in [Partitions -> Seq(Events)]
<1>1. PICK q : q = PartitionOf[e.doc]
  OBVIOUS
<1>2. e \in Events /\ log' = [log EXCEPT ![q] = Append(@, e)]
      /\ UNCHANGED <<offset, owner, loop, ledger, raised>>
  BY <1>1 DEF PipeInv, KafkaTypes, PublishEvent, tableVars
<1>3. /\ q \in Partitions /\ log' \in [Partitions -> Seq(Events)]
      /\ Longer(q, e)
  <2>1. KafkaTypes
    BY DEF PipeInv
  <2> QED BY <1>1, <1>2, <2>1, LogGrows
<1>4. \A p \in Partitions : Len(log'[p]) \in Nat
  BY <1>3
<1>5. \A p \in Partitions : \A i \in 1..Len(log[p]) : i \in 1..Len(log'[p])
  BY <1>3, <1>4 DEF Longer
<1>6. GroupInv'
  BY <1>1, <1>2, <1>3 DEF PipeInv, GroupInv, Longer
<1>7. ASSUME NEW v \in Workers
      PROVE  LoopSound(v, loop[v])' /\ Covered(v, loop[v])' /\ Committed(v)'
  <2>1. PICK z : z = loop[v] /\ z \in Loops
    BY DEF PipeInv, KafkaTypes
  <2>2. LoopSound(v, z) /\ Covered(v, z) /\ Committed(v)
    BY <2>1 DEF PipeInv, LoopInv
  <2>3. \A x : IsPlace(v, x) => IsPlace(v, x)'
    BY <1>3, <1>5 DEF IsPlace, Message, Longer
  <2>4. ASSUME NEW p \in Partitions PROVE z.position[p] <= Len(log'[p])
    <3>1. z.position[p] \in Nat /\ z.position[p] <= Len(log[p])
      BY <2>1, <2>2 DEF LoopSound, Loops
    <3> QED BY <1>3, <1>4, <3>1 DEF Longer
  <2>5. LoopSound(v, z)'
    BY <2>2, <2>3, <2>4 DEF LoopSound
  <2>6. \A m : Passed(v, m)' = Passed(v, m)
    BY <1>2 DEF Passed
  <2>7. \A p \in Partitions : \A i \in 1..z.position[p] : i \in 1..Len(log[p])
    BY <1>3, <2>1, <2>2 DEF LoopSound, Loops, Longer
  <2>8. Covered(v, z)'
    BY <1>3, <2>2, <2>6, <2>7 DEF Covered, Longer
  <2>9. \A p \in Partitions : \A i \in 1..offset[Group(v)][p] : i \in 1..Len(log[p])
    <3> SUFFICES ASSUME NEW p \in Partitions PROVE offset[Group(v)][p] <= Len(log[p])
                                               /\ offset[Group(v)][p] \in Nat
      BY <1>3 DEF Longer
    <3>1. PICK u \in Workers : u = owner[Group(v)][p]
      BY GroupOf DEF PipeInv, KafkaTypes
    <3>2. offset[Group(v)][p] <= loop[u].position[p] /\ loop[u].position[p] <= Len(log[p])
      BY <3>1, GroupOf DEF PipeInv, GroupInv, LoopInv, LoopSound
    <3>3. offset[Group(v)][p] \in Nat /\ loop[u].position[p] \in Nat /\ Len(log[p]) \in Nat
      BY GroupOf DEF PipeInv, KafkaTypes, Loops
    <3> QED BY <3>2, <3>3
  <2>10. Committed(v)'
    BY <1>2, <1>3, <2>2, <2>6, <2>9 DEF Committed, Longer
  <2> QED BY <1>2, <2>1, <2>5, <2>8, <2>10
<1>8. LoopInv'
  BY <1>7 DEF LoopInv
<1> QED BY <1>3, <1>6, <1>8

-----------------------------------------------------------------------------
(***************************************************************************)
(* The steps of the workers on the tables                                  *)
(***************************************************************************)
Letters(w, d) == [deadLetters EXCEPT ![Group(w)][d] = @ + 1]

LEMMA LettersType ==
  ASSUME TableTypes, NEW w \in Workers, NEW d \in Docs
  PROVE  Letters(w, d) \in [Groups -> [Docs -> Nat]]
<1>1. PICK f : f = deadLetters[Group(w)] /\ f \in [Docs -> Nat]
  BY GroupOf DEF TableTypes
<1>2. [f EXCEPT ![d] = @ + 1] \in [Docs -> Nat]
  BY <1>1
<1> QED BY <1>1, <1>2, GroupOf DEF TableTypes, Letters

\* Handlers have a message in hand.
LEMMA InTheBatch ==
  ASSUME PipeInv, NEW w \in Workers,
         loop[w].stage \in {"called", "unreadable", "begun", "read"}
  PROVE  loop[w].batch # {}
BY DEF PipeInv, LoopInv, LoopSound

LEMMA KeyType ==
  ASSUME PipeInv, NEW w \in Workers, loop[w].batch # {}
  PROVE  LedgerKey(w) \in Events \X Groups
BY HandIs, GroupOf DEF LedgerKey

\* The relay, the loops and the group.
LEMMA KafkaStep ==
  ASSUME PipeInv, UNCHANGED <<calls, decideVars>>,
         \/ \E e \in outbox : PublishEvent(e)
         \/ \E w \in Workers : Fetch(w) \/ EndBatch(w) \/ Crash(w)
         \/ \E p \in Partitions, w \in Workers : Rebalance(p, w)
  PROVE  PipeInv'
<1>1. UNCHANGED <<raised, assessed, calls>> /\ Counters \subseteq Nat
  BY DEF decideVars, PipeInv, KafkaTypes
<1>2. TableTypes'
  BY <1>1 DEF PipeInv, TableTypes, PublishEvent, Fetch, EndBatch, Crash, Rebalance,
       tableVars
<1>3. CASE \E e \in outbox : PublishEvent(e)
  <2>1. PICK e \in outbox : PublishEvent(e)
    BY <1>3
  <2>2. GroupInv' /\ LoopInv' /\ log' \in [Partitions -> Seq(Events)]
    BY <1>1, <2>1, PublishStep
  <2>3. UNCHANGED <<offset, owner, moves, loop, crashes>>
        /\ outbox' \subseteq outbox /\ (copies' = copies \/ copies' = copies + 1)
    BY <2>1 DEF PublishEvent
  <2>4. Counters' \subseteq Nat
    BY <1>1, <2>3 DEF Counters
  <2> QED BY <1>2, <2>2, <2>3, <2>4 DEF PipeInv, KafkaTypes
<1>4. CASE \E w \in Workers : Fetch(w)
  <2>1. PICK w \in Workers : Fetch(w)
    BY <1>4
  <2>2. GroupInv' /\ LoopInv' /\ loop' \in [Workers -> Loops]
    BY <1>1, <2>1, FetchStep
  <2>3. UNCHANGED <<kafkaVars, crashes>>
    BY <2>1 DEF Fetch
  <2> QED BY <1>1, <1>2, <2>2, <2>3 DEF PipeInv, KafkaTypes, kafkaVars, Counters
<1>5. CASE \E w \in Workers : EndBatch(w)
  <2>1. PICK w \in Workers : EndBatch(w)
    BY <1>5
  <2>2. /\ GroupInv' /\ LoopInv' /\ loop' \in [Workers -> Loops]
        /\ offset' \in [Groups -> [Partitions -> Nat]]
    BY <1>1, <2>1, EndBatchStep
  <2>3. UNCHANGED <<log, outbox, copies, owner, moves, crashes>>
    BY <2>1 DEF EndBatch
  <2> QED BY <1>1, <1>2, <2>2, <2>3 DEF PipeInv, KafkaTypes, Counters
<1>6. CASE \E w \in Workers : Crash(w)
  <2>1. PICK w \in Workers : Crash(w)
    BY <1>6
  <2>2. GroupInv' /\ LoopInv' /\ loop' \in [Workers -> Loops]
    BY <1>1, <2>1, CrashStep
  <2>3. UNCHANGED kafkaVars /\ crashes' = crashes + 1
    BY <2>1 DEF Crash
  <2>4. Counters' \subseteq Nat
    BY <1>1, <2>3 DEF Counters, kafkaVars
  <2> QED BY <1>2, <2>2, <2>3, <2>4 DEF PipeInv, KafkaTypes, kafkaVars
<1>7. CASE \E p \in Partitions, w \in Workers : Rebalance(p, w)
  <2>1. PICK p \in Partitions, w \in Workers : Rebalance(p, w)
    BY <1>7
  <2>2. /\ GroupInv' /\ LoopInv' /\ loop' \in [Workers -> Loops]
        /\ owner' \in [Groups -> [Partitions -> Workers]]
    BY <1>1, <2>1, RebalanceStep
  <2>3. UNCHANGED <<log, outbox, copies, offset, crashes>> /\ moves' = moves + 1
    BY <2>1 DEF Rebalance
  <2>4. Counters' \subseteq Nat
    BY <1>1, <2>3 DEF Counters
  <2> QED BY <1>2, <2>2, <2>3, <2>4 DEF PipeInv, KafkaTypes
<1> QED BY <1>3, <1>4, <1>5, <1>6, <1>7

\* The handler of an ingestion worker.
LEMMA IngestStep ==
  ASSUME PipeInv, NEW w \in Ingesters, Ingest(w), UNCHANGED decideVars
  PROVE  PipeInv'
<1>1. /\ w \in Workers /\ UNCHANGED <<raised, assessed>> /\ raised \in Nat
      /\ Counters \subseteq Nat
  BY DEF Workers, decideVars, PipeInv, KafkaTypes, Counters
<1>2. loop[w].failed \in BOOLEAN
  BY <1>1 DEF PipeInv, KafkaTypes, Loops
<1>3. PICK m : m = InHand(w)
  OBVIOUS
<1>4. CASE SkipProcessed(w) \/ DropResult(w)
  <2>1. loop[w].batch # {}
    BY <1>1, <1>4, InTheBatch DEF SkipProcessed, DropResult, Handling
  <2>2. UNCHANGED <<kafkaVars, tableVars, crashes, calls>> /\ Advance(w) /\ Seen(w)
    BY <1>4 DEF SkipProcessed, DropResult, AlreadyProcessed, LostRace
  <2>3. Passed(w, m)'
    BY <1>3, <2>2 DEF Passed, Seen, LedgerKey, tableVars
  <2>4. GroupInv' /\ LoopInv' /\ loop' \in [Workers -> Loops]
    BY <1>1, <1>2, <1>3, <2>1, <2>2, <2>3, OnwardStep DEF Advance, kafkaVars, tableVars
  <2> QED BY <1>1, <2>2, <2>4
        DEF PipeInv, KafkaTypes, TableTypes, kafkaVars, tableVars, Counters
<1>5. CASE CannotRead(w)
  <2>1. loop[w].batch # {} /\ Goto(w, "unreadable")
        /\ UNCHANGED <<kafkaVars, tableVars, crashes, calls>>
    BY <1>5 DEF CannotRead, Handling
  <2>2. GroupInv' /\ LoopInv' /\ loop' \in [Workers -> Loops]
    BY <1>1, <2>1, GotoStep DEF kafkaVars, tableVars
  <2> QED BY <1>1, <2>1, <2>2
        DEF PipeInv, KafkaTypes, TableTypes, kafkaVars, tableVars, Counters
<1>6. CASE CallModel(w)
  <2>1. /\ loop[w].batch # {} /\ Goto(w, "called")
        /\ UNCHANGED <<kafkaVars, tableVars, crashes>>
        /\ calls' = [calls EXCEPT ![m.doc] = @ + 1]
    BY <1>3, <1>6 DEF CallModel, Handling
  <2>2. GroupInv' /\ LoopInv' /\ loop' \in [Workers -> Loops]
    BY <1>1, <2>1, GotoStep DEF kafkaVars, tableVars
  <2>3. calls' \in [Docs -> Nat]
    BY <1>1, <1>3, <2>1, HandIs DEF PipeInv, TableTypes
  <2> QED BY <1>1, <2>1, <2>2, <2>3
        DEF PipeInv, KafkaTypes, TableTypes, kafkaVars, tableVars, Counters
<1>7. CASE Record(w)
  <2>1. loop[w].batch # {}
    BY <1>1, <1>7, InTheBatch DEF Record
  <2>2. m.doc \in Docs /\ LedgerKey(w) \in Events \X Groups
    BY <1>1, <1>3, <2>1, HandIs, KeyType
  <2>3. PICK outcome \in {"extracted", "failed"} :
          /\ extractions' = [extractions EXCEPT ![m.doc] = Append(@, outcome)]
          /\ outbox' = outbox \cup {Event(Outgoing(outcome), m.doc)}
          /\ deadLetters' = IF outcome = "extracted" THEN deadLetters
                            ELSE Letters(w, m.doc)
    BY <1>3, <1>7 DEF Record, Outcomes, Letters
  <2>4. /\ ledger' = ledger \cup {LedgerKey(w)} /\ Advance(w)
        /\ UNCHANGED <<log, copies, offset, owner, moves, crashes, calls>>
    BY <1>7 DEF Record
  <2>5. Passed(w, m)'
    BY <1>3, <2>4 DEF Passed, LedgerKey
  <2>6. GroupInv' /\ LoopInv' /\ loop' \in [Workers -> Loops]
    BY <1>1, <1>2, <1>3, <2>1, <2>4, <2>5, OnwardStep DEF Advance
  <2>7. extractions' \in [Docs -> Seq({"extracted", "failed"})]
    <3>1. PICK s : s = extractions[m.doc] /\ s \in Seq({"extracted", "failed"})
      BY <2>2 DEF PipeInv, TableTypes
    <3>2. Append(s, outcome) \in Seq({"extracted", "failed"})
      BY <3>1
    <3> QED BY <2>2, <2>3, <3>1, <3>2 DEF PipeInv, TableTypes
  <2>8. outbox' \subseteq Events
    BY <2>2, <2>3 DEF Event, Events, Outgoing, PipeInv, KafkaTypes
  <2>9. deadLetters' \in [Groups -> [Docs -> Nat]]
    <3>1. TableTypes /\ Letters(w, m.doc) \in [Groups -> [Docs -> Nat]]
      BY <1>1, <2>2, LettersType DEF PipeInv
    <3> QED BY <2>3, <3>1 DEF TableTypes
  <2>10. Counters' \subseteq Nat
    BY <1>1, <2>4 DEF Counters
  <2>11. ledger' \subseteq Events \X Groups
    BY <2>2, <2>4 DEF PipeInv, TableTypes
  <2>12. TableTypes'
    BY <1>1, <2>4, <2>7, <2>9, <2>11 DEF PipeInv, TableTypes
  <2>13. KafkaTypes'
    BY <2>4, <2>6, <2>8, <2>10 DEF PipeInv, KafkaTypes
  <2> QED BY <2>6, <2>12, <2>13 DEF PipeInv
<1> QED BY <1>4, <1>5, <1>6, <1>7 DEF Ingest

\* The handler of a decision worker.
LEMMA DecideStep ==
  ASSUME PipeInv, NEW w \in Deciders, Decide(w) \/ Raise(w), UNCHANGED calls
  PROVE  PipeInv'
<1>1. /\ w \in Workers /\ raised \in Nat /\ Counters \subseteq Nat
      /\ loop[w].failed \in BOOLEAN
  BY DEF Workers, PipeInv, KafkaTypes, Counters, Loops
<1>2. PICK m : m = InHand(w)
  OBVIOUS
<1>3. CASE Begin(w) \/ ReadClaim(w)
  <2>1. loop[w].batch # {}
    BY <1>1, <1>3, InTheBatch DEF Begin, ReadClaim, Handling
  <2>2. UNCHANGED <<kafkaVars, tableVars, crashes, decideVars>>
        /\ (Goto(w, "begun") \/ Goto(w, "read"))
    BY <1>3 DEF Begin, ReadClaim
  <2>3. UNCHANGED <<log, owner, offset, ledger, raised>>
    BY <2>2 DEF kafkaVars, tableVars, decideVars
  <2>4. GroupInv' /\ LoopInv' /\ loop' \in [Workers -> Loops]
    BY <1>1, <2>1, <2>2, <2>3, GotoStep
  <2> QED BY <1>1, <2>2, <2>4
        DEF PipeInv, KafkaTypes, TableTypes, kafkaVars, tableVars, decideVars, Counters
<1>4. CASE SkipDuplicate(w)
  <2>1. loop[w].batch # {}
    BY <1>1, <1>4, InTheBatch DEF SkipDuplicate
  <2>2. UNCHANGED <<kafkaVars, tableVars, crashes, decideVars>> /\ Advance(w) /\ Seen(w)
    BY <1>4 DEF SkipDuplicate
  <2>3. Passed(w, m)'
    BY <1>2, <2>2 DEF Passed, Seen, LedgerKey, tableVars
  <2>4. GroupInv' /\ LoopInv' /\ loop' \in [Workers -> Loops]
    BY <1>1, <1>2, <2>1, <2>2, <2>3, OnwardStep
       DEF Advance, kafkaVars, tableVars, decideVars
  <2> QED BY <1>1, <2>2, <2>4
        DEF PipeInv, KafkaTypes, TableTypes, kafkaVars, tableVars, decideVars, Counters
<1>5. CASE Assess(w) \/ GiveUp(w)
  <2>1. loop[w].batch # {}
    BY <1>1, <1>5, InTheBatch DEF Assess, GiveUp
  <2>2. m.doc \in Docs /\ LedgerKey(w) \in Events \X Groups
    BY <1>1, <1>2, <2>1, HandIs, KeyType
  <2>3. /\ ledger' = ledger \cup {LedgerKey(w)} /\ Advance(w)
        /\ UNCHANGED <<kafkaVars, extractions, crashes, raised>>
    BY <1>5 DEF Assess, GiveUp, decideVars
  <2>4. \/ assessed' = [assessed EXCEPT ![m.doc] = @ + 1] /\ deadLetters' = deadLetters
        \/ assessed' = assessed /\ deadLetters' = Letters(w, m.doc)
    BY <1>2, <1>5 DEF Assess, GiveUp, decideVars, WithLetter, Letters
  <2>5. Passed(w, m)'
    BY <1>2, <2>3 DEF Passed, LedgerKey
  <2>6. GroupInv' /\ LoopInv' /\ loop' \in [Workers -> Loops]
    BY <1>1, <1>2, <2>1, <2>3, <2>5, OnwardStep DEF Advance, kafkaVars
  <2>7. deadLetters' \in [Groups -> [Docs -> Nat]] /\ assessed' \in [Docs -> Nat]
    <3>1. TableTypes /\ Letters(w, m.doc) \in [Groups -> [Docs -> Nat]]
      BY <1>1, <2>2, LettersType DEF PipeInv
    <3> QED BY <2>2, <2>4, <3>1 DEF TableTypes
  <2>8. ledger' \subseteq Events \X Groups
    BY <2>2, <2>3 DEF PipeInv, TableTypes
  <2>9. TableTypes'
    BY <2>3, <2>7, <2>8 DEF PipeInv, TableTypes
  <2> QED BY <1>1, <2>3, <2>6, <2>9 DEF PipeInv, KafkaTypes, kafkaVars, Counters
<1>6. CASE Raise(w)
  <2>1. loop[w].batch # {}
    BY <1>1, <1>6, InTheBatch DEF Raise, InTransaction
  <2>2. /\ UNCHANGED <<kafkaVars, tableVars, crashes, assessed>>
        /\ Onward(w, TRUE) /\ raised' = raised + 1
    BY <1>6 DEF Raise
  <2>3. raised' \in Nat /\ raised <= raised' /\ raised' > 0
    BY <1>1, <2>2
  <2>4. Passed(w, m)'
    BY <2>3 DEF Passed
  <2>5. GroupInv' /\ LoopInv' /\ loop' \in [Workers -> Loops]
    BY <1>1, <1>2, <2>1, <2>2, <2>3, <2>4, OnwardStep DEF kafkaVars, tableVars
  <2>6. Counters' \subseteq Nat
    BY <1>1, <2>2, <2>3 DEF Counters, kafkaVars
  <2> QED BY <2>2, <2>5, <2>6
        DEF PipeInv, KafkaTypes, TableTypes, kafkaVars, tableVars
<1> QED BY <1>3, <1>4, <1>5, <1>6 DEF Decide

LEMMA PipeStart ==
  ASSUME Init
  PROVE  PipeInv
<1>1. 0 \in Nat /\ MaxMoves \in Nat
  BY TopicAssumption
<1>2. PICK n : n = [p \in Partitions |-> 0]
  OBVIOUS
<1>3. PICK y : y = NewLoop
  OBVIOUS
<1>4. /\ y \in Loops /\ y.stage = "poll" /\ y.batch = {} /\ y.position = n
      /\ n \in [Partitions -> Nat] /\ \A p \in Partitions : n[p] = 0
  BY <1>2, <1>3 DEF NewLoop, Loops
<1>5. /\ log = [p \in Partitions |-> << >>] /\ outbox = {Event("uploaded", d) : d \in Docs}
      /\ offset = [g \in Groups |-> n] /\ owner = FirstOwner
      /\ loop = [w \in Workers |-> y] /\ Counters = {0} /\ ledger = {}
      /\ extractions = [d \in Docs |-> << >>]
      /\ deadLetters = [g \in Groups |-> [d \in Docs |-> 0]]
      /\ calls = [d \in Docs |-> 0] /\ assessed = [d \in Docs |-> 0]
  BY <1>2, <1>3 DEF Init, TopicInit, IngestInit, DecideInit, Counters
<1>6. KafkaTypes
  BY <1>4, <1>5, TopicAssumption DEF KafkaTypes, Event, Events
<1>7. TableTypes
  BY <1>5 DEF TableTypes
<1>8. \A p \in Partitions : log[p] = << >> /\ Len(log[p]) = 0
  BY <1>5
<1>9. GroupInv
  BY <1>4, <1>5, <1>8, TopicAssumption DEF GroupInv, Members
<1>10. ASSUME NEW w \in Workers
       PROVE  LoopSound(w, loop[w]) /\ Covered(w, loop[w]) /\ Committed(w)
  <2>1. loop[w] = y
    BY <1>5
  <2>2. LoopSound(w, y)
    BY <1>4, <1>8 DEF LoopSound
  <2>3. Covered(w, y)
    BY <1>4 DEF Covered
  <2>4. Committed(w)
    BY <1>4, <1>5, GroupOf DEF Committed
  <2> QED BY <2>1, <2>2, <2>3, <2>4
<1> QED BY <1>6, <1>7, <1>9, <1>10 DEF PipeInv, LoopInv

LEMMA Stutter ==
  ASSUME PipeInv, UNCHANGED vars
  PROVE  PipeInv'
BY DEF PipeInv, KafkaTypes, TableTypes, GroupInv, LoopInv, vars, topicVars, kafkaVars,
       tableVars, decideVars, Counters, LoopSound, IsPlace, Message, Covered, Passed,
       Committed

LEMMA PipeNext ==
  ASSUME PipeInv, [Next]_vars
  PROVE  PipeInv'
BY KafkaStep, IngestStep, DecideStep, Stutter DEF Next

\* PipeInv holds throughout: what a loop has in hand, has passed and may commit
\* fits the log, whatever crashes and moves.
THEOREM PipelineSound == Spec => []PipeInv
<1>1. Init => PipeInv
  BY PipeStart
<1>2. PipeInv /\ [Next]_vars => PipeInv'
  BY PipeNext
<1> QED BY <1>1, <1>2, PTL DEF Spec

\* The tables, the logs and the loops have their types, a group commits no more
\* than its members fetched, and nobody fetches past the end of a partition.
THEOREM TypeCorrect == Spec => []TypeOK
<1>1. ASSUME PipeInv PROVE TypeOK
  <2>1. ASSUME NEW g \in Groups, NEW p \in Partitions
        PROVE  /\ offset[g][p] <= loop[owner[g][p]].position[p]
               /\ loop[owner[g][p]].position[p] <= Len(log[p])
    <3>1. PICK v \in Workers : v = owner[g][p]
      BY <1>1 DEF PipeInv, KafkaTypes
    <3> QED BY <1>1, <3>1 DEF PipeInv, GroupInv, LoopInv, LoopSound
  <2> QED BY <1>1, <2>1 DEF PipeInv, KafkaTypes, TableTypes, TypeOK
<1>2. PipeInv => TypeOK
  BY <1>1
<1> QED BY <1>2, PipelineSound, PTL

\* main.py of both workers: what a committed offset has passed was handled,
\* however often partitions change hands under a running batch and processes
\* die; for the decision workers as long as no handler raised.
THEOREM OffsetsKept == Spec => []OffsetsCoverWork
<1>1. ASSUME PipeInv, NEW g \in Groups, NEW p \in Partitions
      PROVE  \E w \in Workers : Group(w) = g /\ Committed(w)
  BY <1>1 DEF PipeInv, GroupInv, LoopInv, Members
<1>2. ASSUME PipeInv
      PROVE  OffsetCovers("ingestion-worker", "uploaded")
  <2>1. ASSUME NEW p \in Partitions, NEW i \in 1..offset["ingestion-worker"][p],
               log[p][i].type = "uploaded"
        PROVE  <<log[p][i], "ingestion-worker">> \in ledger
    <3>1. PICK w \in Workers : Group(w) = "ingestion-worker" /\ Committed(w)
      BY <1>1, <1>2 DEF Groups
    <3>2. HandledBy(w) = "uploaded" /\ w \notin Deciders
      BY <3>1, GroupOf
    <3> QED BY <2>1, <3>1, <3>2 DEF Committed, Passed
  <2> QED BY <2>1 DEF OffsetCovers
<1>3. ASSUME PipeInv, raised = 0
      PROVE  OffsetCovers("decision-worker", "extracted")
  <2>1. ASSUME NEW p \in Partitions, NEW i \in 1..offset["decision-worker"][p],
               log[p][i].type = "extracted"
        PROVE  <<log[p][i], "decision-worker">> \in ledger
    <3>1. PICK w \in Workers : Group(w) = "decision-worker" /\ Committed(w)
      BY <1>1, <1>3 DEF Groups
    <3>2. HandledBy(w) = "extracted"
      BY <3>1, GroupOf
    <3> QED BY <1>3, <2>1, <3>1, <3>2 DEF Committed, Passed
  <2> QED BY <2>1 DEF OffsetCovers
<1>4. PipeInv => OffsetsCoverWork
  BY <1>2, <1>3 DEF OffsetsCoverWork
<1> QED BY <1>4, PipelineSound, PTL

-----------------------------------------------------------------------------
(***************************************************************************)
(* One outcome for each event                                              *)
(***************************************************************************)
\* A transaction that reads the claim has inserted its ledger row: nobody else
\* has, and nobody else is about to with the same key.
ReadInv ==
  \A w \in Deciders : loop[w].stage = "read" =>
    /\ ~Seen(w)
    /\ \A v \in Deciders \ {w} :
         loop[v].stage = "read" => LedgerKey(v) # LedgerKey(w)

\* No handler has come to "read" in a step.
NoNewReader ==
  \A v \in Deciders : loop'[v].stage = "read" =>
    loop[v].stage = "read" /\ InHand(v)' = InHand(v)

LEMMA HandStays ==
  ASSUME PipeInv, NEW v \in Workers, loop[v].batch # {},
         loop'[v].hand = loop[v].hand,
         UNCHANGED log \/ \E e \in outbox : PublishEvent(e)
  PROVE  InHand(v)' = InHand(v)
<1>1. CASE UNCHANGED log
  BY <1>1 DEF InHand, Message
<1>2. CASE \E e \in outbox : PublishEvent(e)
  <2>1. PICK e \in outbox : PublishEvent(e)
    BY <1>2
  <2>2. PICK q : q = PartitionOf[e.doc]
    OBVIOUS
  <2>3. Longer(q, e)
    <3>1. KafkaTypes /\ e \in Events /\ log' = [log EXCEPT ![q] = Append(@, e)]
      BY <2>1, <2>2 DEF PipeInv, KafkaTypes, PublishEvent
    <3> QED BY <2>2, <3>1, LogGrows
  <2>4. PICK x : x = loop[v].hand /\ IsPlace(v, x)
    BY HandIs
  <2>5. log'[x[1]][x[2]] = log[x[1]][x[2]]
    BY <2>3, <2>4 DEF Longer, IsPlace
  <2> QED BY <2>4, <2>5 DEF InHand, Message
<1> QED BY <1>1, <1>2

LEMMA TurnNoReader ==
  ASSUME PipeInv, NEW w \in Workers, NEW y, Turn(w, y), UNCHANGED log,
         y.stage # "read" \/ (y.stage = loop[w].stage /\ y.hand = loop[w].hand)
  PROVE  NoNewReader
<1>1. loop'[w] = y /\ \A v \in Workers \ {w} : loop'[v] = loop[v]
  BY DEF Turn, PipeInv, KafkaTypes
<1>2. ASSUME NEW v \in Deciders, loop'[v].stage = "read"
      PROVE  loop[v].stage = "read" /\ InHand(v)' = InHand(v)
  <2>1. v \in Workers
    BY DEF Workers
  <2>2. loop[v].stage = "read" /\ loop'[v].hand = loop[v].hand
    BY <1>1, <1>2, <2>1
  <2> QED BY <2>1, <2>2, InTheBatch, HandStays
<1> QED BY <1>2 DEF NoNewReader

LEMMA OnwardNoReader ==
  ASSUME PipeInv, NEW w \in Workers, NEW failed \in BOOLEAN, Onward(w, failed),
         UNCHANGED log
  PROVE  NoNewReader /\ loop'[w].stage = "handle"
<1>1. PICK y : Turn(w, y) /\ y.stage = "handle"
  BY OnwardTurn DEF PipeInv
<1>2. loop'[w].stage = "handle"
  BY <1>1 DEF Turn, PipeInv, KafkaTypes
<1> QED BY <1>1, <1>2, TurnNoReader

LEMMA GotoNoReader ==
  ASSUME PipeInv, NEW w \in Workers,
         NEW s \in {"poll", "handle", "called", "unreadable", "begun"},
         Goto(w, s), UNCHANGED log
  PROVE  NoNewReader
<1>1. PICK y : Turn(w, y) /\ y.stage = s
  BY GotoTurn DEF PipeInv
<1> QED BY <1>1, TurnNoReader

LEMMA ReadersKept ==
  ASSUME PipeInv, ReadInv, NoNewReader, UNCHANGED ledger
  PROVE  ReadInv'
<1>1. ASSUME NEW w \in Deciders, loop'[w].stage = "read"
      PROVE  ~Seen(w)' /\ LedgerKey(w)' = LedgerKey(w)
  BY <1>1 DEF NoNewReader, ReadInv, Seen, LedgerKey
<1> QED BY <1>1 DEF ReadInv, NoNewReader

\* A transaction commits and its ledger row with it.
LEMMA ReaderDone ==
  ASSUME PipeInv, ReadInv, NoNewReader, NEW w \in Workers,
         ledger' = ledger \cup {LedgerKey(w)},
         w \in Deciders => loop[w].stage = "read" /\ loop'[w].stage # "read"
  PROVE  ReadInv'
<1>1. ASSUME NEW v \in Deciders, loop'[v].stage = "read"
      PROVE  ~Seen(v)' /\ LedgerKey(v)' = LedgerKey(v) /\ loop[v].stage = "read"
  <2>1. loop[v].stage = "read" /\ LedgerKey(v)' = LedgerKey(v) /\ LedgerKey(v) \notin ledger
    BY <1>1 DEF NoNewReader, ReadInv, Seen, LedgerKey
  <2>2. LedgerKey(v) # LedgerKey(w)
    <3>1. CASE w \in Deciders
      BY <1>1, <2>1, <3>1 DEF ReadInv
    <3>2. CASE w \in Ingesters
      <4>1. v \in Workers
        BY DEF Workers
      <4>2. Group(w) # Group(v)
        BY <3>2, <4>1, GroupOf
      <4> QED BY <4>2 DEF LedgerKey
    <3> QED BY <3>1, <3>2 DEF Workers
  <2> QED BY <2>1, <2>2 DEF Seen
<1> QED BY <1>1 DEF ReadInv

\* Only the holder of the row lock comes to read.
LEMMA ReaderComes ==
  ASSUME PipeInv, ReadInv, NEW w \in Deciders, ReadClaim(w)
  PROVE  ReadInv'
<1>1. w \in Workers /\ loop[w].stage = "begun" /\ ~Seen(w) /\ Goto(w, "read")
      /\ UNCHANGED <<log, ledger>>
      /\ \A v \in Deciders : loop[v].stage = "read" => LedgerKey(v) # LedgerKey(w)
  BY DEF Workers, ReadClaim, kafkaVars, tableVars
<1>2. PICK y : /\ Turn(w, y) /\ y.stage = "read" /\ y.hand = loop[w].hand
  BY <1>1, GotoTurn DEF PipeInv
<1>3. loop'[w] = y /\ \A v \in Workers \ {w} : loop'[v] = loop[v]
  BY <1>1, <1>2 DEF Turn, PipeInv, KafkaTypes
<1>4. ASSUME NEW v \in Deciders
      PROVE  LedgerKey(v)' = LedgerKey(v) /\ (Seen(v)' <=> Seen(v))
  <2>1. v \in Workers /\ loop'[v].hand = loop[v].hand
    BY <1>2, <1>3 DEF Workers
  <2> QED BY <1>1, <2>1 DEF LedgerKey, InHand, Message, Seen
<1>5. \A v \in Deciders \ {w} : loop'[v] = loop[v]
  BY <1>3 DEF Workers
<1>6. ASSUME NEW u \in Deciders, loop'[u].stage = "read"
      PROVE  /\ ~Seen(u)
             /\ \A v \in Deciders \ {u} :
                  loop'[v].stage = "read" => LedgerKey(v) # LedgerKey(u)
  BY <1>1, <1>5, <1>6 DEF ReadInv
<1> QED BY <1>4, <1>6 DEF ReadInv

OutcomeInv == ReadInv /\ OneOutcomeEach

LEMMA OutcomesKept ==
  ASSUME OneOutcomeEach, UNCHANGED <<ledger, extractions, deadLetters, assessed>>
  PROVE  OneOutcomeEach'
BY DEF OneOutcomeEach, Done, Extracted

LEMMA KeyIs ==
  ASSUME PipeInv, NEW w \in Workers, loop[w].batch # {}, NEW d, d = InHand(w).doc
  PROVE  /\ d \in Docs
         /\ w \in Ingesters => LedgerKey(w) = <<Event("uploaded", d), "ingestion-worker">>
         /\ w \in Deciders => LedgerKey(w) = <<Event("extracted", d), "decision-worker">>
BY HandIs, GroupOf DEF LedgerKey

\* _record writes ledger row, extraction and dead letter together.
LEMMA RecordOutcome ==
  ASSUME PipeInv, OneOutcomeEach, NEW w \in Ingesters, Record(w), UNCHANGED assessed
  PROVE  OneOutcomeEach'
<1>1. w \in Workers /\ loop[w].batch # {}
  BY InTheBatch DEF Workers, Record
<1>2. PICK d : d = InHand(w).doc
  OBVIOUS
<1>3. PICK k : k = LedgerKey(w)
  OBVIOUS
<1>4. d \in Docs /\ k = <<Event("uploaded", d), "ingestion-worker">> /\ k \notin ledger
      /\ ledger' = ledger \cup {k} /\ Group(w) = "ingestion-worker"
  BY <1>1, <1>2, <1>3, KeyIs, GroupOf DEF Record, LostRace, Seen
<1>5. PICK outcome \in {"extracted", "failed"} :
        /\ extractions' = [extractions EXCEPT ![d] = Append(@, outcome)]
        /\ deadLetters' = IF outcome = "extracted" THEN deadLetters
                          ELSE [deadLetters EXCEPT !["ingestion-worker"][d] = @ + 1]
  BY <1>2, <1>4 DEF Record, Outcomes
<1>6. TableTypes
  BY DEF PipeInv
<1>7. /\ \A e \in Docs : Done("extracted", "decision-worker", e)'
                           = Done("extracted", "decision-worker", e)
      /\ \A e \in Docs \ {d} : Done("uploaded", "ingestion-worker", e)'
                                 = Done("uploaded", "ingestion-worker", e)
      /\ Done("uploaded", "ingestion-worker", d) = 0
      /\ Done("uploaded", "ingestion-worker", d)' = 1
  BY <1>4 DEF Done, Event
<1>8. PICK s : s = extractions[d] /\ s \in Seq({"extracted", "failed"})
  BY <1>4, <1>6 DEF TableTypes
<1>9. s = << >> /\ extractions'[d] = <<outcome>>
      /\ \A e \in Docs \ {d} : extractions'[e] = extractions[e]
  <2>1. Len(s) = 0
    BY <1>4, <1>7, <1>8 DEF OneOutcomeEach
  <2>2. s = << >>
    BY <1>8, <2>1
  <2>3. extractions' = [extractions EXCEPT ![d] = <<outcome>>]
    BY <1>5, <1>8, <2>2
  <2> QED BY <1>4, <1>6, <2>2, <2>3 DEF TableTypes
<1>10. deadLetters["ingestion-worker"][d] = 0 /\ ~Extracted(d)
  <2>1. ~Extracted(d)
    BY <1>8, <1>9 DEF Extracted
  <2>2. Len(extractions[d]) = 0
    BY <1>8, <1>9
  <2>3. deadLetters["ingestion-worker"][d] + 0 = 0
    BY <1>4, <2>1, <2>2 DEF OneOutcomeEach
  <2>4. deadLetters["ingestion-worker"][d] \in Nat
    BY <1>4, <1>6 DEF TableTypes, Groups
  <2> QED BY <2>1, <2>3, <2>4
<1>11. /\ \A e \in Docs : deadLetters'["decision-worker"][e]
                            = deadLetters["decision-worker"][e]
       /\ \A e \in Docs \ {d} : deadLetters'["ingestion-worker"][e]
                                  = deadLetters["ingestion-worker"][e]
       /\ deadLetters'["ingestion-worker"][d] = IF outcome = "extracted" THEN 0 ELSE 1
  BY <1>4, <1>5, <1>6, <1>10 DEF TableTypes, Groups
<1>12. /\ \A e \in Docs \ {d} : Extracted(e)' <=> Extracted(e)
       /\ Extracted(d)' <=> outcome = "extracted"
  BY <1>9 DEF Extracted
<1>13. Len(extractions'[d]) = 1
  BY <1>9
<1>14. ASSUME NEW e \in Docs
       PROVE  /\ Len(extractions'[e]) = Done("uploaded", "ingestion-worker", e)'
              /\ deadLetters'["ingestion-worker"][e] + (IF Extracted(e)' THEN 1 ELSE 0)
                   = Len(extractions'[e])
              /\ assessed'[e] + deadLetters'["decision-worker"][e]
                   = Done("extracted", "decision-worker", e)'
  <2>1. assessed'[e] + deadLetters'["decision-worker"][e]
          = Done("extracted", "decision-worker", e)'
    BY <1>7, <1>11 DEF OneOutcomeEach
  <2>2. CASE e = d
    <3>1. (IF Extracted(d)' THEN 1 ELSE 0) = IF outcome = "extracted" THEN 1 ELSE 0
      BY <1>12
    <3>2. deadLetters'["ingestion-worker"][d] + (IF Extracted(d)' THEN 1 ELSE 0) = 1
      BY <1>11, <3>1
    <3>3. Len(extractions'[d]) = 1 /\ Done("uploaded", "ingestion-worker", d)' = 1
      BY <1>7, <1>13
    <3> QED BY <2>1, <2>2, <3>2, <3>3
  <2>3. CASE e # d
    BY <1>7, <1>9, <1>11, <1>12, <2>1, <2>3 DEF OneOutcomeEach
  <2> QED BY <2>2, <2>3
<1> QED BY <1>14 DEF OneOutcomeEach

\* The assessment, or the dead letter, commits with the ledger row.
LEMMA DecisionOutcome ==
  ASSUME PipeInv, ReadInv, OneOutcomeEach, NEW w \in Deciders, Assess(w) \/ GiveUp(w)
  PROVE  OneOutcomeEach'
<1>1. w \in Workers /\ loop[w].batch # {} /\ loop[w].stage = "read"
  BY InTheBatch DEF Workers, Assess, GiveUp
<1>2. PICK d : d = InHand(w).doc
  OBVIOUS
<1>3. PICK k : k = LedgerKey(w)
  OBVIOUS
<1>4. d \in Docs /\ k = <<Event("extracted", d), "decision-worker">> /\ k \notin ledger
      /\ ledger' = ledger \cup {k} /\ Group(w) = "decision-worker"
      /\ UNCHANGED extractions
  BY <1>1, <1>2, <1>3, KeyIs, GroupOf DEF Assess, GiveUp, ReadInv, Seen
<1>5. \/ assessed' = [assessed EXCEPT ![d] = @ + 1] /\ deadLetters' = deadLetters
      \/ assessed' = assessed
         /\ deadLetters' = [deadLetters EXCEPT !["decision-worker"][d] = @ + 1]
  BY <1>2, <1>4 DEF Assess, GiveUp, decideVars, WithLetter
<1>6. TableTypes
  BY DEF PipeInv
<1>7. /\ \A e \in Docs : Done("uploaded", "ingestion-worker", e)'
                           = Done("uploaded", "ingestion-worker", e)
      /\ \A e \in Docs \ {d} : Done("extracted", "decision-worker", e)'
                                 = Done("extracted", "decision-worker", e)
      /\ Done("extracted", "decision-worker", d) = 0
      /\ Done("extracted", "decision-worker", d)' = 1
  BY <1>4 DEF Done, Event
<1>8. \A e \in Docs : deadLetters'["ingestion-worker"][e] = deadLetters["ingestion-worker"][e]
  BY <1>4, <1>5, <1>6 DEF TableTypes, Groups
<1>9. \A e \in Docs \ {d} : assessed'[e] = assessed[e]
        /\ deadLetters'["decision-worker"][e] = deadLetters["decision-worker"][e]
  BY <1>4, <1>5, <1>6 DEF TableTypes, Groups
<1>10. assessed'[d] + deadLetters'["decision-worker"][d]
         = assessed[d] + deadLetters["decision-worker"][d] + 1
  BY <1>4, <1>5, <1>6 DEF TableTypes, Groups
<1>11. ASSUME NEW e \in Docs
       PROVE  /\ Len(extractions'[e]) = Done("uploaded", "ingestion-worker", e)'
              /\ deadLetters'["ingestion-worker"][e] + (IF Extracted(e)' THEN 1 ELSE 0)
                   = Len(extractions'[e])
              /\ assessed'[e] + deadLetters'["decision-worker"][e]
                   = Done("extracted", "decision-worker", e)'
  <2>1. Extracted(e)' <=> Extracted(e)
    BY <1>4 DEF Extracted
  <2>2. /\ Len(extractions'[e]) = Done("uploaded", "ingestion-worker", e)'
        /\ deadLetters'["ingestion-worker"][e] + (IF Extracted(e)' THEN 1 ELSE 0)
             = Len(extractions'[e])
    BY <1>4, <1>7, <1>8, <2>1 DEF OneOutcomeEach
  <2>3. CASE e = d
    BY <1>7, <1>10, <2>2, <2>3 DEF OneOutcomeEach
  <2>4. CASE e # d
    BY <1>7, <1>9, <2>2, <2>4 DEF OneOutcomeEach
  <2> QED BY <2>3, <2>4
<1> QED BY <1>11 DEF OneOutcomeEach

LEMMA OutcomeStart ==
  ASSUME Init
  PROVE  OutcomeInv
<1>1. /\ \A w \in Workers : loop[w].stage = "poll"
      /\ \A d \in Docs : extractions[d] = << >> /\ Len(extractions[d]) = 0
           /\ assessed[d] = 0 /\ \A g \in Groups : deadLetters[g][d] = 0
      /\ ledger = {}
  BY DEF Init, TopicInit, IngestInit, DecideInit, NewLoop
<1>2. ReadInv
  BY <1>1 DEF ReadInv, Workers
<1>3. \A d \in Docs : ~Extracted(d) /\ \A type, g : Done(type, g, d) = 0
  BY <1>1 DEF Extracted, Done
<1>4. OneOutcomeEach
  BY <1>1, <1>3 DEF OneOutcomeEach, Groups
<1> QED BY <1>2, <1>4 DEF OutcomeInv

LEMMA OutcomeNext ==
  ASSUME PipeInv, OutcomeInv, [Next]_vars
  PROVE  OutcomeInv'
<1>1. ReadInv /\ OneOutcomeEach
  BY DEF OutcomeInv
<1>2. CASE UNCHANGED vars
  BY <1>2 DEF OutcomeInv, ReadInv, OneOutcomeEach, Seen, LedgerKey, InHand, Message, Done,
              Extracted, vars, topicVars, kafkaVars, tableVars, decideVars
<1>3. ASSUME UNCHANGED <<tableVars, decideVars>>, NoNewReader
      PROVE  OutcomeInv'
  BY <1>1, <1>3, ReadersKept, OutcomesKept DEF tableVars, decideVars, OutcomeInv
<1>4. CASE UNCHANGED decideVars /\ \E e \in outbox : PublishEvent(e)
  <2>1. UNCHANGED <<tableVars, loop>>
    BY <1>4 DEF PublishEvent
  <2>2. ASSUME NEW v \in Deciders, loop'[v].stage = "read"
        PROVE  loop[v].stage = "read" /\ InHand(v)' = InHand(v)
    BY <1>4, <2>1, <2>2, InTheBatch, HandStays DEF Workers
  <2> QED BY <1>3, <1>4, <2>1, <2>2 DEF NoNewReader
<1>5. CASE UNCHANGED decideVars /\ \E w \in Workers : Fetch(w)
  <2>1. PICK w \in Workers : Fetch(w)
    BY <1>5
  <2>2. UNCHANGED <<tableVars, log>>
    BY <2>1 DEF Fetch, kafkaVars
  <2>3. \E y : Turn(w, y) /\ y.stage = "handle"
    BY <2>1, FetchTurn DEF PipeInv
  <2> QED BY <1>3, <1>5, <2>2, <2>3, TurnNoReader
<1>6. CASE UNCHANGED decideVars /\ \E w \in Workers : EndBatch(w)
  <2>1. PICK w \in Workers : EndBatch(w)
    BY <1>6
  <2>2. UNCHANGED <<tableVars, log>> /\ Goto(w, "poll")
    BY <2>1 DEF EndBatch
  <2> QED BY <1>3, <1>6, <2>2, GotoNoReader
<1>7. CASE UNCHANGED decideVars /\ \E w \in Workers : Crash(w)
  <2>1. PICK w \in Workers : Crash(w)
    BY <1>7
  <2>2. UNCHANGED <<tableVars, log>>
    BY <2>1 DEF Crash, kafkaVars
  <2>3. \E y : Turn(w, y) /\ y.stage = "poll"
    BY <2>1, CrashTurn DEF PipeInv
  <2> QED BY <1>3, <1>7, <2>2, <2>3, TurnNoReader
<1>8. CASE UNCHANGED decideVars /\ \E p \in Partitions, w \in Workers : Rebalance(p, w)
  <2>1. PICK p \in Partitions, w \in Workers : Rebalance(p, w)
    BY <1>8
  <2>2. UNCHANGED <<tableVars, log>>
    BY <2>1 DEF Rebalance
  <2>3. \E y : Turn(w, y) /\ y.stage = loop[w].stage /\ y.hand = loop[w].hand
    BY <2>1, RebalanceTurn DEF PipeInv
  <2> QED BY <1>3, <1>8, <2>2, <2>3, TurnNoReader
<1>9. CASE UNCHANGED decideVars /\ \E w \in Ingesters : Ingest(w)
  <2>1. PICK w \in Ingesters : Ingest(w)
    BY <1>9
  <2>2. w \in Workers /\ w \notin Deciders /\ loop[w].failed \in BOOLEAN
    BY TopicAssumption DEF Workers, PipeInv, KafkaTypes, Loops
  <2>3. CASE SkipProcessed(w) \/ DropResult(w)
    <3>1. UNCHANGED <<tableVars, log>> /\ Onward(w, loop[w].failed)
      BY <2>3 DEF SkipProcessed, DropResult, kafkaVars, Advance
    <3> QED BY <1>3, <1>9, <2>2, <3>1, OnwardNoReader
  <2>4. CASE CannotRead(w) \/ CallModel(w)
    <3>1. UNCHANGED <<tableVars, log>> /\ (Goto(w, "unreadable") \/ Goto(w, "called"))
      BY <2>4 DEF CannotRead, CallModel, kafkaVars
    <3>2. NoNewReader
      BY <2>2, <3>1, GotoNoReader
    <3> QED BY <1>3, <1>9, <3>1, <3>2
  <2>5. CASE Record(w)
    <3>1. /\ UNCHANGED log /\ Onward(w, loop[w].failed)
          /\ ledger' = ledger \cup {LedgerKey(w)} /\ UNCHANGED assessed
      BY <1>9, <2>5 DEF Record, Advance, decideVars
    <3>2. NoNewReader
      BY <2>2, <3>1, OnwardNoReader
    <3>3. ReadInv'
      BY <1>1, <2>2, <3>1, <3>2, ReaderDone
    <3>4. OneOutcomeEach'
      BY <1>1, <2>5, <3>1, RecordOutcome
    <3> QED BY <3>3, <3>4 DEF OutcomeInv
  <2> QED BY <2>1, <2>3, <2>4, <2>5 DEF Ingest
<1>10. CASE \E w \in Deciders : Decide(w) \/ Raise(w)
  <2>1. PICK w \in Deciders : Decide(w) \/ Raise(w)
    BY <1>10
  <2>2. w \in Workers /\ loop[w].failed \in BOOLEAN
    BY DEF Workers, PipeInv, KafkaTypes, Loops
  <2>3. CASE Begin(w)
    <3>1. UNCHANGED <<tableVars, decideVars, log>> /\ Goto(w, "begun")
      BY <2>3 DEF Begin, kafkaVars
    <3> QED BY <1>3, <2>2, <3>1, GotoNoReader
  <2>4. CASE SkipDuplicate(w) \/ Raise(w)
    <3>1. /\ UNCHANGED <<tableVars, assessed, log>>
          /\ Onward(w, loop[w].failed) \/ Onward(w, TRUE)
      BY <2>4 DEF SkipDuplicate, Raise, kafkaVars, decideVars, Advance
    <3>2. NoNewReader
      BY <2>2, <3>1, OnwardNoReader
    <3>3. ReadInv' /\ OneOutcomeEach'
      BY <1>1, <3>1, <3>2, ReadersKept, OutcomesKept DEF tableVars
    <3> QED BY <3>3 DEF OutcomeInv
  <2>5. CASE ReadClaim(w)
    <3>1. UNCHANGED <<tableVars, decideVars>>
      BY <2>5 DEF ReadClaim
    <3>2. ReadInv'
      BY <1>1, <2>5, ReaderComes
    <3>3. OneOutcomeEach'
      BY <1>1, <3>1, OutcomesKept DEF tableVars, decideVars
    <3> QED BY <3>2, <3>3 DEF OutcomeInv
  <2>6. CASE Assess(w) \/ GiveUp(w)
    <3>1. /\ UNCHANGED log /\ Onward(w, loop[w].failed)
          /\ ledger' = ledger \cup {LedgerKey(w)} /\ loop[w].stage = "read"
      BY <2>6 DEF Assess, GiveUp, Advance, kafkaVars
    <3>2. NoNewReader /\ loop'[w].stage = "handle"
      BY <2>2, <3>1, OnwardNoReader
    <3>3. ReadInv'
      BY <1>1, <2>2, <3>1, <3>2, ReaderDone
    <3>4. OneOutcomeEach'
      BY <1>1, <2>6, DecisionOutcome
    <3> QED BY <3>3, <3>4 DEF OutcomeInv
  <2> QED BY <2>1, <2>3, <2>4, <2>5, <2>6 DEF Decide
<1> QED BY <1>2, <1>4, <1>5, <1>6, <1>7, <1>8, <1>9, <1>10 DEF Next

\* README.md:57-59: however often an event is delivered and whoever processes
\* it, the ledger row comes with exactly one outcome: an upload has one
\* extraction, an extraction one assessment or one dead letter.
THEOREM OneOutcome == Spec => []OneOutcomeEach
<1>1. Init => OutcomeInv
  BY OutcomeStart
<1>2. PipeInv /\ OutcomeInv /\ [Next]_vars => OutcomeInv'
  BY OutcomeNext
<1>3. OutcomeInv => OneOutcomeEach
  BY DEF OutcomeInv
<1> QED BY <1>1, <1>2, <1>3, PipelineSound, PTL DEF Spec

-----------------------------------------------------------------------------
(***************************************************************************)
(* The calls of the model                                                  *)
(***************************************************************************)
\* Ingestion workers that own partition p or have messages of it in hand.
Holders(p) == {w \in Ingesters : Owns(w, p) \/ \E x \in loop[w].batch : x[1] = p}

\* Those that have called the model for d and not recorded what it answered.
Callers(d) == {w \in Ingesters : loop[w].stage = "called" /\ InHand(w).doc = d}

Recorded(d) == <<Event("uploaded", d), "ingestion-worker">> \in ledger

HoldInv ==
  \A p \in Partitions :
    IsFiniteSet(Holders(p)) /\ Cardinality(Holders(p)) <= 1 + moves

\* Before a document is recorded every call has its caller, unless that died;
\* afterwards there are no more calls.
CallsOf(d) ==
  IF Recorded(d) THEN calls[d] <= 1 + moves + crashes
  ELSE calls[d] <= Cardinality(Callers(d)) + crashes

CallInv == HoldInv /\ \A d \in Docs : CallsOf(d)

LEMMA CallersFew ==
  ASSUME PipeInv, HoldInv, NEW d \in Docs
  PROVE  /\ IsFiniteSet(Callers(d)) /\ Cardinality(Callers(d)) \in Nat
         /\ Cardinality(Callers(d)) <= 1 + moves
<1>1. PICK p \in Partitions : p = PartitionOf[d]
  BY DEF Partitions
<1>2. ASSUME NEW w \in Callers(d) PROVE w \in Holders(p)
  <2>1. w \in Workers /\ w \in Ingesters /\ loop[w].stage = "called" /\ InHand(w).doc = d
    BY DEF Callers, Workers
  <2>2. loop[w].hand \in loop[w].batch /\ loop[w].hand[1] = p
    BY <1>1, <2>1, InTheBatch, HandIs
  <2> QED BY <2>1, <2>2 DEF Holders
<1>3. PICK S : S = Holders(p) /\ IsFiniteSet(S) /\ Cardinality(S) <= 1 + moves
  BY DEF HoldInv
<1>4. PICK C : C = Callers(d)
  OBVIOUS
<1>5. C \in SUBSET S
  BY <1>2, <1>3, <1>4
<1>6. IsFiniteSet(C) /\ Cardinality(C) <= Cardinality(S)
  BY <1>3, <1>5, FS_Subset
<1>7. Cardinality(C) \in Nat /\ Cardinality(S) \in Nat /\ moves \in Nat
  BY <1>3, <1>6, FS_CardinalityType DEF PipeInv, KafkaTypes, Counters
<1> QED BY <1>3, <1>4, <1>6, <1>7

LEMMA HoldersFewer ==
  ASSUME PipeInv, HoldInv, UNCHANGED moves, \A p \in Partitions : Holders(p)' \subseteq Holders(p)
  PROVE  HoldInv'
<1> SUFFICES ASSUME NEW p \in Partitions
             PROVE  IsFiniteSet(Holders(p)') /\ Cardinality(Holders(p)') <= 1 + moves
  BY DEF HoldInv
<1>1. PICK S : S = Holders(p) /\ IsFiniteSet(S) /\ Cardinality(S) <= 1 + moves
  BY DEF HoldInv
<1>2. PICK T : T = Holders(p)' /\ T \in SUBSET S
  BY <1>1
<1>3. IsFiniteSet(T) /\ Cardinality(T) <= Cardinality(S)
  BY <1>1, <1>2, FS_Subset
<1>4. Cardinality(T) \in Nat /\ Cardinality(S) \in Nat /\ moves \in Nat
  BY <1>1, <1>3, FS_CardinalityType DEF PipeInv, KafkaTypes, Counters
<1> QED BY <1>1, <1>2, <1>3, <1>4

\* A worker takes messages of its own partitions only.
LEMMA TurnHolds ==
  ASSUME PipeInv, HoldInv, NEW w \in Workers, NEW y, Turn(w, y),
         UNCHANGED <<owner, moves>>,
         \A x \in y.batch : x \in loop[w].batch \/ Owns(w, x[1])
  PROVE  HoldInv'
<1>1. loop'[w] = y /\ \A v \in Workers \ {w} : loop'[v] = loop[v]
  BY DEF Turn, PipeInv, KafkaTypes
<1>2. ASSUME NEW p \in Partitions, NEW v \in Ingesters,
             Owns(v, p)' \/ \E x \in loop'[v].batch : x[1] = p
      PROVE  Owns(v, p) \/ \E x \in loop[v].batch : x[1] = p
  <2>1. v \in Workers /\ (Owns(v, p)' <=> Owns(v, p))
    BY DEF Workers, Owns
  <2> QED BY <1>1, <1>2, <2>1
<1>3. \A p \in Partitions : Holders(p)' \subseteq Holders(p)
  BY <1>2 DEF Holders
<1> QED BY <1>3, HoldersFewer

LEMMA OnwardHolds ==
  ASSUME PipeInv, HoldInv, NEW w \in Workers, NEW failed \in BOOLEAN,
         Onward(w, failed), UNCHANGED <<owner, moves>>
  PROVE  HoldInv'
<1>1. PICK y : Turn(w, y) /\ y.batch = loop[w].batch \ {loop[w].hand}
  BY OnwardTurn DEF PipeInv
<1> QED BY <1>1, TurnHolds

LEMMA GotoHolds ==
  ASSUME PipeInv, HoldInv, NEW w \in Workers,
         NEW s \in {"poll", "handle", "called", "unreadable", "begun", "read"},
         Goto(w, s), UNCHANGED <<owner, moves>>
  PROVE  HoldInv'
<1>1. PICK y : Turn(w, y) /\ y.batch = loop[w].batch
  BY GotoTurn DEF PipeInv
<1> QED BY <1>1, TurnHolds

\* A partition that changes hands has one more holder.
LEMMA RebalanceHolds ==
  ASSUME PipeInv, HoldInv, NEW w \in Workers, NEW q \in Partitions, Rebalance(q, w)
  PROVE  HoldInv'
<1>1. PICK y : Turn(w, y) /\ y.batch = loop[w].batch
  BY RebalanceTurn DEF PipeInv
<1>2. loop'[w] = y /\ \A v \in Workers \ {w} : loop'[v] = loop[v]
  BY <1>1 DEF Turn, PipeInv, KafkaTypes
<1>3. owner' = [owner EXCEPT ![Group(w)][q] = w] /\ moves' = moves + 1 /\ moves \in Nat
  BY DEF Rebalance, PipeInv, KafkaTypes, Counters
<1>4. ASSUME NEW p \in Partitions, NEW v \in Ingesters, v # w, v \in Holders(p)'
      PROVE  v \in Holders(p)
  <2>1. v \in Workers /\ loop'[v] = loop[v] /\ Group(v) \in Groups
    BY <1>2, <1>4, GroupOf DEF Workers
  <2>2. Owns(v, p)' => Owns(v, p)
    BY <1>3, <1>4, <2>1, GroupOf DEF Owns, PipeInv, KafkaTypes
  <2> QED BY <1>4, <2>1, <2>2 DEF Holders
<1> SUFFICES ASSUME NEW p \in Partitions
             PROVE  IsFiniteSet(Holders(p)') /\ Cardinality(Holders(p)') <= 1 + moves'
  BY DEF HoldInv
<1>5. PICK S : S = Holders(p) /\ IsFiniteSet(S) /\ Cardinality(S) <= 1 + moves
  BY DEF HoldInv
<1>6. PICK T : T = Holders(p)'
  OBVIOUS
<1>7. T \in SUBSET (S \cup {w})
  <2>1. \A v \in T : v \in Ingesters
    BY <1>6 DEF Holders
  <2> QED BY <1>4, <1>5, <1>6, <2>1
<1>8. /\ IsFiniteSet(S \cup {w})
      /\ Cardinality(S \cup {w}) = IF w \in S THEN Cardinality(S) ELSE Cardinality(S) + 1
  BY <1>5, FS_AddElement
<1>9. IsFiniteSet(T) /\ Cardinality(T) <= Cardinality(S \cup {w})
  BY <1>7, <1>8, FS_Subset
<1>10. Cardinality(T) \in Nat /\ Cardinality(S) \in Nat
  BY <1>5, <1>9, FS_CardinalityType
<1> QED BY <1>3, <1>5, <1>6, <1>8, <1>9, <1>10

\* A worker that goes elsewhere than to "called" is no caller.
LEMMA CallerLeaves ==
  ASSUME PipeInv, NEW w \in Workers, NEW y, Turn(w, y), UNCHANGED log,
         y.stage # "called", NEW d \in Docs
  PROVE  Callers(d)' = Callers(d) \ {w}
<1>1. loop'[w] = y /\ \A v \in Workers \ {w} : loop'[v] = loop[v]
  BY DEF Turn, PipeInv, KafkaTypes
<1>2. ASSUME NEW v \in Ingesters, v # w
      PROVE  InHand(v)' = InHand(v) /\ loop'[v].stage = loop[v].stage
  <2>1. loop'[v] = loop[v]
    BY <1>1, <1>2 DEF Workers
  <2> QED BY <2>1 DEF InHand, Message
<1> QED BY <1>1, <1>2 DEF Callers

LEMMA SameCallers ==
  ASSUME PipeInv, NEW d \in Docs,
         \A v \in Ingesters : loop'[v].stage = loop[v].stage /\ loop'[v].hand = loop[v].hand,
         UNCHANGED log \/ \E e \in outbox : PublishEvent(e)
  PROVE  Callers(d)' = Callers(d)
<1>1. ASSUME NEW v \in Ingesters, loop[v].stage = "called"
      PROVE  InHand(v)' = InHand(v)
  BY <1>1, InTheBatch, HandStays DEF Workers
<1> QED BY <1>1 DEF Callers

\* Nobody calls in a step.
LEMMA NoCall ==
  ASSUME PipeInv, HoldInv, NEW d \in Docs, CallsOf(d), UNCHANGED calls, NEW w,
         moves' \in Nat, moves <= moves', crashes' \in Nat, crashes <= crashes',
         Recorded(d) => Recorded(d)',
         \/ Callers(d)' = Callers(d)
         \/ /\ Callers(d)' = Callers(d) \ {w}
            /\ w \in Callers(d) => Recorded(d)' \/ crashes' = crashes + 1
  PROVE  CallsOf(d)'
<1>1. PICK C : C = Callers(d)
  OBVIOUS
<1>2. IsFiniteSet(C) /\ Cardinality(C) \in Nat /\ Cardinality(C) <= 1 + moves
  BY <1>1, CallersFew
<1>3. moves \in Nat /\ crashes \in Nat /\ calls[d] \in Nat /\ calls'[d] = calls[d]
  BY DEF PipeInv, KafkaTypes, TableTypes, Counters
<1>4. CASE Recorded(d)'
  <2>1. calls[d] <= 1 + moves + crashes
    BY <1>1, <1>2, <1>3 DEF CallsOf
  <2> QED BY <1>3, <1>4, <2>1 DEF CallsOf
<1>5. CASE ~Recorded(d)'
  <2>1. calls[d] <= Cardinality(C) + crashes
    BY <1>1, <1>5 DEF CallsOf
  <2>2. PICK D : D = Callers(d)'
    OBVIOUS
  <2>3. CASE D = C
    BY <1>2, <1>3, <1>5, <2>1, <2>2, <2>3 DEF CallsOf
  <2>4. CASE D # C
    <3>1. D = C \ {w} /\ w \in C /\ crashes' = crashes + 1
      BY <1>1, <1>5, <2>2, <2>4
    <3>2. Cardinality(D) = Cardinality(C) - 1
      BY <1>2, <3>1, FS_RemoveElement
    <3> QED BY <1>2, <1>3, <1>5, <2>1, <2>2, <3>1, <3>2 DEF CallsOf
  <2> QED BY <2>3, <2>4
<1> QED BY <1>4, <1>5

\* The model is called for a document that is not in the ledger.
LEMMA CallCounted ==
  ASSUME PipeInv, CallInv, NEW w \in Ingesters, CallModel(w), NEW d \in Docs
  PROVE  CallsOf(d)'
<1>1. /\ w \in Workers /\ loop[w].batch # {} /\ loop[w].stage = "handle"
      /\ Goto(w, "called") /\ ~Seen(w)
      /\ UNCHANGED <<kafkaVars, tableVars, crashes>>
      /\ calls' = [calls EXCEPT ![InHand(w).doc] = @ + 1]
  BY DEF Workers, CallModel, Handling, AlreadyProcessed
<1>2. UNCHANGED <<log, owner, moves, ledger, crashes>>
  BY <1>1 DEF kafkaVars, tableVars
<1>3. PICK y : Turn(w, y) /\ y.stage = "called" /\ y.hand = loop[w].hand
  BY <1>1, GotoTurn DEF PipeInv
<1>4. loop'[w] = y /\ \A v \in Workers \ {w} : loop'[v] = loop[v]
  BY <1>1, <1>3 DEF Turn, PipeInv, KafkaTypes
<1>5. ASSUME NEW v \in Ingesters
      PROVE  /\ InHand(v)' = InHand(v)
             /\ loop'[v].stage = IF v = w THEN "called" ELSE loop[v].stage
  <2>1. loop'[v].hand = loop[v].hand
    BY <1>3, <1>4 DEF Workers
  <2>2. loop'[v].stage = IF v = w THEN "called" ELSE loop[v].stage
    BY <1>3, <1>4 DEF Workers
  <2> QED BY <1>2, <2>1, <2>2 DEF InHand, Message
<1>6. HoldInv /\ CallsOf(d) /\ (Recorded(d)' <=> Recorded(d))
  BY <1>2 DEF CallInv, Recorded
<1>7. CASE d = InHand(w).doc
  <2>1. ~Recorded(d)
    BY <1>1, <1>7, KeyIs DEF Seen, Recorded
  <2>2. PICK C : C = Callers(d)
    OBVIOUS
  <2>3. Callers(d)' = C \cup {w} /\ w \notin C
    BY <1>1, <1>5, <1>7, <2>2 DEF Callers
  <2>4. IsFiniteSet(C) /\ Cardinality(C) \in Nat
    BY <1>6, <2>2, CallersFew
  <2>5. Cardinality(C \cup {w}) = Cardinality(C) + 1
    BY <2>3, <2>4, FS_AddElement
  <2>6. calls[d] \in Nat /\ calls'[d] = calls[d] + 1 /\ crashes \in Nat
    BY <1>1, <1>7 DEF PipeInv, TableTypes, KafkaTypes, Counters
  <2>7. calls[d] <= Cardinality(C) + crashes
    BY <1>6, <2>1, <2>2 DEF CallsOf
  <2>8. calls'[d] <= Cardinality(C \cup {w}) + crashes
    BY <2>4, <2>5, <2>6, <2>7
  <2> QED BY <1>2, <1>6, <2>1, <2>3, <2>8 DEF CallsOf
<1>8. CASE d # InHand(w).doc
  <2>1. Callers(d)' = Callers(d)
    BY <1>1, <1>5, <1>8 DEF Callers
  <2>2. calls'[d] = calls[d]
    BY <1>1, <1>8 DEF PipeInv, TableTypes
  <2> QED BY <1>2, <1>6, <2>1, <2>2 DEF CallsOf
<1> QED BY <1>7, <1>8

LEMMA CallStart ==
  ASSUME Init
  PROVE  CallInv
<1>1. /\ owner = FirstOwner /\ moves = 0 /\ crashes = 0 /\ ledger = {}
      /\ \A w \in Workers : loop[w].stage = "poll" /\ loop[w].batch = {}
      /\ \A d \in Docs : calls[d] = 0
  BY DEF Init, TopicInit, IngestInit, NewLoop
<1>2. ASSUME NEW p \in Partitions
      PROVE  IsFiniteSet(Holders(p)) /\ Cardinality(Holders(p)) <= 1 + moves
  <2>1. PICK v : v = FirstOwner["ingestion-worker"][p]
    OBVIOUS
  <2>2. \A w \in Holders(p) : w = v
    BY <1>1, <2>1, GroupOf DEF Holders, Owns, Workers
  <2>3. PICK S : S = Holders(p)
    OBVIOUS
  <2>4. S = {} \/ S = {v}
    BY <2>2, <2>3
  <2>5. IsFiniteSet(S) /\ (Cardinality(S) = 0 \/ Cardinality(S) = 1)
    BY <2>4, FS_EmptySet, FS_Singleton
  <2> QED BY <1>1, <2>3, <2>5
<1>3. ASSUME NEW d \in Docs PROVE CallsOf(d)
  <2>1. Callers(d) = {}
    BY <1>1 DEF Callers, Workers
  <2>2. Cardinality(Callers(d)) = 0
    BY <2>1, FS_EmptySet
  <2> QED BY <1>1, <2>2 DEF CallsOf, Recorded
<1> QED BY <1>2, <1>3 DEF CallInv, HoldInv

\* Steps of the relay, of the loops and of the group.
LEMMA CallKafka ==
  ASSUME PipeInv, CallInv, UNCHANGED <<calls, decideVars>>,
         \/ \E e \in outbox : PublishEvent(e)
         \/ \E w \in Workers : Fetch(w) \/ EndBatch(w) \/ Crash(w)
         \/ \E p \in Partitions, w \in Workers : Rebalance(p, w)
  PROVE  CallInv'
<1>1. /\ HoldInv /\ \A d \in Docs : CallsOf(d)
      /\ moves \in Nat /\ crashes \in Nat
  BY DEF CallInv, PipeInv, KafkaTypes, Counters
<1>2. UNCHANGED tableVars
  BY DEF PublishEvent, Fetch, EndBatch, Crash, Rebalance
<1>3. \A d \in Docs : Recorded(d) => Recorded(d)'
  BY <1>2 DEF tableVars, Recorded
<1>4. CASE \E e \in outbox : PublishEvent(e)
  <2>1. UNCHANGED <<loop, owner, moves, crashes>>
    BY <1>4 DEF PublishEvent
  <2>2. \A p \in Partitions : Holders(p)' = Holders(p)
    BY <2>1 DEF Holders, Owns
  <2>3. HoldInv'
    BY <1>1, <2>1, <2>2, HoldersFewer
  <2>4. ASSUME NEW d \in Docs PROVE CallsOf(d)'
    <3>1. Callers(d)' = Callers(d)
      BY <1>4, <2>1, SameCallers
    <3> QED BY <1>1, <1>3, <2>1, <3>1, NoCall
  <2> QED BY <2>3, <2>4 DEF CallInv
<1>5. CASE \E w \in Workers : Fetch(w)
  <2>1. PICK w \in Workers : Fetch(w)
    BY <1>5
  <2>2. UNCHANGED <<log, owner, moves, crashes>>
    BY <2>1 DEF Fetch, kafkaVars
  <2>3. PICK y : \E parts \in SUBSET Partitions :
           /\ \A q \in parts : Owns(w, q)
           /\ Turn(w, y) /\ y.stage = "handle"
           /\ y.batch = Fresh(w, parts)
           /\ loop[w].stage = "poll"
    BY <2>1, FetchTurn DEF PipeInv
  <2>4. \A x \in y.batch : Owns(w, x[1])
    BY <2>3 DEF Fresh
  <2>5. HoldInv'
    BY <1>1, <2>2, <2>3, <2>4, TurnHolds
  <2>6. ASSUME NEW d \in Docs PROVE CallsOf(d)'
    <3>1. Callers(d)' = Callers(d) \ {w} /\ w \notin Callers(d)
      BY <2>2, <2>3, CallerLeaves DEF Callers
    <3> QED BY <1>1, <1>3, <2>2, <3>1, NoCall
  <2> QED BY <2>5, <2>6 DEF CallInv
<1>6. CASE \E w \in Workers : EndBatch(w)
  <2>1. PICK w \in Workers : EndBatch(w)
    BY <1>6
  <2>2. UNCHANGED <<log, owner, moves, crashes>> /\ Goto(w, "poll") /\ loop[w].stage = "handle"
    BY <2>1 DEF EndBatch, BatchDone
  <2>3. PICK y : Turn(w, y) /\ y.stage = "poll"
    BY <2>2, GotoTurn DEF PipeInv
  <2>4. HoldInv'
    BY <1>1, <2>2, GotoHolds
  <2>5. ASSUME NEW d \in Docs PROVE CallsOf(d)'
    <3>1. Callers(d)' = Callers(d) \ {w} /\ w \notin Callers(d)
      BY <2>2, <2>3, CallerLeaves DEF Callers
    <3> QED BY <1>1, <1>3, <2>2, <3>1, NoCall
  <2> QED BY <2>4, <2>5 DEF CallInv
<1>7. CASE \E w \in Workers : Crash(w)
  <2>1. PICK w \in Workers : Crash(w)
    BY <1>7
  <2>2. UNCHANGED <<log, owner, moves>> /\ crashes' = crashes + 1
    BY <2>1 DEF Crash, kafkaVars
  <2>3. PICK y : Turn(w, y) /\ y.stage = "poll" /\ y.batch = {}
    BY <2>1, CrashTurn DEF PipeInv
  <2>4. HoldInv'
    BY <1>1, <2>2, <2>3, TurnHolds
  <2>5. ASSUME NEW d \in Docs PROVE CallsOf(d)'
    <3>1. Callers(d)' = Callers(d) \ {w}
      BY <2>2, <2>3, CallerLeaves
    <3> QED BY <1>1, <1>3, <2>2, <3>1, NoCall
  <2> QED BY <2>4, <2>5 DEF CallInv
<1>8. CASE \E p \in Partitions, w \in Workers : Rebalance(p, w)
  <2>1. PICK p \in Partitions, w \in Workers : Rebalance(p, w)
    BY <1>8
  <2>2. UNCHANGED <<log, crashes>> /\ moves' = moves + 1
    BY <2>1 DEF Rebalance
  <2>3. PICK y : Turn(w, y) /\ y.stage = loop[w].stage /\ y.hand = loop[w].hand
    BY <2>1, RebalanceTurn DEF PipeInv
  <2>4. HoldInv'
    BY <1>1, <2>1, RebalanceHolds
  <2>5. \A v \in Ingesters : loop'[v].stage = loop[v].stage /\ loop'[v].hand = loop[v].hand
    BY <2>3 DEF Turn, PipeInv, KafkaTypes, Workers
  <2>6. ASSUME NEW d \in Docs PROVE CallsOf(d)'
    <3>1. Callers(d)' = Callers(d)
      BY <2>2, <2>5, SameCallers
    <3> QED BY <1>1, <1>3, <2>2, <3>1, NoCall
  <2> QED BY <2>4, <2>6 DEF CallInv
<1> QED BY <1>4, <1>5, <1>6, <1>7, <1>8

\* Steps of a handler of the ingestion group.
LEMMA CallIngest ==
  ASSUME PipeInv, CallInv, NEW w \in Ingesters, Ingest(w)
  PROVE  CallInv'
<1>1. /\ HoldInv /\ \A d \in Docs : CallsOf(d)
      /\ moves \in Nat /\ crashes \in Nat
      /\ w \in Workers /\ loop[w].failed \in BOOLEAN
  BY DEF CallInv, PipeInv, KafkaTypes, Counters, Workers, Loops
<1>2. CASE CallModel(w)
  <2>1. UNCHANGED <<owner, moves>> /\ Goto(w, "called")
    BY <1>2 DEF CallModel, kafkaVars
  <2>2. HoldInv'
    BY <1>1, <2>1, GotoHolds
  <2> QED BY <1>2, <2>2, CallCounted DEF CallInv
<1>3. CASE CannotRead(w)
  <2>1. /\ UNCHANGED <<log, owner, moves, ledger, crashes, calls>>
        /\ Goto(w, "unreadable") /\ loop[w].stage = "handle"
    BY <1>3 DEF CannotRead, Handling, kafkaVars, tableVars
  <2>2. PICK y : Turn(w, y) /\ y.stage = "unreadable"
    BY <1>1, <2>1, GotoTurn DEF PipeInv
  <2>3. HoldInv'
    BY <1>1, <2>1, GotoHolds
  <2>4. ASSUME NEW d \in Docs PROVE CallsOf(d)'
    <3>1. Callers(d)' = Callers(d) \ {w} /\ w \notin Callers(d)
      BY <1>1, <2>1, <2>2, CallerLeaves DEF Callers
    <3>2. Recorded(d) => Recorded(d)'
      BY <2>1 DEF Recorded
    <3> QED BY <1>1, <2>1, <3>1, <3>2, NoCall
  <2> QED BY <2>3, <2>4 DEF CallInv
<1>4. CASE SkipProcessed(w) \/ DropResult(w) \/ Record(w)
  <2>1. /\ UNCHANGED <<log, owner, moves, crashes, calls>> /\ ledger \subseteq ledger'
        /\ Onward(w, loop[w].failed)
    BY <1>4 DEF SkipProcessed, DropResult, Record, Advance, kafkaVars, tableVars
  <2>2. loop[w].batch # {} /\ LedgerKey(w) \in ledger'
    BY <1>1, <1>4, InTheBatch
       DEF SkipProcessed, DropResult, Record, Handling, AlreadyProcessed, LostRace, Seen,
           tableVars
  <2>3. PICK y : Turn(w, y) /\ y.stage = "handle"
    BY <1>1, <2>1, OnwardTurn DEF PipeInv
  <2>4. HoldInv'
    BY <1>1, <2>1, OnwardHolds
  <2>5. ASSUME NEW d \in Docs PROVE CallsOf(d)'
    <3>1. Callers(d)' = Callers(d) \ {w}
      BY <1>1, <2>1, <2>3, CallerLeaves
    <3>2. Recorded(d) => Recorded(d)'
      BY <2>1 DEF Recorded
    <3>3. w \in Callers(d) => Recorded(d)'
      BY <1>1, <2>2, KeyIs DEF Callers, Recorded
    <3> QED BY <1>1, <2>1, <3>1, <3>2, <3>3, NoCall
  <2> QED BY <2>4, <2>5 DEF CallInv
<1> QED BY <1>2, <1>3, <1>4 DEF Ingest

\* Steps of a handler of the decision group.
LEMMA CallDecide ==
  ASSUME PipeInv, CallInv, NEW w \in Deciders, Decide(w) \/ Raise(w), UNCHANGED calls
  PROVE  CallInv'
<1>1. /\ HoldInv /\ \A d \in Docs : CallsOf(d)
      /\ moves \in Nat /\ crashes \in Nat
      /\ w \in Workers /\ w \notin Ingesters /\ loop[w].failed \in BOOLEAN
  BY TopicAssumption DEF CallInv, PipeInv, KafkaTypes, Counters, Workers, Loops
<1>2. /\ UNCHANGED <<log, owner, moves, crashes>> /\ ledger \subseteq ledger'
      /\ \/ Goto(w, "begun") \/ Goto(w, "read")
         \/ Onward(w, loop[w].failed) \/ Onward(w, TRUE)
  BY DEF Decide, Begin, SkipDuplicate, ReadClaim, Assess, GiveUp, Raise, Advance,
         kafkaVars, tableVars
<1>3. HoldInv'
  BY <1>1, <1>2, GotoHolds, OnwardHolds
<1>4. PICK y : Turn(w, y)
  BY <1>1, <1>2, GotoTurn, OnwardTurn DEF PipeInv
<1>5. \A v \in Ingesters : loop'[v] = loop[v]
  BY <1>1, <1>4 DEF Turn, PipeInv, KafkaTypes, Workers
<1>6. ASSUME NEW d \in Docs PROVE CallsOf(d)'
  <2>1. Callers(d)' = Callers(d)
    BY <1>2, <1>5, SameCallers
  <2>2. Recorded(d) => Recorded(d)'
    BY <1>2 DEF Recorded
  <2> QED BY <1>1, <1>2, <2>1, <2>2, NoCall
<1> QED BY <1>3, <1>6 DEF CallInv

LEMMA CallStutter ==
  ASSUME CallInv, UNCHANGED vars
  PROVE  CallInv'
BY DEF CallInv, HoldInv, Holders, Owns, CallsOf, Recorded, Callers, InHand, Message,
       vars, topicVars, kafkaVars, tableVars

\* ingestion main.py:9-12: a document costs more than one call only where a
\* process died or lost its partition; deliveries alone never cost one.
THEOREM CallsCounted == Spec => []CallsExplained
<1>1. Init => CallInv
  BY CallStart
<1>2. PipeInv /\ CallInv /\ [Next]_vars => CallInv'
  BY CallKafka, CallIngest, CallDecide, CallStutter DEF Next
<1>3. ASSUME PipeInv, CallInv, NEW d \in Docs
      PROVE  calls[d] <= 1 + moves + crashes
  <2>1. moves \in Nat /\ crashes \in Nat /\ calls[d] \in Nat
    BY <1>3 DEF PipeInv, KafkaTypes, TableTypes, Counters
  <2>2. Cardinality(Callers(d)) \in Nat /\ Cardinality(Callers(d)) <= 1 + moves
    BY <1>3, CallersFew DEF CallInv
  <2>3. CallsOf(d)
    BY <1>3 DEF CallInv
  <2> QED BY <2>1, <2>2, <2>3 DEF CallsOf
<1>4. PipeInv /\ CallInv => CallsExplained
  BY <1>3 DEF CallsExplained
<1> QED BY <1>1, <1>2, <1>4, PipelineSound, PTL DEF Spec
=============================================================================
