---------------------- MODULE ReadModelConsumer_proofs ----------------------
(***************************************************************************)
(* Proofs about ReadModelConsumer, for any number of replicas, assessments *)
(* and messages, any batch size, any number of failures and restarts.      *)
(*                                                                         *)
(* A transaction that has inserted its key is the only one with that key,  *)
(* and its event is in the ledger exactly if it was applied: TxInv.  Until *)
(* a handler fails, each loop has seen every message before the one in     *)
(* hand applied: SeenInv.                                                  *)
(***************************************************************************)
EXTENDS ReadModelConsumer, TLAPS

IsApplied(a) == \E i \in DOMAIN applied : applied[i] = a

\* A loop's next message is at most one past the batch; a message in hand is
\* one of the batch; between batches nothing is in hand.
LoopOK(r) ==
  /\ rep[r].next >= 1
  /\ rep[r].pc \in {"tx", "notify"} => rep[r].next <= rep[r].position
  /\ rep[r].pc = "poll" => rep[r].next = rep[r].position + 1

TxInv ==
  /\ TypeOK
  /\ \A r \in Replicas : LoopOK(r)
  /\ \A r \in Replicas : rep[r].pc = "tx" => LedgerKey(r) \notin ledger
  /\ \A r, s \in Replicas :
       rep[r].pc = "tx" /\ rep[s].pc = "tx" /\ r # s => InHand(r) # InHand(s)
  /\ \A a \in Assessments :
       <<a, "claims-api-readmodel">> \in ledger <=> IsApplied(a)

\* What a step that touches one loop does to the loops.
Only(r) == \A s \in Replicas \ {r} : rep'[s] = rep[s]

LEMMA LoopTypes ==
  ASSUME TypeOK, NEW r \in Replicas
  PROVE  /\ rep[r].pc \in {"poll", "handle", "tx", "notify"}
         /\ rep[r].position \in Nat /\ rep[r].next \in Nat /\ rep[r].offset \in Nat
         /\ rep[r].failed \in BOOLEAN
         /\ rep[r].offset <= rep[r].position /\ rep[r].position <= Len(topic)
         /\ rep[r].next <= rep[r].position + 1
         /\ Len(topic) \in Nat
BY DEF TypeOK, Loops

LEMMA AtLoop ==
  ASSUME TypeOK, NEW r \in Replicas, NEW y \in Loops,
         rep' = [rep EXCEPT ![r] = y]
  PROVE  rep' \in [Replicas -> Loops] /\ rep'[r] = y /\ Only(r)
BY DEF TypeOK, Only

\* One message more, with another pc; the batch stays.
Moves(r, from, to, n) ==
  /\ rep' \in [Replicas -> Loops] /\ Only(r)
  /\ rep[r].pc \in from /\ rep'[r].pc = to
  /\ rep'[r].offset = rep[r].offset /\ rep'[r].position = rep[r].position
  /\ rep'[r].next = rep[r].next + n

LEMMA FetchDoes ==
  ASSUME TypeOK, NEW r \in Replicas, Fetch(r)
  PROVE  /\ rep' \in [Replicas -> Loops] /\ Only(r)
         /\ rep[r].pc = "poll" /\ rep'[r].pc = "handle"
         /\ rep'[r].offset = rep[r].offset
         /\ rep'[r].next = rep[r].position + 1
         /\ rep'[r].position > rep[r].position /\ rep'[r].position <= Len(topic)
         /\ UNCHANGED <<topic, ledger, applied, failures, crashes>>
<1>1. PICK n \in 1..BatchSize :
        /\ rep[r].position + n <= Len(topic)
        /\ rep' = [rep EXCEPT ![r].pc = "handle", ![r].failed = FALSE,
                              ![r].position = @ + n,
                              ![r].next = rep[r].position + 1]
  BY DEF Fetch
<1>2. /\ rep[r] \in Loops /\ rep \in [Replicas -> Loops]
      /\ rep[r].position + n \in Nat /\ rep[r].position + 1 \in Nat
      /\ n >= 1
  BY ConsumerAssumption DEF TypeOK, Loops
<1>3. PICK y : y = [rep[r] EXCEPT !.pc = "handle", !.failed = FALSE,
                                  !.position = rep[r].position + n,
                                  !.next = rep[r].position + 1]
  OBVIOUS
<1>4. /\ y \in Loops /\ y.pc = "handle" /\ y.offset = rep[r].offset
      /\ y.next = rep[r].position + 1 /\ y.position = rep[r].position + n
  BY <1>2, <1>3 DEF Loops
<1>5. rep' = [rep EXCEPT ![r] = y]
  BY <1>1, <1>2, <1>3
<1>6. rep[r].pc = "poll" /\ UNCHANGED <<topic, ledger, applied, failures, crashes>>
  BY DEF Fetch
<1>7. rep' \in [Replicas -> Loops] /\ rep'[r] = y /\ Only(r)
  BY <1>4, <1>5, AtLoop
<1>8. rep[r].position + n <= Len(topic) /\ rep[r].position \in Nat
  BY <1>1, LoopTypes
<1> QED BY <1>2, <1>4, <1>6, <1>7, <1>8

LEMMA SkipDoes ==
  ASSUME TypeOK, NEW r \in Replicas, SkipDuplicate(r)
  PROVE  /\ Moves(r, {"handle"}, "handle", 1)
         /\ rep[r].next <= rep[r].position /\ Seen(r)
         /\ UNCHANGED <<topic, ledger, applied, failures, crashes>>
<1>1. rep[r] \in Loops /\ rep \in [Replicas -> Loops] /\ rep[r].next + 1 \in Nat
  BY DEF TypeOK, Loops
<1>2. PICK y : y = [rep[r] EXCEPT !.next = rep[r].next + 1]
  OBVIOUS
<1>3. /\ y \in Loops /\ y.pc = rep[r].pc /\ y.offset = rep[r].offset
      /\ y.next = rep[r].next + 1 /\ y.position = rep[r].position
  BY <1>1, <1>2 DEF Loops
<1>4. rep' = [rep EXCEPT ![r] = y]
  BY <1>1, <1>2 DEF SkipDuplicate
<1>5. rep' \in [Replicas -> Loops] /\ rep'[r] = y /\ Only(r)
  BY <1>3, <1>4, AtLoop
<1> QED BY <1>3, <1>5 DEF Moves, SkipDuplicate, Handling

LEMMA PcDoes ==
  ASSUME TypeOK, NEW r \in Replicas, NEW q \in {"tx", "notify"},
         rep' = [rep EXCEPT ![r].pc = q]
  PROVE  Moves(r, {rep[r].pc}, q, 0)
<1>1. rep[r] \in Loops /\ rep \in [Replicas -> Loops] /\ rep[r].next \in Nat
  BY DEF TypeOK, Loops
<1>2. PICK y : y = [rep[r] EXCEPT !.pc = q]
  OBVIOUS
<1>3. /\ y \in Loops /\ y.pc = q /\ y.offset = rep[r].offset
      /\ y.next = rep[r].next /\ y.position = rep[r].position
  BY <1>1, <1>2 DEF Loops
<1>4. rep' = [rep EXCEPT ![r] = y]
  BY <1>1, <1>2
<1>5. rep' \in [Replicas -> Loops] /\ rep'[r] = y /\ Only(r)
  BY <1>3, <1>4, AtLoop
<1> QED BY <1>1, <1>3, <1>5 DEF Moves

LEMMA NotifyDoes ==
  ASSUME TypeOK, NEW r \in Replicas, Notify(r)
  PROVE  /\ Moves(r, {"notify"}, "handle", 1)
         /\ UNCHANGED <<topic, ledger, applied, failures, crashes>>
<1>1. rep[r] \in Loops /\ rep \in [Replicas -> Loops] /\ rep[r].next + 1 \in Nat
  BY DEF TypeOK, Loops
<1>2. PICK y : y = [rep[r] EXCEPT !.pc = "handle", !.next = rep[r].next + 1]
  OBVIOUS
<1>3. /\ y \in Loops /\ y.pc = "handle" /\ y.offset = rep[r].offset
      /\ y.next = rep[r].next + 1 /\ y.position = rep[r].position
  BY <1>1, <1>2 DEF Loops
<1>4. rep' = [rep EXCEPT ![r] = y]
  BY <1>1, <1>2 DEF Notify
<1>5. rep' \in [Replicas -> Loops] /\ rep'[r] = y /\ Only(r)
  BY <1>3, <1>4, AtLoop
<1> QED BY <1>3, <1>5 DEF Moves, Notify

LEMMA FailDoes ==
  ASSUME TypeOK, NEW r \in Replicas, HandlerFails(r)
  PROVE  /\ Moves(r, {"handle", "tx"}, "handle", 1)
         /\ rep[r].pc = "handle" => rep[r].next <= rep[r].position
         /\ failures' = failures + 1 /\ failures' \in 0..MaxFailures
         /\ UNCHANGED <<topic, ledger, applied, crashes>>
<1>1. rep[r] \in Loops /\ rep \in [Replicas -> Loops] /\ rep[r].next + 1 \in Nat
  BY DEF TypeOK, Loops
<1>2. PICK y : y = [rep[r] EXCEPT !.pc = "handle", !.next = rep[r].next + 1,
                                  !.failed = TRUE]
  OBVIOUS
<1>3. /\ y \in Loops /\ y.pc = "handle" /\ y.offset = rep[r].offset
      /\ y.next = rep[r].next + 1 /\ y.position = rep[r].position
  BY <1>1, <1>2 DEF Loops
<1>4. rep' = [rep EXCEPT ![r] = y]
  BY <1>1, <1>2 DEF HandlerFails
<1>5. rep' \in [Replicas -> Loops] /\ rep'[r] = y /\ Only(r)
  BY <1>3, <1>4, AtLoop
<1>6. failures' = failures + 1 /\ failures' \in 0..MaxFailures
  BY ConsumerAssumption DEF HandlerFails, TypeOK
<1> QED BY <1>3, <1>5, <1>6 DEF Moves, HandlerFails, Handling

LEMMA EndBatchDoes ==
  ASSUME TypeOK, NEW r \in Replicas, EndBatch(r)
  PROVE  /\ rep' \in [Replicas -> Loops] /\ Only(r)
         /\ rep[r].next = rep[r].position + 1
         /\ rep'[r].pc = "poll" /\ rep'[r].next = rep[r].next
         /\ rep'[r].position = rep[r].position
         /\ rep'[r].offset <= rep[r].position
         /\ UNCHANGED <<topic, ledger, applied, failures, crashes>>
<1> DEFINE o == IF rep[r].failed THEN rep[r].offset ELSE rep[r].position
<1>1. /\ rep[r] \in Loops /\ rep \in [Replicas -> Loops]
      /\ o \in Nat /\ o <= rep[r].position
  BY LoopTypes DEF TypeOK
<1>2. PICK y : y = [rep[r] EXCEPT !.pc = "poll", !.offset = o]
  OBVIOUS
<1>3. rep' = [rep EXCEPT ![r] = y]
  BY <1>1, <1>2 DEF EndBatch
<1> HIDE DEF o
<1>4. /\ y \in Loops /\ y.pc = "poll" /\ y.offset = o
      /\ y.next = rep[r].next /\ y.position = rep[r].position
  BY <1>1, <1>2 DEF Loops
<1>5. rep' \in [Replicas -> Loops] /\ rep'[r] = y /\ Only(r)
  BY <1>3, <1>4, AtLoop
<1>6. rep[r].next = rep[r].position + 1
  BY LoopTypes DEF EndBatch
<1> QED BY <1>1, <1>4, <1>5, <1>6 DEF EndBatch

LEMMA RejoinDoes ==
  ASSUME TypeOK, NEW r \in Replicas, Rejoin(r)
  PROVE  /\ rep' \in [Replicas -> Loops] /\ Only(r)
         /\ rep[r].pc = "poll" /\ rep'[r].pc = "poll"
         /\ rep'[r].position = rep[r].offset /\ rep'[r].next = rep[r].offset + 1
         /\ rep'[r].offset = rep[r].offset
         /\ crashes' \in 0..MaxCrashes
         /\ UNCHANGED <<topic, ledger, applied, failures>>
<1>1. /\ rep[r] \in Loops /\ rep \in [Replicas -> Loops]
      /\ rep[r].offset \in Nat /\ rep[r].offset + 1 \in Nat
  BY DEF TypeOK, Loops
<1>2. PICK y : y = [rep[r] EXCEPT !.position = rep[r].offset,
                                  !.next = rep[r].offset + 1]
  OBVIOUS
<1>3. /\ y \in Loops /\ y.pc = rep[r].pc /\ y.offset = rep[r].offset
      /\ y.next = rep[r].offset + 1 /\ y.position = rep[r].offset
  BY <1>1, <1>2 DEF Loops
<1>4. rep' = [rep EXCEPT ![r] = y]
  BY <1>1, <1>2 DEF Rejoin
<1>5. rep' \in [Replicas -> Loops] /\ rep'[r] = y /\ Only(r)
  BY <1>3, <1>4, AtLoop
<1>6. crashes' \in 0..MaxCrashes
  BY ConsumerAssumption DEF Rejoin, TypeOK
<1> QED BY <1>3, <1>5, <1>6 DEF Rejoin

LEMMA RestartDoes ==
  ASSUME TypeOK, NEW r \in Replicas, Restart(r)
  PROVE  /\ rep' \in [Replicas -> Loops] /\ Only(r)
         /\ rep'[r].pc = "poll" /\ rep'[r].position = 0 /\ rep'[r].next = 1
         /\ rep'[r].offset = 0
         /\ crashes' \in 0..MaxCrashes
         /\ UNCHANGED <<topic, ledger, applied, failures>>
<1>1. FreshLoop \in Loops /\ FreshLoop.pc = "poll" /\ FreshLoop.position = 0
      /\ FreshLoop.next = 1 /\ FreshLoop.offset = 0
  BY DEF FreshLoop, Loops
<1>2. rep' \in [Replicas -> Loops] /\ rep'[r] = FreshLoop /\ Only(r)
  BY <1>1, AtLoop DEF Restart
<1>3. crashes' \in 0..MaxCrashes
  BY ConsumerAssumption DEF Restart, TypeOK
<1> QED BY <1>1, <1>2, <1>3 DEF Restart

-----------------------------------------------------------------------------
(***************************************************************************)
(* Transactions                                                            *)
(***************************************************************************)
LEMMA InHandType ==
  ASSUME TxInv, NEW r \in Replicas, rep[r].next <= rep[r].position
  PROVE  /\ InHand(r) \in Assessments
         /\ rep[r].next \in 1..Len(topic)
         /\ LedgerKey(r) = <<InHand(r), "claims-api-readmodel">>
<1>1. rep[r].next \in 1..Len(topic) /\ topic \in Seq(Assessments)
  BY LoopTypes DEF TxInv, LoopOK, TypeOK
<1> QED BY <1>1 DEF InHand, LedgerKey, SHARED_GROUP

\* A step of one loop that neither opens nor commits a transaction.
LEMMA LoopStep ==
  ASSUME TxInv, NEW r \in Replicas,
         rep' \in [Replicas -> Loops], Only(r), rep'[r].pc # "tx",
         rep'[r].offset <= rep'[r].position, rep'[r].position <= Len(topic),
         rep'[r].next <= rep'[r].position + 1, LoopOK(r)',
         failures' \in 0..MaxFailures, crashes' \in 0..MaxCrashes,
         UNCHANGED <<topic, ledger, applied>>
  PROVE  TxInv'
<1>1. TypeOK'
  <2>1. ASSUME NEW s \in Replicas
        PROVE  /\ rep'[s].offset <= rep'[s].position
               /\ rep'[s].position <= Len(topic)
               /\ rep'[s].next <= rep'[s].position + 1
    BY DEF Only, TxInv, TypeOK
  <2> QED BY <2>1 DEF TxInv, TypeOK
<1>2. \A s \in Replicas : LoopOK(s)'
  BY DEF Only, TxInv, LoopOK
<1>3. ASSUME NEW s \in Replicas, rep'[s].pc = "tx"
      PROVE  /\ s # r /\ rep[s].pc = "tx"
             /\ LedgerKey(s)' = LedgerKey(s) /\ InHand(s)' = InHand(s)
  BY <1>3 DEF Only, LedgerKey, InHand, SHARED_GROUP
<1>4. \A s \in Replicas : rep'[s].pc = "tx" => LedgerKey(s)' \notin ledger'
  BY <1>3 DEF TxInv
<1>5. \A s, t \in Replicas :
        rep'[s].pc = "tx" /\ rep'[t].pc = "tx" /\ s # t => InHand(s)' # InHand(t)'
  BY <1>3 DEF TxInv
<1>6. (\A a \in Assessments :
         <<a, "claims-api-readmodel">> \in ledger <=> IsApplied(a))'
  BY DEF TxInv, IsApplied
<1> QED BY <1>1, <1>2, <1>4, <1>5, <1>6 DEF TxInv

LEMMA InsertKeyDoes ==
  ASSUME TypeOK, NEW r \in Replicas, InsertKey(r)
  PROVE  /\ Moves(r, {"handle"}, "tx", 0)
         /\ rep[r].next <= rep[r].position /\ LedgerKey(r) \notin ledger
         /\ \A s \in Replicas : rep[s].pc = "tx" => LedgerKey(s) # LedgerKey(r)
         /\ UNCHANGED <<topic, ledger, applied, failures, crashes>>
<1>1. Moves(r, {rep[r].pc}, "tx", 0)
  BY PcDoes DEF InsertKey
<1>2. rep[r].pc = "handle" /\ rep[r].next <= rep[r].position
  BY DEF InsertKey, Handling
<1> QED BY <1>1, <1>2 DEF InsertKey, Seen

LEMMA CommitTxDoes ==
  ASSUME TypeOK, NEW r \in Replicas, CommitTx(r)
  PROVE  /\ Moves(r, {"tx"}, "notify", 0)
         /\ ledger' = ledger \cup {LedgerKey(r)}
         /\ applied' = Append(applied, InHand(r))
         /\ UNCHANGED <<topic, failures, crashes>>
<1>1. Moves(r, {rep[r].pc}, "notify", 0)
  BY PcDoes DEF CommitTx
<1> QED BY <1>1 DEF CommitTx

\* Opening a transaction or committing one: the message in hand stays.
LEMMA HandStays ==
  ASSUME TxInv, NEW r \in Replicas, NEW p \in {"handle", "tx"},
         NEW q \in {"tx", "notify"},
         Moves(r, {p}, q, 0), rep[r].next <= rep[r].position,
         topic' = topic,
         failures' = failures, crashes' = crashes,
         ledger' \subseteq Assessments \X {"claims-api-readmodel"},
         applied' \in Seq(Assessments)
  PROVE  /\ TypeOK' /\ \A s \in Replicas : LoopOK(s)'
         /\ \A s \in Replicas : /\ InHand(s)' = InHand(s)
                                /\ LedgerKey(s)' = LedgerKey(s)
                                /\ s # r => rep'[s].pc = rep[s].pc
         /\ rep'[r].pc = q
<1>1. \A s \in Replicas : /\ rep'[s].next = rep[s].next
                          /\ rep'[s].position = rep[s].position
                          /\ rep'[s].offset = rep[s].offset
                          /\ s # r => rep'[s].pc = rep[s].pc
  BY LoopTypes DEF Moves, Only, TxInv
<1>2. rep'[r].pc = q /\ rep' \in [Replicas -> Loops]
  BY DEF Moves
<1>3. TypeOK'
  BY <1>1, <1>2 DEF TxInv, TypeOK
<1>4. ASSUME NEW s \in Replicas PROVE LoopOK(s)'
  BY <1>1, <1>2 DEF TxInv, LoopOK
<1>5. \A s \in Replicas : InHand(s)' = InHand(s) /\ LedgerKey(s)' = LedgerKey(s)
  BY <1>1 DEF InHand, LedgerKey, SHARED_GROUP
<1> QED BY <1>1, <1>2, <1>3, <1>4, <1>5

LEMMA InitTx == Init => TxInv
<1> SUFFICES ASSUME Init PROVE TxInv
  OBVIOUS
<1>1. FreshLoop \in Loops
  BY DEF FreshLoop, Loops
<1>2. \A r \in Replicas : rep[r] = FreshLoop
  BY DEF Init
<1>3. TypeOK
  BY <1>1, <1>2, ConsumerAssumption DEF Init, TypeOK, FreshLoop
<1>4. \A r \in Replicas : LoopOK(r) /\ rep[r].pc # "tx"
  BY <1>2 DEF LoopOK, FreshLoop
<1>5. \A a \in Assessments : ~IsApplied(a)
  BY DEF Init, IsApplied
<1> QED BY <1>3, <1>4, <1>5 DEF TxInv, Init

LEMMA DeliverTx ==
  ASSUME TxInv, NEW a \in Assessments, Deliver(a)
  PROVE  TxInv'
<1>1. /\ topic \in Seq(Assessments) /\ topic' = Append(topic, a)
      /\ UNCHANGED <<ledger, applied, rep, failures, crashes>>
  BY DEF Deliver, TxInv, TypeOK
<1>2. /\ topic' \in Seq(Assessments) /\ Len(topic') = Len(topic) + 1
      /\ \A k \in 1..Len(topic) : topic'[k] = topic[k]
  BY <1>1
<1>3. TypeOK'
  BY <1>1, <1>2, LoopTypes DEF TxInv, TypeOK
<1>4. \A r \in Replicas : LoopOK(r)'
  BY <1>1 DEF TxInv, LoopOK
<1>5. ASSUME NEW r \in Replicas, rep[r].pc = "tx"
      PROVE  InHand(r)' = InHand(r) /\ LedgerKey(r)' = LedgerKey(r)
  <2>1. rep[r].next \in 1..Len(topic)
    BY <1>5, InHandType DEF TxInv, LoopOK
  <2> QED BY <1>1, <1>2, <2>1 DEF InHand, LedgerKey, SHARED_GROUP
<1>6. \A r \in Replicas : rep'[r].pc = "tx" => LedgerKey(r)' \notin ledger'
  BY <1>1, <1>5 DEF TxInv
<1>7. \A r, s \in Replicas :
        rep'[r].pc = "tx" /\ rep'[s].pc = "tx" /\ r # s => InHand(r)' # InHand(s)'
  BY <1>1, <1>5 DEF TxInv
<1>8. (\A b \in Assessments :
         <<b, "claims-api-readmodel">> \in ledger <=> IsApplied(b))'
  BY <1>1 DEF TxInv, IsApplied
<1> QED BY <1>3, <1>4, <1>6, <1>7, <1>8 DEF TxInv

LEMMA InsertKeyTx ==
  ASSUME TxInv, NEW r \in Replicas, InsertKey(r)
  PROVE  TxInv'
<1>1. TypeOK
  BY DEF TxInv
<1>2. /\ Moves(r, {"handle"}, "tx", 0)
      /\ rep[r].next <= rep[r].position /\ LedgerKey(r) \notin ledger
      /\ \A s \in Replicas : rep[s].pc = "tx" => LedgerKey(s) # LedgerKey(r)
      /\ UNCHANGED <<topic, ledger, applied, failures, crashes>>
  BY <1>1, InsertKeyDoes
<1>3. /\ ledger' \subseteq Assessments \X {"claims-api-readmodel"}
      /\ applied' \in Seq(Assessments)
  BY <1>1, <1>2 DEF TypeOK
<1>4. /\ TypeOK' /\ \A s \in Replicas : LoopOK(s)'
      /\ \A s \in Replicas : /\ InHand(s)' = InHand(s)
                             /\ LedgerKey(s)' = LedgerKey(s)
                             /\ s # r => rep'[s].pc = rep[s].pc
      /\ rep'[r].pc = "tx"
  BY <1>2, <1>3, HandStays
<1>5. \A s \in Replicas : rep'[s].pc = "tx" => LedgerKey(s)' \notin ledger'
  BY <1>2, <1>4 DEF TxInv
<1>6. ASSUME NEW s \in Replicas, rep[s].pc = "tx" PROVE InHand(s) # InHand(r)
  BY <1>2, <1>6 DEF LedgerKey, SHARED_GROUP
<1>7. ASSUME NEW s \in Replicas, NEW t \in Replicas, s # t,
             rep'[s].pc = "tx", rep'[t].pc = "tx"
      PROVE  InHand(s)' # InHand(t)'
  <2>1. CASE s = r
    BY <1>4, <1>6, <1>7, <2>1
  <2>2. CASE t = r
    BY <1>4, <1>6, <1>7, <2>2
  <2>3. CASE s # r /\ t # r
    BY <1>4, <1>7, <2>3 DEF TxInv
  <2> QED BY <2>1, <2>2, <2>3
<1>8. (\A b \in Assessments :
         <<b, "claims-api-readmodel">> \in ledger <=> IsApplied(b))'
  BY <1>2 DEF TxInv, IsApplied
<1> QED BY <1>4, <1>5, <1>7, <1>8 DEF TxInv

LEMMA CommitTxTx ==
  ASSUME TxInv, NEW r \in Replicas, CommitTx(r)
  PROVE  /\ TxInv'
         /\ InHand(r) \in Assessments /\ ~IsApplied(InHand(r))
         /\ rep[r].next \in 1..Len(topic)
         /\ \A b \in Assessments : IsApplied(b)' <=> IsApplied(b) \/ b = InHand(r)
<1>1. TypeOK
  BY DEF TxInv
<1>2. /\ Moves(r, {"tx"}, "notify", 0)
      /\ ledger' = ledger \cup {LedgerKey(r)}
      /\ applied' = Append(applied, InHand(r))
      /\ UNCHANGED <<topic, failures, crashes>>
  BY <1>1, CommitTxDoes
<1>3. rep[r].pc = "tx" /\ rep[r].next <= rep[r].position
  BY <1>2 DEF Moves, TxInv, LoopOK
<1>4. /\ InHand(r) \in Assessments /\ rep[r].next \in 1..Len(topic)
      /\ LedgerKey(r) = <<InHand(r), "claims-api-readmodel">>
  BY <1>3, InHandType
<1>5. /\ ledger' \subseteq Assessments \X {"claims-api-readmodel"}
      /\ applied' \in Seq(Assessments)
  BY <1>1, <1>2, <1>4 DEF TypeOK
<1>6. /\ TypeOK' /\ \A s \in Replicas : LoopOK(s)'
      /\ \A s \in Replicas : /\ InHand(s)' = InHand(s)
                             /\ LedgerKey(s)' = LedgerKey(s)
                             /\ s # r => rep'[s].pc = rep[s].pc
      /\ rep'[r].pc = "notify"
  BY <1>2, <1>3, <1>5, HandStays
<1>7. ASSUME NEW s \in Replicas, rep'[s].pc = "tx"
      PROVE  s # r /\ rep[s].pc = "tx" /\ InHand(s) # InHand(r)
  BY <1>3, <1>6, <1>7 DEF TxInv
<1>8. \A s \in Replicas : rep'[s].pc = "tx" => LedgerKey(s)' \notin ledger'
  <2> SUFFICES ASSUME NEW s \in Replicas, rep'[s].pc = "tx"
               PROVE  LedgerKey(s)' \notin ledger'
    OBVIOUS
  <2>1. LedgerKey(s) \notin ledger /\ LedgerKey(s) # LedgerKey(r)
    BY <1>7 DEF TxInv, LedgerKey, SHARED_GROUP
  <2> QED BY <1>2, <1>6, <2>1
<1>9. \A s, t \in Replicas :
        rep'[s].pc = "tx" /\ rep'[t].pc = "tx" /\ s # t => InHand(s)' # InHand(t)'
  BY <1>6, <1>7 DEF TxInv
<1>10. ASSUME NEW b \in Assessments
       PROVE  IsApplied(b)' <=> IsApplied(b) \/ b = InHand(r)
  <2>1. applied \in Seq(Assessments)
    BY <1>1 DEF TypeOK
  <2>2. /\ DOMAIN applied' = 1..Len(applied) + 1 /\ Len(applied) \in Nat
        /\ DOMAIN applied = 1..Len(applied)
        /\ applied'[Len(applied) + 1] = InHand(r)
        /\ \A i \in 1..Len(applied) : applied'[i] = applied[i]
    BY <1>2, <1>4, <2>1
  <2> QED BY <2>2 DEF IsApplied
<1>11. ~IsApplied(InHand(r))
  BY <1>3, <1>4 DEF TxInv
<1>12. \A b \in Assessments :
         <<b, "claims-api-readmodel">> \in ledger' <=> IsApplied(b)'
  <2> SUFFICES ASSUME NEW b \in Assessments
               PROVE  <<b, "claims-api-readmodel">> \in ledger' <=> IsApplied(b)'
    OBVIOUS
  <2>1. <<b, "claims-api-readmodel">> \in ledger' <=>
          <<b, "claims-api-readmodel">> \in ledger \/ b = InHand(r)
    BY <1>2, <1>4
  <2>2. <<b, "claims-api-readmodel">> \in ledger <=> IsApplied(b)
    BY DEF TxInv
  <2>3. IsApplied(b)' <=> IsApplied(b) \/ b = InHand(r)
    BY <1>10
  <2> QED BY <2>1, <2>2, <2>3
<1>13. TxInv'
  BY <1>6, <1>8, <1>9, <1>12 DEF TxInv
<1> QED BY <1>4, <1>10, <1>11, <1>13

LEMMA NextTx == TxInv /\ [Next]_vars => TxInv'
<1> SUFFICES ASSUME TxInv, [Next]_vars PROVE TxInv'
  OBVIOUS
<1>1. TypeOK /\ \A r \in Replicas : LoopOK(r)
  BY DEF TxInv
<1>2. failures \in 0..MaxFailures /\ crashes \in 0..MaxCrashes
  BY <1>1 DEF TypeOK
<1>3. ASSUME NEW r \in Replicas, Fetch(r) PROVE TxInv'
  <2>1. /\ rep' \in [Replicas -> Loops] /\ Only(r)
        /\ rep[r].pc = "poll" /\ rep'[r].pc = "handle"
        /\ rep'[r].offset = rep[r].offset
        /\ rep'[r].next = rep[r].position + 1
        /\ rep'[r].position > rep[r].position /\ rep'[r].position <= Len(topic)
        /\ UNCHANGED <<topic, ledger, applied, failures, crashes>>
    BY <1>1, <1>3, FetchDoes
  <2>2. rep'[r].position \in Nat
    BY <2>1 DEF Loops
  <2>3. /\ rep'[r].offset <= rep'[r].position
        /\ rep'[r].next <= rep'[r].position + 1 /\ rep'[r].next >= 1
    BY <1>1, <2>1, <2>2, LoopTypes
  <2> QED BY <1>2, <2>1, <2>3, LoopStep DEF LoopOK
<1>4. ASSUME NEW r \in Replicas, Moves(r, {"handle", "tx", "notify"}, "handle", 1),
             rep[r].next <= rep[r].position,
             failures' \in 0..MaxFailures, crashes' \in 0..MaxCrashes,
             UNCHANGED <<topic, ledger, applied>>
      PROVE  TxInv'
  <2>1. /\ rep' \in [Replicas -> Loops] /\ Only(r) /\ rep'[r].pc = "handle"
        /\ rep'[r].offset = rep[r].offset /\ rep'[r].position = rep[r].position
        /\ rep'[r].next = rep[r].next + 1
    BY <1>4 DEF Moves
  <2>2. /\ rep'[r].offset <= rep'[r].position /\ rep'[r].position <= Len(topic)
        /\ rep'[r].next <= rep'[r].position + 1 /\ rep'[r].next >= 1
    BY <1>1, <1>4, <2>1, LoopTypes
  <2> QED BY <1>4, <2>1, <2>2, LoopStep DEF LoopOK
<1>5. ASSUME NEW r \in Replicas, SkipDuplicate(r) PROVE TxInv'
  BY <1>1, <1>2, <1>4, <1>5, SkipDoes DEF Moves
<1>6. ASSUME NEW r \in Replicas, Notify(r) PROVE TxInv'
  BY <1>1, <1>2, <1>4, <1>6, NotifyDoes DEF Moves, LoopOK
<1>7. ASSUME NEW r \in Replicas, HandlerFails(r) PROVE TxInv'
  BY <1>1, <1>2, <1>4, <1>7, FailDoes DEF Moves, LoopOK
<1>8. ASSUME NEW r \in Replicas, EndBatch(r) PROVE TxInv'
  <2>1. /\ rep' \in [Replicas -> Loops] /\ Only(r)
        /\ rep[r].next = rep[r].position + 1
        /\ rep'[r].pc = "poll" /\ rep'[r].next = rep[r].next
        /\ rep'[r].position = rep[r].position
        /\ rep'[r].offset <= rep[r].position
        /\ UNCHANGED <<topic, ledger, applied, failures, crashes>>
    BY <1>1, <1>8, EndBatchDoes
  <2>2. /\ rep'[r].offset <= rep'[r].position /\ rep'[r].position <= Len(topic)
        /\ rep'[r].next <= rep'[r].position + 1 /\ rep'[r].next >= 1
    BY <1>1, <2>1, LoopTypes
  <2> QED BY <1>2, <2>1, <2>2, LoopStep DEF LoopOK
<1>9. ASSUME NEW r \in Replicas, Rejoin(r) PROVE TxInv'
  <2>1. /\ rep' \in [Replicas -> Loops] /\ Only(r)
        /\ rep[r].pc = "poll" /\ rep'[r].pc = "poll"
        /\ rep'[r].position = rep[r].offset /\ rep'[r].next = rep[r].offset + 1
        /\ rep'[r].offset = rep[r].offset
        /\ crashes' \in 0..MaxCrashes
        /\ UNCHANGED <<topic, ledger, applied, failures>>
    BY <1>1, <1>9, RejoinDoes
  <2>2. /\ rep'[r].offset <= rep'[r].position /\ rep'[r].position <= Len(topic)
        /\ rep'[r].next <= rep'[r].position + 1 /\ rep'[r].next >= 1
    BY <1>1, <2>1, LoopTypes
  <2> QED BY <1>2, <2>1, <2>2, LoopStep DEF LoopOK
<1>10. ASSUME NEW r \in Replicas, Restart(r) PROVE TxInv'
  <2>1. /\ rep' \in [Replicas -> Loops] /\ Only(r)
        /\ rep'[r].pc = "poll" /\ rep'[r].position = 0 /\ rep'[r].next = 1
        /\ rep'[r].offset = 0
        /\ crashes' \in 0..MaxCrashes
        /\ UNCHANGED <<topic, ledger, applied, failures>>
    BY <1>1, <1>10, RestartDoes
  <2>2. /\ rep'[r].offset <= rep'[r].position /\ rep'[r].position <= Len(topic)
        /\ rep'[r].next <= rep'[r].position + 1 /\ rep'[r].next >= 1
    BY <1>1, <2>1, LoopTypes
  <2> QED BY <1>2, <2>1, <2>2, LoopStep DEF LoopOK
<1>11. CASE UNCHANGED vars
  BY <1>11 DEF vars, TxInv, TypeOK, LoopOK, LedgerKey, InHand, SHARED_GROUP, IsApplied
<1> QED BY <1>3, <1>5, <1>6, <1>7, <1>8, <1>9, <1>10, <1>11,
           DeliverTx, InsertKeyTx, CommitTxTx DEF Next

LEMMA TxSound == Spec => []TxInv
BY InitTx, NextTx, PTL DEF Spec

\* The types hold: a loop never runs past the topic, and its offset never
\* past its position.
THEOREM TypeCorrect == Spec => []TypeOK
<1>1. TxInv => TypeOK
  BY DEF TxInv
<1> QED BY <1>1, TxSound, PTL

-----------------------------------------------------------------------------
(***************************************************************************)
(* Once each                                                               *)
(***************************************************************************)
LEMMA PublishedGrows ==
  ASSUME TypeOK, NEW a \in Assessments, Deliver(a)
  PROVE  Published' = Published \cup {a}
<1>1. /\ topic \in Seq(Assessments) /\ topic' = Append(topic, a)
  BY DEF Deliver, TypeOK
<1>2. /\ DOMAIN topic = 1..Len(topic) /\ DOMAIN topic' = 1..Len(topic) + 1
      /\ Len(topic) \in Nat /\ topic'[Len(topic) + 1] = a
      /\ \A k \in 1..Len(topic) : topic'[k] = topic[k]
  BY <1>1
<1> QED BY <1>2 DEF Published

\* Nothing but a delivery shows on the topic, nothing but a commit among the
\* effects, and a transaction that commits has found no earlier effect.
LEMMA OnceStep == TxInv /\ [Next]_vars => [Once!OnceNext]_(Once!onceVars)
<1> SUFFICES ASSUME TxInv, [Next]_vars
             PROVE  Once!OnceNext \/ UNCHANGED <<Published, applied>>
  BY DEF Once!onceVars
<1>1. TypeOK
  BY DEF TxInv
<1>2. ASSUME NEW a \in Assessments, Deliver(a) PROVE Once!OnceNext
  <2>1. Published' = Published \cup {a} /\ UNCHANGED applied
    BY <1>1, <1>2, PublishedGrows DEF Deliver
  <2> QED BY <2>1 DEF Once!OnceNext, Once!Publish
<1>3. ASSUME NEW r \in Replicas, CommitTx(r) PROVE Once!OnceNext
  <2>1. InHand(r) \in Assessments /\ ~IsApplied(InHand(r))
        /\ rep[r].next \in 1..Len(topic)
    BY <1>3, CommitTxTx
  <2>2. InHand(r) \in Published
    BY <1>1, <2>1 DEF Published, InHand, TypeOK
  <2>3. \A i \in DOMAIN applied : applied[i] # InHand(r)
    BY <2>1 DEF IsApplied
  <2>4. applied' = Append(applied, InHand(r)) /\ UNCHANGED Published
    BY <1>3 DEF CommitTx, Published
  <2>5. Once!Apply(InHand(r))
    BY <2>2, <2>3, <2>4 DEF Once!Apply
  <2> QED BY <2>1, <2>5 DEF Once!OnceNext
<1>4. ASSUME UNCHANGED <<topic, applied>> PROVE UNCHANGED <<Published, applied>>
  BY <1>4 DEF Published
<1>5. ASSUME NEW r \in Replicas,
             \/ Fetch(r) \/ SkipDuplicate(r) \/ InsertKey(r) \/ Notify(r)
             \/ HandlerFails(r) \/ EndBatch(r) \/ Restart(r) \/ Rejoin(r)
      PROVE  UNCHANGED <<topic, applied>>
  BY <1>5 DEF Fetch, SkipDuplicate, InsertKey, Notify, HandlerFails, EndBatch,
              Restart, Rejoin
<1>6. CASE UNCHANGED vars
  BY <1>4, <1>6 DEF vars
<1> QED BY <1>2, <1>3, <1>4, <1>5, <1>6 DEF Next

\* An assessment has its effect on the claim at most once and only after it
\* was published, whatever the replicas, duplicates, failures and restarts.
THEOREM OnceEachKept == Spec => ImplementsOnceEach
<1>1. Init => Once!OnceInit
  BY DEF Init, Once!OnceInit, Published
<1> QED BY <1>1, OnceStep, TxSound, PTL
        DEF Spec, ImplementsOnceEach, Once!OnceSpec

-----------------------------------------------------------------------------
(***************************************************************************)
(* The order                                                               *)
(***************************************************************************)
\* How many messages of the topic the loop of r is through with.
Through(r) == IF rep[r].pc = "notify" THEN rep[r].next ELSE rep[r].next - 1

ReadIsApplied ==
  \A r \in Replicas : \A k \in 1..Through(r) : IsApplied(topic[k])

\* Where an applied assessment stands on the topic, all before it is applied.
AppliedInLine ==
  \A j \in DOMAIN applied : \E i \in DOMAIN topic :
    topic[i] = applied[j] /\ \A k \in 1..(i - 1) : IsApplied(topic[k])

SeenInv ==
  /\ failures = 0 => ReadIsApplied /\ AppliedInLine
  /\ AppliedInOrder

\* What TLAPS needs to know of the two sequences.
LEMMA SeqTypes ==
  ASSUME TypeOK
  PROVE  /\ topic \in Seq(Assessments) /\ applied \in Seq(Assessments)
         /\ DOMAIN topic = 1..Len(topic) /\ Len(topic) \in Nat
         /\ DOMAIN applied = 1..Len(applied) /\ Len(applied) \in Nat
         /\ \A i \in 1..Len(topic) : topic[i] \in Assessments
         /\ \A i \in 1..Len(applied) : applied[i] \in Assessments
BY DEF TypeOK

\* A step of one loop alone.
LEMMA LoopSees ==
  ASSUME SeenInv, NEW r \in Replicas, Only(r),
         failures = 0 => \A k \in 1..Through(r)' : IsApplied(topic[k]),
         UNCHANGED <<topic, applied, failures>>
  PROVE  SeenInv'
<1>1. \A a : IsApplied(a)' <=> IsApplied(a)
  BY DEF IsApplied
<1>2. AppliedInOrder'
  BY DEF SeenInv, AppliedInOrder, PublishedBefore
<1>3. ASSUME failures = 0 PROVE AppliedInLine'
  BY <1>3 DEF SeenInv, AppliedInLine, IsApplied
<1>4. ASSUME failures = 0, NEW s \in Replicas, NEW k \in 1..Through(s)'
      PROVE  IsApplied(topic[k])
  <2>1. CASE s = r
    BY <1>4, <2>1
  <2>2. CASE s # r
    <3>1. Through(s)' = Through(s)
      BY <2>2 DEF Only, Through
    <3> QED BY <1>4, <3>1 DEF SeenInv, ReadIsApplied
  <2> QED BY <2>1, <2>2
<1>5. ASSUME failures = 0 PROVE ReadIsApplied'
  BY <1>4, <1>5 DEF ReadIsApplied, IsApplied
<1> QED BY <1>2, <1>3, <1>5 DEF SeenInv

LEMMA DeliverSees ==
  ASSUME TxInv, SeenInv, NEW a \in Assessments, Deliver(a)
  PROVE  SeenInv'
<1>1. TypeOK
  BY DEF TxInv
<1>2. topic' = Append(topic, a) /\ UNCHANGED <<applied, rep, failures>>
  BY DEF Deliver
<1>3. /\ DOMAIN topic' = 1..Len(topic) + 1
      /\ \A k \in 1..Len(topic) : topic'[k] = topic[k]
  BY <1>1, <1>2, SeqTypes
<1>4. ASSUME NEW b, NEW c, PublishedBefore(b, c) PROVE PublishedBefore(b, c)'
  <2>1. PICK i \in DOMAIN topic :
          topic[i] = b /\ \A j \in DOMAIN topic : topic[j] = c => i < j
    BY <1>4 DEF PublishedBefore
  <2>2. i \in DOMAIN topic' /\ topic'[i] = b
    BY <1>1, <1>3, <2>1, SeqTypes
  <2>3. ASSUME NEW j \in DOMAIN topic', topic'[j] = c PROVE i < j
    <3>1. CASE j \in 1..Len(topic)
      BY <1>1, <1>3, <2>1, <2>3, <3>1, SeqTypes
    <3>2. CASE j = Len(topic) + 1
      BY <1>1, <2>1, <3>2, SeqTypes
    <3> QED BY <1>1, <1>3, <3>1, <3>2, SeqTypes
  <2> QED BY <2>2, <2>3 DEF PublishedBefore
<1>5. AppliedInOrder'
  BY <1>2, <1>4 DEF SeenInv, AppliedInOrder
<1>6. \A b : IsApplied(b)' <=> IsApplied(b)
  BY <1>2 DEF IsApplied
<1>7. ASSUME failures = 0, NEW r \in Replicas, NEW k \in 1..Through(r)'
      PROVE  IsApplied(topic'[k])
  <2>1. Through(r)' = Through(r) /\ IsApplied(topic[k])
    BY <1>2, <1>7 DEF SeenInv, ReadIsApplied, Through
  <2>2. Through(r) <= Len(topic) /\ Through(r) \in Int
    BY <1>1, LoopTypes DEF Through, TxInv, LoopOK
  <2> QED BY <1>1, <1>3, <1>7, <2>1, <2>2, SeqTypes
<1>8. ASSUME failures = 0 PROVE ReadIsApplied'
  BY <1>2, <1>7, <1>8 DEF ReadIsApplied, IsApplied
<1>9. ASSUME failures = 0, NEW j \in DOMAIN applied
      PROVE  \E i \in DOMAIN topic' :
               topic'[i] = applied[j] /\ \A k \in 1..(i - 1) : IsApplied(topic'[k])
  <2>1. PICK i \in DOMAIN topic :
          topic[i] = applied[j] /\ \A k \in 1..(i - 1) : IsApplied(topic[k])
    BY <1>9 DEF SeenInv, AppliedInLine
  <2>2. i \in DOMAIN topic' /\ topic'[i] = applied[j]
    BY <1>1, <1>3, <2>1, SeqTypes
  <2>3. ASSUME NEW k \in 1..(i - 1) PROVE IsApplied(topic'[k])
    BY <1>1, <1>3, <2>1, SeqTypes
  <2> QED BY <2>2, <2>3
<1>10. ASSUME failures = 0 PROVE AppliedInLine'
  BY <1>2, <1>9, <1>10 DEF AppliedInLine, IsApplied
<1> QED BY <1>2, <1>5, <1>8, <1>10 DEF SeenInv

\* The commit: the event in hand was not applied, all before it are.
LEMMA CommitSees ==
  ASSUME TxInv, SeenInv, NEW r \in Replicas, CommitTx(r)
  PROVE  SeenInv'
<1> DEFINE b == InHand(r)
           n == rep[r].next
           m == Len(applied) + 1
<1>1. TypeOK
  BY DEF TxInv
<1>2. /\ Moves(r, {"tx"}, "notify", 0)
      /\ applied' = Append(applied, b) /\ UNCHANGED <<topic, failures>>
  BY <1>1, CommitTxDoes
<1>3. /\ b \in Assessments /\ ~IsApplied(b) /\ n \in 1..Len(topic) /\ topic[n] = b
      /\ \A c \in Assessments : IsApplied(c)' <=> IsApplied(c) \/ c = b
  BY CommitTxTx DEF InHand
<1>4. /\ DOMAIN applied' = 1..m /\ applied'[m] = b /\ m \in Nat
      /\ \A j \in 1..Len(applied) : applied'[j] = applied[j]
  BY <1>1, <1>2, <1>3, SeqTypes
<1>5. rep[r].pc = "tx" /\ rep'[r].pc = "notify" /\ rep'[r].next = n
  BY <1>2, <1>3 DEF Moves
<1> HIDE DEF b, n, m
<1>6. ASSUME NEW k \in 1..Len(topic), IsApplied(topic[k])
      PROVE  IsApplied(topic[k])'
  BY <1>1, <1>2, <1>3, <1>6, SeqTypes DEF IsApplied
<1>7. ASSUME failures = 0, NEW s \in Replicas, NEW k \in 1..Through(s)'
      PROVE  IsApplied(topic[k])'
  <2>1. CASE s = r /\ k = n
    BY <1>2, <1>3, <1>4, <2>1 DEF IsApplied
  <2>2. CASE s = r /\ k # n
    <3>1. k \in 1..(n - 1) /\ k \in 1..Len(topic)
      BY <1>1, <1>3, <1>5, <1>7, <2>2, SeqTypes DEF Through
    <3>2. Through(r) = n - 1
      BY <1>5 DEF Through, n
    <3>3. IsApplied(topic[k])
      BY <1>7, <3>1, <3>2 DEF SeenInv, ReadIsApplied
    <3> QED BY <1>6, <3>1, <3>3
  <2>3. CASE s # r
    <3>1. Through(s)' = Through(s)
      BY <1>2, <2>3 DEF Moves, Only, Through
    <3>2. Through(s) <= Len(topic) /\ Through(s) \in Int
      BY <1>1, LoopTypes DEF Through, TxInv, LoopOK
    <3>3. IsApplied(topic[k]) /\ k \in 1..Len(topic)
      BY <1>1, <1>7, <3>1, <3>2, SeqTypes DEF SeenInv, ReadIsApplied
    <3> QED BY <1>6, <3>3
  <2> QED BY <2>1, <2>2, <2>3
<1>8. ASSUME failures = 0 PROVE ReadIsApplied'
  BY <1>7, <1>8 DEF ReadIsApplied
<1>9. ASSUME failures = 0, NEW j \in DOMAIN applied'
      PROVE  \E i \in DOMAIN topic :
               topic[i] = applied'[j] /\ \A k \in 1..(i - 1) : IsApplied(topic[k])'
  <2>1. CASE j = m
    <3>1. Through(r) = n - 1
      BY <1>5 DEF Through, n
    <3>2. ASSUME NEW k \in 1..(n - 1) PROVE IsApplied(topic[k])'
      <4>1. IsApplied(topic[k])
        BY <1>9, <3>1 DEF SeenInv, ReadIsApplied
      <4>2. k \in 1..Len(topic)
        BY <1>1, <1>3, SeqTypes
      <4> QED BY <1>6, <4>1, <4>2
    <3> QED BY <1>1, <1>3, <1>4, <2>1, <3>2, SeqTypes
  <2>2. CASE j # m
    <3>1. j \in 1..Len(applied)
      BY <1>1, <1>4, <1>9, <2>2, SeqTypes DEF m
    <3>2. PICK i \in DOMAIN topic :
            topic[i] = applied[j] /\ \A k \in 1..(i - 1) : IsApplied(topic[k])
      BY <1>1, <1>9, <3>1, SeqTypes DEF SeenInv, AppliedInLine
    <3>3. ASSUME NEW k \in 1..(i - 1) PROVE IsApplied(topic[k])'
      <4>1. k \in 1..Len(topic)
        BY <1>1, <3>2, SeqTypes
      <4> QED BY <1>6, <3>2, <4>1
    <3> QED BY <1>4, <3>1, <3>2, <3>3
  <2> QED BY <2>1, <2>2
<1>10. ASSUME failures = 0 PROVE AppliedInLine'
  BY <1>2, <1>9, <1>10 DEF AppliedInLine
<1>11. ASSUME failures = 0, NEW j \in 1..Len(applied) PROVE PublishedBefore(applied[j], b)
  <2>1. PICK i \in DOMAIN topic :
          topic[i] = applied[j] /\ \A k \in 1..(i - 1) : IsApplied(topic[k])
    BY <1>1, <1>11, SeqTypes DEF SeenInv, AppliedInLine
  <2>2. IsApplied(applied[j])
    BY <1>1, <1>11, SeqTypes DEF IsApplied
  <2>3. ASSUME NEW q \in DOMAIN topic, topic[q] = b PROVE i < q
    <3>1. q # i
      BY <1>3, <2>1, <2>2, <2>3
    <3>2. q \notin 1..(i - 1)
      BY <1>3, <2>1, <2>3
    <3> QED BY <1>1, <3>1, <3>2, SeqTypes
  <2> QED BY <2>1, <2>3 DEF PublishedBefore
<1>12. ASSUME failures = 0, NEW i \in 1..m, NEW j \in 1..m, i < j
       PROVE  PublishedBefore(applied'[i], applied'[j])
  <2>1. i \in 1..Len(applied) /\ applied'[i] = applied[i]
    BY <1>1, <1>4, <1>12, SeqTypes DEF m
  <2>2. CASE j = m
    BY <1>4, <1>11, <1>12, <2>1, <2>2
  <2>3. CASE j # m
    <3>1. j \in 1..Len(applied) /\ applied'[j] = applied[j]
      BY <1>1, <1>4, <1>12, <2>3, SeqTypes DEF m
    <3>2. PublishedBefore(applied[i], applied[j])
      BY <1>1, <1>12, <2>1, <3>1, SeqTypes DEF SeenInv, AppliedInOrder
    <3> QED BY <2>1, <3>1, <3>2
  <2> QED BY <2>2, <2>3
<1>13. AppliedInOrder'
  BY <1>2, <1>4, <1>12 DEF AppliedInOrder, PublishedBefore
<1> QED BY <1>2, <1>8, <1>10, <1>13 DEF SeenInv

LEMMA InitSees == Init => SeenInv
<1> SUFFICES ASSUME Init PROVE SeenInv
  OBVIOUS
<1>1. \A r \in Replicas : Through(r) = 0
  BY DEF Init, Through, FreshLoop
<1>2. DOMAIN applied = {}
  BY DEF Init
<1> QED BY <1>1, <1>2 DEF SeenInv, ReadIsApplied, AppliedInLine, AppliedInOrder

LEMMA NextSees == TxInv /\ SeenInv /\ [Next]_vars => SeenInv'
<1> SUFFICES ASSUME TxInv, SeenInv, [Next]_vars PROVE SeenInv'
  OBVIOUS
<1>1. TypeOK /\ \A r \in Replicas : LoopOK(r)
  BY DEF TxInv
<1>2. ASSUME NEW r \in Replicas, failures = 0
      PROVE  /\ \A k \in 1..Through(r) : IsApplied(topic[k])
             /\ rep[r].next \in Nat /\ rep[r].next >= 1
  BY <1>1, <1>2, LoopTypes DEF SeenInv, ReadIsApplied, LoopOK
\* The loop has come no further.
<1>3. ASSUME NEW r \in Replicas, Only(r), Through(r)' <= Through(r),
             Through(r)' \in Int, UNCHANGED <<topic, applied, failures>>
      PROVE  SeenInv'
  <2>1. Through(r) \in Int
    BY <1>1, LoopTypes DEF Through
  <2>2. failures = 0 => \A k \in 1..Through(r)' : IsApplied(topic[k])
    BY <1>2, <1>3, <2>1
  <2> QED BY <1>3, <2>2, LoopSees
<1>4. ASSUME NEW r \in Replicas, Fetch(r) PROVE SeenInv'
  <2>1. /\ Only(r) /\ rep[r].pc = "poll" /\ rep'[r].pc = "handle"
        /\ rep'[r].next = rep[r].position + 1
        /\ UNCHANGED <<topic, applied, failures>>
    BY <1>1, <1>4, FetchDoes
  <2>2. Through(r)' = Through(r) /\ Through(r) \in Int
    BY <1>1, <2>1, LoopTypes DEF Through, LoopOK
  <2> QED BY <1>3, <2>1, <2>2
<1>5. ASSUME NEW r \in Replicas, SkipDuplicate(r) PROVE SeenInv'
  <2>1. /\ Only(r) /\ rep[r].pc = "handle" /\ rep'[r].pc = "handle"
        /\ rep'[r].next = rep[r].next + 1 /\ rep[r].next <= rep[r].position
        /\ Seen(r) /\ UNCHANGED <<topic, applied, failures>>
    BY <1>1, <1>5, SkipDoes DEF Moves
  <2>2. Through(r) = rep[r].next - 1 /\ Through(r)' = rep[r].next
    BY <1>1, <2>1, LoopTypes DEF Through
  <2>3. IsApplied(topic[rep[r].next])
    <3>1. InHand(r) \in Assessments /\ LedgerKey(r) = <<InHand(r), "claims-api-readmodel">>
      BY <2>1, InHandType
    <3>2. IsApplied(InHand(r))
      BY <2>1, <3>1 DEF Seen, TxInv
    <3> QED BY <3>2 DEF InHand
  <2>4. failures = 0 => \A k \in 1..Through(r)' : IsApplied(topic[k])
    BY <1>2, <2>2, <2>3
  <2> QED BY <2>1, <2>4, LoopSees
<1>6. ASSUME NEW r \in Replicas, InsertKey(r) PROVE SeenInv'
  <2>1. /\ Only(r) /\ rep[r].pc = "handle" /\ rep'[r].pc = "tx"
        /\ rep'[r].next = rep[r].next + 0
        /\ UNCHANGED <<topic, applied, failures>>
    BY <1>1, <1>6, InsertKeyDoes DEF Moves
  <2>2. Through(r)' = Through(r) /\ Through(r) \in Int
    BY <1>1, <2>1, LoopTypes DEF Through
  <2> QED BY <1>3, <2>1, <2>2
<1>7. ASSUME NEW r \in Replicas, Notify(r) PROVE SeenInv'
  <2>1. /\ Only(r) /\ rep[r].pc = "notify" /\ rep'[r].pc = "handle"
        /\ rep'[r].next = rep[r].next + 1
        /\ UNCHANGED <<topic, applied, failures>>
    BY <1>1, <1>7, NotifyDoes DEF Moves
  <2>2. Through(r)' = Through(r) /\ Through(r) \in Int
    BY <1>1, <2>1, LoopTypes DEF Through
  <2> QED BY <1>3, <2>1, <2>2
<1>8. ASSUME NEW r \in Replicas, HandlerFails(r) PROVE SeenInv'
  <2>1. failures' = failures + 1 /\ failures \in 0..MaxFailures
        /\ UNCHANGED <<topic, applied>>
    BY <1>1, <1>8, FailDoes DEF TypeOK
  <2>2. failures' # 0
    BY <2>1, ConsumerAssumption
  <2>3. AppliedInOrder'
    BY <2>2 DEF AppliedInOrder
  <2> QED BY <2>2, <2>3 DEF SeenInv
<1>9. ASSUME NEW r \in Replicas, EndBatch(r) PROVE SeenInv'
  <2>1. /\ Only(r) /\ rep[r].pc = "handle" /\ rep'[r].pc = "poll"
        /\ rep'[r].next = rep[r].next
        /\ UNCHANGED <<topic, applied, failures>>
    BY <1>1, <1>9, EndBatchDoes DEF EndBatch
  <2>2. Through(r)' = Through(r) /\ Through(r) \in Int
    BY <1>1, <2>1, LoopTypes DEF Through
  <2> QED BY <1>3, <2>1, <2>2
<1>10. ASSUME NEW r \in Replicas, Rejoin(r) PROVE SeenInv'
  <2>1. /\ Only(r) /\ rep[r].pc = "poll" /\ rep'[r].pc = "poll"
        /\ rep'[r].next = rep[r].offset + 1
        /\ UNCHANGED <<topic, applied, failures>>
    BY <1>1, <1>10, RejoinDoes
  <2>2. Through(r)' <= Through(r) /\ Through(r)' \in Int
    BY <1>1, <2>1, LoopTypes DEF Through, LoopOK
  <2> QED BY <1>3, <2>1, <2>2
<1>11. ASSUME NEW r \in Replicas, Restart(r) PROVE SeenInv'
  <2>1. /\ Only(r) /\ rep'[r].pc = "poll" /\ rep'[r].next = 1
        /\ UNCHANGED <<topic, applied, failures>>
    BY <1>1, <1>11, RestartDoes
  <2>2. Through(r)' <= Through(r) /\ Through(r)' \in Int
    BY <1>1, <2>1, LoopTypes DEF Through, LoopOK
  <2> QED BY <1>3, <2>1, <2>2
<1>12. CASE UNCHANGED vars
  BY <1>12 DEF vars, SeenInv, ReadIsApplied, AppliedInLine, AppliedInOrder,
     PublishedBefore, IsApplied, Through
<1> QED BY <1>4, <1>5, <1>6, <1>7, <1>8, <1>9, <1>10, <1>11, <1>12,
           DeliverSees, CommitSees DEF Next

\* Until a handler fails, the claim's assessments are applied in the order of
\* their first copies on the topic, although the replicas race for each and
\* read again after every restart.
THEOREM OrderKept == Spec => []AppliedInOrder
<1>1. Spec => []SeenInv
  BY InitSees, NextSees, TxSound, PTL DEF Spec
<1>2. SeenInv => AppliedInOrder
  BY DEF SeenInv
<1> QED BY <1>1, <1>2, PTL
=============================================================================
