------------------------- MODULE OutboxRelay_proofs -------------------------
(***************************************************************************)
(* Proofs about OutboxRelay, for any number of events, aggregates and      *)
(* relays, any batch size and any limit of attempts.                       *)
(*                                                                         *)
(* The types hold because a row in a batch is pending until the batch      *)
(* commits, which needs the batches to be disjoint; the count of copies    *)
(* follows a row through its batches; the channel needs to know which rows *)
(* are committed.  RelayInv puts the three together.                       *)
(***************************************************************************)
EXTENDS OutboxRelay, FiniteSetTheorems, TLAPS

\* A row in a batch is committed and pending: marks are private until then.
HeldPending ==
  \A r \in Relays : \A e \in Held(r) :
    /\ row[e].state = "committed" /\ ~row[e].published
    /\ row[e].attempts < MaxAttempts

\* What has been sent is no more in line.
PartsDisjoint ==
  \A r \in Relays :
    /\ relay[r].todo \cap (relay[r].ok \cup relay[r].bad) = {}
    /\ relay[r].ok \cap relay[r].bad = {}

\* committed lists the rows that are committed.
CommittedRows ==
  \A e \in Events :
    row[e].state = "committed" <=> \E i \in DOMAIN committed : committed[i] = e

BatchInv ==
  TypeOK /\ BatchesDisjoint /\ HeldPending /\ PartsDisjoint /\ CommittedRows

LEMMA HeldType ==
  ASSUME TypeOK, NEW r \in Relays
  PROVE  /\ relay[r] \in Batches
         /\ relay[r].todo \subseteq Events /\ relay[r].ok \subseteq Events
         /\ relay[r].bad \subseteq Events /\ relay[r].skipped \subseteq Events
         /\ Held(r) \subseteq Events
BY DEF TypeOK, Batches, Held

LEMMA InitBatch == Init => BatchInv
<1> SUFFICES ASSUME Init PROVE BatchInv
  OBVIOUS
<1>1. TypeOK
  BY RelayAssumption DEF Init, TypeOK, Rows, Batches, NoBatch
<1>2. \A r \in Relays : Held(r) = {} /\ relay[r] = NoBatch
  BY DEF Init, Held, NoBatch
<1>3. CommittedRows
  BY DEF Init, CommittedRows
<1> QED BY <1>1, <1>2, <1>3 DEF BatchInv, BatchesDisjoint, HeldPending,
           PartsDisjoint, NoBatch

\* The values rows can take.
LEMMA RowTypes ==
  ASSUME NEW x \in Rows
  PROVE  /\ \A n \in Nat : [x EXCEPT !.state = "open", !.at = n] \in Rows
         /\ [x EXCEPT !.state = "committed"] \in Rows
         /\ [x EXCEPT !.state = "aborted"] \in Rows
         /\ \A p \in BOOLEAN, a \in 0..MaxAttempts :
              [x EXCEPT !.published = p, !.attempts = a] \in Rows
BY DEF Rows

\* A write changes the row of its own event, which no batch has.
LEMMA WriteBatch ==
  ASSUME BatchInv, NEW e \in Events, BeginWrite(e) \/ CommitWrite(e) \/ AbortWrite(e)
  PROVE  BatchInv'
<1> USE DEF BatchInv
<1>1. /\ UNCHANGED <<log, relay, crashes>>
      /\ row[e].state # "committed"
      /\ \A d \in Events \ {e} : row'[d] = row[d]
  BY DEF BeginWrite, CommitWrite, AbortWrite, TypeOK
<1>2. row' \in [Events -> Rows] /\ clock' \in Nat /\ committed' \in Seq(Events)
  <2>1. CASE BeginWrite(e)
    <3>1. row' \in [Events -> Rows]
      BY <2>1, RowTypes DEF BeginWrite, TypeOK
    <3>2. clock' \in Nat /\ committed' \in Seq(Events)
      BY <2>1 DEF BeginWrite, TypeOK
    <3> QED BY <3>1, <3>2
  <2>2. CASE CommitWrite(e)
    <3>1. row' \in [Events -> Rows] /\ clock' \in Nat
      BY <2>2, RowTypes DEF CommitWrite, TypeOK
    <3>2. committed' \in Seq(Events)
      BY <2>2 DEF CommitWrite, TypeOK
    <3> QED BY <3>1, <3>2
  <2>3. CASE AbortWrite(e)
    BY <2>3, RowTypes DEF AbortWrite, TypeOK
  <2> QED BY <2>1, <2>2, <2>3
<1>3. TypeOK'
  BY <1>1, <1>2 DEF TypeOK
<1>4. \A r \in Relays : Held(r)' = Held(r) /\ e \notin Held(r)
  BY <1>1 DEF Held, HeldPending
<1>5. BatchesDisjoint' /\ PartsDisjoint'
  BY <1>1, <1>4 DEF BatchesDisjoint, PartsDisjoint
<1>6. HeldPending'
  BY <1>1, <1>4, HeldType DEF HeldPending
<1>7. CommittedRows'
  <2>1. CASE CommitWrite(e)
    <3>1. committed' = Append(committed, e) /\ row'[e].state = "committed"
      BY <2>1 DEF CommitWrite, TypeOK, Rows
    <3>2. committed \in Seq(Events)
      BY DEF TypeOK
    <3>3. \A d : (\E i \in DOMAIN committed' : committed'[i] = d)
                   <=> d = e \/ \E i \in DOMAIN committed : committed[i] = d
      BY <3>1, <3>2
    <3> QED BY <1>1, <3>1, <3>3 DEF CommittedRows
  <2>2. CASE BeginWrite(e) \/ AbortWrite(e)
    <3>1. committed' = committed /\ row'[e].state # "committed"
      BY <2>2 DEF BeginWrite, AbortWrite, TypeOK, Rows
    <3> QED BY <1>1, <3>1 DEF CommittedRows
  <2> QED BY <2>1, <2>2
<1> QED BY <1>3, <1>5, <1>6, <1>7

LEMMA ClaimBatchKeeps ==
  ASSUME BatchInv, NEW r \in Relays, ClaimBatch(r)
  PROVE  BatchInv'
<1> USE DEF BatchInv
<1> DEFINE b == [NoBatch EXCEPT !.todo = OldestPending,
                                !.skipped = UNION {Held(q) : q \in Relays}]
<1>1. OldestPending \subseteq Events
  BY DEF OldestPending, Pending
<1>2. (UNION {Held(q) : q \in Relays}) \subseteq Events
  BY HeldType
<1>3. /\ b \in Batches /\ b.todo = OldestPending /\ b.ok = {} /\ b.bad = {}
  BY <1>1, <1>2 DEF NoBatch, Batches
<1>4. relay' = [relay EXCEPT ![r] = b]
  BY DEF ClaimBatch, NoBatch, TypeOK, Batches
<1>5. UNCHANGED <<row, clock, committed, log, crashes>>
  BY DEF ClaimBatch
<1> HIDE DEF b
<1>6. TypeOK'
  BY <1>3, <1>4, <1>5 DEF TypeOK
<1>7. /\ Held(r)' = OldestPending
      /\ \A s \in Relays \ {r} : relay'[s] = relay[s] /\ Held(s)' = Held(s)
      /\ relay'[r] = b
  BY <1>3, <1>4 DEF Held, TypeOK
<1>8. \A e \in OldestPending :
        /\ row[e].state = "committed" /\ ~row[e].published
        /\ row[e].attempts < MaxAttempts
        /\ \A s \in Relays : e \notin Held(s)
  BY DEF OldestPending, Pending, Unlocked
<1>9. BatchesDisjoint'
  BY <1>7, <1>8 DEF BatchesDisjoint
<1>10. HeldPending'
  BY <1>5, <1>7, <1>8 DEF HeldPending
<1>11. PartsDisjoint'
  BY <1>3, <1>7 DEF PartsDisjoint
<1>12. CommittedRows'
  BY <1>5 DEF CommittedRows
<1> QED BY <1>6, <1>9, <1>10, <1>11, <1>12

\* A row that was sent moves from todo to ok or to bad of its batch.
Moved(r, e, part) ==
  \/ /\ part = "ok"
     /\ relay' = [relay EXCEPT ![r].todo = @ \ {e}, ![r].ok = @ \cup {e}]
  \/ /\ part = "bad"
     /\ relay' = [relay EXCEPT ![r].todo = @ \ {e}, ![r].bad = @ \cup {e}]

LEMMA MovedParts ==
  ASSUME TypeOK, NEW r \in Relays, NEW e \in relay[r].todo, NEW part, Moved(r, e, part)
  PROVE  /\ relay' \in [Relays -> Batches]
         /\ relay'[r].todo = relay[r].todo \ {e}
         /\ relay'[r].ok = IF part = "ok" THEN relay[r].ok \cup {e} ELSE relay[r].ok
         /\ relay'[r].bad = IF part = "ok" THEN relay[r].bad ELSE relay[r].bad \cup {e}
         /\ Held(r)' = Held(r)
         /\ \A s \in Relays \ {r} : relay'[s] = relay[s] /\ Held(s)' = Held(s)
<1>1. relay \in [Relays -> Batches] /\ e \in Events
  BY HeldType DEF TypeOK
<1>2. CASE part = "ok"
  BY <1>1, <1>2 DEF Moved, Batches, Held
<1>3. CASE part # "ok"
  BY <1>1, <1>3 DEF Moved, Batches, Held
<1> QED BY <1>2, <1>3

LEMMA SendSteps ==
  ASSUME NEW r \in Relays, NEW e \in Events,
         SendOk(r, e) \/ SendFails(r, e) \/ SendTimesOut(r, e)
  PROVE  /\ e \in relay[r].todo
         /\ UNCHANGED <<row, clock, committed, crashes>>
         /\ \/ Moved(r, e, "ok") /\ log' = [log EXCEPT ![Key[e]] = Append(@, e)]
            \/ /\ Moved(r, e, "bad")
               /\ log' = log \/ log' = [log EXCEPT ![Key[e]] = Append(@, e)]
BY DEF SendOk, SendFails, SendTimesOut, IsNext, Moved

LEMMA LogType ==
  ASSUME TypeOK, NEW e \in Events,
         log' = log \/ log' = [log EXCEPT ![Key[e]] = Append(@, e)]
  PROVE  log' \in [Keys -> Seq(Events)]
<1>1. log \in [Keys -> Seq(Events)] /\ Key[e] \in Keys
  BY RelayAssumption DEF TypeOK
<1>2. Append(log[Key[e]], e) \in Seq(Events)
  BY <1>1
<1> QED BY <1>1, <1>2

LEMMA SendBatch ==
  ASSUME BatchInv, NEW r \in Relays, NEW e \in Events,
         SendOk(r, e) \/ SendFails(r, e) \/ SendTimesOut(r, e)
  PROVE  BatchInv'
<1> USE DEF BatchInv
<1>1. /\ e \in relay[r].todo
      /\ UNCHANGED <<row, clock, committed, crashes>>
      /\ log' = log \/ log' = [log EXCEPT ![Key[e]] = Append(@, e)]
  BY SendSteps
<1>2. PICK part \in {"ok", "bad"} : Moved(r, e, part)
  BY SendSteps
<1>3. /\ relay' \in [Relays -> Batches]
      /\ relay'[r].todo = relay[r].todo \ {e}
      /\ relay'[r].ok = IF part = "ok" THEN relay[r].ok \cup {e} ELSE relay[r].ok
      /\ relay'[r].bad = IF part = "ok" THEN relay[r].bad ELSE relay[r].bad \cup {e}
      /\ \A s \in Relays : Held(s)' = Held(s)
      /\ \A s \in Relays \ {r} : relay'[s] = relay[s]
  BY <1>1, <1>2, MovedParts
<1>4. TypeOK'
  BY <1>1, <1>3, LogType DEF TypeOK
<1>5. BatchesDisjoint' /\ HeldPending' /\ CommittedRows'
  BY <1>1, <1>3 DEF BatchesDisjoint, HeldPending, CommittedRows
<1>6. PartsDisjoint'
  BY <1>1, <1>3 DEF PartsDisjoint
<1> QED BY <1>4, <1>5, <1>6

\* What a commit does to a row, and what it leaves alone.
LEMMA MarkedRow ==
  ASSUME BatchInv, NEW r \in Relays, CommitBatch(r), NEW e \in Events
  PROVE  /\ row'[e] \in Rows
         /\ row'[e].state = row[e].state
         /\ row'[e].published = (row[e].published \/ e \in relay[r].ok)
         /\ row'[e].attempts = IF e \in relay[r].bad THEN row[e].attempts + 1
                               ELSE row[e].attempts
         /\ e \notin Held(r) => row'[e] = row[e]
<1> USE DEF BatchInv
<1>1. row[e] \in Rows /\ row'[e] = Marked(relay[r], e)
  BY DEF TypeOK, CommitBatch
<1>2. e \in relay[r].bad => row[e].attempts < MaxAttempts
  BY DEF HeldPending, Held
<1>3. row'[e].published = (row[e].published \/ e \in relay[r].ok)
  BY <1>1 DEF Marked, Rows
<1>4. /\ row'[e].state = row[e].state /\ row'[e].at = row[e].at
      /\ row'[e].attempts = IF e \in relay[r].bad THEN row[e].attempts + 1
                            ELSE row[e].attempts
  BY <1>1 DEF Marked, Rows
<1> DEFINE p == row[e].published \/ e \in relay[r].ok
           a == IF e \in relay[r].bad THEN row[e].attempts + 1 ELSE row[e].attempts
<1>5. row'[e] \in Rows
  <2>1. row'[e] = [row[e] EXCEPT !.published = p, !.attempts = a]
    BY <1>1 DEF Marked
  <2>2. p \in BOOLEAN /\ a \in 0..MaxAttempts
    BY <1>1, <1>2, RelayAssumption DEF Rows
  <2>3. \A q \in BOOLEAN, n \in 0..MaxAttempts :
          [row[e] EXCEPT !.published = q, !.attempts = n] \in Rows
    BY <1>1, RowTypes
  <2> HIDE DEF p, a
  <2> QED BY <2>1, <2>2, <2>3, Zenon
<1>6. ASSUME e \notin Held(r) PROVE row'[e] = row[e]
  <2>1. p = row[e].published /\ a = row[e].attempts
    BY <1>1, <1>6 DEF Rows, Held
  <2>2. row'[e] = [row[e] EXCEPT !.published = p, !.attempts = a]
    BY <1>1 DEF Marked
  <2> HIDE DEF p, a
  <2> QED BY <1>1, <2>1, <2>2 DEF Rows
<1> QED BY <1>3, <1>4, <1>5, <1>6

LEMMA CommitBatchKeeps ==
  ASSUME BatchInv, NEW r \in Relays, CommitBatch(r)
  PROVE  BatchInv'
<1> USE DEF BatchInv
<1>1. /\ relay' = [relay EXCEPT ![r] = NoBatch]
      /\ UNCHANGED <<clock, committed, log, crashes>>
      /\ row' = [e \in Events |-> Marked(relay[r], e)]
  BY DEF CommitBatch
<1>2. row' \in [Events -> Rows]
  BY <1>1, MarkedRow
<1>3. NoBatch \in Batches
  BY DEF NoBatch, Batches
<1>4. TypeOK'
  BY <1>1, <1>2, <1>3 DEF TypeOK
<1>5. /\ relay'[r] = NoBatch /\ Held(r)' = {}
      /\ \A s \in Relays \ {r} : relay'[s] = relay[s] /\ Held(s)' = Held(s)
  BY <1>1 DEF Held, NoBatch, TypeOK
<1>6. BatchesDisjoint'
  BY <1>5 DEF BatchesDisjoint
<1>7. HeldPending'
  <2>1. \A s \in Relays \ {r} : \A e \in Held(s) : e \in Events /\ row'[e] = row[e]
    BY MarkedRow, HeldType DEF BatchesDisjoint
  <2> QED BY <1>5, <2>1 DEF HeldPending
<1>8. PartsDisjoint'
  BY <1>5 DEF PartsDisjoint, NoBatch
<1>9. CommittedRows'
  BY <1>1, MarkedRow DEF CommittedRows
<1> QED BY <1>4, <1>6, <1>7, <1>8, <1>9

LEMMA CrashBatchKeeps ==
  ASSUME BatchInv, NEW r \in Relays, CrashBatch(r)
  PROVE  BatchInv'
<1> USE DEF BatchInv
<1>1. /\ relay' = [relay EXCEPT ![r] = NoBatch]
      /\ UNCHANGED <<row, clock, committed, log>>
      /\ crashes < MaxCrashes /\ crashes' = crashes + 1
  BY DEF CrashBatch
<1>2. NoBatch \in Batches /\ crashes' \in 0..MaxCrashes
  BY <1>1, RelayAssumption DEF NoBatch, Batches, TypeOK
<1>3. TypeOK'
  BY <1>1, <1>2 DEF TypeOK
<1>4. /\ relay'[r] = NoBatch /\ Held(r)' = {}
      /\ \A s \in Relays \ {r} : relay'[s] = relay[s] /\ Held(s)' = Held(s)
  BY <1>1 DEF Held, NoBatch, TypeOK
<1>5. BatchesDisjoint' /\ HeldPending' /\ CommittedRows'
  BY <1>1, <1>4 DEF BatchesDisjoint, HeldPending, CommittedRows
<1>6. PartsDisjoint'
  BY <1>4 DEF PartsDisjoint, NoBatch
<1> QED BY <1>3, <1>5, <1>6

LEMMA NextBatch == BatchInv /\ [Next]_vars => BatchInv'
<1> SUFFICES ASSUME BatchInv, [Next]_vars PROVE BatchInv'
  OBVIOUS
<1>1. CASE UNCHANGED vars
  BY <1>1 DEF vars, BatchInv, TypeOK, BatchesDisjoint, HeldPending, PartsDisjoint,
              CommittedRows, Held
<1>2. CASE Next
  BY <1>2, WriteBatch, ClaimBatchKeeps, SendBatch, CommitBatchKeeps,
     CrashBatchKeeps DEF Next
<1> QED BY <1>1, <1>2

LEMMA BatchesSound == Spec => []BatchInv
BY InitBatch, NextBatch, PTL DEF Spec

\* Type correctness; no row is tried more than MaxAttempts times, although the
\* attempts are counted when a batch commits and not when a send fails.
THEOREM TypeCorrect == Spec => []TypeOK
<1>1. BatchInv => TypeOK
  BY DEF BatchInv
<1> QED BY <1>1, BatchesSound, PTL

\* FOR UPDATE SKIP LOCKED keeps a row out of two batches, for any number of
\* relays.
THEOREM SkipLockedWorks == Spec => []BatchesDisjoint
<1>1. BatchInv => BatchesDisjoint
  BY DEF BatchInv
<1> QED BY <1>1, BatchesSound, PTL

-----------------------------------------------------------------------------
(***************************************************************************)
(* The copies                                                              *)
(***************************************************************************)
\* e has been sent and its row says so, or will when the batch commits.
SentOk(e) == row[e].published \/ \E r \in Relays : e \in relay[r].ok

SentBad(e) == \E r \in Relays : e \in relay[r].bad

One(b) == IF b THEN 1 ELSE 0

Copies(e) == Cardinality(Positions(e))

\* Every copy is a success, a failure that is counted or about to be, or was
\* lost in a crash, and a success leaves a copy.
CopyInv ==
  \A e \in Events :
    /\ SentOk(e) => Positions(e) # {}
    /\ Copies(e) <= row[e].attempts + crashes + One(SentOk(e)) + One(SentBad(e))

LEMMA CopiesCount ==
  ASSUME TypeOK, NEW e \in Events
  PROVE  IsFiniteSet(Positions(e)) /\ Copies(e) \in Nat
<1>1. log[Key[e]] \in Seq(Events)
  BY RelayAssumption DEF TypeOK
<1>2. Positions(e) \subseteq 1..Len(log[Key[e]]) /\ Len(log[Key[e]]) \in Nat
  BY <1>1 DEF Positions
<1>3. IsFiniteSet(1..Len(log[Key[e]]))
  BY <1>2, FS_Interval
<1> QED BY <1>2, <1>3, FS_Subset, FS_CardinalityType DEF Copies

\* A send of e that reaches the broker adds one copy of e and none of another.
LEMMA AppendCopies ==
  ASSUME TypeOK, NEW e \in Events, NEW d \in Events,
         log' = [log EXCEPT ![Key[e]] = Append(@, e)]
  PROVE  /\ d # e => Positions(d)' = Positions(d)
         /\ d = e => Positions(d)' # {} /\ Copies(d)' = Copies(d) + 1
<1> DEFINE k == Key[d]   n == Len(log[k]) + 1
<1>1. log \in [Keys -> Seq(Events)] /\ k \in Keys /\ Key[e] \in Keys
  BY RelayAssumption DEF TypeOK
<1>2. CASE k # Key[e]
  <2>1. log'[k] = log[k] /\ d # e
    BY <1>1, <1>2
  <2> QED BY <2>1 DEF Positions
<1>3. CASE k = Key[e]
  <2>1. log[k] \in Seq(Events) /\ log'[k] = Append(log[k], e)
    BY <1>1, <1>3
  <2>2. /\ DOMAIN log'[k] = DOMAIN log[k] \cup {n}
        /\ n \notin DOMAIN log[k]
        /\ log'[k][n] = e
        /\ \A i \in DOMAIN log[k] : log'[k][i] = log[k][i]
    BY <2>1
  <2> HIDE DEF n
  <2>3. ASSUME d # e PROVE Positions(d)' = Positions(d)
    BY <2>2, <2>3 DEF Positions
  <2>4. ASSUME d = e PROVE Positions(d)' # {} /\ Copies(d)' = Copies(d) + 1
    <3>1. Positions(d)' = Positions(d) \cup {n} /\ n \notin Positions(d)
      BY <2>2, <2>4 DEF Positions
    <3>2. IsFiniteSet(Positions(d))
      BY CopiesCount
    <3> QED BY <3>1, <3>2, FS_AddElement DEF Copies
  <2> QED BY <2>3, <2>4
<1> QED BY <1>2, <1>3

\* A row in a batch is in one part of one batch.
LEMMA OnePart ==
  ASSUME BatchInv, NEW r \in Relays, NEW e \in Held(r)
  PROVE  /\ ~row[e].published
         /\ \A s \in Relays \ {r} : e \notin relay[s].ok /\ e \notin relay[s].bad
         /\ e \in relay[r].todo => ~SentOk(e) /\ ~SentBad(e)
         /\ e \in relay[r].ok => SentOk(e) /\ ~SentBad(e)
         /\ e \in relay[r].bad => SentBad(e) /\ ~SentOk(e)
<1>1. ~row[e].published
  BY DEF BatchInv, HeldPending
<1>2. \A s \in Relays \ {r} : e \notin relay[s].ok /\ e \notin relay[s].bad
  BY DEF BatchInv, BatchesDisjoint, Held
<1>3. /\ relay[r].todo \cap (relay[r].ok \cup relay[r].bad) = {}
      /\ relay[r].ok \cap relay[r].bad = {}
  BY DEF BatchInv, PartsDisjoint
<1> QED BY <1>1, <1>2, <1>3 DEF SentOk, SentBad

\* The step leaves e's copies and what accounts for them alone.
LEMMA CopyKept ==
  ASSUME CopyInv, NEW e \in Events, Positions(e)' = Positions(e),
         row'[e].attempts = row[e].attempts, crashes' = crashes,
         SentOk(e)' <=> SentOk(e), SentBad(e)' <=> SentBad(e)
  PROVE  /\ SentOk(e)' => Positions(e)' # {}
         /\ Copies(e)' <= row'[e].attempts + crashes' + One(SentOk(e)')
                             + One(SentBad(e)')
BY DEF CopyInv, Copies, One

LEMMA WriteCopies ==
  ASSUME BatchInv, CopyInv, NEW e \in Events,
         BeginWrite(e) \/ CommitWrite(e) \/ AbortWrite(e)
  PROVE  CopyInv'
<1> USE DEF BatchInv
<1>1. UNCHANGED <<log, relay, crashes>>
  BY DEF BeginWrite, CommitWrite, AbortWrite
<1>2. \A d \in Events : row'[d].attempts = row[d].attempts
                         /\ row'[d].published = row[d].published
  <2>1. CASE BeginWrite(e)
    BY <2>1 DEF BeginWrite, TypeOK, Rows
  <2>2. CASE CommitWrite(e)
    BY <2>2 DEF CommitWrite, TypeOK, Rows
  <2>3. CASE AbortWrite(e)
    BY <2>3 DEF AbortWrite, TypeOK, Rows
  <2> QED BY <2>1, <2>2, <2>3
<1>3. SUFFICES ASSUME NEW d \in Events
               PROVE  /\ SentOk(d)' => Positions(d)' # {}
                      /\ Copies(d)' <= row'[d].attempts + crashes'
                                         + One(SentOk(d)') + One(SentBad(d)')
  BY DEF CopyInv
<1>4. Positions(d)' = Positions(d)
  BY <1>1 DEF Positions
<1>5. (SentOk(d)' <=> SentOk(d)) /\ (SentBad(d)' <=> SentBad(d))
  BY <1>1, <1>2 DEF SentOk, SentBad
<1> QED BY <1>1, <1>2, <1>4, <1>5, CopyKept

LEMMA ClaimCopies ==
  ASSUME BatchInv, CopyInv, NEW r \in Relays, ClaimBatch(r)
  PROVE  CopyInv'
<1> USE DEF BatchInv
<1>1. UNCHANGED <<row, log, crashes>> /\ relay[r] = NoBatch
  BY DEF ClaimBatch
<1>2. /\ relay'[r].ok = {} /\ relay'[r].bad = {}
      /\ \A s \in Relays \ {r} : relay'[s] = relay[s]
  BY <1>1 DEF ClaimBatch, NoBatch, TypeOK, Batches
<1>3. SUFFICES ASSUME NEW d \in Events
               PROVE  /\ SentOk(d)' => Positions(d)' # {}
                      /\ Copies(d)' <= row'[d].attempts + crashes'
                                         + One(SentOk(d)') + One(SentBad(d)')
  BY DEF CopyInv
<1>4. Positions(d)' = Positions(d)
  BY <1>1 DEF Positions
<1>5. (SentOk(d)' <=> SentOk(d)) /\ (SentBad(d)' <=> SentBad(d))
  BY <1>1, <1>2 DEF SentOk, SentBad, NoBatch
<1> QED BY <1>1, <1>4, <1>5, CopyKept

LEMMA SendCopies ==
  ASSUME BatchInv, CopyInv, NEW r \in Relays, NEW e \in Events,
         SendOk(r, e) \/ SendFails(r, e) \/ SendTimesOut(r, e)
  PROVE  CopyInv'
<1> USE DEF BatchInv
<1>1. e \in relay[r].todo /\ e \in Held(r) /\ UNCHANGED <<row, crashes>>
  BY SendSteps DEF Held
<1>2. PICK part \in {"ok", "bad"} :
        /\ Moved(r, e, part)
        /\ \/ log' = [log EXCEPT ![Key[e]] = Append(@, e)]
           \/ part = "bad" /\ log' = log
  BY SendSteps
<1>3. /\ relay'[r].ok = IF part = "ok" THEN relay[r].ok \cup {e} ELSE relay[r].ok
      /\ relay'[r].bad = IF part = "ok" THEN relay[r].bad ELSE relay[r].bad \cup {e}
      /\ \A s \in Relays \ {r} : relay'[s] = relay[s]
  BY <1>1, <1>2, MovedParts
<1>4. ~SentOk(e) /\ ~SentBad(e)
  BY <1>1, OnePart
<1>5. SUFFICES ASSUME NEW d \in Events
               PROVE  /\ SentOk(d)' => Positions(d)' # {}
                      /\ Copies(d)' <= row'[d].attempts + crashes'
                                         + One(SentOk(d)') + One(SentBad(d)')
  BY DEF CopyInv
<1>6. CASE d # e
  <2>1. Positions(d)' = Positions(d)
    BY <1>2, <1>6, AppendCopies DEF Positions
  <2>2. (SentOk(d)' <=> SentOk(d)) /\ (SentBad(d)' <=> SentBad(d))
    BY <1>1, <1>3, <1>6 DEF SentOk, SentBad
  <2> QED BY <1>1, <2>1, <2>2, CopyKept
<1>7. CASE d = e
  <2>1. Copies(e) \in Nat /\ row[e].attempts \in Nat /\ crashes \in Nat
    BY CopiesCount, RelayAssumption DEF TypeOK, Rows
  <2>2. Copies(e) <= row[e].attempts + crashes
    BY <1>4, <2>1 DEF CopyInv, One
  <2>3. CASE part = "ok"
    <3>1. SentOk(e)' /\ ~SentBad(e)'
      BY <1>1, <1>3, <1>4, <2>3 DEF SentOk, SentBad
    <3>2. Positions(e)' # {} /\ Copies(e)' = Copies(e) + 1
      BY <1>2, <2>3, AppendCopies
    <3> QED BY <1>1, <1>7, <2>1, <2>2, <3>1, <3>2 DEF One
  <2>4. CASE part = "bad"
    <3>1. SentBad(e)' /\ ~SentOk(e)'
      BY <1>1, <1>3, <1>4, <2>4 DEF SentOk, SentBad
    <3>2. Copies(e)' = Copies(e) \/ Copies(e)' = Copies(e) + 1
      BY <1>2, AppendCopies DEF Copies, Positions
    <3> QED BY <1>1, <1>7, <2>1, <2>2, <3>1, <3>2 DEF One
  <2> QED BY <2>3, <2>4
<1> QED BY <1>6, <1>7

\* A commit turns what the batch remembers into what the rows remember.
LEMMA CommitCopies ==
  ASSUME BatchInv, CopyInv, NEW r \in Relays, CommitBatch(r)
  PROVE  CopyInv'
<1> USE DEF BatchInv
<1>1. UNCHANGED <<log, crashes>> /\ relay[r].todo = {}
  BY DEF CommitBatch
<1>2. /\ relay'[r].ok = {} /\ relay'[r].bad = {}
      /\ \A s \in Relays \ {r} : relay'[s] = relay[s]
  BY DEF CommitBatch, NoBatch, TypeOK
<1>3. SUFFICES ASSUME NEW d \in Events
               PROVE  /\ SentOk(d)' => Positions(d)' # {}
                      /\ Copies(d)' <= row'[d].attempts + crashes'
                                         + One(SentOk(d)') + One(SentBad(d)')
  BY DEF CopyInv
<1>4. Positions(d)' = Positions(d) /\ Copies(d)' = Copies(d)
  BY <1>1 DEF Positions, Copies
<1>5. SentOk(d)' <=> SentOk(d)
  BY <1>2, MarkedRow DEF SentOk
<1>6. CASE d \in relay[r].bad
  <2>1. row'[d].attempts = row[d].attempts + 1
    BY <1>6, MarkedRow
  <2>2. SentBad(d) /\ ~SentOk(d) /\ ~SentBad(d)'
    BY <1>2, <1>6, OnePart DEF SentBad, Held
  <2>3. Copies(d) \in Nat /\ row[d].attempts \in Nat /\ crashes \in Nat
    BY CopiesCount, RelayAssumption DEF TypeOK, Rows
  <2> QED BY <1>1, <1>4, <1>5, <2>1, <2>2, <2>3 DEF CopyInv, One
<1>7. CASE d \notin relay[r].bad
  <2>1. row'[d].attempts = row[d].attempts
    BY <1>7, MarkedRow
  <2>2. SentBad(d)' <=> SentBad(d)
    BY <1>2, <1>7 DEF SentBad
  <2> QED BY <1>1, <1>4, <1>5, <2>1, <2>2, CopyKept
<1> QED BY <1>6, <1>7

\* A crash forgets at most one copy of a row, and is counted.
LEMMA CrashCopies ==
  ASSUME BatchInv, CopyInv, NEW r \in Relays, CrashBatch(r)
  PROVE  CopyInv'
<1> USE DEF BatchInv
<1>1. UNCHANGED <<row, log>> /\ crashes' = crashes + 1
  BY DEF CrashBatch
<1>2. /\ relay'[r].ok = {} /\ relay'[r].bad = {}
      /\ \A s \in Relays \ {r} : relay'[s] = relay[s]
  BY DEF CrashBatch, NoBatch, TypeOK
<1>3. SUFFICES ASSUME NEW d \in Events
               PROVE  /\ SentOk(d)' => Positions(d)' # {}
                      /\ Copies(d)' <= row'[d].attempts + crashes'
                                         + One(SentOk(d)') + One(SentBad(d)')
  BY DEF CopyInv
<1>4. Positions(d)' = Positions(d) /\ Copies(d)' = Copies(d)
  BY <1>1 DEF Positions, Copies
<1>5. Copies(d) \in Nat /\ row[d].attempts \in Nat /\ crashes \in Nat
  BY CopiesCount, RelayAssumption DEF TypeOK, Rows
<1>6. SentOk(d)' => SentOk(d)
  BY <1>1, <1>2 DEF SentOk
<1>7. CASE d \in relay[r].ok \cup relay[r].bad
  <2>1. ~(SentOk(d) /\ SentBad(d))
    BY <1>7, OnePart DEF Held
  <2> QED BY <1>1, <1>4, <1>5, <1>6, <2>1 DEF CopyInv, One
<1>8. CASE d \notin relay[r].ok \cup relay[r].bad
  <2>1. (SentOk(d)' <=> SentOk(d)) /\ (SentBad(d)' <=> SentBad(d))
    BY <1>1, <1>2, <1>8 DEF SentOk, SentBad
  <2> QED BY <1>1, <1>4, <1>5, <2>1 DEF CopyInv, One
<1> QED BY <1>7, <1>8

LEMMA InitCopies == Init => CopyInv
<1> SUFFICES ASSUME Init, NEW e \in Events
             PROVE  /\ SentOk(e) => Positions(e) # {}
                    /\ Copies(e) <= row[e].attempts + crashes + One(SentOk(e))
                                      + One(SentBad(e))
  BY DEF CopyInv
<1>1. Positions(e) = {} /\ Copies(e) = 0
  <2>1. log[Key[e]] = << >>
    BY RelayAssumption DEF Init
  <2>2. Positions(e) = {}
    BY <2>1 DEF Positions
  <2> QED BY <2>2, FS_EmptySet DEF Copies
<1>2. ~SentOk(e) /\ row[e].attempts = 0 /\ crashes = 0
  BY DEF Init, SentOk, NoBatch
<1> QED BY <1>1, <1>2 DEF One

LEMMA NextCopies == BatchInv /\ CopyInv /\ [Next]_vars => CopyInv'
<1> SUFFICES ASSUME BatchInv, CopyInv, [Next]_vars PROVE CopyInv'
  OBVIOUS
<1>1. CASE UNCHANGED vars
  BY <1>1 DEF vars, CopyInv, SentOk, SentBad, Copies, Positions
<1>2. CASE Next
  BY <1>2, WriteCopies, ClaimCopies, SendCopies, CommitCopies, CrashCopies DEF Next
<1> QED BY <1>1, <1>2

LEMMA CopiesImplied == BatchInv /\ CopyInv => CopiesAccounted
<1> SUFFICES ASSUME BatchInv, CopyInv, NEW e \in Events
             PROVE  /\ row[e].published => Positions(e) # {}
                    /\ Cardinality(Positions(e)) <=
                         1 + row[e].attempts + crashes
                           + Cardinality({r \in Relays : e \in relay[r].bad})
  BY DEF CopiesAccounted
<1> DEFINE R == {r \in Relays : e \in relay[r].bad}
<1>1. Cardinality(R) = One(SentBad(e))
  <2>1. CASE SentBad(e)
    <3>1. PICK r \in Relays : e \in relay[r].bad
      BY <2>1 DEF SentBad
    <3>2. R = {r}
      BY <3>1 DEF BatchInv, BatchesDisjoint, Held
    <3> QED BY <2>1, <3>2, FS_Singleton DEF One
  <2>2. CASE ~SentBad(e)
    <3>1. R = {}
      BY <2>2 DEF SentBad
    <3> QED BY <2>2, <3>1, FS_EmptySet DEF One
  <2> QED BY <2>1, <2>2
<1>2. Copies(e) \in Nat /\ row[e].attempts \in Nat /\ crashes \in Nat
  BY CopiesCount, RelayAssumption DEF BatchInv, TypeOK, Rows
<1>3. Copies(e) <= 1 + row[e].attempts + crashes + Cardinality(R)
  BY <1>1, <1>2 DEF CopyInv, One
<1> QED BY <1>3 DEF CopyInv, SentOk, Copies

\* At-least-once delivery with every duplicate explained: a published row is on
\* its topic, and copies beyond the first are paid for by attempts and crashes.
THEOREM EveryCopyAccounted == Spec => []CopiesAccounted
<1>1. Spec => []CopyInv
  BY InitCopies, NextCopies, BatchesSound, PTL DEF Spec
<1> QED BY <1>1, BatchesSound, CopiesImplied, PTL

-----------------------------------------------------------------------------
(***************************************************************************)
(* The order                                                               *)
(***************************************************************************)
\* The earlier event e of d's aggregate is unsent and untried.
Waits(e, d) == Before(e, d) /\ row[e].attempts = 0 /\ Positions(e) = {}

\* Where d is in a batch, an earlier event that waits is in the batch too, has
\* failed there, or was locked when the batch was claimed.
CauseInv ==
  \A r \in Relays : \A d \in relay[r].todo : \A e \in Events :
    Waits(e, d) => e \in relay[r].todo \cup relay[r].bad \cup relay[r].skipped

OrderInv == BatchInv /\ CopyInv /\ CauseInv

LEMMA CommittedFinite ==
  ASSUME BatchInv
  PROVE  IsFiniteSet(Pending)
<1> DEFINE n == Len(committed)
           C == {committed[i] : i \in 1..n}
<1>1. committed \in Seq(Events) /\ n \in Nat /\ DOMAIN committed = 1..n
  BY DEF BatchInv, TypeOK
<1>2. committed \in Surjection(1..n, C)
  BY <1>1 DEF Surjection
<1>3. IsFiniteSet(C)
  BY <1>1, <1>2, FS_Interval, FS_Surjection
<1>4. Pending \in SUBSET C
  BY <1>1 DEF Pending, BatchInv, CommittedRows
<1> QED BY <1>3, <1>4, FS_Subset

\* A pending row is claimed with every later pending row.
LEMMA OldestFirst ==
  ASSUME BatchInv, NEW d \in OldestPending, NEW e \in Pending, row[e].at < row[d].at
  PROVE  e \in OldestPending
<1> DEFINE D == {x \in Pending : row[x].at < row[d].at}
           E == {x \in Pending : row[x].at < row[e].at}
<1>1. \A x \in Pending : row[x].at \in Nat
  BY DEF Pending, BatchInv, TypeOK, Rows
<1>2. d \in Pending /\ Cardinality(D) < BatchSize
  BY DEF OldestPending
<1>3. E \in SUBSET D /\ D \in SUBSET Pending
  BY <1>1, <1>2
<1>4. IsFiniteSet(D) /\ IsFiniteSet(E) /\ Cardinality(E) <= Cardinality(D)
  BY <1>3, CommittedFinite, FS_Subset
<1>5. Cardinality(E) < BatchSize
  BY <1>2, <1>4, FS_CardinalityType, RelayAssumption
<1> QED BY <1>5 DEF OldestPending

\* No step makes an event wait for an event that was committed before.
LEMMA WaitsKept ==
  ASSUME BatchInv, Next, NEW d \in Events, NEW e \in Events,
         row[d].state = "committed", Waits(e, d)'
  PROVE  Waits(e, d)
<1> USE DEF BatchInv
<1>1. CASE \E x \in Events : BeginWrite(x) \/ CommitWrite(x) \/ AbortWrite(x)
  <2>1. PICK x \in Events : BeginWrite(x) \/ CommitWrite(x) \/ AbortWrite(x)
    BY <1>1
  <2>2. /\ x # d /\ row[x].state # "committed" /\ log' = log
        /\ \A y \in Events \ {x} : row'[y] = row[y]
    BY <2>1 DEF BeginWrite, CommitWrite, AbortWrite, TypeOK
  <2>3. \A i \in DOMAIN committed : committed[i] # x
    BY <2>2 DEF CommittedRows
  <2>4. CASE committed' = committed
    <3>1. e # x
      BY <2>3, <2>4 DEF Waits, Before
    <3> QED BY <2>2, <2>4, <3>1 DEF Waits, Before, Positions
  <2>5. CASE committed' = Append(committed, x)
    <3> DEFINE n == Len(committed) + 1
    <3>1. /\ committed \in Seq(Events)
          /\ DOMAIN committed' = 1..n /\ DOMAIN committed = 1..(n - 1) /\ n \in Nat
          /\ committed'[n] = x
          /\ \A i \in 1..(n - 1) : committed'[i] = committed[i]
      BY <2>5 DEF TypeOK
    <3> HIDE DEF n
    <3>2. PICK i, j \in 1..n : i < j /\ committed'[i] = e /\ committed'[j] = d
      BY <3>1 DEF Waits, Before
    <3>3. j \in 1..(n - 1) /\ i \in 1..(n - 1)
      BY <2>2, <3>1, <3>2
    <3>4. i < j /\ committed[i] = e /\ committed[j] = d
      BY <3>1, <3>2, <3>3
    <3>5. e # x
      BY <2>3, <3>1, <3>3, <3>4
    <3> QED BY <2>2, <3>1, <3>3, <3>4, <3>5 DEF Waits, Before, Positions
  <2> QED BY <2>1, <2>4, <2>5 DEF BeginWrite, CommitWrite, AbortWrite
<1>2. CASE \E r \in Relays : ClaimBatch(r) \/ CrashBatch(r)
  <2>1. UNCHANGED <<row, committed, log>>
    BY <1>2 DEF ClaimBatch, CrashBatch
  <2> QED BY <2>1 DEF Waits, Before, Positions
<1>3. CASE \E r \in Relays, x \in Events :
             SendOk(r, x) \/ SendFails(r, x) \/ SendTimesOut(r, x)
  <2>1. PICK r \in Relays, x \in Events :
               SendOk(r, x) \/ SendFails(r, x) \/ SendTimesOut(r, x)
    BY <1>3
  <2>2. /\ UNCHANGED <<row, committed>>
        /\ log' = log \/ log' = [log EXCEPT ![Key[x]] = Append(@, x)]
    BY <2>1, SendSteps
  <2>3. Positions(e) = {}
    BY <2>2, AppendCopies DEF Waits, Positions
  <2> QED BY <2>2, <2>3 DEF Waits, Before
<1>4. CASE \E r \in Relays : CommitBatch(r)
  <2>1. PICK r \in Relays : CommitBatch(r)
    BY <1>4
  <2>2. UNCHANGED <<committed, log>>
    BY <2>1 DEF CommitBatch
  <2>3. row'[e].at = row[e].at /\ row'[d].at = row[d].at
    BY <2>1 DEF CommitBatch, Marked, TypeOK, Rows
  <2>4. row'[e].attempts = row[e].attempts \/ row'[e].attempts = row[e].attempts + 1
    BY <2>1, MarkedRow
  <2>5. row[e].attempts \in Nat
    BY RelayAssumption DEF TypeOK, Rows
  <2> QED BY <2>2, <2>3, <2>4, <2>5 DEF Waits, Before, Positions
<1> QED BY <1>1, <1>2, <1>3, <1>4 DEF Next

LEMMA ClaimCause ==
  ASSUME OrderInv, NEW r \in Relays, ClaimBatch(r)
  PROVE  CauseInv'
<1> USE DEF OrderInv
<1>1. UNCHANGED <<row, committed, log>>
  BY DEF ClaimBatch
<1>2. /\ relay'[r].todo = OldestPending
      /\ relay'[r].skipped = UNION {Held(q) : q \in Relays}
      /\ \A s \in Relays \ {r} : relay'[s] = relay[s]
  BY DEF ClaimBatch, BatchInv, TypeOK, Batches
<1>3. \A e, d \in Events : Waits(e, d)' = Waits(e, d)
  BY <1>1 DEF Waits, Before, Positions
<1>4. ASSUME NEW d \in OldestPending, NEW e \in Events, Waits(e, d)
      PROVE  e \in OldestPending \cup UNION {Held(q) : q \in Relays}
  <2>1. row[e].state = "committed" /\ row[e].at < row[d].at
    BY <1>4 DEF Waits, Before, BatchInv, CommittedRows
  <2>2. ~row[e].published /\ row[e].attempts < MaxAttempts
    BY <1>4, RelayAssumption DEF Waits, CopyInv, SentOk
  <2>3. CASE Unlocked(e)
    <3>1. e \in Pending
      BY <2>1, <2>2, <2>3 DEF Pending
    <3> QED BY <2>1, <3>1, OldestFirst
  <2>4. CASE ~Unlocked(e)
    BY <2>4 DEF Unlocked
  <2> QED BY <2>3, <2>4
<1>5. OldestPending \subseteq Events
  BY DEF OldestPending, Pending
<1>6. \A s \in Relays : relay[s].todo \subseteq Events
  BY HeldType DEF BatchInv
<1> QED BY <1>2, <1>3, <1>4, <1>5, <1>6 DEF CauseInv

LEMMA SendCause ==
  ASSUME OrderInv, Next, NEW r \in Relays, NEW x \in Events,
         SendOk(r, x) \/ SendFails(r, x) \/ SendTimesOut(r, x)
  PROVE  CauseInv'
<1> USE DEF OrderInv
<1>1. PICK part \in {"ok", "bad"} :
        /\ Moved(r, x, part)
        /\ part = "ok" => log' = [log EXCEPT ![Key[x]] = Append(@, x)]
  BY SendSteps
<1>2. /\ x \in relay[r].todo
      /\ relay'[r].todo = relay[r].todo \ {x}
      /\ relay'[r].bad = IF part = "ok" THEN relay[r].bad ELSE relay[r].bad \cup {x}
      /\ \A s \in Relays \ {r} : relay'[s] = relay[s]
  BY <1>1, SendSteps, MovedParts DEF BatchInv
<1>3. relay'[r].skipped = relay[r].skipped
  BY <1>1 DEF Moved, BatchInv, TypeOK, Batches
<1>4. part = "ok" => Positions(x)' # {}
  BY <1>1, AppendCopies DEF BatchInv
<1>5. SUFFICES ASSUME NEW s \in Relays, NEW d \in relay'[s].todo, NEW e \in Events,
                      Waits(e, d)'
               PROVE  e \in relay'[s].todo \cup relay'[s].bad \cup relay'[s].skipped
  BY DEF CauseInv
<1>6. d \in relay[s].todo /\ d \in Events /\ row[d].state = "committed"
  BY <1>2, HeldType DEF BatchInv, HeldPending, Held
<1>7. Waits(e, d)
  BY <1>5, <1>6, WaitsKept, Zenon
<1>8. e \in relay[s].todo \cup relay[s].bad \cup relay[s].skipped
  BY <1>6, <1>7 DEF CauseInv
<1>9. part = "ok" => e # x
  BY <1>4, <1>5 DEF Waits
<1> QED BY <1>2, <1>3, <1>8, <1>9

\* Steps that leave the batches alone, or empty one.
LEMMA QuietCause ==
  ASSUME OrderInv, Next,
         \A s \in Relays : relay'[s] = relay[s] \/ relay'[s] = NoBatch
  PROVE  CauseInv'
<1> USE DEF OrderInv
<1>1. SUFFICES ASSUME NEW s \in Relays, NEW d \in relay'[s].todo, NEW e \in Events,
                      Waits(e, d)'
               PROVE  e \in relay'[s].todo \cup relay'[s].bad \cup relay'[s].skipped
  BY DEF CauseInv
<1>2. relay'[s] = relay[s]
  BY DEF NoBatch
<1>3. d \in relay[s].todo /\ d \in Events /\ row[d].state = "committed"
  BY <1>2, HeldType DEF BatchInv, HeldPending, Held
<1>4. Waits(e, d)
  BY <1>1, <1>3, WaitsKept, Zenon
<1> QED BY <1>2, <1>3, <1>4 DEF CauseInv

LEMMA NextCause == OrderInv /\ [Next]_vars => CauseInv'
<1> SUFFICES ASSUME OrderInv, [Next]_vars PROVE CauseInv'
  OBVIOUS
<1>1. CASE UNCHANGED vars
  BY <1>1 DEF vars, OrderInv, CauseInv, Waits, Before, Positions
<1>2. CASE Next
  <2>1. ASSUME NEW e \in Events, BeginWrite(e) \/ CommitWrite(e) \/ AbortWrite(e)
        PROVE  CauseInv'
    BY <1>2, <2>1, QuietCause DEF BeginWrite, CommitWrite, AbortWrite
  <2>2. ASSUME NEW r \in Relays, CommitBatch(r) \/ CrashBatch(r)
        PROVE  CauseInv'
    <3>1. relay' = [relay EXCEPT ![r] = NoBatch]
      BY <2>2 DEF CommitBatch, CrashBatch
    <3>2. \A s \in Relays : relay'[s] = relay[s] \/ relay'[s] = NoBatch
      BY <3>1 DEF OrderInv, BatchInv, TypeOK
    <3> QED BY <1>2, <3>2, QuietCause
  <2> QED BY <1>2, <2>1, <2>2, ClaimCause, SendCause DEF Next
<1> QED BY <1>1, <1>2

LEMMA OrderSound == Spec => []OrderInv
<1>1. Init => OrderInv
  <2>1. Init => CauseInv
    BY DEF Init, CauseInv, NoBatch
  <2> QED BY <2>1, InitBatch, InitCopies DEF OrderInv
<1>2. OrderInv /\ [Next]_vars => OrderInv'
  BY NextBatch, NextCopies, NextCause DEF OrderInv
<1> QED BY <1>1, <1>2, PTL DEF Spec

\* The step property of OvertakenOnlyForCause, without its box.
LEMMA OvertakingStep ==
  ASSUME OrderInv, Next, NEW d \in Events, NEW e \in Events,
         Before(e, d), Overtakes(d, e), row[e].attempts = 0
  PROVE  \E r \in Relays :
           d \in relay[r].todo /\ e \in relay[r].bad \cup relay[r].skipped
<1> USE DEF OrderInv
<1>1. PICK r \in Relays, x \in Events :
             SendOk(r, x) \/ SendFails(r, x) \/ SendTimesOut(r, x)
  <2>1. log' # log
    BY DEF Overtakes, BatchInv, TypeOK
  <2> QED BY <2>1 DEF Next, BeginWrite, CommitWrite, AbortWrite, ClaimBatch,
                      CommitBatch, CrashBatch
<1>2. x = d
  <2>1. log[Key[d]] \in Seq(Events) /\ Key[d] \in Keys /\ Key[x] \in Keys
    BY RelayAssumption DEF BatchInv, TypeOK
  <2>2. log' = log \/ log' = [log EXCEPT ![Key[x]] = Append(@, x)]
    BY <1>1, SendSteps
  <2>3. log'[Key[d]] # log[Key[d]]
    BY <2>1 DEF Overtakes
  <2>4. log'[Key[d]] = Append(log[Key[d]], x)
    BY <2>1, <2>2, <2>3 DEF BatchInv, TypeOK
  <2> QED BY <2>1, <2>4 DEF Overtakes
<1>3. d \in relay[r].todo
  BY <1>1, <1>2, SendSteps
<1>4. Waits(e, d)
  BY DEF Waits, Overtakes
<1>5. e \in relay[r].todo \cup relay[r].bad \cup relay[r].skipped
  BY <1>3, <1>4 DEF CauseInv
<1>6. e \notin relay[r].todo
  <2>1. row[e].at \in Nat /\ row[d].at \in Nat /\ row[e].at < row[d].at
    BY <1>4 DEF Waits, Before, BatchInv, TypeOK, Rows
  <2>2. \A y \in relay[r].todo : row[d].at <= row[y].at
    BY <1>1, <1>2 DEF SendOk, SendFails, SendTimesOut, IsNext
  <2> QED BY <2>1, <2>2
<1> QED BY <1>3, <1>5, <1>6

\* CLAIM_BATCH's order is lost only for a cause: for any number of relays and
\* any batch size, a batch boundary, a duplicate or a crash does not reorder.
THEOREM OvertakingExplained == Spec => OvertakenOnlyForCause
<1>1. OrderInv /\ [Next]_vars =>
        [\A d, e \in Events :
           Before(e, d) /\ Overtakes(d, e) =>
             \/ row[e].attempts > 0
             \/ \E r \in Relays :
                  d \in relay[r].todo /\ e \in relay[r].bad \cup relay[r].skipped]_vars
  <2> SUFFICES ASSUME OrderInv, Next, NEW d \in Events, NEW e \in Events,
                      Before(e, d), Overtakes(d, e)
               PROVE  \/ row[e].attempts > 0
                      \/ \E r \in Relays :
                           d \in relay[r].todo /\ e \in relay[r].bad \cup relay[r].skipped
    OBVIOUS
  <2>1. row[e].attempts \in Nat
    BY RelayAssumption DEF OrderInv, BatchInv, TypeOK, Rows
  <2> QED BY <2>1, OvertakingStep
<1> QED BY <1>1, OrderSound, PTL DEF Spec, OvertakenOnlyForCause

-----------------------------------------------------------------------------
(***************************************************************************)
(* The channel                                                             *)
(***************************************************************************)
\* A write that commits is a change that happens, a send that reaches the
\* broker delivers an event of one that has happened, and nothing else shows.
LEMMA ChannelStep == BatchInv /\ [Next]_vars => [Channel!ChannelNext]_(Channel!channelVars)
<1> SUFFICES ASSUME BatchInv, [Next]_vars
             PROVE  Channel!ChannelNext \/ UNCHANGED <<committed, log>>
  BY DEF Channel!channelVars
<1> USE DEF Channel!ChannelNext
<1>1. ASSUME NEW e \in Events, CommitWrite(e) PROVE Channel!Happen(e)
  <2>1. row[e].state # "committed"
    BY <1>1 DEF CommitWrite
  <2>2. \A i \in DOMAIN committed : committed[i] # e
    BY <2>1 DEF BatchInv, CommittedRows
  <2> QED BY <1>1, <2>2 DEF CommitWrite, Channel!Happen
<1>2. ASSUME NEW r \in Relays, NEW e \in Events,
             SendOk(r, e) \/ SendFails(r, e) \/ SendTimesOut(r, e)
      PROVE  Channel!Deliver(e) \/ UNCHANGED <<committed, log>>
  <2>1. \E i \in DOMAIN committed : committed[i] = e
    BY <1>2, SendSteps DEF BatchInv, HeldPending, Held, CommittedRows
  <2> QED BY <1>2, <2>1, SendSteps DEF Channel!Deliver
<1>3. ASSUME NEW e \in Events, BeginWrite(e) \/ AbortWrite(e)
      PROVE  UNCHANGED <<committed, log>>
  BY <1>3 DEF BeginWrite, AbortWrite
<1>4. ASSUME NEW r \in Relays, ClaimBatch(r) \/ CommitBatch(r) \/ CrashBatch(r)
      PROVE  UNCHANGED <<committed, log>>
  BY <1>4 DEF ClaimBatch, CommitBatch, CrashBatch
<1>5. CASE UNCHANGED vars
  BY <1>5 DEF vars
<1> QED BY <1>1, <1>2, <1>3, <1>4, <1>5 DEF Next

\* The outbox with its relays, failures and crashes implements EventChannel: an
\* event never describes a change that was rolled back.
THEOREM OutboxIsChannel == Spec => ImplementsChannel
<1>1. Init => Channel!ChannelInit
  BY DEF Init, Channel!ChannelInit
<1> QED BY <1>1, ChannelStep, BatchesSound, PTL
        DEF Spec, ImplementsChannel, Channel!ChannelSpec
=============================================================================
