---------------------------- MODULE OutboxRelay -----------------------------
(***************************************************************************)
(* The transactional outbox and its relay: services write an event row in  *)
(* the transaction of the change it describes (record_event), and relay    *)
(* processes poll claims.outbox, publish to Kafka and mark the rows        *)
(* (services/outbox-relay/relay/main.py).                                  *)
(*                                                                         *)
(* A relay holds the row locks of its batch, and its marks stay private,   *)
(* until the one transaction of _drain_once commits; what it has sent is   *)
(* in the broker's log at once.  created_at of a row is the start time of  *)
(* the writer's transaction, so rows need not become visible in that order *)
(***************************************************************************)
EXTENDS Integers, Sequences, FiniteSets

CONSTANTS
  Events,       \* event identities
  Keys,         \* aggregate ids; a partition carries one of them
  Key,          \* Key[e]: the aggregate of e, its partition key
  Relays,       \* relay processes
  BatchSize,    \* settings.batch_size
  MaxAttempts,  \* settings.max_attempts
  Flaky,        \* events whose send may raise, now and then or always: the
                \* broker is down, the answer late, the envelope malformed
  MaxCrashes    \* bound: relay transactions that die before they commit

ASSUME RelayAssumption ==
  /\ Key \in [Events -> Keys]
  /\ BatchSize \in Nat \ {0} /\ MaxAttempts \in Nat \ {0}
  /\ Flaky \subseteq Events
  /\ MaxCrashes \in Nat

VARIABLES
  row,        \* row[e]: the outbox row of e
  clock,      \* the next transaction start time
  committed,  \* auxiliary: events in commit order
  log,        \* the broker: log[k] is the partition of key k
  relay,      \* relay[r]: the batch transaction r has open
  crashes     \* bounds the crashes

vars == <<row, clock, committed, log, relay, crashes>>

Rows == [state : {"none", "open", "committed", "aborted"}, at : Nat,
         published : BOOLEAN, attempts : 0..MaxAttempts]

\* todo is what _drain_once has yet to send; ok and bad are the rows it has
\* marked published or failed inside its open transaction; skipped is
\* auxiliary: the rows another relay held when this batch was claimed.
Batches == [todo : SUBSET Events, ok : SUBSET Events, bad : SUBSET Events,
            skipped : SUBSET Events]

NoBatch == [todo |-> {}, ok |-> {}, bad |-> {}, skipped |-> {}]

Held(r) == relay[r].todo \cup relay[r].ok \cup relay[r].bad

Init ==
  /\ row = [e \in Events |-> [state |-> "none", at |-> 0,
                              published |-> FALSE, attempts |-> 0]]
  /\ clock = 0
  /\ committed = << >>
  /\ log = [k \in Keys |-> << >>]
  /\ relay = [r \in Relays |-> NoBatch]
  /\ crashes = 0

(***************************************************************************)
(* The writers: any handler that calls record_event                        *)
(***************************************************************************)
\* The writer's transaction starts: created_at is fixed.
BeginWrite(e) ==
  /\ row[e].state = "none"
  /\ row' = [row EXCEPT ![e].state = "open", ![e].at = clock]
  /\ clock' = clock + 1
  /\ UNCHANGED <<committed, log, relay, crashes>>

\* The change and its event row commit together ...
CommitWrite(e) ==
  /\ row[e].state = "open"
  /\ row' = [row EXCEPT ![e].state = "committed"]
  /\ committed' = Append(committed, e)
  /\ UNCHANGED <<clock, log, relay, crashes>>

\* ... or neither does.
AbortWrite(e) ==
  /\ row[e].state = "open"
  /\ row' = [row EXCEPT ![e].state = "aborted"]
  /\ UNCHANGED <<clock, committed, log, relay, crashes>>

(***************************************************************************)
(* The relay                                                               *)
(***************************************************************************)
Unlocked(e) == \A r \in Relays : e \notin Held(r)

\* mutant: FOR UPDATE without SKIP LOCKED's exclusion.
PendingAll ==
  {e \in Events : /\ row[e].state = "committed"
                  /\ ~row[e].published /\ row[e].attempts < MaxAttempts}

\* mutant: the relay reads rows of transactions that are still open.
PendingDirty ==
  {e \in Events : /\ row[e].state \in {"open", "committed"}
                  /\ ~row[e].published /\ row[e].attempts < MaxAttempts
                  /\ Unlocked(e)}

\* mutant: attempts is not looked at.
PendingForEver ==
  {e \in Events : /\ row[e].state = "committed"
                  /\ ~row[e].published
                  /\ Unlocked(e)}

\* The WHERE of CLAIM_BATCH, with SKIP LOCKED.
Pending ==
  {e \in Events : /\ row[e].state = "committed"
                  /\ ~row[e].published /\ row[e].attempts < MaxAttempts
                  /\ Unlocked(e)}

\* CLAIM_BATCH: the BatchSize oldest pending rows by created_at.
OldestPending ==
  {e \in Pending :
     Cardinality({d \in Pending : row[d].at < row[e].at}) < BatchSize}

ClaimBatch(r) ==
  /\ relay[r] = NoBatch
  /\ Pending # {}
  /\ relay' = [relay EXCEPT ![r].todo = OldestPending,
                            ![r].skipped = UNION {Held(q) : q \in Relays}]
  /\ UNCHANGED <<row, clock, committed, log, crashes>>

\* mutant: the batch is sent in any order.
AnyOrder(r, e) == e \in relay[r].todo

\* The rows of a batch are sent in created_at order.
IsNext(r, e) ==
  /\ e \in relay[r].todo
  /\ \A d \in relay[r].todo : row[e].at <= row[d].at

\* _publish succeeds: send_and_wait, then MARK_PUBLISHED.
SendOk(r, e) ==
  /\ IsNext(r, e)
  /\ log' = [log EXCEPT ![Key[e]] = Append(@, e)]
  /\ relay' = [relay EXCEPT ![r].todo = @ \ {e}, ![r].ok = @ \cup {e}]
  /\ UNCHANGED <<row, clock, committed, crashes>>

\* _publish raises before the broker has the event: MARK_FAILED, and the
\* loop goes on with the next row.
SendFails(r, e) ==
  /\ IsNext(r, e)
  /\ e \in Flaky
  /\ relay' = [relay EXCEPT ![r].todo = @ \ {e}, ![r].bad = @ \cup {e}]
  /\ UNCHANGED <<row, clock, committed, log, crashes>>

\* send_and_wait raises, yet the broker has the event: the answer was lost.
SendTimesOut(r, e) ==
  /\ IsNext(r, e)
  /\ e \in Flaky
  /\ log' = [log EXCEPT ![Key[e]] = Append(@, e)]
  /\ relay' = [relay EXCEPT ![r].todo = @ \ {e}, ![r].bad = @ \cup {e}]
  /\ UNCHANGED <<row, clock, committed, crashes>>

\* mutant: MARK_FAILED stores the error and forgets the attempt.
MarkUncounted(b, e) == [row[e] EXCEPT !.published = @ \/ e \in b.ok]

\* MARK_PUBLISHED and MARK_FAILED of batch b as they apply to the row of e.
Marked(b, e) ==
  [row[e] EXCEPT !.published = @ \/ e \in b.ok,
                 !.attempts = IF e \in b.bad THEN @ + 1 ELSE @]

\* The end of session.begin(): the marks of the whole batch commit at once.
CommitBatch(r) ==
  /\ relay[r] # NoBatch
  /\ relay[r].todo = {}
  /\ row' = [e \in Events |-> Marked(relay[r], e)]
  /\ relay' = [relay EXCEPT ![r] = NoBatch]
  /\ UNCHANGED <<clock, committed, log, crashes>>

\* The relay is killed or its database fails: the transaction rolls back,
\* what was sent stays sent.  run() logs and polls again.
CrashBatch(r) ==
  /\ relay[r] # NoBatch
  /\ crashes < MaxCrashes
  /\ relay' = [relay EXCEPT ![r] = NoBatch]
  /\ crashes' = crashes + 1
  /\ UNCHANGED <<row, clock, committed, log>>

Send(r) ==
  \E e \in Events : SendOk(r, e) \/ SendFails(r, e) \/ SendTimesOut(r, e)

Next ==
  \/ \E e \in Events : BeginWrite(e) \/ CommitWrite(e) \/ AbortWrite(e)
  \/ \E r \in Relays :
       \/ ClaimBatch(r)
       \/ \E e \in Events : SendOk(r, e)
       \/ \E e \in Events : SendFails(r, e)
       \/ \E e \in Events : SendTimesOut(r, e)
       \/ CommitBatch(r)
       \/ CrashBatch(r)

Spec == Init /\ [][Next]_vars

Work(r) == ClaimBatch(r) \/ Send(r) \/ CommitBatch(r)

\* run() polls again within poll_interval_seconds whatever happened, every
\* send ends, and the batch commits.  How a send ends is the broker's choice.
FairSpec == Spec /\ \A r \in Relays : WF_vars(Work(r))

-----------------------------------------------------------------------------
(***************************************************************************)
(* Properties                                                              *)
(***************************************************************************)
Positions(e) == {i \in DOMAIN log[Key[e]] : log[Key[e]][i] = e}

Parked(e) == row[e].attempts >= MaxAttempts

\* Type invariant of the outbox, the log and the open batches; no row is
\* tried more than MaxAttempts times, however many relays there are.
TypeOK ==
  /\ row \in [Events -> Rows]
  /\ clock \in Nat
  /\ committed \in Seq(Events)
  /\ log \in [Keys -> Seq(Events)]
  /\ relay \in [Relays -> Batches]
  /\ crashes \in 0..MaxCrashes

\* FOR UPDATE SKIP LOCKED: two relays never work on the same row, so adding
\* relays never multiplies an event.
BatchesDisjoint ==
  \A r, s \in Relays : r # s => Held(r) \cap Held(s) = {}

\* MARK_PUBLISHED and MARK_FAILED: an event marked published is on its topic,
\* and every copy beyond the first has a cause the design accepts: a counted
\* failed attempt, or a batch whose transaction died.
CopiesAccounted ==
  \A e \in Events :
    /\ row[e].published => Positions(e) # {}
    /\ Cardinality(Positions(e)) <=
         1 + row[e].attempts + crashes
           + Cardinality({r \in Relays : e \in relay[r].bad})

\* e and d belong to one aggregate, and e came first by both clocks.
Before(e, d) ==
  /\ Key[e] = Key[d] /\ row[e].at < row[d].at
  /\ \E i, j \in DOMAIN committed : i < j /\ committed[i] = e /\ committed[j] = d

\* The step puts d on the topic while e has never been there.
Overtakes(d, e) ==
  /\ Len(log'[Key[d]]) > Len(log[Key[d]])
  /\ log'[Key[d]][Len(log'[Key[d]])] = d
  /\ Positions(e) = {}

\* CLAIM_BATCH's ORDER BY: a later event of an aggregate gets ahead of an
\* earlier one only where a send of the earlier one has failed, in this batch
\* or before, or another relay had it locked when the batch was claimed;
\* batch boundaries, duplicates and crashes alone do not reorder.
OvertakenOnlyForCause ==
  [][\A d, e \in Events :
       Before(e, d) /\ Overtakes(d, e) =>
         \/ row[e].attempts > 0
         \/ \E r \in Relays :
              d \in relay[r].todo /\ e \in relay[r].bad \cup relay[r].skipped]_vars

Channel == INSTANCE EventChannel

\* models/outbox.py: "an event can never describe a change that was rolled
\* back": the outbox, the relays and their crashes implement EventChannel.
ImplementsChannel == Channel!ChannelSpec

\* attempts < max_attempts: the outbox drains again and again; every
\* committed row is published or, if its sends fail, parked, and a failing row
\* never keeps the healthy ones from the topic.
OutboxDrains ==
  []<>(\A e \in Events : row[e].state = "committed" =>
         row[e].published \/ (e \in Flaky /\ Parked(e)))
-----------------------------------------------------------------------------
(***************************************************************************)
(* What the documentation says and the code does not keep                  *)
(***************************************************************************)
\* README.md:53-54: "keying on claim_id means a claim's own events can never
\* overtake each other".
NeverOvertaken == [][\A d, e \in Events : Before(e, d) => ~Overtakes(d, e)]_vars
=============================================================================
