# Claims Intelligence in TLA+

Specifications, model-checking runs and machine-checked proofs for the claims
platform of this repository: an API that owns insurance claims, an outbox relay
that publishes their events to Kafka, two workers that extract documents and
assess claims with a language model, and a dashboard. Paths below are relative
to the repository; `claims-api` stands for `services/claims-api/app`.

## The system

```
 browser ──HTTP──> claims-api ──tx──> claims.claims, history, claims.outbox
    ^                 ^  |                                │
    │ WebSocket       │  └ upload: documents, outbox      │ poll, FOR UPDATE SKIP LOCKED
    │                 │                                   v
    └── manager <── consumer <── Kafka <────────── outbox-relay
                                  │ document.uploaded          ^
                                  ├──> ingestion-worker ──tx───┤ document.extracted
                                  └──> decision-worker  ──tx───┘ assessment.completed
```

Everything that must not be lost goes through PostgreSQL; every event is a row
of `claims.outbox` written in the transaction of the change it describes. Kafka
delivers at least once, and consumers keep a ledger, `claims.processed_events`,
written in the transaction of their effect.

| Component | State | Operations | Hard part |
|---|---|---|---|
| State machine, `claims-api/services/claim_state_machine.py` | none (a table) | `evaluate`, `available_transitions` | guard order; two functions that must agree |
| Claim lifecycle, `claims-api/services/claim_service.py` | claim row, history, outbox rows, row lock | `create_claim`, `transition_claim`, `apply_assessment` | concurrent transactions whose `now()` is their start, not their commit |
| Outbox and relay, `services/outbox-relay/relay/main.py` | outbox rows, open batches, topics | claim a batch, publish, mark, commit | several relays; a batch transaction around many sends; lost answers; crashes |
| Read-model consumer, `claims-api/events/consumer.py` | positions and offsets per replica, ledger | handle `assessment.completed`, broadcast | every replica races for every event; restarts replay the topic |
| Ingestion worker, `services/ingestion-worker/worker` | offsets, ledger, extractions, document status | read file, call the model, record | the model call lies between two transactions; an exception ends the process |
| Decision worker, `services/decision-worker/decider/main.py` | offsets, ledger, assessments | read, assess, record, dead-letter | the model call lies inside the transaction; a failed message in a batch; two documents of a claim in two partitions |
| Embedder, assessor, retriever, seeder, `services/decision-worker/decider` | embedding cache, usage rows, evidence, the tables that are searched | embed with cache and retries, call the model, search and merge, fill the tables | cache keys inserted in transactions that stay open over model calls; what is paid for when a call fails; searches in several statements |
| Document upload, `claims-api/services/document_service.py` | documents, files | upload with duplicate test | check-then-insert without a unique constraint |
| Login throttle, `claims-api/services/rate_limit_service.py` | one bucket per address | consume, reset | window rollover in one statement, by a clock that stood still while the statement waited |
| WebSocket manager and stream, `claims-api/ws/manager.py`, `routers/stream.py` | the connections of a replica | register, unregister, broadcast | sends to a snapshot while sockets come and go |
| Dashboard stream, `frontend/.../claim-stream.service.ts` | socket, timers, flags | connect, disconnect, reconnect | callbacks of an old socket after a new one was opened |
| Queue view, `frontend/.../claim-queue.ts` | page, filter, requests in flight | load, refetch on events | responses out of order; effects that make each other due |
| Detail view, metrics exporter, drain tool, accounts, shared event library, migrations, infrastructure | | | see "Not modelled" |

What makes each correct, in a sentence: a claim's status, audit trail and events
never disagree and every move is one the table gives to the person who made it;
what is committed is published or, after as many failed attempts as are allowed,
parked, and nothing else is; each event has its effect once, in order; each document that is uploaded leads to an assessment that has seen
it; the assessment shown has seen all that was assessed, from evidence that
exists; what the models charge is booked; the browser shows what the server last
said.

## Modules

| Module | What it is |
|---|---|
| `ClaimStateMachine` | the table and its two functions as operators |
| `ClaimTrail` | abstract: a claim has a status, a trail and events that change together |
| `ClaimLifecycle` | the claims API over PostgreSQL; implements `ClaimTrail` |
| `EventChannel` | abstract: a topic carries only events of committed changes and takes nothing back |
| `OutboxRelay` | writers, relays and the broker; implements `EventChannel` |
| `OnceEach` | abstract: every event has its effect at most once, after it was published |
| `ReadModelConsumer` | the consumers of the API replicas; implements `OnceEach` |
| `DocumentTopic` | what both workers share: topic, groups, the poll loop, the tables they meet in |
| `IngestionWorker` | the handler of the ingestion worker |
| `DecisionWorker` | the handler of the decision worker |
| `DocumentPipeline` | composes the three for the documents of one claim; properties |
| `ClaimStream` | the dashboard's connection to the API, its session and the handshake |
| `RateLimiter` | logins from one address behind the throttle |
| `DocumentUpload` | uploads to a claim: duplicate test, file, transaction |
| `Intake` | composes the two: who is signed in uploads; properties |
| `WsManager` | the connections of a replica, their coroutines, the broadcast |
| `ClaimQueue` | the queue page and the list endpoint |
| `LiveView` | composes the two with consumer, topic and connection pool: how a change reaches the page; properties |
| `Embedder` | the embedding cache in the transactions of several processes |
| `Retriever` | the searches of an assessment and their merge |
| `Assessment` | composes the two: the transactions of decision workers beside the seeder; properties |
| `MC...` | the instance of a module that TLC checks |
| `..._proofs` | theorems about a module and their proofs |

### ClaimLifecycle

`row`, `history`, `outbox` and `ledger` are the committed rows of a claim (of the
ledger the assessments taken for it, whose races `ReadModelConsumer` has), `lock`
its row lock, `tx` the open transactions with what they have read, `clock` the next
value of `now()`. A request is three steps: `Begin` (the session's first
statement, the user lookup of `get_current_user` or the ledger insert of the
consumer, fixes `now()`), `LockClaim` (`with_for_update=True`, then the reads
under the lock, `_escalated_by` among them) and one of `TransitionClaim`,
`RejectTransition`, `ApplyAssessment` or `Abort`. Writes become visible, and
the lock is released, in the commit, so they are one step. `created_at` of a
history row is the `at` of its transaction. `CreateClaim` is one step because
nobody knows a claim before it is committed. Policy number, amounts claimed,
reasons, claim numbers and metrics are left out; reads (`list_claims`,
`get_history`) change nothing.

### OutboxRelay

`row` holds the outbox rows with the transaction of their writer still open,
committed or rolled back, `relay` the batch each relay has in hand. The rows of
a batch stay locked, and its marks invisible, until the one transaction of
`_drain_once` ends; what it sends is in `log` at once. A send succeeds, fails
before the broker has the record, or fails although the broker has it. Key and
topic of an event are one name, `Key[e]`: a topic's partition is chosen by the
aggregate id.

### ReadModelConsumer

One claim, so one partition. A replica fetches a batch (its position moves past
it), handles message after message, and commits the position as its offset
unless a message failed. `INSERT ... ON CONFLICT DO NOTHING` waits for another
transaction that has the key; `InsertKey` is enabled only when no such
transaction is open. `Restart` brings a new process with a new group at the
earliest message, `Rejoin` sends a process back to its committed offset.

### DocumentTopic, IngestionWorker, DecisionWorker, DocumentPipeline

`log`, `offset` and `owner` are Kafka's (partitions, committed offsets, and who
has a partition), `loop` is the running `run()` of each process: what of the
batch of the last `getmany` is still to handle, as a set of places of the log
with the one in hand, whether a message of it failed, and the positions. A
batch is handled partition after partition and in order within each
(`NextPlaces`). `ledger`, `extractions` and `deadLetters` are committed rows;
`documents.processing_status` is the last element of `extractions[d]`.

What is assumed of aiokafka, from how the workers use it: `getmany` returns
everything there is of some of the partitions the process has and moves their
positions at once; `commit()` without arguments commits the positions of the
partitions the process still has; a process that gets a partition starts at the
committed offset, and one that loses it keeps the batch it has in hand. The
last is what happens when model calls with their retries outlast
`max_poll_interval_ms`. Messages whose type a handler returns from at once are
skipped in `Fetch`.

The ingestion handler is three steps because it is three: the ledger test in a
transaction of its own, the model call outside any, the record. An exception
ends the process (`Crash`). The decision handler is one transaction in three
steps: `Begin` fixes `now()`, `ReadClaim` is the ledger INSERT with the reads
that follow it (the INSERT waits for another open transaction with its key, and
the reads see what is committed when they run), then `Assess`, `GiveUp` or
`Raise`. `Now` is a clock of which only the order matters. What happens inside
the transaction, up to `Assess`, `GiveUp` or `Raise`, is the subject of
`Assessment`.

### ClaimStream

`socket`, `reconnect`, `heartbeat`, `deliberate` and `state` are the fields of
the service, `attempt` is whether the count of attempts is above 0 (its value
only sets the delay). A browser runs one task at a time, so a handler is one
step; between handlers come the tasks that are queued: the effect that follows
the session (`followed` is what it last saw), the timer, and the events of each
WebSocket. `ready[s]` is the socket's `readyState`, and `handshake[s]` the token
sent on it and then the verdict of `_authenticate` in
`claims-api/routers/stream.py`. `close()` returns with the socket "closing"; its
close event is a later step, of any socket at any time. `Login` needs an answer
of the server and so waits until the effect of the last logout has run. The
feed of events is left out.

### RateLimiter, DocumentUpload, Intake

Time is in ticks, several to a second, because `Retry-After` is rounded to
seconds and `window_start` is not. `bucket` is the row of the address, `login`
the call each client has in flight. `BeginLogin` fixes `now()`, `Consume` is the
upsert, which may have waited for the row lock in between (at most `MaxWait`
ticks); it is one step because statement and commit follow each other.
`RightPassword` is `authenticate` with the `reset` that deletes the row. Three
variables are history: `checks` is the set of password checks since the last
successful login that are not older than a window, each with its time and its
number, `waited` records an upsert that ran later than its `now()`, `refused` sums up the
refusals of the window. The counter is capped one above the limit, because the
code only compares it with the limit.

`documents` and `outbox` are committed rows, `files` what the storage holds,
`upload` the request each browser has in flight: `Post`, the duplicate test with
its three outcomes (`scalar_one_or_none` raises for more than one row),
`SaveFile`, `CommitDocument`. `AbandonUpload` ends it anywhere and takes nothing
back but the transaction. `Intake` couples the two by `get_current_user`: only
who has signed in posts.

### WsManager, ClaimQueue, LiveView

`WsManager` has two views of a socket: `up` (the browser has it open) and
`stage` (the coroutine `claims_stream` of the replica). A socket that breaks is
noticed later, by `Unregister` or by a send that raises. `connections`, `gauge`
and the snapshot of a broadcast are those of `ConnectionManager`; the lock there
is never held across an await, so its sections are one step each and every send
of a broadcast is one of its own. The greeting is sent outside the `try` whose
`finally` unregisters: `Register` has an outcome in which it raises.

`ClaimQueue` has the signals of the page (`query`, `lastEvent`, `page`, `error`)
and the effects that are due. `tracks` is Angular's dependency tracking: the
event effect reads the filter only when the last event was a claim's, and then a
change of the filter runs both effects and sends two requests. A request counts
the claims and then lists them, in two statements; nothing cancels a request.
The rows of an answer come in the order of `created_at`, so an answer is the set
of its rows; no claim is created while the page is looked at, and `Claims` and
`CreatedAt` are constants.

`LiveView` is one replica. `topic[e]` is how many events of a kind are still to
come (submitted and status changes are one kind, the assessments of each claim
another); the relay brings them to two topics of several partitions, and which
comes next is open. The consumer broadcasts a status change as it comes in and
an assessment after its own commit; `Apply` is `apply_assessment`, and when it
triages a submitted claim, it puts the `claim.status_changed` of that move on the
topic, in the same commit. Sends reach the page (`Receive`) or get lost with a
socket. `AppliedElsewhere` is another replica that wins the ledger row: this one
says nothing then, but a triage comes to its clients by the event of the move,
so that only a rescoring of a claim past submitted goes unannounced.

Serving a socket keeps a connection of the pool (`stream.py:62` holds the session
of the user lookup for the life of the socket), and so does a list request; when
the pool is empty, registrations and requests fail and a handler raises. `Mine`
are the sockets of the page, the others those of other pages, open when the page
is opened (any set of them that the pool has room for) or opened later.
`MaxDisturbances` bounds what the system does not do of itself: changes of
claims, clicks, breaks, and pages opened by others. `missed` and `late` are
history, on the page and on every answer in flight.

### Embedder, Retriever, Assessment

A process (decision worker or seeder) looks its texts up in the committed
`cache`, has the missing ones embedded in batches with retries, and inserts them
one after the other; which are missing, and which it has by now, are sets of
places of its list of texts. `own` are the keys its open transaction has inserted:
`InsertCached` is enabled only when no other open transaction has the key, which
is how `INSERT ... ON CONFLICT` waits. `money` is what the open transaction has
cost: `charged` by the API, `counted` by the code, `booked` in `ai_usage`.

`Retriever` has the searches as the nearest rows of what is committed when they
run, and `Merged`, the loop of `gather()` that keeps each row with the query
it is most similar to.

`Assessment` is one claim with several documents. `work[w]` is the handler of a
worker: `Begin` fixes `now()`, `Read` reads the extractions, then embedding,
one step for each search, the model with its retries, and `Commit`. `named` in
`ModelAnswers` is any set of sources, made-up ones included. The ledger and the
redelivery that `DecisionWorker` models come down to: an event is handled by
one transaction at a time, and again until one commits. `LatestForClaim` is the
query of `claims-api/services/assessment_service.py`.

## Runs

| Run | Question | Bounds |
|---|---|---|
| `ClaimLifecycle` | Do the claim, its row, its trail and its amounts stay right under concurrent sessions, and do they implement `ClaimTrail`? | one claim (claims share nothing), an adjuster who may approve 1 and a senior who may approve 2, amounts 1 to 3, two sessions, six transactions, two assessments: enough to escalate, return, escalate again and approve, and to score a claim before and after a person has taken it; sessions and assessments are interchangeable |
| `ClaimLifecycleFourEyes` (violated) | README.md:78-80 | |
| `OutboxRelay` | Is nothing published too early, twice without a cause, out of order without a cause, or never? | two relays, two events of one aggregate and one of another, batches of two, two attempts, one crash |
| `OutboxRelayOvertaken` (violated) | README.md:53-54 | one relay, no crash |
| `ReadModelConsumer` | Is each assessment applied once, in order, and in the end? | two replicas, two assessments, three messages (so one duplicate), one failure, one restart or rejoin |
| `DocumentPipeline` | Does each event have one outcome, is each model call explained, do offsets never pass work that was not done, and does every document come to an assessment or a dead letter? | one document, two workers of each kind, one event published again, one rebalance, one crash, one handler that raises: one of each, at any moment, together |
| `DocumentPipelineDropped` (violated) | services/decision-worker/decider/main.py:89-92 | one worker of each kind, two documents |
| `ClaimStream` | Is there one socket, is the state shown true, is a refused token given up, does the connection come back? | three sessions, two connections that break, four sockets (one whose close event has come is used again, so four are never short) |
| `ClaimStreamOutlives` (violated) | claim-stream.service.ts:44-46 | two sessions, nothing breaks |
| `Intake` | How much does the throttle let through in the length of a window, is `Retry-After` honoured, and what do uploads leave behind? | two browsers, limit 2, windows of 2 s with 3 ticks each, 14 ticks (two windows and the start of a third, which a triple burst needs), waits of up to 2 ticks, the same bytes up to three times (a race of two and one that meets both rows); browsers are interchangeable |
| `LiveView` | When nothing is under way, does the page show what the list holds, is the gauge right, and is that state always reached? | two claims on pages of one row, two sockets of the page (the new one meets the old one that has not been noticed to be gone), two of other pages, a pool of two connections (so that others can keep all of it), two disturbances of any kind, two requests in flight |
| `Assessment` | Is spending counted, are paid embeddings kept, is the evidence what the searches hold, has the assessment shown seen everything assessed, and do transactions that wait for each other's keys end? | two workers, two documents, two requirements and the narrative in batches of two, two clauses that match both requirements and a precedent, two attempts, two faults, the seeder with two files |

The largest runs are those of the compositions: `Assessment` has 142,000
distinct states, `DocumentPipeline` 253,000, `LiveView` 459,000 and `Intake`
1.5 million.

Every cfg sets `CHECK_DEADLOCK FALSE`: a bounded system stops when its bounds
are spent, and an idle one waits for requests.

### Where the documentation and the code differ

* **FourEyes.** `_escalated_by` finds the newest history row by `created_at`,
  which is the start of the transaction that wrote it. Somebody whose
  transaction started early and waited for the row lock while another person
  escalated and a senior returned the claim escalates last with an older stamp;
  the lookup finds the other person, and the escalator may approve.
  `FourEyesInOrder`, which is proved, says that this is the only way.
* **NeverOvertaken.** A failed send does not stop the batch, and `SKIP LOCKED`
  lets a second relay go past the rows of the first. `OvertakenOnlyForCause`
  says that nothing else reorders a claim's events.
* **NothingDropped.** After a message that raised, the decision worker does not
  commit, but its position has moved on, and the next batch that succeeds
  commits past the failed message. Nothing redelivers it unless the process
  restarts or the partition moves in between. `OffsetsCoverWork` says that this
  is the only way in which an offset passes work that was not done.
* **NoneOutlivesSession.** `disconnect()` forgets the socket before its close
  event. If the next login connects first, that event clears the reference to
  the new socket (`claim-stream.service.ts:91`), and the next logout closes
  nothing. The other properties of `ClaimStream` hold unless a close event was
  overtaken in this way (`overtaken`).

Met while modelling, and visible in a property that names them instead of a run
of their own:

* README.md:73-75 has every replica tell its clients. The replica that loses the
  race for the ledger row returns before the broadcast (`consumer.py:128`). A
  triage reaches its clients by the `claim.status_changed` of the move
  (`claim_service.py:278`), which every replica broadcasts, but nothing tells
  them that a claim past submitted was scored again: `AppliedElsewhere` of
  `LiveView`, one of the causes `missed` stands for.
* A stream keeps the session of its user lookup, and with it a connection of the
  pool (`stream.py:62`, pool of default size in `core/db.py:10`), for as long as
  it lives. As many dashboards as the pool has connections keep every further
  page out, its socket and its list, for as long as they stay open. `Settles`
  names this outcome (`PoolTaken`); without it the property is violated.
* README.md:47-49: "a committed change can never fail to produce an event". The
  row is always there, but after `max_attempts` batches in which its send failed
  the relay leaves it alone (`relay/main.py:36`), and an outage that outlasts
  them is enough. `OutboxDrains` excepts such rows.
* `claim_state_machine.py:176-186` offers the moves of a role without looking at
  any guard, `FOUR_EYES` included, so the person who escalated a claim is offered
  its approval; the docstring speaks of amount-dependent guards only.
  `OffersAgree`, which is proved, says that offers and `evaluate` differ by
  nothing else than the guards.
* `document_service.py:42-44`: "the worker is never asked to extract the same
  content twice". Two uploads that are both past the duplicate test are both
  stored, and from then on `scalar_one_or_none` raises for every upload of those
  bytes to the claim. `DuplicatesExplained` says that only a race does this.
* `models/rate_limit.py:12-13`: "a burst of up to 2x the limit". So it is,
  unless an upsert waited for the row lock: its `now()` is older than the window
  that began meanwhile, and three limits fit into the length of one window
  (`BurstBounded`). Three is the most while no upsert waits longer than a window,
  which the theorem `WindowHolds` has as its hypothesis: whoever waits longer may
  find several windows to have passed, and as many limits fit (TLC finds this
  with a limit of 1, windows of one tick and waits of six). Nothing in the code
  bounds the wait. `Retry-After` is rounded to the nearest second, so a caller
  who comes back when told may be half a second early (`RetryAfterHonoured`).
* The queue page has no order of its own on answers: an older one that comes in
  last overwrites a newer page (`claim-queue.ts:101`), and it does not refetch
  when a broken stream is back. `QuietIsCurrent` says that, with the message
  that never came, these are the only ways in which a quiet page is wrong.
* A greeting that raises leaves its connection registered until a broadcast
  prunes it, and pruning does not set the gauge: `GaugeSettles` excepts it
  (`leaked`).
* The embedder's cache is meant to make a second seeding run free. The rows
  belong to the transaction of the run, so one that is interrupted pays again;
  so does a decision whose transaction rolls back, with its usage rows lost.
  `CacheKept` and `SpendCounted` speak of committed and of open transactions.

`approved -> settled` has no guard, and `settled_amount` is overwritten by the
settlement: the limit of an adjuster binds what they approve
(`ApprovedWithinAuthority`, proved), not what is paid.

## Fairness

* `OutboxRelay`: weak fairness of the work of each relay: `run` catches every
  exception and polls again within `poll_interval_seconds`. How a send ends is
  the broker's choice, without fairness.
* `ReadModelConsumer`: weak fairness of the loop of each replica; failures,
  restarts and rejoins are bounded, not fair.
* `DocumentPipeline`: weak fairness of the relay and of the loop of each worker
  (`run` is a `while` that awaits with time-outs, and the extractor and the
  assessor bound their retries). Rebalances, crashes, duplicates and handlers
  that raise are bounded, not fair.
* `ClaimStream`: weak fairness of the effect, the timer, and the events and the
  handshake of each socket: a browser runs its queued tasks, and
  `_authenticate` has a time-out. Sessions and broken connections are bounded,
  not fair.
* `LiveView`: weak fairness of the consumer's loop, of the coroutine of each
  socket, of the browser's effects, of the requests (each is answered or fails)
  and of a page without a socket, which opens one. Which answer comes first is
  free.
* `Assessment`: weak fairness of each worker and of the seeder; a wait for a
  cache key is a disabled step, so a circle of waits would show as a violation
  of `TransactionsEnd`. In PostgreSQL one of a circle would be aborted after
  `deadlock_timeout`; there is none because every process inserts the same texts
  in the same order (`Unique`). Faults and retries are bounded, not fair.

`ClaimLifecycle` and `Intake` are checked without fairness.

## Proofs

Each theorem is for every value of the constants: any number of claims, people,
events, relays, replicas, sockets, clients, workers, documents and rows, and any
value of the bounds. The assumptions are the named ASSUMEs of the modules, which
TLC evaluates in the runs (among them that there are finitely many claims with
distinct `created_at` in `ClaimQueue`, and finitely many sockets in `WsManager`),
and one hypothesis of one theorem, `MaxWait <= Window + 1` of `WindowHolds`.

| Module, theorem | Property | Along |
|---|---|---|
| `ClaimLifecycle_proofs` | | |
| `TypeCorrect` | `TypeOK` | inductive once an open transaction is known to have an actor and a claim |
| `RowLockProtects` | `LoadedIsCurrent` | inductive with `TypeOK`: only the holder of the row lock changes the row or its history |
| `AuditTrail` | `TrailIsPath` | from `LoadedIsCurrent`: the `from` a holder loaded is the status, so the new entry continues the path |
| `AuthorityRespected` | `ApprovedWithinAuthority` | from the same and `AllowedApproval`: both guards of every row into `approved` pass |
| `FourEyesKept` | `FourEyesInOrder` | if the history is stamped in order, its newest escalation by stamp is the last entry of a claim pending approval |
| `OffersAgree` | | the table has one row for each pair of statuses (`OneRow`), so the roles and guards that `evaluate` looks at are those of the row that `available_transitions` offers |
| `RowTold` | `RowTellsTrail` | the row's columns are set where trail and ledger are extended, under the lock |
| `LifecycleIsTrail` | `ImplementsTrail` | each commit maps to a step of `ClaimTrail`, every other step to a stutter |
| `OutboxRelay_proofs` | | along `RelayInv`, which adds to the properties that a row in a batch is committed and pending (`HeldPending`): a mark is private until its batch commits |
| `TypeCorrect` | `TypeOK` | |
| `SkipLockedWorks` | `BatchesDisjoint` | |
| `EveryCopyAccounted` | `CopiesAccounted` | the count of copies follows a row through its batches |
| `OvertakingExplained` | `OvertakenOnlyForCause` | an action property: what a batch sends next is its oldest, and what is older and pending is held or has failed |
| `OutboxIsChannel` | `ImplementsChannel` | a send is `Deliver` of a row that is committed |
| `ReadModelConsumer_proofs` | | |
| `TypeCorrect` | `TypeOK` | along `TxInv`: a transaction that has inserted its key is the only one with it, and an event is in the ledger exactly if it was applied |
| `OnceEachKept` | `ImplementsOnceEach` | from `TxInv`: the commit of an application is the step of `OnceEach` |
| `OrderKept` | `AppliedInOrder` | along `SeenInv`: until a handler fails, each loop has seen every earlier message applied |
| `ClaimStream_proofs` | | along `StreamInv`: `deliberate` is set only when the service has let go of socket and timer (`FlagInv`) |
| `TypeCorrect`, `OneSocketKept`, `StateShownIsTrue`, `RefusedOnceKept` | `TypeOK`, `OneSocket`, `StateIsTrue`, `RefusedOnce` | |
| `Intake_proofs` | | |
| `WindowHolds` | `WindowKept` | along `ThrottleInv`: of the checks remembered, those later than the start of the window (and its delay) are at most what its row let through, those of the window before add one limit, and all of them two (`BurstInv`, in terms of `Within`); who has begun is at most `MaxWait` behind the clock (`WaitInv`); what a refusal promised is the end of the window, rounded (`RetryInv`) |
| `UploadsStayWhole` | `UploadsKept` | along `StoreInv`: a file belongs to one upload or one row (`KeyInv`), and for an upload past the duplicate test whose content has a row by now, the content was raced for (`RaceInv`) |
| `TypeCorrect` | `TypeOK` | with what an upload in flight is entitled to (`Entitled`) |
| `Assessment_proofs` | | |
| `SpendIsCounted` | `SpendCounted` | every step keeps the account of every process in balance |
| `EvidenceStaysSound` | `EvidenceSound` | along `EvidenceInv`: the evidence of a handler is the merge of the queries asked so far over what each of them read (`Merge`, `MergeNext`), which is the tables it began with up to some search and those of now after it. The seeder commits only when rows are missing, so a handler sees at most one commit, and the searches it has done keep what they read (`MergeReads`) |
| `LatestSawAll` | `LatestSawAssessed` | along `SeenInv`: a transaction that has read has seen the document of every transaction that began before it. That a new `now()` is later than all before needs the maximum of the times, which exists because they are bounded (`MaxIsLargest`, by well-foundedness of `<` on `Nat`) |
| `TypeCorrect` | `TypeOK` | with what a process in hand is at (`HandInv`) and its texts (`EmbInv`) |
| `CacheStays` | `CacheKept` | along `EmbInv`: what a process has been given at its stage is in the cache or among its own keys (`Fits`), so when it has asked its queries all of them are, and its commit puts its own keys into the cache |
| `DocumentPipeline_proofs` | | along `PipeInv` = `KafkaTypes`, `TableTypes`, `GroupInv`, `LoopInv` |
| `TypeCorrect` | `TypeOK` | |
| `OffsetsKept` | `OffsetsCoverWork` | what is below a loop's position is handled or still in its batch (`Covered`), and what is below an offset is handled (`Committed`); a commit turns the first into the second because the batch is empty |
| `OneOutcome` | `OneOutcomeEach` | along `ReadInv`: an open transaction has its key alone, and it is not in the ledger |
| `CallsCounted` | `CallsExplained` | along `HoldInv` and `CallInv`: at most one loop more than there were rebalances holds messages of a partition, and until a document is recorded each of its calls has a caller that still waits or one that died |
| `LiveView_proofs` | | |
| `GaugeRight` | `GaugeSettles` | along `ManagerInv` with `GaugeInv`: the gauge is the number of connections, or a served socket has broken and is not noticed yet, or a greeting raised, which alone leaves a connection behind that nobody serves |
| `PageIsCurrent` | `QuietIsCurrent` | along `PageInv` with `OneSocket` and `Asked`: while nothing excuses it, a change that the page has not got is in the topic, in a broadcast, on a socket, in an effect that is due or in a request that has not yet read |
| `TypeCorrect` | `TypeOK` | along `PoolInv`: sockets served and requests in flight never exceed the pool |

`ClaimLifecycle_proofs` begins with the lemmas about the table (`AllowedHasRow`,
`RowStatuses`, `ApprovalGuards`, `AllowedApproval`, `OneRow`) that its theorems rest on.
Every invariant, every action property and every refinement that a run checks is
proved.

Only model-checked is the liveness (`OutboxDrains`, `EveryAssessmentApplied`,
`PipelineConcludes`, `ComesBack`, `Settles`, `TransactionsEnd`): fairness and
`ENABLED` are beyond the prover. What a recursive definition computes for every
input is beyond it too, so the modules with proofs describe a batch, an answer
or the missing texts as sets of places and say by a quantifier which comes next.

## Not modelled

* Metrics exporter: reads aggregates once per interval, nothing depends on it.
* Accounts, tokens, password hashes: library calls without state of their own;
  their outcomes are choices of `RateLimiter`, `Intake` and `ClaimStream`, and
  `Role` and `Limit` are constants because no code changes them.
* The retries inside the extractor: one call of `IngestionWorker` with its two
  outcomes stands for them. They have the form of the assessor's, which
  `Assessment` has.
* Detail view: reloads one claim as the queue reloads a page; the actions it
  offers are `AvailableTransitions`.
* Drain tool: a consumer run by hand to demonstrate the ledger, whose contract
  `OnceEach` states and `ReadModelConsumer` is shown to keep.
* Shared event library: data types and constructors.
* Migrations, manifests, dashboards, CI: deployment.
* Time limits of model calls (the clients set none of their own), the contents
  of prompts and vectors, and the search's lack of a filter on the product of a
  clause: no property here tells them apart.
