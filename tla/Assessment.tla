----------------------------- MODULE Assessment -----------------------------
(***************************************************************************)
(* Inside one decision (decision-worker/decider/main.py, _handle with      *)
(* assessor.py): the transaction that reads the claim, gathers evidence,   *)
(* asks the model and stores the outcome, in several workers at a time and *)
(* beside the seeder (seed.py) that fills the tables retrieval searches.   *)
(*                                                                         *)
(* One claim with several documents, handled side by side.  What           *)
(* DecisionWorker abstracts of a handler is here; what it models, ledger   *)
(* and offsets under redelivery, comes down to this: an event is handled   *)
(* again until a handler of it commits, and by one at a time.              *)
(***************************************************************************)
EXTENDS Embedder, Retriever

CONSTANTS
  Workers,  \* decision workers
  Seeder,   \* the process of seed.py
  Docs,     \* documents of the claim
  Files,    \* the rows of each seed file, in order
  Forged    \* a source the model makes up

ASSUME AssessmentAssumption ==
  /\ Processes = Workers \cup {Seeder} /\ Seeder \notin Workers
  /\ Forged \notin Rows
  /\ Queries \in Seq(Texts) /\ Files \in Seq(Seq(Rows))
  /\ Texts = {Queries[i] : i \in DOMAIN Queries} \cup Rows

VARIABLES
  extracted,   \* documents that have a successful extraction
  ledger,      \* documents whose event a committed transaction has handled
  assessments, \* rows: document, created_at, documents and sources behind it
  letters,     \* documents with a dead letter
  work         \* the handler of each worker, and the seeder

vars == <<embedVars, indexed, extracted, ledger, assessments, letters, work>>

\* at: now() of the transaction; doc: of its event; saw: documents whose
\* extraction was read; asked: searches done; evidence: row to query; rows:
\* indexed when gather began (history); cited: the citations left; filed: the
\* seed files done.  A row stands for its text as well.
Idle == [stage |-> "idle", at |-> 0, doc |-> "", saw |-> {}, asked |-> 0,
         evidence |-> << >>, rows |-> {}, cited |-> {}, filed |-> 0]

Init ==
  /\ EmbedderInit
  /\ indexed = {} /\ extracted = {} /\ ledger = {}
  /\ assessments = {} /\ letters = {}
  /\ work = [p \in Processes |-> Idle]

\* The ingestion worker commits an extraction and its event.
Extract(d) ==
  /\ d \notin extracted
  /\ extracted' = extracted \cup {d}
  /\ UNCHANGED <<embedVars, indexed, ledger, assessments, letters, work>>

tables == <<indexed, extracted, ledger, assessments, letters>>

Goto(p, stage) == work' = [work EXCEPT ![p].stage = stage]

-----------------------------------------------------------------------------
(***************************************************************************)
(* The handler                                                             *)
(***************************************************************************)
Times == {a.at : a \in assessments} \cup {work[p].at : p \in Processes}

\* now(): later than every time still to be seen somewhere.
Now == 1 + Max({0} \cup Times)

Handled(d) == d \in ledger \/ \E w \in Workers : work[w].doc = d

\* session.begin; CLAIM_EVENT inserts the ledger row.
Begin(w, d) ==
  /\ work[w].stage = "idle"
  /\ d \in extracted /\ ~Handled(d)
  /\ work' = [work EXCEPT ![w].stage = "begun", ![w].doc = d, ![w].at = Now]
  /\ UNCHANGED <<embedVars, tables>>

\* CLAIM_EXTRACTIONS, then gather(): the cached vectors are loaded.
Read(w) ==
  /\ w \in Workers /\ work[w].stage = "begun"
  /\ work' = [work EXCEPT ![w].stage = "embed", ![w].saw = extracted]
  /\ LoadCached(w, Queries, Texts)
  /\ UNCHANGED <<cache, money, faults, tables>>

\* record_usage; the searches begin.
BookEmbedding(w) ==
  /\ w \in Workers /\ work[w].stage = "embed" /\ Embedded(w)
  /\ money' = Booked(w)
  /\ work' = [work EXCEPT ![w].stage = "search", ![w].rows = indexed]
  /\ UNCHANGED <<cache, emb, faults, tables>>

SearchNext(w) ==
  LET query == Queries[work[w].asked + 1] IN
  /\ work[w].stage = "search" /\ work[w].asked < Len(Queries)
  /\ work' = [work EXCEPT
       ![w].asked = @ + 1,
       ![w].evidence = Merged(query, Search(query, indexed), @),
       ![w].stage = IF work[w].asked + 1 = Len(Queries) THEN "assess" ELSE @]
  /\ UNCHANGED <<embedVars, tables>>

\* mutant: tokens are only counted once the answer has been validated.
CountWhenValid(w, valid) ==
  [money EXCEPT ![w].charged = @ + 1,
                ![w].counted = IF valid THEN @ + 1 ELSE @]

CountAnswer(w, valid) == Answered(w, 1)

\* mutant: what the model cites is taken as it is.
AllCited(w, named) == named

\* _filter_citations.
Supplied(w, named) == named \cap DOMAIN work[w].evidence

\* The model answers with a valid assessment that names sources.
ModelAnswers(w, named) ==
  /\ work[w].stage = "assess"
  /\ work' = [work EXCEPT ![w].stage = "assessed",
                          ![w].cited = Supplied(w, named)]
  /\ money' = CountAnswer(w, TRUE)
  /\ UNCHANGED <<cache, emb, faults, tables>>

\* The model answers with what cannot be parsed or is not valid, or it does
\* not answer.  Transient failures and ValueErrors are tried again as long as
\* attempts are left, everything else ends the call.
ModelFails(w) ==
  /\ work[w].stage = "assess"
  /\ Fault
  /\ \E answered, retriable \in BOOLEAN :
       /\ money' = IF answered THEN CountAnswer(w, FALSE) ELSE money
       /\ IF retriable /\ emb[w].attempt < MaxRetries
          THEN emb' = [emb EXCEPT ![w].attempt = @ + 1] /\ UNCHANGED work
          ELSE Goto(w, "failed") /\ UNCHANGED emb
  /\ UNCHANGED <<cache, tables>>

\* mutant: created_at is the time of the insert.
InsertTime(w) == Now

CreatedAt(w) == work[w].at

\* INSERT_USAGE; the assessment with its citations and the outgoing event, or
\* the dead letter; commit.
Commit(w) ==
  /\ work[w].stage \in {"assessed", "failed"}
  /\ IF work[w].stage = "assessed"
     THEN /\ assessments' = assessments \cup
               {[doc |-> work[w].doc, at |-> CreatedAt(w), saw |-> work[w].saw,
                 cited |-> work[w].cited]}
          /\ UNCHANGED letters
     ELSE /\ letters' = letters \cup {work[w].doc}
          /\ UNCHANGED assessments
  /\ ledger' = ledger \cup {work[w].doc}
  /\ EndEmbedding(w, TRUE)
  /\ work' = [work EXCEPT ![w] = Idle]
  /\ UNCHANGED <<faults, indexed, extracted>>

\* A call that may not be tried again, a statement or the process fails:
\* rollback.  The event comes back; the seeder is started again.
Raise(p) ==
  /\ work[p].stage # "idle"
  /\ Fault
  /\ EndEmbedding(p, FALSE)
  /\ work' = [work EXCEPT ![p] = Idle]
  /\ UNCHANGED tables

Work(w) ==
  \/ \E d \in Docs : Begin(w, d)
  \/ Read(w) \/ BookEmbedding(w) \/ SearchNext(w)
  \/ \E named \in SUBSET (Rows \cup {Forged}) : ModelAnswers(w, named)
  \/ Commit(w)

-----------------------------------------------------------------------------
(***************************************************************************)
(* The seeder                                                              *)
(***************************************************************************)
\* main(): one transaction for all files.  A run that finds every row indexed
\* changes nothing.
BeginSeed ==
  /\ work[Seeder].stage = "idle"
  /\ indexed # Rows
  /\ Goto(Seeder, "begun")
  /\ UNCHANGED <<embedVars, tables>>

\* seed_wording, seed_precedents: the rows that are not there yet.
SeedFile ==
  LET file == Files[work[Seeder].filed + 1] IN
  /\ work[Seeder].stage = "begun" /\ work[Seeder].filed < Len(Files)
  /\ LoadCached(Seeder, file, Rows \ indexed)
  /\ Goto(Seeder, "embed")
  /\ UNCHANGED <<cache, money, faults, tables>>

\* record_usage, INSERT_CHUNK or INSERT_PRECEDENT of each row.
IndexFile ==
  /\ work[Seeder].stage = "embed" /\ Embedded(Seeder)
  /\ money' = Booked(Seeder)
  /\ work' = [work EXCEPT ![Seeder].stage = "begun", ![Seeder].filed = @ + 1]
  /\ UNCHANGED <<cache, emb, faults, tables>>

CommitSeed ==
  /\ work[Seeder].stage = "begun" /\ work[Seeder].filed = Len(Files)
  /\ indexed' = Rows
  /\ EndEmbedding(Seeder, TRUE)
  /\ work' = [work EXCEPT ![Seeder] = Idle]
  /\ UNCHANGED <<faults, extracted, ledger, assessments, letters>>

Seed == BeginSeed \/ SeedFile \/ IndexFile \/ CommitSeed

Embed(p) ==
  /\ work[p].stage = "embed"
  /\ EmbedBatch(p) \/ RetryBatch(p) \/ InsertCached(p)
  /\ UNCHANGED <<tables, work>>

Next ==
  \/ \E d \in Docs : Extract(d)
  \/ \E w \in Workers : Work(w) \/ ModelFails(w)
  \/ Seed
  \/ \E p \in Processes : Embed(p) \/ Raise(p)

Spec == Init /\ [][Next]_vars

\* Every call is answered or fails in time, and every process runs on.
FairSpec ==
  /\ Spec
  /\ \A w \in Workers : WF_vars(Work(w) \/ ModelFails(w) \/ Embed(w))
  /\ WF_vars(Seed \/ Embed(Seeder))

-----------------------------------------------------------------------------
(***************************************************************************)
(* Properties                                                              *)
(***************************************************************************)
Stages == {"idle", "begun", "embed", "search", "assess", "assessed", "failed"}

\* Type invariant; a document has one handler at a time and one outcome, and a
\* cache key is in the hands of one open transaction and not in the table.
TypeOK ==
  /\ cache \subseteq Texts /\ faults \in 0..MaxFaults
  /\ emb \in [Processes -> Embedding]
  /\ money \in [Processes -> [{"charged", "counted", "booked"} -> Nat]]
  /\ indexed \subseteq Rows /\ ledger \subseteq extracted /\ extracted \subseteq Docs
  /\ letters \subseteq ledger /\ {a.doc : a \in assessments} = ledger \ letters
  /\ \A p \in Processes : work[p].stage \in Stages
  /\ \A p, q \in Processes : p # q =>
       /\ emb[p].own \cap emb[q].own = {}
       /\ work[p].doc = work[q].doc => work[p].doc = ""
  /\ \A p \in Processes : emb[p].own \cap cache = {}

\* assessor.py:131-134: "A failed call is not a free call": what the APIs have
\* charged to an open transaction is in its usage rows or will be with the
\* tokens counted, through retries and failures; only a rollback loses it.
SpendCounted ==
  \A p \in Processes : money[p].charged = money[p].counted + money[p].booked

\* What one committed assessment paid for nobody pays for again: its queries
\* are in the cache, although other transactions that hold the same keys may
\* have been rolled back while it waited for them.
CacheKept ==
  ledger # {} => {Queries[i] : i \in DOMAIN Queries} \subseteq cache

\* The rows each search reads when the seeder commits after search number cut.
Corpora(rows, cut) ==
  [i \in DOMAIN Queries |-> IF i <= cut THEN rows ELSE indexed]

\* gather() is one statement per query (retriever.py:149), and the seeder may
\* commit between two of them: the evidence is then of two corpora, but of no
\* third.  It is every row that a search finds, in the rows of the beginning up
\* to some search and in the rows of now after it, with the query it matches
\* best; what is cited was supplied, and is a row that exists (assessor.py:
\* "traceable to a real row").
EvidenceSound ==
  /\ \A w \in Workers : work[w].stage = "assess" =>
       \E cut \in 0..Len(Queries) :
         IsEvidence(work[w].evidence, Corpora(work[w].rows, cut))
  /\ \A w \in Workers : work[w].cited \subseteq DOMAIN work[w].evidence
  /\ \A a \in assessments : a.cited \subseteq indexed

\* latest_for_claim: ORDER BY created_at DESC LIMIT 1.
LatestForClaim ==
  {a \in assessments : \A b \in assessments : b.at <= a.at}

\* The assessment the dashboard shows for the claim has seen every document
\* that any assessment was made for, although assessments of one claim run
\* side by side and the newest by created_at need not be the last to commit.
LatestSawAssessed ==
  \A a \in LatestForClaim : \A b \in assessments : b.doc \in a.saw

\* Transactions that insert the same cache keys wait for each other and never
\* in a circle, and no call is retried for ever: once there are no more
\* documents and no more faults, every transaction has ended.
TransactionsEnd == <>[](\A p \in Processes : work[p].stage = "idle")
=============================================================================
