------------------------------ MODULE Embedder ------------------------------
(***************************************************************************)
(* The embedding cache (decision-worker/decider/embedder.py) as the        *)
(* transactions of several processes use it: look the texts up, have the   *)
(* missing ones embedded in batches, insert them.                          *)
(*                                                                         *)
(* The rows belong to the transaction of the caller.  INSERT ... ON        *)
(* CONFLICT DO NOTHING waits for an open transaction that has inserted the *)
(* same key, and inserts or skips depending on how that one ended.  A      *)
(* text stands for its content_hash, a token for the cost of one text.     *)
(***************************************************************************)
EXTENDS Integers, Sequences, FiniteSets, FiniteSetsExt

CONSTANTS
  Processes,  \* decision workers and the seeder
  Texts,      \* texts to be embedded
  BatchSize,  \* embedding_batch_size
  MaxRetries, \* max_retries: attempts of one call
  MaxFaults   \* bound: calls and statements that fail

ASSUME EmbedderAssumption ==
  {BatchSize, MaxRetries} \subseteq Nat \ {0} /\ MaxFaults \in Nat

VARIABLES
  cache,   \* embedding_cache, committed: texts that have a vector
  emb,     \* embed_texts of each process
  money,   \* what the open transaction of each process has cost
  faults   \* bounds the faults

embedVars == <<cache, emb, money, faults>>

\* list: the texts asked for; missing: places of texts still to be embedded;
\* fresh: embedded, not yet inserted; own: keys inserted by the open
\* transaction; attempt: of the call at hand, to the embedding model or to the
\* assessing one.
Embedding == [list : Seq(Texts), missing : SUBSET Nat, fresh : SUBSET Nat,
              own : SUBSET Texts, attempt : 1..MaxRetries]

NoEmbedding ==
  [list |-> << >>, missing |-> {}, fresh |-> {}, own |-> {}, attempt |-> 1]

\* charged: what the APIs have answered for; counted: tokens counted by the
\* call at hand; booked: rows of ai_usage inserted.
NothingSpent == [charged |-> 0, counted |-> 0, booked |-> 0]

EmbedderInit ==
  /\ cache = {}
  /\ emb = [p \in Processes |-> NoEmbedding]
  /\ money = [p \in Processes |-> NothingSpent]
  /\ faults = 0

InFlight(text) == \E p \in Processes : text \in emb[p].own

\* mutant: the texts are made unique with a set, which may order them in
\* another way than the process before did.
AnyOrder(texts) ==
  IF \E i \in DOMAIN texts : InFlight(texts[i])
  THEN [i \in DOMAIN texts |-> texts[Len(texts) + 1 - i]]
  ELSE texts

\* A dict keeps the order given.
Unique(texts) == texts

\* embed_texts up to the first call, for the wanted texts of a list: what is
\* not in the cache is missing.
LoadCached(p, texts, wanted) ==
  LET list == Unique(texts)
      uncached == wanted \ (cache \cup emb[p].own) IN
  emb' = [emb EXCEPT ![p].attempt = 1, ![p].list = list,
                     ![p].missing = {i \in DOMAIN list : list[i] \in uncached}]

\* The first n of the places of a list.
First(n, places) ==
  {i \in places : Cardinality({j \in places : j < i}) < n}

\* Answered tokens are charged and counted.
Answered(p, tokens) ==
  [money EXCEPT ![p].charged = @ + tokens, ![p].counted = @ + tokens]

\* One batch is answered.
EmbedBatch(p) ==
  LET batch == First(BatchSize, emb[p].missing) IN
  /\ emb[p].missing # {} /\ emb[p].fresh = {}
  /\ emb' = [emb EXCEPT ![p].fresh = batch, ![p].missing = @ \ batch,
                        ![p].attempt = 1]
  /\ money' = Answered(p, Cardinality(batch))
  /\ UNCHANGED <<cache, faults>>

Fault == faults < MaxFaults /\ faults' = faults + 1

\* A transient failure, and attempts are left.
RetryBatch(p) ==
  /\ emb[p].missing # {} /\ emb[p].fresh = {}
  /\ emb[p].attempt < MaxRetries
  /\ Fault
  /\ emb' = [emb EXCEPT ![p].attempt = @ + 1]
  /\ UNCHANGED <<cache, money>>

\* What is inserted next, in the order of the list.
NextPlace(p) == Min(emb[p].fresh)
NextText(p) == emb[p].list[NextPlace(p)]

\* mutant: a key in the hands of another transaction counts as inserted.
InsertAtOnce(p) ==
  /\ emb[p].fresh # {}
  /\ emb' = [emb EXCEPT ![p].fresh = @ \ {NextPlace(p)}, ![p].own = @ \cup
               {t \in {NextText(p)} : t \notin cache /\ ~InFlight(t)}]
  /\ UNCHANGED <<cache, money, faults>>

\* mutant: a conflict overwrites the row.
InsertOver(p) ==
  /\ emb[p].fresh # {} /\ ~InFlight(NextText(p))
  /\ emb' = [emb EXCEPT ![p].fresh = @ \ {NextPlace(p)},
                        ![p].own = @ \cup {NextText(p)}]
  /\ UNCHANGED <<cache, money, faults>>

\* INSERT_CACHED; whether the key conflicts is open as long as it is in
\* flight.
InsertCached(p) ==
  /\ emb[p].fresh # {} /\ ~InFlight(NextText(p))
  /\ emb' = [emb EXCEPT ![p].fresh = @ \ {NextPlace(p)},
                        ![p].own = @ \cup ({NextText(p)} \ cache)]
  /\ UNCHANGED <<cache, money, faults>>

Embedded(p) == emb[p].missing = {} /\ emb[p].fresh = {}

\* record_usage, or INSERT_USAGE of the handler.
Booked(p) ==
  [money EXCEPT ![p].booked = @ + money[p].counted, ![p].counted = 0]

\* The transaction ends: with a commit its keys are in the cache.
EndEmbedding(p, committed) ==
  /\ cache' = IF committed THEN cache \cup emb[p].own ELSE cache
  /\ emb' = [emb EXCEPT ![p] = NoEmbedding]
  /\ money' = [money EXCEPT ![p] = NothingSpent]
=============================================================================
