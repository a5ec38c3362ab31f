--------------------------- MODULE DecisionWorker ---------------------------
(***************************************************************************)
(* The handler of the decision worker (decision-worker/decider/main.py):   *)
(* for each document.extracted one transaction inserts the ledger row,     *)
(* reads the claim and every extraction of it, gathers evidence, calls the *)
(* model and writes either an assessment with its citations and            *)
(* assessment.completed, or a dead letter.  run() catches an exception,    *)
(* goes on with the next message and leaves the offsets of the batch.      *)
(*                                                                         *)
(* The ledger INSERT waits for an open transaction that has the same key.  *)
(* Claims are never deleted, so the missing claim of lines 121-135 does    *)
(* not occur.  What the transaction reads, gathers and pays for is in      *)
(* Assessment.                                                             *)
(***************************************************************************)
EXTENDS DocumentTopic

CONSTANT MaxRaises  \* bound: handlers that raise

ASSUME DeciderAssumption == MaxRaises \in Nat

VARIABLES
  assessed,  \* assessed[d]: assessments stored for the extraction of d
  raised     \* bounds the handlers that raise

decideVars == <<assessed, raised>>

DecideInit == assessed = [d \in Docs |-> 0] /\ raised = 0

InTransaction(w) == loop[w].stage \in {"begun", "read"}

\* session.begin and the first statement on its way.
Begin(w) ==
  /\ Handling(w)
  /\ Goto(w, "begun")
  /\ UNCHANGED <<kafkaVars, tableVars, crashes, decideVars>>

\* CLAIM_EVENT returned no row: a duplicate.
SkipDuplicate(w) ==
  /\ loop[w].stage = "begun"
  /\ Seen(w)
  /\ Advance(w)
  /\ UNCHANGED <<kafkaVars, tableVars, crashes, decideVars>>

\* CLAIM_EVENT inserted the row: others with the same key now wait for this
\* transaction.
ReadClaim(w) ==
  /\ loop[w].stage = "begun"
  /\ ~Seen(w)
  /\ \A v \in Deciders : loop[v].stage = "read" => LedgerKey(v) # LedgerKey(w)
  /\ Goto(w, "read")
  /\ UNCHANGED <<kafkaVars, tableVars, crashes, decideVars>>

\* The model answered: assessment, citations, usage and the outgoing
\* assessment.completed (on the claims topic) commit with the ledger row.
Assess(w) ==
  /\ loop[w].stage = "read"
  /\ assessed' = [assessed EXCEPT ![InHand(w).doc] = @ + 1]
  /\ ledger' = ledger \cup {LedgerKey(w)}
  /\ Advance(w)
  /\ UNCHANGED <<kafkaVars, extractions, deadLetters, crashes, raised>>

WithLetter(w) ==
  [deadLetters EXCEPT ![Group(w)][InHand(w).doc] = @ + 1]

\* The model failed after its own retries: a dead letter, and the event is
\* done with.
GiveUp(w) ==
  /\ loop[w].stage = "read"
  /\ deadLetters' = WithLetter(w)
  /\ ledger' = ledger \cup {LedgerKey(w)}
  /\ Advance(w)
  /\ UNCHANGED <<kafkaVars, extractions, crashes, decideVars>>

\* The handler raises: rollback, and the batch is marked as failed.
Raise(w) ==
  /\ InTransaction(w)
  /\ raised < MaxRaises
  /\ Onward(w, TRUE)
  /\ raised' = raised + 1
  /\ UNCHANGED <<kafkaVars, tableVars, crashes, assessed>>

Decide(w) ==
  Begin(w) \/ SkipDuplicate(w) \/ ReadClaim(w) \/ Assess(w) \/ GiveUp(w)
=============================================================================
