-------------------------- MODULE IngestionWorker ---------------------------
(***************************************************************************)
(* The handler of the ingestion worker (ingestion-worker/worker/main.py):  *)
(* for each document.uploaded it looks into the ledger, reads the file,    *)
(* calls the model outside any transaction, and then records ledger row,   *)
(* extraction, usage, document status, outgoing event and, on failure, a   *)
(* dead letter in one transaction.  An exception is not caught in run():   *)
(* it ends the process, which is DocumentTopic's Crash.                    *)
(*                                                                         *)
(* documents.processing_status is written with the extraction row and only *)
(* there, so it is the last outcome in extractions[d]; each extraction row *)
(* comes with one ai_usage row.                                            *)
(***************************************************************************)
EXTENDS DocumentTopic

VARIABLE calls  \* calls[d]: calls of the model made for a document

IngestInit == calls = [d \in Docs |-> 0]

\* mutant: the worker does not look into the ledger before it starts.
NeverProcessed(w) == FALSE

AlreadyProcessed(w) == Seen(w)

\* _already_processed, in a transaction of its own.
SkipProcessed(w) ==
  /\ Handling(w)
  /\ AlreadyProcessed(w)
  /\ Advance(w)
  /\ UNCHANGED <<kafkaVars, tableVars, crashes, calls>>

\* The file cannot be read: a failed extraction without a call.
CannotRead(w) ==
  /\ Handling(w)
  /\ ~AlreadyProcessed(w)
  /\ Goto(w, "unreadable")
  /\ UNCHANGED <<kafkaVars, tableVars, crashes, calls>>

\* extract: the model is called, with retries of its own.
CallModel(w) ==
  /\ Handling(w)
  /\ ~AlreadyProcessed(w)
  /\ Goto(w, "called")
  /\ calls' = [calls EXCEPT ![InHand(w).doc] = @ + 1]
  /\ UNCHANGED <<kafkaVars, tableVars, crashes>>

Outcomes(w) ==
  IF loop[w].stage = "called" THEN {"extracted", "failed"} ELSE {"failed"}

\* mutant: every outcome is announced as a failure.
AnnounceFailure(outcome) == "extraction_failed"

Outgoing(outcome) ==
  IF outcome = "extracted" THEN "extracted" ELSE "extraction_failed"

\* mutant: the record is written whatever the ledger says.
RecordAlways(w) == FALSE

LostRace(w) == Seen(w)

\* _record found the event in the ledger: what the call returned is dropped.
DropResult(w) ==
  /\ loop[w].stage \in {"called", "unreadable"}
  /\ LostRace(w)
  /\ Advance(w)
  /\ UNCHANGED <<kafkaVars, tableVars, crashes, calls>>

\* _record: all rows commit together.
Record(w) ==
  LET d == InHand(w).doc IN
  /\ loop[w].stage \in {"called", "unreadable"}
  /\ ~LostRace(w)
  /\ \E outcome \in Outcomes(w) :
       /\ extractions' = [extractions EXCEPT ![d] = Append(@, outcome)]
       /\ outbox' = outbox \cup {Event(Outgoing(outcome), d)}
       /\ deadLetters' =
            IF outcome = "extracted" THEN deadLetters
            ELSE [deadLetters EXCEPT ![Group(w)][d] = @ + 1]
  /\ ledger' = ledger \cup {LedgerKey(w)}
  /\ Advance(w)
  /\ UNCHANGED <<log, copies, offset, owner, moves, crashes, calls>>

Ingest(w) ==
  SkipProcessed(w) \/ CannotRead(w) \/ CallModel(w) \/ DropResult(w) \/ Record(w)
=============================================================================
