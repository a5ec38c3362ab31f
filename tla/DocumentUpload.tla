--------------------------- MODULE DocumentUpload ---------------------------
(***************************************************************************)
(* Uploads to one claim (claims-api/routers/documents.py,                  *)
(* services/document_service.py, core/storage.py): a test for a row with   *)
(* the same content hash, the file, and a transaction with the row and the *)
(* document.uploaded event.  The test is a SELECT; no unique constraint    *)
(* backs it.                                                               *)
(***************************************************************************)
EXTENDS Integers, FiniteSets

CONSTANTS
  Uploaders,  \* browsers that upload
  Contents,   \* bytes, named by their hash
  NoContent,  \* no upload in flight
  MaxFiles    \* bound: files saved

ASSUME UploadAssumption == NoContent \notin Contents /\ MaxFiles \in Nat

VARIABLES
  files,      \* keys of the files in the storage
  saved,      \* files saved so far: build_key never gives a key twice
  documents,  \* committed rows: storage_key and content_hash
  outbox,     \* committed document.uploaded events, by storage_key
  upload,     \* the upload each browser has in flight
  raced,      \* history: contents whose row was committed while another
              \* upload of them was past the duplicate test
  refusing    \* history: contents of which an upload was answered 500

uploadVars == <<files, saved, documents, outbox, upload, raced, refusing>>

NoUpload == [stage |-> "none", content |-> NoContent, key |-> 0]

UploadInit ==
  /\ files = {} /\ saved = 0 /\ documents = {} /\ outbox = {}
  /\ upload = [u \in Uploaders |-> NoUpload]
  /\ raced = {} /\ refusing = {}

Same(content) == {d \in documents : d.content = content}

\* A file of an allowed type that is neither empty nor too large, for a claim
\* that exists: anything else is answered before the database is asked.  The
\* bytes may have been uploaded before.
Post(u, content) ==
  /\ upload[u] = NoUpload
  /\ upload' = [upload EXCEPT ![u] = [stage |-> "posted", content |-> content,
                                      key |-> 0]]
  /\ UNCHANGED <<files, saved, documents, outbox, raced, refusing>>

\* mutant: the duplicate test finds nothing.
NoneFound(content) == {}

Found(content) == Same(content)

\* The SELECT finds no row.
FindNone(u) ==
  /\ upload[u].stage = "posted"
  /\ Found(upload[u].content) = {}
  /\ upload' = [upload EXCEPT ![u].stage = "new"]
  /\ UNCHANGED <<files, saved, documents, outbox, raced, refusing>>

\* It finds one: the answer is that row.
AnswerDuplicate(u) ==
  /\ upload[u].stage = "posted"
  /\ Cardinality(Found(upload[u].content)) = 1
  /\ upload' = [upload EXCEPT ![u] = NoUpload]
  /\ UNCHANGED <<files, saved, documents, outbox, raced, refusing>>

\* It finds more: scalar_one_or_none raises, the answer is 500.
RaiseMultiple(u) ==
  /\ upload[u].stage = "posted"
  /\ Cardinality(Found(upload[u].content)) > 1
  /\ refusing' = refusing \cup {upload[u].content}
  /\ upload' = [upload EXCEPT ![u] = NoUpload]
  /\ UNCHANGED <<files, saved, documents, outbox, raced>>

\* mutant: the file is written after the commit, and a crash comes first.
NothingWritten(key) == files

Written(key) == files \cup {key}

\* build_key and save: the file is there before the row.
SaveFile(u) ==
  /\ upload[u].stage = "new"
  /\ saved < MaxFiles
  /\ saved' = saved + 1
  /\ files' = Written(saved + 1)
  /\ upload' = [upload EXCEPT ![u].stage = "saved", ![u].key = saved + 1]
  /\ UNCHANGED <<documents, outbox, raced, refusing>>

PastTest(u) == upload[u].stage \in {"new", "saved"}

\* flush, record_event and commit: row and event in one transaction.
CommitDocument(u) ==
  LET key == upload[u].key
      content == upload[u].content IN
  /\ upload[u].stage = "saved"
  /\ documents' = documents \cup {[key |-> key, content |-> content]}
  /\ outbox' = outbox \cup {key}
  /\ raced' = IF \E v \in Uploaders \ {u} :
                   PastTest(v) /\ upload[v].content = content
              THEN raced \cup {content} ELSE raced
  /\ upload' = [upload EXCEPT ![u] = NoUpload]
  /\ UNCHANGED <<files, saved, refusing>>

\* The process dies, the disk is full, the database is away or the browser
\* gives up: nothing is taken back but the transaction.
AbandonUpload(u) ==
  /\ upload[u] # NoUpload
  /\ upload' = [upload EXCEPT ![u] = NoUpload]
  /\ UNCHANGED <<files, saved, documents, outbox, raced, refusing>>

\* upload() after the request has arrived.
Upload(u) ==
  FindNone(u) \/ AnswerDuplicate(u) \/ RaiseMultiple(u) \/ SaveFile(u)
    \/ CommitDocument(u)
=============================================================================
