------------------------------- MODULE Intake -------------------------------
(***************************************************************************)
(* What comes in from the browsers behind one address: they sign in        *)
(* through the throttle and upload documents to a claim.                   *)
(***************************************************************************)
EXTENDS RateLimiter, DocumentUpload

ASSUME IntakeAssumption == Uploaders = Clients

vars == <<limiterVars, uploadVars>>

Init == LimiterInit /\ UploadInit

\* get_current_user: a request of somebody who holds a token.  The token is
\* looked at when the request arrives.
Next ==
  \/ LimiterNext /\ UNCHANGED uploadVars
  \/ /\ \E u \in Uploaders :
          \/ u \in signedIn /\ \E content \in Contents : Post(u, content)
          \/ Upload(u)
          \/ AbandonUpload(u)
     /\ UNCHANGED limiterVars

Spec == Init /\ [][Next]_vars

-----------------------------------------------------------------------------
(***************************************************************************)
(* Properties                                                              *)
(***************************************************************************)
Buckets == [start : Nat, attempts : 1..(Limit + 1)]

Logins == [stage : {"idle", "begun", "allowed"}, at : Nat]

PostedUploads == [stage : {"none", "posted", "new", "saved"},
                  content : Contents \cup {NoContent}, key : Nat]

\* Type invariant.  Every file saved is still there, nobody lives in the
\* future, and only who holds a token uploads.
TypeOK ==
  /\ clock \in 0..MaxTime
  /\ bucket \in Buckets \cup {NoBucket}
  /\ login \in [Clients -> Logins]
  /\ signedIn \subseteq Clients
  /\ checks \subseteq [at : (clock - Window)..clock, number : Nat]
  /\ waited \in BOOLEAN
  /\ refused \in [last : Nat, until : Nat]
  /\ saved \in 0..MaxFiles
  /\ files = 1..saved
  /\ documents \subseteq [key : 1..saved, content : Contents]
  /\ outbox \subseteq 1..saved
  /\ upload \in [Uploaders -> PostedUploads]
  /\ raced \subseteq Contents /\ refusing \subseteq Contents
  /\ bucket # NoBucket => bucket.start <= clock
  /\ \A c \in Clients : login[c].at <= clock
  /\ \A u \in Uploaders : upload[u] # NoUpload => u \in signedIn

\* models/rate_limit.py:12-13: "a burst of up to 2x the limit straddling a
\* window boundary", in any stretch of time as long as a window, however many
\* attempts race for the row; 3x if an upsert waited for the row lock, because
\* its now() is then older than a window that has begun meanwhile.
BurstBounded ==
  Cardinality(checks) <= IF waited THEN 3 * Limit ELSE 2 * Limit

\* Refused attempts count, and still never lengthen the wait: who comes back
\* half a second after the time that Retry-After gave (it rounds to seconds)
\* is not refused in the same window.
RetryAfterHonoured == refused.last <= refused.until + Second \div 2

\* The throttle is neither laxer nor stricter than it says.
WindowKept == BurstBounded /\ RetryAfterHonoured

\* Row, event and file of a document go together: the event that the worker is
\* sent for has a committed row and a file to read; a file of an upload that
\* was abandoned stays behind, a row or an event never.
DocumentsWhole ==
  /\ outbox = {d.key : d \in documents}
  /\ outbox \subseteq files
  /\ \A d, e \in documents : d.key = e.key => d = e

\* document_service.py:42-44: identical bytes are stored once and extracted
\* once, whatever was abandoned and tried again, unless two uploads of them
\* were past the duplicate test at once; only then is an upload answered 500.
DuplicatesExplained ==
  /\ \A d, e \in documents :
       d.content = e.content /\ d # e => d.content \in raced
  /\ refusing \subseteq raced

\* What an upload leaves behind is whole, and doubled only by a race.
UploadsKept == DocumentsWhole /\ DuplicatesExplained
=============================================================================
