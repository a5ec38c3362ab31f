----------------------------- MODULE ClaimQueue -----------------------------
(***************************************************************************)
(* The queue page of the dashboard (frontend/.../claims/claim-queue.ts)    *)
(* and the list endpoint it reads (claims-api/services/claim_service.py,   *)
(* list_claims): the filter and page selected, the two effects that load,  *)
(* the requests in flight and the page they leave behind.                  *)
(*                                                                         *)
(* The browser runs one task at a time; effects that are due run together  *)
(* in a task of their own.  Nothing cancels a request, and requests are    *)
(* served and answered in any order.                                       *)
(***************************************************************************)
EXTENDS Integers, Sequences, FiniteSets

CONSTANTS
  Claims,    \* the rows of the table; claims are not deleted
  CreatedAt, \* CreatedAt[c]: the list has the newest first
  Filters,   \* selections of the status filter; "" is none
  PageSize,  \* PAGE_SIZE
  MaxFlight  \* bound: requests in flight; effects wait for room

ASSUME QueueAssumption ==
  /\ IsFiniteSet(Claims) /\ CreatedAt \in [Claims -> Nat]
  /\ \A c, d \in Claims : CreatedAt[c] = CreatedAt[d] => c = d
  /\ "" \in Filters
  /\ PageSize \in Nat \ {0} /\ MaxFlight \in Nat

VARIABLES
  claims,     \* the committed rows: status and whether there is a risk band
  query,      \* the signals statusFilter and offset
  lastEvent,  \* stream.lastEvent: the type of the last message, or "none"
  due,        \* effects that are to run: "query", "event"
  tracks,     \* the event effect read the filter when it last ran, so that a
              \* change of the filter makes it run again
  requests,   \* list requests in flight, in the order they were sent
  page,       \* items and total
  error       \* the signal error

queueVars ==
  <<claims, query, lastEvent, due, tracks, requests, page, error>>

\* The rows of an answer are in the order of CreatedAt, so they are a set here.
EmptyPage == [rows |-> {}, total |-> 0, missed |-> FALSE, late |-> FALSE]

\* missed: history, an event of a change that the answer may not show never
\* came; late: history, a later request was answered first.
NewRequest(q) == [query |-> q, stage |-> "sent", answer |-> EmptyPage]

QueueInit ==
  /\ claims = [c \in Claims |-> [status |-> "submitted", scored |-> FALSE]]
  /\ query = [status |-> "", offset |-> 0]
  /\ lastEvent = "none"
  /\ due = {"query", "event"} /\ tracks = FALSE
  /\ requests = << >> /\ page = EmptyPage
  /\ error = FALSE

-----------------------------------------------------------------------------
(***************************************************************************)
(* list_claims                                                             *)
(***************************************************************************)
Matching(status) == {c \in Claims : status \in {"", claims[c].status}}

Newer(c, found) == {d \in found : CreatedAt[d] > CreatedAt[c]}

\* LIMIT and OFFSET.
Listed(q) ==
  LET found == Matching(q.status)
      onPage == {c \in found : Cardinality(Newer(c, found))
                                 \in q.offset..(q.offset + PageSize - 1)} IN
  {<<c, claims[c]>> : c \in onPage}

\* The number of claims and the rows are two statements; a commit may come
\* between them.
Count(i) ==
  /\ requests[i].stage = "sent"
  /\ requests' = [requests EXCEPT ![i].stage = "counted",
                    ![i].answer.total = Cardinality(Matching(requests[i].query.status))]
  /\ UNCHANGED <<claims, query, lastEvent, due, tracks, page, error>>

Answer(i) ==
  /\ requests[i].stage = "counted"
  /\ requests' = [requests EXCEPT ![i].stage = "answered",
                    ![i].answer.rows = Listed(requests[i].query)]
  /\ UNCHANGED <<claims, query, lastEvent, due, tracks, page, error>>

\* No connection of the pool in time: 500.
Fail(i) ==
  /\ requests[i].stage = "sent"
  /\ requests' = [requests EXCEPT ![i].stage = "failed"]
  /\ UNCHANGED <<claims, query, lastEvent, due, tracks, page, error>>

-----------------------------------------------------------------------------
(***************************************************************************)
(* The page                                                                *)
(***************************************************************************)
\* A signal that changes makes the effects due that have read it.
Select(q) ==
  /\ q # query
  /\ query' = q
  /\ due' = due \cup {"query"} \cup (IF tracks THEN {"event"} ELSE {})
  /\ UNCHANGED <<claims, lastEvent, tracks, requests, page, error>>

\* setStatus; toggleMine is another filter of the same kind.
SetStatus(status) == Select([status |-> status, offset |-> 0])

\* previous and next, while the buttons are enabled.
TurnPage ==
  \E offset \in
      {o \in {query.offset - PageSize} : query.offset > 0}
        \cup {o \in {query.offset + PageSize} : o < page.total} :
    Select([query EXCEPT !.offset = IF offset < 0 THEN 0 ELSE offset])

\* onmessage of the stream sets lastEvent.
Receive(message) ==
  /\ lastEvent' = message
  /\ due' = due \cup {"event"}
  /\ UNCHANGED <<claims, query, tracks, requests, page, error>>

\* mutant: the page is only loaded when the filter changes.
NeverReloads == FALSE

IsClaimEvent == lastEvent = "claim"

\* mutant: load() reads a signal it sets, and so makes its effect due again.
DueAgain(loads) == IF loads > 0 THEN {"query"} ELSE {}

DueAfter(loads) == {}

\* The effects that are due run; each that loads sends a request.
RunEffects ==
  LET byEvent == "event" \in due /\ IsClaimEvent
      loads == (IF "query" \in due THEN 1 ELSE 0) + (IF byEvent THEN 1 ELSE 0)
  IN
  /\ due # {} /\ Len(requests) + loads <= MaxFlight
  /\ due' = DueAfter(loads)
  /\ tracks' = IF "event" \in due THEN IsClaimEvent ELSE tracks
  /\ requests' = requests \o [n \in 1..loads |-> NewRequest(query)]
  /\ UNCHANGED <<claims, query, lastEvent, page, error>>

\* An answer comes in; the requests sent before it are late from now on.
Without(i) ==
  [j \in 1..(Len(requests) - 1) |->
     IF j < i THEN [requests[j] EXCEPT !.answer.late = TRUE]
     ELSE requests[j + 1]]

\* subscribe: next or error, in the order the answers come in.
TakeAnswer(i) ==
  /\ requests[i].stage \in {"answered", "failed"}
  /\ requests' = Without(i)
  /\ error' = (requests[i].stage = "failed")
  /\ page' = IF requests[i].stage = "failed" THEN page ELSE requests[i].answer
  /\ UNCHANGED <<claims, query, lastEvent, due, tracks>>

-----------------------------------------------------------------------------
(***************************************************************************)
(* What the page may not know                                              *)
(***************************************************************************)
\* History: of the changes committed so far one will not be announced to the
\* page; what has been read of the table may lack it.
MissedBy(reqs) ==
  [i \in DOMAIN reqs |-> IF reqs[i].stage = "sent" THEN reqs[i]
                         ELSE [reqs[i] EXCEPT !.answer.missed = TRUE]]
=============================================================================
