------------------------------ MODULE LiveView ------------------------------
(***************************************************************************)
(* How a change of a claim reaches the page somebody is looking at: the    *)
(* commit, the event on the topic, the consumer of the replica             *)
(* (app/events/consumer.py, _handle and _broadcast), its WebSockets        *)
(* (WsManager) and the queue page behind one of them (ClaimQueue).         *)
(*                                                                         *)
(* The page and the sockets share the connection pool of the replica: a    *)
(* socket keeps one as long as it is served, a request while it runs.      *)
(***************************************************************************)
EXTENDS WsManager, ClaimQueue

CONSTANTS
  Mine,           \* sockets of the page; the others belong to other pages
  MaxDisturbances \* bound: changes of claims, clicks, breaks and pages opened
                  \* by others, together

ASSUME ViewAssumption ==
  /\ Mine \subseteq Sockets /\ "changed" \notin Claims
  /\ MaxDisturbances \in Nat

VARIABLES
  topic,       \* topic[e]: how many events e the consumer has not handled, "changed"
               \* for submitted and status_changed, a claim for its assessment
  consumer,    \* "idle", or "committed": an assessment waits to be broadcast
  disturbances \* bounds what the system does not do of itself

vars == <<managerVars, queueVars, topic, consumer, disturbances>>

Events == Claims \cup {"changed"}

\* The page is opened while others may have theirs open.
Init ==
  /\ \E open \in SUBSET (Sockets \ Mine) :
       Cardinality(open) <= PoolSize /\ ManagerInit(open)
  /\ QueueInit
  /\ topic = [e \in Events |-> 0] /\ consumer = "idle"
  /\ disturbances = 0

InUse == Cardinality(Serving)
           + Cardinality({i \in DOMAIN requests : requests[i].stage = "counted"})

FreeConnection == InUse < PoolSize

Disturb ==
  /\ disturbances < MaxDisturbances
  /\ disturbances' = disturbances + 1

-----------------------------------------------------------------------------
(***************************************************************************)
(* The claims                                                              *)
(*                                                                         *)
(* The relay brings what is committed to two topics of several partitions, *)
(* and getmany hands them out partition by partition: which event comes    *)
(* next is open, and those of one kind about one claim are alike.          *)
(***************************************************************************)
With(e, events) == [events EXCEPT ![e] = @ + 1]

Taken(e) == [topic EXCEPT ![e] = @ - 1]

\* A move of an adjuster: row and event are committed together.
Review(c) ==
  /\ claims[c].status \in {"submitted", "triaged"}
  /\ Disturb
  /\ claims' = [claims EXCEPT ![c].status = "under_review"]
  /\ topic' = With("changed", topic)
  /\ UNCHANGED <<managerVars, query, lastEvent, due, tracks, requests, page,
                 error, consumer>>

\* The decision worker has assessed the claim.
Assess(c) ==
  /\ Disturb
  /\ topic' = With(c, topic)
  /\ UNCHANGED <<managerVars, queueVars, consumer>>

Triages(c) == claims[c].status = "submitted"

\* apply_assessment in the transaction that takes the event: the risk band; for
\* a submitted claim the move to triaged and its claim.status_changed.
Apply(c) ==
  /\ topic[c] > 0
  /\ claims' = [claims EXCEPT
       ![c] = [status |-> IF Triages(c) THEN "triaged" ELSE @.status,
               scored |-> TRUE]]
  /\ topic' = IF Triages(c) THEN With("changed", Taken(c)) ELSE Taken(c)

-----------------------------------------------------------------------------
(***************************************************************************)
(* The consumer                                                            *)
(***************************************************************************)
PageListens == \E s \in Mine : s \in up \cap connections

\* What is on the page now, and what is being fetched, misses a change.
Miss ==
  /\ page' = [page EXCEPT !.missed = TRUE]
  /\ requests' = MissedBy(requests)

MissUnless(told) == IF told THEN UNCHANGED <<page, requests>> ELSE Miss

StartCast ==
  /\ Snapshot
  /\ MissUnless(PageListens)

\* _broadcast: submitted and status_changed go out as they come in.
TellChanged ==
  /\ consumer = "idle" /\ topic["changed"] > 0
  /\ StartCast
  /\ topic' = Taken("changed")
  /\ UNCHANGED <<claims, query, lastEvent, due, tracks, error, consumer,
                 disturbances>>

\* mutant: the broadcast precedes the commit.
TellFirst(c) ==
  \/ /\ consumer = "idle" /\ topic[c] > 0
     /\ StartCast
     /\ consumer' = "committed"
     /\ UNCHANGED <<claims, topic>>
  \/ /\ consumer = "committed" /\ cast = NoCast
     /\ Apply(c)
     /\ consumer' = "idle"
     /\ UNCHANGED <<managerVars, page, requests>>

\* The transaction of an assessment ends before its broadcast starts.
CommitFirst(c) ==
  \/ /\ consumer = "idle" /\ cast = NoCast /\ FreeConnection
     /\ Apply(c)
     /\ consumer' = "committed"
     /\ UNCHANGED <<managerVars, page, requests>>
  \/ /\ consumer = "committed"
     /\ StartCast
     /\ consumer' = "idle"
     /\ UNCHANGED <<claims, topic>>

HandleAssessed ==
  /\ \E c \in Claims : CommitFirst(c)
  /\ UNCHANGED <<query, lastEvent, due, tracks, error, disturbances>>

\* No connection of the pool in time: the handler raises and the consumer goes
\* on with the next event.
HandlerStarves ==
  /\ consumer = "idle" /\ cast = NoCast
  /\ ~FreeConnection
  /\ \E c \in Claims : topic[c] > 0 /\ topic' = Taken(c)
  /\ UNCHANGED <<managerVars, queueVars, consumer, disturbances>>

\* Another replica has inserted the event into the ledger and applied the
\* assessment, and this one returns without a word.  If that moved the claim,
\* the move has an event of its own, for every replica; if it only scored it
\* again, no event is left for the clients of this one.
AppliedElsewhere(c) ==
  /\ Apply(c)
  /\ MissUnless(Triages(c))
  /\ UNCHANGED <<managerVars, query, lastEvent, due, tracks, error, consumer,
                 disturbances>>

-----------------------------------------------------------------------------
(***************************************************************************)
(* The sockets                                                             *)
(***************************************************************************)
\* A page opens a socket when it has none (ClaimStream), and then not before a
\* back-off of a second or more, in which effects that are due run.
Connect(s) ==
  /\ s \in Mine => up \cap Mine = {} /\ due = {}
  /\ Open(s)
  /\ IF s \in Mine THEN UNCHANGED disturbances ELSE Disturb
  /\ UNCHANGED <<queueVars, topic, consumer>>

\* The greeting comes with the registration.
Accept(s) ==
  /\ FreeConnection
  /\ Register(s)
  /\ IF s \in Mine \cap up THEN Receive("connected") ELSE UNCHANGED queueVars
  /\ UNCHANGED <<topic, consumer, disturbances>>

Refuse(s) ==
  /\ s \notin up \/ ~FreeConnection
  /\ EndHandshake(s)
  /\ UNCHANGED <<queueVars, topic, consumer, disturbances>>

\* There are always more WebSockets; here one of the page breaks only while
\* another is left for it.
Lose(s) ==
  /\ s \in Mine => \E t \in Mine : Forgotten(t)
  /\ Disturb
  /\ Break(s)
  /\ MissUnless(s \notin Mine \cap cast.to)
  /\ UNCHANGED <<claims, query, lastEvent, due, tracks, error, topic, consumer>>

Forget(s) == Unregister(s) /\ UNCHANGED <<queueVars, topic, consumer, disturbances>>

Send(s) ==
  /\ SendTo(s)
  /\ IF s \in Mine \cap up THEN Receive("claim") ELSE UNCHANGED queueVars
  /\ UNCHANGED <<topic, consumer, disturbances>>

Prune == EndCast /\ UNCHANGED <<queueVars, topic, consumer, disturbances>>

-----------------------------------------------------------------------------
(***************************************************************************)
(* The page                                                                *)
(***************************************************************************)
Elsewhere == UNCHANGED <<managerVars, topic, consumer>>

Alone == Elsewhere /\ UNCHANGED disturbances

Click ==
  /\ Disturb
  /\ \/ \E status \in Filters : SetStatus(status)
     \/ TurnPage
  /\ Elsewhere

Run == RunEffects /\ Alone

Serve(i) == ((FreeConnection /\ Count(i)) \/ Answer(i)) /\ Alone

Starve(i) == ~FreeConnection /\ Fail(i) /\ Alone

Show(i) == TakeAnswer(i) /\ Alone

\* What goes on of itself once there is something to do.
Consumer == TellChanged \/ HandleAssessed \/ HandlerStarves

Socket(s) ==
  Accept(s) \/ Refuse(s) \/ Forget(s) \/ Send(s)

Request(i) == Serve(i) \/ Starve(i) \/ Show(i)

Next ==
  \/ \E c \in Claims : Review(c) \/ Assess(c) \/ AppliedElsewhere(c)
  \/ Consumer
  \/ \E s \in Sockets : Connect(s) \/ Lose(s) \/ Socket(s)
  \/ Prune
  \/ Click \/ Run
  \/ \E i \in DOMAIN requests : Request(i)

Spec == Init /\ [][Next]_vars

\* The consumer, the coroutines and the browser run on, every request is
\* answered, a broken connection is noticed and a page without a socket opens
\* one.
FairSpec ==
  /\ Spec
  /\ WF_vars(Consumer) /\ WF_vars(Prune) /\ WF_vars(Run)
  /\ WF_vars(\E i \in DOMAIN requests : Request(i))
  /\ \A s \in Sockets : WF_vars(Socket(s))
  /\ WF_vars(\E s \in Mine : Connect(s))

-----------------------------------------------------------------------------
(***************************************************************************)
(* Properties                                                              *)
(***************************************************************************)
Rows == [status : {"submitted", "triaged", "under_review"}, scored : BOOLEAN]

Answers == [rows : SUBSET (Claims \X Rows), total : Nat, missed : BOOLEAN,
            late : BOOLEAN]

\* Type invariant; a socket that is served and has not broken is registered,
\* and no more sockets and requests run than the pool has connections.
TypeOK ==
  /\ up \subseteq Sockets /\ connections \subseteq Sockets
  /\ stage \in [Sockets -> {"none", "handshake", "serving"}]
  /\ gauge \in 0..Cardinality(Sockets)
  /\ cast.to \cup cast.dead \subseteq Sockets /\ cast.dead \cap up = {}
  /\ leaked \in BOOLEAN /\ disturbances \in 0..MaxDisturbances
  /\ claims \in [Claims -> Rows]
  /\ query \in [status : Filters, offset : Nat]
  /\ lastEvent \in {"none", "connected", "claim"} /\ due \subseteq {"query", "event"}
  /\ page \in Answers /\ {error, tracks} \subseteq BOOLEAN
  /\ \A i \in DOMAIN requests : requests[i].answer \in Answers
  /\ topic \in [Events -> Nat] /\ consumer \in {"idle", "committed"}
  /\ Serving \cap up \subseteq connections
  /\ InUse <= PoolSize

\* Nothing is under way that could still change the page.
AtRest ==
  /\ \A e \in Events : topic[e] = 0
  /\ consumer = "idle" /\ cast = NoCast
  /\ due = {} /\ requests = << >>

\* claim-queue.ts:53-56: "Refetching keeps one source of truth": when nothing
\* is under way, a page that shows no error shows what the list returns now
\* for the filter selected, unless a change was committed that it was not told
\* of (it had no registered socket, the socket broke, another replica scored
\* again a claim that was past submitted) or an older answer came in after a
\* newer one.
QuietIsCurrent ==
  AtRest /\ ~error =>
    \/ page.missed \/ page.late
    \/ page.rows = Listed(query) /\ page.total = Cardinality(Matching(query.status))

\* The gauge of live connections is right again once every break has been
\* noticed, however broadcasts, registrations and breaks overlapped, unless a
\* connection whose greeting raised is in it.
GaugeSettles ==
  cast = NoCast /\ Serving \subseteq up /\ ~leaked =>
    gauge = Cardinality(connections) /\ connections = Serving

\* The streams of other pages keep the whole pool.
PoolTaken == Cardinality(Serving \ Mine) >= PoolSize

\* No storm of reloads and no wait without end: once changes, clicks and breaks
\* stop, everything under way ends.  From then on the page has a registered
\* socket, or the streams of other pages, each with its session for as long as
\* it lives (stream.py:62), leave no connection for its handshake.
Settles == <>[](AtRest /\ (PageListens \/ PoolTaken))
=============================================================================
