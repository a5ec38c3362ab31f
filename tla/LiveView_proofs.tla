--------------------------- MODULE LiveView_proofs ---------------------------
(***************************************************************************)
(* Proofs about LiveView, for any number of claims, sockets, pages,        *)
(* changes and connections of the pool.                                    *)
(*                                                                         *)
(* The manager alone keeps the gauge right: what is left behind is counted *)
(* in leaked or belongs to a socket that broke (GaugeInv).  For the page,  *)
(* either something is pending that will make it load, or the last request *)
(* will bring what the list returns now, or, if there is none, the page    *)
(* shows it (PageInv); for that a message must not be overtaken by the     *)
(* greeting of another socket of the page (OneSocket).                     *)
(*                                                                         *)
(* The pool (PoolInv): who takes a connection finds one free, and an       *)
(* answer that leaves the list renumbers those behind it.                  *)
(***************************************************************************)
EXTENDS LiveView, FiniteSetTheorems, TLAPS

-----------------------------------------------------------------------------
(***************************************************************************)
(* The manager                                                             *)
(***************************************************************************)
Casts == [open : BOOLEAN, to : SUBSET Sockets, dead : SUBSET Sockets]

ManagerTypes ==
  /\ up \subseteq Sockets /\ connections \subseteq Sockets
  /\ stage \in [Sockets -> {"none", "handshake", "serving"}]
  /\ gauge \in 0..Cardinality(Sockets)
  /\ cast \in Casts
  /\ leaked \in BOOLEAN

\* Nobody knows of a socket before it is registered, and a broadcast prunes
\* only sockets that broke.
SocketInv ==
  /\ \A s \in Sockets : stage[s] = "handshake" =>
       s \notin connections \cup cast.to \cup cast.dead
  /\ Serving \cap up \subseteq connections
  /\ cast.dead \cap up = {}

\* A gauge that is wrong has counted a connection left behind, or one that
\* broke and has still to be unregistered.
GaugeInv ==
  /\ Ghosts # {} => leaked
  /\ gauge = Cardinality(connections) \/ leaked \/ Serving \ up # {}

ManagerInv == ManagerTypes /\ SocketInv /\ GaugeInv

LEMMA CountSockets ==
  ASSUME NEW S \in SUBSET Sockets
  PROVE  IsFiniteSet(S) /\ Cardinality(S) \in 0..Cardinality(Sockets)
<1>1. IsFiniteSet(Sockets)
  BY ManagerAssumption
<1>2. IsFiniteSet(S) /\ Cardinality(S) <= Cardinality(Sockets)
  BY <1>1, FS_Subset
<1> QED BY <1>1, <1>2, FS_CardinalityType

LEMMA GaugeSet ==
  ASSUME ManagerTypes, NEW S \in SUBSET Sockets, SetGauge(S)
  PROVE  /\ connections' = S /\ gauge' = Cardinality(connections')
         /\ gauge' \in 0..Cardinality(Sockets)
BY CountSockets DEF SetGauge

LEMMA OpenStep ==
  ASSUME ManagerInv, NEW s \in Sockets, Open(s)
  PROVE  ManagerInv' /\ Serving' = Serving
<1>1. /\ s \notin up \cup connections \cup cast.to \cup cast.dead /\ stage[s] = "none"
      /\ up' = up \cup {s} /\ stage' = [stage EXCEPT ![s] = "handshake"]
      /\ UNCHANGED <<connections, gauge, cast, leaked>>
  BY DEF Open, Forgotten
<1>2. Serving' = Serving /\ Ghosts' = Ghosts
  BY <1>1 DEF Serving, Ghosts, ManagerInv, ManagerTypes
<1>3. ManagerTypes'
  BY <1>1 DEF ManagerInv, ManagerTypes
<1>4. SocketInv'
  BY <1>1, <1>2 DEF ManagerInv, ManagerTypes, SocketInv, Serving
<1>5. Serving \ up # {} => Serving \ up' # {}
  BY <1>1 DEF Serving
<1>6. GaugeInv'
  BY <1>1, <1>2, <1>5 DEF ManagerInv, GaugeInv
<1> QED BY <1>2, <1>3, <1>4, <1>6 DEF ManagerInv

LEMMA RegisterStep ==
  ASSUME ManagerInv, NEW s \in Sockets, Register(s)
  PROVE  ManagerInv' /\ Serving' \subseteq Serving \cup {s}
<1>1. /\ stage[s] = "handshake" /\ UNCHANGED <<up, cast>>
      /\ connections' = connections \cup {s} /\ gauge' = Cardinality(connections')
      /\ gauge' \in 0..Cardinality(Sockets)
  BY GaugeSet DEF Register, ManagerInv, ManagerTypes
<1>2. \/ /\ stage' = [stage EXCEPT ![s] = "serving"]
         /\ leaked' = (leaked /\ Ghosts # {})
      \/ /\ s \notin up
         /\ stage' = [stage EXCEPT ![s] = "none"]
         /\ leaked' = TRUE
  BY DEF Register
<1>3. /\ Serving' \subseteq Serving \cup {s}
      /\ stage'[s] = "none" => Serving' = Serving
  BY <1>1, <1>2 DEF Serving, ManagerInv, ManagerTypes
<1>4. ManagerTypes'
  BY <1>1, <1>2 DEF ManagerInv, ManagerTypes
<1>5. SocketInv'
  BY <1>1, <1>2, <1>3 DEF ManagerInv, ManagerTypes, SocketInv, Serving
<1>6. Ghosts' # {} => leaked'
  <2>1. CASE leaked' = TRUE
    BY <2>1
  <2>2. CASE stage' = [stage EXCEPT ![s] = "serving"] /\ leaked' = (leaked /\ Ghosts # {})
    <3>1. Ghosts' \subseteq Ghosts
      BY <1>1, <2>2 DEF Ghosts, ManagerInv, ManagerTypes
    <3> QED BY <2>2, <3>1 DEF ManagerInv, GaugeInv
  <2> QED BY <1>2, <2>1, <2>2
<1> QED BY <1>1, <1>3, <1>4, <1>5, <1>6 DEF ManagerInv, GaugeInv

LEMMA EndHandshakeStep ==
  ASSUME ManagerInv, NEW s \in Sockets, EndHandshake(s)
  PROVE  ManagerInv' /\ Serving' = Serving
<1>1. /\ stage[s] = "handshake" /\ stage' = [stage EXCEPT ![s] = "none"]
      /\ up' = up \ {s} /\ UNCHANGED <<connections, gauge, cast, leaked>>
  BY DEF EndHandshake
<1>2. Serving' = Serving /\ Ghosts' = Ghosts
  BY <1>1 DEF Serving, Ghosts, ManagerInv, ManagerTypes, SocketInv
<1>3. ManagerTypes'
  BY <1>1 DEF ManagerInv, ManagerTypes
<1>4. SocketInv'
  BY <1>1, <1>2 DEF ManagerInv, ManagerTypes, SocketInv, Serving
<1>5. Serving \ up # {} => Serving \ up' # {}
  BY <1>1
<1>6. GaugeInv'
  BY <1>1, <1>2, <1>5 DEF ManagerInv, GaugeInv
<1> QED BY <1>2, <1>3, <1>4, <1>6 DEF ManagerInv

LEMMA BreakStep ==
  ASSUME ManagerInv, NEW s \in Sockets, Break(s)
  PROVE  ManagerInv' /\ Serving' = Serving
<1>1. /\ up' = up \ {s}
      /\ UNCHANGED <<stage, connections, gauge, cast, leaked>>
  BY DEF Break
<1>2. Serving' = Serving /\ Ghosts' = Ghosts
  BY <1>1 DEF Serving, Ghosts
<1>3. ManagerTypes'
  BY <1>1 DEF ManagerInv, ManagerTypes
<1>4. SocketInv'
  BY <1>1, <1>2 DEF ManagerInv, SocketInv, Serving
<1>5. Serving \ up # {} => Serving \ up' # {}
  BY <1>1
<1>6. GaugeInv'
  BY <1>1, <1>2, <1>5 DEF ManagerInv, GaugeInv
<1> QED BY <1>2, <1>3, <1>4, <1>6 DEF ManagerInv

LEMMA UnregisterStep ==
  ASSUME ManagerInv, NEW s \in Sockets, Unregister(s)
  PROVE  ManagerInv' /\ Serving' \subseteq Serving
<1>1. /\ stage[s] = "serving" /\ s \notin up /\ stage' = [stage EXCEPT ![s] = "none"]
      /\ connections' = connections \ {s} /\ gauge' = Cardinality(connections')
      /\ gauge' \in 0..Cardinality(Sockets)
      /\ leaked' = (leaked /\ Ghosts # {}) /\ UNCHANGED <<up, cast>>
  BY GaugeSet DEF Unregister, ManagerInv, ManagerTypes
<1>2. Serving' \subseteq Serving /\ Ghosts' = Ghosts
  BY <1>1 DEF Serving, Ghosts, ManagerInv, ManagerTypes
<1>3. ManagerTypes'
  BY <1>1 DEF ManagerInv, ManagerTypes
<1>4. SocketInv'
  BY <1>1, <1>2 DEF ManagerInv, ManagerTypes, SocketInv, Serving
<1>5. GaugeInv'
  BY <1>1, <1>2 DEF ManagerInv, GaugeInv
<1> QED BY <1>2, <1>3, <1>4, <1>5 DEF ManagerInv

LEMMA SnapshotStep ==
  ASSUME ManagerInv, Snapshot
  PROVE  ManagerInv' /\ Serving' = Serving /\ cast'.to = connections
<1>1. /\ UNCHANGED <<up, stage, connections, gauge, leaked>>
      /\ cast' = [open |-> TRUE, to |-> connections, dead |-> {}]
  BY DEF Snapshot
<1>2. Serving' = Serving /\ Ghosts' = Ghosts
  BY <1>1 DEF Serving, Ghosts
<1>3. ManagerTypes'
  BY <1>1 DEF ManagerInv, ManagerTypes, Casts
<1>4. SocketInv'
  BY <1>1, <1>2 DEF ManagerInv, SocketInv
<1>5. GaugeInv'
  BY <1>1, <1>2 DEF ManagerInv, GaugeInv
<1> QED BY <1>1, <1>2, <1>3, <1>4, <1>5 DEF ManagerInv

LEMMA SendStep ==
  ASSUME ManagerInv, NEW s \in Sockets, SendTo(s)
  PROVE  ManagerInv' /\ Serving' = Serving /\ cast'.to = cast.to \ {s}
<1>1. UNCHANGED <<up, stage, connections, gauge, leaked>> /\ s \in cast.to
  BY DEF SendTo
<1>2. PICK x : x = cast /\ x \in Casts
  BY DEF ManagerInv, ManagerTypes
<1>3. \/ cast' = [x EXCEPT !.to = @ \ {s}]
      \/ s \notin up /\ cast' = [x EXCEPT !.to = @ \ {s}, !.dead = @ \cup {s}]
  BY <1>2 DEF SendTo, SendRaised
<1>4. PICK y : y = cast'
  OBVIOUS
<1>5. /\ y \in Casts /\ y.to = x.to \ {s}
      /\ y.dead = x.dead \/ (s \notin up /\ y.dead = x.dead \cup {s})
  <2>1. CASE y = [x EXCEPT !.to = @ \ {s}]
    BY <1>2, <2>1 DEF Casts
  <2>2. CASE s \notin up /\ y = [x EXCEPT !.to = @ \ {s}, !.dead = @ \cup {s}]
    BY <1>2, <2>2 DEF Casts
  <2> QED BY <1>3, <1>4, <2>1, <2>2
<1>6. Serving' = Serving /\ Ghosts' = Ghosts
  BY <1>1 DEF Serving, Ghosts
<1>7. ManagerTypes'
  BY <1>1, <1>4, <1>5 DEF ManagerInv, ManagerTypes
<1>8. SocketInv'
  <2>1. \A t \in Sockets : stage[t] = "handshake" =>
          t \notin connections \cup y.to \cup y.dead
    BY <1>1, <1>2, <1>5 DEF ManagerInv, SocketInv
  <2>2. y.dead \cap up = {}
    BY <1>2, <1>5 DEF ManagerInv, SocketInv
  <2> QED BY <1>1, <1>4, <1>6, <2>1, <2>2 DEF ManagerInv, SocketInv
<1>9. GaugeInv'
  BY <1>1, <1>6 DEF ManagerInv, GaugeInv
<1> QED BY <1>2, <1>4, <1>5, <1>6, <1>7, <1>8, <1>9 DEF ManagerInv

\* Pruning does not set the gauge: who is pruned has broken, and is served or
\* has been left behind.
LEMMA EndCastStep ==
  ASSUME ManagerInv, EndCast
  PROVE  ManagerInv' /\ Serving' = Serving /\ cast'.to = {}
<1>1. /\ UNCHANGED <<up, stage, gauge, leaked>>
      /\ connections' = connections \ cast.dead
      /\ cast' = [open |-> FALSE, to |-> {}, dead |-> {}]
  BY DEF EndCast, Pruned, NoCast
<1>2. Serving' = Serving /\ Ghosts' \subseteq Ghosts
  BY <1>1 DEF Serving, Ghosts
<1>3. ManagerTypes'
  BY <1>1 DEF ManagerInv, ManagerTypes, Casts
<1>4. SocketInv'
  BY <1>1, <1>2 DEF ManagerInv, SocketInv, Serving
<1>5. connections' = connections \/ leaked \/ Serving \ up # {}
  <2>1. SUFFICES ASSUME NEW s \in connections, s \in cast.dead PROVE leaked \/ Serving \ up # {}
    BY <1>1
  <2>2. s \notin up /\ s \in Sockets /\ stage[s] \in {"none", "serving"}
    BY <2>1 DEF ManagerInv, ManagerTypes, SocketInv
  <2> QED BY <2>1, <2>2 DEF Ghosts, Serving, ManagerInv, GaugeInv
<1>6. GaugeInv'
  BY <1>1, <1>2, <1>5 DEF ManagerInv, GaugeInv
<1> QED BY <1>1, <1>2, <1>3, <1>4, <1>6 DEF ManagerInv

\* The steps of the manager among those of the whole.
LEMMA ManagerNext ==
  ASSUME ManagerInv, [Next]_vars
  PROVE  ManagerInv'
<1>1. CASE UNCHANGED managerVars
  BY <1>1 DEF managerVars, ManagerInv, ManagerTypes, SocketInv, GaugeInv, Serving, Ghosts
<1>2. CASE Snapshot \/ EndCast
  BY <1>2, SnapshotStep, EndCastStep
<1>3. ASSUME NEW s \in Sockets,
             \/ Open(s) \/ Register(s) \/ EndHandshake(s) \/ Break(s)
             \/ Unregister(s) \/ SendTo(s)
      PROVE  ManagerInv'
  BY <1>3, OpenStep, RegisterStep, EndHandshakeStep, BreakStep, UnregisterStep, SendStep
<1>4. CASE UNCHANGED vars
  BY <1>1, <1>4 DEF vars
<1>5. CASE \E c \in Claims : Review(c) \/ Assess(c) \/ AppliedElsewhere(c)
  BY <1>1, <1>5 DEF Review, Assess, AppliedElsewhere
<1>6. CASE Consumer
  BY <1>1, <1>2, <1>6 DEF Consumer, TellChanged, HandleAssessed, CommitFirst,
       HandlerStarves, StartCast
<1>7. CASE \E s \in Sockets : Connect(s) \/ Lose(s) \/ Socket(s)
  <2>1. PICK s \in Sockets : Connect(s) \/ Lose(s) \/ Socket(s)
    BY <1>7
  <2>2. \/ Open(s) \/ Register(s) \/ EndHandshake(s) \/ Break(s)
        \/ Unregister(s) \/ SendTo(s)
    BY <2>1 DEF Connect, Lose, Socket, Accept, Refuse, Forget, Send
  <2> QED BY <1>3, <2>2
<1>8. CASE Prune
  BY <1>2, <1>8 DEF Prune
<1>9. CASE Click \/ Run \/ \E i \in DOMAIN requests : Request(i)
  BY <1>1, <1>9 DEF Click, Run, Request, Serve, Starve, Show, Alone, Elsewhere
<1> QED BY <1>4, <1>5, <1>6, <1>7, <1>8, <1>9 DEF Next

LEMMA ManagerStart ==
  ASSUME Init
  PROVE  ManagerInv
<1>1. PICK open \in SUBSET Sockets : ManagerInit(open)
  BY DEF Init
<1>2. /\ up = open /\ connections = open /\ gauge = Cardinality(open)
      /\ stage = [s \in Sockets |-> IF s \in open THEN "serving" ELSE "none"]
      /\ cast = [open |-> FALSE, to |-> {}, dead |-> {}] /\ leaked = FALSE
  BY <1>1 DEF ManagerInit, NoCast
<1>3. Serving = open /\ Ghosts = {}
  BY <1>2 DEF Serving, Ghosts
<1>4. gauge \in 0..Cardinality(Sockets)
  BY <1>2, CountSockets
<1>5. ManagerTypes
  <2>1. cast \in Casts
    BY <1>2 DEF Casts
  <2>2. stage \in [Sockets -> {"none", "handshake", "serving"}]
    BY <1>2
  <2> QED BY <1>2, <1>4, <2>1, <2>2 DEF ManagerTypes
<1>6. SocketInv
  BY <1>2, <1>3 DEF SocketInv
<1>7. GaugeInv
  BY <1>2, <1>3 DEF GaugeInv
<1> QED BY <1>5, <1>6, <1>7 DEF ManagerInv

\* app/ws/manager.py sets the gauge in register() and unregister() and not when
\* it prunes: it is right again once every break has been noticed, unless it
\* counts a connection whose greeting raised.
THEOREM GaugeRight == Spec => []GaugeSettles
<1>1. Init => ManagerInv
  BY ManagerStart
<1>2. ManagerInv /\ [Next]_vars => ManagerInv'
  BY ManagerNext
<1>3. ASSUME ManagerInv, Serving \subseteq up, ~leaked
      PROVE  gauge = Cardinality(connections) /\ connections = Serving
  <2>1. gauge = Cardinality(connections) /\ Ghosts = {}
    BY <1>3 DEF ManagerInv, GaugeInv
  <2>2. ASSUME NEW s \in connections PROVE s \in Serving
    <3>1. s \in Sockets /\ stage[s] # "handshake" /\ stage[s] # "none"
      BY <1>3, <2>1, <2>2 DEF ManagerInv, ManagerTypes, SocketInv, Ghosts
    <3> QED BY <1>3, <3>1 DEF ManagerInv, ManagerTypes, Serving
  <2>3. Serving \subseteq connections
    BY <1>3 DEF ManagerInv, SocketInv
  <2> QED BY <2>1, <2>2, <2>3
<1>4. ManagerInv => GaugeSettles
  BY <1>3 DEF GaugeSettles
<1> QED BY <1>1, <1>2, <1>4, PTL DEF Spec

-----------------------------------------------------------------------------
(***************************************************************************)
(* The requests of the page                                                *)
(***************************************************************************)
Queries == [status : Filters, offset : Nat]

Requests == [query : Queries, stage : {"sent", "counted", "answered", "failed"},
             answer : Answers]

QueueTypes ==
  /\ claims \in [Claims -> Rows]
  /\ query \in Queries
  /\ lastEvent \in {"none", "connected", "claim"} /\ due \subseteq {"query", "event"}
  /\ tracks \in BOOLEAN /\ error \in BOOLEAN
  /\ requests \in Seq(Requests)
  /\ page \in Answers

\* Request i becomes r.
SetTo(i, r) == requests' = [requests EXCEPT ![i] = r] /\ r \in Requests

Total(status) == Cardinality(Matching(status))

LEMMA TotalType ==
  ASSUME NEW status
  PROVE  Total(status) \in Nat
<1>1. IsFiniteSet(Claims) /\ Matching(status) \subseteq Claims
  BY QueueAssumption DEF Matching
<1>2. IsFiniteSet(Matching(status))
  BY <1>1, FS_Subset
<1> QED BY <1>2, FS_CardinalityType DEF Total

LEMMA ListedType ==
  ASSUME QueueTypes, NEW q
  PROVE  Listed(q) \in SUBSET (Claims \X Rows)
<1>1. PICK found : found = Matching(q.status)
  OBVIOUS
<1>2. PICK onPage : onPage = {c \in found : Cardinality(Newer(c, found))
                                              \in q.offset..(q.offset + PageSize - 1)}
  OBVIOUS
<1>3. Listed(q) = {<<c, claims[c]>> : c \in onPage}
  BY <1>1, <1>2 DEF Listed
<1>4. \A c \in onPage : c \in Claims
  BY <1>1, <1>2 DEF Matching
<1> QED BY <1>3, <1>4 DEF QueueTypes

LEMMA CountSets ==
  ASSUME QueueTypes, NEW i \in DOMAIN requests, Count(i)
  PROVE  \E r : /\ SetTo(i, r) /\ r.stage = "counted" /\ r.query = requests[i].query
                /\ r.answer.total = Total(r.query.status)
                /\ r.answer.missed = requests[i].answer.missed
                /\ r.answer.late = requests[i].answer.late
<1>1. PICK x : x = requests[i] /\ x \in Requests
  BY DEF QueueTypes
<1>2. PICK n \in Nat : n = Total(x.query.status)
  BY TotalType
<1>3. PICK a : a = x.answer /\ a \in Answers
  BY <1>1 DEF Requests
<1>4. PICK b : b = [a EXCEPT !.total = n]
  OBVIOUS
<1>5. b \in Answers /\ b.total = n /\ b.missed = a.missed /\ b.late = a.late
  BY <1>2, <1>3, <1>4 DEF Answers
<1>6. PICK r : r = [x EXCEPT !.stage = "counted", !.answer = b]
  OBVIOUS
<1>7. r \in Requests /\ r.stage = "counted" /\ r.query = x.query /\ r.answer = b
  BY <1>1, <1>5, <1>6 DEF Requests
<1>8. requests' = [requests EXCEPT ![i] = r]
  BY <1>1, <1>2, <1>3, <1>4, <1>6 DEF Count, Total
<1> QED BY <1>1, <1>2, <1>3, <1>5, <1>7, <1>8 DEF SetTo

LEMMA AnswerSets ==
  ASSUME QueueTypes, NEW i \in DOMAIN requests, Answer(i)
  PROVE  \E r : /\ SetTo(i, r) /\ r.stage = "answered" /\ r.query = requests[i].query
                /\ r.answer.rows = Listed(r.query)
                /\ r.answer.total = requests[i].answer.total
                /\ r.answer.missed = requests[i].answer.missed
                /\ r.answer.late = requests[i].answer.late
<1>1. PICK x : x = requests[i] /\ x \in Requests
  BY DEF QueueTypes
<1>2. PICK l \in SUBSET (Claims \X Rows) : l = Listed(x.query)
  BY ListedType
<1>3. PICK a : a = x.answer /\ a \in Answers
  BY <1>1 DEF Requests
<1>4. PICK b : b = [a EXCEPT !.rows = l]
  OBVIOUS
<1>5. b \in Answers /\ b.rows = l /\ b.total = a.total /\ b.missed = a.missed
      /\ b.late = a.late
  BY <1>2, <1>3, <1>4 DEF Answers
<1>6. PICK r : r = [x EXCEPT !.stage = "answered", !.answer = b]
  OBVIOUS
<1>7. r \in Requests /\ r.stage = "answered" /\ r.query = x.query /\ r.answer = b
  BY <1>1, <1>5, <1>6 DEF Requests
<1>8. requests' = [requests EXCEPT ![i] = r]
  BY <1>1, <1>2, <1>3, <1>4, <1>6 DEF Answer
<1> QED BY <1>1, <1>2, <1>3, <1>5, <1>7, <1>8 DEF SetTo

LEMMA FailSets ==
  ASSUME QueueTypes, NEW i \in DOMAIN requests, Fail(i)
  PROVE  \E r : /\ SetTo(i, r) /\ r.stage = "failed" /\ r.query = requests[i].query
                /\ r.answer = requests[i].answer
<1>1. PICK x : x = requests[i] /\ x \in Requests
  BY DEF QueueTypes
<1>2. PICK r : r = [x EXCEPT !.stage = "failed"]
  OBVIOUS
<1>3. r \in Requests /\ r.stage = "failed" /\ r.query = x.query /\ r.answer = x.answer
  BY <1>1, <1>2 DEF Requests
<1>4. requests' = [requests EXCEPT ![i] = r]
  BY <1>1, <1>2 DEF Fail
<1> QED BY <1>1, <1>3, <1>4 DEF SetTo

\* The last request is the one that counts.
Newest == requests[Len(requests)]

LEMMA SetLast ==
  ASSUME QueueTypes, NEW i \in DOMAIN requests, NEW r, SetTo(i, r)
  PROVE  /\ requests' \in Seq(Requests) /\ requests # << >> /\ requests' # << >>
         /\ DOMAIN requests' = DOMAIN requests
         /\ \A j \in DOMAIN requests : requests'[j] = IF j = i THEN r ELSE requests[j]
         /\ Newest' = IF i = Len(requests) THEN r ELSE Newest
<1>1. PICK s : s = requests /\ s \in Seq(Requests) /\ i \in 1..Len(s) /\ Len(s) \in Nat
  BY DEF QueueTypes
<1>2. PICK t : t = [s EXCEPT ![i] = r]
  OBVIOUS
<1>3. t \in Seq(Requests) /\ Len(t) = Len(s) /\ s # << >> /\ t # << >>
      /\ DOMAIN t = DOMAIN s
      /\ \A j \in DOMAIN s : t[j] = IF j = i THEN r ELSE s[j]
  BY <1>1, <1>2 DEF SetTo
<1>4. Len(s) \in DOMAIN s
  BY <1>1
<1>5. requests' = t
  BY <1>1, <1>2 DEF SetTo
<1> QED BY <1>1, <1>3, <1>4, <1>5 DEF Newest

\* Effects send requests for the filter of the moment.
LEMMA RunSends ==
  ASSUME QueueTypes, RunEffects
  PROVE  /\ requests' \in Seq(Requests)
         /\ \A i \in DOMAIN requests' :
              \/ i \in DOMAIN requests /\ requests'[i] = requests[i]
              \/ requests'[i].stage = "sent"
         /\ \A i \in DOMAIN requests : i \in DOMAIN requests' /\ requests'[i] = requests[i]
         /\ \/ requests' = requests /\ "query" \notin due
               /\ ~("event" \in due /\ IsClaimEvent)
            \/ requests' # << >> /\ Newest' = NewRequest(query)
<1>1. PICK r : r = NewRequest(query)
  OBVIOUS
<1>2. r \in Requests /\ r.stage = "sent"
  BY <1>1, TotalType DEF NewRequest, EmptyPage, Requests, Answers, QueueTypes
<1>3. PICK loads : loads = (IF "query" \in due THEN 1 ELSE 0)
                             + (IF "event" \in due /\ IsClaimEvent THEN 1 ELSE 0)
  OBVIOUS
<1>4. /\ loads \in Nat
      /\ loads = 0 => "query" \notin due /\ ~("event" \in due /\ IsClaimEvent)
  BY <1>3
<1>5. PICK s : s = requests /\ s \in Seq(Requests) /\ Len(s) \in Nat
  BY DEF QueueTypes
<1>6. PICK t : t = [n \in 1..loads |-> r]
  OBVIOUS
<1>7. t \in Seq(Requests) /\ Len(t) = loads /\ \A n \in 1..loads : t[n] = r
  BY <1>2, <1>4, <1>6
<1>8. requests' = s \o t
  BY <1>1, <1>3, <1>5, <1>6 DEF RunEffects
<1>9. PICK u : u = s \o t
  OBVIOUS
<1>10. /\ u \in Seq(Requests) /\ Len(u) = Len(s) + loads
       /\ \A i \in 1..Len(u) : u[i] = IF i <= Len(s) THEN s[i] ELSE t[i - Len(s)]
  <2>1. u \in Seq(Requests)
    BY <1>5, <1>7, <1>9
  <2>2. Len(u) = Len(s) + loads
    BY <1>5, <1>7, <1>9
  <2>3. \A i \in 1..Len(u) : u[i] = IF i <= Len(s) THEN s[i] ELSE t[i - Len(s)]
    BY <1>5, <1>7, <1>9, <2>2
  <2> QED BY <2>1, <2>2, <2>3
<1>11. \A i \in 1..Len(u) : (i \in 1..Len(s) /\ u[i] = s[i]) \/ u[i] = r
  BY <1>4, <1>5, <1>7, <1>10
<1>12. \A i \in 1..Len(s) : i \in 1..Len(u) /\ u[i] = s[i]
  BY <1>4, <1>5, <1>10
<1>13. CASE loads = 0
  <2>1. u = s
    BY <1>5, <1>10, <1>13
  <2> QED BY <1>2, <1>4, <1>5, <1>8, <1>9, <1>10, <1>11, <1>12, <1>13, <2>1
<1>14. CASE loads # 0
  <2>1. Len(u) \in 1..Len(u) /\ Len(u) \notin 1..Len(s)
    BY <1>4, <1>5, <1>10, <1>14
  <2>2. u[Len(u)] = r /\ u # << >>
    BY <1>10, <1>11, <2>1
  <2> QED BY <1>1, <1>2, <1>5, <1>8, <1>9, <1>10, <1>11, <1>12, <2>2 DEF Newest
<1> QED BY <1>13, <1>14

LEMMA FunctionIsSeq ==
  ASSUME NEW S, NEW n \in Nat, NEW u \in [1..n -> S]
  PROVE  u \in Seq(S) /\ Len(u) = n
OBVIOUS

\* An answer that comes in makes those of the requests before it late.
LEMMA TakeRemoves ==
  ASSUME QueueTypes, NEW i \in DOMAIN requests, requests' = Without(i)
  PROVE  /\ requests' \in Seq(Requests) /\ Len(requests') = Len(requests) - 1
         /\ \A j \in 1..Len(requests') :
              IF j < i
              THEN /\ requests'[j].answer.late /\ requests'[j].stage = requests[j].stage
              ELSE requests'[j] = requests[j + 1]
         /\ requests' # << >> =>
              IF i = Len(requests) THEN Newest'.answer.late ELSE Newest' = Newest
<1>1. PICK s : s = requests /\ s \in Seq(Requests) /\ Len(s) \in Nat /\ i \in 1..Len(s)
  BY DEF QueueTypes
<1>2. PICK n : n = Len(s) - 1 /\ n \in Nat
  BY <1>1
<1>3. PICK u : u = [j \in 1..n |-> IF j < i THEN [s[j] EXCEPT !.answer.late = TRUE]
                                   ELSE s[j + 1]]
  OBVIOUS
<1>4. requests' = u
  BY <1>1, <1>2, <1>3 DEF Without
<1>5. ASSUME NEW j \in 1..n, j < i
      PROVE  u[j] \in Requests /\ u[j].answer.late /\ u[j].stage = s[j].stage
  <2>1. PICK x : x = s[j] /\ x \in Requests
    BY <1>1, <1>2
  <2>2. PICK a : a = x.answer /\ a \in Answers
    BY <2>1 DEF Requests
  <2>3. PICK b : b = [a EXCEPT !.late = TRUE]
    OBVIOUS
  <2>4. b \in Answers /\ b.late = TRUE
    BY <2>2, <2>3 DEF Answers
  <2>5. PICK y : y = [x EXCEPT !.answer = b]
    OBVIOUS
  <2>6. y \in Requests /\ y.answer = b /\ y.stage = x.stage
    BY <2>1, <2>4, <2>5 DEF Requests
  <2>7. u[j] = y
    BY <1>3, <1>5, <2>1, <2>2, <2>3, <2>5
  <2> QED BY <2>1, <2>4, <2>6, <2>7
<1>6. ASSUME NEW j \in 1..n, ~(j < i)
      PROVE  u[j] = s[j + 1] /\ u[j] \in Requests
  <2>1. u[j] = s[j + 1]
    BY <1>3, <1>6
  <2>2. j + 1 \in 1..Len(s)
    BY <1>1, <1>2
  <2> QED BY <1>1, <2>1, <2>2
<1>7. u \in Seq(Requests) /\ Len(u) = n
  <2>1. \A j \in 1..n : u[j] \in Requests
    BY <1>5, <1>6
  <2>2. DOMAIN u = 1..n /\ u = [j \in 1..n |-> u[j]]
    BY <1>3
  <2>3. u \in [1..n -> Requests]
    BY <2>1, <2>2
  <2> QED BY <1>2, <2>3, FunctionIsSeq
<1>8. ASSUME u # << >>
      PROVE  IF i = Len(s) THEN u[n].answer.late ELSE u[n] = s[Len(s)]
  <2>1. n \in 1..n
    BY <1>2, <1>7, <1>8
  <2>2. CASE i = Len(s)
    BY <1>2, <1>5, <2>1, <2>2
  <2>3. CASE i # Len(s)
    <3>1. ~(n < i) /\ n + 1 = Len(s)
      BY <1>1, <1>2, <2>3
    <3> QED BY <1>6, <2>1, <2>3, <3>1
  <2> QED BY <2>2, <2>3
<1>9. Newest = s[Len(s)] /\ Newest' = u[n]
  BY <1>1, <1>4, <1>7 DEF Newest
<1> QED BY <1>1, <1>2, <1>4, <1>5, <1>6, <1>7, <1>8, <1>9

\* What has been read may miss a change nobody tells of.
LEMMA MissMarks ==
  ASSUME QueueTypes, Miss
  PROVE  /\ requests' \in Seq(Requests) /\ DOMAIN requests' = DOMAIN requests
         /\ page' \in Answers /\ page'.missed
         /\ \A i \in DOMAIN requests : requests'[i].stage = requests[i].stage
         /\ requests' = << >> <=> requests = << >>
         /\ requests # << >> =>
              /\ Newest'.query = Newest.query /\ Newest'.answer.late = Newest.answer.late
              /\ IF Newest.stage = "sent" THEN Newest' = Newest ELSE Newest'.answer.missed
<1>1. PICK s : s = requests /\ s \in Seq(Requests) /\ Len(s) \in Nat
  BY DEF QueueTypes
<1>2. PICK u : u = [i \in 1..Len(s) |-> IF s[i].stage = "sent" THEN s[i]
                                        ELSE [s[i] EXCEPT !.answer.missed = TRUE]]
  OBVIOUS
<1>3. requests' = u
  BY <1>1, <1>2 DEF Miss, MissedBy
<1>4. ASSUME NEW i \in 1..Len(s)
      PROVE  /\ u[i] \in Requests /\ u[i].stage = s[i].stage
             /\ u[i].query = s[i].query /\ u[i].answer.late = s[i].answer.late
             /\ IF s[i].stage = "sent" THEN u[i] = s[i] ELSE u[i].answer.missed
  <2>1. PICK x : x = s[i] /\ x \in Requests
    BY <1>1
  <2>2. PICK a : a = x.answer /\ a \in Answers
    BY <2>1 DEF Requests
  <2>3. PICK b : b = [a EXCEPT !.missed = TRUE]
    OBVIOUS
  <2>4. b \in Answers /\ b.missed = TRUE /\ b.late = a.late
    BY <2>2, <2>3 DEF Answers
  <2>5. PICK y : y = [x EXCEPT !.answer = b]
    OBVIOUS
  <2>6. y \in Requests /\ y.answer = b /\ y.stage = x.stage /\ y.query = x.query
    BY <2>1, <2>4, <2>5 DEF Requests
  <2>7. u[i] = IF x.stage = "sent" THEN x ELSE y
    BY <1>2, <2>1, <2>2, <2>3, <2>5
  <2> QED BY <2>1, <2>2, <2>4, <2>6, <2>7
<1>5. u \in Seq(Requests) /\ Len(u) = Len(s)
  BY <1>1, <1>2, <1>4
<1>6. page' \in Answers /\ page'.missed = TRUE
  <2>1. PICK a : a = page /\ a \in Answers
    BY DEF QueueTypes
  <2>2. page' = [a EXCEPT !.missed = TRUE]
    BY <2>1 DEF Miss
  <2> QED BY <2>1, <2>2 DEF Answers
<1>7. DOMAIN u = DOMAIN s /\ (u = << >> <=> s = << >>)
  BY <1>1, <1>5
<1>8. s # << >> => Len(s) \in 1..Len(s)
  BY <1>1
<1>9. Newest = s[Len(s)] /\ Newest' = u[Len(s)]
  BY <1>1, <1>3, <1>5 DEF Newest
<1>10. DOMAIN s = 1..Len(s)
  BY <1>1
<1> QED BY <1>1, <1>3, <1>4, <1>5, <1>6, <1>7, <1>8, <1>9, <1>10

-----------------------------------------------------------------------------
(***************************************************************************)
(* What the page shows                                                     *)
(***************************************************************************)
TopicTypes ==
  topic \in [Events -> Nat] /\ consumer \in {"idle", "committed"}

ClaimDue == "event" \in due /\ lastEvent = "claim"

\* The page has one socket at a time, and what an old one has brought is done
\* with before a new one is greeted.
OneSocket ==
  /\ \A s, t \in Mine \cap up : s = t
  /\ \A s \in Mine \cap up : stage[s] = "handshake" /\ ClaimDue => "query" \in due

\* Something is under way that makes the page load.
Pending ==
  \/ topic["changed"] > 0
  \/ consumer = "committed"
  \/ cast.to \cap Mine \cap up # {}
  \/ ClaimDue
  \/ "query" \in due

Current(a) == a.rows = Listed(query) /\ a.total = Total(query.status)

\* Request r brings what the list returns now, or what it brings is excused.
WillBeCurrent(r) ==
  \/ r.stage = "failed" \/ r.answer.missed \/ r.answer.late
  \/ /\ r.query = query
     /\ r.stage # "sent" => r.answer.total = Total(query.status)
     /\ r.stage = "answered" => r.answer.rows = Listed(query)

Asked ==
  requests # << >> => Newest.query = query \/ "query" \in due \/ Newest.answer.late

ShowsIt == error = TRUE \/ page.missed \/ page.late \/ Current(page)

PageInv ==
  \/ Pending
  \/ requests = << >> /\ ShowsIt
  \/ requests # << >> /\ WillBeCurrent(Newest)

LEMMA PageKept ==
  ASSUME Asked, PageInv, UNCHANGED <<claims, query, requests, page, error>>,
         "query" \in due => "query" \in due', Pending => Pending'
  PROVE  Asked' /\ PageInv'
<1>1. ShowsIt => ShowsIt'
  BY DEF ShowsIt, Current, Listed, Newer, Matching, Total
<1>2. \A r : WillBeCurrent(r) => WillBeCurrent(r)'
  BY DEF WillBeCurrent, Listed, Newer, Matching, Total
<1>3. Newest' = Newest
  BY DEF Newest
<1>4. PageInv'
  BY <1>1, <1>2, <1>3 DEF PageInv
<1> QED BY <1>3, <1>4 DEF Asked

\* The page loads in the end.
LEMMA PageLoads ==
  ASSUME Asked, UNCHANGED <<query, requests>>, "query" \in due => "query" \in due', Pending'
  PROVE  Asked' /\ PageInv'
BY DEF Asked, PageInv, Newest

LEMMA PageMissed ==
  ASSUME QueueTypes, Asked, Miss, UNCHANGED <<query, error>>, "query" \in due => "query" \in due'
  PROVE  Asked' /\ PageInv'
<1>1. /\ page'.missed /\ (requests' = << >> <=> requests = << >>)
      /\ requests # << >> =>
           /\ Newest'.query = Newest.query /\ Newest'.answer.late = Newest.answer.late
           /\ IF Newest.stage = "sent" THEN Newest' = Newest ELSE Newest'.answer.missed
  BY MissMarks
<1>2. Asked'
  BY <1>1 DEF Asked
<1>3. CASE requests = << >>
  <2>1. ShowsIt'
    BY <1>1 DEF ShowsIt
  <2>2. requests' = << >>
    BY <1>1, <1>3
  <2> QED BY <1>2, <2>1, <2>2 DEF PageInv
<1>4. CASE requests # << >>
  <2>1. PICK z : z = Newest'
    OBVIOUS
  <2>2. WillBeCurrent(z)' \/ Pending'
    <3>1. CASE Newest.stage = "sent"
      BY <1>1, <1>4, <2>1, <3>1 DEF Asked, WillBeCurrent, Pending
    <3>2. CASE Newest.stage # "sent"
      BY <1>1, <1>4, <2>1, <3>2 DEF WillBeCurrent
    <3> QED BY <3>1, <3>2
  <2>3. requests' # << >>
    BY <1>1, <1>4
  <2> QED BY <1>2, <2>1, <2>2, <2>3 DEF PageInv
<1> QED BY <1>2, <1>3, <1>4

LEMMA MissTypes ==
  ASSUME QueueTypes, Miss, claims' \in [Claims -> Rows],
         UNCHANGED <<query, lastEvent, due, tracks, error>>
  PROVE  QueueTypes'
BY MissMarks DEF QueueTypes

LEMMA SocketKept ==
  ASSUME OneSocket, UNCHANGED <<up, stage, due, lastEvent>>
  PROVE  OneSocket'
BY DEF OneSocket, ClaimDue

\* A broadcast starts: the page will hear of it or the change is missed.
LEMMA CastStarts ==
  ASSUME ManagerInv, QueueTypes, Asked, StartCast,
         UNCHANGED <<claims, query, lastEvent, due, tracks, error>>
  PROVE  QueueTypes' /\ Asked' /\ PageInv'
<1>1. UNCHANGED up /\ cast'.to = connections
  BY SnapshotStep DEF StartCast, Snapshot
<1>2. CASE PageListens
  <2>1. UNCHANGED <<page, requests>>
    BY <1>2 DEF StartCast, MissUnless
  <2>2. Pending'
    <3>1. PICK s \in Mine : s \in up \cap connections
      BY <1>2 DEF PageListens
    <3>2. cast'.to \cap Mine \cap up' # {}
      BY <1>1, <3>1
    <3> QED BY <3>2 DEF Pending
  <2>3. QueueTypes'
    BY <2>1 DEF QueueTypes
  <2> QED BY <2>1, <2>2, <2>3, PageLoads
<1>3. CASE ~PageListens
  <2>1. Miss
    BY <1>3 DEF StartCast, MissUnless
  <2> QED BY <2>1, MissTypes, PageMissed DEF QueueTypes
<1> QED BY <1>2, <1>3

-----------------------------------------------------------------------------
(***************************************************************************)
(* The topic                                                               *)
(***************************************************************************)
LEMMA TopicGrows ==
  ASSUME TopicTypes, NEW e \in Events, topic' = With(e, topic), UNCHANGED consumer
  PROVE  /\ TopicTypes'
         /\ topic["changed"] > 0 \/ e = "changed" => topic'["changed"] > 0
BY DEF TopicTypes, Events, With

LEMMA TopicTaken ==
  ASSUME TopicTypes, NEW e \in Events, topic[e] > 0, topic' = Taken(e),
         consumer' \in {"idle", "committed"}
  PROVE  /\ TopicTypes'
         /\ topic["changed"] > 0 /\ e # "changed" => topic'["changed"] > 0
BY DEF TopicTypes, Events, Taken

\* An assessment is applied: a triage leaves an event of its own.
LEMMA Applies ==
  ASSUME QueueTypes, TopicTypes, NEW c \in Claims, Apply(c),
         consumer' \in {"idle", "committed"}
  PROVE  /\ TopicTypes' /\ claims' \in [Claims -> Rows]
         /\ Triages(c) => topic'["changed"] > 0
<1>1. /\ topic[c] > 0 /\ c # "changed" /\ c \in Events /\ "changed" \in Events
      /\ topic' = IF Triages(c) THEN With("changed", Taken(c)) ELSE Taken(c)
  BY ViewAssumption DEF Apply, Events
<1>2. Taken(c) \in [Events -> Nat]
  BY <1>1 DEF TopicTypes, Taken
<1>3. /\ With("changed", Taken(c)) \in [Events -> Nat]
      /\ With("changed", Taken(c))["changed"] > 0
  <2>1. PICK t \in [Events -> Nat] : t = Taken(c)
    BY <1>2
  <2> QED BY <1>1, <2>1 DEF With
<1>4. TopicTypes' /\ (Triages(c) => topic'["changed"] > 0)
  BY <1>1, <1>2, <1>3 DEF TopicTypes, Triages
<1>5. PICK st : st = IF Triages(c) THEN "triaged" ELSE claims[c].status
  OBVIOUS
<1>6. [status |-> st, scored |-> TRUE] \in Rows
  <2>1. PICK x : x = claims[c] /\ x \in Rows
    BY DEF QueueTypes
  <2> QED BY <1>5, <2>1 DEF Rows
<1>7. claims' = [claims EXCEPT ![c] = [status |-> st, scored |-> TRUE]]
  BY <1>5 DEF Apply
<1> QED BY <1>4, <1>6, <1>7 DEF QueueTypes

-----------------------------------------------------------------------------
(***************************************************************************)
(* Every step                                                              *)
(***************************************************************************)
ViewInv == QueueTypes /\ TopicTypes /\ OneSocket /\ Asked /\ PageInv

\* Changes commit, and events come to the topic.
LEMMA ChangeSteps ==
  ASSUME ManagerInv, ViewInv, NEW c \in Claims, Review(c) \/ Assess(c)
  PROVE  ViewInv'
<1>1. CASE Review(c)
  <2>1. /\ UNCHANGED <<managerVars, query, lastEvent, due, tracks, requests, page, error,
                       consumer>>
        /\ topic' = With("changed", topic)
        /\ claims' = [claims EXCEPT ![c].status = "under_review"]
    BY <1>1 DEF Review
  <2>2. TopicTypes' /\ topic'["changed"] > 0
    BY <2>1, TopicGrows DEF ViewInv, Events
  <2>3. claims' \in [Claims -> Rows]
    <3>1. PICK x : x = claims[c] /\ x \in Rows
      BY DEF ViewInv, QueueTypes
    <3>2. PICK y : y = [x EXCEPT !.status = "under_review"]
      OBVIOUS
    <3>3. y \in Rows
      BY <3>1, <3>2 DEF Rows
    <3>4. claims' = [claims EXCEPT ![c] = y]
      BY <2>1, <3>1, <3>2
    <3> QED BY <3>3, <3>4 DEF ViewInv, QueueTypes
  <2>4. QueueTypes'
    BY <2>1, <2>3 DEF ViewInv, QueueTypes
  <2>5. Asked' /\ PageInv'
    BY <2>1, <2>2, PageLoads DEF ViewInv, Pending
  <2>6. OneSocket'
    BY <2>1, SocketKept DEF ViewInv, managerVars
  <2> QED BY <2>2, <2>4, <2>5, <2>6 DEF ViewInv
<1>2. CASE Assess(c)
  <2>1. UNCHANGED <<managerVars, queueVars, consumer>> /\ topic' = With(c, topic)
    BY <1>2 DEF Assess
  <2>2. TopicTypes' /\ (topic["changed"] > 0 => topic'["changed"] > 0)
    BY <2>1, TopicGrows DEF ViewInv, Events
  <2>3. Pending => Pending'
    BY <2>1, <2>2 DEF Pending, managerVars, queueVars, ClaimDue
  <2>4. QueueTypes'
    BY <2>1 DEF ViewInv, QueueTypes, queueVars
  <2>5. Asked' /\ PageInv'
    BY <2>1, <2>3, PageKept DEF ViewInv, queueVars
  <2>6. OneSocket'
    BY <2>1, SocketKept DEF ViewInv, managerVars, queueVars
  <2> QED BY <2>2, <2>4, <2>5, <2>6 DEF ViewInv
<1> QED BY <1>1, <1>2

LEMMA ConsumerSteps ==
  ASSUME ManagerInv, ViewInv, Consumer
  PROVE  ViewInv'
<1>1. CASE TellChanged
  <2>1. /\ topic["changed"] > 0 /\ topic' = Taken("changed") /\ StartCast
        /\ UNCHANGED <<claims, query, lastEvent, due, tracks, error, consumer>>
    BY <1>1 DEF TellChanged
  <2>2. TopicTypes'
    BY <2>1, TopicTaken DEF ViewInv, TopicTypes, Events
  <2>3. QueueTypes' /\ Asked' /\ PageInv'
    BY <2>1, CastStarts DEF ViewInv
  <2>4. OneSocket'
    BY <2>1, SocketKept DEF ViewInv, StartCast, Snapshot
  <2> QED BY <2>2, <2>3, <2>4 DEF ViewInv
<1>2. CASE HandleAssessed
  <2>1. PICK c \in Claims :
          /\ \/ Apply(c) /\ consumer' = "committed" /\ UNCHANGED <<managerVars, page, requests>>
             \/ StartCast /\ consumer' = "idle" /\ UNCHANGED <<claims, topic>>
          /\ UNCHANGED <<query, lastEvent, due, tracks, error>>
    BY <1>2 DEF HandleAssessed, CommitFirst
  <2>2. CASE StartCast /\ consumer' = "idle" /\ UNCHANGED <<claims, topic>>
    <3>1. TopicTypes'
      BY <2>2 DEF ViewInv, TopicTypes
    <3>2. QueueTypes' /\ Asked' /\ PageInv'
      BY <2>1, <2>2, CastStarts DEF ViewInv
    <3>3. OneSocket'
      BY <2>1, <2>2, SocketKept DEF ViewInv, StartCast, Snapshot
    <3> QED BY <3>1, <3>2, <3>3 DEF ViewInv
  <2>3. CASE /\ Apply(c) /\ consumer' = "committed"
             /\ UNCHANGED <<managerVars, page, requests>>
    <3>1. TopicTypes' /\ claims' \in [Claims -> Rows]
      BY <2>3, Applies DEF ViewInv
    <3>2. QueueTypes'
      BY <2>1, <2>3, <3>1 DEF ViewInv, QueueTypes
    <3>3. Asked' /\ PageInv'
      BY <2>1, <2>3, PageLoads DEF ViewInv, Pending
    <3>4. OneSocket'
      BY <2>1, <2>3, SocketKept DEF ViewInv, managerVars
    <3> QED BY <3>1, <3>2, <3>3, <3>4 DEF ViewInv
  <2> QED BY <2>1, <2>2, <2>3
<1>3. CASE HandlerStarves
  <2>1. PICK c \in Claims : topic[c] > 0 /\ topic' = Taken(c)
    BY <1>3 DEF HandlerStarves
  <2>2. UNCHANGED <<managerVars, queueVars, consumer>>
    BY <1>3 DEF HandlerStarves
  <2>3. TopicTypes' /\ (topic["changed"] > 0 => topic'["changed"] > 0)
    BY <2>1, <2>2, TopicTaken, ViewAssumption DEF ViewInv, TopicTypes, Events
  <2>4. Pending => Pending'
    BY <2>2, <2>3 DEF Pending, managerVars, queueVars, ClaimDue
  <2>5. QueueTypes'
    BY <2>2 DEF ViewInv, QueueTypes, queueVars
  <2>6. Asked' /\ PageInv'
    BY <2>2, <2>4, PageKept DEF ViewInv, queueVars
  <2>7. OneSocket'
    BY <2>2, SocketKept DEF ViewInv, managerVars, queueVars
  <2> QED BY <2>3, <2>5, <2>6, <2>7 DEF ViewInv
<1> QED BY <1>1, <1>2, <1>3 DEF Consumer

\* What another replica applies is announced by the event of the triage, or
\* missed.
LEMMA ElsewhereStep ==
  ASSUME ManagerInv, ViewInv, NEW c \in Claims, AppliedElsewhere(c)
  PROVE  ViewInv'
<1>1. /\ Apply(c) /\ MissUnless(Triages(c))
      /\ UNCHANGED <<managerVars, query, lastEvent, due, tracks, error, consumer>>
  BY DEF AppliedElsewhere
<1>2. /\ TopicTypes' /\ claims' \in [Claims -> Rows]
      /\ Triages(c) => topic'["changed"] > 0
  BY <1>1, Applies DEF ViewInv, TopicTypes
<1>3. OneSocket'
  BY <1>1, SocketKept DEF ViewInv, managerVars
<1>4. CASE Triages(c)
  <2>1. UNCHANGED <<page, requests>>
    BY <1>1, <1>4 DEF MissUnless
  <2>2. QueueTypes'
    BY <1>1, <1>2, <2>1 DEF ViewInv, QueueTypes
  <2>3. Asked' /\ PageInv'
    BY <1>1, <1>2, <1>4, <2>1, PageLoads DEF ViewInv, Pending
  <2> QED BY <1>2, <1>3, <2>2, <2>3 DEF ViewInv
<1>5. CASE ~Triages(c)
  <2>1. Miss
    BY <1>1, <1>5 DEF MissUnless
  <2>2. QueueTypes' /\ Asked' /\ PageInv'
    BY <1>1, <1>2, <2>1, MissTypes, PageMissed DEF ViewInv
  <2> QED BY <1>2, <1>3, <2>2 DEF ViewInv
<1> QED BY <1>4, <1>5

\* A message comes to the page.
LEMMA Received ==
  ASSUME QueueTypes, NEW m \in {"connected", "claim"}, Receive(m)
  PROVE  /\ QueueTypes' /\ lastEvent' = m /\ due' = due \cup {"event"}
         /\ UNCHANGED <<claims, query, requests, page, error>>
BY DEF QueueTypes, Receive

\* A socket is opened, or is gone.
LEMMA SocketSteps ==
  ASSUME ManagerInv, ViewInv, NEW s \in Sockets, Connect(s) \/ Refuse(s) \/ Forget(s)
  PROVE  ViewInv'
<1>1. UNCHANGED <<queueVars, topic, consumer>>
  BY DEF Connect, Refuse, Forget
<1>2. QueueTypes' /\ TopicTypes'
  BY <1>1 DEF ViewInv, QueueTypes, TopicTypes, queueVars
<1>3. CASE Connect(s)
  <2>1. /\ s \in Mine => up \cap Mine = {} /\ due = {}
        /\ up' = up \cup {s} /\ stage' = [stage EXCEPT ![s] = "handshake"]
        /\ UNCHANGED cast
    BY <1>3 DEF Connect, Open
  <2>2. Pending => Pending'
    BY <1>1, <2>1 DEF Pending, queueVars, ClaimDue
  <2>3. OneSocket'
    <3>1. CASE s \in Mine
      BY <1>1, <2>1, <3>1 DEF OneSocket, ClaimDue, queueVars
    <3>2. CASE s \notin Mine
      <4>1. Mine \cap up' = Mine \cap up /\ \A t \in Mine \cap up : stage'[t] = stage[t]
        BY <2>1, <3>2, ViewAssumption DEF ManagerInv, ManagerTypes
      <4> QED BY <1>1, <4>1 DEF ViewInv, OneSocket, ClaimDue, queueVars
    <3> QED BY <3>1, <3>2
  <2> QED BY <1>1, <1>2, <2>2, <2>3, PageKept DEF ViewInv, queueVars
<1>4. CASE Refuse(s)
  <2>1. /\ stage[s] = "handshake" /\ stage' = [stage EXCEPT ![s] = "none"]
        /\ up' = up \ {s} /\ UNCHANGED cast
    BY <1>4 DEF Refuse, EndHandshake
  <2>2. s \notin cast.to
    BY <2>1 DEF ManagerInv, SocketInv
  <2>3. Pending => Pending'
    BY <1>1, <2>1, <2>2 DEF Pending, queueVars, ClaimDue
  <2>4. \A t \in Mine \cap up' : t \in Mine \cap up /\ stage'[t] = stage[t]
    BY <2>1, ViewAssumption DEF ManagerInv, ManagerTypes
  <2>5. OneSocket'
    BY <1>1, <2>4 DEF ViewInv, OneSocket, ClaimDue, queueVars
  <2> QED BY <1>1, <1>2, <2>3, <2>5, PageKept DEF ViewInv, queueVars
<1>5. CASE Forget(s)
  <2>1. s \notin up /\ stage' = [stage EXCEPT ![s] = "none"] /\ UNCHANGED <<up, cast>>
    BY <1>5 DEF Forget, Unregister
  <2>2. Pending => Pending'
    BY <1>1, <2>1 DEF Pending, queueVars, ClaimDue
  <2>3. \A t \in Mine \cap up : stage'[t] = stage[t]
    BY <2>1, ViewAssumption DEF ManagerInv, ManagerTypes
  <2>4. OneSocket'
    BY <1>1, <2>1, <2>3 DEF ViewInv, OneSocket, ClaimDue, queueVars
  <2> QED BY <1>1, <1>2, <2>2, <2>4, PageKept DEF ViewInv, queueVars
<1> QED BY <1>3, <1>4, <1>5

LEMMA AcceptStep ==
  ASSUME ManagerInv, ViewInv, NEW s \in Sockets, Accept(s)
  PROVE  ViewInv'
<1>1. /\ stage[s] = "handshake" /\ UNCHANGED <<up, cast, topic, consumer>>
      /\ \A t \in Sockets \ {s} : stage'[t] = stage[t]
      /\ stage'[s] # "handshake"
  BY DEF Accept, Register, ManagerInv, ManagerTypes
<1>2. TopicTypes'
  BY <1>1 DEF ViewInv, TopicTypes
<1>3. CASE s \in Mine \cap up
  <2>1. /\ QueueTypes' /\ lastEvent' = "connected" /\ due' = due \cup {"event"}
        /\ UNCHANGED <<claims, query, requests, page, error>>
    BY <1>3, Received DEF Accept, ViewInv
  <2>2. ClaimDue => "query" \in due
    BY <1>1, <1>3 DEF ViewInv, OneSocket
  <2>3. Pending => Pending'
    BY <1>1, <2>1, <2>2 DEF Pending
  <2>4. OneSocket'
    BY <1>1, <2>1 DEF ViewInv, OneSocket, ClaimDue
  <2> QED BY <1>2, <2>1, <2>3, <2>4, PageKept DEF ViewInv
<1>4. CASE s \notin Mine \cap up
  <2>1. UNCHANGED queueVars
    BY <1>4 DEF Accept
  <2>2. Pending => Pending'
    BY <1>1, <2>1 DEF Pending, ClaimDue, queueVars
  <2>3. \A t \in Mine \cap up : stage'[t] = stage[t]
    BY <1>1, <1>4, ViewAssumption
  <2>4. OneSocket'
    BY <1>1, <2>1, <2>3 DEF ViewInv, OneSocket, ClaimDue, queueVars
  <2>5. QueueTypes'
    BY <2>1 DEF ViewInv, QueueTypes, queueVars
  <2> QED BY <1>2, <2>1, <2>2, <2>4, <2>5, PageKept DEF ViewInv, queueVars
<1> QED BY <1>3, <1>4

LEMMA LoseStep ==
  ASSUME ManagerInv, ViewInv, NEW s \in Sockets, Lose(s)
  PROVE  ViewInv'
<1>1. /\ up' = up \ {s} /\ UNCHANGED <<stage, cast>>
      /\ UNCHANGED <<claims, query, lastEvent, due, tracks, error, topic, consumer>>
      /\ MissUnless(s \notin Mine \cap cast.to)
  BY DEF Lose, Break
<1>2. TopicTypes' /\ OneSocket'
  BY <1>1 DEF ViewInv, TopicTypes, OneSocket, ClaimDue
<1>3. CASE s \notin Mine \cap cast.to
  <2>1. UNCHANGED <<page, requests>>
    BY <1>1, <1>3 DEF MissUnless
  <2>2. Pending => Pending'
    BY <1>1, <1>3 DEF Pending, ClaimDue
  <2>3. QueueTypes'
    BY <1>1, <2>1 DEF ViewInv, QueueTypes
  <2> QED BY <1>1, <1>2, <2>1, <2>2, <2>3, PageKept DEF ViewInv
<1>4. CASE s \in Mine \cap cast.to
  <2>1. Miss
    BY <1>1, <1>4 DEF MissUnless
  <2>2. QueueTypes'
    BY <1>1, <2>1, MissTypes DEF ViewInv, QueueTypes
  <2> QED BY <1>1, <1>2, <2>1, <2>2, PageMissed DEF ViewInv
<1> QED BY <1>3, <1>4

LEMMA SendsStep ==
  ASSUME ManagerInv, ViewInv, NEW s \in Sockets, Send(s)
  PROVE  ViewInv'
<1>1. /\ s \in cast.to /\ cast'.to = cast.to \ {s}
      /\ UNCHANGED <<up, stage, topic, consumer>>
  BY SendStep DEF Send, SendTo
<1>2. TopicTypes'
  BY <1>1 DEF ViewInv, TopicTypes
<1>3. CASE s \in Mine \cap up
  <2>1. /\ QueueTypes' /\ lastEvent' = "claim" /\ due' = due \cup {"event"}
        /\ UNCHANGED <<claims, query, requests, page, error>>
    BY <1>3, Received DEF Send, ViewInv
  <2>2. Pending'
    BY <2>1 DEF Pending, ClaimDue
  <2>3. stage[s] # "handshake"
    BY <1>1 DEF ManagerInv, SocketInv
  <2>4. OneSocket'
    BY <1>1, <1>3, <2>3 DEF ViewInv, OneSocket
  <2> QED BY <1>2, <2>1, <2>2, <2>4, PageKept DEF ViewInv
<1>4. CASE s \notin Mine \cap up
  <2>1. UNCHANGED queueVars
    BY <1>4 DEF Send
  <2>2. Pending => Pending'
    BY <1>1, <1>4, <2>1 DEF Pending, ClaimDue, queueVars
  <2>3. OneSocket'
    BY <1>1, <2>1, SocketKept DEF ViewInv, queueVars
  <2>4. QueueTypes'
    BY <2>1 DEF ViewInv, QueueTypes, queueVars
  <2> QED BY <1>2, <2>1, <2>2, <2>3, <2>4, PageKept DEF ViewInv, queueVars
<1> QED BY <1>3, <1>4

LEMMA PruneStep ==
  ASSUME ManagerInv, ViewInv, Prune
  PROVE  ViewInv'
<1>1. /\ cast.to = {} /\ cast'.to = {} /\ UNCHANGED <<up, stage>>
      /\ UNCHANGED <<queueVars, topic, consumer>>
  BY EndCastStep DEF Prune, EndCast
<1>2. QueueTypes' /\ TopicTypes'
  BY <1>1 DEF ViewInv, QueueTypes, TopicTypes, queueVars
<1>3. Pending => Pending'
  BY <1>1 DEF Pending, ClaimDue, queueVars
<1>4. OneSocket'
  BY <1>1, SocketKept DEF ViewInv, queueVars
<1> QED BY <1>1, <1>2, <1>3, <1>4, PageKept DEF ViewInv, queueVars

\* A click on the filter or a page button.
LEMMA ClickStep ==
  ASSUME ManagerInv, ViewInv, Click
  PROVE  ViewInv'
<1>1. PICK q \in Queries : Select(q)
  <2>1. CASE \E status \in Filters : SetStatus(status)
    BY <2>1 DEF SetStatus, Queries
  <2>2. CASE TurnPage
    <3>1. PICK x : x = query /\ x \in Queries
      BY DEF ViewInv, QueueTypes
    <3>2. PICK n \in Int : Select([x EXCEPT !.offset = IF n < 0 THEN 0 ELSE n])
      <4>1. PageSize \in Int
        <5>1. PageSize \in Nat \ {0}
          BY QueueAssumption
        <5> QED BY <5>1
      <4>2. x.offset \in Int
        BY <3>1 DEF Queries
      <4>3. PICK o \in {x.offset - PageSize, x.offset + PageSize} :
              Select([query EXCEPT !.offset = IF o < 0 THEN 0 ELSE o])
        BY <2>2, <3>1 DEF TurnPage
      <4>4. o \in Int
        BY <4>1, <4>2
      <4> QED BY <3>1, <4>3, <4>4
    <3>3. PICK m \in Nat : m = IF n < 0 THEN 0 ELSE n
      OBVIOUS
    <3>4. [x EXCEPT !.offset = m] \in Queries
      BY <3>1 DEF Queries
    <3> QED BY <3>2, <3>3, <3>4
  <2> QED BY <2>1, <2>2 DEF Click
<1>2. /\ query' = q /\ due' \in SUBSET {"query", "event"} /\ "query" \in due'
      /\ UNCHANGED <<claims, lastEvent, tracks, requests, page, error>>
      /\ UNCHANGED <<managerVars, topic, consumer>>
  BY <1>1 DEF Click, Select, Elsewhere, ViewInv, QueueTypes
<1>3. QueueTypes' /\ TopicTypes'
  BY <1>2 DEF ViewInv, QueueTypes, TopicTypes
<1>4. OneSocket'
  BY <1>2 DEF ViewInv, OneSocket, managerVars
<1> QED BY <1>2, <1>3, <1>4 DEF ViewInv, Asked, PageInv, Pending

LEMMA RunStep ==
  ASSUME ManagerInv, ViewInv, Run
  PROVE  ViewInv'
<1>1. /\ RunEffects /\ UNCHANGED <<managerVars, topic, consumer>> /\ due' \subseteq {}
      /\ tracks' \in BOOLEAN
      /\ UNCHANGED <<claims, query, lastEvent, page, error>>
  BY DEF Run, RunEffects, Alone, Elsewhere, DueAfter, IsClaimEvent, ViewInv, QueueTypes
<1>2. requests' \in Seq(Requests)
  BY <1>1, RunSends DEF ViewInv
<1>3. QueueTypes' /\ TopicTypes'
  BY <1>1, <1>2 DEF ViewInv, QueueTypes, TopicTypes
<1>4. OneSocket'
  BY <1>1 DEF ViewInv, OneSocket, ClaimDue, managerVars
<1>5. CASE requests' = requests /\ "query" \notin due /\ ~("event" \in due /\ IsClaimEvent)
  <2>1. Pending => Pending'
    BY <1>1, <1>5 DEF Pending, ClaimDue, IsClaimEvent, managerVars
  <2> QED BY <1>1, <1>3, <1>4, <1>5, <2>1, PageKept DEF ViewInv
<1>6. CASE requests' # << >> /\ Newest' = NewRequest(query)
  <2>1. PICK z : z = Newest'
    OBVIOUS
  <2>2. z.query = query /\ z.stage = "sent"
    BY <1>6, <2>1 DEF NewRequest
  <2>3. WillBeCurrent(z)'
    BY <1>1, <2>2 DEF WillBeCurrent
  <2>4. Asked' /\ PageInv'
    BY <1>1, <1>6, <2>1, <2>2, <2>3 DEF Asked, PageInv
  <2> QED BY <1>3, <1>4, <2>4 DEF ViewInv
<1> QED BY <1>1, <1>5, <1>6, RunSends DEF ViewInv

\* A request goes on: what the server answers is what it reads now.
LEMMA SetStep ==
  ASSUME ViewInv, NEW i \in DOMAIN requests, NEW r, SetTo(i, r),
         UNCHANGED <<claims, query, lastEvent, due, tracks, page, error>>,
         UNCHANGED <<managerVars, topic, consumer>>,
         r.query = requests[i].query, r.answer.late = requests[i].answer.late,
         WillBeCurrent(requests[i]) => WillBeCurrent(r)
  PROVE  ViewInv'
<1>1. /\ requests' \in Seq(Requests) /\ requests # << >> /\ requests' # << >>
      /\ Newest' = IF i = Len(requests) THEN r ELSE Newest
  BY SetLast DEF ViewInv
<1>2. QueueTypes' /\ TopicTypes' /\ OneSocket'
  BY <1>1 DEF ViewInv, QueueTypes, TopicTypes, OneSocket, ClaimDue, managerVars
<1>3. Pending' <=> Pending
  BY DEF Pending, ClaimDue, managerVars
<1>4. \A z : WillBeCurrent(z) => WillBeCurrent(z)'
  BY DEF WillBeCurrent, Listed, Newer, Matching, Total
<1>5. PICK z : z = Newest'
  OBVIOUS
<1>6. /\ WillBeCurrent(Newest) => WillBeCurrent(z)
      /\ z.query = Newest.query /\ z.answer.late = Newest.answer.late
  BY <1>1, <1>5 DEF Newest
<1>7. Asked'
  BY <1>1, <1>5, <1>6 DEF ViewInv, Asked
<1>8. PageInv'
  BY <1>1, <1>3, <1>4, <1>5, <1>6 DEF ViewInv, PageInv
<1> QED BY <1>2, <1>7, <1>8 DEF ViewInv

LEMMA ServeStep ==
  ASSUME ManagerInv, ViewInv, NEW i \in DOMAIN requests, Serve(i) \/ Starve(i)
  PROVE  ViewInv'
<1>1. /\ UNCHANGED <<claims, query, lastEvent, due, tracks, page, error>>
      /\ UNCHANGED <<managerVars, topic, consumer>>
  BY DEF Serve, Starve, Count, Answer, Fail, Alone, Elsewhere
<1>2. QueueTypes
  BY DEF ViewInv
<1>3. CASE Count(i)
  <2>1. PICK r : /\ SetTo(i, r) /\ r.stage = "counted" /\ r.query = requests[i].query
                 /\ r.answer.total = Total(r.query.status)
                 /\ r.answer.missed = requests[i].answer.missed
                 /\ r.answer.late = requests[i].answer.late
    BY <1>2, <1>3, CountSets
  <2>2. requests[i].stage = "sent"
    BY <1>3 DEF Count
  <2>3. WillBeCurrent(requests[i]) => WillBeCurrent(r)
    BY <2>1, <2>2 DEF WillBeCurrent
  <2> QED BY <1>1, <2>1, <2>3, SetStep
<1>4. CASE Answer(i)
  <2>1. PICK r : /\ SetTo(i, r) /\ r.stage = "answered" /\ r.query = requests[i].query
                 /\ r.answer.rows = Listed(r.query)
                 /\ r.answer.total = requests[i].answer.total
                 /\ r.answer.missed = requests[i].answer.missed
                 /\ r.answer.late = requests[i].answer.late
    BY <1>2, <1>4, AnswerSets
  <2>2. requests[i].stage = "counted"
    BY <1>4 DEF Answer
  <2>3. WillBeCurrent(requests[i]) => WillBeCurrent(r)
    BY <2>1, <2>2 DEF WillBeCurrent
  <2> QED BY <1>1, <2>1, <2>3, SetStep
<1>5. CASE Fail(i)
  <2>1. PICK r : /\ SetTo(i, r) /\ r.stage = "failed" /\ r.query = requests[i].query
                 /\ r.answer = requests[i].answer
    BY <1>2, <1>5, FailSets
  <2>2. WillBeCurrent(r)
    BY <2>1 DEF WillBeCurrent
  <2> QED BY <1>1, <2>1, <2>2, SetStep
<1> QED BY <1>3, <1>4, <1>5 DEF Serve, Starve

LEMMA ShowStep ==
  ASSUME ManagerInv, ViewInv, NEW i \in DOMAIN requests, Show(i)
  PROVE  ViewInv'
<1>1. /\ requests[i].stage \in {"answered", "failed"} /\ requests' = Without(i)
      /\ error' = (requests[i].stage = "failed")
      /\ page' = IF requests[i].stage = "failed" THEN page ELSE requests[i].answer
      /\ UNCHANGED <<claims, query, lastEvent, due, tracks, managerVars, topic, consumer>>
  BY DEF Show, TakeAnswer, Alone, Elsewhere
<1>2. /\ requests' \in Seq(Requests) /\ Len(requests') = Len(requests) - 1
      /\ requests' # << >> =>
           IF i = Len(requests) THEN Newest'.answer.late ELSE Newest' = Newest
  BY <1>1, TakeRemoves DEF ViewInv
<1>3. PICK x : x = requests[i] /\ x \in Requests /\ x.answer \in Answers
  <2>1. requests \in Seq(Requests)
    BY DEF ViewInv, QueueTypes
  <2>2. PICK x : x = requests[i] /\ x \in Requests
    BY <2>1
  <2>3. x.answer \in Answers
    BY <2>2 DEF Requests
  <2> QED BY <2>2, <2>3
<1>4. QueueTypes' /\ TopicTypes' /\ OneSocket'
  BY <1>1, <1>2, <1>3 DEF ViewInv, QueueTypes, TopicTypes, OneSocket, ClaimDue, managerVars
<1>5. Pending' <=> Pending
  BY <1>1 DEF Pending, ClaimDue, managerVars
<1>6. \A z : WillBeCurrent(z) => WillBeCurrent(z)'
  BY <1>1 DEF WillBeCurrent, Listed, Newer, Matching, Total
<1>7. requests # << >>
  BY DEF ViewInv, QueueTypes
<1>8. CASE requests' # << >>
  <2>1. PICK z : z = Newest'
    OBVIOUS
  <2>2. CASE i = Len(requests)
    <3>1. z.answer.late
      BY <1>2, <1>8, <2>1, <2>2
    <3>2. WillBeCurrent(z)'
      BY <3>1 DEF WillBeCurrent
    <3> QED BY <1>4, <1>8, <2>1, <3>1, <3>2 DEF ViewInv, Asked, PageInv
  <2>3. CASE i # Len(requests)
    <3>1. z = Newest
      BY <1>2, <1>8, <2>1, <2>3
    <3>2. Asked'
      BY <1>1, <1>7, <2>1, <3>1 DEF ViewInv, Asked
    <3>3. PageInv'
      BY <1>5, <1>6, <1>7, <1>8, <2>1, <3>1 DEF ViewInv, PageInv
    <3> QED BY <1>4, <3>2, <3>3 DEF ViewInv
  <2> QED BY <2>2, <2>3
<1>9. CASE requests' = << >>
  <2>1. i = Len(requests) /\ Newest = x
    <3>1. Len(requests') = 0
      BY <1>9
    <3>2. Len(requests) \in Nat /\ i \in 1..Len(requests)
      BY DEF ViewInv, QueueTypes
    <3>3. i = Len(requests)
      BY <1>2, <3>1, <3>2
    <3> QED BY <1>3, <3>3 DEF Newest
  <2>2. Asked'
    BY <1>9 DEF Asked
  <2>3. CASE Pending
    BY <1>4, <1>5, <2>2, <2>3 DEF ViewInv, PageInv
  <2>4. CASE ~Pending
    <3>1. WillBeCurrent(x)
      BY <1>7, <2>1, <2>4 DEF ViewInv, PageInv
    <3>2. ShowsIt'
      <4>1. CASE x.stage = "failed"
        BY <1>1, <1>3, <4>1 DEF ShowsIt
      <4>2. CASE x.stage = "answered"
        <5>1. page' = x.answer
          BY <1>1, <1>3, <4>2
        <5>2. PICK a : a = x.answer
          OBVIOUS
        <5>3. a.missed \/ a.late \/ Current(a)
          BY <3>1, <4>2, <5>2 DEF WillBeCurrent, Current
        <5>4. Current(a) => Current(a)'
          BY <1>1 DEF Current, Listed, Newer, Matching, Total
        <5> QED BY <5>1, <5>2, <5>3, <5>4 DEF ShowsIt
      <4> QED BY <1>1, <1>3, <4>1, <4>2
    <3> QED BY <1>4, <1>9, <2>2, <3>2 DEF ViewInv, PageInv
  <2> QED BY <2>3, <2>4
<1> QED BY <1>8, <1>9

LEMMA ViewNext ==
  ASSUME ManagerInv, ViewInv, [Next]_vars
  PROVE  ViewInv'
<1>1. CASE UNCHANGED vars
  <2>1. UNCHANGED <<managerVars, queueVars, topic, consumer>>
    BY <1>1 DEF vars
  <2>2. QueueTypes' /\ TopicTypes' /\ OneSocket'
    BY <2>1 DEF ViewInv, QueueTypes, TopicTypes, OneSocket, ClaimDue, managerVars, queueVars
  <2>3. Pending => Pending'
    BY <2>1 DEF Pending, ClaimDue, managerVars, queueVars
  <2> QED BY <2>1, <2>2, <2>3, PageKept DEF ViewInv, queueVars
<1>2. ASSUME NEW s \in Sockets, Connect(s) \/ Lose(s) \/ Socket(s)
      PROVE  ViewInv'
  BY <1>2, SocketSteps, AcceptStep, LoseStep, SendsStep DEF Socket
<1>3. ASSUME NEW i \in DOMAIN requests, Request(i)
      PROVE  ViewInv'
  BY <1>3, ServeStep, ShowStep DEF Request
<1> QED BY <1>1, <1>2, <1>3, ChangeSteps, ConsumerSteps, ElsewhereStep, PruneStep,
       ClickStep, RunStep DEF Next

LEMMA ViewStart ==
  ASSUME Init
  PROVE  ViewInv
<1>0. requests = << >> /\ topic = [e \in Events |-> 0] /\ consumer = "idle"
  BY DEF Init, QueueInit
<1>1. /\ claims = [c \in Claims |-> [status |-> "submitted", scored |-> FALSE]]
      /\ query = [status |-> "", offset |-> 0] /\ lastEvent = "none"
      /\ due = {"query", "event"} /\ tracks = FALSE
      /\ page = EmptyPage /\ error = FALSE /\ Mine \cap up = {}
  BY DEF Init, ManagerInit, QueueInit
<1>2. page \in Answers
  BY <1>1 DEF EmptyPage, Answers
<1>3. query \in Queries
  BY <1>1, QueueAssumption DEF Queries
<1>4. QueueTypes
  <2>1. claims \in [Claims -> Rows]
    BY <1>1 DEF Rows
  <2>2. requests \in Seq(Requests)
    BY <1>0
  <2>3. lastEvent \in {"none", "connected", "claim"} /\ due \subseteq {"query", "event"}
    BY <1>1
  <2>4. {error, tracks} \subseteq BOOLEAN
    BY <1>1
  <2> QED BY <1>2, <1>3, <2>1, <2>2, <2>3, <2>4 DEF QueueTypes
<1>5. TopicTypes
  BY <1>0 DEF TopicTypes
<1>6. OneSocket
  BY <1>1 DEF OneSocket
<1>7. Asked /\ PageInv
  BY <1>1 DEF Asked, PageInv, Pending
<1> QED BY <1>4, <1>5, <1>6, <1>7 DEF ViewInv

\* The manager and the page keep their invariants through every step of the
\* consumer, the sockets, the browser and the other replica.
THEOREM ViewSound == Spec => [](ManagerInv /\ ViewInv)
<1>1. Init => ManagerInv /\ ViewInv
  BY ManagerStart, ViewStart
<1>2. ManagerInv /\ ViewInv /\ [Next]_vars => ManagerInv' /\ ViewInv'
  BY ManagerNext, ViewNext
<1> QED BY <1>1, <1>2, PTL DEF Spec

\* claim-queue.ts:53-56: when nothing is under way the page shows what the list
\* returns now, unless a change was not announced to it, an older answer came
\* in after a newer one, or it shows an error; for any number of sockets,
\* requests in flight and changes.
THEOREM PageIsCurrent == Spec => []QuietIsCurrent
<1>1. ASSUME ViewInv, AtRest, ~error
      PROVE  \/ page.missed \/ page.late
             \/ page.rows = Listed(query)
                /\ page.total = Cardinality(Matching(query.status))
  <2>1. ~Pending
    BY <1>1 DEF AtRest, Pending, ClaimDue, NoCast, Events
  <2>2. ShowsIt
    BY <1>1, <2>1 DEF ViewInv, PageInv, AtRest
  <2>3. error # TRUE
    BY <1>1
  <2> QED BY <2>2, <2>3 DEF ShowsIt, Current, Total
<1>2. ViewInv => QuietIsCurrent
  BY <1>1 DEF QuietIsCurrent
<1> QED BY <1>2, ViewSound, PTL

-----------------------------------------------------------------------------
(***************************************************************************)
(* The connections of the pool                                             *)
(***************************************************************************)
Counted == {i \in DOMAIN requests : requests[i].stage = "counted"}

PoolInv == InUse <= PoolSize

LEMMA FiniteIndices ==
  ASSUME NEW n \in Nat, NEW S \in SUBSET (1..n)
  PROVE  IsFiniteSet(S)
<1>1. IsFiniteSet(1..n)
  BY FS_Interval
<1> QED BY <1>1, FS_Subset

LEMMA InUseIs ==
  ASSUME ManagerTypes, QueueTypes
  PROVE  /\ IsFiniteSet(Serving) /\ IsFiniteSet(Counted)
         /\ Cardinality(Serving) \in Nat /\ Cardinality(Counted) \in Nat
         /\ InUse = Cardinality(Serving) + Cardinality(Counted)
<1>1. IsFiniteSet(Serving)
  BY CountSockets DEF Serving
<1>2. IsFiniteSet(Counted)
  <2>1. PICK n \in Nat : DOMAIN requests = 1..n
    BY DEF QueueTypes
  <2>2. Counted \subseteq 1..n
    BY <2>1 DEF Counted
  <2> QED BY <2>2, FiniteIndices
<1> QED BY <1>1, <1>2, FS_CardinalityType DEF InUse, Counted

LEMMA InUseBecomes ==
  ASSUME ManagerTypes', QueueTypes'
  PROVE  /\ IsFiniteSet(Serving') /\ IsFiniteSet(Counted')
         /\ Cardinality(Serving') \in Nat /\ Cardinality(Counted') \in Nat
         /\ InUse' = Cardinality(Serving') + Cardinality(Counted')
<1>1. IsFiniteSet(Serving')
  BY CountSockets DEF Serving
<1>2. IsFiniteSet(Counted')
  <2>1. PICK n \in Nat : DOMAIN requests' = 1..n
    BY DEF QueueTypes
  <2>2. Counted' \subseteq 1..n
    BY <2>1 DEF Counted
  <2> QED BY <2>2, FiniteIndices
<1> QED BY <1>1, <1>2, FS_CardinalityType DEF InUse, Counted

\* A connection that comes free, or none that is taken.
LEMMA PoolKept ==
  ASSUME ManagerTypes, QueueTypes, PoolInv, ManagerTypes', QueueTypes',
         Serving' \subseteq Serving, Cardinality(Counted') <= Cardinality(Counted)
  PROVE  PoolInv'
<1>1. Cardinality(Serving') <= Cardinality(Serving)
  BY InUseIs, FS_Subset
<1>2. PICK m, n : m = Cardinality(Serving) /\ n = Cardinality(Counted)
  OBVIOUS
<1>3. PICK k, l : k = Cardinality(Serving') /\ l = Cardinality(Counted')
  OBVIOUS
<1>4. m \in Nat /\ n \in Nat /\ k \in Nat /\ l \in Nat /\ m + n <= PoolSize /\ PoolSize' = PoolSize
  BY <1>2, <1>3, InUseIs, InUseBecomes DEF PoolInv
<1>5. PoolSize \in Nat
  BY ManagerAssumption
<1>6. InUse' = k + l
  BY <1>3, InUseBecomes
<1> QED BY <1>1, <1>2, <1>3, <1>4, <1>5, <1>6 DEF PoolInv

\* One connection is taken while one is free.
LEMMA ConnectionTaken ==
  ASSUME ManagerTypes, QueueTypes, FreeConnection, ManagerTypes', QueueTypes',
         NEW s, NEW i,
         \/ Serving' \subseteq Serving \cup {s} /\ Counted' \subseteq Counted
         \/ Serving' \subseteq Serving /\ Counted' \subseteq Counted \cup {i}
  PROVE  PoolInv'
<1>1. PICK A, B : A = Serving' /\ B = Counted'
  OBVIOUS
<1>2. PICK m, n : m = Cardinality(Serving) /\ n = Cardinality(Counted)
  OBVIOUS
<1>3. PICK k, l : k = Cardinality(A) /\ l = Cardinality(B)
  OBVIOUS
<1>4. IsFiniteSet(A) /\ IsFiniteSet(B) /\ k \in Nat /\ l \in Nat /\ InUse' = k + l
  BY <1>1, <1>3, InUseBecomes
<1>5. m \in Nat /\ n \in Nat /\ m + n < PoolSize
  BY <1>2, InUseIs DEF FreeConnection
<1>6. ASSUME NEW S, NEW T, NEW x, IsFiniteSet(S), T \subseteq S \cup {x}
      PROVE  Cardinality(T) <= Cardinality(S) + 1
  <2>1. /\ IsFiniteSet(S \cup {x})
        /\ Cardinality(S \cup {x}) = IF x \in S THEN Cardinality(S) ELSE Cardinality(S) + 1
    BY <1>6, FS_AddElement
  <2>2. Cardinality(T) <= Cardinality(S \cup {x}) /\ IsFiniteSet(T)
    BY <1>6, <2>1, FS_Subset
  <2>3. Cardinality(S) \in Nat /\ Cardinality(T) \in Nat
    BY <1>6, <2>2, FS_CardinalityType
  <2> QED BY <2>1, <2>2, <2>3
<1>7. (k <= m + 1 /\ l <= n) \/ (k <= m /\ l <= n + 1)
  <2>1. IsFiniteSet(Serving) /\ IsFiniteSet(Counted)
    BY InUseIs
  <2>2. CASE A \subseteq Serving \cup {s} /\ B \subseteq Counted
    BY <1>2, <1>3, <1>6, <2>1, <2>2, FS_Subset
  <2>3. CASE A \subseteq Serving /\ B \subseteq Counted \cup {i}
    BY <1>2, <1>3, <1>6, <2>1, <2>3, FS_Subset
  <2> QED BY <1>1, <2>2, <2>3
<1>8. PoolSize \in Nat
  BY ManagerAssumption
<1> QED BY <1>4, <1>5, <1>7, <1>8 DEF PoolInv

LEMMA SameCounted ==
  ASSUME QueueTypes, DOMAIN requests' = DOMAIN requests,
         \A i \in DOMAIN requests : requests'[i].stage = requests[i].stage
  PROVE  Counted' = Counted
BY DEF Counted

\* An answer leaves the list: those behind it move up.
LEMMA FewerCounted ==
  ASSUME QueueTypes, QueueTypes', NEW i \in DOMAIN requests, requests' = Without(i)
  PROVE  Cardinality(Counted') <= Cardinality(Counted)
<1>1. PICK n : n = Len(requests) /\ n \in Nat /\ DOMAIN requests = 1..n
  BY DEF QueueTypes
<1>2. /\ Len(requests') = n - 1
      /\ \A j \in 1..Len(requests') :
           IF j < i THEN requests'[j].stage = requests[j].stage
           ELSE requests'[j] = requests[j + 1]
  BY <1>1, TakeRemoves
<1>3. DOMAIN requests' = 1..(n - 1)
  BY <1>2 DEF QueueTypes
<1>4. PICK B : B = Counted'
  OBVIOUS
<1>5. PICK f : f = [j \in B |-> IF j < i THEN j ELSE j + 1]
  OBVIOUS
<1>6. ASSUME NEW j \in B
      PROVE  j \in 1..(n - 1) /\ f[j] \in Counted
  <2>1. j \in 1..(n - 1) /\ requests'[j].stage = "counted"
    BY <1>3, <1>4 DEF Counted
  <2>2. CASE j < i
    BY <1>1, <1>2, <1>3, <1>5, <2>1, <2>2 DEF Counted
  <2>3. CASE ~(j < i)
    <3>1. requests[j + 1].stage = "counted" /\ j + 1 \in 1..n
      BY <1>1, <1>2, <1>3, <2>1, <2>3
    <3> QED BY <1>1, <1>5, <2>1, <2>3, <3>1 DEF Counted
  <2> QED BY <2>2, <2>3
<1>7. i \in Nat
  BY <1>1
<1>8. \A j, k \in B : f[j] = f[k] => j = k
  BY <1>5, <1>6, <1>7, <1>1
<1>9. f \in Injection(B, Counted)
  BY <1>5, <1>6, <1>8 DEF Injection, IsInjective
<1>10. IsFiniteSet(Counted)
  <2>1. Counted \subseteq 1..n
    BY <1>1 DEF Counted
  <2> QED BY <1>1, <2>1, FiniteIndices
<1> QED BY <1>4, <1>9, <1>10, FS_Injection

\* No connection changes hands.
LEMMA PoolSame ==
  ASSUME ManagerTypes, QueueTypes, PoolInv, ManagerTypes', QueueTypes',
         Serving' \subseteq Serving, Counted' \subseteq Counted
  PROVE  PoolInv'
<1>1. Cardinality(Counted') <= Cardinality(Counted)
  BY InUseIs, FS_Subset
<1> QED BY <1>1, PoolKept

LEMMA MissCounts ==
  ASSUME QueueTypes, NEW told, MissUnless(told)
  PROVE  Counted' = Counted
<1>1. CASE told
  BY <1>1 DEF MissUnless, Counted
<1>2. CASE ~told
  BY <1>2, MissMarks, SameCounted DEF MissUnless
<1> QED BY <1>1, <1>2

LEMMA PoolRequests ==
  ASSUME ManagerInv, QueueTypes, PoolInv, ManagerTypes', QueueTypes',
         NEW i \in DOMAIN requests, Request(i)
  PROVE  PoolInv'
<1>1. Serving' = Serving
  BY DEF Request, Serve, Starve, Show, Alone, Elsewhere, managerVars, Serving
<1>2. ASSUME NEW r, SetTo(i, r)
      PROVE  /\ Counted' \subseteq Counted \cup {i}
             /\ r.stage # "counted" => Counted' \subseteq Counted
  BY <1>2, SetLast DEF Counted
<1>3. CASE FreeConnection /\ Count(i)
  BY <1>1, <1>2, <1>3, CountSets, ConnectionTaken DEF ManagerInv
<1>4. CASE Answer(i)
  BY <1>1, <1>2, <1>4, AnswerSets, PoolSame DEF ManagerInv
<1>5. CASE Fail(i)
  BY <1>1, <1>2, <1>5, FailSets, PoolSame DEF ManagerInv
<1>6. CASE TakeAnswer(i)
  <2>1. requests' = Without(i)
    BY <1>6 DEF TakeAnswer
  <2> QED BY <1>1, <2>1, FewerCounted, PoolKept DEF ManagerInv
<1> QED BY <1>3, <1>4, <1>5, <1>6 DEF Request, Serve, Starve, Show

LEMMA PoolNext ==
  ASSUME ManagerInv, ViewInv, PoolInv, ManagerInv', ViewInv', [Next]_vars
  PROVE  PoolInv'
<1> USE DEF ManagerInv, ViewInv
<1>1. CASE UNCHANGED <<stage, requests>>
  BY <1>1, PoolSame DEF Serving, Counted
<1>2. CASE UNCHANGED vars
  BY <1>1, <1>2 DEF vars, managerVars, queueVars
<1>3. CASE \E c \in Claims : Review(c) \/ Assess(c)
  BY <1>1, <1>3 DEF Review, Assess, managerVars, queueVars
<1>4. ASSUME StartCast
      PROVE  PoolInv'
  <2>1. Counted' = Counted
    BY <1>4, MissCounts DEF StartCast
  <2>2. Serving' = Serving
    BY <1>4, SnapshotStep DEF StartCast
  <2> QED BY <2>1, <2>2, PoolSame
<1>5. CASE Consumer
  BY <1>1, <1>4, <1>5 DEF Consumer, TellChanged, HandleAssessed, CommitFirst,
       HandlerStarves, managerVars, queueVars
<1>6. CASE \E c \in Claims : AppliedElsewhere(c)
  <2>1. Counted' = Counted
    BY <1>6, MissCounts DEF AppliedElsewhere
  <2>2. Serving' = Serving
    BY <1>6 DEF AppliedElsewhere, managerVars, Serving
  <2> QED BY <2>1, <2>2, PoolSame
<1>7. ASSUME NEW s \in Sockets, Connect(s) \/ Refuse(s) \/ Forget(s) \/ Send(s)
      PROVE  PoolInv'
  <2>1. UNCHANGED requests
    BY <1>7 DEF Connect, Refuse, Forget, Send, Receive, queueVars
  <2>2. Counted' = Counted
    BY <2>1 DEF Counted
  <2>3. Serving' \subseteq Serving
    BY <1>7, OpenStep, EndHandshakeStep, UnregisterStep, SendStep
       DEF Connect, Refuse, Forget, Send
  <2> QED BY <2>2, <2>3, PoolSame
<1>8. ASSUME NEW s \in Sockets, Accept(s)
      PROVE  PoolInv'
  <2>1. UNCHANGED requests /\ FreeConnection
    BY <1>8 DEF Accept, Receive, queueVars
  <2>2. Counted' = Counted
    BY <2>1 DEF Counted
  <2>3. Serving' \subseteq Serving \cup {s}
    BY <1>8, RegisterStep DEF Accept
  <2> QED BY <2>1, <2>2, <2>3, ConnectionTaken
<1>9. ASSUME NEW s \in Sockets, Lose(s)
      PROVE  PoolInv'
  <2>1. Counted' = Counted
    BY <1>9, MissCounts DEF Lose
  <2>2. Serving' = Serving
    BY <1>9, BreakStep DEF Lose
  <2> QED BY <2>1, <2>2, PoolSame
<1>10. CASE \E s \in Sockets : Connect(s) \/ Lose(s) \/ Socket(s)
  BY <1>7, <1>8, <1>9, <1>10 DEF Socket
<1>11. CASE Prune
  <2>1. UNCHANGED <<stage, requests>>
    BY <1>11 DEF Prune, EndCast, queueVars
  <2> QED BY <1>1, <2>1
<1>12. CASE Click
  <2>1. UNCHANGED <<stage, requests>>
    BY <1>12 DEF Click, SetStatus, TurnPage, Select, Elsewhere, managerVars
  <2> QED BY <1>1, <2>1
<1>13. CASE Run
  <2>1. Serving' = Serving
    BY <1>13 DEF Run, Alone, Elsewhere, managerVars, Serving
  <2>2. Counted' \subseteq Counted
    BY <1>13, RunSends DEF Run, Counted
  <2> QED BY <2>1, <2>2, PoolSame
<1>14. CASE \E i \in DOMAIN requests : Request(i)
  BY <1>14, PoolRequests
<1> QED BY <1>2, <1>3, <1>5, <1>6, <1>10, <1>11, <1>12, <1>13, <1>14 DEF Next

BoundInv == disturbances \in 0..MaxDisturbances

LEMMA BoundNext ==
  ASSUME BoundInv, [Next]_vars
  PROVE  BoundInv'
<1>1. disturbances' = disturbances \/ Disturb
  BY DEF Next, vars, Review, Assess, AppliedElsewhere, Consumer, TellChanged,
     HandleAssessed, HandlerStarves, Connect, Lose, Socket, Accept, Refuse, Forget,
     Send, Prune, Click, Run, Request, Serve, Starve, Show, Alone
<1> QED BY <1>1, ViewAssumption DEF BoundInv, Disturb

\* Types; and no more sockets and list requests run at a time than the engine
\* has connections, so that a socket or a request that finds none waits or is
\* refused, whatever comes and goes in between.
THEOREM TypeCorrect == Spec => []TypeOK
<1>1. Init => PoolInv
  <2>1. SUFFICES ASSUME Init PROVE PoolInv
    OBVIOUS
  <2>2. PICK open \in SUBSET Sockets : Cardinality(open) <= PoolSize /\ ManagerInit(open)
    BY <2>1 DEF Init
  <2>3. Serving = open /\ Counted = {}
    <3>1. /\ stage = [s \in Sockets |-> IF s \in open THEN "serving" ELSE "none"]
          /\ requests = << >>
      BY <2>1, <2>2 DEF Init, ManagerInit, QueueInit
    <3> QED BY <2>2, <3>1 DEF Serving, Counted
  <2>4. Cardinality(open) \in Nat /\ Cardinality(Counted) = 0
    BY <2>3, CountSockets, FS_EmptySet, FS_CardinalityType
  <2>5. InUse = Cardinality(Serving) + Cardinality(Counted)
    BY DEF InUse, Counted
  <2> QED BY <2>2, <2>3, <2>4, <2>5 DEF PoolInv
<1>2. ManagerInv /\ ViewInv /\ ManagerInv' /\ ViewInv' /\ PoolInv /\ [Next]_vars
        => PoolInv'
  BY PoolNext
<1>3. Init => BoundInv
  BY ViewAssumption DEF Init, BoundInv
<1>4. BoundInv /\ [Next]_vars => BoundInv'
  BY BoundNext
<1>5. ASSUME ManagerInv, ViewInv, PoolInv, BoundInv
      PROVE  TypeOK
  <2>1. QueueTypes /\ ManagerTypes /\ SocketInv /\ TopicTypes
    BY <1>5 DEF ViewInv, ManagerInv
  <2>2. requests \in Seq(Requests)
    BY <2>1 DEF QueueTypes
  <2>3. ASSUME NEW i \in DOMAIN requests PROVE requests[i].answer \in Answers
    <3>1. PICK x : x = requests[i] /\ x \in Requests
      BY <2>2
    <3> QED BY <3>1 DEF Requests
  <2>4. PICK x : x = cast /\ x \in Casts
    BY <2>1 DEF ManagerTypes
  <2>5. x.to \subseteq Sockets /\ x.dead \subseteq Sockets
    BY <2>4 DEF Casts
  <2>6. {error, tracks} \subseteq BOOLEAN
    BY <2>1 DEF QueueTypes
  <2>7. query \in [status : Filters, offset : Nat]
    BY <2>1 DEF QueueTypes, Queries
  <2> QED BY <1>5, <2>1, <2>3, <2>4, <2>5, <2>6, <2>7
          DEF TypeOK, ManagerTypes, SocketInv, QueueTypes, TopicTypes, PoolInv,
              BoundInv
<1> QED BY <1>1, <1>2, <1>3, <1>4, <1>5, ViewSound, PTL DEF Spec
=============================================================================
