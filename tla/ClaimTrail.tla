----------------------------- MODULE ClaimTrail -----------------------------
(***************************************************************************)
(* What the claims API promises of a claim, with no database in sight: a   *)
(* claim has a status and an audit trail, the trail grows by one legal     *)
(* move at a time, each made by somebody whose role may make it, and every *)
(* entry of the trail has exactly one event.  ClaimLifecycle implements it *)
(* with sessions, row locks and transactions.                              *)
(***************************************************************************)
EXTENDS ClaimStateMachine, Sequences

CONSTANTS Claims,  \* claim identities
          Users,   \* people; a system move has actor None
          Role     \* the role of each user

VARIABLES status,  \* status[c]: None until the claim is opened
          trail,   \* trail[c]: the moves of c, oldest first
          events   \* events[c]: the status each event of c announces

trailVars == <<status, trail, events>>

TrailInit ==
  /\ status = [c \in Claims |-> None]
  /\ trail = [c \in Claims |-> << >>]
  /\ events = [c \in Claims |-> << >>]

Record(c, move) ==
  /\ status' = [status EXCEPT ![c] = move.to]
  /\ trail' = [trail EXCEPT ![c] = Append(@, move)]
  /\ events' = [events EXCEPT ![c] = Append(@, move.to)]

Open(c) ==
  /\ status[c] = None
  /\ Record(c, [from |-> None, to |-> "submitted", actor |-> None])

UserMove(c, u, to) ==
  /\ \E m \in Rows(status[c], to) : ~m.systemOnly /\ Role[u] \in m.roles
  /\ Record(c, [from |-> status[c], to |-> to, actor |-> u])

Triage(c) ==
  /\ status[c] = "submitted"
  /\ Record(c, [from |-> "submitted", to |-> "triaged", actor |-> None])

TrailNext ==
  \E c \in Claims :
    \/ Open(c)
    \/ \E u \in Users, to \in Statuses : UserMove(c, u, to)
    \/ Triage(c)

TrailSpec == TrailInit /\ [][TrailNext]_trailVars
=============================================================================
