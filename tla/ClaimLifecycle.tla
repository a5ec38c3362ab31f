--------------------------- MODULE ClaimLifecycle ---------------------------
(***************************************************************************)
(* app/services/claim_service.py over PostgreSQL: claims created by FNOL   *)
(* intake, moved by people through the API and scored by the consumer of   *)
(* assessment.completed, each in a database transaction of its own.        *)
(*                                                                         *)
(* A transaction starts at the session's first statement (the user lookup  *)
(* of get_current_user, the ledger insert of the consumer), and from then  *)
(* on now() is fixed: created_at of the rows it writes is its START time.  *)
(* It then waits for the claim's row lock (SELECT ... FOR UPDATE), reads,  *)
(* decides and commits, so commits may happen in another order than        *)
(* created_at says.  One clock tick per transaction start.                 *)
(*                                                                         *)
(* The body of a request (to_status, amount) is chosen where it is first   *)
(* looked at, after the lock; nothing before depends on it.                *)
(***************************************************************************)
EXTENDS ClaimStateMachine, Sequences, FiniteSets

CONSTANTS
  Claims,       \* claim identities
  Users,        \* people who may sign in
  System,       \* the actor of a consumer's transaction
  Txs,          \* database sessions that may be open at once
  Role,         \* Role[u]: nothing in the code changes it
  Limit,        \* Limit[u]: authority limit, likewise
  Amounts,      \* settlement amounts; the schema admits positive ones only
  Assessments,  \* assessment identities
  Policies,     \* [active, first, last]: the policies a claim may name
  Days,         \* loss dates
  MaxClock      \* bound: transactions started, claim creations included

ASSUME LifecycleAssumption ==
  /\ None \notin Claims /\ None \notin Txs /\ None \notin Assessments
  /\ None \notin Users /\ None \notin Statuses
  /\ System \notin Users /\ System # None
  /\ Role \in [Users -> ALL_ROLES]
  /\ Limit \in [Users -> Nat]
  /\ Amounts \subseteq Nat \ {0}

VARIABLES
  row,      \* claims.claims: row[c] is None before the claim exists
  history,  \* claims.claim_status_history of c, in commit order
  outbox,   \* claims.outbox rows of c, in commit order
  ledger,   \* claims.processed_events of c, in commit order: assessments taken
  lock,     \* the transaction that holds the row lock of c, or None
  tx,       \* the open transactions and what they have read
  clock     \* the next value of now()

vars == <<row, history, outbox, ledger, lock, tx, clock>>

ClaimRows == [status : Statuses, settled : Amounts \cup {None},
              adjuster : Users \cup {None}, latest : Assessments \cup {None}]

\* A missing row is not a row.
ASSUME NoRowAssumption == None \notin ClaimRows

Entries == [from : Statuses \cup {None}, to : Statuses,
            actor : Users \cup {None}, at : Nat]

Events == [type : {"claim.submitted", "claim.status_changed"},
           to : Statuses, at : Nat]

TxStates == [pc : {"idle", "begun", "locked"},
             user : Users \cup {System, None}, at : Nat,
             claim : Claims \cup {None}, from : Statuses \cup {None},
             adjuster : Users \cup {None}, escalatedBy : Users \cup {None}]

IdleTx == [pc |-> "idle", user |-> None, at |-> 0, claim |-> None,
           from |-> None, adjuster |-> None, escalatedBy |-> None]

Init ==
  /\ row = [c \in Claims |-> None]
  /\ history = [c \in Claims |-> << >>]
  /\ outbox = [c \in Claims |-> << >>]
  /\ ledger = [c \in Claims |-> << >>]
  /\ lock = [c \in Claims |-> None]
  /\ tx = [t \in Txs |-> IdleTx]
  /\ clock = 0

(***************************************************************************)
(* FNOL intake: POST /claims                                               *)
(***************************************************************************)
Covers(p, day) == p.active /\ p.first <= day /\ day <= p.last

\* create_claim.  One step: until it commits nobody else knows the claim.
CreateClaim(c) ==
  /\ row[c] = None
  /\ clock < MaxClock
  /\ \E p \in Policies, day \in Days : Covers(p, day)
  /\ row' = [row EXCEPT ![c] = [status |-> "submitted", settled |-> None,
                                adjuster |-> None, latest |-> None]]
  /\ history' = [history EXCEPT ![c] =
       Append(@, [from |-> None, to |-> "submitted", actor |-> None,
                  at |-> clock])]
  /\ outbox' = [outbox EXCEPT ![c] =
       Append(@, [type |-> "claim.submitted", to |-> "submitted",
                  at |-> clock])]
  /\ clock' = clock + 1
  /\ UNCHANGED <<ledger, lock, tx>>

(***************************************************************************)
(* Transactions on a claim that exists                                     *)
(***************************************************************************)
\* get_current_user (a person) or the ledger insert (the consumer): the
\* transaction starts and its now() is fixed.  A claim's id is known only
\* once the claim is committed; an unknown id changes nothing (404).
Begin(t, u, c) ==
  /\ tx[t].pc = "idle"
  /\ row[c] # None
  /\ clock < MaxClock
  /\ tx' = [tx EXCEPT ![t] = [IdleTx EXCEPT !.pc = "begun", !.user = u,
                                            !.at = clock, !.claim = c]]
  /\ clock' = clock + 1
  /\ UNCHANGED <<row, history, outbox, ledger, lock>>

Escalations(c) ==
  {i \in DOMAIN history[c] : history[c][i].to = "pending_approval"}

\* mutant: ORDER BY created_at without DESC.
FirstEscalations(c) ==
  {i \in Escalations(c) : \A j \in Escalations(c) :
                            history[c][i].at <= history[c][j].at}

LatestEscalations(c) ==
  {i \in Escalations(c) : \A j \in Escalations(c) :
                            history[c][j].at <= history[c][i].at}

\* _escalated_by: ORDER BY created_at DESC LIMIT 1, None without a row.
EscalatedBy(c) ==
  IF LatestEscalations(c) = {} THEN None
  ELSE history[c][CHOOSE i \in LatestEscalations(c) : TRUE].actor

\* The escalator is looked up only for a claim that is pending approval.
ReadEscalator(u, c) ==
  IF u # System /\ row[c].status = "pending_approval" THEN EscalatedBy(c)
  ELSE None

\* mutant: SELECT without FOR UPDATE.
NoRowLock(c) == TRUE

RowFree(c) == lock[c] = None

\* session.get(Claim, id, with_for_update=True), then the reads under the
\* lock: the loaded status and adjuster, and the escalator.
LockClaim(t) ==
  LET c == tx[t].claim IN
  /\ tx[t].pc = "begun"
  /\ RowFree(c)
  /\ lock' = [lock EXCEPT ![c] = t]
  /\ tx' = [tx EXCEPT ![t] =
       [@ EXCEPT !.pc = "locked", !.from = row[c].status,
                 !.adjuster = row[c].adjuster,
                 !.escalatedBy = ReadEscalator(tx[t].user, c)]]
  /\ UNCHANGED <<row, history, outbox, ledger, clock>>

\* The session closes: commit or rollback, either way the row lock is gone.
EndTx(t) ==
  /\ tx' = [tx EXCEPT ![t] = IdleTx]
  /\ lock' = [lock EXCEPT ![tx[t].claim] = IF @ = t THEN None ELSE @]

\* mutant: the history row of a system move names the consumer.
ActorAsIs(u) == u

\* ck_history_actor_consistency: a system entry has no actor_id.
HistoryActor(u) == IF u = System THEN None ELSE u

\* mutant: the history row is written without its event.
HistoryOnly(t, to) ==
  LET c == tx[t].claim IN
  /\ history' = [history EXCEPT ![c] =
       Append(@, [from |-> tx[t].from, to |-> to,
                  actor |-> HistoryActor(tx[t].user), at |-> tx[t].at])]
  /\ outbox' = outbox

\* The history row and the outbox row of a move, both stamped now().
RecordMove(t, to) ==
  LET c == tx[t].claim IN
  /\ history' = [history EXCEPT ![c] =
       Append(@, [from |-> tx[t].from, to |-> to,
                  actor |-> HistoryActor(tx[t].user), at |-> tx[t].at])]
  /\ outbox' = [outbox EXCEPT ![c] =
       Append(@, [type |-> "claim.status_changed", to |-> to,
                  at |-> tx[t].at])]

(***************************************************************************)
(* POST /claims/{id}/transitions                                           *)
(***************************************************************************)
Request(t, to, amount) ==
  [from |-> tx[t].from, to |-> to, actor |-> tx[t].user,
   role |-> Role[tx[t].user], limit |-> Limit[tx[t].user],
   amount |-> amount, escalatedBy |-> tx[t].escalatedBy, isSystem |-> FALSE]

\* mutant: settled_amount is written once, like the assigned adjuster.
FirstAmountStays(old, to, amount) ==
  IF old = None /\ to \in {"approved", "settled"} THEN amount ELSE old

\* settled_amount is written on approval and on settlement, if there is one.
Settled(old, to, amount) ==
  IF amount # None /\ to \in {"approved", "settled"} THEN amount ELSE old

\* mutant: whoever reviews last is the assigned adjuster.
LastReviewer(t, old, to) == IF to = "under_review" THEN tx[t].user ELSE old

\* The adjuster is the one loaded under the lock, unless there was none.
Adjuster(t, old, to) ==
  IF to = "under_review" /\ tx[t].adjuster = None THEN tx[t].user ELSE old

UserHoldsLock(t) == tx[t].pc = "locked" /\ tx[t].user # System

\* transition_claim, allowed: row, history and event in one commit.
TransitionClaim(t, to, amount) ==
  LET c == tx[t].claim IN
  /\ UserHoldsLock(t)
  /\ Evaluate(Request(t, to, amount)) = "allowed"
  /\ row' = [row EXCEPT ![c] =
       [@ EXCEPT !.status = to,
                 !.settled = Settled(row[c].settled, to, amount),
                 !.adjuster = Adjuster(t, row[c].adjuster, to)]]
  /\ RecordMove(t, to)
  /\ EndTx(t)
  /\ UNCHANGED <<ledger, clock>>

\* transition_claim, refused: ClaimServiceError, the session rolls back.
RejectTransition(t) ==
  /\ UserHoldsLock(t)
  /\ \E to \in Statuses, amount \in Amounts \cup {None} :
       Evaluate(Request(t, to, amount)) # "allowed"
  /\ EndTx(t)
  /\ UNCHANGED <<row, history, outbox, ledger, clock>>

(***************************************************************************)
(* assessment.completed, in the consumer's transaction                     *)
(***************************************************************************)
TriageRequest(t) ==
  [from |-> tx[t].from, to |-> "triaged", actor |-> None, role |-> None,
   limit |-> 0, amount |-> None, escalatedBy |-> None, isSystem |-> TRUE]

Triages(t) ==
  tx[t].from = "submitted" /\ Evaluate(TriageRequest(t)) = "allowed"

\* mutant: the early return for a claim past submitted precedes the score.
ScoreSubmitted(t, a) ==
  row' = IF Triages(t)
         THEN [row EXCEPT ![tx[t].claim] =
                 [@ EXCEPT !.status = "triaged", !.latest = a]]
         ELSE row

ScoreClaim(t, a) ==
  row' = [row EXCEPT ![tx[t].claim] =
            IF Triages(t) THEN [@ EXCEPT !.status = "triaged", !.latest = a]
            ELSE [@ EXCEPT !.latest = a]]

NotTaken(c, a) == \A i \in DOMAIN ledger[c] : ledger[c][i] # a

\* apply_assessment: the score is written whatever the status; the claim is
\* triaged, with history row and event, only if it is still submitted.  The
\* ledger row that the transaction began with is committed with it.
ApplyAssessment(t, a) ==
  LET c == tx[t].claim IN
  /\ tx[t].pc = "locked" /\ tx[t].user = System
  /\ NotTaken(c, a)
  /\ ledger' = [ledger EXCEPT ![c] = Append(@, a)]
  /\ ScoreClaim(t, a)
  /\ IF Triages(t) THEN RecordMove(t, "triaged")
                   ELSE UNCHANGED <<history, outbox>>
  /\ EndTx(t)
  /\ UNCHANGED clock

\* The connection or the process dies, or the client goes away: rollback.
Abort(t) ==
  /\ tx[t].pc # "idle"
  /\ EndTx(t)
  /\ UNCHANGED <<row, history, outbox, ledger, clock>>

Next ==
  \/ \E c \in Claims : CreateClaim(c)
  \/ \E t \in Txs, u \in Users \cup {System}, c \in Claims : Begin(t, u, c)
  \/ \E t \in Txs : LockClaim(t)
  \/ \E t \in Txs, to \in Statuses, amount \in Amounts \cup {None} :
       TransitionClaim(t, to, amount)
  \/ \E t \in Txs : RejectTransition(t)
  \/ \E t \in Txs, a \in Assessments : ApplyAssessment(t, a)
  \/ \E t \in Txs : Abort(t)

Spec == Init /\ [][Next]_vars

-----------------------------------------------------------------------------
(***************************************************************************)
(* Properties                                                              *)
(***************************************************************************)
Moves(c) == 1..Len(history[c])

Entry(c, i) == history[c][i]

LastEntry(c) == Entry(c, Len(history[c]))

\* Type invariant of the rows, the logs, the locks and the transactions,
\* with ck_history_actor_consistency: a history row is a user's or has no
\* actor at all.  An open transaction has an actor and a claim that exists.
TypeOK ==
  /\ row \in [Claims -> ClaimRows \cup {None}]
  /\ history \in [Claims -> Seq(Entries)]
  /\ outbox \in [Claims -> Seq(Events)]
  /\ ledger \in [Claims -> Seq(Assessments)]
  /\ lock \in [Claims -> Txs \cup {None}]
  /\ tx \in [Txs -> TxStates]
  /\ clock \in Nat
  /\ \A t \in Txs : tx[t].pc # "idle" =>
       /\ tx[t].user # None
       /\ tx[t].claim \in Claims /\ row[tx[t].claim] # None

\* The row lock is exclusive, and what its holder read is still true when it
\* decides: no other transaction has changed the claim it loaded or added to
\* the history it searched for the escalator.  This is what
\* with_for_update=True of transition_claim and apply_assessment buys.
LoadedIsCurrent ==
  \A t \in Txs : tx[t].pc = "locked" =>
    LET c == tx[t].claim IN
    /\ lock[c] = t
    /\ row[c].status = tx[t].from
    /\ row[c].adjuster = tx[t].adjuster
    /\ tx[t].escalatedBy = ReadEscalator(tx[t].user, c)

\* The history of c is a path of the transition table from submission to the
\* claim's present status.
PathOK(c) ==
  IF row[c] = None THEN history[c] = << >>
  ELSE /\ Moves(c) # {}
       /\ Entry(c, 1).from = None /\ Entry(c, 1).to = "submitted"
       /\ \A i \in Moves(c) \ {1} :
            /\ Entry(c, i).from = Entry(c, i - 1).to
            /\ Rows(Entry(c, i).from, Entry(c, i).to) # {}
       /\ LastEntry(c).to = row[c].status

\* The audit trail in commit order is such a path for every claim: concurrent
\* transitions and a late assessment never lose or double a move.
TrailIsPath == \A c \in Claims : PathOK(c)

ApprovalOK(c) ==
  row[c] # None /\ row[c].status = "approved" =>
    /\ row[c].settled \in Amounts
    /\ LastEntry(c).actor \in Users
    /\ row[c].settled <= Limit[LastEntry(c).actor]

\* transition_claim with WITHIN_AUTHORITY: while a claim is approved its
\* settlement amount is one its last mover, the approver, had the authority
\* for, whatever amounts earlier rounds of approval left in the row.
ApprovedWithinAuthority == \A c \in Claims : ApprovalOK(c)

\* created_at agrees with the order of the commits of claim c.
StampedInOrder(c) ==
  \A i, j \in Moves(c) : i < j => Entry(c, i).at < Entry(c, j).at

\* FOUR_EYES in commit order: an approval of an escalated claim was given by
\* another person than the escalation it answers.
EscalatorDidNotApprove(c) ==
  \A i \in Moves(c) :
    Entry(c, i).from = "pending_approval" /\ Entry(c, i).to = "approved" =>
      /\ Entry(c, i - 1).to = "pending_approval"
      /\ Entry(c, i - 1).actor # Entry(c, i).actor

FourEyesIn(c) == StampedInOrder(c) => EscalatorDidNotApprove(c)

\* _escalated_by and FOUR_EYES keep the four-eyes rule as long as created_at
\* orders the claim's history as its commits did.
FourEyesInOrder == \A c \in Claims : FourEyesIn(c)

Reviews(c) == {i \in Moves(c) : Entry(c, i).to = "under_review"}

AdjusterOK(c) ==
  \/ row[c].adjuster = None /\ Reviews(c) = {}
  \/ row[c].adjuster # None
       /\ \E i \in Reviews(c) : /\ row[c].adjuster = Entry(c, i).actor
                                /\ \A j \in Reviews(c) : i <= j

Taken(c) == DOMAIN ledger[c]

ScoreOK(c) ==
  /\ Taken(c) = {} => row[c].latest = None
                     /\ \A i \in Moves(c) : Entry(c, i).to # "triaged"
  /\ Taken(c) # {} => row[c].latest = ledger[c][Len(ledger[c])]

\* What the row keeps is what the trail and the ledger tell: the assigned
\* adjuster is the person who first took the claim under review, whatever later
\* reviews, returns and reopenings there were; the latest assessment is the
\* last one that was taken, whoever had moved the claim on by then, and a claim
\* that was triaged has one.
RowTellsTrail ==
  \A c \in Claims : IF row[c] = None THEN Taken(c) = {}
                   ELSE AdjusterOK(c) /\ ScoreOK(c)

Trail == INSTANCE ClaimTrail WITH
  status <- [c \in Claims |-> IF row[c] = None THEN None ELSE row[c].status],
  trail  <- [c \in Claims |-> [i \in Moves(c) |->
               [from |-> Entry(c, i).from, to |-> Entry(c, i).to,
                actor |-> Entry(c, i).actor]]],
  events <- [c \in Claims |-> [i \in DOMAIN outbox[c] |-> outbox[c][i].to]]

\* The sessions, locks and transactions implement ClaimTrail: status, trail
\* and events of a claim change together, by one move the table gives to the
\* role of the actor, and a rollback leaves no trace in any of them.
ImplementsTrail == Trail!TrailSpec

-----------------------------------------------------------------------------
(***************************************************************************)
(* What the documentation says and the code does not keep                  *)
(***************************************************************************)
\* README.md:78-80: "an escalated claim cannot be approved by the person who
\* escalated it".
FourEyes == \A c \in Claims : EscalatorDidNotApprove(c)
=============================================================================
