----------------------- MODULE ClaimLifecycle_proofs ------------------------
(***************************************************************************)
(* Proofs about ClaimLifecycle, for any number of claims, people, sessions *)
(* and transactions, any authority limits and any amounts: first what      *)
(* Evaluate grants for every request, then the lifecycle, then that it     *)
(* implements ClaimTrail.                                                  *)
(***************************************************************************)
EXTENDS ClaimLifecycle, TLAPS

-----------------------------------------------------------------------------
(***************************************************************************)
(* What Evaluate grants                                                    *)
(***************************************************************************)
\* An allowed request of a person has a row of the table behind it, the
\* person's role is one of the row's and none of the row's guards fails.
LEMMA AllowedHasRow ==
  ASSUME NEW rq, rq.isSystem = FALSE, Evaluate(rq) = "allowed"
  PROVE  \E m \in TRANSITIONS :
           /\ m.from = rq.from /\ m.to = rq.to
           /\ m.systemOnly = FALSE
           /\ rq.role \in m.roles
           /\ \A i \in DOMAIN m.guards : ~GuardFails(m.guards[i], rq)
<1> DEFINE m == CHOOSE m \in TRANSITIONS : m.from = rq.from /\ m.to = rq.to
<1>1. Rows(rq.from, rq.to) # {}
  BY DEF Evaluate
<1>2. m \in TRANSITIONS /\ m.from = rq.from /\ m.to = rq.to
  <2>1. \E n \in TRANSITIONS : n.from = rq.from /\ n.to = rq.to
    BY <1>1 DEF Rows
  <2> QED BY <2>1
<1> HIDE DEF m
<1>3. m.systemOnly = rq.isSystem /\ rq.role \in m.roles
      /\ GuardsOutcome(m, rq) = "allowed"
  BY <1>1 DEF Evaluate, m
<1> DEFINE failing == {i \in DOMAIN m.guards : GuardFails(m.guards[i], rq)}
<1>4. failing = {}
  BY <1>3 DEF GuardsOutcome, GuardOutcome
<1> QED BY <1>2, <1>3, <1>4

\* The table leads from a status to a status, and never into "submitted".
LEMMA RowStatuses ==
  \A m \in TRANSITIONS :
    /\ m.from \in Statuses
    /\ m.to \in Statuses \ {"submitted"}
    /\ m.to = "triaged" <=> m.systemOnly
BY DEF TRANSITIONS, Move, SystemMove, Statuses

\* Every way into "approved" needs an amount within the actor's authority.
LEMMA ApprovalGuards ==
  ASSUME NEW m \in TRANSITIONS, m.to = "approved"
  PROVE  /\ m.guards[1] = "REQUIRE_AMOUNT" /\ 1 \in DOMAIN m.guards
         /\ m.guards[2] = "WITHIN_AUTHORITY" /\ 2 \in DOMAIN m.guards
         /\ m.from = "pending_approval" =>
              m.guards[3] = "FOUR_EYES" /\ 3 \in DOMAIN m.guards
BY DEF TRANSITIONS, Move, SystemMove

\* What an allowed approval implies about its amount and its actor.
LEMMA AllowedApproval ==
  ASSUME NEW rq, rq.isSystem = FALSE, rq.to = "approved",
         Evaluate(rq) = "allowed"
  PROVE  /\ rq.amount # None
         /\ ~ (rq.amount > rq.limit)
         /\ rq.from = "pending_approval" =>
              ~ (rq.escalatedBy # None /\ rq.actor = rq.escalatedBy)
<1>1. PICK m \in TRANSITIONS :
        /\ m.from = rq.from /\ m.to = rq.to
        /\ \A i \in DOMAIN m.guards : ~GuardFails(m.guards[i], rq)
  BY AllowedHasRow
<1>2. ~GuardFails("REQUIRE_AMOUNT", rq) /\ ~GuardFails("WITHIN_AUTHORITY", rq)
  BY <1>1, ApprovalGuards
<1>3. rq.from = "pending_approval" => ~GuardFails("FOUR_EYES", rq)
  BY <1>1, ApprovalGuards
<1>4. rq.amount # None
  BY <1>2 DEF GuardFails, RequiresAmountFails
<1>5. ~ (rq.amount > rq.limit)
  BY <1>2, <1>4 DEF GuardFails, WithinAuthorityFails
<1> QED BY <1>3, <1>4, <1>5 DEF GuardFails, FourEyesFails

\* The table has at most one row for two statuses, as nested dicts have.
LEMMA OneRow ==
  ASSUME NEW m \in TRANSITIONS, NEW n \in TRANSITIONS, m.from = n.from, m.to = n.to
  PROVE  m = n
<1>1. \A f, t, r, g : /\ Move(f, t, r, g).from = f /\ Move(f, t, r, g).to = t
                      /\ SystemMove(f, t).from = f /\ SystemMove(f, t).to = t
  BY DEF Move, SystemMove
<1>2. CASE m.from \in {"submitted", "triaged", "approved", "settled", "denied"}
  BY <1>1, <1>2 DEF TRANSITIONS
<1>3. CASE m.from = "under_review"
  <2> DEFINE Out == {Move("under_review", "pending_approval", ALL_ROLES, <<"REQUIRE_AMOUNT">>),
                     Move("under_review", "approved", ALL_ROLES,
                          <<"REQUIRE_AMOUNT", "WITHIN_AUTHORITY">>),
                     Move("under_review", "denied", ALL_ROLES, << >>),
                     Move("under_review", "withdrawn", ALL_ROLES, << >>)}
  <2>1. \A x \in TRANSITIONS : x.from = "under_review" => x \in Out
    BY <1>1 DEF TRANSITIONS
  <2>2. m \in Out /\ n \in Out
    BY <1>3, <2>1
  <2> QED BY <1>1, <2>2
<1>4. CASE m.from = "pending_approval"
  <2> DEFINE Out == {Move("pending_approval", "approved", SENIOR_ROLES,
                          <<"REQUIRE_AMOUNT", "WITHIN_AUTHORITY", "FOUR_EYES">>),
                     Move("pending_approval", "under_review", SENIOR_ROLES, << >>),
                     Move("pending_approval", "denied", SENIOR_ROLES, << >>)}
  <2>1. \A x \in TRANSITIONS : x.from = "pending_approval" => x \in Out
    BY <1>1 DEF TRANSITIONS
  <2>2. m \in Out /\ n \in Out
    BY <1>4, <2>1
  <2> QED BY <1>1, <2>2
<1> QED BY <1>2, <1>3, <1>4, <1>1 DEF TRANSITIONS

\* available_transitions and evaluate read one table in two ways and agree for
\* every person, claim and amount: what evaluate allows is offered, and what is
\* offered is allowed unless a guard of the row fails.
THEOREM OffersAgree ==
  ASSUME NEW rq, rq.isSystem = FALSE
  PROVE  Evaluate(rq) = "allowed" <=>
           /\ rq.to \in AvailableTransitions(rq.from, rq.role)
           /\ \A m \in Rows(rq.from, rq.to) :
                \A i \in DOMAIN m.guards : ~GuardFails(m.guards[i], rq)
<1>1. ASSUME Evaluate(rq) = "allowed"
      PROVE  /\ rq.to \in AvailableTransitions(rq.from, rq.role)
             /\ \A m \in Rows(rq.from, rq.to) :
                  \A i \in DOMAIN m.guards : ~GuardFails(m.guards[i], rq)
  <2>1. PICK m \in TRANSITIONS :
          /\ m.from = rq.from /\ m.to = rq.to /\ m.systemOnly = FALSE
          /\ rq.role \in m.roles
          /\ \A i \in DOMAIN m.guards : ~GuardFails(m.guards[i], rq)
    BY <1>1, AllowedHasRow
  <2>2. \A n \in Rows(rq.from, rq.to) : n = m
    BY <2>1, OneRow DEF Rows
  <2> QED BY <2>1, <2>2 DEF AvailableTransitions
<1>2. ASSUME rq.to \in AvailableTransitions(rq.from, rq.role),
             \A m \in Rows(rq.from, rq.to) :
               \A i \in DOMAIN m.guards : ~GuardFails(m.guards[i], rq)
      PROVE  Evaluate(rq) = "allowed"
  <2>1. PICK m \in TRANSITIONS :
          /\ m.from = rq.from /\ m.to = rq.to /\ ~m.systemOnly /\ rq.role \in m.roles
    BY <1>2 DEF AvailableTransitions
  <2>2. m \in Rows(rq.from, rq.to)
    BY <2>1 DEF Rows
  <2>3. (CHOOSE n \in TRANSITIONS : n.from = rq.from /\ n.to = rq.to) = m
    BY <2>1, OneRow
  <2>4. m.systemOnly = FALSE
    BY <2>1, RowStatuses DEF TRANSITIONS, Move, SystemMove
  <2>5. {i \in DOMAIN m.guards : GuardFails(m.guards[i], rq)} = {}
    BY <1>2, <2>2
  <2>6. GuardsOutcome(m, rq) = "allowed"
    BY <2>5 DEF GuardsOutcome
  <2> QED BY <2>1, <2>2, <2>3, <2>4, <2>6 DEF Evaluate
<1> QED BY <1>1, <1>2

-----------------------------------------------------------------------------
(***************************************************************************)
(* The lifecycle                                                           *)
(***************************************************************************)
\* Appending a row to the log of one claim keeps the logs well formed.
LEMMA AppendAt ==
  ASSUME NEW S, NEW log \in [Claims -> Seq(S)], NEW x \in S, NEW c
  PROVE  [log EXCEPT ![c] = Append(@, x)] \in [Claims -> Seq(S)]
<1>1. ASSUME c \in Claims PROVE Append(log[c], x) \in Seq(S)
  BY <1>1
<1> QED BY <1>1

\* The session of a request that holds its claim's lock has all it needs.
LEMMA OpenTx ==
  ASSUME TypeOK, NEW t \in Txs, tx[t].pc # "idle"
  PROVE  /\ tx[t] \in TxStates
         /\ tx[t].claim \in Claims
         /\ row[tx[t].claim] \in ClaimRows
         /\ tx[t].user \in Users \cup {System}
         /\ tx[t].at \in Nat
         /\ tx[t].from \in Statuses \cup {None}
BY DEF TypeOK, TxStates

\* Ending a transaction keeps the types of the sessions and the locks.
LEMMA EndTxType ==
  ASSUME TypeOK, NEW t \in Txs, EndTx(t)
  PROVE  /\ tx' \in [Txs -> TxStates]
         /\ lock' \in [Claims -> Txs \cup {None}]
         /\ tx'[t] = IdleTx
         /\ \A s \in Txs \ {t} : tx'[s] = tx[s]
BY DEF TypeOK, EndTx, IdleTx, TxStates

\* A recorded move extends the two logs by well-formed rows.
LEMMA RecordMoveType ==
  ASSUME TypeOK, NEW t \in Txs, tx[t].pc # "idle", NEW to \in Statuses,
         RecordMove(t, to)
  PROVE  /\ history' \in [Claims -> Seq(Entries)]
         /\ outbox' \in [Claims -> Seq(Events)]
<1> DEFINE e == [from |-> tx[t].from, to |-> to,
                 actor |-> HistoryActor(tx[t].user), at |-> tx[t].at]
           v == [type |-> "claim.status_changed", to |-> to, at |-> tx[t].at]
<1>1. e \in Entries
  BY OpenTx DEF Entries, HistoryActor
<1>2. v \in Events
  BY OpenTx DEF Events
<1>3. history' = [history EXCEPT ![tx[t].claim] = Append(@, e)]
      /\ outbox' = [outbox EXCEPT ![tx[t].claim] = Append(@, v)]
  BY DEF RecordMove
<1> HIDE DEF e, v
<1>4. history \in [Claims -> Seq(Entries)] /\ outbox \in [Claims -> Seq(Events)]
  BY DEF TypeOK
<1>5. [history EXCEPT ![tx[t].claim] = Append(@, e)] \in [Claims -> Seq(Entries)]
  BY <1>1, <1>4, AppendAt
<1>6. [outbox EXCEPT ![tx[t].claim] = Append(@, v)] \in [Claims -> Seq(Events)]
  BY <1>2, <1>4, AppendAt
<1> QED BY <1>3, <1>5, <1>6

LEMMA InitTypeOK == Init => TypeOK
<1> SUFFICES ASSUME Init PROVE TypeOK
  OBVIOUS
<1> USE DEF Init
<1>1. tx \in [Txs -> TxStates]
  BY DEF IdleTx, TxStates
<1>2. \A t \in Txs : tx[t].pc = "idle"
  BY DEF IdleTx
<1> QED BY <1>1, <1>2 DEF TypeOK

LEMMA CreateClaimTypeOK ==
  ASSUME TypeOK, NEW c \in Claims, CreateClaim(c)
  PROVE  TypeOK'
<1> DEFINE r == [status |-> "submitted", settled |-> None,
                 adjuster |-> None, latest |-> None]
           e == [from |-> None, to |-> "submitted", actor |-> None,
                 at |-> clock]
           v == [type |-> "claim.submitted", to |-> "submitted", at |-> clock]
<1>1. r \in ClaimRows /\ r # None
  <2>1. r \in ClaimRows
    BY DEF ClaimRows, Statuses
  <2> QED BY <2>1, NoRowAssumption
<1>2. e \in Entries /\ v \in Events
  BY DEF TypeOK, Entries, Events, Statuses
<1>3. row' = [row EXCEPT ![c] = r]
      /\ history' = [history EXCEPT ![c] = Append(@, e)]
      /\ outbox' = [outbox EXCEPT ![c] = Append(@, v)]
      /\ clock' = clock + 1 /\ UNCHANGED <<ledger, lock, tx>>
  BY DEF CreateClaim
<1> HIDE DEF r, e, v
<1>4. history' \in [Claims -> Seq(Entries)] /\ outbox' \in [Claims -> Seq(Events)]
  BY <1>2, <1>3, AppendAt DEF TypeOK
<1>5. row' \in [Claims -> ClaimRows \cup {None}]
      /\ \A d \in Claims : row[d] # None => row'[d] # None
  BY <1>1, <1>3 DEF TypeOK
<1> QED BY <1>3, <1>4, <1>5 DEF TypeOK

LEMMA BeginTypeOK ==
  ASSUME TypeOK, NEW t \in Txs, NEW u \in Users \cup {System},
         NEW c \in Claims, Begin(t, u, c)
  PROVE  TypeOK'
<1> DEFINE x == [IdleTx EXCEPT !.pc = "begun", !.user = u, !.at = clock,
                               !.claim = c]
<1>1. x \in TxStates /\ x.user = u /\ x.claim = c
  BY DEF TypeOK, IdleTx, TxStates
<1>2. tx' = [tx EXCEPT ![t] = x] /\ clock' = clock + 1 /\ row[c] # None
      /\ UNCHANGED <<row, history, outbox, ledger, lock>>
  BY DEF Begin
<1>3. u # None
  BY LifecycleAssumption
<1> HIDE DEF x
<1> QED BY <1>1, <1>2, <1>3 DEF TypeOK

\* What _escalated_by finds is the actor of a history row, or nothing.
LEMMA EscalatedByType ==
  ASSUME TypeOK, NEW c \in Claims
  PROVE  EscalatedBy(c) \in Users \cup {None}
<1>1. \A i \in LatestEscalations(c) : history[c][i] \in Entries
  BY DEF TypeOK, Escalations, LatestEscalations
<1> QED BY <1>1 DEF EscalatedBy, Entries

LEMMA LockClaimTypeOK ==
  ASSUME TypeOK, NEW t \in Txs, LockClaim(t)
  PROVE  TypeOK'
<1> DEFINE c == tx[t].claim
           e == ReadEscalator(tx[t].user, c)
           x == [tx[t] EXCEPT !.pc = "locked", !.from = row[c].status,
                              !.adjuster = row[c].adjuster,
                              !.escalatedBy = e]
<1>1. tx[t] \in TxStates /\ tx[t].pc # "idle" /\ c \in Claims
      /\ row[c] \in ClaimRows
  <2>1. tx[t].pc # "idle"
    BY DEF LockClaim
  <2> QED BY <2>1, OpenTx
<1>2. e \in Users \cup {None}
  BY <1>1, EscalatedByType DEF ReadEscalator
<1> HIDE DEF e
<1>3. x \in TxStates /\ x.user = tx[t].user /\ x.claim = tx[t].claim
  BY <1>1, <1>2 DEF TxStates, ClaimRows
<1>4. tx' = [tx EXCEPT ![t] = x] /\ lock' = [lock EXCEPT ![c] = t]
      /\ UNCHANGED <<row, history, outbox, ledger, clock>>
  BY DEF LockClaim, e
<1> HIDE DEF x
<1> QED BY <1>1, <1>3, <1>4 DEF TypeOK

\* A step that ends a transaction and changes the row of its claim, if at
\* all, into another row keeps the types.
LEMMA EndTxTypeOK ==
  ASSUME TypeOK, NEW t \in Txs, EndTx(t), clock' = clock,
         row' \in [Claims -> ClaimRows \cup {None}],
         \A c \in Claims : row[c] # None => row'[c] # None,
         history' \in [Claims -> Seq(Entries)],
         outbox' \in [Claims -> Seq(Events)],
         ledger' \in [Claims -> Seq(Assessments)]
  PROVE  TypeOK'
<1>1. tx'[t].pc = "idle"
  BY EndTxType DEF IdleTx
<1> QED BY <1>1, EndTxType DEF TypeOK

LEMMA TransitionClaimTypeOK ==
  ASSUME TypeOK, NEW t \in Txs, NEW to \in Statuses,
         NEW amount \in Amounts \cup {None}, TransitionClaim(t, to, amount)
  PROVE  TypeOK'
<1> DEFINE c == tx[t].claim
           r == [row[c] EXCEPT !.status = to,
                               !.settled = Settled(row[c].settled, to, amount),
                               !.adjuster = Adjuster(t, row[c].adjuster, to)]
<1>1. tx[t].pc # "idle" /\ c \in Claims /\ row[c] \in ClaimRows
      /\ tx[t].user \in Users
  BY OpenTx DEF TransitionClaim, UserHoldsLock
<1>2. r \in ClaimRows
  BY <1>1 DEF ClaimRows, Settled, Adjuster
<1>3. row' = [row EXCEPT ![c] = r] /\ RecordMove(t, to) /\ EndTx(t)
      /\ clock' = clock /\ ledger' = ledger
  BY DEF TransitionClaim
<1> HIDE DEF r
<1>4. row' \in [Claims -> ClaimRows \cup {None}]
      /\ \A d \in Claims : row[d] # None => row'[d] # None
  BY <1>1, <1>2, <1>3, NoRowAssumption DEF TypeOK
<1>5. ledger' \in [Claims -> Seq(Assessments)]
  BY <1>3 DEF TypeOK
<1> QED BY <1>1, <1>3, <1>4, <1>5, RecordMoveType, EndTxTypeOK

LEMMA ApplyAssessmentTypeOK ==
  ASSUME TypeOK, NEW t \in Txs, NEW a \in Assessments, ApplyAssessment(t, a)
  PROVE  TypeOK'
<1> DEFINE c == tx[t].claim
<1>1. tx[t].pc # "idle" /\ c \in Claims /\ row[c] \in ClaimRows
  BY OpenTx DEF ApplyAssessment
<1>2. \E r \in ClaimRows : row' = [row EXCEPT ![c] = r]
  <2> DEFINE r1 == [row[c] EXCEPT !.status = "triaged", !.latest = a]
             r2 == [row[c] EXCEPT !.latest = a]
  <2>1. r1 \in ClaimRows /\ r2 \in ClaimRows
    BY <1>1 DEF ClaimRows, Statuses
  <2>2. row' = [row EXCEPT ![c] = IF Triages(t) THEN r1 ELSE r2]
    BY DEF ApplyAssessment, ScoreClaim
  <2> HIDE DEF r1, r2
  <2> QED BY <2>1, <2>2
<1>3. row' \in [Claims -> ClaimRows \cup {None}]
      /\ \A d \in Claims : row[d] # None => row'[d] # None
  BY <1>1, <1>2, NoRowAssumption DEF TypeOK
<1>4. history' \in [Claims -> Seq(Entries)] /\ outbox' \in [Claims -> Seq(Events)]
  <2>1. "triaged" \in Statuses
    BY DEF Statuses
  <2> QED BY <1>1, <2>1, RecordMoveType DEF ApplyAssessment, TypeOK
<1>5. ledger' \in [Claims -> Seq(Assessments)]
  <2>1. ledger' = [ledger EXCEPT ![c] = Append(@, a)]
    BY DEF ApplyAssessment
  <2>2. ledger \in [Claims -> Seq(Assessments)]
    BY DEF TypeOK
  <2> QED BY <2>1, <2>2, AppendAt
<1> QED BY <1>3, <1>4, <1>5, EndTxTypeOK DEF ApplyAssessment

LEMMA RollbackTypeOK ==
  ASSUME TypeOK, NEW t \in Txs, EndTx(t),
         UNCHANGED <<row, history, outbox, ledger, clock>>
  PROVE  TypeOK'
BY EndTxTypeOK DEF TypeOK

\* Every step keeps the type invariant.
LEMMA NextTypeOK == TypeOK /\ [Next]_vars => TypeOK'
<1> SUFFICES ASSUME TypeOK, [Next]_vars PROVE TypeOK'
  OBVIOUS
<1>1. ASSUME NEW c \in Claims, CreateClaim(c) PROVE TypeOK'
  BY <1>1, CreateClaimTypeOK
<1>2. ASSUME NEW t \in Txs, NEW u \in Users \cup {System}, NEW c \in Claims,
             Begin(t, u, c)
      PROVE  TypeOK'
  BY <1>2, BeginTypeOK
<1>3. ASSUME NEW t \in Txs, LockClaim(t) PROVE TypeOK'
  BY <1>3, LockClaimTypeOK
<1>4. ASSUME NEW t \in Txs, NEW to \in Statuses,
             NEW amount \in Amounts \cup {None}, TransitionClaim(t, to, amount)
      PROVE  TypeOK'
  BY <1>4, TransitionClaimTypeOK
<1>5. ASSUME NEW t \in Txs, RejectTransition(t) PROVE TypeOK'
  BY <1>5, RollbackTypeOK DEF RejectTransition
<1>6. ASSUME NEW t \in Txs, NEW a \in Assessments, ApplyAssessment(t, a)
      PROVE  TypeOK'
  BY <1>6, ApplyAssessmentTypeOK
<1>7. ASSUME NEW t \in Txs, Abort(t) PROVE TypeOK'
  BY <1>7, RollbackTypeOK DEF Abort
<1>8. CASE UNCHANGED vars
  BY <1>8 DEF vars, TypeOK
<1> QED BY <1>1, <1>2, <1>3, <1>4, <1>5, <1>6, <1>7, <1>8 DEF Next

\* Type correctness of the claims database, whatever the number of sessions.
THEOREM TypeCorrect == Spec => []TypeOK
BY InitTypeOK, NextTypeOK, PTL DEF Spec

-----------------------------------------------------------------------------
(***************************************************************************)
(* The row lock: what a transaction has read under it stays true.          *)
(***************************************************************************)
\* The escalator of a claim depends on its row and its history alone.
LEMMA EscalatorFrame ==
  ASSUME NEW u, NEW c, row'[c] = row[c], history'[c] = history[c]
  PROVE  ReadEscalator(u, c)' = ReadEscalator(u, c)
<1>1. Escalations(c)' = Escalations(c)
  BY DEF Escalations
<1>2. LatestEscalations(c)' = LatestEscalations(c)
  BY <1>1 DEF LatestEscalations
<1> QED BY <1>2 DEF ReadEscalator, EscalatedBy

\* What EndTx does to the lock of one claim.
LEMMA EndTxLock ==
  ASSUME TypeOK, NEW t \in Txs, EndTx(t), NEW c \in Claims, lock[c] # t
  PROVE  lock'[c] = lock[c]
BY DEF EndTx, TypeOK

\* A transaction that ends disturbs no other holder of a lock as long as the
\* claims others have locked keep their row and history.
LEMMA EndTxLoaded ==
  ASSUME TypeOK, LoadedIsCurrent, NEW t \in Txs, EndTx(t),
         \A s \in Txs \ {t} : tx[s].pc = "locked" =>
           /\ row'[tx[s].claim] = row[tx[s].claim]
           /\ history'[tx[s].claim] = history[tx[s].claim]
  PROVE  LoadedIsCurrent'
<1> SUFFICES ASSUME NEW s \in Txs, tx'[s].pc = "locked"
             PROVE  /\ lock'[tx'[s].claim] = s
                    /\ row'[tx'[s].claim].status = tx'[s].from
                    /\ row'[tx'[s].claim].adjuster = tx'[s].adjuster
                    /\ tx'[s].escalatedBy
                         = ReadEscalator(tx[s].user, tx[s].claim)'
  BY DEF LoadedIsCurrent
<1>1. s # t /\ tx'[s] = tx[s]
  BY EndTxType DEF IdleTx
<1>2. tx[s].claim \in Claims /\ lock[tx[s].claim] = s
  BY <1>1, OpenTx DEF LoadedIsCurrent
<1>3. lock'[tx[s].claim] = s
  BY <1>1, <1>2, EndTxLock
<1>4. /\ row'[tx[s].claim] = row[tx[s].claim]
      /\ history'[tx[s].claim] = history[tx[s].claim]
  BY <1>1
<1>5. ReadEscalator(tx[s].user, tx[s].claim)'
        = ReadEscalator(tx[s].user, tx[s].claim)
  BY <1>1, <1>4 DEF ReadEscalator, EscalatedBy, LatestEscalations, Escalations
<1> QED BY <1>1, <1>3, <1>4, <1>5 DEF LoadedIsCurrent

\* The holder of a lock changes nothing another holder has read.
LEMMA OtherClaims ==
  ASSUME TypeOK, LoadedIsCurrent, NEW t \in Txs, tx[t].pc = "locked",
         NEW s \in Txs \ {t}, tx[s].pc = "locked"
  PROVE  tx[s].claim # tx[t].claim
BY DEF LoadedIsCurrent

LEMMA LockClaimLoaded ==
  ASSUME TypeOK, LoadedIsCurrent, NEW t \in Txs, LockClaim(t)
  PROVE  LoadedIsCurrent'
<1> DEFINE c == tx[t].claim
<1>1. c \in Claims /\ lock[c] = None
  BY OpenTx DEF LockClaim, RowFree
<1>2. lock' = [lock EXCEPT ![c] = t] /\ UNCHANGED <<row, history>>
  BY DEF LockClaim
<1>3. /\ \A s \in Txs \ {t} : tx'[s] = tx[s]
      /\ tx'[t].claim = c /\ tx'[t].from = row[c].status
      /\ tx'[t].adjuster = row[c].adjuster /\ tx'[t].user = tx[t].user
      /\ tx'[t].escalatedBy = ReadEscalator(tx[t].user, c)
  BY DEF LockClaim, TypeOK, TxStates
<1>4. \A u, d : ReadEscalator(u, d)' = ReadEscalator(u, d)
  BY <1>2 DEF ReadEscalator, EscalatedBy, LatestEscalations, Escalations
<1>5. lock'[c] = t
  BY <1>1, <1>2 DEF TypeOK
<1>6. ASSUME NEW s \in Txs \ {t}, tx[s].pc = "locked"
      PROVE  tx[s].claim \in Claims /\ lock'[tx[s].claim] = s
  <2>1. lock[tx[s].claim] = s /\ tx[s].claim \in Claims
    BY <1>6, OpenTx DEF LoadedIsCurrent
  <2>2. s # None
    BY LifecycleAssumption
  <2> QED BY <1>1, <1>2, <2>1, <2>2 DEF TypeOK
<1> QED BY <1>2, <1>3, <1>4, <1>5, <1>6 DEF LoadedIsCurrent

\* A session that begins, or a claim that is created, touches no claim that
\* anybody has locked.
LEMMA BeginLoaded ==
  ASSUME TypeOK, LoadedIsCurrent, NEW t \in Txs,
         NEW u \in Users \cup {System}, NEW c \in Claims, Begin(t, u, c)
  PROVE  LoadedIsCurrent'
<1>1. /\ \A s \in Txs \ {t} : tx'[s] = tx[s]
      /\ tx'[t].pc = "begun"
      /\ UNCHANGED <<row, history, lock>>
  BY DEF Begin, TypeOK, IdleTx
<1>2. \A v, d : ReadEscalator(v, d)' = ReadEscalator(v, d)
  BY <1>1 DEF ReadEscalator, EscalatedBy, LatestEscalations, Escalations
<1> QED BY <1>1, <1>2 DEF LoadedIsCurrent

LEMMA CreateClaimLoaded ==
  ASSUME TypeOK, LoadedIsCurrent, NEW c \in Claims, CreateClaim(c)
  PROVE  LoadedIsCurrent'
<1>1. UNCHANGED <<tx, lock>> /\ row[c] = None
      /\ \A d \in Claims \ {c} : row'[d] = row[d] /\ history'[d] = history[d]
  BY DEF CreateClaim, TypeOK
<1>2. ASSUME NEW s \in Txs, tx[s].pc = "locked"
      PROVE  /\ row'[tx[s].claim] = row[tx[s].claim]
             /\ history'[tx[s].claim] = history[tx[s].claim]
  BY <1>1, <1>2 DEF TypeOK
<1>3. ASSUME NEW s \in Txs, tx[s].pc = "locked", NEW u, NEW d,
             d = tx[s].claim
      PROVE  ReadEscalator(u, d)' = ReadEscalator(u, d)
  BY <1>2, <1>3, EscalatorFrame
<1> QED BY <1>1, <1>2, <1>3 DEF LoadedIsCurrent

\* The row lock protects what transition_claim and apply_assessment decide on.
LEMMA NextLoaded ==
  TypeOK /\ LoadedIsCurrent /\ [Next]_vars => LoadedIsCurrent'
<1> SUFFICES ASSUME TypeOK, LoadedIsCurrent, [Next]_vars
             PROVE  LoadedIsCurrent'
  OBVIOUS
<1>1. ASSUME NEW c \in Claims, CreateClaim(c) PROVE LoadedIsCurrent'
  BY <1>1, CreateClaimLoaded
<1>2. ASSUME NEW t \in Txs, NEW u \in Users \cup {System}, NEW c \in Claims,
             Begin(t, u, c)
      PROVE  LoadedIsCurrent'
  BY <1>2, BeginLoaded
<1>3. ASSUME NEW t \in Txs, LockClaim(t) PROVE LoadedIsCurrent'
  BY <1>3, LockClaimLoaded
<1>4. ASSUME NEW t \in Txs, NEW to \in Statuses,
             NEW amount \in Amounts \cup {None}, TransitionClaim(t, to, amount)
      PROVE  LoadedIsCurrent'
  <2>1. tx[t].pc = "locked" /\ EndTx(t)
    BY <1>4 DEF TransitionClaim, UserHoldsLock
  <2>2. \A d : d # tx[t].claim /\ d \in Claims =>
          row'[d] = row[d] /\ history'[d] = history[d]
    BY <1>4 DEF TransitionClaim, RecordMove, TypeOK
  <2> QED BY <2>1, <2>2, OtherClaims, OpenTx, EndTxLoaded
<1>5. ASSUME NEW t \in Txs, RejectTransition(t) PROVE LoadedIsCurrent'
  BY <1>5, EndTxLoaded DEF RejectTransition
<1>6. ASSUME NEW t \in Txs, NEW a \in Assessments, ApplyAssessment(t, a)
      PROVE  LoadedIsCurrent'
  <2>1. tx[t].pc = "locked" /\ EndTx(t)
    BY <1>6 DEF ApplyAssessment
  <2>2. \A d : d # tx[t].claim /\ d \in Claims =>
          row'[d] = row[d] /\ history'[d] = history[d]
    BY <1>6 DEF ApplyAssessment, ScoreClaim, RecordMove, TypeOK
  <2> QED BY <2>1, <2>2, OtherClaims, OpenTx, EndTxLoaded
<1>7. ASSUME NEW t \in Txs, Abort(t) PROVE LoadedIsCurrent'
  BY <1>7, EndTxLoaded DEF Abort
<1>8. CASE UNCHANGED vars
  <2>1. UNCHANGED <<row, history, lock, tx>>
    BY <1>8 DEF vars
  <2>2. \A u, d : ReadEscalator(u, d)' = ReadEscalator(u, d)
    BY <2>1, EscalatorFrame
  <2> QED BY <2>1, <2>2 DEF LoadedIsCurrent
<1> QED BY <1>1, <1>2, <1>3, <1>4, <1>5, <1>6, <1>7, <1>8 DEF Next

\* with_for_update=True: nothing a transaction has read of its claim goes
\* stale before it commits, however many sessions compete for the claim.
THEOREM RowLockProtects == Spec => []LoadedIsCurrent
<1>1. Init => LoadedIsCurrent
  BY DEF Init, LoadedIsCurrent, IdleTx
<1> QED BY <1>1, NextLoaded, TypeCorrect, PTL DEF Spec

-----------------------------------------------------------------------------
(***************************************************************************)
(* The audit trail                                                         *)
(***************************************************************************)
\* What RecordMove does to the history of the claim, and to no other.
LEMMA RecordedHistory ==
  ASSUME TypeOK, NEW t \in Txs, tx[t].pc # "idle", NEW to \in Statuses,
         RecordMove(t, to), NEW c \in Claims, c = tx[t].claim
  PROVE  /\ Len(history[c]) \in Nat
         /\ Len(history'[c]) = Len(history[c]) + 1
         /\ \A i \in 1..Len(history[c]) : history'[c][i] = history[c][i]
         /\ history'[c][Len(history[c]) + 1] =
              [from |-> tx[t].from, to |-> to,
               actor |-> HistoryActor(tx[t].user), at |-> tx[t].at]
         /\ \A d \in Claims \ {c} : history'[d] = history[d]
<1> DEFINE e == [from |-> tx[t].from, to |-> to,
                 actor |-> HistoryActor(tx[t].user), at |-> tx[t].at]
<1>1. history' = [history EXCEPT ![c] = Append(@, e)]
  BY DEF RecordMove
<1>2. e \in Entries
  BY OpenTx DEF Entries, HistoryActor
<1>3. history \in [Claims -> Seq(Entries)]
  BY DEF TypeOK
<1> HIDE DEF e
<1>4. history'[c] = Append(history[c], e)
  BY <1>1, <1>3
<1>5. history[c] \in Seq(Entries)
  BY <1>3
<1>6. /\ Len(history[c]) \in Nat
      /\ Len(history'[c]) = Len(history[c]) + 1
      /\ \A i \in 1..Len(history[c]) : history'[c][i] = history[c][i]
      /\ history'[c][Len(history[c]) + 1] = e
  BY <1>2, <1>4, <1>5
<1>7. \A d \in Claims \ {c} : history'[d] = history[d]
  BY <1>1, <1>3
<1> QED BY <1>6, <1>7 DEF e

\* A claim whose row keeps its status and whose history is kept keeps its path.
LEMMA PathFrame ==
  ASSUME NEW c, row[c] # None, row'[c] # None, PathOK(c),
         row'[c].status = row[c].status, history'[c] = history[c]
  PROVE  PathOK(c)'
BY DEF PathOK, Moves, Entry, LastEntry

\* A move the table has, recorded by the holder of the lock, extends the path.
LEMMA PathExtends ==
  ASSUME TypeOK, LoadedIsCurrent, NEW t \in Txs, tx[t].pc = "locked",
         NEW c \in Claims, c = tx[t].claim, PathOK(c),
         NEW to \in Statuses, RecordMove(t, to), Rows(tx[t].from, to) # {},
         row'[c] # None, row'[c].status = to
  PROVE  PathOK(c)'
<1> DEFINE n == Len(history[c])
           e == [from |-> tx[t].from, to |-> to,
                 actor |-> HistoryActor(tx[t].user), at |-> tx[t].at]
<1>1. /\ n \in Nat /\ Len(history'[c]) = n + 1
      /\ \A i \in 1..n : history'[c][i] = history[c][i]
      /\ history'[c][n + 1] = e
  BY RecordedHistory
<1>2. row[c] # None /\ row[c].status = tx[t].from
  BY DEF TypeOK, LoadedIsCurrent
<1>3. /\ 1..n # {}
      /\ history[c][1].from = None /\ history[c][1].to = "submitted"
      /\ \A i \in (1..n) \ {1} :
           /\ history[c][i].from = history[c][i - 1].to
           /\ Rows(history[c][i].from, history[c][i].to) # {}
      /\ history[c][n].to = tx[t].from
  BY <1>2 DEF PathOK, Moves, Entry, LastEntry
<1>4. n >= 1
  BY <1>1, <1>3
<1>5. e.from = tx[t].from /\ e.to = to
  OBVIOUS
<1> HIDE DEF e, n
<1>6. ASSUME NEW i \in (1..(n + 1)) \ {1}
      PROVE  /\ history'[c][i].from = history'[c][i - 1].to
             /\ Rows(history'[c][i].from, history'[c][i].to) # {}
  <2>1. CASE i = n + 1
    <3>1. history'[c][i].from = tx[t].from /\ history'[c][i].to = to
      BY <1>1, <1>5, <2>1
    <3>2. i - 1 = n /\ n \in 1..n
      BY <1>1, <1>4, <2>1
    <3>3. history'[c][i - 1].to = tx[t].from
      BY <1>1, <1>3, <3>2
    <3> QED BY <3>1, <3>3
  <2>2. CASE i # n + 1
    <3>1. i \in 1..n /\ i - 1 \in 1..n
      BY <1>1, <2>2
    <3> QED BY <1>1, <1>3, <3>1
  <2> QED BY <2>1, <2>2
<1>7. /\ 1..(n + 1) # {}
      /\ history'[c][1].from = None /\ history'[c][1].to = "submitted"
      /\ history'[c][n + 1].to = to
  BY <1>1, <1>3, <1>4, <1>5
<1> QED BY <1>1, <1>6, <1>7 DEF PathOK, Moves, Entry, LastEntry

\* A new claim's history is the first entry of a path.
LEMMA CreateClaimPath ==
  ASSUME TypeOK, NEW c \in Claims, CreateClaim(c), PathOK(c)
  PROVE  /\ PathOK(c)'
         /\ row'[c] # None /\ row'[c].status = "submitted"
         /\ Len(history'[c]) = 1
         /\ history'[c][1].from = None
         /\ \A d \in Claims \ {c} : row'[d] = row[d] /\ history'[d] = history[d]
<1> DEFINE r == [status |-> "submitted", settled |-> None,
                 adjuster |-> None, latest |-> None]
           e == [from |-> None, to |-> "submitted", actor |-> None,
                 at |-> clock]
<1>1. row' = [row EXCEPT ![c] = r]
      /\ history' = [history EXCEPT ![c] = Append(@, e)] /\ row[c] = None
  BY DEF CreateClaim
<1>2. r \in ClaimRows /\ r.status = "submitted"
      /\ e.from = None /\ e.to = "submitted"
  BY DEF ClaimRows, Statuses
<1>3. r # None
  BY <1>2, NoRowAssumption
<1> HIDE DEF r, e
<1>4. history[c] = << >>
  BY <1>1 DEF PathOK
<1>5. history'[c] = <<e>> /\ row'[c] = r
      /\ \A d \in Claims \ {c} : row'[d] = row[d] /\ history'[d] = history[d]
  BY <1>1, <1>4 DEF TypeOK
<1>6. Len(history'[c]) = 1 /\ history'[c][1] = e
  BY <1>5
<1>7. PathOK(c)'
  BY <1>2, <1>3, <1>5, <1>6 DEF PathOK, Moves, Entry, LastEntry
<1> QED BY <1>2, <1>3, <1>5, <1>6, <1>7

\* What a transition of a person does to the claim it locked, and to no other.
LEMMA TransitionEffect ==
  ASSUME TypeOK, NEW t \in Txs, NEW to \in Statuses,
         NEW amount \in Amounts \cup {None}, TransitionClaim(t, to, amount),
         NEW c \in Claims, c = tx[t].claim
  PROVE  /\ tx[t].pc = "locked" /\ tx[t].user \in Users
         /\ RecordMove(t, to) /\ Rows(tx[t].from, to) # {}
         /\ row'[c] # None /\ row'[c].status = to
         /\ row'[c].settled = Settled(row[c].settled, to, amount)
         /\ \A d \in Claims \ {c} : row'[d] = row[d] /\ history'[d] = history[d]
<1> DEFINE r == [row[c] EXCEPT !.status = to,
                               !.settled = Settled(row[c].settled, to, amount),
                               !.adjuster = Adjuster(t, row[c].adjuster, to)]
<1>1. /\ tx[t].pc = "locked" /\ tx[t].user \in Users /\ row[c] \in ClaimRows
  BY OpenTx DEF TransitionClaim, UserHoldsLock
<1>2. r \in ClaimRows /\ r.status = to
      /\ r.settled = Settled(row[c].settled, to, amount)
  BY <1>1 DEF ClaimRows, Settled, Adjuster
<1>3. row' = [row EXCEPT ![c] = r] /\ RecordMove(t, to)
      /\ Evaluate(Request(t, to, amount)) = "allowed"
  BY DEF TransitionClaim
<1> HIDE DEF r
<1>4. Rows(tx[t].from, to) # {}
  <2>1. Request(t, to, amount).from = tx[t].from
        /\ Request(t, to, amount).to = to
    BY DEF Request
  <2> QED BY <1>3, <2>1 DEF Evaluate
<1>5. row'[c] = r /\ r # None
      /\ \A d \in Claims \ {c} : row'[d] = row[d] /\ history'[d] = history[d]
  BY <1>2, <1>3, NoRowAssumption DEF RecordMove, TypeOK
<1> QED BY <1>1, <1>2, <1>3, <1>4, <1>5

\* What an assessment does: a triage is a move the table has, and without it
\* status, amount and history stay.
LEMMA AssessmentEffect ==
  ASSUME TypeOK, NEW t \in Txs, NEW a \in Assessments, ApplyAssessment(t, a),
         NEW c \in Claims, c = tx[t].claim
  PROVE  /\ tx[t].pc = "locked"
         /\ row[c] # None /\ row'[c] # None
         /\ \A d \in Claims \ {c} : row'[d] = row[d] /\ history'[d] = history[d]
         /\ \/ /\ RecordMove(t, "triaged") /\ Rows(tx[t].from, "triaged") # {}
               /\ row'[c].status = "triaged"
            \/ /\ history' = history
               /\ row'[c].status = row[c].status
               /\ row'[c].settled = row[c].settled
<1> DEFINE r1 == [row[c] EXCEPT !.status = "triaged", !.latest = a]
           r2 == [row[c] EXCEPT !.latest = a]
<1>1. tx[t].pc = "locked" /\ row[c] \in ClaimRows
  BY OpenTx DEF ApplyAssessment
<1>2. /\ r1 \in ClaimRows /\ r1.status = "triaged"
      /\ r2 \in ClaimRows /\ r2.status = row[c].status
      /\ r2.settled = row[c].settled
  BY <1>1 DEF ClaimRows, Statuses
<1>3. row' = [row EXCEPT ![c] = IF Triages(t) THEN r1 ELSE r2]
  BY DEF ApplyAssessment, ScoreClaim
<1> HIDE DEF r1, r2
<1>4. row'[c] = (IF Triages(t) THEN r1 ELSE r2) /\ row'[c] # None
      /\ row[c] # None
  BY <1>1, <1>2, <1>3, NoRowAssumption DEF TypeOK
<1>5. \A d \in Claims \ {c} : row'[d] = row[d] /\ history'[d] = history[d]
  BY <1>3 DEF ApplyAssessment, RecordMove, TypeOK
<1>6. ASSUME Triages(t)
      PROVE  RecordMove(t, "triaged") /\ Rows(tx[t].from, "triaged") # {}
  <2>1. TriageRequest(t).from = tx[t].from /\ TriageRequest(t).to = "triaged"
    BY DEF TriageRequest
  <2> QED BY <1>6, <2>1 DEF ApplyAssessment, Triages, Evaluate
<1>7. ~Triages(t) => history' = history
  BY DEF ApplyAssessment
<1> QED BY <1>1, <1>2, <1>4, <1>5, <1>6, <1>7

\* Every step keeps the audit trail of every claim a path.
LEMMA NextTrail ==
  TypeOK /\ LoadedIsCurrent /\ TrailIsPath /\ [Next]_vars => TrailIsPath'
<1> SUFFICES ASSUME TypeOK, LoadedIsCurrent, TrailIsPath, [Next]_vars,
                    NEW d \in Claims
             PROVE  PathOK(d)'
  BY DEF TrailIsPath
<1> USE DEF TrailIsPath
<1>f. ASSUME row'[d] = row[d], history'[d] = history[d] PROVE PathOK(d)'
  BY <1>f DEF PathOK, Moves, Entry, LastEntry
<1>1. ASSUME NEW c \in Claims, CreateClaim(c) PROVE PathOK(d)'
  BY <1>1, <1>f, CreateClaimPath
<1>2. ASSUME NEW t \in Txs, NEW u \in Users \cup {System}, NEW c \in Claims,
             Begin(t, u, c)
      PROVE  PathOK(d)'
  BY <1>2, <1>f DEF Begin
<1>3. ASSUME NEW t \in Txs, LockClaim(t) PROVE PathOK(d)'
  BY <1>3, <1>f DEF LockClaim
<1>4. ASSUME NEW t \in Txs, NEW to \in Statuses,
             NEW amount \in Amounts \cup {None}, TransitionClaim(t, to, amount)
      PROVE  PathOK(d)'
  <2>1. tx[t].claim \in Claims
    BY <1>4, OpenTx DEF TransitionClaim, UserHoldsLock
  <2>2. CASE d = tx[t].claim
    BY <1>4, <2>2, TransitionEffect, PathExtends
  <2>3. CASE d # tx[t].claim
    BY <1>4, <1>f, <2>1, <2>3, TransitionEffect
  <2> QED BY <2>2, <2>3
<1>5. ASSUME NEW t \in Txs, RejectTransition(t) PROVE PathOK(d)'
  BY <1>5, <1>f DEF RejectTransition
<1>6. ASSUME NEW t \in Txs, NEW a \in Assessments, ApplyAssessment(t, a)
      PROVE  PathOK(d)'
  <2>1. tx[t].claim \in Claims
    BY <1>6, OpenTx DEF ApplyAssessment
  <2>2. CASE d = tx[t].claim
    <3>1. "triaged" \in Statuses
      BY DEF Statuses
    <3> QED BY <1>6, <2>2, <3>1, AssessmentEffect, PathExtends, PathFrame
  <2>3. CASE d # tx[t].claim
    BY <1>6, <1>f, <2>1, <2>3, AssessmentEffect
  <2> QED BY <2>2, <2>3
<1>7. ASSUME NEW t \in Txs, Abort(t) PROVE PathOK(d)'
  BY <1>7, <1>f DEF Abort
<1>8. CASE UNCHANGED vars
  BY <1>8, <1>f DEF vars
<1> QED BY <1>1, <1>2, <1>3, <1>4, <1>5, <1>6, <1>7, <1>8 DEF Next

\* The audit trail of every claim is a path of the transition table that ends
\* in the claim's status, for any number of people and assessments at work.
THEOREM AuditTrail == Spec => []TrailIsPath
<1>1. Init => TrailIsPath
  BY DEF Init, TrailIsPath, PathOK
<1> QED BY <1>1, NextTrail, RowLockProtects, TypeCorrect, PTL DEF Spec

-----------------------------------------------------------------------------
(***************************************************************************)
(* Authority                                                               *)
(***************************************************************************)
\* An approval stores the approved amount beside an entry of its approver.
LEMMA ApprovalRecorded ==
  ASSUME TypeOK, NEW t \in Txs, NEW to \in Statuses,
         NEW amount \in Amounts \cup {None}, TransitionClaim(t, to, amount),
         NEW c \in Claims, c = tx[t].claim
  PROVE  ApprovalOK(c)'
<1> DEFINE n == Len(history[c])
           rq == Request(t, to, amount)
<1>1. /\ tx[t].pc # "idle" /\ tx[t].user \in Users /\ RecordMove(t, to)
      /\ row'[c].status = to
      /\ row'[c].settled = Settled(row[c].settled, to, amount)
  BY TransitionEffect
<1>2. n \in Nat /\ Len(history'[c]) = n + 1
      /\ history'[c][n + 1].actor = HistoryActor(tx[t].user)
  <2>1. n \in Nat /\ Len(history'[c]) = n + 1
        /\ history'[c][n + 1] =
             [from |-> tx[t].from, to |-> to,
              actor |-> HistoryActor(tx[t].user), at |-> tx[t].at]
    BY <1>1, RecordedHistory
  <2> QED BY <2>1
<1>3. HistoryActor(tx[t].user) = tx[t].user
  BY <1>1, LifecycleAssumption DEF HistoryActor
<1>4. CASE to = "approved"
  <2>1. /\ rq.isSystem = FALSE /\ rq.to = to /\ rq.amount = amount
        /\ rq.limit = Limit[tx[t].user]
        /\ Evaluate(rq) = "allowed"
    BY DEF Request, TransitionClaim
  <2> HIDE DEF rq
  <2>2. amount # None /\ ~ (amount > Limit[tx[t].user])
    BY <1>4, <2>1, AllowedApproval
  <2>3. amount \in Nat /\ Limit[tx[t].user] \in Nat
    BY <1>1, <2>2, LifecycleAssumption
  <2>4. row'[c].settled = amount
    BY <1>1, <1>4, <2>2 DEF Settled
  <2>5. amount <= Limit[tx[t].user]
    BY <2>2, <2>3
  <2> QED BY <1>1, <1>2, <1>3, <2>2, <2>4, <2>5 DEF ApprovalOK, LastEntry, Entry
<1>5. CASE to # "approved"
  BY <1>1, <1>5 DEF ApprovalOK
<1> QED BY <1>4, <1>5

\* A claim that keeps status, amount and history keeps what its approval says.
LEMMA ApprovalFrame ==
  ASSUME NEW c, row[c] # None, ApprovalOK(c), history'[c] = history[c],
         row'[c].status = row[c].status, row'[c].settled = row[c].settled
  PROVE  ApprovalOK(c)'
BY DEF ApprovalOK, LastEntry, Entry

LEMMA NextApproval ==
  TypeOK /\ TrailIsPath /\ ApprovedWithinAuthority /\ [Next]_vars
    => ApprovedWithinAuthority'
<1> SUFFICES ASSUME TypeOK, TrailIsPath, ApprovedWithinAuthority, [Next]_vars,
                    NEW d \in Claims
             PROVE  ApprovalOK(d)'
  BY DEF ApprovedWithinAuthority
<1> USE DEF ApprovedWithinAuthority
<1>f. ASSUME row'[d] = row[d], history'[d] = history[d] PROVE ApprovalOK(d)'
  BY <1>f DEF ApprovalOK, LastEntry, Entry
<1>1. ASSUME NEW c \in Claims, CreateClaim(c) PROVE ApprovalOK(d)'
  <2>1. PathOK(c)
    BY DEF TrailIsPath
  <2>2. CASE d = c
    BY <1>1, <2>1, <2>2, CreateClaimPath DEF ApprovalOK
  <2>3. CASE d # c
    BY <1>1, <1>f, <2>1, <2>3, CreateClaimPath
  <2> QED BY <2>2, <2>3
<1>2. ASSUME NEW t \in Txs, NEW u \in Users \cup {System}, NEW c \in Claims,
             Begin(t, u, c)
      PROVE  ApprovalOK(d)'
  BY <1>2, <1>f DEF Begin
<1>3. ASSUME NEW t \in Txs, LockClaim(t) PROVE ApprovalOK(d)'
  BY <1>3, <1>f DEF LockClaim
<1>4. ASSUME NEW t \in Txs, NEW to \in Statuses,
             NEW amount \in Amounts \cup {None}, TransitionClaim(t, to, amount)
      PROVE  ApprovalOK(d)'
  <2>1. tx[t].claim \in Claims
    BY <1>4, OpenTx DEF TransitionClaim, UserHoldsLock
  <2>2. CASE d = tx[t].claim
    BY <1>4, <2>2, ApprovalRecorded
  <2>3. CASE d # tx[t].claim
    BY <1>4, <1>f, <2>1, <2>3, TransitionEffect
  <2> QED BY <2>2, <2>3
<1>5. ASSUME NEW t \in Txs, RejectTransition(t) PROVE ApprovalOK(d)'
  BY <1>5, <1>f DEF RejectTransition
<1>6. ASSUME NEW t \in Txs, NEW a \in Assessments, ApplyAssessment(t, a)
      PROVE  ApprovalOK(d)'
  <2>1. tx[t].claim \in Claims
    BY <1>6, OpenTx DEF ApplyAssessment
  <2>2. CASE d = tx[t].claim /\ row'[d].status = "triaged"
    BY <2>2 DEF ApprovalOK
  <2>3. CASE d = tx[t].claim /\ row'[d].status # "triaged"
    BY <1>6, <2>3, AssessmentEffect, ApprovalFrame
  <2>4. CASE d # tx[t].claim
    BY <1>6, <1>f, <2>1, <2>4, AssessmentEffect
  <2> QED BY <2>2, <2>3, <2>4
<1>7. ASSUME NEW t \in Txs, Abort(t) PROVE ApprovalOK(d)'
  BY <1>7, <1>f DEF Abort
<1>8. CASE UNCHANGED vars
  BY <1>8, <1>f DEF vars
<1> QED BY <1>1, <1>2, <1>3, <1>4, <1>5, <1>6, <1>7, <1>8 DEF Next

\* An approved claim's amount is within the authority of the person whose
\* entry approved it, for every assignment of authority limits.
THEOREM AuthorityRespected == Spec => []ApprovedWithinAuthority
<1>1. Init => ApprovedWithinAuthority
  BY DEF Init, ApprovedWithinAuthority, ApprovalOK
<1> QED BY <1>1, NextApproval, AuditTrail, TypeCorrect, PTL DEF Spec

-----------------------------------------------------------------------------
(***************************************************************************)
(* Four eyes                                                               *)
(***************************************************************************)
\* While created_at follows the commits, the escalator the lookup finds for a
\* pending claim is the actor of the last entry of its history.
LEMMA LatestIsLast ==
  ASSUME TypeOK, NEW c \in Claims, PathOK(c), row[c] # None,
         row[c].status = "pending_approval", StampedInOrder(c)
  PROVE  EscalatedBy(c) = LastEntry(c).actor
<1> DEFINE n == Len(history[c])
<1>1. n \in Nat /\ DOMAIN history[c] = 1..n
      /\ \A i \in 1..n : history[c][i].at \in Nat
  <2>1. history[c] \in Seq(Entries)
    BY DEF TypeOK
  <2>2. \A i \in 1..n : history[c][i] \in Entries
    BY <2>1
  <2> QED BY <2>1, <2>2 DEF Entries
<1>2. n \in 1..n /\ history[c][n].to = "pending_approval"
  BY <1>1 DEF PathOK, Moves, LastEntry, Entry
<1>3. \A i \in 1..n : i # n => history[c][i].at < history[c][n].at
  BY <1>1, <1>2 DEF StampedInOrder, Moves, Entry
<1> HIDE DEF n
<1>4. n \in Escalations(c) /\ Escalations(c) \subseteq 1..n
  BY <1>1, <1>2 DEF Escalations
<1>5. LatestEscalations(c) = {n}
  <2>1. n \in LatestEscalations(c)
    BY <1>1, <1>3, <1>4 DEF LatestEscalations
  <2>2. ASSUME NEW i \in LatestEscalations(c), i # n PROVE FALSE
    <3>1. i \in 1..n /\ history[c][n].at <= history[c][i].at
      BY <1>4 DEF LatestEscalations
    <3> QED BY <1>1, <1>2, <1>3, <2>2, <3>1
  <2> QED BY <2>1, <2>2
<1> QED BY <1>5 DEF EscalatedBy, LastEntry, Entry, n

\* A recorded move that is no approval of an escalation by its escalator
\* keeps the four-eyes rule of the claim.
LEMMA FourEyesExtends ==
  ASSUME TypeOK, NEW t \in Txs, tx[t].pc = "locked",
         NEW c \in Claims, c = tx[t].claim, PathOK(c), row[c] # None,
         row[c].status = tx[t].from, FourEyesIn(c),
         NEW to \in Statuses, RecordMove(t, to),
         tx[t].from = "pending_approval" /\ to = "approved"
           /\ StampedInOrder(c) =>
             LastEntry(c).actor # HistoryActor(tx[t].user)
  PROVE  FourEyesIn(c)'
<1> DEFINE n == Len(history[c])
           e == [from |-> tx[t].from, to |-> to,
                 actor |-> HistoryActor(tx[t].user), at |-> tx[t].at]
<1>1. /\ n \in Nat /\ Len(history'[c]) = n + 1
      /\ \A i \in 1..n : history'[c][i] = history[c][i]
      /\ history'[c][n + 1] = e
  BY RecordedHistory
<1>2. e.from = tx[t].from /\ e.to = to /\ e.actor = HistoryActor(tx[t].user)
  OBVIOUS
<1>3. 1..n # {} /\ history[c][n].to = tx[t].from
      /\ history[c][1].from = None
  BY DEF PathOK, Moves, LastEntry, Entry
<1>4. n \in 1..n
  BY <1>1, <1>3
<1> HIDE DEF n, e
<1> SUFFICES ASSUME StampedInOrder(c)',
                    NEW i \in 1..(n + 1),
                    history'[c][i].from = "pending_approval",
                    history'[c][i].to = "approved"
             PROVE  /\ history'[c][i - 1].to = "pending_approval"
                    /\ history'[c][i - 1].actor # history'[c][i].actor
  BY <1>1 DEF FourEyesIn, EscalatorDidNotApprove, Moves, Entry
<1>5. \A j, k \in 1..(n + 1) : j < k => history'[c][j].at < history'[c][k].at
  BY <1>1 DEF StampedInOrder, Moves, Entry
<1>6. StampedInOrder(c)
  <2>1. ASSUME NEW j \in 1..n, NEW k \in 1..n, j < k
        PROVE  history[c][j].at < history[c][k].at
    <3>1. history'[c][j].at < history'[c][k].at
      BY <1>1, <1>5, <2>1
    <3>2. history'[c][j] = history[c][j] /\ history'[c][k] = history[c][k]
      BY <1>1
    <3> QED BY <3>1, <3>2
  <2> QED BY <2>1 DEF StampedInOrder, Moves, Entry, n
<1>7. EscalatorDidNotApprove(c)
  BY <1>6 DEF FourEyesIn
<1>8. CASE i = n + 1
  <2>1. tx[t].from = "pending_approval" /\ to = "approved"
        /\ history'[c][i].actor = HistoryActor(tx[t].user)
    BY <1>1, <1>2, <1>8
  <2>2. i - 1 = n /\ history'[c][n] = history[c][n]
    BY <1>1, <1>4, <1>8
  <2>3. LastEntry(c) = history[c][n]
    BY DEF LastEntry, Entry, n
  <2> QED BY <1>3, <1>6, <2>1, <2>2, <2>3
<1>9. CASE i # n + 1
  <2>1. i \in 1..n /\ history'[c][i] = history[c][i]
    BY <1>1, <1>9
  <2>2. history[c][i - 1].to = "pending_approval"
        /\ history[c][i - 1].actor # history[c][i].actor
    BY <1>7, <2>1 DEF EscalatorDidNotApprove, Moves, Entry, n
  <2>3. i # 1
    BY <1>3, <2>1, LifecycleAssumption DEF Statuses
  <2>4. i - 1 \in 1..n
    BY <1>1, <2>1, <2>3
  <2> QED BY <1>1, <2>1, <2>2, <2>4
<1> QED BY <1>8, <1>9

\* The guard FOUR_EYES refuses the actor of the last entry, if created_at
\* follows the commits.
LEMMA ApproverIsAnother ==
  ASSUME TypeOK, LoadedIsCurrent, NEW t \in Txs,
         NEW amount \in Amounts \cup {None},
         TransitionClaim(t, "approved", amount),
         NEW c \in Claims, c = tx[t].claim, PathOK(c),
         tx[t].from = "pending_approval", StampedInOrder(c)
  PROVE  LastEntry(c).actor # HistoryActor(tx[t].user)
<1> DEFINE rq == Request(t, "approved", amount)
<1>1. tx[t].pc = "locked" /\ tx[t].user \in Users /\ tx[t].user # System
  BY OpenTx, LifecycleAssumption DEF TransitionClaim, UserHoldsLock
<1>2. row[c] # None /\ row[c].status = "pending_approval"
      /\ tx[t].escalatedBy = ReadEscalator(tx[t].user, c)
  BY <1>1 DEF TypeOK, LoadedIsCurrent
<1>3. tx[t].escalatedBy = LastEntry(c).actor
  BY <1>1, <1>2, LatestIsLast DEF ReadEscalator
<1>4. /\ rq.isSystem = FALSE /\ rq.to = "approved"
      /\ rq.from = "pending_approval" /\ rq.actor = tx[t].user
      /\ rq.escalatedBy = tx[t].escalatedBy
      /\ Evaluate(rq) = "allowed"
  BY DEF Request, TransitionClaim
<1> HIDE DEF rq
<1>5. ~ (tx[t].escalatedBy # None /\ tx[t].user = tx[t].escalatedBy)
  BY <1>4, AllowedApproval
<1> QED BY <1>1, <1>3, <1>5, LifecycleAssumption DEF HistoryActor

LEMMA NextFourEyes ==
  TypeOK /\ LoadedIsCurrent /\ TrailIsPath /\ FourEyesInOrder /\ [Next]_vars
    => FourEyesInOrder'
<1> SUFFICES ASSUME TypeOK, LoadedIsCurrent, TrailIsPath, FourEyesInOrder,
                    [Next]_vars, NEW d \in Claims
             PROVE  FourEyesIn(d)'
  BY DEF FourEyesInOrder
<1>p. PathOK(d) /\ FourEyesIn(d)
  BY DEF TrailIsPath, FourEyesInOrder
<1>f. ASSUME history'[d] = history[d] PROVE FourEyesIn(d)'
  BY <1>f, <1>p
     DEF FourEyesIn, StampedInOrder, EscalatorDidNotApprove, Moves, Entry
<1>1. ASSUME NEW c \in Claims, CreateClaim(c) PROVE FourEyesIn(d)'
  <2>1. PathOK(c)
    BY DEF TrailIsPath
  <2>2. CASE d = c
    <3>1. Len(history'[d]) = 1 /\ history'[d][1].from = None
      BY <1>1, <2>1, <2>2, CreateClaimPath
    <3>2. None # "pending_approval"
      BY LifecycleAssumption DEF Statuses
    <3> QED BY <3>1, <3>2 DEF FourEyesIn, EscalatorDidNotApprove, Moves, Entry
  <2>3. CASE d # c
    BY <1>1, <1>f, <2>1, <2>3, CreateClaimPath
  <2> QED BY <2>2, <2>3
<1>2. ASSUME NEW t \in Txs, NEW u \in Users \cup {System}, NEW c \in Claims,
             Begin(t, u, c)
      PROVE  FourEyesIn(d)'
  BY <1>2, <1>f DEF Begin
<1>3. ASSUME NEW t \in Txs, LockClaim(t) PROVE FourEyesIn(d)'
  BY <1>3, <1>f DEF LockClaim
<1>4. ASSUME NEW t \in Txs, NEW to \in Statuses,
             NEW amount \in Amounts \cup {None}, TransitionClaim(t, to, amount)
      PROVE  FourEyesIn(d)'
  <2>1. tx[t].claim \in Claims /\ tx[t].pc = "locked"
    BY <1>4, OpenTx DEF TransitionClaim, UserHoldsLock
  <2>2. CASE d = tx[t].claim
    <3>1. row[d] # None /\ row[d].status = tx[t].from
      BY <2>1, <2>2 DEF TypeOK, LoadedIsCurrent
    <3>2. RecordMove(t, to)
      BY <1>4 DEF TransitionClaim
    <3>3. tx[t].from = "pending_approval" /\ to = "approved"
            /\ StampedInOrder(d)
          => LastEntry(d).actor # HistoryActor(tx[t].user)
      BY <1>4, <1>p, <2>2, ApproverIsAnother
    <3> QED BY <1>p, <2>1, <2>2, <3>1, <3>2, <3>3, FourEyesExtends
  <2>3. CASE d # tx[t].claim
    BY <1>4, <1>f, <2>1, <2>3, TransitionEffect
  <2> QED BY <2>2, <2>3
<1>5. ASSUME NEW t \in Txs, RejectTransition(t) PROVE FourEyesIn(d)'
  BY <1>5, <1>f DEF RejectTransition
<1>6. ASSUME NEW t \in Txs, NEW a \in Assessments, ApplyAssessment(t, a)
      PROVE  FourEyesIn(d)'
  <2>1. tx[t].claim \in Claims /\ tx[t].pc = "locked"
    BY <1>6, OpenTx DEF ApplyAssessment
  <2>2. CASE d = tx[t].claim /\ RecordMove(t, "triaged")
    <3>1. row[d] # None /\ row[d].status = tx[t].from
      BY <2>1, <2>2 DEF TypeOK, LoadedIsCurrent
    <3>2. "triaged" \in Statuses /\ "triaged" # "approved"
      BY DEF Statuses
    <3> QED BY <1>p, <2>1, <2>2, <3>1, <3>2, FourEyesExtends
  <2>3. CASE d = tx[t].claim /\ ~RecordMove(t, "triaged")
    BY <1>6, <1>f, <2>3, AssessmentEffect
  <2>4. CASE d # tx[t].claim
    BY <1>6, <1>f, <2>1, <2>4, AssessmentEffect
  <2> QED BY <2>2, <2>3, <2>4
<1>7. ASSUME NEW t \in Txs, Abort(t) PROVE FourEyesIn(d)'
  BY <1>7, <1>f DEF Abort
<1>8. CASE UNCHANGED vars
  BY <1>8, <1>f DEF vars
<1> QED BY <1>1, <1>2, <1>3, <1>4, <1>5, <1>6, <1>7, <1>8 DEF Next

\* The four-eyes rule, under the one condition the code needs for it: that
\* created_at orders a claim's history as its transactions committed.
THEOREM FourEyesKept == Spec => []FourEyesInOrder
<1>1. Init => FourEyesInOrder
  BY DEF Init, FourEyesInOrder, FourEyesIn, EscalatorDidNotApprove, Moves
<1> QED BY <1>1, NextFourEyes, AuditTrail, RowLockProtects, TypeCorrect, PTL
        DEF Spec

-----------------------------------------------------------------------------
(***************************************************************************)
(* What the row of a claim says of its trail, and that ClaimLifecycle      *)
(* implements ClaimTrail.  Both rest on the row lock and on the trail      *)
(* being a path.                                                           *)
(***************************************************************************)
Known == TypeOK /\ LoadedIsCurrent /\ TrailIsPath

LEMMA KnownHolds == Spec => []Known
<1>1. TypeOK /\ LoadedIsCurrent /\ TrailIsPath => Known
  BY DEF Known
<1> QED BY <1>1, TypeCorrect, RowLockProtects, AuditTrail, PTL

\* A person's move is given to the person's role and is never a triage.
LEMMA PersonsMove ==
  ASSUME TypeOK, NEW t \in Txs, NEW to \in Statuses,
         NEW amount \in Amounts \cup {None}, TransitionClaim(t, to, amount)
  PROVE  /\ \E m \in Rows(tx[t].from, to) :
              ~m.systemOnly /\ Role[tx[t].user] \in m.roles
         /\ to # "triaged"
<1> DEFINE rq == Request(t, to, amount)
<1>1. /\ rq.isSystem = FALSE /\ rq.to = to /\ rq.from = tx[t].from
      /\ rq.role = Role[tx[t].user]
      /\ Evaluate(rq) = "allowed"
  BY DEF Request, TransitionClaim
<1> HIDE DEF rq
<1>2. PICK m \in TRANSITIONS :
        /\ m.from = rq.from /\ m.to = rq.to
        /\ m.systemOnly = FALSE /\ rq.role \in m.roles
  BY <1>1, AllowedHasRow
<1>3. m \in Rows(tx[t].from, to)
  BY <1>1, <1>2 DEF Rows
<1>4. to # "triaged"
  BY <1>1, <1>2, RowStatuses
<1> QED BY <1>1, <1>2, <1>3, <1>4

-----------------------------------------------------------------------------
(***************************************************************************)
(* What the row keeps                                                      *)
(***************************************************************************)
\* The adjuster and the assessment a person's move leaves in the row.
LEMMA TransitionKeeps ==
  ASSUME TypeOK, NEW t \in Txs, NEW to \in Statuses,
         NEW amount \in Amounts \cup {None}, TransitionClaim(t, to, amount),
         NEW c \in Claims, c = tx[t].claim
  PROVE  /\ row'[c].adjuster = Adjuster(t, row[c].adjuster, to)
         /\ row'[c].latest = row[c].latest
<1> DEFINE r == [row[c] EXCEPT !.status = to,
                               !.settled = Settled(row[c].settled, to, amount),
                               !.adjuster = Adjuster(t, row[c].adjuster, to)]
<1>1. row[c] \in ClaimRows
  BY OpenTx DEF TransitionClaim, UserHoldsLock
<1>2. /\ r.adjuster = Adjuster(t, row[c].adjuster, to)
      /\ r.latest = row[c].latest
  BY <1>1 DEF ClaimRows
<1>3. row' = [row EXCEPT ![c] = r]
  BY DEF TransitionClaim
<1> HIDE DEF r
<1>4. row'[c] = r
  BY <1>3 DEF TypeOK
<1> QED BY <1>2, <1>4

LEMMA AssessmentKeeps ==
  ASSUME TypeOK, NEW t \in Txs, NEW a \in Assessments, ApplyAssessment(t, a),
         NEW c \in Claims, c = tx[t].claim
  PROVE  /\ row'[c].adjuster = row[c].adjuster /\ row'[c].latest = a
         /\ Taken(c)' # {} /\ ledger'[c][Len(ledger'[c])] = a
         /\ \A d \in Claims \ {c} : ledger'[d] = ledger[d]
<1> DEFINE r1 == [row[c] EXCEPT !.status = "triaged", !.latest = a]
           r2 == [row[c] EXCEPT !.latest = a]
<1>1. row[c] \in ClaimRows
  BY OpenTx DEF ApplyAssessment
<1>2. /\ r1.adjuster = row[c].adjuster /\ r1.latest = a
      /\ r2.adjuster = row[c].adjuster /\ r2.latest = a
  BY <1>1 DEF ClaimRows
<1>3. row' = [row EXCEPT ![c] = IF Triages(t) THEN r1 ELSE r2]
  BY DEF ApplyAssessment, ScoreClaim
<1> HIDE DEF r1, r2
<1>4. row'[c] = r1 \/ row'[c] = r2
  BY <1>3 DEF TypeOK
<1>5. PICK log : log = ledger[c] /\ log \in Seq(Assessments)
  BY DEF TypeOK
<1>6. /\ ledger'[c] = Append(log, a)
      /\ \A d \in Claims \ {c} : ledger'[d] = ledger[d]
  BY <1>5 DEF TypeOK, ApplyAssessment
<1>7. /\ Len(Append(log, a)) \in DOMAIN Append(log, a)
      /\ Append(log, a)[Len(Append(log, a))] = a
  BY <1>5
<1> QED BY <1>2, <1>4, <1>6, <1>7 DEF Taken

RowOK(c) == IF row[c] = None THEN Taken(c) = {} ELSE AdjusterOK(c) /\ ScoreOK(c)

LEMMA RowFrame ==
  ASSUME NEW c, RowOK(c), row'[c] = row[c], history'[c] = history[c],
         ledger'[c] = ledger[c]
  PROVE  RowOK(c)'
BY DEF RowOK, AdjusterOK, ScoreOK, Taken, Reviews, Moves, Entry

\* A recorded move whose row keeps the adjuster unless this is the first
\* review, and is of an assessment taken if it is a triage, keeps the claim's
\* account.
LEMMA RowExtends ==
  ASSUME TypeOK, NEW t \in Txs, tx[t].pc # "idle",
         NEW c \in Claims, c = tx[t].claim, RowOK(c), row[c] # None, row'[c] # None,
         NEW to \in Statuses, RecordMove(t, to),
         to = "under_review" /\ row[c].adjuster = None =>
           HistoryActor(tx[t].user) # None
             /\ row'[c].adjuster = HistoryActor(tx[t].user),
         ~(to = "under_review" /\ row[c].adjuster = None) =>
           row'[c].adjuster = row[c].adjuster,
         \/ /\ ledger'[c] = ledger[c] /\ row'[c].latest = row[c].latest
            /\ to # "triaged"
         \/ Taken(c)' # {} /\ row'[c].latest = ledger'[c][Len(ledger'[c])]
  PROVE  RowOK(c)'
<1> DEFINE n == Len(history[c])
           e == [from |-> tx[t].from, to |-> to,
                 actor |-> HistoryActor(tx[t].user), at |-> tx[t].at]
<1>1. /\ n \in Nat /\ Len(history'[c]) = n + 1
      /\ \A i \in 1..n : history'[c][i] = history[c][i]
      /\ history'[c][n + 1] = e
  BY RecordedHistory
<1>2. e.to = to /\ e.actor = HistoryActor(tx[t].user)
  OBVIOUS
<1>3. Moves(c) = 1..n /\ Moves(c)' = (1..n) \cup {n + 1}
  BY <1>1 DEF Moves
<1> HIDE DEF n, e
<1>4. \A i \in 1..n : Entry(c, i)' = Entry(c, i)
  BY <1>1 DEF Entry
<1>5. Reviews(c) = {i \in 1..n : Entry(c, i).to = "under_review"}
  BY <1>3 DEF Reviews
<1>6. Reviews(c)' = Reviews(c) \cup (IF to = "under_review" THEN {n + 1} ELSE {})
  BY <1>1, <1>2, <1>3, <1>5 DEF Reviews, Entry
<1>7. ScoreOK(c)'
  <2>1. CASE Taken(c)' # {} /\ row'[c].latest = ledger'[c][Len(ledger'[c])]
    BY <2>1 DEF ScoreOK
  <2>2. CASE /\ ledger'[c] = ledger[c] /\ row'[c].latest = row[c].latest
             /\ to # "triaged"
    <3>1. ScoreOK(c) /\ Taken(c)' = Taken(c)
      BY <2>2 DEF RowOK, Taken
    <3>2. ASSUME Taken(c) = {}
          PROVE  \A i \in Moves(c)' : Entry(c, i)'.to # "triaged"
      BY <1>1, <1>2, <1>3, <1>4, <2>2, <3>1, <3>2 DEF ScoreOK, Entry
    <3> QED BY <2>2, <3>1, <3>2 DEF ScoreOK
  <2> QED BY <2>1, <2>2
<1>8. AdjusterOK(c)'
  <2>1. CASE row[c].adjuster = None
    <3>1. Reviews(c) = {}
      BY <2>1 DEF RowOK, AdjusterOK
    <3>2. CASE to = "under_review"
      <4>1. Reviews(c)' = {n + 1}
        BY <1>6, <3>1, <3>2
      <4> QED BY <1>1, <1>2, <2>1, <3>2, <4>1 DEF AdjusterOK, Entry
    <3>3. CASE to # "under_review"
      BY <1>6, <2>1, <3>1, <3>3 DEF AdjusterOK
    <3> QED BY <3>2, <3>3
  <2>2. CASE row[c].adjuster # None
    <3>1. PICK i \in Reviews(c) : /\ row[c].adjuster = Entry(c, i).actor
                                  /\ \A j \in Reviews(c) : i <= j
      BY <2>2 DEF RowOK, AdjusterOK
    <3>2. i \in 1..n /\ i \in Reviews(c)' /\ Entry(c, i)' = Entry(c, i)
      BY <1>4, <1>5, <1>6, <3>1
    <3>3. \A j \in Reviews(c)' : i <= j
      <4>1. SUFFICES ASSUME NEW j \in Reviews(c)' PROVE i <= j
        OBVIOUS
      <4>2. j \in Reviews(c) \/ j = n + 1
        BY <1>6, <4>1
      <4>3. CASE j \in Reviews(c)
        BY <3>1, <4>3
      <4>4. CASE j = n + 1
        <5>1. n \in Nat /\ i \in 1..n
          BY <1>1, <3>2
        <5> QED BY <4>4, <5>1
      <4> QED BY <4>2, <4>3, <4>4
    <3> QED BY <2>2, <3>1, <3>2, <3>3 DEF AdjusterOK, Entry
  <2> QED BY <2>1, <2>2
<1> QED BY <1>7, <1>8 DEF RowOK

LEMMA NextRow == Known /\ RowTellsTrail /\ [Next]_vars => RowTellsTrail'
<1> SUFFICES ASSUME Known, RowTellsTrail, [Next]_vars, NEW d \in Claims
             PROVE  RowOK(d)'
  BY DEF RowTellsTrail, RowOK
<1> USE DEF Known
<1>r. RowOK(d) /\ PathOK(d)
  BY DEF RowTellsTrail, RowOK, TrailIsPath
<1>f. ASSUME row'[d] = row[d], history'[d] = history[d], ledger'[d] = ledger[d]
      PROVE  RowOK(d)'
  BY <1>f, <1>r, RowFrame
<1>1. ASSUME NEW c \in Claims, CreateClaim(c) PROVE RowOK(d)'
  <2>1. CASE d = c
    <3> DEFINE r == [status |-> "submitted", settled |-> None,
                     adjuster |-> None, latest |-> None]
               e == [from |-> None, to |-> "submitted", actor |-> None,
                     at |-> clock]
    <3>1. row'[d] = r /\ history'[d] = Append(history[d], e) /\ row[d] = None
      BY <1>1, <2>1 DEF CreateClaim, TypeOK
    <3>2. r.adjuster = None /\ r.latest = None /\ e.to = "submitted"
      OBVIOUS
    <3> HIDE DEF r, e
    <3>3. history'[d] = <<e>>
      <4>1. history[d] = << >>
        BY <1>r, <3>1 DEF PathOK
      <4> QED BY <3>1, <4>1
    <3>4. \A i \in Moves(d)' : Entry(d, i)'.to = "submitted"
      BY <3>2, <3>3 DEF Moves, Entry
    <3>5. Taken(d)' = {}
      BY <1>1, <1>r, <3>1 DEF CreateClaim, RowOK, Taken
    <3> QED BY <3>1, <3>2, <3>4, <3>5 DEF RowOK, AdjusterOK, ScoreOK, Reviews, Entry
  <2>2. CASE d # c
    BY <1>1, <1>f, <2>2 DEF CreateClaim, TypeOK
  <2> QED BY <2>1, <2>2
<1>2. ASSUME NEW t \in Txs, NEW u \in Users \cup {System}, NEW c \in Claims,
             Begin(t, u, c)
      PROVE  RowOK(d)'
  BY <1>2, <1>f DEF Begin
<1>3. ASSUME NEW t \in Txs, LockClaim(t) PROVE RowOK(d)'
  BY <1>3, <1>f DEF LockClaim
<1>4. ASSUME NEW t \in Txs, NEW to \in Statuses,
             NEW amount \in Amounts \cup {None}, TransitionClaim(t, to, amount)
      PROVE  RowOK(d)'
  <2>1. tx[t].pc = "locked" /\ tx[t].claim \in Claims /\ tx[t].user \in Users
    BY <1>4, OpenTx DEF TransitionClaim, UserHoldsLock
  <2>l. ledger' = ledger
    BY <1>4 DEF TransitionClaim
  <2>2. CASE d = tx[t].claim
    <3>1. row[d] # None /\ row[d].adjuster = tx[t].adjuster /\ RecordMove(t, to)
      BY <1>4, <2>1, <2>2 DEF TypeOK, LoadedIsCurrent, TransitionClaim
    <3>2. HistoryActor(tx[t].user) = tx[t].user /\ tx[t].user # None
      BY <2>1, LifecycleAssumption DEF HistoryActor
    <3>3. /\ row'[d].adjuster = Adjuster(t, row[d].adjuster, to)
          /\ row'[d].latest = row[d].latest /\ ledger'[d] = ledger[d]
      BY <1>4, <2>2, <2>l, TransitionKeeps
    <3>4. to # "triaged"
      BY <1>4, PersonsMove
    <3>5. row'[d].adjuster = IF to = "under_review" /\ row[d].adjuster = None
                             THEN HistoryActor(tx[t].user) ELSE row[d].adjuster
      BY <3>1, <3>2, <3>3 DEF Adjuster
    <3>6. row'[d] # None
      BY <1>4, <2>2, TransitionEffect
    <3> QED BY <1>r, <2>1, <2>2, <3>1, <3>2, <3>3, <3>4, <3>5, <3>6, RowExtends
  <2>3. CASE d # tx[t].claim
    BY <1>4, <1>f, <2>1, <2>3, <2>l, TransitionEffect
  <2> QED BY <2>2, <2>3
<1>5. ASSUME NEW t \in Txs, RejectTransition(t) PROVE RowOK(d)'
  BY <1>5, <1>f DEF RejectTransition
<1>6. ASSUME NEW t \in Txs, NEW a \in Assessments, ApplyAssessment(t, a)
      PROVE  RowOK(d)'
  <2>1. tx[t].pc = "locked" /\ tx[t].claim \in Claims
    BY <1>6, OpenTx DEF ApplyAssessment
  <2>2. CASE d = tx[t].claim
    <3>1. /\ row'[d].adjuster = row[d].adjuster /\ Taken(d)' # {}
          /\ row'[d].latest = ledger'[d][Len(ledger'[d])]
      BY <1>6, <2>2, AssessmentKeeps
    <3>2. row[d] # None /\ row'[d] # None
      BY <1>6, <2>1, <2>2, AssessmentEffect
    <3>3. CASE RecordMove(t, "triaged")
      <4>1. "triaged" \in Statuses
        BY DEF Statuses
      <4> QED BY <1>r, <2>1, <2>2, <3>1, <3>2, <3>3, <4>1, RowExtends
    <3>4. CASE history' = history
      BY <1>r, <3>1, <3>2, <3>4
         DEF RowOK, AdjusterOK, ScoreOK, Reviews, Moves, Entry
    <3> QED BY <1>6, <2>2, <3>3, <3>4, AssessmentEffect
  <2>3. CASE d # tx[t].claim
    BY <1>6, <1>f, <2>1, <2>3, AssessmentEffect, AssessmentKeeps
  <2> QED BY <2>2, <2>3
<1>7. ASSUME NEW t \in Txs, Abort(t) PROVE RowOK(d)'
  BY <1>7, <1>f DEF Abort
<1>8. CASE UNCHANGED vars
  BY <1>8, <1>f DEF vars
<1> QED BY <1>1, <1>2, <1>3, <1>4, <1>5, <1>6, <1>7, <1>8 DEF Next

\* The assigned adjuster is the first reviewer of the trail, and the latest
\* assessment is the last that was taken, however moves and assessments
\* interleave; a claim that was triaged has one.
THEOREM RowTold == Spec => []RowTellsTrail
<1>1. Init => RowTellsTrail
  BY DEF Init, RowTellsTrail, Taken
<1> QED BY <1>1, NextRow, KnownHolds, PTL DEF Spec

-----------------------------------------------------------------------------
(***************************************************************************)
(* The refinement                                                          *)
(***************************************************************************)
\* An entry without its time, the trail and the announcements of one claim.
Plain(x) == [from |-> x.from, to |-> x.to, actor |-> x.actor]

StatusOf(c) == IF row[c] = None THEN None ELSE row[c].status

TrailOf(c) == [i \in Moves(c) |-> [from |-> Entry(c, i).from, to |-> Entry(c, i).to,
                                  actor |-> Entry(c, i).actor]]

EventsOf(c) == [i \in DOMAIN outbox[c] |-> outbox[c][i].to]

StatusMap == [c \in Claims |-> StatusOf(c)]
TrailMap  == [c \in Claims |-> TrailOf(c)]
EventsMap == [c \in Claims |-> EventsOf(c)]

\* A claim's step, seen through the mapping, is one record of the trail.
LEMMA RecordSeen ==
  ASSUME TypeOK, NEW c \in Claims, NEW e \in Entries,
         history'[c] = Append(history[c], e),
         \E v \in Events : v.to = e.to /\ outbox'[c] = Append(outbox[c], v),
         \A d \in Claims \ {c} : history'[d] = history[d] /\ outbox'[d] = outbox[d],
         row'[c] # None, row'[c].status = e.to,
         \A d \in Claims \ {c} : row'[d] = row[d]
  PROVE  /\ StatusMap' = [StatusMap EXCEPT ![c] = e.to]
         /\ TrailMap' = [TrailMap EXCEPT ![c] = Append(TrailMap[c], Plain(e))]
         /\ EventsMap' = [EventsMap EXCEPT ![c] = Append(EventsMap[c], e.to)]
<1>1. history[c] \in Seq(Entries) /\ outbox[c] \in Seq(Events)
  BY DEF TypeOK
<1>2. TrailOf(c)' = Append(TrailOf(c), Plain(e))
  BY <1>1 DEF TrailOf, Moves, Entry, Plain
<1>3. EventsOf(c)' = Append(EventsOf(c), e.to)
  BY <1>1 DEF EventsOf
<1>4. StatusOf(c)' = e.to
  BY DEF StatusOf
<1>5. \A d \in Claims \ {c} : /\ StatusOf(d)' = StatusOf(d) /\ TrailOf(d)' = TrailOf(d)
                              /\ EventsOf(d)' = EventsOf(d)
  BY <1>1 DEF StatusOf, TrailOf, EventsOf, Moves, Entry
<1>6. StatusMap' = [StatusMap EXCEPT ![c] = e.to]
  BY <1>4, <1>5 DEF StatusMap
<1>7. TrailMap' = [TrailMap EXCEPT ![c] = Append(TrailMap[c], Plain(e))]
  BY <1>2, <1>5 DEF TrailMap
<1>8. EventsMap' = [EventsMap EXCEPT ![c] = Append(EventsMap[c], e.to)]
  BY <1>3, <1>5 DEF EventsMap
<1> QED BY <1>6, <1>7, <1>8

\* Steps that touch no row, history or event are stutters of the trail.
LEMMA QuietSeen ==
  ASSUME UNCHANGED <<row, history, outbox>>
  PROVE  UNCHANGED Trail!trailVars
BY DEF Trail!trailVars, Moves, Entry

LEMMA CreateSeen ==
  ASSUME TypeOK, NEW c \in Claims, CreateClaim(c)
  PROVE  Trail!Open(c)
<1> DEFINE r == [status |-> "submitted", settled |-> None,
                 adjuster |-> None, latest |-> None]
           e == [from |-> None, to |-> "submitted", actor |-> None, at |-> clock]
           v == [type |-> "claim.submitted", to |-> "submitted", at |-> clock]
<1>1. r \in ClaimRows /\ e \in Entries /\ v \in Events
  BY DEF TypeOK, ClaimRows, Entries, Events, Statuses
<1>2. /\ r.status = "submitted" /\ e.to = "submitted" /\ v.to = "submitted"
      /\ Plain(e) = [from |-> None, to |-> "submitted", actor |-> None]
  BY DEF Plain
<1>3. /\ row[c] = None /\ row' = [row EXCEPT ![c] = r]
      /\ history' = [history EXCEPT ![c] = Append(@, e)]
      /\ outbox' = [outbox EXCEPT ![c] = Append(@, v)]
  BY DEF CreateClaim
<1> HIDE DEF r, e, v
<1>4. /\ row'[c] = r /\ r # None
      /\ \A d \in Claims \ {c} : row'[d] = row[d]
  BY <1>1, <1>3, NoRowAssumption DEF TypeOK
<1> DEFINE m == [from |-> None, to |-> "submitted", actor |-> None]
<1>5. m = Plain(e) /\ m.to = "submitted"
  BY <1>2
<1>6. StatusMap[c] = None
  BY <1>3 DEF StatusMap, StatusOf
<1> HIDE DEF m
<1>7. /\ StatusMap' = [StatusMap EXCEPT ![c] = m.to]
      /\ TrailMap' = [TrailMap EXCEPT ![c] = Append(TrailMap[c], m)]
      /\ EventsMap' = [EventsMap EXCEPT ![c] = Append(EventsMap[c], m.to)]
  <2>1. row'[c] # None /\ row'[c].status = e.to /\ m.to = e.to
    BY <1>2, <1>4, <1>5
  <2>2. /\ history'[c] = Append(history[c], e)
        /\ \E w \in Events : w.to = e.to /\ outbox'[c] = Append(outbox[c], w)
        /\ \A d \in Claims \ {c} : history'[d] = history[d] /\ outbox'[d] = outbox[d]
    BY <1>1, <1>2, <1>3 DEF TypeOK
  <2>3. /\ StatusMap' = [StatusMap EXCEPT ![c] = e.to]
        /\ TrailMap' = [TrailMap EXCEPT ![c] = Append(TrailMap[c], Plain(e))]
        /\ EventsMap' = [EventsMap EXCEPT ![c] = Append(EventsMap[c], e.to)]
    BY <1>1, <1>4, <2>1, <2>2, RecordSeen
  <2> QED BY <1>5, <2>1, <2>3
<1> QED BY <1>6, <1>7 DEF Trail!Open, Trail!Record, m, StatusMap, TrailMap,
           EventsMap, StatusOf, TrailOf, EventsOf

\* A recorded move of the lock's holder is one record of the trail.
LEMMA MoveSeen ==
  ASSUME Known, NEW t \in Txs, tx[t].pc = "locked", NEW to \in Statuses,
         RecordMove(t, to), NEW c \in Claims, c = tx[t].claim,
         row'[c] # None, row'[c].status = to,
         \A d \in Claims \ {c} : row'[d] = row[d],
         NEW m, m = [from |-> tx[t].from, to |-> to,
                     actor |-> HistoryActor(tx[t].user)]
  PROVE  /\ StatusMap[c] = tx[t].from
         /\ StatusMap' = [StatusMap EXCEPT ![c] = m.to]
         /\ TrailMap' = [TrailMap EXCEPT ![c] = Append(TrailMap[c], m)]
         /\ EventsMap' = [EventsMap EXCEPT ![c] = Append(EventsMap[c], m.to)]
<1> USE DEF Known
<1> DEFINE e == [from |-> tx[t].from, to |-> to,
                 actor |-> HistoryActor(tx[t].user), at |-> tx[t].at]
           v == [type |-> "claim.status_changed", to |-> to, at |-> tx[t].at]
<1>1. StatusMap[c] = tx[t].from
  BY DEF TypeOK, LoadedIsCurrent, StatusMap, StatusOf
<1>2. e \in Entries /\ v \in Events
  BY OpenTx DEF Entries, Events, HistoryActor
<1>3. e.to = to /\ v.to = to /\ m = Plain(e)
  BY DEF Plain
<1>4. /\ history' = [history EXCEPT ![c] = Append(@, e)]
      /\ outbox' = [outbox EXCEPT ![c] = Append(@, v)]
  BY DEF RecordMove
<1> HIDE DEF e, v
<1>5. v.to = e.to /\ row'[c].status = e.to
  BY <1>3
<1>6. /\ StatusMap' = [StatusMap EXCEPT ![c] = m.to]
      /\ TrailMap' = [TrailMap EXCEPT ![c] = Append(TrailMap[c], m)]
      /\ EventsMap' = [EventsMap EXCEPT ![c] = Append(EventsMap[c], m.to)]
  <2>1. /\ history'[c] = Append(history[c], e)
        /\ \E w \in Events : w.to = e.to /\ outbox'[c] = Append(outbox[c], w)
        /\ \A d \in Claims \ {c} : history'[d] = history[d] /\ outbox'[d] = outbox[d]
    BY <1>2, <1>3, <1>4 DEF TypeOK
  <2>2. TypeOK /\ row'[c].status = e.to /\ m.to = e.to
    BY <1>3
  <2>3. /\ StatusMap' = [StatusMap EXCEPT ![c] = e.to]
        /\ TrailMap' = [TrailMap EXCEPT ![c] = Append(TrailMap[c], Plain(e))]
        /\ EventsMap' = [EventsMap EXCEPT ![c] = Append(EventsMap[c], e.to)]
    BY <1>2, <2>1, <2>2, RecordSeen
  <2> QED BY <1>3, <2>2, <2>3
<1> QED BY <1>1, <1>6

\* ClaimTrail reads the same transition table.
LEMMA SameTable == \A from, to : Trail!Rows(from, to) = Rows(from, to)
BY DEF Trail!Rows, Rows, Trail!TRANSITIONS, TRANSITIONS, Trail!Move, Move,
       Trail!SystemMove, SystemMove, Trail!ALL_ROLES, ALL_ROLES,
       Trail!SENIOR_ROLES, SENIOR_ROLES

LEMMA TransitionSeen ==
  ASSUME Known, NEW t \in Txs, NEW to \in Statuses,
         NEW amount \in Amounts \cup {None}, TransitionClaim(t, to, amount),
         NEW c, NEW u, c = tx[t].claim, u = tx[t].user
  PROVE  c \in Claims /\ u \in Users /\ Trail!UserMove(c, u, to)
<1> USE DEF Known
<1> DEFINE m == [from |-> tx[t].from, to |-> to, actor |-> HistoryActor(u)]
<1>1. tx[t].pc = "locked" /\ c \in Claims /\ u \in Users /\ HistoryActor(u) = u
  BY OpenTx, LifecycleAssumption DEF TransitionClaim, UserHoldsLock, HistoryActor
<1>2. /\ RecordMove(t, to)
      /\ row'[c] # None /\ row'[c].status = to
      /\ \A d \in Claims \ {c} : row'[d] = row[d]
  BY <1>1, TransitionEffect
<1>3. m = [from |-> tx[t].from, to |-> to, actor |-> HistoryActor(tx[t].user)]
  OBVIOUS
<1>4. m = [from |-> tx[t].from, to |-> to, actor |-> u] /\ m.to = to
  BY <1>1
<1> HIDE DEF m
<1>5. /\ StatusMap[c] = tx[t].from
      /\ StatusMap' = [StatusMap EXCEPT ![c] = m.to]
      /\ TrailMap' = [TrailMap EXCEPT ![c] = Append(TrailMap[c], m)]
      /\ EventsMap' = [EventsMap EXCEPT ![c] = Append(EventsMap[c], m.to)]
  BY <1>1, <1>2, <1>3, MoveSeen
<1>6. \E r \in Trail!Rows(StatusMap[c], to) : ~r.systemOnly /\ Role[u] \in r.roles
  BY <1>5, PersonsMove, SameTable
<1>7. m = [from |-> StatusMap[c], to |-> to, actor |-> u]
  BY <1>4, <1>5
<1>8. Trail!UserMove(c, u, to)
  BY <1>5, <1>6, <1>7 DEF Trail!UserMove, Trail!Record, StatusMap, TrailMap,
     EventsMap, StatusOf, TrailOf, EventsOf
<1> QED BY <1>1, <1>8

\* An assessment triages the claim, or leaves status, trail and events alone.
LEMMA AssessmentSeen ==
  ASSUME Known, NEW t \in Txs, NEW a \in Assessments, ApplyAssessment(t, a),
         NEW c, c = tx[t].claim
  PROVE  c \in Claims /\ (Trail!Triage(c) \/ UNCHANGED Trail!trailVars)
<1> USE DEF Known
<1>1. tx[t].pc = "locked" /\ tx[t].user = System /\ c \in Claims
  BY OpenTx DEF ApplyAssessment
<1>2. row[c] # None /\ row'[c] # None /\ \A d \in Claims \ {c} : row'[d] = row[d]
  BY <1>1, AssessmentEffect
<1>3. CASE Triages(t)
  <2> DEFINE m == [from |-> "submitted", to |-> "triaged", actor |-> None]
  <2>1. RecordMove(t, "triaged") /\ tx[t].from = "submitted"
    BY <1>3 DEF ApplyAssessment, Triages
  <2>2. row'[c].status = "triaged"
    <3> DEFINE r == [row[c] EXCEPT !.status = "triaged", !.latest = a]
    <3>1. row[c] \in ClaimRows
      BY <1>1, OpenTx
    <3>2. row' = [row EXCEPT ![c] = r]
      BY <1>3 DEF ApplyAssessment, ScoreClaim
    <3>3. r.status = "triaged"
      BY <3>1 DEF ClaimRows
    <3> HIDE DEF r
    <3> QED BY <1>1, <3>2, <3>3 DEF TypeOK
  <2>3. m = [from |-> tx[t].from, to |-> "triaged",
             actor |-> HistoryActor(tx[t].user)] /\ m.to = "triaged"
    BY <1>1, <2>1 DEF HistoryActor
  <2>4. "triaged" \in Statuses
    BY DEF Statuses
  <2> HIDE DEF m
  <2>5. /\ StatusMap[c] = "submitted"
        /\ StatusMap' = [StatusMap EXCEPT ![c] = m.to]
        /\ TrailMap' = [TrailMap EXCEPT ![c] = Append(TrailMap[c], m)]
        /\ EventsMap' = [EventsMap EXCEPT ![c] = Append(EventsMap[c], m.to)]
    BY <1>1, <1>2, <2>1, <2>2, <2>3, <2>4, MoveSeen
  <2>6. Trail!Triage(c)
    BY <2>5 DEF Trail!Triage, Trail!Record, m, StatusMap, TrailMap, EventsMap,
       StatusOf, TrailOf, EventsOf
  <2> QED BY <1>1, <2>6
<1>4. CASE ~Triages(t)
  <2>1. UNCHANGED <<history, outbox>> /\ row' = [row EXCEPT ![c] = [@ EXCEPT !.latest = a]]
    BY <1>4 DEF ApplyAssessment, ScoreClaim
  <2>2. row'[c].status = row[c].status
    BY <1>1, <1>2, <2>1 DEF TypeOK, ClaimRows
  <2>3. \A d \in Claims : StatusOf(d)' = StatusOf(d)
    BY <1>2, <2>2 DEF StatusOf
  <2>4. StatusMap' = StatusMap /\ TrailMap' = TrailMap /\ EventsMap' = EventsMap
    BY <2>1, <2>3 DEF StatusMap, TrailMap, EventsMap, TrailOf, EventsOf, Moves, Entry
  <2>5. UNCHANGED Trail!trailVars
    BY <2>4 DEF Trail!trailVars, StatusMap, TrailMap, EventsMap, StatusOf, TrailOf,
       EventsOf
  <2> QED BY <1>1, <2>5
<1> QED BY <1>3, <1>4

LEMMA TrailStep == Known /\ [Next]_vars => [Trail!TrailNext]_(Trail!trailVars)
<1> SUFFICES ASSUME Known, [Next]_vars
             PROVE  Trail!TrailNext \/ UNCHANGED Trail!trailVars
  OBVIOUS
<1> USE DEF Trail!TrailNext
<1>1. ASSUME NEW c \in Claims, CreateClaim(c) PROVE Trail!TrailNext
  <2>1. Trail!Open(c)
    BY <1>1, CreateSeen DEF Known
  <2> QED BY <2>1
<1>2. ASSUME NEW t \in Txs, NEW u \in Users \cup {System}, NEW c \in Claims,
             Begin(t, u, c)
      PROVE  UNCHANGED Trail!trailVars
  BY <1>2, QuietSeen DEF Begin
<1>3. ASSUME NEW t \in Txs, LockClaim(t) \/ RejectTransition(t) \/ Abort(t)
      PROVE  UNCHANGED Trail!trailVars
  BY <1>3, QuietSeen DEF LockClaim, RejectTransition, Abort
<1>4. ASSUME NEW t \in Txs, NEW to \in Statuses,
             NEW amount \in Amounts \cup {None}, TransitionClaim(t, to, amount)
      PROVE  Trail!TrailNext
  <2>1. PICK c, u : c = tx[t].claim /\ u = tx[t].user
    OBVIOUS
  <2>2. c \in Claims /\ u \in Users /\ Trail!UserMove(c, u, to)
    BY <1>4, <2>1, TransitionSeen
  <2>3. to \in Trail!Statuses
    BY DEF Trail!Statuses, Statuses
  <2> QED BY <2>2, <2>3
<1>5. ASSUME NEW t \in Txs, NEW a \in Assessments, ApplyAssessment(t, a)
      PROVE  Trail!TrailNext \/ UNCHANGED Trail!trailVars
  <2>1. PICK c : c = tx[t].claim
    OBVIOUS
  <2>2. c \in Claims /\ (Trail!Triage(c) \/ UNCHANGED Trail!trailVars)
    BY <1>5, <2>1, AssessmentSeen
  <2> QED BY <2>2
<1>6. CASE UNCHANGED vars
  BY <1>6, QuietSeen DEF vars
<1> QED BY <1>1, <1>2, <1>3, <1>4, <1>5, <1>6 DEF Next

\* ClaimLifecycle implements ClaimTrail: whatever sessions compete and however
\* they end, status, trail and events of a claim change together, by one legal
\* move of somebody whose role may make it.
THEOREM LifecycleIsTrail == Spec => ImplementsTrail
<1>1. Init => Trail!TrailInit
  BY DEF Init, Trail!TrailInit, Moves
<1> QED BY <1>1, TrailStep, KnownHolds, PTL DEF Spec, ImplementsTrail, Trail!TrailSpec
=============================================================================
