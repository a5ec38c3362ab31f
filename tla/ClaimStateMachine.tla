------------------------- MODULE ClaimStateMachine -------------------------
(***************************************************************************)
(* The pure rules of a claim's life: app/services/claim_state_machine.py   *)
(* of the claims API.  Callers gather the facts (status, actor, amounts)   *)
(* into a request and Evaluate decides.  Nothing here has state.           *)
(***************************************************************************)
EXTENDS Integers

CONSTANT None  \* Python's None: no settlement amount, no actor, no escalator

\* None is not a number: a missing amount is never compared with one.
ASSUME NoneAssumption == None \notin Int

Statuses == {"submitted", "triaged", "under_review", "pending_approval",
             "approved", "settled", "denied", "withdrawn"}

ALL_ROLES == {"adjuster", "senior_adjuster", "admin"}

SENIOR_ROLES == {"senior_adjuster", "admin"}

\* One row of TRANSITIONS.  guards is the tuple of guards in source order.
Move(from, to, roles, guards) ==
  [from |-> from, to |-> to, roles |-> roles, guards |-> guards,
   systemOnly |-> FALSE]

SystemMove(from, to) ==
  [from |-> from, to |-> to, roles |-> {}, guards |-> << >>,
   systemOnly |-> TRUE]

TRANSITIONS ==
  { SystemMove("submitted", "triaged"),
    Move("submitted", "under_review", ALL_ROLES, << >>),
    Move("submitted", "withdrawn", ALL_ROLES, << >>),
    Move("triaged", "under_review", ALL_ROLES, << >>),
    Move("triaged", "withdrawn", ALL_ROLES, << >>),
    Move("under_review", "pending_approval", ALL_ROLES, <<"REQUIRE_AMOUNT">>),
    Move("under_review", "approved", ALL_ROLES,
         <<"REQUIRE_AMOUNT", "WITHIN_AUTHORITY">>),
    Move("under_review", "denied", ALL_ROLES, << >>),
    Move("under_review", "withdrawn", ALL_ROLES, << >>),
    Move("pending_approval", "approved", SENIOR_ROLES,
         <<"REQUIRE_AMOUNT", "WITHIN_AUTHORITY", "FOUR_EYES">>),
    Move("pending_approval", "under_review", SENIOR_ROLES, << >>),
    Move("pending_approval", "denied", SENIOR_ROLES, << >>),
    Move("approved", "settled", ALL_ROLES, << >>),
    Move("settled", "under_review", SENIOR_ROLES, << >>),
    Move("denied", "under_review", SENIOR_ROLES, << >>) }

\* TRANSITIONS.get(from).get(to): a set with the row, or empty.
Rows(from, to) == {m \in TRANSITIONS : m.from = from /\ m.to = to}

\* The three guard checks: TRUE where the Python check returns a message.
RequiresAmountFails(rq) == rq.amount = None \/ rq.amount <= 0

WithinAuthorityFails(rq) == rq.amount # None /\ rq.amount > rq.limit

FourEyesFails(rq) == rq.escalatedBy # None /\ rq.actor = rq.escalatedBy

GuardFails(g, rq) ==
  \/ g = "REQUIRE_AMOUNT" /\ RequiresAmountFails(rq)
  \/ g = "WITHIN_AUTHORITY" /\ WithinAuthorityFails(rq)
  \/ g = "FOUR_EYES" /\ FourEyesFails(rq)

GuardOutcome(g) == IF g = "REQUIRE_AMOUNT" THEN "invalid" ELSE "forbidden"

\* The guards run in order and the first failure decides the outcome.
GuardsOutcome(m, rq) ==
  LET failing == {i \in DOMAIN m.guards : GuardFails(m.guards[i], rq)}
  IN  IF failing = {} THEN "allowed"
      ELSE GuardOutcome(m.guards[CHOOSE i \in failing :
                                   \A j \in failing : i <= j])

Outcomes == {"allowed", "illegal", "forbidden", "invalid"}

\* rq: [from, to, actor, role, limit, amount, escalatedBy, isSystem].
Evaluate(rq) ==
  IF Rows(rq.from, rq.to) = {} THEN "illegal"
  ELSE LET m == CHOOSE m \in TRANSITIONS : m.from = rq.from /\ m.to = rq.to
       IN  IF m.systemOnly # rq.isSystem THEN "forbidden"
           ELSE IF ~rq.isSystem /\ rq.role \notin m.roles THEN "forbidden"
           ELSE GuardsOutcome(m, rq)

\* What the detail view of a claim offers: guards are ignored, four eyes too.
AvailableTransitions(from, role) ==
  {m.to : m \in {n \in TRANSITIONS :
                   n.from = from /\ ~n.systemOnly /\ role \in n.roles}}
=============================================================================
