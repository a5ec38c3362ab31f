---------------------------- MODULE RateLimiter -----------------------------
(***************************************************************************)
(* Logins from one address (claims-api/routers/auth.py) behind the throttle*)
(* of services/rate_limit_service.py: one row of rate_limit_buckets for the*)
(* address, a counter and the start of its window.                         *)
(*                                                                         *)
(* now() is the start of a transaction, and a transaction may wait for the *)
(* row lock: when the upsert runs, its now() can be older than the row's   *)
(* window_start.  Time is in ticks, a second has several of them: the      *)
(* Retry-After header is rounded to seconds, window_start is not.          *)
(***************************************************************************)
EXTENDS Integers, FiniteSets

CONSTANTS
  Clients,        \* browsers behind the address
  Limit,          \* login_rate_limit
  WindowSeconds,  \* login_rate_window_seconds
  Second,         \* ticks in a second
  NoBucket,       \* the address has no row
  MaxTime,        \* bound: ticks
  MaxWait         \* bound: ticks a statement waits for the row lock

ASSUME LimiterAssumption ==
  /\ Limit \in Nat \ {0} /\ WindowSeconds \in Nat \ {0}
  /\ Second \in Nat \ {0}
  /\ MaxTime \in Nat /\ MaxWait \in Nat
  /\ NoBucket \notin [start : Nat, attempts : Nat]

VARIABLES
  clock,    \* the time
  bucket,   \* the row of the address
  login,    \* the call each client has in flight
  signedIn, \* clients that hold a token
  checks,   \* history: password checks since the last success that are not
            \* older than a window
  waited,   \* history: an upsert ran later than its now()
  refused   \* history: the attempts refused in the window of the bucket

limiterVars ==
  <<clock, bucket, login, signedIn, checks, waited, refused>>

Window == WindowSeconds * Second

\* at: now() of the call's first transaction, the one of consume().
Idle == [stage |-> "idle", at |-> 0]

\* Of the refused attempts: the newest, and the earliest time that one of them
\* was told to come back at.
NoRefusal == [last |-> 0, until |-> 0]

LimiterInit ==
  /\ clock = 0
  /\ bucket = NoBucket
  /\ login = [c \in Clients |-> Idle]
  /\ signedIn = {}
  /\ checks = {}
  /\ waited = FALSE
  /\ refused = NoRefusal

\* Time goes on; no statement waits longer than MaxWait.
Tick ==
  /\ clock < MaxTime
  /\ \A c \in Clients : login[c].stage = "begun" => clock - login[c].at < MaxWait
  /\ clock' = clock + 1
  /\ checks' = {x \in checks : x.at > clock - Window}
  /\ UNCHANGED <<bucket, login, signedIn, waited, refused>>

\* The transaction of consume() begins; now() is fixed.
BeginLogin(c) ==
  /\ login[c].stage = "idle" /\ c \notin signedIn
  /\ login' = [login EXCEPT ![c] = [stage |-> "begun", at |-> clock]]
  /\ UNCHANGED <<clock, bucket, signedIn, checks, waited, refused>>

-----------------------------------------------------------------------------
(***************************************************************************)
(* The statement CONSUME                                                   *)
(***************************************************************************)
\* mutant: the window is over half a window too soon.
OverEarly(now) == bucket.start < now - Window \div 2

WindowOver(now) == bucket.start < now - Window

\* mutant: every attempt moves the window.
Sliding(now) ==
  IF bucket = NoBucket \/ WindowOver(now)
  THEN [start |-> now, attempts |-> 1]
  ELSE [start |-> now, attempts |-> bucket.attempts + 1]

Consumed(now) ==
  IF bucket = NoBucket \/ WindowOver(now)
  THEN [start |-> now, attempts |-> 1]
  ELSE [start |-> bucket.start, attempts |-> bucket.attempts + 1]

Rounded(ticks) == (2 * ticks + Second) \div (2 * Second)

\* EXTRACT(EPOCH ...)::int rounds, and the caller is told one second at least.
RetryAfterSeconds(row, now) ==
  LET left == Rounded(row.start + Window - now) IN
  IF left < 1 THEN 1 ELSE left

\* The counter is only compared with the limit: above it, it stays there.
Capped(row) ==
  [row EXCEPT !.attempts = IF @ > Limit THEN Limit + 1 ELSE @]

Refuse(now, retry) ==
  LET back == now + retry * Second IN
  [last |-> IF now > refused.last THEN now ELSE refused.last,
   until |-> IF refused.until = 0 \/ back < refused.until THEN back
             ELSE refused.until]

\* The next check of a password, numbered among those of this tick.
NewCheck == [at |-> clock, number |-> Cardinality({x \in checks : x.at = clock})]

\* consume(): the upsert, under the row lock, and its commit.
Consume(c) ==
  LET row == Consumed(login[c].at) IN
  /\ login[c].stage = "begun"
  /\ bucket' = Capped(row)
  /\ IF row.attempts <= Limit
     THEN /\ login' = [login EXCEPT ![c] = [stage |-> "allowed", at |-> 0]]
          /\ checks' = checks \cup {NewCheck}
          /\ refused' = IF row.attempts = 1 THEN NoRefusal ELSE refused
     ELSE /\ login' = [login EXCEPT ![c] = Idle]
          /\ refused' = Refuse(login[c].at, RetryAfterSeconds(row, login[c].at))
          /\ UNCHANGED checks
  /\ waited' = (waited \/ login[c].at < clock)
  /\ UNCHANGED <<clock, signedIn>>

\* authenticate() finds no user, a wrong password or an inactive account.
WrongPassword(c) ==
  /\ login[c].stage = "allowed"
  /\ login' = [login EXCEPT ![c] = Idle]
  /\ UNCHANGED <<clock, bucket, signedIn, checks, waited, refused>>

\* The password is right: reset() deletes the row, and a token is issued.
RightPassword(c) ==
  /\ login[c].stage = "allowed"
  /\ login' = [login EXCEPT ![c] = Idle]
  /\ signedIn' = signedIn \cup {c}
  /\ bucket' = NoBucket
  /\ checks' = {}
  /\ refused' = NoRefusal
  /\ UNCHANGED <<clock, waited>>

LimiterNext ==
  \/ Tick
  \/ \E c \in Clients :
       BeginLogin(c) \/ Consume(c) \/ WrongPassword(c) \/ RightPassword(c)
=============================================================================
