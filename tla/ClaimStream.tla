---------------------------- MODULE ClaimStream -----------------------------
(***************************************************************************)
(* The browser's live connection to the API                                *)
(* (frontend/.../core/claim-stream.service.ts) with the WebSockets it      *)
(* opens, the session it follows (core/auth/auth.service.ts) and, at the   *)
(* other end of each socket, the handshake of routers/stream.py.           *)
(*                                                                         *)
(* The browser runs one task at a time, so a handler is one step.  What is *)
(* asynchronous is between the handlers: the effect runs in a task after   *)
(* the one that changed the session, close() returns before the socket's   *)
(* close event, and a timer fires when it likes.  A login needs an answer  *)
(* of the server, which no effect is still waiting for by then.            *)
(***************************************************************************)
EXTENDS Integers, FiniteSets

CONSTANTS
  Sockets,    \* WebSocket objects; one that has had its close event is reused
  NoSocket,   \* null
  MaxLogins,  \* bound: sessions
  MaxDrops    \* bound: connections that break, or that the server breaks

ASSUME StreamAssumption ==
  /\ NoSocket \notin Sockets
  /\ MaxLogins \in Nat /\ MaxDrops \in Nat

VARIABLES
  token,      \* the session: "none", or a token the server takes or refuses
  followed,   \* what the effect last saw of isAuthenticated
  socket,     \* this.socket
  reconnect,  \* reconnectTimer is pending
  heartbeat,  \* heartbeatTimer is running
  attempt,    \* this.attempt is not 0
  deliberate, \* this.deliberateClose
  state,      \* the connection state the dashboard shows
  ready,      \* readyState of each socket; "unused" before and after its use
  handshake,  \* handshake[s]: the token sent, then the server's verdict
  logins,     \* bounds the sessions
  drops,      \* bounds the drops
  refused,    \* history: handshakes of the socket at hand refused in this session
  overtaken   \* history: a socket closed after a newer one had been opened

session == <<token, followed, logins>>
service == <<socket, reconnect, heartbeat, attempt, deliberate, state>>
network == <<ready, handshake, drops>>
history == <<refused, overtaken>>
vars == <<session, service, network, history>>

Init ==
  /\ token = "none" /\ followed = FALSE /\ logins = 0
  /\ socket = NoSocket /\ reconnect = FALSE /\ heartbeat = FALSE
  /\ attempt = FALSE /\ deliberate = FALSE /\ state = "idle"
  /\ ready = [s \in Sockets |-> "unused"]
  /\ handshake = [s \in Sockets |-> "none"]
  /\ drops = 0 /\ refused = 0 /\ overtaken = FALSE

isAuthenticated == token # "none"

\* A login, or a page that finds a token in the local storage; the stored one
\* may have expired.
Login ==
  /\ ~isAuthenticated /\ ~followed
  /\ logins < MaxLogins
  /\ token' \in {"valid", "expired"}
  /\ logins' = logins + 1
  /\ refused' = 0
  /\ UNCHANGED <<followed, service, network, overtaken>>

Expire ==
  /\ token = "valid"
  /\ token' = "expired"
  /\ UNCHANGED <<followed, logins, service, network, history>>

\* Sign out, or an answer 401 of the API.
Logout ==
  /\ isAuthenticated
  /\ token' = "none"
  /\ UNCHANGED <<followed, logins, service, network, history>>

-----------------------------------------------------------------------------
(***************************************************************************)
(* The service                                                             *)
(***************************************************************************)
\* connect(): nothing to do with a socket at hand or without a token.
Connect ==
  IF socket # NoSocket \/ ~isAuthenticated
  THEN UNCHANGED <<socket, deliberate, state, ready>>
  ELSE /\ deliberate' = FALSE
       /\ state' = IF attempt THEN "reconnecting" ELSE "connecting"
       /\ \E s \in Sockets :
            /\ ready[s] = "unused"
            /\ ready' = [ready EXCEPT ![s] = "connecting"]
            /\ socket' = s

\* mutant: disconnect() forgets the socket without closing it.
LeaveOpen == ready

\* mutant: disconnect() takes the socket for closed when close() returns.
ClosedAtOnce ==
  [s \in Sockets |-> IF s = socket THEN "unused" ELSE ready[s]]

CloseCurrent ==
  [s \in Sockets |-> IF s = socket THEN "closing" ELSE ready[s]]

Disconnect ==
  /\ deliberate' = TRUE
  /\ reconnect' = FALSE /\ heartbeat' = FALSE /\ attempt' = FALSE
  /\ ready' = CloseCurrent
  /\ socket' = NoSocket
  /\ state' = "idle"

\* The effect of the constructor follows the session.
FollowSession ==
  /\ followed # isAuthenticated
  /\ followed' = isAuthenticated
  /\ IF isAuthenticated
     THEN Connect /\ UNCHANGED <<reconnect, heartbeat, attempt>>
     ELSE Disconnect
  /\ UNCHANGED <<token, logins, handshake, drops, history>>

ReconnectTimer ==
  /\ reconnect
  /\ reconnect' = FALSE
  /\ Connect
  /\ UNCHANGED <<session, heartbeat, attempt, handshake, drops, history>>

\* socket.onopen: the token the session has now goes out as first message.
OnOpen(s) ==
  /\ ready[s] = "connecting"
  /\ ready' = [ready EXCEPT ![s] = "open"]
  /\ handshake' = [handshake EXCEPT ![s] = token]
  /\ attempt' = FALSE /\ heartbeat' = TRUE /\ state' = "open"
  /\ UNCHANGED <<session, socket, reconnect, deliberate, drops, history>>

\* mutant: a refused token does not stop the reconnecting.
StopWhenTold(code) == deliberate

\* mutant: the close event of a logout schedules a reconnect.
StopWhenRefused(code) == code = 4401

\* mutant: a connection that broke is given up.
StopWhenBroken(code) == deliberate \/ code \in {1006, 4401}

StayClosed(code) == deliberate \/ code = 4401

\* socket.onclose, whichever socket it is of.
OnClose(s, code) ==
  /\ ready' = [ready EXCEPT ![s] = "unused"]
  /\ handshake' = [handshake EXCEPT ![s] = "none"]
  /\ heartbeat' = FALSE
  /\ socket' = NoSocket
  /\ IF StayClosed(code)
     THEN state' = "idle" /\ UNCHANGED <<reconnect, attempt>>
     ELSE state' = "reconnecting" /\ reconnect' = TRUE /\ attempt' = TRUE
  /\ overtaken' = (overtaken \/ (socket # s /\ ~deliberate))
  /\ UNCHANGED <<session, deliberate>>

-----------------------------------------------------------------------------
(***************************************************************************)
(* The other end                                                           *)
(***************************************************************************)
\* _authenticate: the server takes the token, or closes with 4401.  It has
\* not read a close of the page yet, which comes after the token.
Authenticate(s) ==
  /\ ready[s] \in {"open", "closing"}
  /\ handshake[s] \in {"valid", "expired", "none"}
  /\ handshake' = [handshake EXCEPT ![s] =
                     IF @ = "valid" THEN "accepted" ELSE "refused"]
  /\ refused' = IF handshake[s] = "valid" \/ socket # s THEN refused ELSE refused + 1
  /\ UNCHANGED <<session, service, ready, drops, overtaken>>

\* The close event of a refused socket.
Refused(s) ==
  /\ handshake[s] = "refused"
  /\ OnClose(s, 4401)
  /\ UNCHANGED <<drops, refused>>

\* The close event after a close() of the page.
Closed(s) ==
  /\ ready[s] = "closing" /\ handshake[s] # "refused"
  /\ OnClose(s, 1005)
  /\ UNCHANGED <<drops, refused>>

\* The connection breaks, or cannot be made, or the server ends it.
Drop(s) ==
  /\ ready[s] \in {"connecting", "open"} /\ handshake[s] # "refused"
  /\ drops < MaxDrops
  /\ drops' = drops + 1
  /\ OnClose(s, 1006)
  /\ UNCHANGED refused

Browser ==
  \/ FollowSession \/ ReconnectTimer
  \/ \E s \in Sockets : OnOpen(s) \/ Authenticate(s) \/ Refused(s) \/ Closed(s)

Next ==
  \/ Login \/ Expire \/ Logout \/ Browser
  \/ \E s \in Sockets : Drop(s)

Spec == Init /\ [][Next]_vars

\* Tasks that are queued run, timers fire, and handshakes and closes end.
FairSpec ==
  /\ Spec
  /\ WF_vars(FollowSession) /\ WF_vars(ReconnectTimer)
  /\ \A s \in Sockets :
       WF_vars(OnOpen(s) \/ Authenticate(s) \/ Refused(s) \/ Closed(s))

-----------------------------------------------------------------------------
(***************************************************************************)
(* Properties                                                              *)
(***************************************************************************)
Live(s) == ready[s] \in {"connecting", "open"}

\* Type invariant; a verdict is only on an open socket or one being closed.
TypeOK ==
  /\ token \in {"none", "valid", "expired"}
  /\ {followed, reconnect, heartbeat, attempt, deliberate, overtaken} \subseteq BOOLEAN
  /\ socket \in Sockets \cup {NoSocket}
  /\ state \in {"idle", "connecting", "open", "reconnecting"}
  /\ ready \in [Sockets -> {"unused", "connecting", "open", "closing"}]
  /\ handshake \in
       [Sockets -> {"none", "valid", "expired", "accepted", "refused"}]
  /\ \A s \in Sockets : handshake[s] # "none" => ready[s] \in {"open", "closing"}
  /\ logins \in 0..MaxLogins /\ drops \in 0..MaxDrops /\ refused \in Nat

\* claim-stream.service.ts:44-46: one socket, and none without a session,
\* unless the close event of an older socket came after it was opened.
OneSocket ==
  ~overtaken =>
    /\ \A s \in Sockets : Live(s) => s = socket
    /\ ~isAuthenticated /\ ~followed => socket = NoSocket

\* isLive and the heartbeat tell the truth: unless a close event was
\* overtaken, "open" is shown, and the heartbeat runs, exactly while the
\* socket at hand is open, and a reconnect is pending only without one.
StateIsTrue ==
  ~overtaken =>
    LET up == socket # NoSocket /\ ready[socket] = "open" IN
    /\ (state = "open") = up
    /\ heartbeat = up
    /\ reconnect => socket = NoSocket /\ state = "reconnecting"

\* claim-stream.service.ts:93-95: "Reconnecting with the same token would
\* loop forever": a session is refused once and not tried again.
RefusedOnce == ~overtaken => refused <= 1

\* A session whose token the server takes has an open connection in the end,
\* whatever broke before, unless it ends or a close event is overtaken.
ComesBack ==
  token = "valid" ~> state = "open" \/ token # "valid" \/ overtaken

-----------------------------------------------------------------------------
(***************************************************************************)
(* What the documentation says and the code does not keep                  *)
(***************************************************************************)
\* claim-stream.service.ts:44-46: "Without this the socket would outlive the
\* session and keep pushing claim data to a signed-out browser": once the
\* effect has seen the logout no socket is live.
NoneOutlivesSession ==
  ~isAuthenticated /\ ~followed => \A s \in Sockets : ~Live(s)
=============================================================================
