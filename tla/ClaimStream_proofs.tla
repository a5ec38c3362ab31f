------------------------- MODULE ClaimStream_proofs -------------------------
(***************************************************************************)
(* Proofs about ClaimStream, for any number of sockets, sessions and       *)
(* broken connections.                                                     *)
(*                                                                         *)
(* That a close event is ignored rests on deliberate: the flag is set only *)
(* when the service has let go of its socket and of its timer (FlagInv).   *)
(* Then, unless a close event is overtaken, the one live socket is the one *)
(* at hand (OneInv), what is shown follows it (StateIsTrue), and a refused *)
(* handshake leaves nothing that could try again (RefusedInv).             *)
(***************************************************************************)
EXTENDS ClaimStream, TLAPS

FlagInv ==
  /\ deliberate => socket = NoSocket /\ ~reconnect
  /\ ~followed => /\ socket = NoSocket /\ ~reconnect
                  /\ deliberate \/ \A s \in Sockets : ready[s] = "unused"

OneInv == ~overtaken => \A s \in Sockets : Live(s) => s = socket

RefusedInv ==
  ~overtaken /\ refused # 0 =>
    /\ refused = 1
    /\ \/ socket # NoSocket /\ handshake[socket] = "refused"
       \/ socket = NoSocket /\ ~reconnect /\ (followed \/ ~isAuthenticated)

Up == socket # NoSocket /\ ready[socket] = "open"

\* StateIsTrue, with equivalences for the equalities of Booleans.
ShownInv ==
  ~overtaken =>
    /\ state = "open" <=> Up
    /\ heartbeat <=> Up
    /\ reconnect => socket = NoSocket /\ state = "reconnecting"

StreamInv == TypeOK /\ FlagInv /\ OneInv /\ ShownInv /\ RefusedInv

LEMMA StreamImplies ==
  StreamInv => TypeOK /\ OneSocket /\ StateIsTrue /\ RefusedOnce
<1> SUFFICES ASSUME StreamInv
             PROVE  TypeOK /\ OneSocket /\ StateIsTrue /\ RefusedOnce
  OBVIOUS
<1>1. TypeOK /\ OneSocket
  BY DEF StreamInv, OneSocket, OneInv, FlagInv
<1>2. RefusedOnce
  BY DEF StreamInv, RefusedOnce, RefusedInv, TypeOK
<1>3. heartbeat \in BOOLEAN
  BY DEF StreamInv, TypeOK
<1>4. StateIsTrue
  BY <1>3, Zenon DEF StreamInv, StateIsTrue, ShownInv, Up
<1> QED BY <1>1, <1>2, <1>4

LEMMA InitStream == Init => StreamInv
<1> SUFFICES ASSUME Init PROVE StreamInv
  OBVIOUS
<1>1. TypeOK
  <2>1. {followed, reconnect, heartbeat, attempt, deliberate, overtaken} \subseteq BOOLEAN
    BY DEF Init
  <2>2. /\ ready \in [Sockets -> {"unused", "connecting", "open", "closing"}]
        /\ handshake \in [Sockets -> {"none", "valid", "expired", "accepted", "refused"}]
        /\ \A s \in Sockets : handshake[s] = "none"
    BY DEF Init
  <2>3. logins \in 0..MaxLogins /\ drops \in 0..MaxDrops /\ refused \in Nat
    BY StreamAssumption DEF Init
  <2>4. /\ token \in {"none", "valid", "expired"} /\ socket = NoSocket
        /\ state \in {"idle", "connecting", "open", "reconnecting"}
    BY DEF Init
  <2> QED BY <2>1, <2>2, <2>3, <2>4 DEF TypeOK
<1>2. FlagInv /\ OneInv
  BY DEF Init, FlagInv, OneInv, Live
<1>3. ShownInv /\ RefusedInv
  BY DEF Init, ShownInv, Up, RefusedInv
<1> QED BY <1>1, <1>2, <1>3 DEF StreamInv

-----------------------------------------------------------------------------
(***************************************************************************)
(* The session                                                             *)
(***************************************************************************)
LEMMA SessionStep ==
  ASSUME StreamInv, Login \/ Expire \/ Logout
  PROVE  StreamInv'
<1>1. /\ token' \in {"none", "valid", "expired"} /\ logins' \in 0..MaxLogins
      /\ refused' \in Nat
      /\ refused' = refused \/ refused' = 0
      /\ refused' # 0 => (~isAuthenticated)' \/ (isAuthenticated /\ isAuthenticated')
      /\ UNCHANGED <<followed, service, network, overtaken>>
  BY StreamAssumption DEF StreamInv, TypeOK, Login, Expire, Logout, history,
     isAuthenticated
<1>2. TypeOK'
  BY <1>1 DEF StreamInv, TypeOK, service, network
<1>3. FlagInv' /\ OneInv'
  BY <1>1 DEF StreamInv, FlagInv, OneInv, Live, service, network
<1>4. ShownInv'
  BY <1>1 DEF StreamInv, ShownInv, Up, service, network
<1>5. RefusedInv'
  BY <1>1 DEF StreamInv, RefusedInv, service, network
<1> QED BY <1>2, <1>3, <1>4, <1>5 DEF StreamInv

-----------------------------------------------------------------------------
(***************************************************************************)
(* The service                                                             *)
(***************************************************************************)
\* A new socket, or none.
LEMMA ConnectDoes ==
  ASSUME TypeOK, Connect
  PROVE  \/ /\ socket # NoSocket \/ ~isAuthenticated
            /\ UNCHANGED <<socket, deliberate, state, ready>>
         \/ /\ socket = NoSocket /\ isAuthenticated /\ ~deliberate'
            /\ deliberate' \in BOOLEAN
            /\ state' \in {"connecting", "reconnecting"}
            /\ socket' \in Sockets /\ socket' # NoSocket
            /\ ready[socket'] = "unused" /\ ready'[socket'] = "connecting"
            /\ ready' \in [Sockets -> {"unused", "connecting", "open", "closing"}]
            /\ \A s \in Sockets \ {socket'} : ready'[s] = ready[s]
BY StreamAssumption DEF Connect, TypeOK

\* The two that connect: a timer that fires, the effect after a login.
LEMMA ConnectStep ==
  ASSUME StreamInv, Connect, ~reconnect', reconnect' \in BOOLEAN,
         \/ reconnect /\ followed' = followed
         \/ ~followed /\ isAuthenticated /\ followed' = TRUE,
         UNCHANGED <<token, logins, heartbeat, attempt, handshake, drops, history>>
  PROVE  StreamInv'
<1>1. TypeOK /\ FlagInv /\ OneInv /\ ShownInv /\ RefusedInv
  BY DEF StreamInv
<1>2. followed' /\ followed' \in BOOLEAN
  BY <1>1 DEF FlagInv, TypeOK
<1>3. ~overtaken => refused = 0
  BY <1>1 DEF RefusedInv, ShownInv, FlagInv
<1>4. CASE UNCHANGED <<socket, deliberate, state, ready>>
  <2>1. TypeOK'
    BY <1>1, <1>2, <1>4 DEF TypeOK, history
  <2>2. FlagInv' /\ OneInv'
    BY <1>1, <1>2, <1>4 DEF FlagInv, OneInv, Live, history
  <2>3. ShownInv' /\ RefusedInv'
    BY <1>1, <1>3, <1>4 DEF ShownInv, Up, RefusedInv, history
  <2> QED BY <2>1, <2>2, <2>3 DEF StreamInv
<1>5. CASE /\ socket = NoSocket /\ isAuthenticated /\ ~deliberate'
           /\ deliberate' \in BOOLEAN
           /\ state' \in {"connecting", "reconnecting"}
           /\ socket' \in Sockets /\ socket' # NoSocket
           /\ ready[socket'] = "unused" /\ ready'[socket'] = "connecting"
           /\ ready' \in [Sockets -> {"unused", "connecting", "open", "closing"}]
           /\ \A s \in Sockets \ {socket'} : ready'[s] = ready[s]
  <2>1. TypeOK'
    <3>1. \A s \in Sockets : handshake[s] # "none" => ready'[s] \in {"open", "closing"}
      BY <1>1, <1>5 DEF TypeOK
    <3> QED BY <1>1, <1>2, <1>5, <3>1 DEF TypeOK, history
  <2>2. FlagInv'
    BY <1>2, <1>5 DEF FlagInv
  <2>3. OneInv'
    BY <1>1, <1>5, StreamAssumption DEF OneInv, Live, history
  <2>4. ShownInv'
    BY <1>1, <1>5 DEF ShownInv, Up, history
  <2>5. RefusedInv'
    BY <1>3 DEF RefusedInv, history
  <2> QED BY <2>1, <2>2, <2>3, <2>4, <2>5 DEF StreamInv
<1> QED BY <1>1, <1>4, <1>5, ConnectDoes

LEMMA DisconnectStep ==
  ASSUME StreamInv, Disconnect, followed' = FALSE, ~isAuthenticated,
         UNCHANGED <<token, logins, handshake, drops, history>>
  PROVE  StreamInv'
<1>1. TypeOK /\ FlagInv /\ OneInv /\ ShownInv /\ RefusedInv
  BY DEF StreamInv
<1>2. /\ deliberate' = TRUE /\ reconnect' = FALSE /\ heartbeat' = FALSE
      /\ attempt' = FALSE /\ socket' = NoSocket /\ state' = "idle"
      /\ ready' \in [Sockets -> {"unused", "connecting", "open", "closing"}]
      /\ \A s \in Sockets : ready'[s] = IF s = socket THEN "closing" ELSE ready[s]
  BY <1>1 DEF Disconnect, CloseCurrent, TypeOK
<1>3. TypeOK'
  <2>1. \A s \in Sockets : handshake[s] # "none" => ready'[s] \in {"open", "closing"}
    BY <1>1, <1>2 DEF TypeOK
  <2> QED BY <1>1, <1>2, <2>1 DEF TypeOK, history
<1>4. FlagInv' /\ OneInv'
  BY <1>1, <1>2 DEF FlagInv, OneInv, Live, history
<1>5. ShownInv'
  BY <1>2 DEF ShownInv, Up
<1>6. RefusedInv'
  BY <1>1, <1>2 DEF RefusedInv, history, isAuthenticated
<1> QED BY <1>3, <1>4, <1>5, <1>6 DEF StreamInv

LEMMA OnOpenStep ==
  ASSUME StreamInv, NEW s \in Sockets, OnOpen(s)
  PROVE  StreamInv'
<1>1. TypeOK /\ FlagInv /\ OneInv /\ ShownInv /\ RefusedInv
  BY DEF StreamInv
<1>2. /\ ready[s] = "connecting" /\ ready'[s] = "open" /\ handshake'[s] = token
      /\ \A t \in Sockets \ {s} : ready'[t] = ready[t] /\ handshake'[t] = handshake[t]
      /\ ready' \in [Sockets -> {"unused", "connecting", "open", "closing"}]
      /\ handshake' \in [Sockets -> {"none", "valid", "expired", "accepted", "refused"}]
      /\ attempt' = FALSE /\ heartbeat' = TRUE /\ state' = "open"
      /\ UNCHANGED <<session, socket, reconnect, deliberate, drops, history>>
  BY <1>1 DEF OnOpen, TypeOK
<1>3. TypeOK'
  <2>1. \A t \in Sockets : handshake'[t] # "none" => ready'[t] \in {"open", "closing"}
    BY <1>1, <1>2 DEF TypeOK
  <2> QED BY <1>1, <1>2, <2>1 DEF TypeOK, session, history
<1>4. FlagInv' /\ OneInv'
  BY <1>1, <1>2 DEF FlagInv, OneInv, Live, session, history
<1>5. ~overtaken => s = socket /\ socket # NoSocket
  BY <1>1, <1>2, StreamAssumption DEF OneInv, Live
<1>6. ShownInv'
  BY <1>1, <1>2, <1>5 DEF ShownInv, Up, history
<1>7. RefusedInv'
  <2>1. handshake[s] = "none"
    BY <1>1, <1>2 DEF TypeOK
  <2> QED BY <1>1, <1>2, <1>5, <2>1 DEF RefusedInv, session, history, isAuthenticated
<1> QED BY <1>3, <1>4, <1>6, <1>7 DEF StreamInv

-----------------------------------------------------------------------------
(***************************************************************************)
(* The other end                                                           *)
(***************************************************************************)
LEMMA AuthenticateStep ==
  ASSUME StreamInv, NEW s \in Sockets, Authenticate(s)
  PROVE  StreamInv'
<1>1. TypeOK /\ FlagInv /\ OneInv /\ ShownInv /\ RefusedInv
  BY DEF StreamInv
<1>2. /\ ready[s] \in {"open", "closing"}
      /\ handshake[s] \in {"valid", "expired", "none"}
      /\ handshake'[s] \in {"accepted", "refused"}
      /\ \A t \in Sockets \ {s} : handshake'[t] = handshake[t]
      /\ handshake' \in [Sockets -> {"none", "valid", "expired", "accepted", "refused"}]
      /\ handshake'[s] = "accepted" <=> handshake[s] = "valid"
      /\ refused' = IF handshake[s] = "valid" \/ socket # s THEN refused ELSE refused + 1
      /\ UNCHANGED <<session, service, ready, drops, overtaken>>
  BY <1>1 DEF Authenticate, TypeOK
<1>3. refused' \in Nat
  BY <1>1, <1>2 DEF TypeOK
<1>4. TypeOK'
  <2>1. \A t \in Sockets : handshake'[t] # "none" => ready'[t] \in {"open", "closing"}
    BY <1>1, <1>2 DEF TypeOK
  <2> QED BY <1>1, <1>2, <1>3, <2>1 DEF TypeOK, session, service
<1>5. FlagInv' /\ OneInv' /\ ShownInv'
  BY <1>1, <1>2 DEF FlagInv, OneInv, ShownInv, Up, Live, session, service
<1>6. RefusedInv'
  <2> SUFFICES ASSUME ~overtaken, refused' # 0 PROVE RefusedInv'
    BY <1>2 DEF RefusedInv
  <2>1. CASE handshake[s] = "valid" \/ socket # s
    <3>1. refused' = refused /\ refused # 0
      BY <1>2, <2>1
    <3>2. socket # NoSocket /\ handshake[socket] = "refused" => socket # s
      BY <1>2
    <3> QED BY <1>1, <1>2, <3>1, <3>2, StreamAssumption
            DEF RefusedInv, TypeOK, session, service, isAuthenticated
  <2>2. CASE ~(handshake[s] = "valid" \/ socket # s)
    <3>1. refused = 0
      BY <1>1, <1>2, <2>2, StreamAssumption DEF RefusedInv
    <3>2. refused' = 1 /\ socket' = s /\ handshake'[s] = "refused"
      BY <1>2, <2>2, <3>1 DEF service
    <3> QED BY <3>2, StreamAssumption DEF RefusedInv
  <2> QED BY <2>1, <2>2
<1> QED BY <1>4, <1>5, <1>6 DEF StreamInv

LEMMA OvertakenOr ==
  ASSUME NEW s, overtaken \in BOOLEAN,
         overtaken' = (overtaken \/ (socket # s /\ ~deliberate))
  PROVE  /\ overtaken' \in BOOLEAN
         /\ ~overtaken' => ~overtaken /\ (socket = s \/ deliberate)
BY Zenon

LEMMA FlagsKept ==
  ASSUME {followed, reconnect, heartbeat, attempt, deliberate, overtaken} \subseteq BOOLEAN,
         followed' = followed, deliberate' = deliberate, heartbeat' = FALSE,
         \/ reconnect' = reconnect /\ attempt' = attempt
         \/ reconnect' = TRUE /\ attempt' = TRUE,
         overtaken' \in BOOLEAN
  PROVE  {followed, reconnect, heartbeat, attempt, deliberate, overtaken}'
           \subseteq BOOLEAN
OBVIOUS

LEMMA OnCloseTypes ==
  ASSUME TypeOK, NEW s \in Sockets, NEW code, OnClose(s, code),
         refused' = refused, drops' \in 0..MaxDrops
  PROVE  TypeOK'
<1>1. {followed, reconnect, heartbeat, attempt, deliberate, overtaken} \subseteq BOOLEAN
  BY DEF TypeOK
<1>2. followed' = followed /\ deliberate' = deliberate /\ heartbeat' = FALSE
  BY DEF OnClose, session
<1>3. \/ reconnect' = reconnect /\ attempt' = attempt
      \/ reconnect' = TRUE /\ attempt' = TRUE
  BY DEF OnClose
<1>4. overtaken' \in BOOLEAN
  <2>1. overtaken' = (overtaken \/ (socket # s /\ ~deliberate))
    BY DEF OnClose
  <2>2. overtaken \in BOOLEAN
    BY DEF TypeOK
  <2> QED BY <2>1, <2>2, OvertakenOr
<1>5. {followed, reconnect, heartbeat, attempt, deliberate, overtaken}'
        \subseteq BOOLEAN
  BY <1>1, <1>2, <1>3, <1>4, FlagsKept
<1>6. state' \in {"idle", "connecting", "open", "reconnecting"}
  BY DEF OnClose
<1>7. UNCHANGED <<token, logins>> /\ socket' = NoSocket
  BY DEF OnClose, session
<1>8. /\ ready' \in [Sockets -> {"unused", "connecting", "open", "closing"}]
      /\ handshake' \in [Sockets -> {"none", "valid", "expired", "accepted", "refused"}]
      /\ \A t \in Sockets : handshake'[t] # "none" => ready'[t] \in {"open", "closing"}
  BY DEF OnClose, TypeOK
<1> QED BY <1>5, <1>6, <1>7, <1>8 DEF TypeOK

\* A close event: of the socket at hand, or of an older one, which is then
\* ignored or counted as overtaken.
LEMMA OnCloseStep ==
  ASSUME StreamInv, NEW s \in Sockets, NEW code \in {1005, 1006, 4401},
         OnClose(s, code), refused' = refused, drops' \in 0..MaxDrops,
         handshake[s] = "refused" => code = 4401, ready[s] # "unused"
  PROVE  StreamInv'
<1>1. TypeOK /\ FlagInv /\ OneInv /\ ShownInv /\ RefusedInv
  BY DEF StreamInv
<1>2. /\ ready'[s] = "unused" /\ handshake'[s] = "none"
      /\ \A t \in Sockets \ {s} : ready'[t] = ready[t] /\ handshake'[t] = handshake[t]
      /\ ready' \in [Sockets -> {"unused", "connecting", "open", "closing"}]
      /\ handshake' \in [Sockets -> {"none", "valid", "expired", "accepted", "refused"}]
      /\ heartbeat' = FALSE /\ socket' = NoSocket
      /\ UNCHANGED <<session, deliberate>>
  BY <1>1 DEF OnClose, TypeOK
<1>3. \/ /\ deliberate \/ code = 4401
         /\ state' = "idle" /\ UNCHANGED <<reconnect, attempt>>
      \/ /\ ~deliberate /\ code # 4401
         /\ state' = "reconnecting" /\ reconnect' = TRUE /\ attempt' = TRUE
  BY DEF OnClose, StayClosed
<1>4. /\ overtaken' \in BOOLEAN
      /\ ~overtaken' => ~overtaken /\ (socket = s \/ deliberate)
  <2>1. overtaken \in BOOLEAN
    BY <1>1 DEF TypeOK
  <2>2. overtaken' = (overtaken \/ (socket # s /\ ~deliberate))
    BY DEF OnClose
  <2> QED BY <2>1, <2>2, OvertakenOr
<1>5. TypeOK'
  BY <1>1, OnCloseTypes
<1>6. FlagInv'
  BY <1>1, <1>2, <1>3 DEF FlagInv, session
<1>7. OneInv'
  BY <1>1, <1>2, <1>4 DEF OneInv, Live, FlagInv
<1>8. ShownInv'
  BY <1>1, <1>2, <1>3, <1>4, StreamAssumption DEF ShownInv, Up, FlagInv
<1>9. RefusedInv'
  BY <1>1, <1>2, <1>3, <1>4, StreamAssumption
     DEF RefusedInv, FlagInv, ShownInv, session, isAuthenticated
<1> QED BY <1>5, <1>6, <1>7, <1>8, <1>9 DEF StreamInv

-----------------------------------------------------------------------------
(***************************************************************************)
(* Theorems                                                                *)
(***************************************************************************)
LEMMA NextStream == StreamInv /\ [Next]_vars => StreamInv'
<1> SUFFICES ASSUME StreamInv, [Next]_vars PROVE StreamInv'
  OBVIOUS
<1>1. CASE FollowSession
  <2>1. CASE isAuthenticated
    BY <1>1, <2>1, ConnectStep DEF FollowSession, StreamInv, TypeOK, FlagInv
  <2>2. CASE ~isAuthenticated
    BY <1>1, <2>2, DisconnectStep DEF FollowSession, isAuthenticated
  <2> QED BY <2>1, <2>2
<1>2. CASE ReconnectTimer
  BY <1>2, ConnectStep DEF ReconnectTimer, session
<1>3. ASSUME NEW s \in Sockets, Refused(s) PROVE StreamInv'
  BY <1>3, OnCloseStep DEF Refused, StreamInv, TypeOK
<1>4. ASSUME NEW s \in Sockets, Closed(s) PROVE StreamInv'
  BY <1>4, OnCloseStep DEF Closed, StreamInv, TypeOK
<1>5. ASSUME NEW s \in Sockets, Drop(s) PROVE StreamInv'
  <2>1. drops' \in 0..MaxDrops
    BY <1>5, StreamAssumption DEF Drop, StreamInv, TypeOK
  <2> QED BY <1>5, <2>1, OnCloseStep DEF Drop
<1>6. CASE UNCHANGED vars
  BY <1>6 DEF vars, session, service, network, history, StreamInv, TypeOK,
     FlagInv, OneInv, Live, ShownInv, Up, RefusedInv, isAuthenticated
<1> QED BY <1>1, <1>2, <1>3, <1>4, <1>5, <1>6, SessionStep, OnOpenStep,
           AuthenticateStep DEF Next, Browser

LEMMA StreamSound == Spec => []StreamInv
BY InitStream, NextStream, PTL DEF Spec

\* The types hold, and a verdict is only on a socket that was opened.
THEOREM TypeCorrect == Spec => []TypeOK
BY StreamSound, StreamImplies, PTL

\* Unless a close event is overtaken by the next login, at most the socket at
\* hand is live, and none once the effect has seen the logout.
THEOREM OneSocketKept == Spec => []OneSocket
BY StreamSound, StreamImplies, PTL

\* Then the state shown, the heartbeat and the timer agree with the socket.
THEOREM StateShownIsTrue == Spec => []StateIsTrue
BY StreamSound, StreamImplies, PTL

\* Then a session that the server has refused is not tried again.
THEOREM RefusedOnceKept == Spec => []RefusedOnce
BY StreamSound, StreamImplies, PTL
=============================================================================
