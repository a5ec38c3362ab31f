----------------------------- MODULE WsManager ------------------------------
(***************************************************************************)
(* The live connections of one claims-api replica (app/ws/manager.py) and  *)
(* the coroutines that serve them (app/routers/stream.py).                 *)
(*                                                                         *)
(* The lock of the manager is never held across an await, so register,     *)
(* unregister and the snapshot of a broadcast are one step each.  The      *)
(* sends of a broadcast are awaited one after the other, and anything can  *)
(* happen in between.  A stream keeps the session of its user lookup, and  *)
(* with it a connection of the database pool, as long as it is served.     *)
(***************************************************************************)
EXTENDS Integers, Sequences, FiniteSets

CONSTANTS
  Sockets,   \* WebSockets; one that is forgotten on both ends is used again
  PoolSize   \* connections of the SQLAlchemy engine, overflow included

ASSUME ManagerAssumption ==
  IsFiniteSet(Sockets) /\ PoolSize \in Nat \ {0}

VARIABLES
  up,          \* sockets the browser has open
  stage,       \* the coroutine claims_stream of each socket
  connections, \* manager._connections
  gauge,       \* the metric websocket_connections
  cast,        \* the broadcast in progress
  leaked       \* history: a greeting raised; the gauge has counted the
               \* connection that stayed behind and not been set since it went

managerVars == <<up, stage, connections, gauge, cast, leaked>>

\* open: a message is being sent; to: targets still to be sent to; dead: those
\* whose send raised.
NoCast == [open |-> FALSE, to |-> {}, dead |-> {}]

\* The sockets of open are being served already.
ManagerInit(open) ==
  /\ up = open /\ connections = open /\ gauge = Cardinality(open)
  /\ stage = [s \in Sockets |-> IF s \in open THEN "serving" ELSE "none"]
  /\ cast = NoCast
  /\ leaked = FALSE

Serving == {s \in Sockets : stage[s] = "serving"}

\* Connections left behind by a coroutine that has ended.
Ghosts == {s \in connections : stage[s] = "none"}

Forgotten(s) ==
  /\ s \notin up \cup connections \cup cast.to \cup cast.dead
  /\ stage[s] = "none"

\* new WebSocket, accept(); _authenticate waits for the token.
Open(s) ==
  /\ Forgotten(s)
  /\ up' = up \cup {s}
  /\ stage' = [stage EXCEPT ![s] = "handshake"]
  /\ UNCHANGED <<connections, gauge, cast, leaked>>

\* Both register and unregister end by setting the gauge.
SetGauge(registered) ==
  /\ connections' = registered
  /\ gauge' = Cardinality(registered)

\* _authenticate looks the user up, register() adds the connection, and the
\* greeting goes out: to a browser that has left it is lost or raises, outside
\* of the try whose finally would unregister.
Register(s) ==
  /\ stage[s] = "handshake"
  /\ SetGauge(connections \cup {s})
  /\ \/ /\ stage' = [stage EXCEPT ![s] = "serving"]
        /\ leaked' = (leaked /\ Ghosts # {})
     \/ /\ s \notin up
        /\ stage' = [stage EXCEPT ![s] = "none"]
        /\ leaked' = TRUE
  /\ UNCHANGED <<up, cast>>

\* The handshake fails: the browser has left, or the user lookup got no
\* connection of the pool in time.
EndHandshake(s) ==
  /\ stage[s] = "handshake"
  /\ stage' = [stage EXCEPT ![s] = "none"]
  /\ up' = up \ {s}
  /\ UNCHANGED <<connections, gauge, cast, leaked>>

\* The browser closes the socket or the network breaks; the server does not
\* know yet.  A message lost on the way is one sent after the break.
Break(s) ==
  /\ s \in up
  /\ up' = up \ {s}
  /\ UNCHANGED <<stage, connections, gauge, cast, leaked>>

\* mutant: a connection that a broadcast has pruned is not counted again.
UnregisterKnown(s) ==
  /\ stage[s] = "serving" /\ s \notin up
  /\ stage' = [stage EXCEPT ![s] = "none"]
  /\ connections' = connections \ {s}
  /\ gauge' = IF s \in connections THEN Cardinality(connections \ {s}) ELSE gauge
  /\ leaked' = (leaked /\ Ghosts # {})
  /\ UNCHANGED <<up, cast>>

\* receive_text raises WebSocketDisconnect: finally, unregister().
Unregister(s) ==
  /\ stage[s] = "serving" /\ s \notin up
  /\ stage' = [stage EXCEPT ![s] = "none"]
  /\ SetGauge(connections \ {s})
  /\ leaked' = (leaked /\ Ghosts # {})
  /\ UNCHANGED <<up, cast>>

-----------------------------------------------------------------------------
(***************************************************************************)
(* broadcast()                                                             *)
(***************************************************************************)
\* The snapshot of the connections, under the lock.
Snapshot ==
  /\ cast = NoCast
  /\ cast' = [open |-> TRUE, to |-> connections, dead |-> {}]
  /\ UNCHANGED <<up, stage, connections, gauge, leaked>>

\* mutant: the first send that raises ends the loop.
AbortLoop(s) == [cast EXCEPT !.to = {}, !.dead = @ \cup {s}]

SendRaised(s) == [cast EXCEPT !.to = @ \ {s}, !.dead = @ \cup {s}]

\* await send_json: a socket that broke swallows the message or raises.
SendTo(s) ==
  /\ cast.open /\ s \in cast.to
  /\ \/ cast' = [cast EXCEPT !.to = @ \ {s}]
     \/ s \notin up /\ cast' = SendRaised(s)
  /\ UNCHANGED <<up, stage, connections, gauge, leaked>>

\* mutant: pruning forgets everybody.
PruneAll == {}

Pruned == connections \ cast.dead

\* The end of the loop: the dead are pruned, and the gauge is not set.
EndCast ==
  /\ cast.open /\ cast.to = {}
  /\ connections' = Pruned
  /\ cast' = NoCast
  /\ UNCHANGED <<up, stage, gauge, leaked>>
=============================================================================
