------------------------------- MODULE WsClient -------------------------------
(***************************************************************************)
(* The agent's WebSocket client, lib/websocket/client.ts, with its         *)
(* heartbeat and its reconnect manager, and what lib/websocket.ts does to  *)
(* it: the first connect(), the disconnect() with a later connect() after  *)
(* each change of credentials, and the shutdown.                           *)
(*                                                                         *)
(* Delays are not modelled: a timer that is armed may fire at any time.    *)
(* The configuration is complete whenever it is read.                      *)
(***************************************************************************)
EXTENDS Integers, FiniteSets

CONSTANTS
  Sockets,       \* WebSocket objects; one that is closed may stand for a new one
  None,          \* null
  Subscribed,    \* managedKeyNames is not empty
  MaxFaults,     \* bound: failed handshakes, closed and silent connections
  MaxKeyChanges  \* bound: changes of credentials

ASSUME SocketAssumption ==
  /\ None \notin Sockets /\ IsFiniteSet(Sockets)
  /\ Cardinality(Sockets) > MaxFaults
ASSUME BoundAssumption == {MaxFaults, MaxKeyChanges} \subseteq Nat
ASSUME ModeAssumption == Subscribed \in BOOLEAN

VARIABLES
  started,        \* startDaemon has called connect()
  isShuttingDown, \* isShuttingDown
  alive,          \* the agent's process
  deploying,      \* activeDeployments > 0
  ws,             \* ws
  phase,          \* readyState of each socket; a "silent" one is OPEN with a dead peer
  attached,       \* sockets whose events reach the client
  heart,          \* the socket of the heartbeat's interval
  enabled,        \* shouldReconnect
  timer,          \* reconnectTimer is armed
  recovering,     \* calls of handleAuthFailureRecovery() in flight
  pending,        \* connect() calls due 500 ms after a change of credentials
  status,         \* setWebSocketStatus
  faults, keyChanges, \* what has been used of the two bounds
  replaced        \* history: connect() has replaced a socket that was closing

socketVars == <<ws, phase, attached>>
budgetVars == <<faults, keyChanges>>
vars == <<started, isShuttingDown, alive, deploying, socketVars, heart, enabled, timer,
          recovering, pending, status, budgetVars, replaced>>

Running   == started /\ alive /\ ~isShuttingDown
Is(s, ph) == s # None /\ phase[s] \in ph
Open      == {"open", "silent"}
Connected == Is(ws, {"open"})

Init ==
  /\ started = FALSE /\ isShuttingDown = FALSE /\ alive = TRUE /\ deploying = FALSE
  /\ ws = None /\ phase = [s \in Sockets |-> "closed"] /\ attached = {}
  /\ heart = None /\ enabled = TRUE /\ timer = FALSE
  /\ recovering = 0 /\ pending = 0 /\ status = FALSE
  /\ faults = 0 /\ keyChanges = 0 /\ replaced = FALSE

Fault == faults < MaxFaults /\ faults' = faults + 1 /\ UNCHANGED keyChanges
-----------------------------------------------------------------------------
(* ReconnectManager.schedule: one timer, replaced by every call. *)
Armed_IfDown(t) == t \/ (enabled /\ ~isShuttingDown /\ ~status)         \* mutant
Armed(t) == t \/ (enabled /\ ~isShuttingDown)

(* connect() goes on only without a socket that is open or opening. *)
InUse_IfOpen == Is(ws, Open)                                          \* mutant
InUse == Is(ws, Open \cup {"connecting"})

Unused == {s \in Sockets : phase[s] = "closed" /\ s \notin {ws, heart}}

(* connect(). *)
Connect ==
  \/ /\ isShuttingDown \/ InUse
     /\ enabled' = (enabled \/ ~isShuttingDown)
     /\ UNCHANGED <<socketVars, budgetVars, replaced>>
  \/ /\ ~isShuttingDown /\ ~InUse
     /\ enabled' = TRUE
     /\ \E s \in Unused :
          /\ ws' = s
          /\ phase' = [phase EXCEPT ![s] = "connecting"]
          /\ attached' = attached \cup {s}
     /\ replaced' = (replaced \/ Is(ws, {"closing"}))
     /\ UNCHANGED budgetVars

(* connect() when the socket cannot be made. *)
ConnectThrows ==
  /\ ~isShuttingDown /\ ~InUse /\ Fault
  /\ enabled' = TRUE /\ timer' = TRUE
  /\ UNCHANGED <<socketVars, replaced>>

(* disconnect().  The WebSocket library reports close() on a socket that is still
   connecting as an 'error' event; its listener has just been removed, which ends
   the process. *)
Disconnect ==
  /\ heart' = None /\ status' = FALSE /\ enabled' = FALSE /\ timer' = FALSE
  /\ ws' = None /\ attached' = attached \ {ws}
  /\ phase' = [s \in Sockets |-> IF s = ws THEN "closed" ELSE phase[s]]
  /\ alive' = ~Is(ws, {"connecting"})
-----------------------------------------------------------------------------
(* startDaemon connects. *)
Start ==
  /\ alive /\ ~started /\ started' = TRUE
  /\ \/ Connect /\ UNCHANGED timer
     \/ ConnectThrows
  /\ UNCHANGED <<isShuttingDown, alive, deploying, heart, recovering, pending, status>>

(* The callbacks of startDaemon for a changed managed key and for credentials from a
   reprovisioning. *)
KeyChanged ==
  /\ alive /\ ~isShuttingDown /\ keyChanges < MaxKeyChanges
  /\ keyChanges' = keyChanges + 1
  /\ Disconnect /\ pending' = pending + 1
  /\ UNCHANGED <<started, isShuttingDown, deploying, recovering, faults, replaced>>

(* ... and their connect(), 500 ms later. *)
ConnectDue == pending > 0
ConnectAgain ==
  /\ alive /\ ConnectDue /\ pending' = pending - 1
  /\ \/ Connect /\ UNCHANGED timer
     \/ ConnectThrows
  /\ UNCHANGED <<started, isShuttingDown, alive, deploying, heart, recovering, status>>

(* The reconnect timer fires. *)
ReconnectTimer ==
  /\ alive /\ timer
  /\ \/ Connect /\ timer' = FALSE
     \/ ConnectThrows
  /\ UNCHANGED <<started, isShuttingDown, alive, deploying, heart, recovering, pending,
                 status>>

(* The handshake succeeds: handleOpen. *)
BeatOn_Before == heart                                                \* mutant
BeatOn == IF ws # None THEN ws ELSE heart
Opens(s) ==
  /\ alive /\ phase[s] = "connecting"
  /\ phase' = [phase EXCEPT ![s] = "open"]
  /\ heart' = BeatOn /\ status' = TRUE
  /\ UNCHANGED <<started, isShuttingDown, alive, deploying, ws, attached, enabled, timer,
                 recovering, pending, budgetVars, replaced>>

(* handleClose: after 4001 (Unauthorized) a client with managed keys recovers first
   and schedules the reconnect when that has ended. *)
HandleClose ==
  /\ heart' = None /\ status' = FALSE
  /\ \E unauthorized \in {FALSE, Subscribed} :
       /\ recovering' = recovering + IF unauthorized THEN 1 ELSE 0
       /\ timer' = IF unauthorized THEN timer ELSE Armed(timer)

(* The handshake fails or times out: 'error', then 'close'. *)
HandshakeFails(s) ==
  /\ alive /\ phase[s] = "connecting" /\ Fault
  /\ phase' = [phase EXCEPT ![s] = "closed"] /\ attached' = attached \ {s}
  /\ HandleClose
  /\ UNCHANGED <<started, isShuttingDown, alive, deploying, ws, enabled, pending, replaced>>

(* The vault starts to close the connection ... *)
ServerCloses(s) ==
  /\ alive /\ phase[s] = "open" /\ Fault
  /\ phase' = [phase EXCEPT ![s] = "closing"]
  /\ UNCHANGED <<started, isShuttingDown, alive, deploying, ws, attached, heart, enabled,
                 timer, recovering, pending, status, replaced>>

(* ... and it is closed.  ws goes on naming the socket. *)
Closed(s) ==
  /\ alive /\ phase[s] = "closing"
  /\ phase' = [phase EXCEPT ![s] = "closed"] /\ attached' = attached \ {s}
  /\ HandleClose
  /\ UNCHANGED <<started, isShuttingDown, alive, deploying, ws, enabled, pending,
                 budgetVars, replaced>>

(* The peer is gone and nothing says so. *)
FallsSilent(s) ==
  /\ alive /\ phase[s] = "open" /\ Fault
  /\ phase' = [phase EXCEPT ![s] = "silent"]
  /\ UNCHANGED <<started, isShuttingDown, alive, deploying, ws, attached, heart, enabled,
                 timer, recovering, pending, status, replaced>>

(* The heartbeat misses a pong: forceReconnect.  The status is left as it was. *)
Stale_NotOpen == Is(heart, {"closing", "closed"})                     \* mutant
Stale == Is(heart, {"silent"})
PongTimeout ==
  /\ alive /\ Stale
  /\ heart' = None /\ ws' = None /\ attached' = attached \ {ws}
  /\ phase' = [s \in Sockets |-> IF s = ws THEN "closed" ELSE phase[s]]
  /\ timer' = Armed(timer)
  /\ UNCHANGED <<started, isShuttingDown, alive, deploying, enabled, recovering, pending,
                 status, budgetVars, replaced>>

(* handleAuthFailureRecovery ends, with a new key or without. *)
RecoveryEnds ==
  /\ alive /\ recovering > 0 /\ recovering' = recovering - 1
  /\ timer' = Armed(timer)
  /\ UNCHANGED <<started, isShuttingDown, alive, deploying, socketVars, heart, enabled,
                 pending, status, budgetVars, replaced>>

(* A certificate event starts a deployment; it ends. *)
CertificateEvent ==
  /\ alive /\ Connected /\ ~deploying /\ deploying' = TRUE
  /\ UNCHANGED <<started, isShuttingDown, alive, socketVars, heart, enabled, timer,
                 recovering, pending, status, budgetVars, replaced>>
DeploymentEnds ==
  /\ alive /\ deploying /\ deploying' = FALSE
  /\ UNCHANGED <<started, isShuttingDown, alive, socketVars, heart, enabled, timer,
                 recovering, pending, status, budgetVars, replaced>>

(* SIGTERM or SIGINT: shutdown disconnects and, when the deployments have ended (they
   take less than the 30 seconds it would wait), exits. *)
Shutdown ==
  /\ Running /\ isShuttingDown' = TRUE
  /\ Disconnect
  /\ UNCHANGED <<started, deploying, recovering, pending, budgetVars, replaced>>
Exit ==
  /\ alive /\ isShuttingDown /\ ~deploying
  /\ alive' = FALSE
  /\ UNCHANGED <<started, isShuttingDown, deploying, socketVars, heart, enabled, timer,
                 recovering, pending, status, budgetVars, replaced>>

Next ==
  \/ Start \/ KeyChanged \/ ConnectAgain \/ ReconnectTimer \/ PongTimeout
  \/ RecoveryEnds \/ CertificateEvent \/ DeploymentEnds \/ Shutdown \/ Exit
  \/ \E s \in Sockets : \/ Opens(s) \/ HandshakeFails(s) \/ ServerCloses(s)
                        \/ Closed(s) \/ FallsSilent(s)

(* Timers, delays and pending calls come due; a handshake ends one way or the other
   (HANDSHAKE_TIMEOUT) and a closing socket is closed (the library's close timeout). *)
Fairness ==
  /\ WF_vars(Start) /\ WF_vars(ConnectAgain) /\ WF_vars(ReconnectTimer)
  /\ WF_vars(PongTimeout) /\ WF_vars(RecoveryEnds)
  /\ \A s \in Sockets : /\ WF_vars(Opens(s) \/ HandshakeFails(s))
                        /\ WF_vars(Closed(s))

Spec     == Init /\ [][Next]_vars
FairSpec == Spec /\ Fairness
-----------------------------------------------------------------------------
SocketTypes ==
  /\ ws \in Sockets \cup {None} /\ heart \in Sockets \cup {None}
  /\ phase \in [Sockets -> {"closed", "connecting", "open", "silent", "closing"}]
  /\ attached \subseteq Sockets
FlagTypes ==
  /\ {started, isShuttingDown, alive, deploying} \subseteq BOOLEAN
  /\ {enabled, timer, status, replaced} \subseteq BOOLEAN
CountTypes == {recovering, pending, faults, keyChanges} \subseteq Nat
(* The types. *)
TypeOK == SocketTypes /\ FlagTypes /\ CountTypes

(* A client that has been started and is not shutting down never ends up without a
   connection and without anything that will make one: there is a socket whose events
   it hears, or the reconnect timer is armed, or a recovery will arm it, or a connect()
   is due.  (The paths are disconnect, forceReconnect, handleClose and schedule, each
   of which drops one of these and relies on another being there.) *)
NotStranded ==
  Running => \/ ws \in attached /\ Is(ws, {"connecting", "open", "silent", "closing"})
             \/ timer
             \/ recovering > 0 /\ enabled
             \/ pending > 0

(* There is one connection: a socket that is connecting or open is ws, so no event is
   handled twice. *)
OneConnection ==
  \A s \in Sockets : phase[s] \in {"connecting", "open", "silent"} => s = ws /\ s \in attached

(* A shutdown leaves the client at rest, whatever was closing, recovering or due. *)
ShutdownIsQuiet == isShuttingDown => ws = None /\ ~timer /\ heart = None /\ ~status

(* The heartbeat watches the open connection, unless connect() has replaced a socket
   that was still closing. *)
HeartbeatWatches == Is(ws, Open) /\ ~replaced => heart = ws

(* While the agent runs it is connected again and again, also after a connection whose
   peer died without a word. *)
Reconnects == Running ~> (Connected \/ ~Running \/ replaced)
-----------------------------------------------------------------------------
(* Statements the code does not keep. *)

(* An open connection is always watched by the heartbeat: the 'close' event of an
   older socket stops the heartbeat of the newer one. *)
DeadConnectionsAreDetected == Running /\ Is(ws, Open) => heart = ws

(* The agent does not end with deployments in flight. *)
DeploymentsFinish == ~alive => ~deploying

(* A status of "connected" means that a connection is open. *)
StatusIsTrue == alive /\ status => Is(ws, Open \cup {"closing"})
=============================================================================
