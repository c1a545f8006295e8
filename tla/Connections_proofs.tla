------------------------- MODULE Connections_proofs -------------------------
(***************************************************************************)
(* Proofs about what the vault commands over the WebSocket connection: the *)
(* client that keeps the connection, and the dynamic secrets behind it.    *)
(***************************************************************************)
EXTENDS WsClient, DynamicSecrets, TLAPS

(***************************************************************************)
(* The WebSocket client, for every set of sockets, every number of faults  *)
(* and key changes, with and without managed keys.                         *)
(***************************************************************************)
(* Reconnecting is switched off only while a connect() is due, which switches it on. *)
EnabledOrDue == Running /\ ~enabled => pending > 0

(* A socket that is closing is ws, unless connect() has replaced one that was. *)
ClosingIsWs == ~replaced => \A s \in Sockets : phase[s] = "closing" => s = ws

LEMMA NoSocket == None \notin Sockets
BY SocketAssumption

(* What connect() does, in its three outcomes. *)
LEMMA ConnectOutcome ==
  ASSUME TypeOK, Connect
  PROVE  /\ UNCHANGED budgetVars
         /\ enabled' = (enabled \/ ~isShuttingDown)
         /\ \/ (isShuttingDown \/ InUse) /\ UNCHANGED <<socketVars, replaced>>
            \/ /\ ~isShuttingDown /\ ~InUse
               /\ ws' \in Sockets
               /\ phase' = [phase EXCEPT ![ws'] = "connecting"]
               /\ attached' = attached \cup {ws'}
               /\ replaced' = (replaced \/ Is(ws, {"closing"}))
<1>1. CASE (isShuttingDown \/ InUse) /\ UNCHANGED <<socketVars, replaced>>
           /\ enabled' = (enabled \/ ~isShuttingDown) /\ UNCHANGED budgetVars
  BY <1>1
<1>2. CASE /\ ~isShuttingDown /\ ~InUse
           /\ enabled' = TRUE
           /\ \E s \in Unused : /\ ws' = s
                                /\ phase' = [phase EXCEPT ![s] = "connecting"]
                                /\ attached' = attached \cup {s}
           /\ replaced' = (replaced \/ Is(ws, {"closing"}))
           /\ UNCHANGED budgetVars
  <2>1. PICK s \in Unused : /\ ws' = s
                            /\ phase' = [phase EXCEPT ![s] = "connecting"]
                            /\ attached' = attached \cup {s}
    BY <1>2
  <2>2. s \in Sockets
    BY DEF Unused
  <2>3. enabled' = (enabled \/ ~isShuttingDown)
    BY <1>2
  <2>4. QED
    BY <1>2, <2>1, <2>2, <2>3
<1>3. QED
  BY <1>1, <1>2 DEF Connect

LEMMA ConnectTypes ==
  ASSUME TypeOK, Connect
  PROVE  /\ ws' \in Sockets \cup {None} /\ attached' \subseteq Sockets
         /\ phase' \in [Sockets -> {"closed", "connecting", "open", "silent", "closing"}]
         /\ enabled' \in BOOLEAN /\ replaced' \in BOOLEAN
<1>1. enabled' \in BOOLEAN
  BY ConnectOutcome
<1>2. CASE UNCHANGED <<socketVars, replaced>>
  BY <1>1, <1>2 DEF TypeOK, SocketTypes, FlagTypes, socketVars
<1>3. CASE /\ ws' \in Sockets
           /\ phase' = [phase EXCEPT ![ws'] = "connecting"]
           /\ attached' = attached \cup {ws'}
           /\ replaced' = (replaced \/ Is(ws, {"closing"}))
  BY <1>1, <1>3 DEF TypeOK, SocketTypes
<1>4. QED
  BY <1>2, <1>3, ConnectOutcome

LEMMA DisconnectTypes ==
  ASSUME TypeOK, Disconnect
  PROVE  /\ SocketTypes'
         /\ {enabled', timer', status', alive'} \subseteq BOOLEAN
BY DEF Disconnect, TypeOK, SocketTypes

LEMMA HandleCloseTypes ==
  ASSUME TypeOK, HandleClose
  PROVE  /\ heart' \in Sockets \cup {None} /\ status' \in BOOLEAN
         /\ timer' \in BOOLEAN /\ recovering' \in Nat
<1>1. PICK unauthorized \in {FALSE, Subscribed} :
         /\ recovering' = recovering + IF unauthorized THEN 1 ELSE 0
         /\ timer' = IF unauthorized THEN timer ELSE Armed(timer)
  BY DEF HandleClose
<1>2. recovering' \in Nat
  BY <1>1 DEF TypeOK, CountTypes
<1>3. timer' \in BOOLEAN
  BY <1>1 DEF TypeOK, FlagTypes, Armed
<1>4. QED
  BY <1>2, <1>3 DEF HandleClose

(* Every step keeps the types. *)
LEMMA TypeStep ==
  ASSUME TypeOK, [Next]_vars
  PROVE  TypeOK'
<1> USE DEF budgetVars
<1>1. CASE Start
  <2>1. UNCHANGED <<isShuttingDown, alive, deploying, heart, recovering, pending, status>>
        /\ started' = TRUE
    BY <1>1 DEF Start
  <2>2. CASE Connect /\ UNCHANGED timer
    BY <2>1, <2>2, ConnectTypes, ConnectOutcome
       DEF TypeOK, SocketTypes, FlagTypes, CountTypes
  <2>3. CASE ConnectThrows
    BY <2>1, <2>3 DEF ConnectThrows, Fault, TypeOK, SocketTypes, FlagTypes, CountTypes,
                      socketVars
  <2>4. QED BY <1>1, <2>2, <2>3 DEF Start
<1>2. CASE KeyChanged
  BY <1>2, DisconnectTypes DEF KeyChanged, TypeOK, FlagTypes, CountTypes
<1>3. CASE ConnectAgain
  <2>1. UNCHANGED <<started, isShuttingDown, alive, deploying, heart, recovering, status>>
        /\ pending' = pending - 1 /\ pending > 0
    BY <1>3 DEF ConnectAgain, ConnectDue
  <2>2. pending' \in Nat
    BY <2>1 DEF TypeOK, CountTypes
  <2>3. CASE Connect /\ UNCHANGED timer
    BY <2>1, <2>2, <2>3, ConnectTypes, ConnectOutcome
       DEF TypeOK, SocketTypes, FlagTypes, CountTypes
  <2>4. CASE ConnectThrows
    BY <2>1, <2>2, <2>4 DEF ConnectThrows, Fault, TypeOK, SocketTypes, FlagTypes,
                            CountTypes, socketVars
  <2>5. QED BY <1>3, <2>3, <2>4 DEF ConnectAgain
<1>4. CASE ReconnectTimer
  <2>1. UNCHANGED <<started, isShuttingDown, alive, deploying, heart, recovering, pending,
                    status>>
    BY <1>4 DEF ReconnectTimer
  <2>2. CASE Connect /\ timer' = FALSE
    BY <2>1, <2>2, ConnectTypes, ConnectOutcome
       DEF TypeOK, SocketTypes, FlagTypes, CountTypes
  <2>3. CASE ConnectThrows
    BY <2>1, <2>3 DEF ConnectThrows, Fault, TypeOK, SocketTypes, FlagTypes, CountTypes,
                      socketVars
  <2>4. QED BY <1>4, <2>2, <2>3 DEF ReconnectTimer
<1>5. CASE PongTimeout
  BY <1>5 DEF PongTimeout, Armed, TypeOK, SocketTypes, FlagTypes, CountTypes
<1>6. CASE RecoveryEnds
  BY <1>6 DEF RecoveryEnds, Armed, TypeOK, SocketTypes, FlagTypes, CountTypes, socketVars
<1>7. CASE CertificateEvent
  BY <1>7 DEF CertificateEvent, TypeOK, SocketTypes, FlagTypes, CountTypes, socketVars
<1>8. CASE DeploymentEnds
  BY <1>8 DEF DeploymentEnds, TypeOK, SocketTypes, FlagTypes, CountTypes, socketVars
<1>9. CASE Shutdown
  BY <1>9, DisconnectTypes DEF Shutdown, TypeOK, FlagTypes, CountTypes
<1>10. CASE Exit
  BY <1>10 DEF Exit, TypeOK, SocketTypes, FlagTypes, CountTypes, socketVars
<1>11. ASSUME NEW s \in Sockets, Opens(s) PROVE TypeOK'
  BY <1>11 DEF Opens, BeatOn, TypeOK, SocketTypes, FlagTypes, CountTypes
<1>12. ASSUME NEW s \in Sockets, HandshakeFails(s) PROVE TypeOK'
  BY <1>12, HandleCloseTypes
     DEF HandshakeFails, Fault, TypeOK, SocketTypes, FlagTypes, CountTypes
<1>13. ASSUME NEW s \in Sockets, ServerCloses(s) PROVE TypeOK'
  BY <1>13 DEF ServerCloses, Fault, TypeOK, SocketTypes, FlagTypes, CountTypes
<1>14. ASSUME NEW s \in Sockets, Closed(s) PROVE TypeOK'
  BY <1>14, HandleCloseTypes DEF Closed, TypeOK, SocketTypes, FlagTypes, CountTypes
<1>15. ASSUME NEW s \in Sockets, FallsSilent(s) PROVE TypeOK'
  BY <1>15 DEF FallsSilent, Fault, TypeOK, SocketTypes, FlagTypes, CountTypes
<1>16. CASE UNCHANGED vars
  BY <1>16 DEF vars, TypeOK, SocketTypes, FlagTypes, CountTypes, socketVars
<1>17. QED
  BY <1>1, <1>2, <1>3, <1>4, <1>5, <1>6, <1>7, <1>8, <1>9, <1>10, <1>11, <1>12, <1>13,
     <1>14, <1>15, <1>16 DEF Next

(* The variables of the client and the daemon keep their types. *)
THEOREM TypeCorrect == Spec => []TypeOK
<1>1. Init => TypeOK
  <2> SUFFICES ASSUME Init PROVE TypeOK
    OBVIOUS
  <2>1. SocketTypes
    BY DEF Init, SocketTypes
  <2>2. FlagTypes
    BY DEF Init, FlagTypes
  <2>3. CountTypes
    BY DEF Init, CountTypes
  <2>4. QED BY <2>1, <2>2, <2>3 DEF TypeOK
<1>2. QED
  BY <1>1, TypeStep, PTL DEF Spec
-----------------------------------------------------------------------------
(* One connection, and what is closing.  The two say of each socket what its phase
   means for ws; connect() needs the first, which justifies its single test of ws. *)
SocketInv == OneConnection /\ ClosingIsWs

LEMMA ConnectSockets ==
  ASSUME TypeOK, SocketInv, Connect
  PROVE  SocketInv'
<1>1. CASE UNCHANGED <<socketVars, replaced>>
  BY <1>1 DEF SocketInv, OneConnection, ClosingIsWs, socketVars
<1>2. CASE /\ ~isShuttingDown /\ ~InUse /\ ws' \in Sockets
           /\ phase' = [phase EXCEPT ![ws'] = "connecting"]
           /\ attached' = attached \cup {ws'}
           /\ replaced' = (replaced \/ Is(ws, {"closing"}))
  <2>1. \A s \in Sockets : phase[s] \notin {"connecting", "open", "silent"}
    BY <1>2, NoSocket DEF SocketInv, OneConnection, InUse, Is, Open
  <2>2. phase'[ws'] = "connecting"
        /\ \A s \in Sockets : s # ws' => phase'[s] = phase[s]
    BY <1>2 DEF TypeOK, SocketTypes
  <2>3. OneConnection'
    BY <1>2, <2>1, <2>2 DEF OneConnection
  <2>4. ASSUME ~replaced', NEW s \in Sockets, phase'[s] = "closing" PROVE s = ws'
    BY <1>2, <2>2, <2>4, NoSocket DEF SocketInv, ClosingIsWs, Is
  <2>5. QED
    BY <2>3, <2>4 DEF SocketInv, ClosingIsWs
<1>3. QED
  BY <1>1, <1>2, ConnectOutcome

LEMMA ConnectThrowsSockets ==
  ASSUME SocketInv, ConnectThrows
  PROVE  SocketInv'
BY DEF ConnectThrows, SocketInv, OneConnection, ClosingIsWs, socketVars

(* ws is given up. *)
LEMMA GivenUp ==
  ASSUME TypeOK, SocketInv, ws' = None, attached' = attached \ {ws},
         phase' = [s \in Sockets |-> IF s = ws THEN "closed" ELSE phase[s]],
         replaced' = replaced
  PROVE  SocketInv'
BY NoSocket DEF TypeOK, SocketTypes, SocketInv, OneConnection, ClosingIsWs

(* A socket changes its phase. *)
LEMMA PhaseChanges ==
  ASSUME TypeOK, SocketInv, NEW s \in Sockets, NEW ph,
         phase' = [phase EXCEPT ![s] = ph], ws' = ws, replaced' = replaced,
         \/ attached' = attached /\ phase[s] \in {"connecting", "open"}
         \/ attached' = attached \ {s} /\ ph = "closed"
  PROVE  SocketInv'
BY DEF TypeOK, SocketTypes, SocketInv, OneConnection, ClosingIsWs

LEMMA SocketStep ==
  ASSUME TypeOK, SocketInv, [Next]_vars
  PROVE  SocketInv'
<1>1. CASE Start
  BY <1>1, ConnectSockets, ConnectThrowsSockets DEF Start
<1>2. CASE ConnectAgain
  BY <1>2, ConnectSockets, ConnectThrowsSockets DEF ConnectAgain
<1>3. CASE ReconnectTimer
  BY <1>3, ConnectSockets, ConnectThrowsSockets DEF ReconnectTimer
<1>4. CASE KeyChanged
  BY <1>4, GivenUp DEF KeyChanged, Disconnect
<1>5. CASE PongTimeout
  BY <1>5, GivenUp DEF PongTimeout
<1>6. CASE Shutdown
  BY <1>6, GivenUp DEF Shutdown, Disconnect
<1>7. CASE RecoveryEnds \/ CertificateEvent \/ DeploymentEnds \/ Exit \/ UNCHANGED vars
  BY <1>7 DEF RecoveryEnds, CertificateEvent, DeploymentEnds, Exit, vars, socketVars,
              SocketInv, OneConnection, ClosingIsWs
<1>8. ASSUME NEW s \in Sockets,
             Opens(s) \/ HandshakeFails(s) \/ ServerCloses(s) \/ Closed(s) \/ FallsSilent(s)
      PROVE  SocketInv'
  BY <1>8, PhaseChanges DEF Opens, HandshakeFails, ServerCloses, Closed, FallsSilent
<1>9. QED
  BY <1>1, <1>2, <1>3, <1>4, <1>5, <1>6, <1>7, <1>8 DEF Next

(* A socket that is connecting or open is the one the client holds and listens to: no
   path leaves an older connection open next to the new one. *)
THEOREM OneConnectionHolds == Spec => []OneConnection
<1>1. Init => SocketInv
  BY DEF Init, SocketInv, OneConnection, ClosingIsWs
<1>2. Spec => []SocketInv
  BY <1>1, SocketStep, TypeCorrect, PTL DEF Spec
<1>3. SocketInv => OneConnection
  BY DEF SocketInv
<1>4. QED
  BY <1>2, <1>3, PTL
-----------------------------------------------------------------------------
(* At rest after a shutdown. *)
LEMMA QuietStep ==
  ASSUME TypeOK, SocketInv, ShutdownIsQuiet /\ (isShuttingDown => started), [Next]_vars
  PROVE  ShutdownIsQuiet' /\ (isShuttingDown' => started')
<1> SUFFICES ASSUME isShuttingDown' PROVE ShutdownIsQuiet' /\ started'
  BY DEF ShutdownIsQuiet
<1>1. CASE Start
  BY <1>1 DEF Start
<1>2. CASE ConnectAgain
  BY <1>2 DEF ConnectAgain, Connect, ConnectThrows, ShutdownIsQuiet, socketVars
<1>3. CASE ReconnectTimer
  BY <1>3 DEF ReconnectTimer, ShutdownIsQuiet
<1>4. CASE KeyChanged
  BY <1>4 DEF KeyChanged
<1>5. CASE PongTimeout
  BY <1>5 DEF PongTimeout, Stale, Is, ShutdownIsQuiet
<1>6. CASE Shutdown
  BY <1>6 DEF Shutdown, Running, Disconnect, ShutdownIsQuiet
<1>7. CASE RecoveryEnds
  BY <1>7 DEF RecoveryEnds, Armed, ShutdownIsQuiet, socketVars
<1>8. CASE CertificateEvent \/ DeploymentEnds \/ Exit \/ UNCHANGED vars
  <2>1. UNCHANGED <<started, isShuttingDown, ws, heart, timer, status>>
    BY <1>8 DEF CertificateEvent, DeploymentEnds, Exit, vars, socketVars
  <2>2. QED
    BY <2>1 DEF ShutdownIsQuiet
<1>9. ASSUME NEW s \in Sockets, Opens(s) PROVE ShutdownIsQuiet' /\ started'
  <2>1. phase[s] = "connecting" /\ isShuttingDown
    BY <1>9 DEF Opens
  <2>2. s = ws
    BY <2>1 DEF SocketInv, OneConnection
  <2>3. ws = None
    BY <2>1 DEF ShutdownIsQuiet
  <2>4. QED
    BY <2>2, <2>3, NoSocket
<1>10. ASSUME NEW s \in Sockets, HandshakeFails(s) \/ Closed(s)
       PROVE  ShutdownIsQuiet' /\ started'
  <2>1. HandleClose /\ UNCHANGED <<started, isShuttingDown, ws>>
    BY <1>10 DEF HandshakeFails, Closed
  <2>2. ~Armed(timer) /\ ~timer
    BY <2>1 DEF Armed, ShutdownIsQuiet
  <2>3. PICK unauthorized \in {FALSE, Subscribed} :
             timer' = IF unauthorized THEN timer ELSE Armed(timer)
    BY <2>1 DEF HandleClose
  <2>4. ~timer'
    BY <2>2, <2>3
  <2>5. heart' = None /\ ~status'
    BY <2>1 DEF HandleClose
  <2>6. ws' = None /\ started'
    BY <2>1 DEF ShutdownIsQuiet
  <2>7. QED
    BY <2>4, <2>5, <2>6 DEF ShutdownIsQuiet
<1>11. ASSUME NEW s \in Sockets, ServerCloses(s) \/ FallsSilent(s)
       PROVE  ShutdownIsQuiet' /\ started'
  <2>1. UNCHANGED <<started, isShuttingDown, ws, heart, timer, status>>
    BY <1>11 DEF ServerCloses, FallsSilent
  <2>2. QED
    BY <2>1 DEF ShutdownIsQuiet
<1>12. QED
  BY <1>1, <1>2, <1>3, <1>4, <1>5, <1>6, <1>7, <1>8, <1>9, <1>10, <1>11 DEF Next

(* After a shutdown no socket, timer or heartbeat comes to life, whatever was closing,
   recovering or due when it began. *)
THEOREM QuietAfterShutdown == Spec => []ShutdownIsQuiet
<1> DEFINE Quiet == ShutdownIsQuiet /\ (isShuttingDown => started)
<1>1. Init => SocketInv /\ Quiet
  BY DEF Init, SocketInv, OneConnection, ClosingIsWs, ShutdownIsQuiet
<1>2. TypeOK /\ SocketInv /\ Quiet /\ [Next]_vars => SocketInv' /\ Quiet'
  BY SocketStep, QuietStep
<1>3. Spec => []Quiet
  BY <1>1, <1>2, TypeCorrect, PTL DEF Spec
<1>4. Quiet => ShutdownIsQuiet
  OBVIOUS
<1>5. QED
  BY <1>3, <1>4, PTL
-----------------------------------------------------------------------------
(* Never stranded.  What connect() leaves behind. *)
LEMMA ConnectNotStranded ==
  ASSUME TypeOK, SocketInv, Connect, ~isShuttingDown
  PROVE  enabled' /\ ws' \in attached' /\ Is(ws, {"connecting", "open", "silent", "closing"})'
<1>1. CASE InUse /\ UNCHANGED <<socketVars, replaced>>
  BY <1>1, ConnectOutcome DEF InUse, Is, Open, SocketInv, OneConnection, socketVars, TypeOK,
                              SocketTypes
<1>2. CASE /\ ~isShuttingDown /\ ~InUse /\ ws' \in Sockets
           /\ phase' = [phase EXCEPT ![ws'] = "connecting"]
           /\ attached' = attached \cup {ws'}
  BY <1>2, NoSocket, ConnectOutcome DEF Is, TypeOK, SocketTypes
<1>3. QED
  BY <1>1, <1>2, ConnectOutcome

(* What handleClose leaves behind. *)
LEMMA HandleCloseNotStranded ==
  ASSUME TypeOK, HandleClose
  PROVE  /\ enabled /\ ~isShuttingDown => timer' \/ recovering' > 0
         /\ timer => timer'
         /\ recovering > 0 => recovering' > 0
<1>1. PICK unauthorized \in {FALSE, Subscribed} :
         /\ recovering' = recovering + IF unauthorized THEN 1 ELSE 0
         /\ timer' = IF unauthorized THEN timer ELSE Armed(timer)
  BY DEF HandleClose
<1>2. recovering \in Nat
  BY DEF TypeOK, CountTypes
<1>3. CASE unauthorized
  <2>1. recovering' = recovering + 1 /\ timer' = timer
    BY <1>1, <1>3
  <2>2. recovering' > 0
    BY <1>2, <2>1
  <2>3. QED BY <2>1, <2>2
<1>4. CASE ~unauthorized
  <2>1. recovering' = recovering + 0 /\ timer' = Armed(timer)
    BY <1>1, <1>4
  <2>2. recovering' = recovering
    BY <1>2, <2>1
  <2>3. QED BY <2>1, <2>2 DEF Armed
<1>5. QED BY <1>3, <1>4

Back == EnabledOrDue /\ NotStranded

LEMMA BackStep ==
  ASSUME TypeOK, SocketInv, EnabledOrDue, NotStranded, [Next]_vars
  PROVE  EnabledOrDue' /\ NotStranded'
<1> DEFINE Listening == ws \in attached /\ Is(ws, {"connecting", "open", "silent", "closing"})
<1> SUFFICES ASSUME Running' PROVE Back'
  BY DEF Back, EnabledOrDue, NotStranded
<1> USE DEF Back
<1>0. recovering \in Nat /\ pending \in Nat
  BY DEF TypeOK, CountTypes
<1>1. (Connect \/ ConnectThrows) /\ ~isShuttingDown => enabled'
  BY ConnectNotStranded DEF ConnectThrows
<1>2. Connect /\ ~isShuttingDown => Listening'
  BY ConnectNotStranded
<1>3. ConnectThrows => timer'
  BY DEF ConnectThrows
<1>4. CASE Start \/ ConnectAgain \/ ReconnectTimer
  <2>0. isShuttingDown' = isShuttingDown /\ (Connect \/ ConnectThrows)
    BY <1>4 DEF Start, ConnectAgain, ReconnectTimer
  <2>1. (Connect \/ ConnectThrows) /\ ~isShuttingDown
    BY <2>0 DEF Running
  <2>2. enabled'
    BY <2>1, <1>1
  <2>3. Listening' \/ timer'
    BY <2>1, <1>2, <1>3
  <2>4. QED
    BY <2>2, <2>3 DEF EnabledOrDue, NotStranded
<1>5. CASE KeyChanged
  <2>1. pending' = pending + 1
    BY <1>5 DEF KeyChanged
  <2>2. pending' > 0
    BY <1>0, <2>1
  <2>3. QED
    BY <2>2 DEF EnabledOrDue, NotStranded
<1>6. CASE PongTimeout \/ RecoveryEnds
  <2>1. UNCHANGED <<started, isShuttingDown, alive, pending, enabled>>
        /\ timer' = Armed(timer)
    BY <1>6 DEF PongTimeout, RecoveryEnds
  <2>2. Running
    BY <2>1 DEF Running
  <2>3. EnabledOrDue'
    BY <2>1, <2>2 DEF EnabledOrDue
  <2>4. CASE pending > 0
    BY <2>1, <2>3, <2>4 DEF NotStranded
  <2>5. CASE enabled
    <3>1. timer'
      BY <2>1, <2>2, <2>5 DEF Armed, Running
    <3>2. QED BY <2>3, <3>1 DEF NotStranded
  <2>6. QED BY <2>2, <2>4, <2>5 DEF EnabledOrDue
<1>7. CASE CertificateEvent \/ DeploymentEnds \/ UNCHANGED vars
  <2>1. UNCHANGED <<started, isShuttingDown, alive, pending, enabled, ws, attached, phase,
                    timer, recovering>>
    BY <1>7 DEF CertificateEvent, DeploymentEnds, vars, socketVars
  <2>2. QED
    BY <2>1 DEF EnabledOrDue, NotStranded, Running, Is
<1>8. CASE Shutdown \/ Exit
  BY <1>8 DEF Shutdown, Exit, Running
<1>9. ASSUME NEW s \in Sockets, Opens(s) \/ ServerCloses(s) \/ FallsSilent(s) PROVE Back'
  <2>1. UNCHANGED <<started, isShuttingDown, alive, pending, enabled, ws, attached, timer,
                    recovering>>
    BY <1>9 DEF Opens, ServerCloses, FallsSilent
  <2>2. Listening => Listening'
    BY <1>9, <2>1 DEF Opens, ServerCloses, FallsSilent, Is, TypeOK, SocketTypes
  <2>3. QED
    BY <2>1, <2>2 DEF EnabledOrDue, NotStranded, Running
<1>10. ASSUME NEW s \in Sockets, HandshakeFails(s) \/ Closed(s) PROVE Back'
  <2>1. UNCHANGED <<started, isShuttingDown, alive, pending, enabled, ws>> /\ HandleClose
    BY <1>10 DEF HandshakeFails, Closed
  <2>2. Running
    BY <2>1 DEF Running
  <2>3. EnabledOrDue'
    BY <2>1, <2>2 DEF EnabledOrDue
  <2>4. CASE pending > 0
    BY <2>1, <2>3, <2>4 DEF NotStranded
  <2>5. CASE enabled
    <3>1. timer' \/ recovering' > 0
      BY <2>1, <2>2, <2>5, HandleCloseNotStranded DEF Running
    <3>2. QED
      BY <2>1, <2>3, <2>5, <3>1 DEF NotStranded
  <2>6. QED BY <2>2, <2>4, <2>5 DEF EnabledOrDue
<1>11. QED
  BY <1>4, <1>5, <1>6, <1>7, <1>8, <1>9, <1>10 DEF Next

(* A started client that is not shutting down always has a socket it listens to, an
   armed reconnect timer, a recovery that will arm it or a connect() that is due. *)
THEOREM NeverStranded == Spec => []NotStranded
<1>1. Init => SocketInv /\ Back
  BY DEF Init, SocketInv, OneConnection, ClosingIsWs, Back, EnabledOrDue, NotStranded, Running
<1>2. TypeOK /\ SocketInv /\ Back /\ [Next]_vars => SocketInv' /\ Back'
  BY SocketStep, BackStep DEF Back
<1>3. Spec => []Back
  BY <1>1, <1>2, TypeCorrect, PTL DEF Spec
<1>4. Back => NotStranded
  BY DEF Back
<1>5. QED
  BY <1>3, <1>4, PTL
-----------------------------------------------------------------------------
LEMMA HeartStep ==
  ASSUME TypeOK, SocketInv, HeartbeatWatches, [Next]_vars
  PROVE  HeartbeatWatches'
<1> SUFFICES ASSUME Is(ws, Open)', ~replaced' PROVE heart' = ws'
  BY DEF HeartbeatWatches
<1>1. CASE Start \/ ConnectAgain \/ ReconnectTimer
  <2>1. heart' = heart /\ (Connect \/ ConnectThrows)
    BY <1>1 DEF Start, ConnectAgain, ReconnectTimer
  <2>2. UNCHANGED <<ws, phase, replaced>>
    <3>1. CASE UNCHANGED <<socketVars, replaced>>
      BY <3>1 DEF socketVars
    <3>2. CASE ws' \in Sockets /\ phase' = [phase EXCEPT ![ws'] = "connecting"]
      BY <3>2 DEF Is, Open, TypeOK, SocketTypes
    <3>3. QED
      BY <2>1, <3>1, <3>2, ConnectOutcome DEF ConnectThrows
  <2>3. QED
    BY <2>1, <2>2 DEF HeartbeatWatches, Is
<1>2. CASE KeyChanged \/ Shutdown \/ PongTimeout
  BY <1>2 DEF KeyChanged, Shutdown, PongTimeout, Disconnect, Is
<1>3. CASE RecoveryEnds \/ CertificateEvent \/ DeploymentEnds \/ Exit \/ UNCHANGED vars
  <2>1. UNCHANGED <<ws, phase, heart, replaced>>
    BY <1>3 DEF RecoveryEnds, CertificateEvent, DeploymentEnds, Exit, vars, socketVars
  <2>2. QED
    BY <2>1 DEF HeartbeatWatches, Is
<1>4. ASSUME NEW s \in Sockets, Opens(s) PROVE heart' = ws'
  BY <1>4 DEF Opens, BeatOn, Is
<1>5. ASSUME NEW s \in Sockets, ServerCloses(s) \/ FallsSilent(s) PROVE heart' = ws'
  <2>1. UNCHANGED <<ws, heart, replaced>> /\ s = ws
    BY <1>5 DEF ServerCloses, FallsSilent, SocketInv, OneConnection
  <2>2. Is(ws, Open)
    BY <1>5, <2>1, NoSocket DEF ServerCloses, FallsSilent, Is, Open
  <2>3. QED
    BY <2>1, <2>2 DEF HeartbeatWatches
<1>6. ASSUME NEW s \in Sockets, HandshakeFails(s) \/ Closed(s) PROVE heart' = ws'
  <2>1. UNCHANGED <<ws, replaced>> /\ phase' = [phase EXCEPT ![s] = "closed"]
    BY <1>6 DEF HandshakeFails, Closed
  <2>2. s = ws
    BY <1>6, <2>1 DEF HandshakeFails, Closed, SocketInv, OneConnection, ClosingIsWs
  <2>3. QED
    BY <2>1, <2>2 DEF Is, Open, TypeOK, SocketTypes
<1>7. QED
  BY <1>1, <1>2, <1>3, <1>4, <1>5, <1>6 DEF Next

(* The heartbeat runs on the open connection, unless connect() has replaced a socket
   that was still closing. *)
THEOREM HeartbeatHolds == Spec => []HeartbeatWatches
<1>1. Init => SocketInv /\ HeartbeatWatches
  BY DEF Init, SocketInv, OneConnection, ClosingIsWs, HeartbeatWatches, Is
<1>2. TypeOK /\ SocketInv /\ HeartbeatWatches /\ [Next]_vars
        => SocketInv' /\ HeartbeatWatches'
  BY SocketStep, HeartStep
<1>3. QED
  BY <1>1, <1>2, TypeCorrect, PTL DEF Spec

-----------------------------------------------------------------------------
(***************************************************************************)
(* The dynamic secrets, for every set of leases, every number of           *)
(* configurations and of failures.                                         *)
(***************************************************************************)
(* DynamicTypeOK in the parts that the actions change together. *)
HandlerType == {NoTask} \union [op : Ops, pc : {"connect", "sql"}, via : Configs \ {0}, pool : Shares, run : BOOLEAN]
Outcomes    == {"none", "asked", "refused", "held", "revoking", "revoked", "kept"}
LeaseTypes ==
  /\ task \in [Leases -> HandlerType] /\ db \in [Leases -> Configs]
  /\ lease \in [Leases -> Outcomes]
  /\ extended \subseteq Leases /\ prolonged \subseteq Leases
ConfigTypes ==
  /\ {store, cached, wanted, newest} \subseteq Configs /\ acked \in Acks /\ catalog \in Catalogs
  /\ pool \in Pools /\ (cached = 0 => pool = "none") /\ ending \subseteq 1..MaxConfig
  /\ excused \subseteq Leases \X Reasons /\ unremoved \in BOOLEAN
LinkTypes ==
  link \in BOOLEAN /\ stopping \in BOOLEAN /\ (stopping => ~link)
FailureType == failures \in 0..MaxFailures

(* What the handler at work on a lease means to the vault, and what an answered one left. *)
Agreed(l) ==
  /\ lease[l] \in {"none", "refused", "revoked"} => task[l] = NoTask
  /\ task[l].op = "generate" => lease[l] = "asked" /\ db[l] = 0
  /\ task[l].op = "revoke" => lease[l] = "revoking"
  /\ task[l].op = "renew" => lease[l] = "held"
  /\ lease[l] = "none" => db[l] = 0
  /\ lease[l] = "held" => db[l] # 0 \/ <<l, "statementless">> \in excused
  /\ lease[l] = "refused" => db[l] = 0 \/ <<l, "torn">> \in excused
  /\ lease[l] = "revoked" => db[l] = 0 \/ Misled(l)
  /\ l \in prolonged => l \in extended \/ Misled(l)

(* A configuration that is on its way out is not acknowledged, or was pushed meanwhile. *)
Leaving == ending # {} => acked = NoAck \/ acked.late

LeaseInv  == LeaseTypes /\ \A l \in Leases : Agreed(l)
ConfigInv == ConfigTypes /\ Leaving /\ AckedIsStored

(* A step that touches one lease keeps what holds of the others; excuses are never withdrawn. *)
LEMMA OneLease ==
  ASSUME LeaseInv, NEW l \in Leases, LeaseTypes', Agreed(l)', excused \subseteq excused',
         \A m \in Leases \ {l} :
           /\ task'[m] = task[m] /\ db'[m] = db[m] /\ lease'[m] = lease[m]
           /\ m \in prolonged' => m \in prolonged
           /\ m \in extended => m \in extended'
  PROVE  LeaseInv'
<1> SUFFICES ASSUME NEW m \in Leases PROVE Agreed(m)'
  BY DEF LeaseInv
<1>1. CASE m = l
  BY <1>1
<1>2. CASE m # l
  <2>1. Agreed(m) /\ (Misled(m) => Misled(m)')
    BY DEF LeaseInv, Misled
  <2>2. /\ task'[m] = task[m] /\ db'[m] = db[m] /\ lease'[m] = lease[m]
        /\ m \in prolonged' => m \in prolonged
        /\ m \in extended => m \in extended'
    BY <1>2
  <2>3. QED
    BY <2>1, <2>2 DEF Agreed
<1>3. QED
  BY <1>1, <1>2

LEMMA SameLeases ==
  ASSUME LeaseInv, UNCHANGED <<task, db, lease, extended, prolonged>>, excused \subseteq excused'
  PROVE  LeaseInv'
<1>1. LeaseTypes'
  BY DEF LeaseInv, LeaseTypes
<1>2. ASSUME NEW m \in Leases PROVE Agreed(m)'
  <2>1. Agreed(m) /\ (Misled(m) => Misled(m)')
    BY DEF LeaseInv, Misled
  <2>2. QED
    BY <2>1 DEF Agreed
<1>3. QED
  BY <1>1, <1>2 DEF LeaseInv

(* sendMessage() changes what the vault knows of one lease, or nothing. *)
LEMMA AnswerEffect ==
  ASSUME LeaseTypes, NEW l \in Leases, NEW o \in Outcomes, Answer(l, o)
  PROVE  /\ lease' \in [Leases -> Outcomes] /\ lease'[l] \in {lease[l], o}
         /\ \A m \in Leases \ {l} : lease'[m] = lease[m]
BY DEF LeaseTypes, Answer

LEMMA HandlerTypes ==
  /\ NoTask \in HandlerType /\ NoTask.op = "none" /\ NoTask.pc = "none" /\ NoTask.pool = "none"
  /\ \A op \in Ops, via \in Configs \ {0}, share \in Shares, run \in BOOLEAN :
       /\ [op |-> op, pc |-> "connect", via |-> via, pool |-> share, run |-> run] \in HandlerType
       /\ [op |-> op, pc |-> "connect", via |-> via, pool |-> share, run |-> run].op = op
       /\ [op |-> op, pc |-> "connect", via |-> via, pool |-> share, run |-> run] # NoTask
  /\ \A t \in HandlerType :
       t.pc # "none" => t.op \in Ops /\ t.via \in Configs \ {0} /\ t # NoTask
BY DEF HandlerType, NoTask, Ops, Shares, Pools

(* getOrCreateClient() gives a client that was made from some configuration. *)
LEMMA ClientEffect ==
  ASSUME ConfigTypes, store # 0, UseClient
  PROVE  cached' \in Configs \ {0} /\ pool' \in Pools
BY DEF UseClient, ConfigTypes, Pools

LEMMA BeginEffect ==
  ASSUME LeaseTypes, ConfigTypes, NEW l \in Leases, NEW op \in Ops, store # 0, Begin(l, op)
  PROVE  /\ task' \in [Leases -> HandlerType] /\ task'[l].op = op /\ task'[l] # NoTask
         /\ \A m \in Leases \ {l} : task'[m] = task[m]
         /\ cached' \in Configs \ {0} /\ pool' \in Pools
<1>1. cached' \in Configs \ {0} /\ pool' \in Pools
  BY ClientEffect DEF Begin
<1> DEFINE run == op \in catalog[store].statements
<1>2. task' = [task EXCEPT ![l] = [op |-> op, pc |-> "connect", via |-> cached', pool |-> pool', run |-> run]]
  BY DEF Begin
<1>3. run \in BOOLEAN /\ pool' \in Shares
  BY <1>1 DEF Shares
<1> HIDE DEF run
<1>4. PICK via \in Configs \ {0}, share \in Shares :
        task' = [task EXCEPT ![l] = [op |-> op, pc |-> "connect", via |-> via, pool |-> share, run |-> run]] /\ via = cached'
  BY <1>1, <1>2, <1>3
<1>5. QED
  BY <1>1, <1>3, <1>4, HandlerTypes DEF LeaseTypes

(* The end of a handler. *)
LEMMA EndEffect ==
  ASSUME LeaseTypes, NEW l \in Leases, task' = [task EXCEPT ![l] = NoTask]
  PROVE  /\ task' \in [Leases -> HandlerType] /\ task'[l] = NoTask /\ task'[l].op = "none"
         /\ \A m \in Leases \ {l} : task'[m] = task[m]
BY HandlerTypes DEF LeaseTypes
LEMMA GenerateKeeps == ASSUME LeaseInv, ConfigTypes, NEW l \in Leases, Generate(l) PROVE LeaseInv'
<1>0. /\ lease[l] = "none" /\ UNCHANGED <<db, extended, excused, prolonged>> /\ (HasRole("generate") => store # 0)
      /\ task[l] = NoTask /\ db[l] = 0 /\ LeaseTypes /\ Agreed(l)
  BY DEF Generate, dbase, LeaseInv, Agreed, HasRole
<1>1. CASE HasRole("generate")
  <2>1. Begin(l, "generate") /\ lease' = [lease EXCEPT ![l] = "asked"]
    BY <1>1 DEF Generate
  <2>2. /\ task' \in [Leases -> HandlerType] /\ task'[l].op = "generate"
        /\ \A m \in Leases \ {l} : task'[m] = task[m]
    BY <1>0, <1>1, <2>1, BeginEffect DEF Ops
  <2>3. LeaseTypes'
    BY <1>0, <2>1, <2>2 DEF LeaseTypes, Outcomes
  <2>4. Agreed(l)'
    BY <1>0, <2>1, <2>2 DEF LeaseTypes, Agreed, Misled
  <2>5. QED
    BY <1>0, <2>1, <2>2, <2>3, <2>4, OneLease DEF LeaseTypes
<1>2. CASE ~HasRole("generate")
  <2>1. lease' = [lease EXCEPT ![l] = "refused"] /\ UNCHANGED task
    BY <1>2 DEF Generate
  <2>2. LeaseTypes'
    BY <1>0, <2>1 DEF LeaseTypes, Outcomes
  <2>3. Agreed(l)'
    BY <1>0, <2>1, HandlerTypes DEF LeaseTypes, Agreed, Misled
  <2>4. QED
    BY <1>0, <2>1, <2>2, <2>3, OneLease DEF LeaseTypes
<1>3. QED
  BY <1>1, <1>2

LEMMA RevokeKeeps == ASSUME LeaseInv, ConfigTypes, NEW l \in Leases, Revoke(l) PROVE LeaseInv'
<1>0. /\ lease[l] \in {"held", "revoking"} /\ UNCHANGED <<db, extended, prolonged>> /\ (HasRole("revoke") => store # 0)
      /\ task[l] = NoTask /\ LeaseTypes /\ Agreed(l)
  BY DEF Revoke, LeaseInv, HasRole
<1>1. CASE HasRole("revoke")
  <2>1. Begin(l, "revoke") /\ lease' = [lease EXCEPT ![l] = "revoking"] /\ UNCHANGED excused
    BY <1>1 DEF Revoke
  <2>2. /\ task' \in [Leases -> HandlerType] /\ task'[l].op = "revoke"
        /\ \A m \in Leases \ {l} : task'[m] = task[m]
    BY <1>0, <1>1, <2>1, BeginEffect DEF Ops
  <2>3. LeaseTypes'
    BY <1>0, <2>1, <2>2 DEF LeaseTypes, Outcomes
  <2>4. Agreed(l)'
    BY <1>0, <2>1, <2>2 DEF LeaseTypes, Agreed, Misled
  <2>5. QED
    BY <1>0, <2>1, <2>2, <2>3, <2>4, OneLease DEF LeaseTypes
<1>2. CASE ~HasRole("revoke")
  <2>1. lease' = [lease EXCEPT ![l] = "revoked"] /\ Excuse(<<l, Lacking>>) /\ UNCHANGED task
    BY <1>2 DEF Revoke
  <2>2. LeaseTypes'
    BY <1>0, <2>1 DEF LeaseTypes, Outcomes
  <2>3. excused \subseteq excused' /\ Misled(l)'
    BY <2>1 DEF Excuse, Misled, Lacking
  <2>4. Agreed(l)'
    BY <1>0, <2>1, <2>3, HandlerTypes DEF LeaseTypes, Agreed
  <2>5. QED
    BY <1>0, <2>1, <2>2, <2>3, <2>4, OneLease DEF LeaseTypes
<1>3. QED
  BY <1>1, <1>2

LEMMA RenewKeeps == ASSUME LeaseInv, ConfigTypes, NEW l \in Leases, Renew(l) PROVE LeaseInv'
<1>0. /\ lease[l] = "held" /\ UNCHANGED <<db, extended, lease>> /\ (HasRole("renew") => store # 0)
      /\ task[l] = NoTask /\ LeaseTypes /\ Agreed(l)
  BY DEF Renew, LeaseInv, HasRole
<1>1. CASE HasRole("renew") /\ "renew" \in catalog[store].statements
  <2>1. Begin(l, "renew") /\ UNCHANGED <<prolonged, excused>>
    BY <1>1 DEF Renew
  <2>2. /\ task' \in [Leases -> HandlerType] /\ task'[l].op = "renew"
        /\ \A m \in Leases \ {l} : task'[m] = task[m]
    BY <1>0, <1>1, <2>1, BeginEffect DEF Ops
  <2>3. LeaseTypes'
    BY <1>0, <2>1, <2>2 DEF LeaseTypes
  <2>4. Agreed(l)'
    BY <1>0, <2>1, <2>2 DEF Agreed, Misled
  <2>5. QED
    BY <1>0, <2>1, <2>2, <2>3, <2>4, OneLease
<1>2. CASE ~(HasRole("renew") /\ "renew" \in catalog[store].statements)
  <2>1. prolonged' = prolonged \union {l} /\ Excuse(<<l, Lacking>>) /\ UNCHANGED task
    BY <1>2 DEF Renew
  <2>2. LeaseTypes'
    BY <1>0, <2>1 DEF LeaseTypes
  <2>3. excused \subseteq excused' /\ Misled(l)'
    BY <2>1 DEF Excuse, Misled, Lacking
  <2>4. Agreed(l)'
    BY <1>0, <2>1, <2>3 DEF Agreed
  <2>5. QED
    BY <1>0, <2>1, <2>2, <2>3, <2>4, OneLease
<1>3. QED
  BY <1>1, <1>2

LEMMA GetConnectionKeeps ==
  ASSUME LeaseInv, NEW l \in Leases, GetConnection(l) PROVE LeaseInv'
<1> DEFINE record == [task[l] EXCEPT !.pc = "sql", !.pool = IF @ = "none" THEN "open" ELSE @]
<1>0. /\ UNCHANGED <<db, extended, excused, lease, prolonged>> /\ task[l].pc = "connect"
      /\ task' = [task EXCEPT ![l] = record] /\ LeaseTypes /\ Agreed(l)
  BY DEF GetConnection, dbase, vault, LeaseInv
<1>1. task[l] \in [op : Ops, pc : {"connect", "sql"}, via : Configs \ {0}, pool : Shares, run : BOOLEAN]
  BY <1>0, HandlerTypes DEF LeaseTypes, HandlerType
<1>2. record \in HandlerType /\ record.op = task[l].op
  BY <1>1 DEF HandlerType, Shares, Pools
<1> HIDE DEF record
<1>3. /\ task' \in [Leases -> HandlerType] /\ task'[l].op = task[l].op
      /\ \A m \in Leases \ {l} : task'[m] = task[m]
  BY <1>0, <1>2 DEF LeaseTypes
<1>4. LeaseTypes'
  BY <1>0, <1>3 DEF LeaseTypes
<1>5. Agreed(l)'
  BY <1>0, <1>1, <1>3, HandlerTypes DEF Agreed, Ops, Misled
<1>6. QED
  BY <1>0, <1>3, <1>4, <1>5, OneLease

(* The ends of a handler whose answer says that it failed. *)
LEMMA FailedEffect ==
  ASSUME LeaseInv, NEW l \in Leases, task[l].pc # "none",
         Answer(l, Failed(task[l].op)), task' = [task EXCEPT ![l] = NoTask],
         UNCHANGED <<db, extended, excused, prolonged>>
  PROVE  LeaseInv'
<1>1. task[l].op \in Ops /\ Failed(task[l].op) \in Outcomes /\ LeaseTypes /\ Agreed(l)
  BY HandlerTypes DEF LeaseInv, LeaseTypes, Ops, Failed, Outcomes
<1>2. /\ lease' \in [Leases -> Outcomes] /\ lease'[l] \in {lease[l], Failed(task[l].op)}
      /\ \A m \in Leases \ {l} : lease'[m] = lease[m]
  BY <1>1, AnswerEffect
<1>3. /\ task' \in [Leases -> HandlerType] /\ task'[l] = NoTask /\ task'[l].op = "none"
      /\ \A m \in Leases \ {l} : task'[m] = task[m]
  BY <1>1, EndEffect
<1>4. LeaseTypes'
  BY <1>1, <1>2, <1>3 DEF LeaseTypes
<1>5. Agreed(l)'
  BY <1>1, <1>2, <1>3 DEF Agreed, Misled, Failed, Ops
<1>6. QED
  BY <1>2, <1>3, <1>4, <1>5, OneLease

LEMMA RefusedKeeps ==
  ASSUME LeaseInv, NEW l \in Leases, ConnectRefused(l) \/ NoSuchUser(l) PROVE LeaseInv'
BY FailedEffect DEF ConnectRefused, NoSuchUser, dbase

(* What the handler of a lease that has reached the database knows. *)
LEMMA AtWork ==
  ASSUME LeaseInv, NEW l \in Leases, task[l].pc = "sql"
  PROVE  /\ LeaseTypes /\ Agreed(l) /\ task[l].op \in Ops
         /\ task[l].via \in Configs \ {0} /\ task[l] # NoTask
BY HandlerTypes DEF LeaseInv, LeaseTypes

LEMMA CreatedKeeps == ASSUME LeaseInv, NEW l \in Leases, Created(l) PROVE LeaseInv'
<1>0. /\ task[l].op = "generate" /\ Answer(l, "held") /\ task[l].pc = "sql"
      /\ task' = [task EXCEPT ![l] = NoTask] /\ UNCHANGED <<extended, prolonged>>
  BY DEF Created
<1>1. LeaseTypes /\ Agreed(l) /\ task[l].via \in Configs \ {0} /\ task[l] # NoTask
  BY <1>0, AtWork
<1>2. /\ lease' \in [Leases -> Outcomes] /\ lease'[l] \in {lease[l], "held"}
      /\ \A m \in Leases \ {l} : lease'[m] = lease[m]
  BY <1>0, <1>1, AnswerEffect DEF Outcomes
<1>3. /\ task' \in [Leases -> HandlerType] /\ task'[l] = NoTask /\ task'[l].op = "none"
      /\ \A m \in Leases \ {l} : task'[m] = task[m]
  BY <1>0, <1>1, EndEffect
<1>4. /\ db' \in [Leases -> Configs] /\ excused \subseteq excused'
      /\ \A m \in Leases \ {l} : db'[m] = db[m]
      /\ db'[l] # 0 \/ <<l, "statementless">> \in excused'
  <2>1. CASE db' = [db EXCEPT ![l] = task[l].via] /\ UNCHANGED excused
    BY <1>1, <2>1 DEF LeaseTypes
  <2>2. CASE Excuse(<<l, "statementless">>) /\ UNCHANGED db
    BY <1>1, <2>2 DEF LeaseTypes, Excuse
  <2>3. QED
    BY <2>1, <2>2 DEF Created
<1>5. LeaseTypes'
  BY <1>0, <1>1, <1>2, <1>3, <1>4 DEF LeaseTypes
<1>6. Agreed(l)'
  <2>1. lease[l] = "asked" /\ (Misled(l) => Misled(l)')
    BY <1>0, <1>1, <1>4 DEF Agreed, Misled
  <2>2. QED
    BY <1>0, <1>1, <1>2, <1>3, <1>4, <2>1 DEF Agreed
<1>7. QED
  BY <1>0, <1>2, <1>3, <1>4, <1>5, <1>6, OneLease

LEMMA RevokedKeeps == ASSUME LeaseInv, NEW l \in Leases, Revoked(l) PROVE LeaseInv'
<1>0. /\ task[l].op = "revoke" /\ Answer(l, "revoked") /\ task[l].pc = "sql"
      /\ task' = [task EXCEPT ![l] = NoTask] /\ UNCHANGED <<extended, prolonged>>
  BY DEF Revoked
<1>1. LeaseTypes /\ Agreed(l) /\ task[l].via \in Configs \ {0} /\ lease[l] = "revoking"
  BY <1>0, AtWork DEF Agreed
<1>2. /\ lease' \in [Leases -> Outcomes] /\ lease'[l] \in {lease[l], "revoked"}
      /\ \A m \in Leases \ {l} : lease'[m] = lease[m]
  BY <1>0, <1>1, AnswerEffect DEF Outcomes
<1>3. /\ task' \in [Leases -> HandlerType] /\ task'[l] = NoTask /\ task'[l].op = "none"
      /\ \A m \in Leases \ {l} : task'[m] = task[m]
  BY <1>0, <1>1, EndEffect
<1>4. /\ db' \in [Leases -> Configs] /\ excused \subseteq excused'
      /\ \A m \in Leases \ {l} : db'[m] = db[m]
      /\ db'[l] = 0 \/ Misled(l)'
  <2>1. CASE db' = [db EXCEPT ![l] = 0] /\ UNCHANGED excused
    BY DynamicSecretsAssumption, <1>1, <2>1 DEF LeaseTypes, Configs
  <2>2. CASE Excuse(<<l, IF task[l].run THEN "misdirected" ELSE "statementless">>) /\ UNCHANGED db
    BY <1>1, <2>2 DEF LeaseTypes, Excuse, Misled
  <2>3. QED
    BY <2>1, <2>2 DEF Revoked
<1>5. LeaseTypes'
  BY <1>0, <1>1, <1>2, <1>3, <1>4 DEF LeaseTypes
<1>6. Agreed(l)'
  <2>1. Misled(l) => Misled(l)'
    BY <1>4 DEF Misled
  <2>2. QED
    BY <1>0, <1>1, <1>2, <1>3, <1>4, <2>1 DEF Agreed
<1>7. QED
  BY <1>0, <1>2, <1>3, <1>4, <1>5, <1>6, OneLease

LEMMA RenewedKeeps == ASSUME LeaseInv, NEW l \in Leases, Renewed(l) PROVE LeaseInv'
<1>0. /\ task[l].op = "renew" /\ task[l].pc = "sql" /\ UNCHANGED <<db, lease>>
      /\ task' = [task EXCEPT ![l] = NoTask] /\ prolonged' \in {prolonged, prolonged \union {l}}
  BY DEF Renewed
<1>1. LeaseTypes /\ Agreed(l) /\ lease[l] = "held"
  BY <1>0, AtWork DEF Agreed
<1>2. /\ task' \in [Leases -> HandlerType] /\ task'[l] = NoTask /\ task'[l].op = "none"
      /\ \A m \in Leases \ {l} : task'[m] = task[m]
  BY <1>0, <1>1, EndEffect
<1>3. /\ extended' \in {extended, extended \union {l}} /\ excused \subseteq excused'
      /\ l \in extended' \/ Misled(l)'
  <2>1. CASE extended' = extended \union {l} /\ UNCHANGED excused
    BY <2>1
  <2>2. CASE Excuse(<<l, "misdirected">>) /\ UNCHANGED extended
    BY <2>2 DEF Excuse, Misled
  <2>3. QED
    BY <2>1, <2>2 DEF Renewed
<1>4. LeaseTypes'
  BY <1>0, <1>1, <1>2, <1>3 DEF LeaseTypes
<1>5. Agreed(l)'
  BY <1>0, <1>1, <1>2, <1>3 DEF Agreed
<1>6. QED
  BY <1>0, <1>2, <1>3, <1>4, <1>5, OneLease

LEMMA SqlFailsKeeps == ASSUME LeaseInv, NEW l \in Leases, SqlFails(l) PROVE LeaseInv'
<1>0. /\ task[l].pc = "sql" /\ Answer(l, Failed(task[l].op))
      /\ task' = [task EXCEPT ![l] = NoTask] /\ UNCHANGED <<extended, prolonged>>
  BY DEF SqlFails
<1>1. /\ LeaseTypes /\ Agreed(l) /\ task[l].via \in Configs \ {0} /\ task[l].op \in Ops
      /\ Failed(task[l].op) \in Outcomes
  BY <1>0, AtWork DEF Ops, Failed, Outcomes
<1>2. CASE UNCHANGED <<db, excused>>
  BY <1>0, <1>2, FailedEffect
<1>3. CASE ~UNCHANGED <<db, excused>>
  <2>1. /\ lease' \in [Leases -> Outcomes] /\ lease'[l] \in {lease[l], Failed(task[l].op)}
        /\ \A m \in Leases \ {l} : lease'[m] = lease[m]
    BY <1>0, <1>1, AnswerEffect
  <2>2. /\ task' \in [Leases -> HandlerType] /\ task'[l] = NoTask /\ task'[l].op = "none"
        /\ \A m \in Leases \ {l} : task'[m] = task[m]
    BY <1>0, <1>1, EndEffect
  <2>3. CASE task[l].op = "generate" /\ db' = [db EXCEPT ![l] = task[l].via] /\ Excuse(<<l, "torn">>)
    <3>1. LeaseTypes' /\ excused \subseteq excused' /\ <<l, "torn">> \in excused'
      BY <1>0, <1>1, <2>1, <2>2, <2>3 DEF LeaseTypes, Excuse
    <3>2. Misled(l) => Misled(l)'
      BY <3>1 DEF Misled
    <3>3. Agreed(l)'
      BY <1>0, <1>1, <2>1, <2>2, <2>3, <3>1, <3>2 DEF Agreed, Failed
    <3>4. QED
      BY <1>0, <1>1, <2>1, <2>2, <2>3, <3>1, <3>3, OneLease DEF LeaseTypes
  <2>4. CASE task[l].op = "revoke" /\ db' = [db EXCEPT ![l] = 0] /\ UNCHANGED excused
    <3>1. LeaseTypes'
      BY DynamicSecretsAssumption, <1>0, <1>1, <2>1, <2>2, <2>4 DEF LeaseTypes, Configs
    <3>2. Agreed(l)'
      BY <1>0, <1>1, <2>1, <2>2, <2>4 DEF Agreed, Failed, Misled, LeaseTypes
    <3>3. QED
      BY <1>0, <1>1, <2>1, <2>2, <2>4, <3>1, <3>2, OneLease DEF LeaseTypes
  <2>5. QED
    BY <1>3, <2>3, <2>4 DEF SqlFails
<1>4. QED
  BY <1>2, <1>3

(* The process ends; statements of a generation that get through leave a credential for a lease
   the vault has asked for. *)
LEMMA RestartedKeeps == ASSUME LeaseInv, Restarted PROVE LeaseInv'
<1>0. /\ task' = [l \in Leases |-> NoTask] /\ UNCHANGED <<extended, lease, prolonged, excused>>
  BY DEF Restarted
<1>1. PICK through \in SUBSET {l \in Leases : task[l].pc = "sql" /\ task[l].op = "generate" /\ task[l].run} :
        db' = [l \in Leases |-> IF l \in through THEN task[l].via ELSE db[l]]
  BY DEF Restarted
<1>2. LeaseTypes'
  <2>1. \A l \in through : task[l].via \in Configs
    BY AtWork
  <2>2. QED
    BY <1>0, <1>1, <2>1, HandlerTypes DEF LeaseInv, LeaseTypes
<1>3. ASSUME NEW l \in Leases PROVE Agreed(l)'
  <2>1. Agreed(l) /\ (Misled(l) => Misled(l)') /\ task'[l] = NoTask /\ task'[l].op = "none"
    BY <1>0, HandlerTypes DEF LeaseInv, Misled
  <2>2. CASE l \notin through
    BY <1>0, <1>1, <2>1, <2>2 DEF Agreed
  <2>3. CASE l \in through
    <3>1. lease[l] = "asked" /\ task[l].op = "generate"
      BY <2>1, <2>3 DEF Agreed
    <3>2. QED
      BY <1>0, <2>1, <3>1 DEF Agreed
  <2>4. QED
    BY <2>2, <2>3
<1>4. QED
  BY <1>2, <1>3 DEF LeaseInv

LEMMA LinkStepsKeep ==
  ASSUME LeaseInv,
         PushConfig \/ PushFails \/ (\E v \in ending : ClientClosed(v) \/ ClientCloseFails(v))
           \/ LinkDrops \/ Reconnect \/ Cleanup
  PROVE  LeaseInv'
<1>1. UNCHANGED <<task, db, lease, extended, prolonged>> /\ excused \subseteq excused'
  BY DEF PushConfig, PushFails, ClientClosed, ClientCloseFails, LinkDrops, Reconnect, Cleanup, dbase, vault
<1>2. QED
  BY <1>1, SameLeases

(* The handlers that work on a pool which closeClient() ends are marked. *)
LEMMA RevokeConfigKeeps == ASSUME LeaseInv, RevokeConfig PROVE LeaseInv'
<1>0. /\ task' = [l \in Leases |-> IF pool = "open" /\ task[l].pool = "open" /\ task[l].via = cached
                                  THEN [task[l] EXCEPT !.pool = "ending"] ELSE task[l]]
      /\ UNCHANGED <<db, lease, extended, prolonged, excused>> /\ LeaseTypes
  BY DEF RevokeConfig, dbase, LeaseInv
<1>1. ASSUME NEW l \in Leases PROVE task'[l] \in HandlerType /\ task'[l].op = task[l].op /\ (task[l] = NoTask => task'[l] = NoTask)
  <2>1. task[l] \in HandlerType
    BY <1>0 DEF LeaseTypes
  <2>2. CASE task[l] = NoTask
    BY <1>0, <2>2, HandlerTypes
  <2>3. CASE task[l] # NoTask
    <3>1. task[l] \in [op : Ops, pc : {"connect", "sql"}, via : Configs \ {0}, pool : Shares, run : BOOLEAN]
      BY <2>1, <2>3 DEF HandlerType
    <3>2. /\ [task[l] EXCEPT !.pool = "ending"] \in HandlerType
          /\ [task[l] EXCEPT !.pool = "ending"].op = task[l].op
      BY <3>1 DEF HandlerType, Shares
    <3>3. task'[l] \in {task[l], [task[l] EXCEPT !.pool = "ending"]}
      BY <1>0
    <3>4. QED
      BY <2>1, <2>3, <3>2, <3>3
  <2>4. QED
    BY <2>2, <2>3
<1>2. LeaseTypes'
  <2>1. task' \in [Leases -> HandlerType]
    BY <1>0, <1>1
  <2>2. QED
    BY <1>0, <2>1 DEF LeaseTypes
<1>3. ASSUME NEW l \in Leases PROVE Agreed(l)'
  <2>1. Agreed(l) /\ (Misled(l) => Misled(l)')
    BY <1>0 DEF LeaseInv, Misled
  <2>2. QED
    BY <1>0, <1>1, <2>1 DEF Agreed
<1>4. QED
  BY <1>2, <1>3 DEF LeaseInv

LEMMA SqlStepsKeep == ASSUME LeaseInv, NEW l \in Leases, SqlEnds(l) PROVE LeaseInv'
BY CreatedKeeps, RevokedKeeps, RenewedKeeps, SqlFailsKeeps, RefusedKeeps DEF SqlEnds

(* The handlers of leases leave the configuration alone, but for the client and the excuses. *)
LEMMA SameConfig ==
  ASSUME ConfigInv, UNCHANGED <<catalog, store, ending, wanted, newest, acked, unremoved>>,
         cached' \in Configs, pool' \in Pools, cached' = 0 => pool' = "none",
         excused' \subseteq Leases \X Reasons
  PROVE  ConfigInv'
BY DEF ConfigInv, ConfigTypes, Leaving, AckedIsStored

LEMMA HandlersKeepConfig ==
  ASSUME LeaseInv, ConfigInv, NEW l \in Leases,
         \/ Generate(l) \/ Revoke(l) \/ Renew(l)
         \/ GetConnection(l) \/ ConnectRefused(l) \/ SqlEnds(l)
  PROVE  ConfigInv'
<1>0. LeaseTypes /\ ConfigTypes
  BY DEF LeaseInv, ConfigInv
<1>1. cached' \in Configs /\ pool' \in Pools /\ (cached' = 0 => pool' = "none")
  <2>1. CASE UNCHANGED <<cached, pool>>
    BY <1>0, <2>1 DEF ConfigTypes
  <2>2. CASE store # 0 /\ UseClient
    BY <1>0, <2>2, ClientEffect
  <2>3. CASE GetConnection(l)
    <3>1. task[l].via # 0
      BY <2>3, <1>0, HandlerTypes DEF GetConnection, LeaseTypes
    <3>2. UNCHANGED cached /\ (pool' = pool \/ (pool' \in {"none", "open"} /\ task[l].via = cached))
      BY <2>3 DEF GetConnection
    <3>3. QED
      BY <1>0, <3>1, <3>2 DEF ConfigTypes, Pools
  <2>4. CASE ~GetConnection(l)
    <3>1. UNCHANGED <<cached, pool>> \/ (store # 0 /\ UseClient)
      BY <2>4 DEF Generate, Revoke, Renew, HasRole, Begin, ConnectRefused, SqlEnds, Created, Revoked,
                  Renewed, SqlFails, NoSuchUser, agent
    <3>2. QED
      BY <2>1, <2>2, <3>1
  <2>5. QED
    BY <2>3, <2>4
<1>2. UNCHANGED <<catalog, store, ending, wanted, newest, acked, unremoved>>
  BY DEF Generate, Revoke, Renew, GetConnection, ConnectRefused, SqlEnds, Created, Revoked, Renewed,
         SqlFails, NoSuchUser, agent, vault
<1>3. excused' \subseteq Leases \X Reasons
  <2>1. UNCHANGED excused \/ \E r \in Reasons : Excuse(<<l, r>>)
    BY DEF Generate, Revoke, Renew, GetConnection, ConnectRefused, SqlEnds, Created, Revoked,
           Renewed, SqlFails, NoSuchUser, dbase, Reasons, Lacking
  <2>2. QED
    BY <1>0, <2>1 DEF Excuse, ConfigTypes
<1>4. QED
  BY <1>1, <1>2, <1>3, SameConfig

(* A push that is acknowledged is stored, or a newer version is. *)
LEMMA PushKeepsConfig == ASSUME ConfigInv, PushConfig PROVE ConfigInv'
<1>1. PICK v \in 1..MaxConfig :
        /\ wanted' = v /\ newest' = v /\ store' = StoreConfig(catalog[v].payload)
        /\ acked' = [payload |-> catalog[v].payload, late |-> ending # {}]
  BY DEF PushConfig, Pushed
<1>2. UNCHANGED <<catalog, cached, pool, ending, excused, unremoved>>
  BY DEF PushConfig, dbase
<1>3. PICK payload \in 1..MaxConfig : payload = catalog[v].payload
  BY DynamicSecretsAssumption DEF ConfigInv, ConfigTypes
<1>4. wanted' \in Configs /\ newest' \in Configs /\ acked' \in Acks /\ acked'.payload = payload
      /\ acked'.late = (ending # {})
  BY <1>1, <1>3 DEF Configs, Acks
<1>5. store' \in Configs /\ store' >= payload
  BY <1>1, <1>3 DEF ConfigInv, ConfigTypes, StoreConfig, Configs
<1>6. ConfigTypes'
  BY <1>2, <1>4, <1>5 DEF ConfigInv, ConfigTypes
<1>7. Leaving' /\ AckedIsStored'
  BY <1>2, <1>4, <1>5 DEF Leaving, AckedIsStored
<1>8. QED
  BY <1>6, <1>7 DEF ConfigInv

LEMMA LinkStepsKeepConfig ==
  ASSUME ConfigInv,
         PushFails \/ RevokeConfig \/ (\E v \in ending : ClientClosed(v) \/ ClientCloseFails(v))
           \/ LinkDrops \/ Reconnect \/ Cleanup \/ CleanupEnds \/ Killed
  PROVE  ConfigInv'
<1>1. 0 \in Configs /\ 1..MaxConfig \subseteq Configs /\ NoAck \in Acks
  BY DynamicSecretsAssumption DEF Configs, Acks, NoAck
<1>2. UNCHANGED <<catalog, excused>>
  BY DEF PushFails, RevokeConfig, ClientClosed, ClientCloseFails, LinkDrops, Reconnect, Cleanup,
         CleanupEnds, Killed, Restarted, dbase, vault
<1>3. {store', cached', wanted', newest'} \subseteq Configs /\ acked' \in Acks
  BY <1>1 DEF ConfigInv, ConfigTypes, PushFails, Pushed, RevokeConfig, ClientClosed, ClientCloseFails,
         Remove, LinkDrops, Reconnect, Cleanup, CleanupEnds, Killed, Restarted, agent, vault
<1>4. pool' \in Pools /\ (cached' = 0 => pool' = "none")
  BY DEF ConfigInv, ConfigTypes, Pools, PushFails, RevokeConfig, ClientClosed, ClientCloseFails,
         Remove, LinkDrops, Reconnect, Cleanup, CleanupEnds, Killed, Restarted, agent
<1>5. ending' \subseteq 1..MaxConfig /\ unremoved' \in BOOLEAN
  <2>1. CASE RevokeConfig
    <3>1. unremoved' \in BOOLEAN
      BY <2>1 DEF RevokeConfig, Remove
    <3>2. ending' = ending \/ (ending' = ending \union {cached} /\ pool = "open")
      BY <2>1 DEF RevokeConfig
    <3>3. pool = "open" => cached \in 1..MaxConfig
      BY DynamicSecretsAssumption DEF ConfigInv, ConfigTypes, Configs
    <3>4. QED
      BY <3>1, <3>2, <3>3 DEF ConfigInv, ConfigTypes
  <2>2. CASE ~RevokeConfig
    BY <2>2 DEF ConfigInv, ConfigTypes, PushFails, ClientClosed, ClientCloseFails,
         Remove, LinkDrops, Reconnect, Cleanup, CleanupEnds, Killed, Restarted, agent
  <2>3. QED
    BY <2>1, <2>2
<1>6. \/ acked' = NoAck
      \/ UNCHANGED <<acked, ending, store>>
      \/ ending # {} /\ UNCHANGED acked
  BY DEF PushFails, RevokeConfig, ClientClosed, ClientCloseFails, LinkDrops, Reconnect, Cleanup,
         CleanupEnds, Killed, Restarted, agent, vault
<1>7. Leaving' /\ AckedIsStored'
  BY <1>6 DEF ConfigInv, Leaving, AckedIsStored
<1>8. QED
  BY <1>2, <1>3, <1>4, <1>5, <1>7 DEF ConfigInv, ConfigTypes

(* While the agent cleans up the WebSocket is closed. *)
LEMMA LinkTyped == LinkTypes /\ [DynamicNext]_dynamicVars => LinkTypes'
<1> SUFFICES ASSUME LinkTypes, [DynamicNext]_dynamicVars PROVE LinkTypes'
  OBVIOUS
<1>1. CASE LinkDrops \/ Reconnect \/ Cleanup \/ CleanupEnds \/ Killed
  <2>1. CASE LinkDrops
    BY <2>1 DEF LinkTypes, LinkDrops, agent
  <2>2. CASE Reconnect
    BY <2>2 DEF LinkTypes, Reconnect, agent
  <2>3. CASE Cleanup
    BY <2>3 DEF LinkTypes, Cleanup
  <2>4. CASE CleanupEnds \/ Killed
    BY <2>4 DEF LinkTypes, CleanupEnds, Killed, Restarted
  <2>5. QED
    BY <1>1, <2>1, <2>2, <2>3, <2>4
<1>2. CASE UNCHANGED <<link, stopping>>
  BY <1>2 DEF LinkTypes
<1>3. PushConfig \/ PushFails \/ RevokeConfig \/ (\E v \in ending : ClientClosed(v) \/ ClientCloseFails(v))
        => UNCHANGED <<link, stopping>>
  BY DEF PushConfig, PushFails, RevokeConfig, ClientClosed, ClientCloseFails, agent
<1>4. ASSUME NEW l \in Leases,
             \/ Generate(l) \/ Revoke(l) \/ Renew(l)
             \/ GetConnection(l) \/ ConnectRefused(l) \/ SqlEnds(l)
      PROVE  UNCHANGED <<link, stopping>>
  BY <1>4 DEF Generate, Revoke, Renew, GetConnection, ConnectRefused, SqlEnds, Created, Revoked,
              Renewed, SqlFails, NoSuchUser, agent
<1>5. UNCHANGED dynamicVars => UNCHANGED <<link, stopping>>
  BY DEF dynamicVars, agent
<1>6. QED
  BY <1>1, <1>2, <1>3, <1>4, <1>5 DEF DynamicNext

LEMMA FailuresTyped == FailureType /\ [DynamicNext]_dynamicVars => FailureType'
<1> SUFFICES ASSUME FailureType, [DynamicNext]_dynamicVars PROVE FailureType'
  OBVIOUS
<1>1. Failure \/ UNCHANGED failures => FailureType'
  BY DynamicSecretsAssumption DEF Failure, FailureType
<1>2. PushConfig \/ RevokeConfig \/ (\E v \in ending : ClientClosed(v)) \/ Reconnect \/ CleanupEnds
        \/ UNCHANGED dynamicVars
        => UNCHANGED failures
  BY DEF PushConfig, RevokeConfig, ClientClosed, Reconnect, CleanupEnds, dynamicVars
<1>3. PushFails \/ (\E v \in ending : ClientCloseFails(v)) \/ LinkDrops \/ Cleanup \/ Killed => Failure
  BY DEF PushFails, ClientCloseFails, LinkDrops, Cleanup, Killed
<1>4. ASSUME NEW l \in Leases,
             \/ Generate(l) \/ Revoke(l) \/ Renew(l)
             \/ GetConnection(l) \/ ConnectRefused(l) \/ SqlEnds(l)
      PROVE  Failure \/ UNCHANGED failures
  BY <1>4 DEF Generate, Revoke, Renew, GetConnection, ConnectRefused, SqlEnds, Created, Revoked,
              Renewed, SqlFails, NoSuchUser
<1>5. QED
  BY <1>1, <1>2, <1>3, <1>4 DEF DynamicNext

DynamicInv == LeaseInv /\ ConfigInv

LEMMA DynamicStep == DynamicInv /\ [DynamicNext]_dynamicVars => DynamicInv'
<1> SUFFICES ASSUME LeaseInv, ConfigInv, [DynamicNext]_dynamicVars PROVE LeaseInv' /\ ConfigInv'
  BY DEF DynamicInv
<1>1. CASE UNCHANGED dynamicVars
  <2>1. LeaseInv'
    BY <1>1, SameLeases DEF dynamicVars, dbase, vault
  <2>2. ConfigInv'
    BY <1>1 DEF ConfigInv, ConfigTypes, Leaving, AckedIsStored, dynamicVars, agent, dbase, vault
  <2>3. QED
    BY <2>1, <2>2
<1>2. CASE PushConfig
  BY <1>2, LinkStepsKeep, PushKeepsConfig
<1>3. CASE PushFails \/ RevokeConfig \/ (\E v \in ending : ClientClosed(v) \/ ClientCloseFails(v))
             \/ LinkDrops \/ Reconnect \/ Cleanup
  BY <1>3, LinkStepsKeep, RevokeConfigKeeps, LinkStepsKeepConfig
<1>4. CASE CleanupEnds \/ Killed
  BY <1>4, RestartedKeeps, LinkStepsKeepConfig DEF CleanupEnds, Killed
<1>5. ASSUME NEW l \in Leases,
             \/ Generate(l) \/ Revoke(l) \/ Renew(l)
             \/ GetConnection(l) \/ ConnectRefused(l) \/ SqlEnds(l)
      PROVE  LeaseInv' /\ ConfigInv'
  <2>1. ConfigInv' /\ ConfigTypes
    BY <1>5, HandlersKeepConfig DEF ConfigInv
  <2>2. LeaseInv'
    BY <1>5, <2>1, GenerateKeeps, RevokeKeeps, RenewKeeps, GetConnectionKeeps, RefusedKeeps,
       SqlStepsKeep
  <2>3. QED
    BY <2>1, <2>2
<1>6. QED
  BY <1>1, <1>2, <1>3, <1>4, <1>5 DEF DynamicNext

(* The inductive invariant of the dynamic secrets: the handler of a lease, its credential and what
   the vault was told agree, or an excuse is on record, and a configuration on its way out is not
   acknowledged unless its push came meanwhile. *)
THEOREM DynamicInvHolds == DynamicSpec => []DynamicInv
<1>1. DynamicInit => DynamicInv
  <2> SUFFICES ASSUME DynamicInit PROVE DynamicInv
    OBVIOUS
  <2>1. 0 \in Configs /\ NoAck \in Acks
    BY DynamicSecretsAssumption DEF Configs, Acks, NoAck
  <2>2. LeaseInv
    BY <2>1, HandlerTypes DEF DynamicInit, LeaseInv, LeaseTypes, Agreed, Misled, Outcomes
  <2>3. ConfigInv
    BY <2>1 DEF DynamicInit, ConfigInv, ConfigTypes, Leaving, AckedIsStored, Pools
  <2>4. QED
    BY <2>2, <2>3 DEF DynamicInv
<1>2. QED
  BY <1>1, DynamicStep, PTL DEF DynamicSpec

(* The types of all variables; a handler that reached the database has a client made from some
   configuration. *)
THEOREM DynamicTypesHold == DynamicSpec => []DynamicTypeOK
<1>1. DynamicInit => LinkTypes /\ FailureType
  <2>1. DynamicInit => LinkTypes
    BY DEF DynamicInit, LinkTypes
  <2>2. DynamicInit => FailureType
    BY DynamicSecretsAssumption DEF DynamicInit, FailureType
  <2>3. QED
    BY <2>1, <2>2
<1>2. DynamicInv /\ LinkTypes /\ FailureType => DynamicTypeOK
  <2> SUFFICES ASSUME LeaseTypes, ConfigTypes, LinkTypes, FailureType PROVE DynamicTypeOK
    BY DEF DynamicInv, LeaseInv, ConfigInv
  <2>1. \A l \in Leases : task[l] = NoTask \/ task[l] \in [op : Ops, pc : {"connect", "sql"}, via : Configs \ {0}, pool : Shares, run : BOOLEAN]
    BY DEF LeaseTypes, HandlerType
  <2>2. link \in BOOLEAN /\ stopping \in BOOLEAN /\ (stopping => ~link)
    BY DEF LinkTypes
  <2>3. QED
    BY <2>1, <2>2 DEF LeaseTypes, ConfigTypes, FailureType, Outcomes, DynamicTypeOK
<1>3. QED
  BY <1>1, <1>2, DynamicInvHolds, LinkTyped, FailuresTyped, PTL DEF DynamicSpec

(* Every credential in a database has a lease the vault holds or asks about, or the vault was told
   of a failure, or what kept its revocation from the database is one of the four known reasons:
   through lost links, killed agents, statements that break off, and configurations that change
   under the handlers or lack their role or statements (handleGenerate, handleRevoke,
   getOrCreateClient). *)
THEOREM CredentialsHold == DynamicSpec => []CredentialsAccountedFor
<1>1. DynamicInv => CredentialsAccountedFor
  <2> SUFFICES ASSUME LeaseInv, NEW l \in Leases, db[l] # 0
               PROVE  \/ lease[l] \in {"asked", "held", "revoking", "kept"}
                      \/ lease[l] = "refused" /\ <<l, "torn">> \in excused
                      \/ lease[l] = "revoked" /\ Misled(l)
    BY DEF DynamicInv, CredentialsAccountedFor
  <2>1. lease[l] \in Outcomes /\ Agreed(l)
    BY DEF LeaseInv, LeaseTypes
  <2>2. QED
    BY <2>1 DEF Outcomes, Agreed
<1>2. QED
  BY <1>1, DynamicInvHolds, PTL

(* A lease that the vault holds has its credential in a database, unless its role has no
   statements that create one (handleGenerate). *)
THEOREM HeldLeasesAreReal == DynamicSpec => []HeldIsReal
<1>1. DynamicInv => HeldIsReal
  BY DEF DynamicInv, LeaseInv, Agreed, HeldIsReal
<1>2. QED
  BY <1>1, DynamicInvHolds, PTL

(* A renewal the vault was told of was made in the database, unless the configuration, its role
   or its statements were missing or the client belonged to another configuration (handleRenew). *)
THEOREM RenewalsAreReal == DynamicSpec => []RenewedIsExtended
<1>1. DynamicInv => RenewedIsExtended
  BY DEF DynamicInv, LeaseInv, LeaseTypes, Agreed, RenewedIsExtended
<1>2. QED
  BY <1>1, DynamicInvHolds, PTL

(* The payload of an acknowledged push, or a newer one, is in the store as long as its connection
   lasts and the vault does not revoke it, unless it came while a revocation waited for a client
   (handleConfigPush, handleConfigRevoke). *)
THEOREM AckedHolds == DynamicSpec => []AckedIsStored
<1>1. DynamicInv => AckedIsStored
  BY DEF DynamicInv, ConfigInv
<1>2. QED
  BY <1>1, DynamicInvHolds, PTL
=============================================================================
