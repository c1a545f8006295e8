------------------------ MODULE ChildProcess_proofs ------------------------
(***************************************************************************)
(* Proofs about the child process manager, for every set of process ids,   *)
(* every number of overlapping calls and every configuration.              *)
(***************************************************************************)
EXTENDS ChildProcess, TLAPS

LEMMA CountFacts == CountCap \in Nat /\ MaxRestarts \in Nat /\ CountCap > MaxRestarts
BY CountAssumption

LEMMA ZeroCount == 0 \in 0..CountCap
BY CountAssumption

(* One more counted exit stays in range, and is not exceeded only if it was
   counted in full. *)
LEMMA NextCountFacts ==
  ASSUME restartCount \in 0..CountCap, windowOpen \in BOOLEAN
  PROVE  /\ NextCount \in 0..CountCap
         /\ ~Exceeded /\ windowOpen => NextCount = restartCount + 1
         /\ windowOpen => NextCount >= restartCount
         /\ ~Exceeded => NextCount <= MaxRestarts
         /\ ~windowOpen => NextCount = 1
BY CountFacts DEF NextCount, Exceeded, Bump

(* What a call of start() changes keeps its type. *)
StartTypes == /\ task' \in [Tasks -> Call]
              /\ termed' \subseteq Pids
              /\ pidFile' \in Pids \cup {NoPid}
              /\ status' \in ChildProcessStatus
              /\ sigExit' \in BOOLEAN

LEMMA StartUpToAwaitTypes ==
  ASSUME TypeOK, NEW ts, NEW by \in {"boot", "timer", "restart"},
         NEW alive \in SUBSET Pids, NEW asked \in SUBSET Pids,
         NEW st \in ChildProcessStatus,
         StartUpToAwait(ts, by, alive, asked, st)
  PROVE  StartTypes
<1> DEFINE call == [at  |-> IF pidFile \in alive THEN "orphan" ELSE "secrets",
                    pid |-> IF pidFile \in alive THEN pidFile ELSE NoPid, by |-> by]
<1>1. call \in Call
  BY DEF TypeOK, OsTypes, Call
<1>2. task' = [t \in Tasks |-> IF t \in ts THEN call ELSE task[t]]
  BY DEF StartUpToAwait
<1>3. task' \in [Tasks -> Call]
  BY <1>1, <1>2 DEF TypeOK, CallTypes
<1>4. termed' \subseteq Pids /\ pidFile' \in Pids \cup {NoPid}
  BY DEF StartUpToAwait, TypeOK, OsTypes
<1>5. status' \in ChildProcessStatus
  BY DEF StartUpToAwait, ChildProcessStatus
<1>6. sigExit' \in BOOLEAN
  BY DEF StartUpToAwait
<1>7. QED
  BY <1>3, <1>4, <1>5, <1>6 DEF StartTypes

LEMMA CallStartTypes ==
  ASSUME TypeOK, NEW t, NEW by \in {"boot", "timer", "restart"}, CallStart(t, by)
  PROVE  StartTypes
<1>1. CASE MayStart
  <2>1. StartUpToAwait({t}, by, live, termed, status)
    BY <1>1 DEF CallStart
  <2>2. live \in SUBSET Pids /\ termed \in SUBSET Pids /\ status \in ChildProcessStatus
    BY DEF TypeOK, OsTypes, ManagerTypes
  <2>3. QED BY <2>1, <2>2, StartUpToAwaitTypes
<1>2. CASE ~MayStart
  BY <1>2 DEF CallStart, TypeOK, CallTypes, OsTypes, ManagerTypes, FileTypes, StartTypes
<1>3. QED BY <1>1, <1>2

LEMMA AgentEndsTypes ==
  ASSUME TypeOK, NEW how \in {"exited", "killed"}, AgentEnds(how)
  PROVE  TypeOK'
<1>1. AgentTypes'
  BY RequestAssumption DEF AgentEnds, AgentTypes
<1>2. ManagerTypes'
  BY ZeroCount DEF AgentEnds, ManagerTypes, ChildProcessStatus
<1>3. CallTypes'
  BY DEF AgentEnds, CallTypes, Idle, Call
<1>4. OsTypes'
  BY DEF AgentEnds, OsTypes, TypeOK
<1>5. FileTypes'
  BY DEF AgentEnds, FileTypes, FilesAfter
<1>6. HistType'
  BY ZeroCount DEF AgentEnds, HistType, HistInit, TypeOK
<1>7. QED
  BY <1>1, <1>2, <1>3, <1>4, <1>5, <1>6 DEF TypeOK

(* The exit event of a child keeps the types of what it changes. *)
LEMMA HandleCrashTypes ==
  ASSUME TypeOK, NEW p, HandleCrash(p)
  PROVE  /\ restartCount' \in 0..CountCap /\ windowOpen' \in BOOLEAN
         /\ timers' \in Nat /\ timerHeld' \in BOOLEAN /\ (timerHeld' => timers' > 0)
         /\ HistType'
<1>1. restartCount \in 0..CountCap /\ windowOpen \in BOOLEAN /\ timers \in Nat
  BY DEF TypeOK, ManagerTypes
<1>2. restartCount' \in 0..CountCap /\ windowOpen' \in BOOLEAN
  BY <1>1, NextCountFacts DEF HandleCrash
<1>3. timers' \in Nat /\ timerHeld' \in BOOLEAN /\ (timerHeld' => timers' > 0)
  BY <1>1 DEF HandleCrash, Scheduled, TypeOK, ManagerTypes
<1>4. HistType'
  <2> DEFINE auto    == IF windowOpen THEN hist.auto ELSE 0
             crashes == IF windowOpen THEN hist.crashes ELSE 0
             H       == [auto : Nat, crashes : 0..CountCap, startFailed : BOOLEAN, lost : BOOLEAN]
  <2>0. hist \in H
    BY DEF TypeOK, HistType
  <2>1. auto \in Nat /\ crashes \in 0..CountCap
    BY <2>0, ZeroCount
  <2> DEFINE a == IF Exceeded THEN auto ELSE auto + 1
             c == IF p \in termed THEN crashes ELSE Bump(crashes)
  <2>2. a \in Nat /\ c \in 0..CountCap
    BY <2>1, CountFacts DEF Bump
  <2>3. hist' = [hist EXCEPT !.auto = a, !.crashes = c, !.startFailed = FALSE]
    BY DEF HandleCrash
  <2> HIDE DEF a, c
  <2>4. hist' \in H
    BY <2>0, <2>2, <2>3
  <2>5. QED BY <2>4 DEF HistType
<1>5. QED BY <1>2, <1>3, <1>4

LEMMA ChildExitsTypes ==
  ASSUME TypeOK, NEW p \in Pids, ChildExits(p)
  PROVE  TypeOK'
<1>1. live' \subseteq Pids /\ mine' \subseteq live' /\ killed' \subseteq Pids
  BY DEF ChildExits, TypeOK, OsTypes
<1>2. UNCHANGED <<agent, boot, requests, isShuttingDown, stopKill, restartKill, written,
                  filesOnDisk>>
  BY DEF ChildExits
<1>3. CASE p \notin mine
  <2>1. UNCHANGED <<child, forwarding, status, restartCount, windowOpen, timers, timerHeld,
                    task, awaited, shutdown, pidFile, sigExit, hist>>
        /\ termed' = termed \ {p}
    BY <1>3 DEF ChildExits
  <2>2. QED
    BY <1>1, <1>2, <2>1 DEF TypeOK, AgentTypes, ManagerTypes, CallTypes, OsTypes, FileTypes,
                            HistType
<1>4. CASE p \in mine
  <2>1. OnExit(p)
    BY <1>4 DEF ChildExits
  <2>2. AgentTypes'
    BY <1>2, <2>1 DEF OnExit, TypeOK, AgentTypes
  <2>3. awaited' \in Pids \cup {NoPid}
    BY <2>1 DEF OnExit, TypeOK, CallTypes
  <2>4. CASE isShuttingDown
    <3>1. task' = [t \in Tasks |-> IF t \in Awaiting(p) THEN Idle ELSE task[t]]
      BY <2>1, <2>4 DEF OnExit
    <3>2. task' \in [Tasks -> Call]
      BY <3>1 DEF TypeOK, CallTypes, Idle, Call
    <3>3. /\ status' = "stopped" /\ child' = NoPid /\ forwarding' = FALSE
          /\ termed' = termed \ {p}
          /\ UNCHANGED <<restartCount, windowOpen, timers, timerHeld, hist, pidFile, sigExit>>
      BY <2>1, <2>4 DEF OnExit
    <3>4. ManagerTypes'
      BY <1>2, <3>3 DEF TypeOK, ManagerTypes, ChildProcessStatus
    <3>5. OsTypes' /\ FileTypes' /\ HistType'
      BY <1>1, <1>2, <3>3 DEF TypeOK, OsTypes, FileTypes, HistType
    <3>6. QED
      BY <1>2, <2>2, <2>3, <3>2, <3>4, <3>5 DEF TypeOK, CallTypes
  <2>5. CASE ~isShuttingDown
    <3>1. HandleCrash(p) /\ child' = NoPid /\ forwarding' = FALSE
      BY <2>1, <2>5 DEF OnExit
    <3>2. CrashStatus \in ChildProcessStatus
      BY DEF CrashStatus, ChildProcessStatus
    <3>3. StartTypes
      <4>1. CASE Awaiting(p) = {}
        BY <2>1, <2>5, <3>2, <4>1
           DEF OnExit, TypeOK, CallTypes, OsTypes, FileTypes, StartTypes
      <4>2. CASE Awaiting(p) # {}
        <5>1. StartUpToAwait(Awaiting(p), "restart", live \ {p}, termed \ {p}, CrashStatus)
          BY <2>1, <2>5, <4>2 DEF OnExit
        <5>2. live \ {p} \in SUBSET Pids /\ termed \ {p} \in SUBSET Pids
          BY DEF TypeOK, OsTypes
        <5>3. QED
          BY <5>1, <5>2, <3>2, StartUpToAwaitTypes
      <4>3. QED BY <4>1, <4>2
    <3>4. ManagerTypes'
      BY <1>2, <3>1, <3>3, HandleCrashTypes DEF TypeOK, ManagerTypes, StartTypes
    <3>5. OsTypes' /\ FileTypes'
      BY <1>1, <1>2, <3>3 DEF TypeOK, OsTypes, FileTypes, StartTypes
    <3>6. CallTypes' /\ HistType'
      BY <1>2, <2>3, <3>1, <3>3, HandleCrashTypes DEF TypeOK, CallTypes, StartTypes
    <3>7. QED
      BY <2>2, <3>4, <3>5, <3>6 DEF TypeOK
  <2>6. QED BY <2>4, <2>5 DEF TypeOK, ManagerTypes
<1>5. QED BY <1>3, <1>4

LEMMA RestartTypes ==
  ASSUME TypeOK, NEW t \in Tasks, Restart(t)
  PROVE  TypeOK'
<1>1. /\ UNCHANGED <<agent, boot, shutdown, isShuttingDown, restartCount, windowOpen, timers,
                     timerHeld, awaited, stopKill, live, mine, killed, written, filesOnDisk,
                     hist>>
      /\ requests > 0 /\ requests' = requests - 1
  BY DEF Restart
<1>2. /\ StartTypes
      /\ child' \in Pids \cup {NoPid} /\ forwarding' \in BOOLEAN
      /\ restartKill' \subseteq Pids
  <2>1. CASE child \in live
    <3>1. /\ status' = "restarting" /\ forwarding' = FALSE
          /\ termed' = termed \cup {child} /\ restartKill' = restartKill \cup {child}
          /\ task' = [task EXCEPT ![t] = [at |-> "exit", pid |-> child, by |-> "restart"]]
          /\ UNCHANGED <<child, pidFile, sigExit>>
      BY <2>1, PidsAssumption DEF Restart, TypeOK, OsTypes
    <3>2. task' \in [Tasks -> Call]
      BY <3>1 DEF TypeOK, CallTypes, ManagerTypes, Call
    <3>3. QED
      BY <2>1, <3>1, <3>2
         DEF TypeOK, ManagerTypes, CallTypes, OsTypes, FileTypes, StartTypes, ChildProcessStatus
  <2>2. CASE child \notin live
    <3>1. /\ StartUpToAwait({t}, "restart", live, termed, "restarting")
          /\ child' \in {child, NoPid} /\ forwarding' \in {forwarding, FALSE}
          /\ restartKill' = restartKill
      BY <2>2 DEF Restart
    <3>2. /\ live \in SUBSET Pids /\ termed \in SUBSET Pids
          /\ "restarting" \in ChildProcessStatus
      BY DEF TypeOK, OsTypes, ChildProcessStatus
    <3>3. StartTypes
      BY <3>1, <3>2, StartUpToAwaitTypes
    <3>4. QED
      BY <3>1, <3>3 DEF TypeOK, ManagerTypes, CallTypes
  <2>3. QED BY <2>1, <2>2
<1>3. AgentTypes'
  BY <1>1 DEF TypeOK, AgentTypes
<1>4. ManagerTypes'
  BY <1>1, <1>2 DEF TypeOK, ManagerTypes, StartTypes
<1>5. CallTypes' /\ OsTypes' /\ FileTypes' /\ HistType'
  BY <1>1, <1>2 DEF TypeOK, CallTypes, OsTypes, FileTypes, HistType, StartTypes
<1>6. QED BY <1>3, <1>4, <1>5 DEF TypeOK

(* A call ends: Return, in Spawn and in the catch of start(). *)
LEMMA ReturnTypes ==
  ASSUME TypeOK, NEW t \in Tasks, Return(t)
  PROVE  task' \in [Tasks -> Call] /\ boot' \in {"early", "starting", "ready"}
<1>1. task' \in [Tasks -> Call]
  BY DEF Return, TypeOK, CallTypes, Call, Idle
<1>2. QED
  BY <1>1 DEF Return, TypeOK, AgentTypes

(* The callbacks that only touch what a start() touches. *)
LEMMA StartStepTypes ==
  ASSUME TypeOK, NEW t \in Tasks, BootStart(t) \/ RestartTimer(t)
  PROVE  TypeOK'
<1>1. StartTypes
  BY CallStartTypes DEF BootStart, RestartTimer
<1>2. AgentTypes'
  BY DEF BootStart, RestartTimer, TypeOK, AgentTypes, agentVars
<1>3. UNCHANGED <<child, isShuttingDown, restartCount, windowOpen, forwarding>>
  BY DEF BootStart, RestartTimer
<1>4. timers' \in Nat /\ timerHeld' \in BOOLEAN /\ (timerHeld' => timers' > 0)
  <2>1. timers \in Nat /\ timerHeld \in BOOLEAN /\ (timerHeld => timers > 0)
    BY DEF TypeOK, ManagerTypes
  <2>2. CASE BootStart(t)
    BY <2>1, <2>2 DEF BootStart
  <2>3. CASE RestartTimer(t)
    <3>1. timers > 0 /\ timers' = timers - 1 /\ timerHeld' = FALSE
      BY <2>3 DEF RestartTimer
    <3>2. timers' \in Nat
      BY <2>1, <3>1
    <3>3. timerHeld' \in BOOLEAN /\ (timerHeld' => timers' > 0)
      BY <3>1, Zenon
    <3>4. QED BY <3>2, <3>3
  <2>4. QED BY <2>2, <2>3
<1>5. ManagerTypes'
  BY <1>1, <1>3, <1>4 DEF TypeOK, ManagerTypes, StartTypes
<1>6. CallTypes' /\ OsTypes' /\ FileTypes' /\ HistType'
  BY <1>1 DEF BootStart, RestartTimer, TypeOK, CallTypes, OsTypes, FileTypes, HistType,
              StartTypes
<1>7. QED BY <1>2, <1>5, <1>6 DEF TypeOK

LEMMA SpawnTypes ==
  ASSUME TypeOK, NEW t \in Tasks, NEW p \in Pids, Spawn(t, p)
  PROVE  TypeOK'
<1>1. task' \in [Tasks -> Call] /\ boot' \in {"early", "starting", "ready"}
  BY ReturnTypes DEF Spawn
<1>2. AgentTypes' /\ CallTypes'
  BY <1>1 DEF Spawn, TypeOK, AgentTypes, CallTypes
<1>3. ManagerTypes'
  BY DEF Spawn, TypeOK, ManagerTypes, ChildProcessStatus
<1>4. OsTypes'
  BY DEF Spawn, TypeOK, OsTypes, WritePidFile
<1>5. written' \in BOOLEAN /\ filesOnDisk' \in BOOLEAN /\ sigExit' \in BOOLEAN
  BY DEF Spawn, TypeOK, FileTypes
<1>6. HistType'
  BY DEF Spawn, TypeOK, HistType
<1>7. QED BY <1>2, <1>3, <1>4, <1>5, <1>6 DEF TypeOK, FileTypes

LEMMA SecretsFailTypes ==
  ASSUME TypeOK, NEW t \in Tasks, SecretsFail(t)
  PROVE  TypeOK'
<1>1. task' \in [Tasks -> Call] /\ boot' \in {"early", "starting", "ready"}
  BY ReturnTypes DEF SecretsFail, FailedStatus
<1>2. AgentTypes' /\ CallTypes'
  BY <1>1 DEF SecretsFail, FailedStatus, TypeOK, AgentTypes, CallTypes
<1>3. ManagerTypes'
  BY DEF SecretsFail, FailedStatus, TypeOK, ManagerTypes, ChildProcessStatus
<1>4. OsTypes' /\ HistType'
  BY DEF SecretsFail, FailedStatus, TypeOK, OsTypes, HistType, osVars
<1>5. written' \in BOOLEAN /\ filesOnDisk' \in BOOLEAN /\ sigExit' \in BOOLEAN
  BY FlagAssumption DEF SecretsFail, FailedStatus, TypeOK, FileTypes
<1>6. QED BY <1>2, <1>3, <1>4, <1>5 DEF TypeOK, FileTypes

LEMMA OrphanHandledTypes ==
  ASSUME TypeOK, NEW t \in Tasks, OrphanHandled(t)
  PROVE  TypeOK'
<1>1. task' \in [Tasks -> Call]
  BY DEF OrphanHandled, TypeOK, CallTypes, Call
<1>2. AgentTypes' /\ CallTypes' /\ HistType'
  BY <1>1 DEF OrphanHandled, TypeOK, AgentTypes, CallTypes, HistType, agentVars
<1>3. ManagerTypes'
  BY DEF OrphanHandled, TypeOK, ManagerTypes, ChildProcessStatus
<1>4. OsTypes'
  BY DEF OrphanHandled, TypeOK, OsTypes, ForceKill
<1>5. FileTypes'
  BY FlagAssumption DEF OrphanHandled, TypeOK, FileTypes
<1>6. QED BY <1>2, <1>3, <1>4, <1>5 DEF TypeOK

LEMMA StopTypes ==
  ASSUME TypeOK, Stop
  PROVE  TypeOK'
<1>1. timers' \in Nat /\ timerHeld' = FALSE
  BY DEF Stop, TypeOK, ManagerTypes, TimersAfterClear
<1>2. AgentTypes'
  BY DEF Stop, TypeOK, AgentTypes
<1>3. ManagerTypes'
  BY <1>1 DEF Stop, TypeOK, ManagerTypes, ChildProcessStatus
<1>4. CallTypes' /\ OsTypes' /\ FileTypes' /\ HistType'
  BY DEF Stop, TypeOK, CallTypes, ManagerTypes, OsTypes, FileTypes, HistType
<1>5. QED BY <1>2, <1>3, <1>4 DEF TypeOK

(* Every step keeps TypeOK: one step of the proof per action. *)
LEMMA TypeInductive == TypeOK /\ [Next]_vars => TypeOK'
<1> SUFFICES ASSUME TypeOK, [Next]_vars PROVE TypeOK'
  OBVIOUS
<1>1. CASE AgentKilled
  BY <1>1, AgentEndsTypes DEF AgentKilled
<1>2. CASE AgentStarts
  BY <1>2 DEF AgentStarts, TypeOK, AgentTypes, ManagerTypes, CallTypes, OsTypes, FileTypes,
              HistType, managerVars, callVars, osVars, fileVars
<1>3. CASE AgentExits
  BY <1>3, AgentEndsTypes DEF AgentExits
<1>4. CASE Sigterm
  <2>1. CASE AgentEnds("exited")
    BY <2>1, AgentEndsTypes
  <2>2. CASE ~AgentEnds("exited")
    <3>1. /\ shutdown' \in {shutdown, "begun"}
          /\ termed' = termed \/ (child \in live /\ termed' = termed \cup {child})
          /\ UNCHANGED <<agent, boot, requests, managerVars, callVars, live, mine, killed,
                         pidFile, fileVars, hist>>
      BY <1>4, <2>2 DEF Sigterm
    <3>2. AgentTypes' /\ ManagerTypes' /\ CallTypes'
      BY <3>1 DEF TypeOK, AgentTypes, ManagerTypes, CallTypes, managerVars, callVars
    <3>3. OsTypes' /\ FileTypes' /\ HistType'
      BY <3>1 DEF TypeOK, OsTypes, FileTypes, HistType, fileVars
    <3>4. QED BY <3>2, <3>3 DEF TypeOK
  <2>3. QED BY <2>1, <2>2
<1>5. CASE Stop
  BY <1>5, StopTypes
<1>6. CASE StopKillTimer
  <2>1. killed' \subseteq Pids /\ stopKill' \in BOOLEAN
    BY <1>6 DEF StopKillTimer, ForceKill, TypeOK, OsTypes
  <2>2. UNCHANGED <<agentVars, managerVars, task, awaited, restartKill, live, mine, termed,
                    pidFile, fileVars, hist>>
    BY <1>6 DEF StopKillTimer
  <2>3. AgentTypes' /\ ManagerTypes'
    BY <2>2 DEF TypeOK, AgentTypes, ManagerTypes, agentVars, managerVars
  <2>4. CallTypes' /\ OsTypes' /\ FileTypes' /\ HistType'
    BY <2>1, <2>2 DEF TypeOK, CallTypes, OsTypes, FileTypes, HistType, fileVars
  <2>5. QED BY <2>3, <2>4 DEF TypeOK
<1>7. CASE WindowElapses
  <2>1. ManagerTypes'
    BY <1>7 DEF WindowElapses, TypeOK, ManagerTypes
  <2>2. UNCHANGED <<agentVars, callVars, osVars, fileVars, hist>>
    BY <1>7 DEF WindowElapses
  <2>3. AgentTypes' /\ CallTypes' /\ OsTypes' /\ FileTypes' /\ HistType'
    BY <2>2 DEF TypeOK, AgentTypes, CallTypes, OsTypes, FileTypes, HistType, agentVars,
                callVars, osVars, fileVars
  <2>4. QED BY <2>1, <2>3 DEF TypeOK
<1>8. ASSUME NEW t \in Tasks, BootStart(t) \/ RestartTimer(t) PROVE TypeOK'
  BY <1>8, StartStepTypes
<1>9. ASSUME NEW t \in Tasks, Restart(t) PROVE TypeOK'
  BY <1>9, RestartTypes
<1>10. ASSUME NEW t \in Tasks, OrphanHandled(t) PROVE TypeOK'
  BY <1>10, OrphanHandledTypes
<1>11. ASSUME NEW t \in Tasks, SecretsFail(t) PROVE TypeOK'
  BY <1>11, SecretsFailTypes
<1>12. ASSUME NEW t \in Tasks, NEW p \in Pids, Spawn(t, p) PROVE TypeOK'
  BY <1>12, SpawnTypes
<1>13. ASSUME NEW p \in Pids, ChildExits(p) PROVE TypeOK'
  BY <1>13, ChildExitsTypes
<1>14. ASSUME NEW p \in Pids, RestartKillTimer(p) PROVE TypeOK'
  BY <1>14 DEF RestartKillTimer, ForceKill, TypeOK, AgentTypes, ManagerTypes, CallTypes,
               OsTypes, FileTypes, HistType, agentVars, managerVars, fileVars
<1>15. CASE UNCHANGED vars
  BY <1>15 DEF vars, agentVars, managerVars, callVars, osVars, fileVars, TypeOK, AgentTypes,
               ManagerTypes, CallTypes, OsTypes, FileTypes, HistType
<1>16. QED
  BY <1>1, <1>2, <1>3, <1>4, <1>5, <1>6, <1>7, <1>8, <1>9, <1>10, <1>11, <1>12, <1>13,
     <1>14, <1>15 DEF Next

(* In every reachable state of the manager, for any constants, every variable has
   its type; in particular stop() never clears a timer that is not armed. *)
THEOREM TypeCorrect == Spec => []TypeOK
<1>1. Init => TypeOK
  <2> SUFFICES ASSUME Init PROVE TypeOK
    OBVIOUS
  <2>1. AgentTypes /\ CallTypes /\ OsTypes /\ FileTypes
    BY RequestAssumption
       DEF Init, MemoryInit, AgentTypes, CallTypes, OsTypes, FileTypes, Idle, Call
  <2>2. ManagerTypes /\ HistType
    BY ZeroCount DEF Init, MemoryInit, ManagerTypes, HistType, ChildProcessStatus, HistInit
  <2>3. QED BY <2>1, <2>2 DEF TypeOK
<1>2. QED
  BY <1>1, TypeInductive, PTL DEF Spec
-----------------------------------------------------------------------------
(* Only the exit event of a child of this run and the end of the agent touch the
   counters of the rate limit. *)
LEMMA RateUnchanged ==
  ASSUME TypeOK, [Next]_vars,
         ~AgentKilled, ~AgentExits, ~(sigExit /\ AgentEnds("exited")),
         \A p \in Pids : ~ChildExits(p)
  PROVE  restartCount' = restartCount /\ hist'.auto = hist.auto
<1> USE DEF HistType
<1>1. CASE AgentStarts
  BY <1>1 DEF AgentStarts, managerVars
<1>2. CASE Sigterm
  BY <1>2 DEF Sigterm, managerVars
<1>3. CASE Stop
  BY <1>3 DEF Stop
<1>4. CASE StopKillTimer
  BY <1>4 DEF StopKillTimer, managerVars
<1>5. CASE WindowElapses
  BY <1>5 DEF WindowElapses
<1>6. ASSUME NEW t \in Tasks, BootStart(t) \/ RestartTimer(t) \/ Restart(t) \/ OrphanHandled(t)
      PROVE  restartCount' = restartCount /\ hist' = hist
  BY <1>6 DEF BootStart, RestartTimer, Restart, OrphanHandled
<1>7. ASSUME NEW t \in Tasks, SecretsFail(t)
      PROVE  restartCount' = restartCount /\ hist'.auto = hist.auto
  BY <1>7 DEF SecretsFail, FailedStatus, TypeOK
<1>8. ASSUME NEW t \in Tasks, NEW p \in Pids, Spawn(t, p)
      PROVE  restartCount' = restartCount /\ hist'.auto = hist.auto
  BY <1>8 DEF Spawn, TypeOK
<1>9. ASSUME NEW p \in Pids, RestartKillTimer(p)
      PROVE  restartCount' = restartCount /\ hist' = hist
  BY <1>9 DEF RestartKillTimer, managerVars
<1>10. CASE UNCHANGED vars
  BY <1>10 DEF vars, managerVars
<1>11. QED
  BY <1>1, <1>2, <1>3, <1>4, <1>5, <1>6, <1>7, <1>8, <1>9, <1>10 DEF Next

LEMMA RateInductive == TypeOK /\ RateLimited /\ [Next]_vars => RateLimited'
<1> SUFFICES ASSUME TypeOK, RateLimited, [Next]_vars PROVE RateLimited'
  OBVIOUS
<1> DEFINE ends == AgentKilled \/ AgentExits \/ AgentEnds("exited")
<1>1. CASE ends
  <2>1. restartCount' = 0 /\ hist'.auto = 0
    BY <1>1 DEF AgentKilled, AgentExits, AgentEnds, HistInit
  <2>2. QED
    BY <2>1, CountFacts DEF RateLimited
<1>2. ASSUME NEW p \in Pids, ChildExits(p), ~ends PROVE RateLimited'
  <2>1. CASE restartCount' = restartCount /\ hist' = hist
    BY <2>1 DEF RateLimited
  <2>2. CASE HandleCrash(p)
    <3>1. hist \in [auto : Nat, crashes : 0..CountCap, startFailed : BOOLEAN, lost : BOOLEAN]
      BY DEF TypeOK, HistType
    <3>2. /\ restartCount' = NextCount
          /\ hist'.auto = IF Exceeded THEN IF windowOpen THEN hist.auto ELSE 0
                          ELSE (IF windowOpen THEN hist.auto ELSE 0) + 1
      BY <2>2, <3>1 DEF HandleCrash
    <3>3. restartCount \in 0..CountCap /\ windowOpen \in BOOLEAN
      BY DEF TypeOK, ManagerTypes
    <3>4. CASE windowOpen
      BY <3>1, <3>2, <3>3, <3>4, NextCountFacts, CountFacts DEF RateLimited
    <3>5. CASE ~windowOpen
      BY <3>2, <3>3, <3>5, NextCountFacts, CountFacts DEF RateLimited
    <3>6. QED BY <3>4, <3>5
  <2>3. QED
    BY <1>2, <2>1, <2>2 DEF ChildExits, OnExit
<1>3. CASE ~ends /\ \A p \in Pids : ~ChildExits(p)
  BY <1>3, RateUnchanged DEF RateLimited
<1>4. QED BY <1>1, <1>2, <1>3

(* The rate limit of handleCrash holds for every number of children and calls:
   never more than maxRestarts automatic restarts are scheduled in a window. *)
THEOREM RateLimit == Spec => []RateLimited
<1>1. Init => RateLimited
  BY CountFacts DEF Init, MemoryInit, HistInit, RateLimited
<1>2. QED
  BY <1>1, TypeCorrect, RateInductive, PTL DEF Spec
-----------------------------------------------------------------------------
(* Steps that leave alone what SingleFlight is about. *)
LEMMA SingleFlightUnchanged ==
  ASSUME SingleFlight, UNCHANGED <<child, status, timers, task, boot>>,
         mine' \subseteq mine
  PROVE  SingleFlight'
BY DEF SingleFlight, Starting

(* The call of task t enters start() and is the only one in flight. *)
LEMMA EntersAlone ==
  ASSUME TypeOK, NEW t \in Tasks, NEW by, NEW alive, NEW asked, NEW st,
         StartUpToAwait({t}, by, alive, asked, st),
         \A u \in Tasks : task[u].at = "idle" \/ u = t
  PROVE  /\ Starting' = {t} /\ \A u \in Tasks : task'[u].at # "exit"
         /\ status' \in {st, "starting"}
<1>1. task \in [Tasks -> Call]
  BY DEF TypeOK, CallTypes
<1>2. task'[t].at \in {"orphan", "secrets"}
  BY DEF StartUpToAwait
<1>3. \A u \in Tasks : u # t => task'[u] = task[u]
  BY DEF StartUpToAwait
<1>4. status' \in {st, "starting"}
  BY DEF StartUpToAwait
<1>5. QED
  BY <1>2, <1>3, <1>4 DEF Starting

(* The only call in flight returns. *)
LEMMA ReturnsAlone ==
  ASSUME TypeOK, SingleFlight, NEW t \in Starting, Return(t)
  PROVE  /\ Starting' = {} /\ \A u \in Tasks : task'[u].at # "exit"
         /\ boot # "early" /\ boot' # "early" /\ timers = 0 /\ child = NoPid /\ mine = {}
<1>1. task \in [Tasks -> Call] /\ t \in Tasks /\ task'  = [task EXCEPT ![t] = Idle]
  BY DEF TypeOK, CallTypes, Return, Starting
<1>2. \A u \in Tasks : u # t => u \notin Starting /\ task'[u] = task[u]
  BY <1>1 DEF SingleFlight
<1>3. task'[t].at = "idle"
  BY <1>1 DEF Idle
<1>4. Starting' = {} /\ \A u \in Tasks : task'[u].at # "exit"
  BY <1>2, <1>3 DEF Starting, SingleFlight
<1>5. child = NoPid /\ boot # "early" /\ boot' # "early"
  BY DEF SingleFlight, Return
<1>6. timers = 0
  BY DEF SingleFlight, TypeOK, ManagerTypes
<1>7. mine = {}
  BY <1>5, PidsAssumption DEF SingleFlight, TypeOK, OsTypes
<1>8. QED BY <1>4, <1>5, <1>6, <1>7

(* The child that is in hand exits: a restart is scheduled or the manager gives up. *)
LEMMA ExitsAlone ==
  ASSUME TypeOK, SingleFlight, NEW p \in Pids, ChildExits(p), p \in mine
  PROVE  SingleFlight'
<1>1. OnExit(p) /\ mine' = mine \ {p} /\ boot' = boot
  BY DEF ChildExits
<1>2. child = p /\ child # NoPid /\ child' = NoPid
  BY <1>1, PidsAssumption DEF SingleFlight, OnExit
<1>3. Starting = {} /\ boot # "early" /\ Awaiting(p) = {}
  BY <1>2 DEF SingleFlight, Awaiting
<1>4. timers = 0
  BY <1>2 DEF SingleFlight, TypeOK, ManagerTypes
<1>5. mine' = {}
  BY <1>1, <1>2 DEF SingleFlight
<1>6. task' = task
  <2>1. CASE isShuttingDown
    BY <1>1, <1>3, <2>1 DEF OnExit, TypeOK, CallTypes
  <2>2. CASE ~isShuttingDown
    BY <1>1, <1>3, <2>2 DEF OnExit
  <2>3. QED BY <2>1, <2>2
<1>7. Starting' = {} /\ \A t \in Tasks : task'[t].at # "exit"
  BY <1>3, <1>6 DEF Starting, SingleFlight
<1>8. timers' \in {0, 1} /\ (status' = "max_restarts_exceeded" => timers' = 0)
  <2>1. CASE isShuttingDown
    BY <1>1, <1>4, <2>1 DEF OnExit
  <2>2. CASE ~isShuttingDown
    BY <1>1, <1>3, <1>4, <2>2 DEF OnExit, HandleCrash, Scheduled, CrashStatus
  <2>3. QED BY <2>1, <2>2
<1>9. QED
  BY <1>1, <1>2, <1>3, <1>5, <1>7, <1>8 DEF SingleFlight

LEMMA SingleFlightInductive ==
  ASSUME ~RestartOnChange
  PROVE  TypeOK /\ SingleFlight /\ [Next]_vars => SingleFlight'
<1> SUFFICES ASSUME TypeOK, SingleFlight, [Next]_vars PROVE SingleFlight'
  OBVIOUS
<1> DEFINE ends == AgentKilled \/ AgentExits \/ AgentEnds("exited")
<1>1. CASE ends
  <2>1. /\ task' = [t \in Tasks |-> Idle] /\ child' = NoPid /\ timers' = 0 /\ mine' = {}
        /\ status' = "stopped"
    BY <1>1 DEF AgentKilled, AgentExits, AgentEnds
  <2>2. Starting' = {} /\ \A t \in Tasks : task'[t].at # "exit"
    BY <2>1 DEF Starting, Idle
  <2>3. QED BY <2>1, <2>2 DEF SingleFlight
<1>2. CASE ~ends /\ (AgentStarts \/ Sigterm \/ StopKillTimer \/ WindowElapses)
  BY <1>2, SingleFlightUnchanged
     DEF AgentStarts, Sigterm, StopKillTimer, WindowElapses, managerVars, callVars, osVars,
         agentVars
<1>3. CASE Stop
  <2>1. /\ UNCHANGED <<task, boot, live, mine>>
        /\ boot' = boot
        /\ child' = NoPid \/ child' = child
        /\ status' = "stopped" \/ (status' = status /\ child' = child)
        /\ child' = NoPid /\ child' # child => child \notin live
    BY <1>3 DEF Stop
  <2>2. timers' \in Nat /\ timers' <= timers
    BY <1>3, StopTypes DEF Stop, TimersAfterClear, TypeOK, ManagerTypes
  <2>3. mine' \subseteq {child'}
    BY <2>1 DEF SingleFlight, TypeOK, OsTypes
  <2>4. Starting' = Starting
    BY <2>1 DEF Starting
  <2>5. timers \in Nat
    BY DEF TypeOK, ManagerTypes
  <2>6. QED
    BY <2>1, <2>2, <2>3, <2>4, <2>5 DEF SingleFlight
<1>4. ASSUME NEW t \in Tasks, BootStart(t) PROVE SingleFlight'
  <2>1. /\ child = NoPid /\ timers = 0 /\ Starting = {} /\ status # "max_restarts_exceeded"
        /\ UNCHANGED <<child, timers, mine>> /\ CallStart(t, "boot") /\ boot' # "early"
    BY <1>4 DEF BootStart, SingleFlight
  <2>2. CASE MayStart
    <3>1. \A u \in Tasks : task[u].at = "idle" \/ u = t
      BY <2>1 DEF SingleFlight, Starting, TypeOK, CallTypes, Call
    <3>2. /\ Starting' = {t} /\ \A u \in Tasks : task'[u].at # "exit"
          /\ status' \in {status, "starting"}
      BY <2>1, <2>2, <3>1, EntersAlone DEF CallStart
    <3>3. QED
      BY <2>1, <3>2 DEF SingleFlight
  <2>3. CASE ~MayStart
    BY <2>1, <2>3 DEF CallStart, SingleFlight, Starting
  <2>4. QED BY <2>2, <2>3
<1>5. ASSUME NEW t \in Tasks, RestartTimer(t) PROVE SingleFlight'
  <2>1. /\ child = NoPid /\ timers = 1 /\ Starting = {} /\ status # "max_restarts_exceeded"
        /\ boot # "early"
    BY <1>5 DEF RestartTimer, SingleFlight, TypeOK, ManagerTypes
  <2>2. /\ timers' = 0 /\ UNCHANGED <<child, mine, boot>> /\ CallStart(t, "timer")
    BY <1>5, <2>1 DEF RestartTimer, agentVars
  <2>3. CASE MayStart
    <3>1. \A u \in Tasks : task[u].at = "idle" \/ u = t
      BY <2>1 DEF SingleFlight, Starting, TypeOK, CallTypes, Call
    <3>2. /\ Starting' = {t} /\ \A u \in Tasks : task'[u].at # "exit"
          /\ status' \in {status, "starting"}
      BY <2>2, <2>3, <3>1, EntersAlone DEF CallStart
    <3>3. QED
      BY <2>1, <2>2, <3>2 DEF SingleFlight
  <2>4. CASE ~MayStart
    BY <2>1, <2>2, <2>4 DEF CallStart, SingleFlight, Starting
  <2>5. QED BY <2>3, <2>4
<1>6. ASSUME NEW t \in Tasks, Restart(t) PROVE SingleFlight'
  BY <1>6 DEF Restart, RestartEnabled
<1>7. ASSUME NEW t \in Tasks, OrphanHandled(t) PROVE SingleFlight'
  <2>1. /\ task' = [task EXCEPT ![t].at = "secrets", ![t].pid = NoPid]
        /\ task \in [Tasks -> Call] /\ task[t].at = "orphan" /\ status' = "starting"
        /\ UNCHANGED <<child, timers, mine, boot>>
    BY <1>7 DEF OrphanHandled, TypeOK, CallTypes, agentVars
  <2>2. task'[t].at = "secrets" /\ \A u \in Tasks : u # t => task'[u] = task[u]
    BY <2>1 DEF Call
  <2>3. Starting' = Starting /\ \A u \in Tasks : task'[u].at # "exit"
    BY <2>1, <2>2 DEF Starting, SingleFlight
  <2>4. QED
    BY <2>1, <2>3 DEF SingleFlight
<1>8. ASSUME NEW t \in Tasks, SecretsFail(t) PROVE SingleFlight'
  <2>1. t \in Starting /\ Return(t) /\ status' = "crashed" /\ UNCHANGED <<child, timers, mine>>
    BY <1>8 DEF SecretsFail, FailedStatus, Starting, osVars
  <2>2. QED
    BY <2>1, ReturnsAlone DEF SingleFlight
<1>9. ASSUME NEW t \in Tasks, NEW p \in Pids, Spawn(t, p) PROVE SingleFlight'
  <2>1. /\ t \in Starting /\ Return(t) /\ status' = "running" /\ timers' = timers
        /\ child' = p /\ mine' \subseteq mine \cup {p}
    BY <1>9 DEF Spawn, Starting
  <2>2. QED
    BY <2>1, ReturnsAlone DEF SingleFlight
<1>10. ASSUME NEW p \in Pids, ChildExits(p) PROVE SingleFlight'
  <2>1. CASE p \in mine
    BY <1>10, <2>1, ExitsAlone
  <2>2. CASE p \notin mine
    BY <1>10, <2>2, SingleFlightUnchanged DEF ChildExits
  <2>3. QED BY <2>1, <2>2
<1>11. ASSUME NEW p \in Pids, RestartKillTimer(p) PROVE SingleFlight'
  BY <1>11, SingleFlightUnchanged DEF RestartKillTimer, managerVars, agentVars
<1>12. CASE UNCHANGED vars
  BY <1>12, SingleFlightUnchanged DEF vars, managerVars, callVars, osVars, agentVars
<1>13. QED
  BY <1>1, <1>2, <1>3, <1>4, <1>5, <1>6, <1>7, <1>8, <1>9, <1>10, <1>11, <1>12 DEF Next

(* Without restart on change the calls of the manager never overlap. *)
THEOREM SingleFlightHolds == ASSUME ~RestartOnChange PROVE Spec => []SingleFlight
<1>1. Init => SingleFlight
  BY DEF Init, MemoryInit, SingleFlight, Starting, Idle
<1>2. TypeOK /\ SingleFlight /\ [Next]_vars => SingleFlight'
  BY SingleFlightInductive
<1>3. QED
  BY <1>1, <1>2, TypeCorrect, PTL DEF Spec

(* So no child of this run is ever out of the manager's sight, and a manager that
   has given up has nothing left that could start the child again. *)
THEOREM OneChildInSight ==
  ASSUME ~RestartOnChange
  PROVE  Spec => [](NoUntrackedChild /\ GaveUpIsFinal)
<1>1. TypeOK /\ SingleFlight => NoUntrackedChild /\ GaveUpIsFinal
  BY PidsAssumption DEF SingleFlight, NoUntrackedChild, GaveUpIsFinal, TypeOK, OsTypes
<1>2. QED
  BY <1>1, TypeCorrect, SingleFlightHolds, PTL
-----------------------------------------------------------------------------
(* The status.  A status of "crashed" that no failed start has left behind: there is
   no child, stop() has not run, and a timer or a start is there to leave it. *)
Recovering ==
  status = "crashed" /\ ~hist.startFailed =>
    child = NoPid /\ ~isShuttingDown /\ (timers > 0 \/ Starting # {})

StatusInv == RunningMeansTracked /\ Recovering

(* A call that enters start() is there afterwards, and the status is "starting" or
   what it was told to be. *)
LEMMA StartEnters ==
  ASSUME TypeOK, NEW ts \in SUBSET Tasks, ts # {}, NEW by, NEW alive, NEW asked, NEW st,
         StartUpToAwait(ts, by, alive, asked, st)
  PROVE  Starting' # {} /\ status' \in {st, "starting"}
<1>1. PICK t \in Tasks : t \in ts
  OBVIOUS
<1>2. task'[t].at \in {"orphan", "secrets"}
  BY <1>1 DEF StartUpToAwait
<1>3. t \in Starting'
  BY <1>1, <1>2 DEF Starting
<1>4. QED
  BY <1>3 DEF StartUpToAwait

LEMMA StatusUnchanged ==
  ASSUME StatusInv, UNCHANGED <<status, child, isShuttingDown, timers, hist>>,
         Starting' = Starting
  PROVE  StatusInv'
BY DEF StatusInv, RunningMeansTracked, Recovering

LEMMA CrashStatusStep ==
  ASSUME TypeOK, NEW p \in Pids, HandleCrash(p)
  PROVE  CrashStatus = "crashed" => timers' > 0
<1>1. timers \in Nat
  BY DEF TypeOK, ManagerTypes
<1>2. CASE Exceeded
  BY <1>2 DEF CrashStatus
<1>3. CASE ~Exceeded
  <2>1. timers' = timers + 1
    BY <1>3 DEF HandleCrash, Scheduled
  <2>2. QED
    BY <1>1, <2>1
<1>4. QED
  BY <1>2, <1>3

LEMMA StatusExit ==
  ASSUME TypeOK, StatusInv, NEW p \in Pids, ChildExits(p)
  PROVE  StatusInv'
<1>1. CASE p \notin mine
  <2>1. UNCHANGED <<status, child, isShuttingDown, timers, hist, task>>
    BY <1>1 DEF ChildExits
  <2>2. QED
    BY <2>1, StatusUnchanged DEF Starting
<1>2. CASE p \in mine /\ isShuttingDown
  <2>1. status' = "stopped"
    BY <1>2 DEF ChildExits, OnExit
  <2>2. QED
    BY <2>1 DEF StatusInv, RunningMeansTracked, Recovering
<1>3. CASE p \in mine /\ ~isShuttingDown
  <2>1. child' = NoPid /\ isShuttingDown' = isShuttingDown /\ HandleCrash(p)
    BY <1>3 DEF ChildExits, OnExit
  <2>2. CrashStatus = "crashed" => timers' > 0
    BY <2>1, CrashStatusStep
  <2>3. status' \in {CrashStatus, "starting"}
    <3>1. CASE Awaiting(p) = {}
      BY <1>3, <3>1 DEF ChildExits, OnExit
    <3>2. CASE Awaiting(p) # {}
      <4>1. StartUpToAwait(Awaiting(p), "restart", live \ {p}, termed \ {p}, CrashStatus)
        BY <1>3, <3>2 DEF ChildExits, OnExit
      <4>2. QED
        BY <4>1 DEF StartUpToAwait
    <3>3. QED BY <3>1, <3>2
  <2>4. CrashStatus # "running"
    BY DEF CrashStatus
  <2>5. QED
    BY <1>3, <2>1, <2>2, <2>3, <2>4 DEF StatusInv, RunningMeansTracked, Recovering
<1>4. QED
  BY <1>1, <1>2, <1>3

LEMMA StatusStart ==
  ASSUME TypeOK, StatusInv, NEW t \in Tasks, BootStart(t) \/ RestartTimer(t)
  PROVE  StatusInv'
<1>1. UNCHANGED <<child, isShuttingDown, hist>> /\ (CallStart(t, "boot") \/ CallStart(t, "timer"))
  BY DEF BootStart, RestartTimer
<1>2. CASE MayStart
  <2>1. PICK by \in {"boot", "timer"} : StartUpToAwait({t}, by, live, termed, status)
    BY <1>1, <1>2 DEF CallStart
  <2>2. Starting' # {} /\ status' \in {status, "starting"}
    BY <2>1, StartEnters
  <2>3. QED
    BY <1>1, <1>2, <2>2 DEF StatusInv, RunningMeansTracked, Recovering, MayStart
<1>3. CASE ~MayStart
  <2>1. status' = status
    BY <1>1, <1>3 DEF CallStart
  <2>2. ~(status = "crashed" /\ ~hist.startFailed)
    BY <1>3 DEF StatusInv, Recovering, MayStart
  <2>3. QED
    BY <1>1, <2>1, <2>2 DEF StatusInv, RunningMeansTracked, Recovering
<1>4. QED
  BY <1>2, <1>3

LEMMA StatusStep ==
  ASSUME TypeOK, StatusInv, [Next]_vars
  PROVE  StatusInv'
<1>1. CASE AgentKilled \/ AgentExits \/ (Sigterm /\ AgentEnds("exited"))
  <2>1. status' = "stopped"
    BY <1>1 DEF AgentKilled, AgentExits, AgentEnds
  <2>2. QED
    BY <2>1 DEF StatusInv, RunningMeansTracked, Recovering
<1>2. CASE \/ AgentStarts \/ (Sigterm /\ ~AgentEnds("exited"))
           \/ StopKillTimer \/ WindowElapses \/ UNCHANGED vars
           \/ \E p \in Pids : RestartKillTimer(p)
  <2>1. UNCHANGED <<status, child, isShuttingDown, timers, hist, task>>
    BY <1>2 DEF AgentStarts, Sigterm, StopKillTimer, WindowElapses, RestartKillTimer, vars,
                managerVars, callVars
  <2>2. QED
    BY <2>1, StatusUnchanged DEF Starting
<1>3. CASE Stop
  <2>1. NoPid \notin live
    BY PidsAssumption DEF TypeOK, OsTypes
  <2>2. CASE child \in live
    <3>1. UNCHANGED <<child, status, hist>>
      BY <1>3, <2>2 DEF Stop
    <3>2. QED
      BY <2>1, <2>2, <3>1 DEF StatusInv, RunningMeansTracked, Recovering
  <2>3. CASE child \notin live
    BY <1>3, <2>3 DEF Stop, StatusInv, RunningMeansTracked, Recovering
  <2>4. QED
    BY <2>2, <2>3
<1>4. ASSUME NEW t \in Tasks, BootStart(t) \/ RestartTimer(t) PROVE StatusInv'
  BY <1>4, StatusStart
<1>5. ASSUME NEW t \in Tasks, Restart(t) PROVE StatusInv'
  <2>1. status' \in {"restarting", "starting"}
    BY <1>5 DEF Restart, StartUpToAwait
  <2>2. QED
    BY <2>1 DEF StatusInv, RunningMeansTracked, Recovering
<1>6. ASSUME NEW t \in Tasks, OrphanHandled(t) PROVE StatusInv'
  BY <1>6 DEF OrphanHandled, StatusInv, RunningMeansTracked, Recovering
<1>7. ASSUME NEW t \in Tasks, SecretsFail(t) PROVE StatusInv'
  <2>1. hist'.startFailed /\ status' = "crashed"
    BY <1>7 DEF SecretsFail, FailedStatus, TypeOK, HistType
  <2>2. QED
    BY <2>1 DEF StatusInv, RunningMeansTracked, Recovering
<1>8. ASSUME NEW t \in Tasks, NEW p \in Pids, Spawn(t, p) PROVE StatusInv'
  <2>1. status' = "running" /\ child' = p
    BY <1>8 DEF Spawn
  <2>2. QED
    BY <2>1, PidsAssumption DEF StatusInv, RunningMeansTracked, Recovering
<1>9. ASSUME NEW p \in Pids, ChildExits(p) PROVE StatusInv'
  BY <1>9, StatusExit
<1>10. QED
  BY <1>1, <1>2, <1>3, <1>4, <1>5, <1>6, <1>7, <1>8, <1>9 DEF Next

LEMMA StatusAlways == Spec => []StatusInv
<1>1. Init => StatusInv
  BY DEF Init, MemoryInit, StatusInv, RunningMeansTracked, Recovering
<1>2. QED
  BY <1>1, StatusStep, TypeCorrect, PTL DEF Spec

(* A status of "running" means that the manager has a child object. *)
THEOREM RunningTracked == Spec => []RunningMeansTracked
<1>1. StatusInv => RunningMeansTracked
  BY DEF StatusInv
<1>2. QED
  BY <1>1, StatusAlways, PTL

(* A crashed child is on its way back, however many calls overlap and whichever child
   has exited, unless the last start() failed. *)
THEOREM CrashedRecovers == Spec => []CrashedIsRecovering
<1>1. StatusInv => CrashedIsRecovering
  BY DEF StatusInv, Recovering, CrashedIsRecovering
<1>2. QED
  BY <1>1, StatusAlways, PTL
-----------------------------------------------------------------------------
(* After stop() has set isShuttingDown: what each step may do to the calls. *)
LEMMA NoNewStart ==
  ASSUME TypeOK, [Next]_vars, isShuttingDown, Up'
  PROVE  Starting' \subseteq Starting
<1>1. CASE AgentKilled \/ AgentExits \/ (Sigterm /\ AgentEnds("exited"))
  BY <1>1 DEF AgentKilled, AgentExits, AgentEnds, Up
<1>2. CASE \/ AgentStarts \/ (Sigterm /\ ~AgentEnds("exited")) \/ Stop
           \/ StopKillTimer \/ WindowElapses \/ UNCHANGED vars
           \/ \E p \in Pids : RestartKillTimer(p)
  <2>1. task' = task
    BY <1>2 DEF AgentStarts, Sigterm, Stop, StopKillTimer, WindowElapses, RestartKillTimer,
                vars, callVars
  <2>2. QED
    BY <2>1 DEF Starting
<1>3. ASSUME NEW t \in Tasks, BootStart(t) \/ RestartTimer(t) PROVE Starting' \subseteq Starting
  <2>1. task' = task
    BY <1>3 DEF BootStart, RestartTimer, CallStart, MayStart
  <2>2. QED
    BY <2>1 DEF Starting
<1>4. ASSUME NEW t \in Tasks, Restart(t) PROVE Starting' \subseteq Starting
  BY <1>4 DEF Restart, RestartEnabled
<1>5. ASSUME NEW t \in Tasks, OrphanHandled(t) PROVE Starting' \subseteq Starting
  <2>1. t \in Starting
    BY <1>5 DEF OrphanHandled, Starting
  <2>2. \A u \in Tasks \ {t} : task'[u] = task[u]
    BY <1>5 DEF OrphanHandled, TypeOK, CallTypes
  <2>3. QED
    BY <2>1, <2>2 DEF Starting
<1>6. ASSUME NEW t \in Tasks, SecretsFail(t) \/ (\E p \in Pids : Spawn(t, p))
      PROVE  Starting' \subseteq Starting
  <2>1. t \in Starting /\ Return(t)
    BY <1>6 DEF SecretsFail, Spawn, Starting
  <2>2. \A u \in Tasks \ {t} : task'[u] = task[u]
    BY <2>1 DEF Return, TypeOK, CallTypes
  <2>3. QED
    BY <2>1, <2>2 DEF Starting
<1>7. ASSUME NEW p \in Pids, ChildExits(p) PROVE Starting' \subseteq Starting
  <2>1. \A u \in Tasks : task'[u] = task[u] \/ task'[u] = Idle
    BY <1>7 DEF ChildExits, OnExit, TypeOK, CallTypes
  <2>2. QED
    BY <2>1 DEF Starting, Idle
<1>8. QED
  BY <1>1, <1>2, <1>3, <1>4, <1>5, <1>6, <1>7 DEF Next

(* Once stop() has set isShuttingDown no call enters start(), whatever timers have lost
   their handle and whichever restart() waits for its child. *)
THEOREM NoStartAfterStop == Spec => NoNewStartAfterStop
<1>1. TypeOK /\ [Next]_vars => [isShuttingDown /\ Up' => Starting' \subseteq Starting]_vars
  BY NoNewStart
<1>2. QED
  BY <1>1, TypeCorrect, PTL DEF Spec, NoNewStartAfterStop
-----------------------------------------------------------------------------
(* What names a child of whichever run: a call that has passed the PID file has left nothing
   there, one that waits for an orphan has asked it to end, and after the boot the file
   names this.child or a process that was asked. *)
Asked == termed \cup killed
Named ==
  /\ \A p \in live : p \in Asked \cup {pidFile}
  /\ \A t \in Tasks : task[t].at = "secrets" => pidFile = NoPid
  /\ \A t \in Tasks : task[t].at = "orphan" /\ pidFile \in live => pidFile \in Asked
  /\ boot # "early" /\ pidFile \in live => pidFile \in Asked \cup {child}
  /\ boot = "early" => shutdown = "no" /\ ~isShuttingDown

(* A call of start(), with nobody else in flight, asks the orphan that the file names. *)
LEMMA EntersNamed ==
  ASSUME TypeOK, Named, NEW t \in Tasks, NEW by, NEW st,
         StartUpToAwait({t}, by, live, termed, st),
         \A u \in Tasks : task[u].at = "idle" \/ u = t,
         live' = live, killed' = killed, boot' # "early"
  PROVE  Named'
<1>1. task \in [Tasks -> Call] /\ live \subseteq Pids
  BY DEF TypeOK, CallTypes, OsTypes
<1>2. \A u \in Tasks : u # t => task'[u] = task[u]
  BY DEF StartUpToAwait
<1>3. CASE pidFile \in live
  <2>1. task'[t].at = "orphan" /\ pidFile' = pidFile /\ termed' = termed \cup {pidFile}
    BY <1>3 DEF StartUpToAwait
  <2>2. QED
    BY <1>2, <2>1 DEF Named, Asked
<1>4. CASE pidFile \notin live
  <2>1. task'[t].at = "secrets" /\ pidFile' = NoPid /\ termed' = termed
    BY <1>4 DEF StartUpToAwait
  <2>2. NoPid \notin live
    BY <1>1, PidsAssumption
  <2>3. QED
    BY <1>2, <1>4, <2>1, <2>2 DEF Named, Asked
<1>5. QED
  BY <1>3, <1>4

(* Steps that ask more processes, and change no name. *)
LEMMA NamedUnchanged ==
  ASSUME Named, UNCHANGED <<child, pidFile, task, boot, live, isShuttingDown>>,
         shutdown' = shutdown \/ boot # "early", termed \subseteq termed', killed \subseteq killed'
  PROVE  Named'
BY DEF Named, Asked

LEMMA NamedInductive ==
  ASSUME ~RestartOnChange
  PROVE  TypeOK /\ SingleFlight /\ Named /\ [Next]_vars => Named'
<1> SUFFICES ASSUME TypeOK, SingleFlight, Named, [Next]_vars PROVE Named'
  OBVIOUS
<1>0. /\ task \in [Tasks -> Call] /\ live \subseteq Pids /\ NoPid \notin live /\ mine \subseteq live
      /\ child \in Pids \cup {NoPid}
  BY PidsAssumption DEF TypeOK, CallTypes, OsTypes, ManagerTypes
<1> DEFINE ends == AgentKilled \/ AgentExits \/ AgentEnds("exited")
<1>1. CASE ends
  <2>1. task' = [t \in Tasks |-> Idle] /\ shutdown' = "no" /\ isShuttingDown' = FALSE
        /\ UNCHANGED <<live, termed, killed, pidFile>> /\ boot' = "early"
    BY <1>1 DEF AgentKilled, AgentExits, AgentEnds
  <2>2. \A t \in Tasks : task'[t].at = "idle"
    BY <2>1 DEF Idle
  <2>3. QED
    BY <2>1, <2>2 DEF Named, Asked
<1>2. CASE ~ends /\ (AgentStarts \/ Sigterm \/ StopKillTimer \/ WindowElapses)
  <2>1. UNCHANGED <<child, pidFile, task, boot, live, isShuttingDown>> /\ (shutdown' = shutdown \/ boot # "early")
    BY <1>2 DEF AgentStarts, Sigterm, StopKillTimer, WindowElapses, managerVars, callVars, osVars, agentVars
  <2>2. termed \subseteq termed' /\ killed \subseteq killed'
    BY <1>2 DEF AgentStarts, Sigterm, StopKillTimer, WindowElapses, ForceKill, managerVars, callVars, osVars,
                agentVars
  <2>3. QED
    BY <2>1, <2>2, NamedUnchanged
<1>3. CASE Stop
  <2>1. UNCHANGED <<task, boot, live, killed>> /\ pidFile' = NoPid /\ shutdown = "begun"
        /\ termed' = IF child \in live THEN termed \cup {child} ELSE termed
    BY <1>3 DEF Stop
  <2>2. \A p \in live : p \in Asked'
    <3>1. TAKE p \in live
    <3>2. CASE p \in Asked
      BY <2>1, <3>2 DEF Asked
    <3>3. CASE p \notin Asked
      <4>1. p = pidFile
        BY <3>3 DEF Named
      <4>2. boot # "early" => p = child
        BY <3>3, <4>1 DEF Named
      <4>3. QED
        BY <2>1, <4>1, <4>2 DEF Named, Asked
    <3>4. QED
      BY <3>2, <3>3
  <2>3. QED
    BY <1>0, <2>1, <2>2 DEF Named
<1>4. ASSUME NEW t \in Tasks, BootStart(t) \/ RestartTimer(t) PROVE Named'
  <2>1. PICK by \in {"boot", "timer"} : CallStart(t, by)
    BY <1>4 DEF BootStart, RestartTimer
  <2>2. UNCHANGED <<child, live, killed>> /\ boot' # "early" /\ (boot' = boot \/ BootStart(t))
    BY <1>4 DEF BootStart, RestartTimer, SingleFlight, TypeOK, ManagerTypes, agentVars
  <2>3. Starting = {} /\ child = NoPid /\ (BootStart(t) => MayStart)
    BY <1>4 DEF BootStart, RestartTimer, SingleFlight, Named, TypeOK, ManagerTypes, MayStart
  <2>4. CASE MayStart
    <3>1. \A u \in Tasks : task[u].at = "idle" \/ u = t
      BY <1>0, <2>3 DEF SingleFlight, Starting, Call
    <3>2. StartUpToAwait({t}, by, live, termed, status)
      BY <2>1, <2>4 DEF CallStart
    <3>3. QED
      BY <2>2, <3>1, <3>2, EntersNamed
  <2>5. CASE ~MayStart
    <3>1. UNCHANGED <<task, termed, pidFile>>
      BY <2>1, <2>5 DEF CallStart
    <3>2. boot' = boot
      BY <2>2, <2>3, <2>5
    <3>3. QED
      BY <2>2, <3>1, <3>2 DEF Named, Asked
  <2>6. QED
    BY <2>4, <2>5
<1>5. ASSUME NEW t \in Tasks, Restart(t) PROVE Named'
  BY <1>5 DEF Restart, RestartEnabled
<1>6. ASSUME NEW t \in Tasks, OrphanHandled(t) PROVE Named'
  <2>1. /\ task' = [task EXCEPT ![t].at = "secrets", ![t].pid = NoPid]
        /\ task[t].at = "orphan" /\ pidFile' = NoPid
        /\ UNCHANGED <<child, boot, live, termed, shutdown, isShuttingDown>> /\ killed \subseteq killed'
    BY <1>6 DEF OrphanHandled, ForceKill, agentVars
  <2>2. \A p \in live : p \in Asked
    BY <2>1 DEF Named
  <2>3. QED
    BY <1>0, <2>1, <2>2 DEF Named, Asked
<1>7. ASSUME NEW t \in Tasks, SecretsFail(t) PROVE Named'
  <2>1. /\ t \in Starting /\ Return(t) /\ task[t].at = "secrets" /\ UNCHANGED <<child, live, termed, killed, pidFile>>
    BY <1>7 DEF SecretsFail, Starting, osVars
  <2>2. pidFile = NoPid /\ Starting' = {} /\ boot' # "early"
    BY <2>1, ReturnsAlone DEF Named
  <2>3. \A u \in Tasks : task'[u].at \notin {"orphan", "secrets"}
    BY <2>2 DEF Starting
  <2>4. QED
    BY <1>0, <2>1, <2>2, <2>3 DEF Named, Asked
<1>8. ASSUME NEW t \in Tasks, NEW p \in Pids, Spawn(t, p) PROVE Named'
  <2>1. /\ t \in Starting /\ Return(t) /\ task[t].at = "secrets" /\ UNCHANGED <<termed, killed>> /\ child' = p
        /\ \/ live' = live \cup {p} /\ pidFile' = p
           \/ live' = live /\ pidFile' = pidFile
    BY <1>8 DEF Spawn, Starting, WritePidFile
  <2>2. pidFile = NoPid /\ \A q \in live : q \in Asked
    BY <1>0, <2>1 DEF Named
  <2>3. Starting' = {} /\ boot' # "early"
    BY <2>1, ReturnsAlone
  <2>4. \A u \in Tasks : task'[u].at \notin {"orphan", "secrets"}
    BY <2>3 DEF Starting
  <2>5. QED
    BY <1>0, <2>1, <2>2, <2>3, <2>4 DEF Named, Asked
<1>9. ASSUME NEW p \in Pids, ChildExits(p) PROVE Named'
  <2>1. live' = live \ {p} /\ killed' = killed \ {p} /\ UNCHANGED <<boot, isShuttingDown>>
    BY <1>9 DEF ChildExits
  <2>2. CASE p \in mine
    <3>1. OnExit(p) /\ child = p /\ boot # "early"
      BY <1>0, <1>9, <2>2 DEF ChildExits, SingleFlight
    <3>2. Awaiting(p) = {}
      BY DEF SingleFlight, Awaiting
    <3>3. termed' = termed \ {p} /\ pidFile' = pidFile /\ task' = task
      <4>1. CASE isShuttingDown
        BY <1>0, <3>1, <3>2, <4>1 DEF OnExit
      <4>2. CASE ~isShuttingDown
        BY <3>1, <3>2, <4>2 DEF OnExit
      <4>3. QED
        BY <4>1, <4>2
    <3>4. QED
      BY <2>1, <3>1, <3>3 DEF Named, Asked
  <2>3. CASE p \notin mine
    <3>1. termed' = termed \ {p} /\ UNCHANGED <<child, pidFile, task, shutdown>>
      BY <1>9, <2>3 DEF ChildExits
    <3>2. QED
      BY <2>1, <3>1 DEF Named, Asked
  <2>4. QED
    BY <2>2, <2>3
<1>10. ASSUME NEW p \in Pids, RestartKillTimer(p) PROVE Named'
  <2>1. killed \subseteq killed'
    BY <1>10 DEF RestartKillTimer, ForceKill
  <2>2. QED
    BY <1>10, <2>1, NamedUnchanged DEF RestartKillTimer, managerVars, agentVars
<1>11. CASE UNCHANGED vars
  BY <1>11, NamedUnchanged DEF vars, managerVars, callVars, osVars, agentVars
<1>12. QED
  BY <1>1, <1>2, <1>3, <1>4, <1>5, <1>6, <1>7, <1>8, <1>9, <1>10, <1>11 DEF Next

(* Without restart on change every child that outlives its agent is found by the next agent,
   or was asked to end before: the PID file is never removed or overwritten while it names a
   child that nobody has asked (killOrphanedChild, removePidFile). *)
THEOREM OrphanNamed ==
  ASSUME ~RestartOnChange
  PROVE  Spec => []UnaskedOrphanIsNamed
<1>1. Init => Named
  BY DEF Init, MemoryInit, Named, Idle
<1>2. TypeOK /\ SingleFlight /\ Named /\ [Next]_vars => Named'
  BY NamedInductive
<1>3. Named => UnaskedOrphanIsNamed
  BY DEF Named, Asked, UnaskedOrphanIsNamed
<1>4. QED
  BY <1>1, <1>2, <1>3, TypeCorrect, SingleFlightHolds, PTL DEF Spec
-----------------------------------------------------------------------------
(* While no agent was killed, a secret file exists only during the run that wrote it, and that
   run knows it: its 'exit' handler will remove it. *)
FilesInHand == ~hist.lost => agent # "killed" /\ (filesOnDisk => Up /\ written)

LEMMA FilesUnchanged ==
  ASSUME FilesInHand, UNCHANGED <<agent, written, filesOnDisk>>, hist'.lost = hist.lost
  PROVE  FilesInHand'
BY DEF FilesInHand, Up

LEMMA AgentEndsFiles ==
  ASSUME TypeOK, FilesInHand, NEW how \in {"exited", "killed"}, AgentEnds(how)
  PROVE  FilesInHand'
<1>1. hist'.lost = IF how = "killed" THEN TRUE ELSE hist.lost
  BY DEF AgentEnds, HistInit
<1>2. CASE how = "killed"
  BY <1>1, <1>2 DEF FilesInHand
<1>3. CASE how = "exited"
  <2>1. ~hist.lost => ~filesOnDisk'
    BY <1>3 DEF AgentEnds, FilesAfter, FilesInHand
  <2>2. QED
    BY <1>1, <1>3, <2>1 DEF FilesInHand, AgentEnds
<1>4. QED
  BY <1>2, <1>3

LEMMA FilesStep == TypeOK /\ FilesInHand /\ [Next]_vars => FilesInHand'
<1> SUFFICES ASSUME TypeOK, FilesInHand, [Next]_vars PROVE FilesInHand'
  OBVIOUS
<1>1. CASE AgentKilled \/ AgentExits
  BY <1>1, AgentEndsFiles DEF AgentKilled, AgentExits
<1>2. CASE AgentStarts
  BY <1>2 DEF AgentStarts, FilesInHand, Up, fileVars
<1>3. CASE Sigterm
  BY <1>3, AgentEndsFiles, FilesUnchanged DEF Sigterm, fileVars
<1>4. CASE Stop
  BY <1>4 DEF Stop, FilesInHand, Up
<1>5. CASE StopKillTimer \/ WindowElapses \/ UNCHANGED vars
  BY <1>5, FilesUnchanged DEF StopKillTimer, WindowElapses, vars, agentVars, fileVars
<1>6. ASSUME NEW t \in Tasks, BootStart(t) \/ RestartTimer(t) \/ Restart(t) \/ OrphanHandled(t)
      PROVE  FilesInHand'
  BY <1>6, FilesUnchanged DEF BootStart, RestartTimer, Restart, OrphanHandled, agentVars
<1>7. ASSUME NEW t \in Tasks, SecretsFail(t) PROVE FilesInHand'
  <2>1. hist'.lost = hist.lost /\ agent' = agent /\ Up
    BY <1>7 DEF SecretsFail, TypeOK, HistType
  <2>2. PICK some \in {FALSE, FileMode} :
          written' = (written \/ some) /\ filesOnDisk' = (filesOnDisk \/ some)
    BY <1>7 DEF SecretsFail
  <2>3. QED
    BY <2>1, <2>2 DEF FilesInHand, Up
<1>8. ASSUME NEW t \in Tasks, NEW p \in Pids, Spawn(t, p) PROVE FilesInHand'
  BY <1>8 DEF Spawn, TypeOK, HistType, FilesInHand, Up
<1>9. ASSUME NEW p \in Pids, ChildExits(p) PROVE FilesInHand'
  <2>1. hist'.lost = hist.lost
    BY <1>9 DEF ChildExits, OnExit, HandleCrash, TypeOK, HistType
  <2>2. QED
    BY <1>9, <2>1, FilesUnchanged DEF ChildExits
<1>10. ASSUME NEW p \in Pids, RestartKillTimer(p) PROVE FilesInHand'
  BY <1>10, FilesUnchanged DEF RestartKillTimer, agentVars, fileVars
<1>11. QED
  BY <1>1, <1>2, <1>3, <1>4, <1>5, <1>6, <1>7, <1>8, <1>9, <1>10 DEF Next

(* A process.exit leaves no secret in a file, also when a start that was in flight wrote its
   files after stop() had cleaned up: the 'exit' handler runs last (secret-file-manager.ts:188).
   Only an agent that is killed leaves them behind. *)
THEOREM NoFileLeft == Spec => []OrderlyExitLeavesNoFile
<1>1. Init => FilesInHand
  BY DEF Init, FilesInHand, HistInit
<1>2. FilesInHand => OrderlyExitLeavesNoFile
  BY DEF FilesInHand, OrderlyExitLeavesNoFile, Up
<1>3. QED
  BY <1>1, <1>2, FilesStep, TypeCorrect, PTL DEF Spec
=============================================================================
