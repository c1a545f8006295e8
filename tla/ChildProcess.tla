---------------------------- MODULE ChildProcess ----------------------------
(***************************************************************************)
(* The child process manager of the agent (exec mode), services/           *)
(* child-process-manager.ts, with the parts of the daemon that drive it:   *)
(* the first start at the end of startDaemon, restart requests from        *)
(* certificate, secret and key events, signals, shutdown, and the crash    *)
(* and restart of the agent itself.                                        *)
(*                                                                         *)
(* The agent is one JavaScript thread: a handler runs to its next await    *)
(* without interruption, and every await is a point where other handlers   *)
(* run.  A call of start() or restart() that is suspended at an await is a *)
(* member of Tasks; an action is the code between two awaits.              *)
(***************************************************************************)
EXTENDS Naturals, FiniteSets

CONSTANTS
  Pids,             \* process ids (reused once nothing names them)
  NoPid,            \* "no process": this.child = null, no PID file
  Tasks,            \* calls of start() and restart() that can be in flight
  MaxRestarts,      \* config.maxRestarts
  CountCap,         \* bound: restartCount saturates here
  MaxRequests,      \* bound: restart requests per run of the agent
  RestartOnChange,  \* config.restartOnChange
  FileMode,         \* some secret is mapped with outputToFile
  SecretsMayFail,   \* the vault may refuse or lose a secret fetch
  SpawnMayFail      \* the command may not exist or not be executable

ASSUME PidsAssumption  == NoPid \notin Pids
ASSUME CountAssumption == /\ MaxRestarts \in Nat
                          /\ CountCap \in Nat
                          /\ CountCap > MaxRestarts
ASSUME FlagAssumption  == {RestartOnChange, FileMode, SecretsMayFail, SpawnMayFail}
                             \subseteq BOOLEAN
ASSUME RequestAssumption == MaxRequests \in Nat

VARIABLES
  agent,          \* the agent process: "up", "exited" (process.exit), "killed"
  boot,           \* startDaemon: "early", "starting" the child, "ready" (signals handled)
  shutdown,       \* the daemon's shutdown(): "no", "begun", "stopping", "stopped"
  requests,       \* restart requests still allowed in this run
  child,          \* this.child
  status,         \* this.status
  isShuttingDown, \* this.isShuttingDown
  restartCount,   \* this.restartCount
  windowOpen,     \* now - restartWindowStart <= restartWindowMs
  timers,         \* restart timers armed
  timerHeld,      \* this.restartTimeout # null
  forwarding,     \* signalHandlers is not empty
  task,           \* the suspended calls
  awaited,        \* the child stop() waits for, or NoPid
  stopKill,       \* stop()'s 10 second SIGKILL timer is armed
  restartKill,    \* children for which a 5 second timer of stopChild is armed
  live,           \* processes the operating system runs
  mine,           \* those whose exit event this run of the agent will receive
  termed,         \* those sent SIGTERM
  killed,         \* those sent SIGKILL
  pidFile,        \* content of CHILD_PID_FILE
  sigExit,        \* SecretFileManager's SIGTERM handler is registered
  written,        \* SecretFileManager.writtenFiles is not empty
  filesOnDisk,    \* a secret file exists
  hist            \* history: see HistInit

agentVars   == <<agent, boot, shutdown, requests>>
managerVars == <<child, status, isShuttingDown, restartCount, windowOpen, timers,
                 timerHeld, forwarding>>
callVars    == <<task, awaited, stopKill, restartKill>>
osVars      == <<live, mine, termed, killed, pidFile>>
fileVars    == <<sigExit, written, filesOnDisk>>
vars        == <<agentVars, managerVars, callVars, osVars, fileVars, hist>>

ChildProcessStatus ==
  {"stopped", "starting", "running", "restarting", "crashed", "max_restarts_exceeded"}

(* A suspended call: where it waits ("exit": restart() for its child, "orphan":
   killOrphanedChild for the process of the PID file, "secrets": buildSecretEnv
   for the vault), the process it waits for and who called it. *)
Idle == [at |-> "idle", pid |-> NoPid, by |-> "none"]
Call == [at  : {"idle", "exit", "orphan", "secrets"},
         pid : Pids \cup {NoPid},
         by  : {"none", "boot", "timer", "restart"}]

IdleTasks   == {t \in Tasks : task[t].at = "idle"}
Starting    == {t \in Tasks : task[t].at \in {"orphan", "secrets"}}
Awaiting(p) == {t \in Tasks : task[t].at = "exit" /\ task[t].pid = p}

(* A process id is free when no process has it and nothing refers to it. *)
Free(p) == /\ p \notin live \cup restartKill
           /\ p \notin {child, pidFile, awaited}
           /\ \A t \in Tasks : task[t].pid # p

Up == agent = "up"

(* auto: restarts scheduled by handleCrash in the current window; crashes: exits
   in the window of children nobody asked to stop; startFailed: the last start()
   that ended, ended in its catch; lost: the agent was killed at some time. *)
HistInit == [auto |-> 0, crashes |-> 0, startFailed |-> FALSE, lost |-> FALSE]
-----------------------------------------------------------------------------
(* The memory of a new agent process. *)
MemoryInit ==
  /\ boot = "early" /\ shutdown = "no" /\ requests = MaxRequests
  /\ child = NoPid /\ status = "stopped" /\ isShuttingDown = FALSE
  /\ restartCount = 0 /\ windowOpen = FALSE
  /\ timers = 0 /\ timerHeld = FALSE /\ forwarding = FALSE
  /\ task = [t \in Tasks |-> Idle]
  /\ awaited = NoPid /\ stopKill = FALSE /\ restartKill = {}
  /\ mine = {} /\ sigExit = FALSE /\ written = FALSE

Init ==
  /\ agent = "up"
  /\ MemoryInit
  /\ live = {} /\ termed = {} /\ killed = {} /\ pidFile = NoPid
  /\ filesOnDisk = FALSE
  /\ hist = HistInit

(* The secret files once the agent has ended: the 'exit' handler removes those this
   run has written. *)
FilesAfter(how) == filesOnDisk /\ ~(how = "exited" /\ written)

(* The agent process ends: its memory is lost, its children go on.  Process.exit
   runs the 'exit' handler of SecretFileManager, a kill does not. *)
AgentEnds(how) ==
  /\ agent' = how
  /\ boot' = "early" /\ shutdown' = "no" /\ requests' = MaxRequests
  /\ child' = NoPid /\ status' = "stopped" /\ isShuttingDown' = FALSE
  /\ restartCount' = 0 /\ windowOpen' = FALSE
  /\ timers' = 0 /\ timerHeld' = FALSE /\ forwarding' = FALSE
  /\ task' = [t \in Tasks |-> Idle]
  /\ awaited' = NoPid /\ stopKill' = FALSE /\ restartKill' = {}
  /\ mine' = {} /\ sigExit' = FALSE /\ written' = FALSE
  /\ filesOnDisk' = FilesAfter(how)
  /\ hist' = [HistInit EXCEPT !.lost = IF how = "killed" THEN TRUE ELSE hist.lost]
  /\ UNCHANGED <<live, termed, killed, pidFile>>

(* The operating system or an operator kills the agent, or it crashes. *)
AgentKilled == Up /\ AgentEnds("killed")

(* systemd starts the agent again. *)
AgentStarts ==
  /\ ~Up
  /\ agent' = "up"
  /\ UNCHANGED <<boot, shutdown, requests, managerVars, callVars, osVars, fileVars, hist>>
-----------------------------------------------------------------------------
(* start() up to its first real await, called by each task of ts while this.child
   is null and the manager is not shutting down.  `alive` are the processes that
   exist, `st` is the status if the call still waits for an orphan. *)
StartUpToAwait(ts, by, alive, asked, st) ==
  LET orphan == pidFile \in alive
      call   == [at  |-> IF orphan THEN "orphan" ELSE "secrets",
                 pid |-> IF orphan THEN pidFile ELSE NoPid, by |-> by]
  IN /\ task'    = [t \in Tasks |-> IF t \in ts THEN call ELSE task[t]]
     /\ termed'  = IF orphan THEN asked \cup {pidFile} ELSE asked
     /\ pidFile' = IF orphan THEN pidFile ELSE NoPid
     /\ status'  = IF orphan THEN st ELSE "starting"
     /\ sigExit' = (sigExit \/ (FileMode /\ ~orphan))

MayStart_NoShutdownCheck == child = NoPid                             \* mutant
MayStart == child = NoPid /\ ~isShuttingDown

(* A start() called by task t: it returns at once unless MayStart. *)
CallStart(t, by) ==
  \/ /\ MayStart
     /\ StartUpToAwait({t}, by, live, termed, status)
  \/ /\ ~MayStart
     /\ UNCHANGED <<task, termed, pidFile, status, sigExit>>

(* The task's call returns; after the boot call startDaemon installs the signal
   handlers and is ready. *)
Return(t) ==
  /\ task' = [task EXCEPT ![t] = Idle]
  /\ boot' = IF task[t].by = "boot" THEN "ready" ELSE boot

(* startDaemon, after the initial syncs: childManager.start(). *)
BootStart(t) ==
  /\ Up /\ boot = "early" /\ t \in IdleTasks
  /\ CallStart(t, "boot")
  /\ boot' = IF MayStart THEN "starting" ELSE "ready"
  /\ UNCHANGED <<agent, shutdown, requests, child, isShuttingDown, restartCount,
                 windowOpen, timers, timerHeld, forwarding, awaited, stopKill,
                 restartKill, live, mine, killed, written, filesOnDisk, hist>>

(* kill('SIGKILL') of a process that may be gone already. *)
ForceKill_Sigterm(p) == killed                                        \* mutant
ForceKill(p) == IF p \in live THEN killed \cup {p} ELSE killed

(* waitForProcessExit returns: the orphan is gone, or 5 seconds passed and it is
   sent SIGKILL.  Nothing is checked again before the secrets are fetched. *)
OrphanHandled(t) ==
  /\ Up /\ task[t].at = "orphan"
  /\ killed'  = ForceKill(task[t].pid)
  /\ pidFile' = NoPid
  /\ status'  = "starting"
  /\ task'    = [task EXCEPT ![t].at = "secrets", ![t].pid = NoPid]
  /\ sigExit' = (sigExit \/ FileMode)
  /\ UNCHANGED <<agentVars, child, isShuttingDown, restartCount, windowOpen, timers,
                 timerHeld, forwarding, awaited, stopKill, restartKill, live, mine,
                 termed, written, filesOnDisk, hist>>

WritePidFile_Never(p) == pidFile                                      \* mutant
WritePidFile(p) == p

(* The secrets arrive and the child is spawned.  A command that cannot be run
   leaves a child object that never gets an 'exit' event and has no pid. *)
Spawn(t, p) ==
  /\ Up /\ task[t].at = "secrets" /\ Free(p)
  /\ child' = p /\ status' = "running" /\ forwarding' = TRUE
  /\ \/ /\ live' = live \cup {p} /\ mine' = mine \cup {p}
        /\ pidFile' = WritePidFile(p)
     \/ /\ SpawnMayFail
        /\ UNCHANGED <<live, mine, pidFile>>
  /\ written'     = (written \/ FileMode)
  /\ filesOnDisk' = (filesOnDisk \/ FileMode)
  /\ hist' = [hist EXCEPT !.startFailed = FALSE]
  /\ Return(t)
  /\ UNCHANGED <<agent, shutdown, requests, isShuttingDown, restartCount, windowOpen,
                 timers, timerHeld, awaited, stopKill, restartKill, termed, killed,
                 sigExit>>

FailedStatus == "crashed"

(* The fetch fails, possibly after some files were written: the catch of start(). *)
SecretsFail(t) ==
  /\ Up /\ SecretsMayFail /\ task[t].at = "secrets"
  /\ status' = FailedStatus
  /\ \E some \in {FALSE, FileMode} : /\ written'     = (written \/ some)
                                     /\ filesOnDisk' = (filesOnDisk \/ some)
  /\ hist' = [hist EXCEPT !.startFailed = TRUE]
  /\ Return(t)
  /\ UNCHANGED <<agent, shutdown, requests, child, isShuttingDown, restartCount,
                 windowOpen, timers, timerHeld, forwarding, awaited, stopKill,
                 restartKill, osVars, sigExit>>
-----------------------------------------------------------------------------
RestartEnabled_AnyConfig == ~isShuttingDown                           \* mutant
RestartEnabled == ~isShuttingDown /\ RestartOnChange

(* restart(reason), called on a certificate, secret or key event. *)
Restart(t) ==
  /\ Up /\ requests > 0 /\ t \in IdleTasks
  /\ requests' = requests - 1
  /\ RestartEnabled
  /\ \/ /\ child = NoPid
        /\ StartUpToAwait({t}, "restart", live, termed, "restarting")
        /\ UNCHANGED <<child, forwarding, restartKill>>
     \/ /\ child \in live                        \* stopChild()
        /\ status' = "restarting"
        /\ forwarding' = FALSE
        /\ termed' = termed \cup {child}
        /\ restartKill' = restartKill \cup {child}
        /\ task' = [task EXCEPT ![t] = [at |-> "exit", pid |-> child, by |-> "restart"]]
        /\ UNCHANGED <<child, pidFile, sigExit>>
     \/ /\ child \notin live \cup {NoPid}        \* spawn had failed: onExit at once
        /\ forwarding' = FALSE
        /\ child' = NoPid
        /\ StartUpToAwait({t}, "restart", live, termed, "restarting")
        /\ UNCHANGED restartKill
  /\ UNCHANGED <<agent, boot, shutdown, isShuttingDown, restartCount, windowOpen, timers,
                 timerHeld, awaited, stopKill, live, mine, killed, written, filesOnDisk,
                 hist>>

(* The 5 second timer of stopChild(). *)
RestartKillTimer(p) ==
  /\ Up /\ p \in restartKill
  /\ restartKill' = restartKill \ {p}
  /\ killed' = IF child = p THEN ForceKill(p) ELSE killed
  /\ UNCHANGED <<agentVars, managerVars, task, awaited, stopKill, live, mine, termed,
                 pidFile, fileVars, hist>>

(* The 10 second timer of stop(): it kills whatever this.child is by then. *)
StopKillTimer ==
  /\ Up /\ stopKill
  /\ stopKill' = FALSE
  /\ killed' = ForceKill(child)
  /\ UNCHANGED <<agentVars, managerVars, task, awaited, restartKill, live, mine, termed,
                 pidFile, fileVars, hist>>
-----------------------------------------------------------------------------
Bump(n) == IF n < CountCap THEN n + 1 ELSE n

(* restartCount and restarting after handleCrash has counted one more exit. *)
NextCount == IF windowOpen THEN Bump(restartCount) ELSE 1
Exceeded_OffByOne == NextCount > MaxRestarts + 1                      \* mutant
Exceeded == NextCount > MaxRestarts

(* The restart timers armed after one more exit. *)
Scheduled_Never  == timers                                            \* mutant
Scheduled == IF Exceeded THEN timers ELSE timers + 1

(* handleCrash, without the status it sets. *)
HandleCrash(p) ==
  LET auto    == IF windowOpen THEN hist.auto ELSE 0
      crashes == IF windowOpen THEN hist.crashes ELSE 0
  IN /\ restartCount' = NextCount
     /\ windowOpen'   = TRUE
     /\ timers'       = Scheduled
     /\ timerHeld'    = (timerHeld \/ ~Exceeded)
     /\ hist' = [hist EXCEPT !.auto = IF Exceeded THEN auto ELSE auto + 1,
                             !.crashes = IF p \in termed THEN crashes ELSE Bump(crashes),
                             !.startFailed = FALSE]

CrashStatus == IF Exceeded THEN "max_restarts_exceeded" ELSE "crashed"

(* The 'exit' event of a child: the listener of setupChildEventHandlers, then the
   onExit of every stopChild() and of the stop() that waits for this child, and
   the restart() calls they release run on into start(). *)
OnExit(p) ==
  /\ child' = NoPid /\ forwarding' = FALSE
  /\ \/ /\ ~isShuttingDown
        /\ HandleCrash(p)
        /\ \/ /\ Awaiting(p) = {}
              /\ status' = CrashStatus
              /\ termed' = termed \ {p}
              /\ UNCHANGED <<task, pidFile, sigExit>>
           \/ /\ Awaiting(p) # {}
              /\ StartUpToAwait(Awaiting(p), "restart", live \ {p}, termed \ {p},
                                CrashStatus)
     \/ /\ isShuttingDown
        /\ status' = "stopped"
        /\ termed' = termed \ {p}
        /\ task' = [t \in Tasks |-> IF t \in Awaiting(p) THEN Idle ELSE task[t]]
        /\ UNCHANGED <<restartCount, windowOpen, timers, timerHeld, hist, pidFile, sigExit>>
  /\ \/ awaited = p /\ awaited' = NoPid /\ shutdown' = "stopped"
     \/ awaited # p /\ UNCHANGED <<awaited, shutdown>>

ChildExits(p) ==
  /\ p \in live
  /\ live' = live \ {p} /\ mine' = mine \ {p} /\ killed' = killed \ {p}
  /\ \/ p \in mine /\ OnExit(p)
     \/ /\ p \notin mine                          \* child of an earlier agent
        /\ termed' = termed \ {p}
        /\ UNCHANGED <<child, forwarding, status, restartCount, windowOpen, timers,
                       timerHeld, task, awaited, shutdown, pidFile, sigExit, hist>>
  /\ UNCHANGED <<agent, boot, requests, isShuttingDown, stopKill, restartKill, written,
                 filesOnDisk>>

(* The callback of the restart timer; it clears this.restartTimeout even when
   that handle is a later timer's. *)
RestartTimer(t) ==
  /\ Up /\ timers > 0 /\ t \in IdleTasks
  /\ timers' = timers - 1 /\ timerHeld' = FALSE
  /\ CallStart(t, "timer")
  /\ UNCHANGED <<agentVars, child, isShuttingDown, restartCount, windowOpen, forwarding,
                 awaited, stopKill, restartKill, live, mine, killed, written, filesOnDisk,
                 hist>>

(* restartWindowMs passes. *)
WindowElapses ==
  /\ Up /\ windowOpen
  /\ windowOpen' = FALSE
  /\ UNCHANGED <<agentVars, child, status, isShuttingDown, restartCount, timers, timerHeld,
                 forwarding, callVars, osVars, fileVars, hist>>
-----------------------------------------------------------------------------
(* SIGTERM reaches the agent.  With files, SecretFileManager's listener was
   registered first and calls process.exit.  Otherwise the forwarding listener
   passes the signal on and, once startDaemon is done, shutdown() begins.  With
   no listener at all the signal kills the agent, which is AgentKilled. *)
Sigterm ==
  /\ Up
  /\ \/ sigExit /\ AgentEnds("exited")
     \/ /\ ~sigExit
        /\ forwarding \/ (boot = "ready" /\ shutdown = "no")
        /\ termed' = IF forwarding /\ child \in live THEN termed \cup {child} ELSE termed
        /\ shutdown' = IF boot = "ready" /\ shutdown = "no" THEN "begun" ELSE shutdown
        /\ UNCHANGED <<agent, boot, requests, managerVars, callVars, live, mine, killed,
                       pidFile, fileVars, hist>>

(* clearTimeout(this.restartTimeout): the last armed timer, if it is still held. *)
TimersAfterClear == IF timerHeld THEN timers - 1 ELSE timers

(* shutdown() reaches childManager.stop(). *)
Stop ==
  /\ Up /\ shutdown = "begun"
  /\ isShuttingDown' = TRUE
  /\ timers' = TimersAfterClear
  /\ timerHeld' = FALSE /\ forwarding' = FALSE
  /\ filesOnDisk' = (filesOnDisk /\ ~written)
  /\ written' = FALSE
  /\ pidFile' = NoPid
  /\ \/ /\ child \in live
        /\ shutdown' = "stopping" /\ awaited' = child /\ stopKill' = TRUE
        /\ termed' = termed \cup {child}
        /\ UNCHANGED <<child, status>>
     \/ /\ child \notin live
        /\ shutdown' = "stopped"
        /\ child' = NoPid /\ status' = "stopped"
        /\ UNCHANGED <<awaited, stopKill, termed>>
  /\ UNCHANGED <<agent, boot, requests, restartCount, windowOpen, task, restartKill,
                 live, mine, killed, sigExit, hist>>

(* The end of shutdown(): process.exit(0). *)
AgentExits == Up /\ shutdown = "stopped" /\ AgentEnds("exited")

Next ==
  \/ AgentKilled \/ AgentStarts \/ AgentExits
  \/ Sigterm \/ Stop \/ StopKillTimer \/ WindowElapses
  \/ \E t \in Tasks : \/ BootStart(t) \/ RestartTimer(t) \/ Restart(t)
                      \/ OrphanHandled(t) \/ SecretsFail(t)
                      \/ \E p \in Pids : Spawn(t, p)
  \/ \E p \in Pids : ChildExits(p) \/ RestartKillTimer(p)

Spec == Init /\ [][Next]_vars

(***************************************************************************)
(* Fairness.  Suspended calls are resumed (every request has a timeout),   *)
(* armed timers fire, shutdown() runs to its end and a process sent        *)
(* SIGKILL dies.  A child need not react to SIGTERM or exit by itself,     *)
(* and nothing makes the environment send requests or signals.             *)
(***************************************************************************)
Fairness ==
  /\ \A t \in Tasks : /\ WF_vars(BootStart(t))
                      /\ WF_vars(OrphanHandled(t))
                      /\ WF_vars(SecretsFail(t) \/ \E p \in Pids : Spawn(t, p))
  /\ WF_vars(\E t \in Tasks : RestartTimer(t))
  /\ WF_vars(Stop) /\ WF_vars(StopKillTimer) /\ WF_vars(AgentExits)
  /\ \A p \in Pids : /\ WF_vars(RestartKillTimer(p))
                     /\ WF_vars(p \in killed /\ ChildExits(p))

FairSpec == Spec /\ Fairness
-----------------------------------------------------------------------------
(* The type of every variable, in the groups of vars. *)
AgentTypes ==
  /\ agent \in {"up", "exited", "killed"}
  /\ boot \in {"early", "starting", "ready"}
  /\ shutdown \in {"no", "begun", "stopping", "stopped"}
  /\ requests \in Nat

ManagerTypes ==
  /\ child \in Pids \cup {NoPid}
  /\ status \in ChildProcessStatus
  /\ isShuttingDown \in BOOLEAN
  /\ restartCount \in 0..CountCap
  /\ windowOpen \in BOOLEAN
  /\ timers \in Nat
  /\ timerHeld \in BOOLEAN /\ (timerHeld => timers > 0)   \* a held handle is an armed timer
  /\ forwarding \in BOOLEAN

CallTypes ==
  /\ task \in [Tasks -> Call]
  /\ awaited \in Pids \cup {NoPid}
  /\ stopKill \in BOOLEAN
  /\ restartKill \subseteq Pids

OsTypes ==
  /\ live \subseteq Pids /\ mine \subseteq live
  /\ termed \subseteq Pids /\ killed \subseteq Pids
  /\ pidFile \in Pids \cup {NoPid}

FileTypes == sigExit \in BOOLEAN /\ written \in BOOLEAN /\ filesOnDisk \in BOOLEAN

HistType == hist \in [auto : Nat, crashes : 0..CountCap,
                      startFailed : BOOLEAN, lost : BOOLEAN]

TypeOK == AgentTypes /\ ManagerTypes /\ CallTypes /\ OsTypes /\ FileTypes /\ HistType

(* handleCrash's rate limit: however starts, restarts, exits of several children
   and resets of the window interleave, the restarts scheduled in one window never
   outnumber maxRestarts, nor the counted exits. *)
RateLimited == hist.auto <= restartCount /\ hist.auto <= MaxRestarts

(* The /health endpoint's "running" (getState): the manager then has a child
   object, although the exit of any other child clears this.child. *)
RunningMeansTracked == status = "running" => child # NoPid

(* "crashed" is a state the manager leaves by itself: a restart timer is armed or
   a start is in flight, unless the status comes from the catch of start(). *)
CrashedIsRecovering ==
  Up /\ status = "crashed" /\ ~hist.startFailed => timers > 0 \/ Starting # {}

(* Once stop() has set isShuttingDown no call enters start(): not from a restart
   timer whose handle was lost, not from a restart() that waits for its child. *)
NoNewStartAfterStop == [][isShuttingDown /\ Up' => Starting' \subseteq Starting]_vars

(* A process.exit leaves no secret file behind, even when a start in flight wrote
   its files after the cleanup of stop() - unless an agent was killed before. *)
OrderlyExitLeavesNoFile == agent = "exited" /\ ~hist.lost => ~filesOnDisk

(* The two transient states end: no start or restart is reported forever. *)
StatusProgress ==
  (Up /\ status \in {"starting", "restarting"})
     ~> (~Up \/ status \notin {"starting", "restarting"})

(* A crashed child is running again, or given up, or the agent is stopping, unless
   a start has failed: nothing but a start that fails ends the recovery. *)
CrashRecovers ==
  (Up /\ status = "crashed")
     ~> (\/ ~Up \/ hist.startFailed
         \/ status \in {"running", "max_restarts_exceeded", "stopped"})

(* this.child is the only child of this run: none is out of the manager's sight. *)
NoUntrackedChild == mine \subseteq {child}

(* max_restarts_exceeded means that nothing will start the child any more. *)
GaveUpIsFinal ==
  Up /\ status = "max_restarts_exceeded" => timers = 0 /\ Starting = {} /\ mine = {}

(* With restartOnChange off, the manager has one thing in hand at a time: a child, a
   call of start() or an armed restart timer; and nothing when it has given up. *)
SingleFlight ==
  /\ \A t \in Tasks : task[t].at # "exit"
  /\ \A t, u \in Starting : t = u
  /\ mine \subseteq {child}
  /\ timers <= 1
  /\ timers > 0 => Starting = {} /\ child = NoPid
  /\ Starting # {} => child = NoPid
  /\ boot = "early" => /\ child = NoPid /\ timers = 0 /\ Starting = {}
                       /\ status # "max_restarts_exceeded"
  /\ status = "max_restarts_exceeded" => child = NoPid /\ timers = 0 /\ Starting = {}

(* A child that outlives its agent and was never asked to stop is named by the PID
   file, so that the next agent's killOrphanedChild finds it. *)
UnaskedOrphanIsNamed ==
  \A p \in live \ mine : p \in termed \cup killed \cup {pidFile}

(* A shutdown that has begun ends, although a child may ignore SIGTERM. *)
StopCompletes == (Up /\ shutdown = "begun") ~> ~Up

-----------------------------------------------------------------------------
(* Statements the code does not keep in every configuration: a cfg that names one
   shows the trace. README.md describes them. *)

(* The same of every child that outlives its agent and is not being killed. *)
OrphanIsNamed == \A p \in live \ mine : p \in killed \cup {pidFile}

(* After a process.exit of the agent none of its children runs. *)
ExitLeavesNoChild == [][Up /\ agent' = "exited" => mine = {}]_vars

(* "crashed" announces a restart in every case. *)
CrashedWillRestart == Up /\ status = "crashed" => timers > 0 \/ Starting # {}

(* restartCount counts crashes: exits of children that were not asked to stop. *)
CountsOnlyCrashes == restartCount <= hist.crashes

(* Nothing is spawned once the manager is shutting down. *)
NoSpawnAfterStop == [][isShuttingDown => mine' \subseteq mine]_vars

(* "running" means that the child process runs. *)
RunningIsRunning == status = "running" => child \in live
=============================================================================
