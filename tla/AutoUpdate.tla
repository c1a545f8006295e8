----------------------------- MODULE AutoUpdate -----------------------------
(***************************************************************************)
(* services/npm-auto-update.ts and services/plugin-auto-update.ts: the     *)
(* agents of one host each look in the registry for a newer version of a   *)
(* package, wait a random delay, take a lock file, install the package for *)
(* the whole host and restart.  A behaviour follows one package: the       *)
(* agent's own ("npm") or a plugin's ("plugin").  Checks of one agent      *)
(* overlap, since nothing keeps the interval from starting the next one;   *)
(* an agent may be restarted at any moment, by the other service too.      *)
(***************************************************************************)
EXTENDS Naturals, FiniteSets

CONSTANTS
  Agents,     \* agent processes of the host
  Nobody,     \* no agent
  Checks,     \* bound: checks under way at the same time
  Castings,   \* bound: in which agent each runs, and whether it is asked for over HTTP
  Rollback,   \* rollbackOnFailure
  Hosts,      \* bound: which agents may write to the lock's directory, and whether npm
              \* answers "npm bin -g" (no release since npm 9 does)
  MaxVersion, \* bound: published versions
  Faulty,     \* bound: versions of the agent that may turn out not to start
  MaxFaults   \* bound: failed installs and registry calls, restarts for other reasons

ASSUME AgentAssumption ==
  /\ Nobody \notin Agents
  /\ Hosts \subseteq [writers : SUBSET Agents, npmBin : BOOLEAN]
  /\ Castings \subseteq [Checks -> [agent : Agents, manual : BOOLEAN]]
ASSUME UpdateAssumption ==
  /\ Rollback \in BOOLEAN
  /\ MaxVersion \in Nat \ {0} /\ Faulty \subseteq 2..MaxVersion /\ MaxFaults \in Nat

VARIABLES
  service,    \* the service this behaviour follows
  cast,       \* the casting of this behaviour
  machine,    \* the host of this behaviour
  tag,        \* the version the channel's dist-tag names
  bad,        \* versions of the agent that do not start
  disk,       \* the installed version, 0 when an install broke off
  installed,  \* installedVersions of an agent: the plugin's version when it started
  up,         \* agents that run
  restarting, \* agents whose SIGTERM is on its way
  lock,       \* the lock file: its pid, and whether it is older than LOCK_STALE_MS
  task,       \* the checks
  adrift,     \* history: checks that update without a lock file of their own: it could
              \* not be made, or another check has removed it or written over it
  overlapped, \* history: checks whose update ran next to another one
  faults      \* how much of that bound has been used up

vars == <<service, cast, machine, tag, bad, disk, installed, up, restarting, lock, task, adrift,
          overlapped, faults>>
given == <<service, cast, machine>>
host  == <<given, tag, bad, disk, installed, up, restarting>>
past  == <<adrift, overlapped>>

Versions == 0..MaxVersion
AgentOf(c) == cast[c].agent
NoLock   == [owner |-> Nobody, stale |-> FALSE]
Idle     == [pc |-> "idle", cur |-> 0, latest |-> 0]
Steps    == {"idle", "asked", "delay", "lock", "stat", "unlink", "create", "install1", "install2",
             "verify", "health", "rollback", "restart", "release", "unlock"}

(* acquireLock() and releaseLock() are synchronous: no other check of the same agent runs
   between their file operations; those of another agent do. *)
Midway   == {"stat", "unlink", "create", "unlock"}
Updates  == {"install1", "install2", "verify", "health", "rollback", "restart", "release", "unlock"}
Updating == {c \in Checks : task[c].pc \in Updates}

At(c, pc) ==
  /\ task[c].pc = pc
  /\ \A d \in Checks \ {c} : AgentOf(d) = AgentOf(c) => task[d].pc \notin Midway

(* The versions are forgotten when nothing reads them any more. *)
Goto(c, pc) ==
  task' = [task EXCEPT ![c] =
    IF pc \in {"idle", "release", "unlock"} THEN [Idle EXCEPT !.pc = pc] ELSE [@ EXCEPT !.pc = pc]]

MayLock(c) == AgentOf(c) \in machine.writers

(* An update begins, with a lock file of its own or without one; it ends.  What is left of
   the lock is removed or replaced under whoever else updates. *)
BeginUpdate(c, locked) ==
  /\ Goto(c, "install1")
  /\ adrift' = IF locked THEN (IF lock = NoLock THEN adrift ELSE adrift \union Updating)
                ELSE adrift \union {c}
  /\ overlapped' = IF Updating = {} THEN overlapped ELSE overlapped \union Updating \union {c}
EndUpdate(c) == /\ Goto(c, "idle") /\ overlapped' = overlapped \ {c}
RemoveLock(c) ==
  IF MayLock(c) THEN lock' = NoLock /\ adrift' = (adrift \union Updating) \ {c}
                ELSE UNCHANGED lock /\ adrift' = adrift \ {c}
Fault       == faults < MaxFaults /\ faults' = faults + 1

(* What an interrupted install leaves. *)
Torn == disk' \in {disk, 0}

(* getCurrentVersion() reads the package on disk; checkForUpdates() of the plugins reads the
   map that detectInstalledVersions() filled when the agent started. *)
CurrentVersion(a) == IF service = "npm" THEN disk ELSE installed[a]
-----------------------------------------------------------------------------
Init ==
  /\ service \in {"npm", "plugin"} /\ cast \in Castings /\ machine \in Hosts
  /\ tag = 1 /\ disk = 1 /\ bad \in SUBSET (IF service = "npm" THEN Faulty ELSE {})
  /\ installed = [a \in Agents |-> 1] /\ up = Agents /\ restarting = {}
  /\ lock = NoLock /\ task = [c \in Checks |-> Idle]
  /\ adrift = {} /\ overlapped = {} /\ faults = 0

Publish ==
  /\ tag < MaxVersion /\ tag' = tag + 1
  /\ UNCHANGED <<given, bad, disk, installed, up, restarting, lock, task, past, faults>>

(* checkAndUpdate(), checkAndUpdateAll() from the timers; triggerUpdate(), triggerUpdates()
   from the HTTP server. *)
StartCheck(c) ==
  /\ AgentOf(c) \in up /\ At(c, "idle")
  /\ task' = [task EXCEPT ![c] = [pc |-> "asked", cur |-> CurrentVersion(AgentOf(c)), latest |-> 0]]
  /\ UNCHANGED <<host, lock, past, faults>>

(* The registry answers; a manual update skips the delay of the staged rollout. *)
VersionAnswered(c) ==
  /\ At(c, "asked")
  /\ task' = [task EXCEPT ![c] =
       IF tag <= @.cur THEN Idle
       ELSE [pc     |-> IF cast[c].manual THEN "lock" ELSE "delay",
             cur    |-> IF service = "npm" /\ ~cast[c].manual THEN @.cur ELSE 0,
             latest |-> IF service = "npm" THEN tag ELSE 0]]
  /\ UNCHANGED <<host, lock, past, faults>>

(* The second look compares anew, but the check goes on with the versions of the first. *)
DelayEnds(c) ==
  /\ At(c, "delay")
  /\ Goto(c, IF tag > CurrentVersion(AgentOf(c)) THEN "lock" ELSE "idle")
  /\ UNCHANGED <<host, lock, past, faults>>
VersionUnknown(c) ==
  /\ Fault /\ (At(c, "asked") \/ At(c, "delay"))
  /\ Goto(c, "idle")
  /\ UNCHANGED <<host, lock, past>>
-----------------------------------------------------------------------------
LookForLock(c) ==
  /\ At(c, "lock")
  /\ Goto(c, IF lock = NoLock THEN "create" ELSE "stat")
  /\ UNCHANGED <<host, lock, past, faults>>

(* The file has gone since: statSync() or readFileSync() throws, and the error counts as
   "not allowed to write here", so that the update goes on without a lock. *)
LockVanished(c) ==
  /\ At(c, "stat") /\ lock = NoLock
  /\ BeginUpdate(c, FALSE)
  /\ UNCHANGED <<host, lock, faults>>

LockIsHeld(c) ==
  /\ At(c, "stat") /\ lock # NoLock /\ ~lock.stale
  /\ Goto(c, "idle")
  /\ UNCHANGED <<host, lock, past, faults>>

(* Mutant: a stale lock is respected too. *)
LockIsStale_Kept(c) ==
  /\ At(c, "stat") /\ lock.stale
  /\ Goto(c, "idle") /\ UNCHANGED <<host, lock, past, faults>>

LockIsStale(c) ==
  /\ At(c, "stat") /\ lock.stale
  /\ Goto(c, IF service = "npm" THEN "unlink" ELSE "create")
  /\ UNCHANGED <<host, lock, past, faults>>

(* Whatever lock file is there by now is removed; an error is passed over. *)
UnlinkLock(c) ==
  /\ At(c, "unlink") /\ Goto(c, "create") /\ RemoveLock(c)
  /\ UNCHANGED <<host, overlapped, faults>>

(* Mutant: the lock is created without O_EXCL. *)
CreateLock_Shared(c) ==
  /\ At(c, "create")
  /\ lock' = [owner |-> AgentOf(c), stale |-> FALSE] /\ Goto(c, "install1")
  /\ UNCHANGED <<host, past, faults>>

(* The agent's service creates with O_EXCL; the plugins' one writes over what is there.  Any
   error but that of O_EXCL lets the update go on without a lock, as that of a directory
   where the agent may not write. *)
CreateLock(c) ==
  /\ At(c, "create") /\ (lock = NoLock \/ service = "plugin")
  /\ lock' = IF MayLock(c) THEN [owner |-> AgentOf(c), stale |-> FALSE] ELSE lock
  /\ BeginUpdate(c, MayLock(c))
  /\ UNCHANGED <<host, faults>>
LockExists(c) ==
  /\ At(c, "create") /\ lock # NoLock /\ service = "npm"
  /\ Goto(c, "idle")
  /\ UNCHANGED <<host, lock, past, faults>>

(* Ten minutes pass: under a holder in its second install or in a rollback, under one that
   installs several plugins, or after the holder has gone. *)
MayOutlast(c) == task[c].pc \in {"install2", "rollback"} \/ (task[c].pc = "install1" /\ service = "plugin")
LockAges ==
  /\ lock # NoLock /\ ~lock.stale
  /\ \A c \in Updating : AgentOf(c) = lock.owner => MayOutlast(c)
  /\ lock' = [lock EXCEPT !.stale = TRUE]
  /\ UNCHANGED <<host, task, past, faults>>
-----------------------------------------------------------------------------
(* npm install -g <package>@<channel> installs what the tag names by then. *)
InstallSucceeds(c) ==
  /\ At(c, "install1") \/ At(c, "install2")
  /\ disk' = tag /\ Goto(c, IF service = "npm" THEN "verify" ELSE "restart")
  /\ UNCHANGED <<given, tag, bad, installed, up, restarting, lock, past, faults>>
InstallFails(c) ==
  /\ Fault /\ Torn
  /\ \/ At(c, "install1") /\ Goto(c, IF service = "npm" THEN "install2" ELSE "release")
     \/ At(c, "install2") /\ Goto(c, "release")
  /\ UNCHANGED <<given, tag, bad, installed, up, restarting, lock, past>>

(* A manual update is not tried out and not taken back. *)
Undo(c) == IF Rollback /\ ~cast[c].manual THEN "rollback" ELSE "release"

(* verifyUpdate(): a package npm does not list counts as verified. *)
Verify(c) ==
  /\ At(c, "verify")
  /\ Goto(c, IF disk \notin {0, task[c].latest} THEN Undo(c)
             ELSE IF cast[c].manual THEN "restart" ELSE "health")
  /\ UNCHANGED <<host, lock, past, faults>>

(* Mutant: a failed health check is logged only. *)
HealthCheck_Logs(c) ==
  /\ At(c, "health") /\ Goto(c, "restart")
  /\ UNCHANGED <<host, lock, past, faults>>

(* performHealthCheck(): when no binary is found the check is skipped. *)
HealthCheck(c) ==
  /\ At(c, "health") /\ Goto(c, IF machine.npmBin /\ disk \in bad THEN Undo(c) ELSE "restart")
  /\ UNCHANGED <<host, lock, past, faults>>

RollBack(c) ==
  /\ At(c, "rollback") /\ Goto(c, "release")
  /\ \/ task[c].cur # 0 /\ disk' = task[c].cur /\ faults' = faults
     \/ Fault /\ Torn
     \/ task[c].cur = 0 /\ UNCHANGED <<disk, faults>>
  /\ UNCHANGED <<given, tag, bad, installed, up, restarting, lock, past>>

RequestRestart(c) ==
  /\ At(c, "restart") /\ Goto(c, "release")
  /\ restarting' = restarting \union {AgentOf(c)}
  /\ UNCHANGED <<given, tag, bad, disk, installed, up, lock, past, faults>>

(* releaseLock() of the agent's service reads the pid first; the plugins' one unlinks. *)
ReleaseLock(c) ==
  /\ At(c, "release")
  /\ IF service = "npm" /\ lock.owner = AgentOf(c)
       THEN Goto(c, "unlock") /\ UNCHANGED <<lock, past>>
       ELSE /\ EndUpdate(c)
            /\ IF service = "plugin" THEN RemoveLock(c)
                                     ELSE UNCHANGED lock /\ adrift' = adrift \ {c}
  /\ UNCHANGED <<host, faults>>
Unlock(c) ==
  /\ At(c, "unlock") /\ EndUpdate(c) /\ RemoveLock(c)
  /\ UNCHANGED <<host, faults>>

Installing(a) == \E c \in Checks : AgentOf(c) = a /\ task[c].pc \in {"install1", "install2", "rollback"}

(* SIGTERM, or an end of the process for another reason; systemd starts it again with what
   is installed.  Its checks are gone, its lock file is not.  An agent whose own package
   does not start stays down. *)
Restart(a) ==
  /\ a \in up
  /\ \/ a \in restarting /\ disk' = disk /\ faults' = faults
     \/ Fault /\ disk' \in IF Installing(a) THEN {disk, 0} ELSE {disk}
  /\ installed' = IF service = "npm" THEN installed ELSE [installed EXCEPT ![a] = disk']
  /\ up' = IF service = "npm" /\ disk' \in bad \union {0} THEN up \ {a} ELSE up
  /\ restarting' = restarting \ {a}
  /\ task' = [c \in Checks |-> IF AgentOf(c) = a THEN Idle ELSE task[c]]
  /\ adrift' = {c \in adrift : AgentOf(c) # a} /\ overlapped' = {c \in overlapped : AgentOf(c) # a}
  /\ UNCHANGED <<given, tag, bad, lock>>
-----------------------------------------------------------------------------
Step(c) ==
  \/ VersionAnswered(c) \/ DelayEnds(c)
  \/ LookForLock(c) \/ LockVanished(c) \/ LockIsHeld(c) \/ LockIsStale(c) \/ UnlinkLock(c)
  \/ CreateLock(c) \/ LockExists(c)
  \/ InstallSucceeds(c) \/ Verify(c) \/ HealthCheck(c) \/ RollBack(c) \/ RequestRestart(c)
  \/ ReleaseLock(c) \/ Unlock(c)

Next ==
  \/ Publish \/ LockAges
  \/ \E c \in Checks : StartCheck(c) \/ Step(c) \/ VersionUnknown(c) \/ InstallFails(c)
  \/ \E a \in Agents : Restart(a)

(* The timers start checks again and again, child processes of npm end or are timed out, time
   passes, and a signal is delivered. *)
Fairness ==
  /\ \A c \in Checks : SF_vars(Step(c))
  /\ \A c \in Checks : WF_vars(~cast[c].manual /\ StartCheck(c))
  /\ \A a \in Agents : WF_vars(a \in restarting /\ Restart(a))
  /\ WF_vars(LockAges)

Spec == Init /\ [][Next]_vars /\ Fairness
-----------------------------------------------------------------------------
(* Type invariant; only an automatic update of the agent is rolled back. *)
TypeOK ==
  /\ service \in {"npm", "plugin"} /\ cast \in Castings /\ machine \in Hosts
  /\ tag \in Versions \ {0} /\ bad \subseteq Versions
  /\ disk \in Versions /\ installed \in [Agents -> Versions]
  /\ up \subseteq Agents /\ restarting \subseteq up
  /\ lock \in [owner : Agents \union {Nobody}, stale : BOOLEAN] /\ (lock.stale => lock # NoLock)
  /\ task \in [Checks -> [pc : Steps, cur : Versions, latest : Versions]]
  /\ \A c \in Checks :
       /\ task[c].pc # "idle" => AgentOf(c) \in up
       /\ task[c].pc = "rollback" => service = "npm" /\ Rollback /\ ~cast[c].manual
  /\ adrift \subseteq Updating /\ overlapped \subseteq Updating /\ faults \in 0..MaxFaults

(* "Only one agent performs the update": of two updates of one package that run at the same
   time, one has no lock file of its own, since it could not be made, or the check had to be
   told from an error that it vanished, or another has removed it or written over it.  What
   went wrong with one lock does not break the exclusion of the updates after it. *)
UpdatesExclude == Cardinality(Updating \ adrift) <= 1

(* Whoever else updates holds the lock file, with its own pid in it: no skipped check takes
   it away, and no release by another that leaves its trace in adrift only. *)
UpdaterHoldsLock == \A c \in Updating \ adrift : lock.owner = AgentOf(c)

(* An automatic update of the agent, with a lock or without one, asks for a restart only into
   the complete package of the version it has seen and verified, and where npm says where the
   binary is into one that starts; what excuses it is another update at the same time. *)
RestartsIntoWorking ==
  \A c \in Checks \ overlapped :
    service = "npm" /\ task[c].pc = "restart" /\ ~cast[c].manual
      => disk # 0 /\ disk = task[c].latest /\ (machine.npmBin => disk \notin bad)

(* A lock file that a killed agent left behind, failed installs, rollbacks (also of a version
   published during the delay) and skipped checks delay a release of the agent, and never keep
   it off a host with a running agent that checks, unless that agent is not allowed to remove
   the stale lock. *)
LatestArrives ==
  \A c \in Checks :
    []<>(\/ disk = tag \/ tag \in bad \/ AgentOf(c) \notin up
         \/ service = "plugin" \/ cast[c].manual
         \/ lock.stale /\ ~MayLock(c))

(* Every running agent gets to run the newest plugin, also when another agent of the host
   has installed it. *)
PluginsCatchUp ==
  \A c \in Checks : []<>(installed[AgentOf(c)] = tag \/ service = "npm" \/ cast[c].manual)
-----------------------------------------------------------------------------
(* Statements the code does not keep. *)

(* "Only one agent performs the update", without exceptions. *)
OnlyOneUpdates == Cardinality(Updating) <= 1

(* "Never restart with a broken binary": with npm 9 and later the binary is not found and
   the health check is skipped. *)
NeverBroken ==
  \A c \in Checks \ overlapped :
    service = "npm" /\ task[c].pc = "restart" /\ ~cast[c].manual => disk \notin bad
=============================================================================
