------------------------------- MODULE Daemon -------------------------------
(***************************************************************************)
(* The life of the daemon around one secret target: startDaemon() with its *)
(* initial sync and the start of the child, handleSecretEvent(), the poll, *)
(* deploySecret() and the shutdown, over the configuration of HostConfig.  *)
(* Deployments overlap at their fetch; what follows the answer, writing    *)
(* the file, recording the version and the reload command, is synchronous  *)
(* and only a kill can cut it.                                             *)
(***************************************************************************)
EXTENDS HostConfig

CONSTANTS
  MaxSecret   \* bound: versions of the secret

ASSUME DaemonAssumption == MaxSecret \in Nat \ {0}

VARIABLES
  secV,   \* the vault: version of the secret
  file,   \* version in the output file, 0 for none
  loaded, \* version the reload command last made its service read
  child,  \* version the child process has read, or NoChild
  task,   \* deployments under way
  quirks  \* history: why the service or the child may have another version than the file

config     == <<disk, source, boot, mem, env>>
secretVars == <<secV, file, loaded, child, task, quirks>>
vars       == <<hostVars, secretVars>>

Events       == 2..MaxSecret    \* the calls of handleSecretEvent(), by the version announced
Poll         == 0               \* the poll, or the initial sync
Handlers     == Events \union {Poll}
Idle         == [pc |-> "none", have |-> 0, v |-> 0]
NoChild      == MaxSecret + 1   \* no version
ChildQuirks  == {"polled", "unsaved"}
ReloadQuirks == {"reload failed", "cut", "believed"}
FileQuirks   == {"backdated"}

Set(h, pc, have, v) == task' = [task EXCEPT ![h] = [pc |-> pc, have |-> have, v |-> v]]
-----------------------------------------------------------------------------
Init ==
  /\ HostInit
  /\ secV = 1 /\ file = 0 /\ loaded = 0 /\ child = NoChild
  /\ task = [h \in Handlers |-> Idle] /\ quirks = {}

(* The secret gets a new version; its event reaches the agent, or is lost. *)
SecretChanges ==
  /\ secV < MaxSecret /\ secV' = secV + 1 /\ events < MaxEvents /\ events' = events + 1
  /\ \/ Up /\ Set(secV', "plugins", 0, 0) /\ UNCHANGED faults
     \/ Up /\ Fault /\ UNCHANGED task
     \/ phase \notin {"syncing", "running"} /\ UNCHANGED <<faults, task>>
  /\ UNCHANGED <<phase, config, vault, fetches, unsaved, lag, file, loaded, child, quirks>>

(* The plugins have seen secretChanged; a shutdown that began meanwhile is not looked at. *)
PluginsTold(h) ==
  /\ task[h].pc = "plugins" /\ Set(h, "fetch", 0, 0)
  /\ UNCHANGED <<hostVars, secV, file, loaded, child, quirks>>

(* The initial sync takes its targets from loadConfig(). *)
SyncBegins ==
  /\ phase = "starting" /\ phase' = "syncing" /\ Set(Poll, "fetch", Loaded.sv, 0)
  /\ UNCHANGED <<config, vault, fetches, unsaved, lag, events, faults, secV, file, loaded, child, quirks>>

PollBegins ==
  /\ phase = "running" /\ task[Poll] = Idle /\ Set(Poll, "fetch", 0, 0)
  /\ UNCHANGED <<hostVars, secV, file, loaded, child, quirks>>

(* getSecret(), at the vault. *)
Answered(h) ==
  /\ task[h].pc = "fetch" /\ Accepts(Loaded.key) /\ Set(h, "answered", task[h].have, secV)
  /\ UNCHANGED <<hostVars, secV, file, loaded, child, quirks>>

(* The vault does not know the key any more. *)
SecretRefused(h) ==
  /\ task[h].pc = "fetch" /\ ~Accepts(Loaded.key) /\ task' = [task EXCEPT ![h] = Idle]
  /\ UNCHANGED <<hostVars, secV, file, loaded, child, quirks>>

(* No answer, or one that cannot be formatted: the event is dropped, the poll comes again. *)
SecretFails(h) ==
  /\ Fault /\ task[h].pc = "fetch" /\ task' = [task EXCEPT ![h] = Idle]
  /\ UNCHANGED <<phase, config, vault, fetches, unsaved, lag, events, secV, file, loaded, child, quirks>>

(* lastVersion as the poll sees it: of the targets startDaemon() began with, which deployments
   change only as long as they are those in memory. *)
Known == IF phase = "syncing" /\ source = "disk" THEN task[Poll].have ELSE boot.sv

UpToDate(h) ==
  /\ task[h].pc = "answered" /\ h = Poll /\ Known = task[h].v
  /\ task' = [task EXCEPT ![h] = Idle]
  /\ UNCHANGED <<hostVars, secV, file, loaded, child, quirks>>

(* An answer that is written, because an event forces it or the versions differ. *)
Writes(h) == task[h].pc = "answered" /\ (h \in Events \/ Known # task[h].v)
Polled(h) == IF h = Poll /\ child \notin {NoChild, task[h].v} THEN {"polled"} ELSE {}

(* Mutant: the reload command runs after the first deployment only. *)
Reload_Once(h) ==
  /\ loaded' = IF loaded = 0 THEN task[h].v ELSE loaded
  /\ quirks' = (quirks \ (ReloadQuirks \union FileQuirks)) \union Polled(h) /\ UNCHANGED faults

(* The reload command makes its service read the file, or fails, which is only logged. *)
Reload(h) ==
  \/ /\ loaded' = task[h].v /\ UNCHANGED faults
     /\ quirks' = (quirks \ (ReloadQuirks \union FileQuirks)) \union Polled(h)
  \/ /\ Fault /\ UNCHANGED loaded
     /\ quirks' = (quirks \ FileQuirks) \union Polled(h) \union {"reload failed"}

(* deploySecret() with its answer: writeSecretFile(), updateSecretTargetVersion(), reload. *)
Deployed(h) ==
  /\ Writes(h) /\ file' = task[h].v
  /\ SaveConfig([Loaded EXCEPT !.sv = task[h].v]) /\ Reload(h)
  /\ IF h = Poll THEN task' = [task EXCEPT ![h] = Idle] ELSE Set(h, "restart", 0, 0)
  /\ UNCHANGED <<phase, source, env, vault, fetches, unsaved, lag, events, secV, child>>

(* An older answer came last and its version is not recorded: the file goes back unnoticed. *)
Backdated(h) == IF task[h].v < disk.sv THEN FileQuirks ELSE {}

(* Mutant: the version is recorded first, and then the file cannot be written. *)
Unsaved_RecordsFirst(h) ==
  /\ Fault /\ Writes(h) /\ task' = [task EXCEPT ![h] = Idle]
  /\ SaveConfig([Loaded EXCEPT !.sv = task[h].v])
  /\ UNCHANGED <<phase, source, env, vault, fetches, unsaved, lag, events, secV, file, loaded, child, quirks>>

(* The file is written and the configuration cannot be saved: no reload, no restart.  An object
   in memory has the new version all the same. *)
Unsaved(h) ==
  /\ Fault /\ Writes(h) /\ file' = task[h].v /\ task' = [task EXCEPT ![h] = Idle]
  /\ boot' = IF source = "boot" THEN [boot EXCEPT !.sv = task[h].v] ELSE boot
  /\ mem' = IF source = "event" THEN [mem EXCEPT !.sv = task[h].v] ELSE mem
  /\ quirks' = quirks \union {"unsaved"} \union Backdated(h)
                \union (IF source # "disk" THEN {"believed"} ELSE {})
  /\ UNCHANGED <<phase, disk, source, env, vault, fetches, unsaved, lag, events, secV, loaded, child>>

(* The event was deployed and counts as such: childManager.restart(), with the new file. *)
Restarted(h) ==
  /\ task[h].pc = "restart" /\ task' = [task EXCEPT ![h] = Idle]
  /\ IF phase = "waiting"
       THEN UNCHANGED <<child, quirks>>
       ELSE child' = file /\ quirks' = quirks \ ChildQuirks
  /\ UNCHANGED <<hostVars, secV, file, loaded>>
-----------------------------------------------------------------------------
(* The initial sync is over; the child is started unless an event has done it. *)
StartedUp ==
  /\ phase = "syncing" /\ task[Poll] = Idle /\ phase' = "running"
  /\ IF child = NoChild THEN child' = file /\ quirks' = quirks \ ChildQuirks ELSE UNCHANGED <<child, quirks>>
  /\ UNCHANGED <<config, vault, fetches, unsaved, lag, events, faults, secV, file, loaded, task>>

(* A signal; its handler is there once the daemon is running. *)
Shutdown ==
  /\ Fault /\ phase = "running" /\ phase' = "stopping"
  /\ UNCHANGED <<config, vault, fetches, unsaved, lag, events, secretVars>>

ChildStopped ==
  /\ phase = "stopping" /\ phase' = "waiting" /\ child' = NoChild
  /\ UNCHANGED <<config, vault, fetches, unsaved, lag, events, faults, secV, file, loaded, task, quirks>>

(* The process has ended; its child too, or the next start kills it as an orphan. *)
Ends ==
  /\ ProcessEnds /\ child' = NoChild /\ task' = [h \in Handlers |-> Idle]
  /\ UNCHANGED <<vault, unsaved, events, secV>>

(* activeDeployments counts an event from its fetch on. *)
Counted == {h \in Events : task[h].pc \in {"fetch", "answered"}}

(* The shutdown waits for the deployments, for 30 seconds at most. *)
Exit ==
  /\ phase = "waiting" /\ Ends /\ quirks' = quirks \ ChildQuirks
  /\ IF Counted = {} THEN UNCHANGED faults ELSE Fault
  /\ UNCHANGED <<disk, file, loaded>>

(* A kill at any time, or a signal before its handler is installed. *)
Killed ==
  /\ Fault /\ phase # "down" /\ Ends /\ quirks' = quirks \ ChildQuirks
  /\ UNCHANGED <<disk, file, loaded>>

(* A kill after the file was written, before or after the version was recorded. *)
Cut(h) ==
  /\ Fault /\ Writes(h) /\ Ends /\ file' = task[h].v /\ UNCHANGED loaded
  /\ \/ disk' = [Loaded EXCEPT !.sv = task[h].v] /\ quirks' = (quirks \ ChildQuirks) \union {"cut"}
     \/ UNCHANGED disk /\ quirks' = (quirks \ ChildQuirks) \union Backdated(h)
-----------------------------------------------------------------------------
Step(h) == PluginsTold(h) \/ Answered(h) \/ SecretRefused(h) \/ UpToDate(h) \/ Deployed(h) \/ Restarted(h)

Next ==
  \/ HostNext /\ UNCHANGED secretVars
  \/ SecretChanges \/ SyncBegins \/ PollBegins \/ StartedUp
  \/ \E h \in Handlers :
       \/ PluginsTold(h) \/ Answered(h) \/ SecretRefused(h) \/ SecretFails(h) \/ UpToDate(h)
       \/ Deployed(h) \/ Unsaved(h) \/ Restarted(h) \/ Cut(h)
  \/ Shutdown \/ ChildStopped \/ Exit \/ Killed

(* The unit has Restart=always; requests are answered and promises continued; the poll's timer
   fires again and again. *)
Fairness ==
  /\ WF_vars((Boot /\ UNCHANGED secretVars) \/ SyncBegins \/ StartedUp \/ ChildStopped \/ Exit)
  /\ WF_vars(PollBegins)
  /\ \A h \in Handlers : WF_vars(Step(h))

Spec == Init /\ [][Next]_vars /\ Fairness
-----------------------------------------------------------------------------
(* Type invariant; a child that was stopped for the shutdown stays stopped. *)
TypeOK ==
  /\ HostTypeOK
  /\ secV \in 1..MaxSecret /\ {file, loaded} \subseteq 0..secV /\ child \in (0..secV) \union {NoChild}
  /\ task \in [Handlers -> [pc : {"none", "plugins", "fetch", "answered", "restart"},
                            have : 0..MaxSecret, v : 0..MaxSecret]]
  /\ quirks \subseteq ChildQuirks \union ReloadQuirks \union FileQuirks
  /\ phase \in {"waiting", "down"} => child = NoChild

(* The file went back with an older answer that came last and was not recorded; or the poll
   compares with its old objects, after a host config event, and takes the secret for deployed. *)
Unnoticed == quirks \cap FileQuirks # {} \/ (source = "event" /\ boot.sv = secV)

(* A new key could not be saved, and the grace period of the one in use has ended. *)
KeyLost == ~Accepts(Loaded.key)

(* The file gets the vault's version in the end, whatever events, answers, saves and processes
   are lost and in whatever order answers come, but for an unnoticed one, and unless the key is
   lost. *)
FileConverges == <>[](file = secV \/ Unnoticed \/ KeyLost)

(* The service gets to read what is in the file, unless its reload command fails, a kill cuts the
   deployment after the version was recorded, or the version stays in memory when it cannot be
   saved: then every later sync finds the secret up to date. *)
ReloadCatchesUp == <>[](loaded = file \/ quirks \cap ReloadQuirks # {} \/ Unnoticed \/ KeyLost)

(* The child gets to read what is in the file, unless the poll wrote it, which restarts nothing,
   or the configuration could not be saved. *)
ChildFresh == <>[](child = file \/ quirks \cap ChildQuirks # {} \/ KeyLost)
=============================================================================
