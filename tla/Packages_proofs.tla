-------------------------- MODULE Packages_proofs ---------------------------
(***************************************************************************)
(* Proofs about the packages the agent runs on: its own, which it updates  *)
(* itself, and the plugins it hosts.                                       *)
(***************************************************************************)
EXTENDS AutoUpdate, PluginHost, FiniteSetTheorems, WellFoundedInduction, TLAPS

(***************************************************************************)
(* The automatic updates of the agents of a host, for every set of agents  *)
(* and of checks, every casting and every number of versions and faults.   *)
(***************************************************************************)
(* Which steps only the agent's own service takes. *)
Routes ==
  \A c \in Checks :
    /\ task[c].pc \in {"unlink", "install2", "verify", "health", "rollback"} => service = "npm"
    /\ task[c].pc \in {"health", "rollback"} => ~cast[c].manual

(* Whoever updates with a lock file of its own holds it, and so is the only one. *)
Exclusive ==
  /\ \A c \in Updating \ adrift : lock.owner = AgentOf(c)
  /\ \A c, d \in Updating \ adrift : c = d

(* Two updates at the same time leave their trace on both. *)
Overlaps == \A c, d \in Updating : c # d => c \in overlapped

(* What an updater has on the disk on its way to the restart, if no other one ran next to it. *)
Healthy ==
  service = "npm" =>
    \A c \in Checks \ overlapped :
      /\ task[c].pc \in {"verify", "health", "restart"} => disk # 0
      /\ task[c].pc = "health" => disk = task[c].latest
      /\ task[c].pc = "restart" /\ ~cast[c].manual
           => disk = task[c].latest /\ (machine.npmBin => disk \notin bad)

IInv == TypeOK /\ Routes /\ Exclusive /\ Overlaps /\ Healthy
-----------------------------------------------------------------------------
Tasks == [Checks -> [pc : Steps, cur : Versions, latest : Versions]]

LEMMA VersionFacts ==
  /\ MaxVersion \in Nat \ {0} /\ MaxFaults \in Nat /\ 0 \in Versions /\ 1 \in Versions /\ Versions \subseteq Nat
  /\ Faulty \subseteq Versions /\ Nobody \notin Agents
BY UpdateAssumption, AgentAssumption DEF Versions

LEMMA AgentFacts ==
  ASSUME TypeOK, NEW c \in Checks
  PROVE  AgentOf(c) \in Agents /\ AgentOf(c) # Nobody /\ cast[c].manual \in BOOLEAN
BY AgentAssumption DEF TypeOK, AgentOf

(* What the two ways to change a check's record leave. *)
Moved(c, pc) ==
  /\ task' \in Tasks /\ task'[c].pc = pc
  /\ \A d \in Checks \ {c} : task'[d] = task[d]

LEMMA GotoMoves ==
  ASSUME TypeOK, NEW c \in Checks, NEW pc \in Steps, Goto(c, pc)
  PROVE  Moved(c, pc) /\ (pc \notin {"idle", "release", "unlock"} => task'[c].latest = task[c].latest)
<1>1. task \in Tasks /\ 0 \in Versions
  BY VersionFacts DEF TypeOK, Tasks
<1>2. CASE pc \in {"idle", "release", "unlock"}
  <2> DEFINE record == [Idle EXCEPT !.pc = pc]
  <2>1. record = [pc |-> pc, cur |-> 0, latest |-> 0]
    BY DEF Idle
  <2>2. task' = [task EXCEPT ![c] = record]
    BY <1>1, <1>2 DEF Goto, Tasks
  <2> HIDE DEF record
  <2>3. QED
    BY <1>1, <1>2, <2>1, <2>2 DEF Moved, Tasks
<1>3. CASE pc \notin {"idle", "release", "unlock"}
  <2>1. task' = [task EXCEPT ![c] = [task[c] EXCEPT !.pc = pc]]
    BY <1>1, <1>3 DEF Goto, Tasks
  <2>2. QED
    BY <1>1, <1>3, <2>1 DEF Moved, Tasks
<1>4. QED
  BY <1>2, <1>3

LEMMA RecordMoves ==
  ASSUME TypeOK, NEW c \in Checks, NEW pc \in Steps, NEW cur \in Versions, NEW latest \in Versions,
         task' = [task EXCEPT ![c] = [pc |-> pc, cur |-> cur, latest |-> latest]]
  PROVE  Moved(c, pc)
BY DEF TypeOK, Moved, Tasks

(* A check before its update: it begins, goes on or ends without it. *)
Looks(c) ==
  /\ \E from \in {"idle", "asked", "delay", "lock", "stat", "create"},
        to \in {"idle", "asked", "delay", "lock", "stat", "unlink", "create"} :
       /\ task[c].pc = from /\ Moved(c, to)
       /\ to # "idle" => AgentOf(c) \in up
       /\ to = "unlink" => service = "npm"
  /\ UNCHANGED <<host, lock, past>> /\ faults' \in 0..MaxFaults

(* An update begins without a lock file of its own, or with one that it makes or writes over
   another's. *)
Begins(c) ==
  /\ task[c].pc \in {"stat", "create"} /\ Moved(c, "install1") /\ UNCHANGED <<host, faults>>
  /\ overlapped' = IF Updating = {} THEN overlapped ELSE overlapped \union Updating \union {c}
  /\ \/ lock' = lock /\ adrift' = adrift \union {c}
     \/ /\ lock' = [owner |-> AgentOf(c), stale |-> FALSE]
        /\ (lock = NoLock /\ adrift' = adrift) \/ adrift' = adrift \union Updating

(* The lock file is removed, whoever has it, or it stays. *)
Drops(c) ==
  \/ lock' = NoLock /\ adrift' = (adrift \union Updating) \ {c}
  \/ lock' = lock /\ adrift' = adrift \ {c}
Removes(c) ==
  /\ task[c].pc = "unlink" /\ Moved(c, "create") /\ Drops(c) /\ UNCHANGED <<host, overlapped, faults>>
Releases(c) ==
  /\ task[c].pc \in {"release", "unlock"} /\ Moved(c, "idle") /\ Drops(c)
  /\ overlapped' = overlapped \ {c} /\ UNCHANGED <<host, faults>>

LEMMA LookCases ==
  ASSUME TypeOK, NEW c \in Checks,
         \/ StartCheck(c) \/ VersionAnswered(c) \/ DelayEnds(c) \/ VersionUnknown(c)
         \/ LookForLock(c) \/ LockIsHeld(c) \/ LockIsStale(c) \/ LockExists(c)
  PROVE  Looks(c)
<1>1. /\ tag \in Versions /\ disk \in Versions /\ installed \in [Agents -> Versions]
      /\ task \in Tasks /\ AgentOf(c) \in Agents /\ 0 \in Versions
      /\ task[c].pc # "idle" => AgentOf(c) \in up
      /\ faults \in 0..MaxFaults /\ MaxFaults \in Nat
  BY VersionFacts, AgentFacts DEF TypeOK, Tasks
<1>2. CASE StartCheck(c)
  <2>1. CurrentVersion(AgentOf(c)) \in Versions
    BY <1>1 DEF CurrentVersion
  <2>2. Moved(c, "asked")
    BY <1>1, <1>2, <2>1, RecordMoves DEF StartCheck, Steps
  <2>3. QED
    BY <1>1, <1>2, <2>2 DEF StartCheck, At, Looks
<1>3. CASE VersionAnswered(c)
  <2>1. task[c].pc = "asked" /\ task[c].cur \in Versions
    BY <1>1, <1>3 DEF VersionAnswered, At, Tasks
  <2>2. CASE tag <= task[c].cur
    <3>1. task' = [task EXCEPT ![c] = [pc |-> "idle", cur |-> 0, latest |-> 0]]
      BY <1>1, <1>3, <2>2 DEF VersionAnswered, Tasks, Idle
    <3>2. Moved(c, "idle")
      BY <1>1, <3>1, RecordMoves DEF Steps
    <3>3. QED
      BY <1>1, <1>3, <2>1, <3>2 DEF VersionAnswered, Looks
  <2>3. CASE ~(tag <= task[c].cur)
    <3>1. PICK pc \in {"lock", "delay"}, cur \in Versions, latest \in Versions :
            task' = [task EXCEPT ![c] = [pc |-> pc, cur |-> cur, latest |-> latest]]
      <4> DEFINE pc == IF cast[c].manual THEN "lock" ELSE "delay"
                 cur == IF service = "npm" /\ ~cast[c].manual THEN task[c].cur ELSE 0
                 latest == IF service = "npm" THEN tag ELSE 0
      <4>1. task' = [task EXCEPT ![c] = [pc |-> pc, cur |-> cur, latest |-> latest]]
        BY <1>1, <1>3, <2>3 DEF VersionAnswered, Tasks
      <4>2. pc \in {"lock", "delay"} /\ cur \in Versions /\ latest \in Versions
        BY <1>1, <2>1
      <4> HIDE DEF pc, cur, latest
      <4>3. QED
        BY <4>1, <4>2
    <3>2. Moved(c, pc)
      BY <3>1, RecordMoves DEF Steps
    <3>3. QED
      BY <1>1, <1>3, <2>1, <3>2 DEF VersionAnswered, Looks
  <2>4. QED
    BY <2>2, <2>3
<1>4. CASE DelayEnds(c) \/ VersionUnknown(c)
  <2>1. PICK pc \in {"lock", "idle"} : Goto(c, pc)
    BY <1>4 DEF DelayEnds, VersionUnknown
  <2>2. Moved(c, pc) /\ task[c].pc \in {"asked", "delay"}
    BY <1>4, <2>1, GotoMoves DEF DelayEnds, VersionUnknown, At, Steps
  <2>3. UNCHANGED <<host, lock, past>> /\ faults' \in 0..MaxFaults
    BY <1>1, <1>4 DEF DelayEnds, VersionUnknown, Fault
  <2>4. QED
    BY <1>1, <2>2, <2>3 DEF Looks
<1>5. CASE LookForLock(c) \/ LockIsHeld(c) \/ LockIsStale(c) \/ LockExists(c)
  <2>1. PICK pc \in {"create", "stat", "unlink", "idle"} : Goto(c, pc) /\ (pc = "unlink" => service = "npm")
    BY <1>5 DEF LookForLock, LockIsHeld, LockIsStale, LockExists
  <2>2. Moved(c, pc) /\ task[c].pc \in {"lock", "stat", "create"}
    BY <1>5, <2>1, GotoMoves DEF LookForLock, LockIsHeld, LockIsStale, LockExists, At, Steps
  <2>3. UNCHANGED <<host, lock, past>> /\ faults' \in 0..MaxFaults
    BY <1>1, <1>5 DEF LookForLock, LockIsHeld, LockIsStale, LockExists
  <2>4. QED
    BY <1>1, <2>1, <2>2, <2>3 DEF Looks
<1>6. QED
  BY <1>2, <1>3, <1>4, <1>5

LEMMA LockCases ==
  ASSUME TypeOK, NEW c \in Checks,
         LockVanished(c) \/ UnlinkLock(c) \/ CreateLock(c) \/ ReleaseLock(c) \/ Unlock(c)
  PROVE  \/ Begins(c) \/ Removes(c) \/ Releases(c)
         \/ (task[c].pc = "release" /\ Moved(c, "unlock") /\ UNCHANGED <<host, lock, past, faults>>)
<1>1. adrift \subseteq Updating /\ (task[c].pc = "unlink" => c \notin Updating)
  BY DEF TypeOK, Updating, Updates
<1>2. CASE LockVanished(c)
  <2>1. Moved(c, "install1") /\ task[c].pc = "stat"
    BY <1>2, GotoMoves DEF LockVanished, BeginUpdate, At, Steps
  <2>2. QED
    BY <1>2, <2>1 DEF LockVanished, BeginUpdate, Begins
<1>3. CASE CreateLock(c)
  <2>1. Moved(c, "install1") /\ task[c].pc = "create"
    BY <1>3, GotoMoves DEF CreateLock, BeginUpdate, At, Steps
  <2>2. QED
    BY <1>3, <2>1 DEF CreateLock, BeginUpdate, Begins
<1>4. CASE UnlinkLock(c)
  <2>1. Moved(c, "create") /\ task[c].pc = "unlink"
    BY <1>4, GotoMoves DEF UnlinkLock, At, Steps
  <2>2. QED
    BY <1>4, <2>1 DEF UnlinkLock, RemoveLock, Removes, Drops
<1>5. CASE ReleaseLock(c)
  <2>1. CASE service = "npm" /\ lock.owner = AgentOf(c)
    BY <1>5, <2>1, GotoMoves DEF ReleaseLock, At, Steps
  <2>2. CASE ~(service = "npm" /\ lock.owner = AgentOf(c))
    <3>1. Moved(c, "idle") /\ task[c].pc = "release"
      BY <1>5, <2>2, GotoMoves DEF ReleaseLock, EndUpdate, At, Steps
    <3>2. QED
      BY <1>5, <2>2, <3>1 DEF ReleaseLock, EndUpdate, RemoveLock, Releases, Drops
  <2>3. QED
    BY <2>1, <2>2
<1>6. CASE Unlock(c)
  <2>1. Moved(c, "idle") /\ task[c].pc = "unlock"
    BY <1>6, GotoMoves DEF Unlock, EndUpdate, At, Steps
  <2>2. QED
    BY <1>6, <2>1 DEF Unlock, EndUpdate, RemoveLock, Releases, Drops
<1>7. QED
  BY <1>2, <1>3, <1>4, <1>5, <1>6

(* A step of the update itself: what it leaves on the disk, and where it goes with it. *)
WorksTo(c, to) ==
  /\ Moved(c, to)
  /\ to \in {"install2", "verify", "health", "rollback"} => service = "npm"
  /\ to \in {"health", "rollback"} => ~cast[c].manual
  /\ to = "rollback" => Rollback
  /\ service = "npm" /\ to = "verify" => disk' # 0
  /\ service = "npm" /\ to \in {"health", "restart"} => disk' = disk /\ task[c].pc \in {"verify", "health"}
  /\ to = "health" => disk' \in {0, task'[c].latest}
  /\ service = "npm" /\ to = "restart" /\ ~cast[c].manual
       => /\ task[c].pc = "health" /\ task'[c].latest = task[c].latest
          /\ machine.npmBin => disk' \notin bad

Works(c) ==
  /\ task[c].pc \in Updates /\ \E to \in Updates : WorksTo(c, to)
  /\ disk' \in Versions /\ faults' \in 0..MaxFaults
  /\ restarting' \in {restarting, restarting \union {AgentOf(c)}}
  /\ UNCHANGED <<given, tag, bad, installed, up, lock, past>>

LEMMA WorkCases ==
  ASSUME TypeOK, Routes, NEW c \in Checks,
         \/ InstallSucceeds(c) \/ InstallFails(c) \/ Verify(c) \/ HealthCheck(c) \/ RollBack(c)
         \/ RequestRestart(c)
  PROVE  Works(c)
<1>1. /\ tag \in Versions /\ tag # 0 /\ disk \in Versions /\ 0 \in Versions
      /\ faults \in 0..MaxFaults /\ MaxFaults \in Nat
      /\ task \in Tasks /\ service \in {"npm", "plugin"}
  BY VersionFacts DEF TypeOK, Tasks
<1>2. CASE InstallSucceeds(c)
  <2>1. Moved(c, IF service = "npm" THEN "verify" ELSE "restart") /\ task[c].pc \in {"install1", "install2"}
    BY <1>2, GotoMoves DEF InstallSucceeds, At, Steps
  <2>2. \E to \in Updates : WorksTo(c, to)
    <3>1. CASE service = "npm"
      <4>1. WorksTo(c, "verify")
        BY <1>1, <1>2, <2>1, <3>1 DEF InstallSucceeds, WorksTo
      <4>2. QED
        BY <4>1 DEF Updates
    <3>2. CASE service # "npm"
      <4>1. WorksTo(c, "restart")
        BY <1>1, <1>2, <2>1, <3>2 DEF InstallSucceeds, WorksTo
      <4>2. QED
        BY <4>1 DEF Updates
    <3>3. QED
      BY <3>1, <3>2
  <2>3. QED
    BY <1>1, <1>2, <2>1, <2>2 DEF InstallSucceeds, Works, Updates
<1>3. CASE InstallFails(c)
  <2>1. PICK to \in {"install2", "release"} :
          Moved(c, to) /\ task[c].pc \in {"install1", "install2"} /\ (to = "install2" => service = "npm")
    <3>1. CASE At(c, "install1") /\ Goto(c, IF service = "npm" THEN "install2" ELSE "release")
      <4>1. Moved(c, IF service = "npm" THEN "install2" ELSE "release")
        BY <3>1, GotoMoves DEF Steps
      <4>2. QED
        BY <3>1, <4>1 DEF At
    <3>2. CASE At(c, "install2") /\ Goto(c, "release")
      BY <3>2, GotoMoves DEF At, Steps
    <3>3. QED
      BY <1>3, <3>1, <3>2 DEF InstallFails
  <2>2. WorksTo(c, to) /\ to \in Updates
    BY <2>1 DEF WorksTo, Updates
  <2>3. QED
    BY <1>1, <1>3, <2>1, <2>2 DEF InstallFails, Fault, Torn, Works, Updates
<1>4. CASE Verify(c)
  <2> DEFINE to == IF disk \notin {0, task[c].latest} THEN Undo(c)
                   ELSE IF cast[c].manual THEN "restart" ELSE "health"
  <2>1. task[c].pc = "verify" /\ Goto(c, to) /\ UNCHANGED <<host, lock, past, faults>> /\ service = "npm"
    BY <1>4 DEF Verify, At, Routes
  <2>2. /\ to \in {"rollback", "release", "restart", "health"}
        /\ to = "rollback" => Rollback /\ ~cast[c].manual
        /\ to = "restart" => cast[c].manual
        /\ to = "health" => ~cast[c].manual /\ disk \in {0, task[c].latest}
    BY DEF Undo
  <2> HIDE DEF to
  <2>3. Moved(c, to) /\ (to = "health" => task'[c].latest = task[c].latest)
    BY <2>1, <2>2, GotoMoves DEF Steps
  <2>4. WorksTo(c, to) /\ to \in Updates
    BY <2>1, <2>2, <2>3 DEF WorksTo, Updates, host, given
  <2>5. QED
    BY <1>1, <2>1, <2>4 DEF Works, Updates, host
<1>5. CASE HealthCheck(c)
  <2> DEFINE to == IF machine.npmBin /\ disk \in bad THEN Undo(c) ELSE "restart"
  <2>1. /\ task[c].pc = "health" /\ Goto(c, to) /\ UNCHANGED <<host, lock, past, faults>>
        /\ service = "npm" /\ ~cast[c].manual
    BY <1>5 DEF HealthCheck, At, Routes
  <2>2. /\ to \in {"rollback", "release", "restart"}
        /\ to = "rollback" => Rollback
        /\ to = "restart" /\ machine.npmBin => disk \notin bad
    BY DEF Undo
  <2> HIDE DEF to
  <2>3. Moved(c, to) /\ (to = "restart" => task'[c].latest = task[c].latest)
    BY <2>1, <2>2, GotoMoves DEF Steps
  <2>4. WorksTo(c, to) /\ to \in Updates
    BY <2>1, <2>2, <2>3 DEF WorksTo, Updates, host, given
  <2>5. QED
    BY <1>1, <2>1, <2>4 DEF Works, Updates, host
<1>6. CASE RollBack(c)
  <2>1. task[c].pc = "rollback" /\ Moved(c, "release") /\ task[c].cur \in Versions
    BY <1>1, <1>6, GotoMoves DEF RollBack, At, Steps, Tasks
  <2>2. disk' \in Versions /\ faults' \in 0..MaxFaults
    BY <1>1, <1>6, <2>1 DEF RollBack, Fault, Torn
  <2>3. WorksTo(c, "release") /\ "release" \in Updates
    BY <2>1 DEF WorksTo, Updates
  <2>4. QED
    BY <1>6, <2>1, <2>2, <2>3 DEF RollBack, Works, Updates
<1>7. CASE RequestRestart(c)
  <2>1. task[c].pc = "restart" /\ Moved(c, "release")
    BY <1>7, GotoMoves DEF RequestRestart, At, Steps
  <2>2. WorksTo(c, "release") /\ "release" \in Updates
    BY <2>1 DEF WorksTo, Updates
  <2>3. QED
    BY <1>1, <1>7, <2>1, <2>2 DEF RequestRestart, Works, Updates
<1>8. QED
  BY <1>2, <1>3, <1>4, <1>5, <1>6, <1>7

LEMMA UnlockWorks ==
  ASSUME TypeOK, NEW c \in Checks, task[c].pc = "release", Moved(c, "unlock"),
         UNCHANGED <<host, lock, past, faults>>
  PROVE  Works(c)
<1>1. WorksTo(c, "unlock") /\ "unlock" \in Updates
  BY DEF WorksTo, Updates
<1>2. QED
  BY <1>1 DEF Works, Updates, host, TypeOK

(* Every step of a check is of one of these kinds. *)
Checked(c) == Looks(c) \/ Begins(c) \/ Removes(c) \/ Releases(c) \/ Works(c)

LEMMA CheckCases ==
  ASSUME TypeOK, Routes, NEW c \in Checks,
         StartCheck(c) \/ Step(c) \/ VersionUnknown(c) \/ InstallFails(c)
  PROVE  Checked(c)
<1>1. CASE \/ StartCheck(c) \/ VersionAnswered(c) \/ DelayEnds(c) \/ VersionUnknown(c)
           \/ LookForLock(c) \/ LockIsHeld(c) \/ LockIsStale(c) \/ LockExists(c)
  BY <1>1, LookCases DEF Checked
<1>2. CASE LockVanished(c) \/ UnlinkLock(c) \/ CreateLock(c) \/ ReleaseLock(c) \/ Unlock(c)
  BY <1>2, LockCases, UnlockWorks DEF Checked
<1>3. CASE \/ InstallSucceeds(c) \/ InstallFails(c) \/ Verify(c) \/ HealthCheck(c) \/ RollBack(c)
           \/ RequestRestart(c)
  BY <1>3, WorkCases DEF Checked
<1>4. QED
  BY <1>1, <1>2, <1>3 DEF Step
-----------------------------------------------------------------------------
LEMMA InitIInv == Init => IInv
<1> SUFFICES ASSUME Init PROVE IInv
  OBVIOUS
<1>1. \A c \in Checks : task[c].pc = "idle"
  BY DEF Init, Idle
<1>2. TypeOK
  <2>1. bad \subseteq Versions /\ tag \in Versions \ {0} /\ disk \in Versions /\ installed \in [Agents -> Versions]
    BY VersionFacts DEF Init
  <2>2. task \in Tasks
    BY VersionFacts DEF Init, Idle, Tasks, Steps
  <2>3. /\ lock \in [owner : Agents \union {Nobody}, stale : BOOLEAN] /\ (lock.stale => lock # NoLock)
        /\ faults \in 0..MaxFaults
    BY VersionFacts DEF Init, NoLock
  <2>4. QED
    BY <1>1, <2>1, <2>2, <2>3 DEF Init, TypeOK, Tasks
<1>3. Updating = {}
  BY <1>1 DEF Updating, Updates
<1>4. Routes /\ Exclusive /\ Overlaps /\ Healthy
  BY <1>1, <1>3 DEF Routes, Exclusive, Overlaps, Healthy
<1>5. QED
  BY <1>2, <1>4 DEF IInv

(* Who updates after a step, and the traces on those. *)
LEMMA CheckUpdating ==
  ASSUME TypeOK, NEW c \in Checks, Checked(c)
  PROVE  /\ Looks(c) \/ Removes(c) => c \notin Updating /\ Updating' = Updating
         /\ Begins(c) => c \notin Updating /\ Updating' = Updating \union {c}
         /\ Releases(c) => c \in Updating /\ Updating' = Updating \ {c}
         /\ Works(c) => c \in Updating /\ Updating' = Updating
<1>1. \A d \in Checks \ {c} : task'[d] = task[d]
  BY DEF Checked, Looks, Begins, Removes, Releases, Works, WorksTo, Moved
<1>2. CASE Looks(c) \/ Removes(c)
  <2>1. task[c].pc \notin Updates /\ task'[c].pc \notin Updates
    BY <1>2 DEF Looks, Removes, Moved, Updates
  <2>2. ~Begins(c) /\ ~Releases(c) /\ ~Works(c)
    BY <2>1 DEF Begins, Releases, Works, Moved, Updates
  <2>3. QED
    BY <1>1, <2>1, <2>2 DEF Updating
<1>3. CASE Begins(c)
  <2>1. task[c].pc \notin Updates /\ task'[c].pc \in Updates
    BY <1>3 DEF Begins, Moved, Updates
  <2>2. ~Looks(c) /\ ~Removes(c) /\ ~Releases(c) /\ ~Works(c)
    BY <1>3, <2>1 DEF Begins, Looks, Removes, Releases, Works, Moved, Updates
  <2>3. QED
    BY <1>1, <2>1, <2>2 DEF Updating
<1>4. CASE Releases(c)
  <2>1. task[c].pc \in Updates /\ task'[c].pc \notin Updates
    BY <1>4 DEF Releases, Moved, Updates
  <2>2. ~Looks(c) /\ ~Removes(c) /\ ~Begins(c) /\ ~Works(c)
    BY <1>4, <2>1 DEF Releases, Looks, Removes, Begins, Works, WorksTo, Moved, Updates
  <2>3. QED
    BY <1>1, <2>1, <2>2 DEF Updating
<1>5. CASE Works(c)
  <2>1. task[c].pc \in Updates /\ task'[c].pc \in Updates
    BY <1>5 DEF Works, WorksTo, Moved
  <2>2. ~Looks(c) /\ ~Removes(c) /\ ~Begins(c) /\ ~Releases(c)
    BY <2>1 DEF Looks, Removes, Begins, Releases, Moved, Updates
  <2>3. QED
    BY <1>1, <2>1, <2>2 DEF Updating
<1>6. QED
  BY <1>2, <1>3, <1>4, <1>5 DEF Checked

(* The steps of a check keep the types: a check at work is one of a running agent. *)
LEMMA CheckTypes ==
  ASSUME TypeOK, Routes, NEW c \in Checks, Checked(c)
  PROVE  TypeOK'
<1> USE DEF host, given, past
<1> DEFINE Places == \A d \in Checks :
                       /\ task'[d].pc # "idle" => AgentOf(d)' \in up'
                       /\ task'[d].pc = "rollback" => service' = "npm" /\ Rollback /\ ~cast'[d].manual
           Locks == lock' \in [owner : Agents \union {Nobody}, stale : BOOLEAN] /\ (lock'.stale => lock' # NoLock)
           Traces == adrift' \subseteq Updating' /\ overlapped' \subseteq Updating'
           Data == /\ disk' \in Versions /\ faults' \in 0..MaxFaults /\ restarting' \subseteq up'
                   /\ UNCHANGED <<service, cast, machine, tag, bad, installed, up>>
<1>1. SUFFICES task' \in Tasks /\ Places /\ Locks /\ Traces /\ Data
  BY DEF TypeOK, Tasks
<1>2. /\ disk \in Versions /\ faults \in 0..MaxFaults /\ restarting \subseteq up
      /\ lock \in [owner : Agents \union {Nobody}, stale : BOOLEAN] /\ (lock.stale => lock # NoLock)
      /\ \A d \in Checks : /\ task[d].pc # "idle" => AgentOf(d) \in up
                           /\ task[d].pc = "rollback" => service = "npm" /\ Rollback /\ ~cast[d].manual
      /\ adrift \subseteq Updating /\ overlapped \subseteq Updating
  BY DEF TypeOK
<1>3. /\ NoLock \in [owner : Agents \union {Nobody}, stale : BOOLEAN] /\ ~NoLock.stale
      /\ [owner |-> AgentOf(c), stale |-> FALSE] \in [owner : Agents \union {Nobody}, stale : BOOLEAN]
      /\ [owner |-> AgentOf(c), stale |-> FALSE].stale = FALSE
  BY AgentFacts DEF NoLock
<1>4. CASE Looks(c)
  <2>1. Places /\ task' \in Tasks
    BY <1>2, <1>4 DEF Looks, Moved, AgentOf
  <2>2. Traces
    BY <1>2, <1>4, CheckUpdating DEF Looks
  <2>3. QED
    BY <1>2, <1>4, <2>1, <2>2 DEF Looks
<1>5. CASE Begins(c) \/ Removes(c) \/ Releases(c)
  <2>1. Places /\ task' \in Tasks
    BY <1>2, <1>5 DEF Begins, Removes, Releases, Moved, AgentOf
  <2>2. Locks
    BY <1>2, <1>3, <1>5 DEF Begins, Removes, Releases, Drops
  <2>3. CASE Begins(c)
    <3>1. Updating' = Updating \union {c}
      BY <2>3, CheckUpdating DEF Checked
    <3>2. Traces
      BY <1>2, <2>3, <3>1 DEF Begins
    <3>3. QED
      BY <1>2, <2>1, <2>2, <2>3, <3>2 DEF Begins
  <2>4. CASE Removes(c)
    <3>1. Updating' = Updating
      BY <2>4, CheckUpdating DEF Checked
    <3>2. Traces
      BY <1>2, <2>4, <3>1 DEF Removes, Drops
    <3>3. QED
      BY <1>2, <2>1, <2>2, <2>4, <3>2 DEF Removes
  <2>5. CASE Releases(c)
    <3>1. Updating' = Updating \ {c}
      BY <2>5, CheckUpdating DEF Checked
    <3>2. Traces
      BY <1>2, <2>5, <3>1 DEF Releases, Drops
    <3>3. QED
      BY <1>2, <2>1, <2>2, <2>5, <3>2 DEF Releases
  <2>6. QED
    BY <1>5, <2>3, <2>4, <2>5
<1>6. CASE Works(c)
  <2>1. AgentOf(c) \in up
    BY <1>2, <1>6 DEF Works, Updates
  <2>2. PICK to \in Updates : WorksTo(c, to)
    BY <1>6 DEF Works
  <2>3. Places /\ task' \in Tasks
    BY <1>2, <1>6, <2>1, <2>2 DEF Works, WorksTo, Moved, AgentOf
  <2>4. Traces
    BY <1>2, <1>6, CheckUpdating DEF Works
  <2>5. QED
    BY <1>2, <1>6, <2>1, <2>3, <2>4 DEF Works
<1>7. QED
  BY <1>4, <1>5, <1>6 DEF Checked

LEMMA CheckRoutes ==
  ASSUME TypeOK, Routes, NEW c \in Checks, Checked(c)
  PROVE  Routes'
<1>1. service' = service /\ cast' = cast
  BY DEF Checked, Looks, Begins, Removes, Releases, Works, host, given
<1>2. \A d \in Checks \ {c} : task'[d] = task[d]
  BY DEF Checked, Looks, Begins, Removes, Releases, Works, WorksTo, Moved
<1>3. /\ task'[c].pc \in {"unlink", "install2", "verify", "health", "rollback"} => service = "npm"
      /\ task'[c].pc \in {"health", "rollback"} => ~cast[c].manual
  <2>1. CASE Looks(c) \/ Begins(c) \/ Removes(c) \/ Releases(c)
    BY <2>1 DEF Looks, Begins, Removes, Releases, Moved
  <2>2. CASE Works(c)
    <3>1. PICK to \in Updates : WorksTo(c, to)
      BY <2>2 DEF Works
    <3>2. QED
      BY <3>1 DEF WorksTo, Moved, Updates
  <2>3. QED
    BY <2>1, <2>2 DEF Checked
<1>4. QED
  BY <1>1, <1>2, <1>3 DEF Routes

(* Who makes the lock file finds none, so that nobody else has it, or it writes over the file
   of the one that had it; who removes it leaves nobody with a lock. *)
LEMMA CheckExclusive ==
  ASSUME TypeOK, Exclusive, NEW c \in Checks, Checked(c)
  PROVE  Exclusive'
<1>1. cast' = cast
  BY DEF Checked, Looks, Begins, Removes, Releases, Works, host, given
<1>2. SUFFICES /\ \A d \in Updating' \ adrift' : lock'.owner = AgentOf(d)
               /\ \A d, e \in Updating' \ adrift' : d = e
  BY <1>1 DEF Exclusive, AgentOf
<1>3. /\ \A d \in Updating \ adrift : lock.owner = AgentOf(d)
      /\ \A d, e \in Updating \ adrift : d = e
      /\ adrift \subseteq Updating
  BY DEF Exclusive, TypeOK
<1>4. CASE Looks(c) \/ Works(c)
  <2>1. Updating' = Updating /\ adrift' = adrift /\ lock' = lock
    BY <1>4, CheckUpdating DEF Looks, Works, past
  <2>2. QED
    BY <1>3, <2>1
<1>5. CASE Begins(c)
  <2>1. Updating' = Updating \union {c} /\ c \notin Updating
    BY <1>5, CheckUpdating
  <2>2. CASE lock' = lock /\ adrift' = adrift \union {c}
    BY <1>3, <2>1, <2>2
  <2>3. CASE lock' = [owner |-> AgentOf(c), stale |-> FALSE] /\ lock = NoLock /\ adrift' = adrift
    <3>1. Updating \ adrift = {}
      <4>1. \A d \in Checks : AgentOf(d) # Nobody
        BY AgentFacts
      <4>2. QED
        BY <1>3, <2>3, <4>1 DEF NoLock, Updating
    <3>2. QED
      BY <2>1, <2>3, <3>1
  <2>4. CASE lock' = [owner |-> AgentOf(c), stale |-> FALSE] /\ adrift' = adrift \union Updating
    BY <2>1, <2>4
  <2>5. QED
    BY <1>5, <2>2, <2>3, <2>4 DEF Begins
<1>6. CASE Removes(c) \/ Releases(c)
  <2>1. Updating' \subseteq Updating /\ c \notin Updating'
    BY <1>6, CheckUpdating
  <2>2. Drops(c)
    BY <1>6 DEF Removes, Releases
  <2>3. CASE lock' = NoLock /\ adrift' = (adrift \union Updating) \ {c}
    BY <2>1, <2>3
  <2>4. CASE lock' = lock /\ adrift' = adrift \ {c}
    BY <1>3, <2>1, <2>4
  <2>5. QED
    BY <2>2, <2>3, <2>4 DEF Drops
<1>7. QED
  BY <1>4, <1>5, <1>6 DEF Checked

LEMMA CheckOverlaps ==
  ASSUME TypeOK, Overlaps, NEW c \in Checks, Checked(c)
  PROVE  Overlaps'
<1>1. CASE Looks(c) \/ Removes(c) \/ Works(c)
  <2>1. Updating' = Updating /\ overlapped' = overlapped
    BY <1>1, CheckUpdating DEF Looks, Removes, Works, past
  <2>2. QED
    BY <2>1 DEF Overlaps
<1>2. CASE Begins(c)
  BY <1>2, CheckUpdating DEF Begins, Overlaps
<1>3. CASE Releases(c)
  BY <1>3, CheckUpdating DEF Releases, Overlaps
<1>4. QED
  BY <1>1, <1>2, <1>3 DEF Checked

(* The disk changes only in the hands of an update, next to which the others are marked. *)
LEMMA CheckHealthy ==
  ASSUME TypeOK, Overlaps, Healthy, NEW c \in Checks, Checked(c)
  PROVE  Healthy'
<1> USE DEF host, given, past
<1>1. SUFFICES ASSUME service' = "npm", NEW d \in Checks, d \notin overlapped'
               PROVE  /\ task'[d].pc \in {"verify", "health", "restart"} => disk' # 0
                      /\ task'[d].pc = "health" => disk' = task'[d].latest
                      /\ task'[d].pc = "restart" /\ ~cast'[d].manual
                           => disk' = task'[d].latest /\ (machine'.npmBin => disk' \notin bad')
  BY DEF Healthy
<1>2. service = "npm" /\ UNCHANGED <<bad, cast, machine>>
  BY <1>1 DEF Checked, Looks, Begins, Removes, Releases, Works
<1>3. \A e \in Checks \ overlapped :
        /\ task[e].pc \in {"verify", "health", "restart"} => disk # 0
        /\ task[e].pc = "health" => disk = task[e].latest
        /\ task[e].pc = "restart" /\ ~cast[e].manual
             => disk = task[e].latest /\ (machine.npmBin => disk \notin bad)
  BY <1>2 DEF Healthy
<1>4. CASE Looks(c) \/ Begins(c) \/ Removes(c) \/ Releases(c)
  <2>1. disk' = disk
    BY <1>4 DEF Looks, Begins, Removes, Releases
  <2>2. task'[c].pc \notin {"verify", "health", "restart"} /\ (d # c => task'[d] = task[d])
    BY <1>4 DEF Looks, Begins, Removes, Releases, Moved
  <2>3. d # c => d \notin overlapped
    BY <1>1, <1>4 DEF Looks, Begins, Removes, Releases
  <2>4. QED
    BY <1>2, <1>3, <2>1, <2>2, <2>3
<1>5. CASE Works(c)
  <2>1. c \in Updating /\ d \notin overlapped
    BY <1>1, <1>5 DEF Works, Updating
  <2>2. PICK to \in Updates : WorksTo(c, to)
    BY <1>5 DEF Works
  <2>3. CASE d = c
    <3>1. task'[c].pc = to
      BY <2>2 DEF WorksTo, Moved
    <3>2. to = "verify" => disk' # 0
      BY <1>2, <2>2 DEF WorksTo
    <3>3. to \in {"health", "restart"} => disk' = disk /\ disk # 0
      BY <1>2, <1>3, <2>1, <2>2, <2>3 DEF WorksTo
    <3>4. to = "health" => disk' = task'[c].latest
      BY <2>2, <3>3 DEF WorksTo
    <3>5. to = "restart" /\ ~cast[c].manual
            => disk' = task'[c].latest /\ (machine.npmBin => disk' \notin bad)
      BY <1>2, <1>3, <2>1, <2>2, <2>3, <3>3 DEF WorksTo
    <3>6. QED
      BY <1>2, <2>3, <3>1, <3>2, <3>3, <3>4, <3>5
  <2>4. CASE d # c
    <3>1. d \notin Updating /\ task'[d] = task[d]
      BY <2>1, <2>2, <2>4 DEF WorksTo, Moved, Overlaps
    <3>2. QED
      BY <3>1 DEF Updating, Updates
  <2>5. QED
    BY <2>3, <2>4
<1>6. QED
  BY <1>4, <1>5 DEF Checked

(* An agent that ends takes its checks along, and leaves a torn package only if one of them
   was installing: then the updates of the others are marked. *)
LEMMA RestartStep ==
  ASSUME IInv, NEW a \in Agents, Restart(a)
  PROVE  IInv'
<1> USE DEF IInv, given
<1>1. /\ \A c \in Checks : task'[c] = IF AgentOf(c) = a THEN Idle ELSE task[c]
      /\ UNCHANGED <<service, cast, machine, tag, bad, lock>>
      /\ adrift' = {c \in adrift : AgentOf(c) # a} /\ overlapped' = {c \in overlapped : AgentOf(c) # a}
  BY DEF Restart
<1>2. disk' \in {disk, 0} /\ (disk' # disk => Installing(a)) /\ faults' \in 0..MaxFaults
  BY VersionFacts DEF Restart, Fault, TypeOK
<1>3. \A c \in Checks : c \in Updating' <=> c \in Updating /\ AgentOf(c) # a
  BY <1>1 DEF Updating, Updates, Idle
<1>4. \A c \in Updating' : c \in Updating /\ AgentOf(c) # a /\ task'[c] = task[c]
  BY <1>1, <1>3 DEF Updating
<1>5. TypeOK'
  <2>1. task' \in Tasks
    <3>1. Idle \in [pc : Steps, cur : Versions, latest : Versions]
      BY VersionFacts DEF Idle, Steps
    <3>2. task' = [c \in Checks |-> IF AgentOf(c) = a THEN Idle ELSE task[c]]
      BY DEF Restart
    <3>3. QED
      BY <3>1, <3>2 DEF TypeOK, Tasks
  <2>2. up' \in {up, up \ {a}} /\ restarting' = restarting \ {a}
    BY DEF Restart
  <2>3. disk' \in Versions
    BY <1>2, VersionFacts DEF TypeOK
  <2>4. installed' \in [Agents -> Versions]
    BY <2>3 DEF Restart, TypeOK
  <2>5. up' \subseteq Agents /\ restarting' \subseteq up'
    BY <2>2 DEF TypeOK
  <2>6. \A c \in Checks :
          /\ task'[c].pc # "idle" => AgentOf(c)' \in up'
          /\ task'[c].pc = "rollback" => service' = "npm" /\ Rollback /\ ~cast'[c].manual
    BY <1>1, <2>2 DEF TypeOK, AgentOf, Idle
  <2>7. adrift' \subseteq Updating' /\ overlapped' \subseteq Updating'
    BY <1>1, <1>3 DEF TypeOK, Updating
  <2>8. QED
    BY <1>1, <1>2, <2>1, <2>3, <2>4, <2>5, <2>6, <2>7 DEF TypeOK, Tasks
<1>6. Routes'
  BY <1>1 DEF Routes, Idle
<1>7. Exclusive' /\ Overlaps'
  <2>1. \A c \in Updating' \ adrift' : c \in Updating \ adrift
    BY <1>1, <1>4
  <2>2. \A c \in Updating' : c \in overlapped => c \in overlapped'
    BY <1>1, <1>4
  <2>3. Exclusive'
    BY <1>1, <2>1 DEF Exclusive, AgentOf
  <2>4. Overlaps'
    BY <1>4, <2>2 DEF Overlaps
  <2>5. QED
    BY <2>3, <2>4
<1>8. Healthy'
  <2>1. SUFFICES ASSUME service = "npm", NEW c \in Checks, c \notin overlapped',
                        task'[c].pc \in {"verify", "health", "restart"}
                 PROVE  /\ disk' # 0
                        /\ task'[c].pc = "health" => disk' = task'[c].latest
                        /\ task'[c].pc = "restart" /\ ~cast[c].manual
                             => disk' = task'[c].latest /\ (machine.npmBin => disk' \notin bad)
    BY <1>1 DEF Healthy
  <2>2. c \in Updating /\ AgentOf(c) # a /\ task'[c] = task[c]
    BY <1>4, <2>1 DEF Updating, Updates
  <2>3. c \notin overlapped
    BY <1>1, <2>1, <2>2
  <2>4. ~Installing(a)
    BY <2>2, <2>3 DEF Overlaps, Installing, Updating, Updates
  <2>5. disk' = disk
    BY <1>2, <2>4
  <2>6. QED
    BY <2>1, <2>2, <2>3, <2>5 DEF Healthy
<1>9. QED
  BY <1>5, <1>6, <1>7, <1>8

LEMMA OtherStep ==
  ASSUME IInv, Publish \/ LockAges \/ UNCHANGED vars
  PROVE  IInv'
<1> USE DEF IInv
<1>1. /\ UNCHANGED <<service, cast, machine, bad, disk, installed, up, restarting, task, adrift, overlapped, faults>>
      /\ lock'.owner = lock.owner
  BY DEF Publish, LockAges, vars, TypeOK, host, given, past
<1>2. tag' \in Versions \ {0}
  BY VersionFacts DEF Publish, LockAges, vars, TypeOK, Versions, host
<1>3. lock' \in [owner : Agents \union {Nobody}, stale : BOOLEAN] /\ (lock'.stale => lock' # NoLock)
  <2>1. CASE LockAges
    BY <2>1 DEF LockAges, TypeOK, NoLock
  <2>2. CASE ~LockAges
    BY <2>2 DEF Publish, vars, TypeOK
  <2>3. QED
    BY <2>1, <2>2
<1>4. TypeOK'
  BY <1>1, <1>2, <1>3 DEF TypeOK, AgentOf, Updating
<1>5. Routes' /\ Exclusive' /\ Overlaps' /\ Healthy'
  BY <1>1 DEF Routes, Exclusive, Overlaps, Healthy, Updating, AgentOf
<1>6. QED
  BY <1>4, <1>5

LEMMA IInvStep == IInv /\ [Next]_vars => IInv'
<1> SUFFICES ASSUME IInv, [Next]_vars PROVE IInv'
  OBVIOUS
<1>1. CASE \E c \in Checks : StartCheck(c) \/ Step(c) \/ VersionUnknown(c) \/ InstallFails(c)
  <2>1. PICK c \in Checks : Checked(c)
    BY <1>1, CheckCases DEF IInv
  <2>2. QED
    BY <2>1, CheckTypes, CheckRoutes, CheckExclusive, CheckOverlaps, CheckHealthy DEF IInv
<1>2. CASE \E a \in Agents : Restart(a)
  BY <1>2, RestartStep
<1>3. CASE Publish \/ LockAges \/ UNCHANGED vars
  BY <1>3, OtherStep
<1>4. QED
  BY <1>1, <1>2, <1>3 DEF Next
-----------------------------------------------------------------------------
(* The inductive invariant: routes, exclusion and what is on the disk hold together in every
   state that the services of all agents of a host can reach. *)
THEOREM InvHolds == Spec => []IInv
<1>1. Init => IInv
  BY InitIInv
<1>2. IInv /\ [Next]_vars => IInv'
  BY IInvStep
<1>3. QED
  BY <1>1, <1>2, PTL DEF Spec

(* Only a running agent has checks under way, and only an automatic update of the agent's own
   package is rolled back. *)
THEOREM TypeCorrect == Spec => []TypeOK
<1>1. IInv => TypeOK
  BY DEF IInv
<1>2. QED
  BY <1>1, InvHolds, PTL

(* Of two updates of one package that run at the same time one has no lock file of its own,
   however many agents and overlapping checks there are, whichever of them may write to the
   lock's directory and wherever an agent is killed (acquireLock, releaseLock). *)
THEOREM UpdatesExcludeHolds == Spec => []UpdatesExclude
<1>1. IInv => UpdatesExclude
  <2>1. SUFFICES ASSUME IInv PROVE Cardinality(Updating \ adrift) <= 1
    BY DEF UpdatesExclude
  <2> DEFINE Held == Updating \ adrift
  <2>2. \A c, d \in Held : c = d
    BY <2>1 DEF IInv, Exclusive
  <2> HIDE DEF Held
  <2>3. CASE Held = {}
    BY <2>3, FS_EmptySet DEF Held
  <2>4. CASE \E c \in Held : TRUE
    <3>1. PICK c \in Held : Held = {c}
      BY <2>2, <2>4
    <3>2. Cardinality(Held) = 1
      BY <3>1, FS_Singleton
    <3>3. QED
      BY <3>2 DEF Held
  <2>5. QED
    BY <2>3, <2>4
<1>2. QED
  BY <1>1, InvHolds, PTL

(* Every other one that updates finds its own pid in the lock file for as long as it works:
   neither a skipped check nor a release takes it away without a trace (releaseLock). *)
THEOREM HolderHolds == Spec => []UpdaterHoldsLock
<1>1. IInv => UpdaterHoldsLock
  BY DEF IInv, Exclusive, UpdaterHoldsLock
<1>2. QED
  BY <1>1, InvHolds, PTL

(* An automatic update next to which no other one ran asks for a restart only into the version
   it has seen and verified, and into one that starts where the binary can be found; with a
   lock or without one, also when the tag moves between the look, the install and the second
   install (performUpdate). *)
THEOREM RestartsWork == Spec => []RestartsIntoWorking
<1>1. IInv => RestartsIntoWorking
  BY DEF IInv, Healthy, RestartsIntoWorking
<1>2. QED
  BY <1>1, InvHolds, PTL

-----------------------------------------------------------------------------
(***************************************************************************)
(* The plugin host, for every configuration of plugins, every set of       *)
(* overlapping dispatches and every number of events.                      *)
(***************************************************************************)
(* PluginsTypeOK in the parts that the actions change together. *)
Statuses == {"absent", "loaded", "initialized", "running", "stopped", "error"}
Ends     == {"none", "pending", "late", "done", "failed", "ended"}
HookTypes  == /\ status \in [Plugins -> Statuses]
              /\ hook \in [Plugins -> [Hooks -> Ends]]
              /\ calls \in [Plugins -> [Hooks -> 0..1]]
LoopTypes  == phase \in Phases /\ at \in 1..(N + 1)
EventTypes == /\ dispatch \in [Dispatches -> [event : 0..MaxEvents, at : 0..N]]
              /\ events \in 0..MaxEvents /\ seen \in [Plugins -> 0..MaxEvents]
              /\ {disorder, unheard} \subseteq SUBSET Plugins
HealthTypes == {checkable, recovered} \subseteq SUBSET Plugins /\ health \in 0..N

Gone == {"late", "done", "failed", "ended"}

(* What the status of a plugin says of its hooks. *)
Life(p) ==
  /\ status[p] = "absent" => \A h \in Hooks : hook[p][h] = "none"
  /\ status[p] = "loaded" =>
       /\ hook[p]["onInit"] \in {"none", "pending"}
       /\ hook[p]["onStart"] = "none" /\ hook[p]["onStop"] = "none"
  /\ status[p] = "initialized" =>
       /\ hook[p]["onInit"] = "done" /\ hook[p]["onStart"] \in {"none", "pending"}
       /\ hook[p]["onStop"] = "none"
  /\ status[p] = "running" =>
       /\ hook[p]["onStart"] = "done" \/ p \in recovered
       /\ hook[p]["onStop"] \in {"none", "pending"}
  /\ status[p] = "stopped" => hook[p]["onStop"] \in Gone
  /\ status[p] = "error" => hook[p]["onStop"] = "none" /\ hook[p]["onStart"] # "done"
  /\ status[p] \in {"running", "stopped", "error"} =>
       hook[p]["onInit"] # "pending" /\ hook[p]["onStart"] # "pending"
  /\ p \in recovered => status[p] \in {"running", "stopped"} /\ hook[p]["onStart"] # "done"
  /\ hook[p]["onStart"] # "none" => hook[p]["onInit"] = "done"
  /\ hook[p]["onStop"] # "none" => hook[p]["onStart"] = "done" \/ p \in recovered
  /\ \A h \in Hooks : calls[p][h] = IF hook[p][h] = "none" THEN 0 ELSE 1

(* The loop awaits at most one hook, that of the plugin it is at. *)
OnePending ==
  \A p \in Plugins, h \in Hooks :
    hook[p][h] = "pending" => Walking /\ p = Current /\ h = HookOf[phase]

(* Before the loops there is nothing but loaded plugins, and nobody asks for their health. *)
Loading == phase = "load" => health = 0 /\ \A p \in Plugins : status[p] \in {"absent", "loaded"}

(* A plugin stopPlugins() has passed runs only if a health check has called it healthy. *)
Passed ==
  /\ phase = "stop" =>
       \A j \in 1..(at - 1) : status[Order[N + 1 - j]] = "running" => Order[N + 1 - j] \in recovered
  /\ phase = "stopped" => \A p \in Plugins : status[p] = "running" => p \in recovered

(* No plugin has seen an event that was not dispatched. *)
SeenDispatched == \A p \in Plugins : seen[p] <= events
HandlersBehind ==
  \A d \in Dispatches : dispatch[d].event <= events /\ (dispatch[d] # Free => dispatch[d].at >= 1)

Types == HookTypes /\ LoopTypes /\ EventTypes /\ HealthTypes
LifeInv  == (\A p \in Plugins : Life(p)) /\ OnePending /\ Loading /\ Passed
OrderInv == SeenDispatched /\ HandlersBehind /\ FirstSeesInOrder
HostInv  == Types /\ LifeInv /\ EventsReachStarted /\ OrderInv
LEMMA HookFacts ==
  /\ DOMAIN HookOf = {"init", "start", "stop"}
  /\ HookOf["init"] = "onInit" /\ HookOf["start"] = "onStart" /\ HookOf["stop"] = "onStop"
  /\ Wanted["init"] = "loaded" /\ Wanted["start"] = "initialized" /\ Wanted["stop"] = "running"
  /\ Reached["init"] = "initialized" /\ Reached["start"] = "running" /\ Reached["stop"] = "stopped"
  /\ Refused["init"] = "error" /\ Refused["start"] = "error" /\ Refused["stop"] = "stopped"
BY DEF HookOf, Wanted, Reached, Refused

(* The configuration names every plugin at one place. *)
LEMMA OrderFacts ==
  /\ N \in Nat /\ \A i \in 1..N : Order[i] \in Plugins
  /\ \A p \in Plugins : \E i \in 1..N : Order[i] = p
  /\ \A i, j \in 1..N : Order[i] = Order[j] => i = j
<1>1. N \in Nat /\ Order \in [1..N -> Plugins] /\ DOMAIN Order = 1..N
  BY OrderAssumption DEF N
<1>2. \A p \in Plugins : \E i \in 1..N : Order[i] = p
  BY <1>1, OrderAssumption
<1>3. Order \in Surjection(1..N, Plugins)
  BY <1>1, <1>2 DEF Surjection
<1>4. IsFiniteSet(1..N) /\ Cardinality(1..N) = N
  BY <1>1, FS_Interval
<1>5. Cardinality(Plugins) = Cardinality(1..N)
  BY <1>4, OrderAssumption DEF N
<1>6. Order \in Injection(1..N, Plugins)
  BY <1>3, <1>4, <1>5, FS_Surjection
<1>7. QED
  BY <1>1, <1>2, <1>6 DEF Injection, IsInjective

LEMMA FirstOf ==
  ASSUME NEW S, S \subseteq Nat, S # {}
  PROVE  (CHOOSE j \in S : \A k \in S : j <= k) \in S
<1>1. PICK x \in S : \A y \in S : ~(<<y, x>> \in OpToRel(<, Nat))
  BY NatLessThanWellFounded, WFMin
<1>2. ASSUME NEW y \in S PROVE x <= y
  <2>1. x \in Nat /\ y \in Nat
    OBVIOUS
  <2>2. y < x => <<y, x>> \in OpToRel(<, Nat)
    BY <2>1 DEF OpToRel
  <2>3. ~(y < x)
    BY <1>1, <2>2, Zenon
  <2>4. QED
    BY <2>1, <2>3
<1>3. QED
  BY <1>2

(* A search from place i on finds a place from i on, or none. *)
LEMMA NextRunningFacts ==
  ASSUME NEW i \in Nat, i >= 1, NextRunning(i) # 0
  PROVE  NextRunning(i) \in i..N /\ status[Order[NextRunning(i)]] = "running"
<1> DEFINE later == {j \in i..N : status[Order[j]] = "running"}
<1>1. later # {} /\ NextRunning(i) = CHOOSE j \in later : \A k \in later : j <= k
  BY DEF NextRunning
<1>2. later \subseteq Nat
  BY OrderFacts
<1>3. NextRunning(i) \in later
  <2> HIDE DEF later
  <2> QED
    BY <1>1, <1>2, FirstOf
<1>4. QED
  BY <1>3

LEMMA NextCheckableFacts ==
  ASSUME NEW i \in Nat, i >= 1, NextCheckable(i) # 0
  PROVE  NextCheckable(i) \in i..N
<1> DEFINE later == {j \in i..N : Order[j] \in checkable /\ status[Order[j]] # "absent"}
<1>1. later # {} /\ NextCheckable(i) = CHOOSE j \in later : \A k \in later : j <= k
  BY DEF NextCheckable
<1>2. later \subseteq Nat
  BY OrderFacts
<1>3. NextCheckable(i) \in later
  <2> HIDE DEF later
  <2> QED
    BY <1>1, <1>2, FirstOf
<1>4. QED
  BY <1>3

(* The plugin a loop is at is one of the configuration. *)
LEMMA AtPlugin == ASSUME LoopTypes, Walking PROVE Current \in Plugins
<1>1. at \in 1..N /\ N + 1 - at \in 1..N
  BY OrderFacts DEF LoopTypes, Walking
<1>2. QED
  BY <1>1, OrderFacts DEF Current

-----------------------------------------------------------------------------
(* The loop of a phase awaits a hook of the plugin it is at, or nothing is pending. *)
NonePending == \A p \in Plugins, h \in Hooks : hook[p][h] # "pending"

LEMMA NotAwaiting == ASSUME OnePending, ~Awaiting PROVE NonePending
BY DEF OnePending, Awaiting, NonePending

LEMMA NoHookPending == ASSUME NonePending' PROVE OnePending'
BY DEF NonePending, OnePending

(* A status that is set changes at one plugin. *)
LEMMA SetStatus ==
  ASSUME HookTypes, NEW c \in Plugins, NEW v \in Statuses, status' = [status EXCEPT ![c] = v]
  PROVE  /\ status' \in [Plugins -> Statuses]
         /\ \A p \in Plugins : status'[p] = IF p = c THEN v ELSE status[p]
BY DEF HookTypes

(* What Life says of a plugin depends on nothing but its status, its hooks and its health. *)
LEMMA LifeKept ==
  ASSUME NEW p \in Plugins, Life(p), status'[p] = status[p], p \in recovered' <=> p \in recovered,
         \A h \in Hooks : hook'[p][h] = hook[p][h] /\ calls'[p][h] = calls[p][h]
  PROVE  Life(p)'
<1>1. "onInit" \in Hooks /\ "onStart" \in Hooks /\ "onStop" \in Hooks
  BY DEF Hooks
<1>2. QED
  BY <1>1 DEF Life

LEMMA HostInit == ASSUME PluginsInit PROVE HostInv
<1>1. Types
  BY OrderFacts, EventAssumption
     DEF PluginsInit, Types, HookTypes, LoopTypes, EventTypes, HealthTypes, Statuses, Ends, Phases, Free
<1>2. LifeInv
  <2>1. ASSUME NEW p \in Plugins PROVE Life(p)
    BY DEF PluginsInit, Life, Hooks
  <2>2. OnePending /\ Loading /\ Passed
    BY DEF PluginsInit, OnePending, Loading, Passed
  <2>3. QED
    BY <2>1, <2>2 DEF LifeInv
<1>3. EventsReachStarted /\ OrderInv
  BY DEF PluginsInit, EventsReachStarted, OrderInv, SeenDispatched, HandlersBehind, FirstSeesInOrder, Free
<1>4. QED
  BY <1>1, <1>2, <1>3 DEF HostInv
-----------------------------------------------------------------------------
(* The actions of the loops change the plugins and the loop. *)
LEMMA LoadPluginKeeps ==
  ASSUME Types, LifeInv, LoadPlugin PROVE HookTypes' /\ LoopTypes' /\ LifeInv'
<1>1. phase = "load" /\ phase' = phase /\ at \in 1..N /\ at' = at + 1 /\ Order[at] \in Plugins
  BY OrderFacts DEF LoadPlugin, Types, LoopTypes
<1>2. PICK loaded \in {"loaded", "absent"} : status' = [status EXCEPT ![Order[at]] = loaded]
  BY DEF LoadPlugin
<1>3. /\ status' \in [Plugins -> Statuses]
      /\ \A p \in Plugins : status'[p] = IF p = Order[at] THEN loaded ELSE status[p]
  BY <1>1, <1>2, SetStatus DEF Types, Statuses
<1>4. /\ HookTypes' /\ LoopTypes'
  BY <1>1, <1>3, OrderFacts DEF LoadPlugin, Types, HookTypes, LoopTypes
<1>5. NonePending
  BY <1>1, HookFacts DEF LifeInv, OnePending, Walking, NonePending
<1>6. ASSUME NEW p \in Plugins PROVE Life(p)'
  <2>1. /\ \A h \in Hooks : hook[p][h] = "none" /\ hook'[p][h] = "none" /\ calls'[p][h] = 0
        /\ p \notin recovered' /\ status'[p] \in {"absent", "loaded"}
    <3>1. Life(p) /\ status[p] \in {"absent", "loaded"}
      BY <1>1 DEF LifeInv, Loading
    <3>2. p \notin recovered
      BY <3>1 DEF Life
    <3>3. \A h \in Hooks : hook[p][h] = "none" /\ calls[p][h] = 0
      BY <3>1, <1>5 DEF Life, NonePending, Hooks
    <3>4. QED
      BY <3>1, <3>2, <3>3, <1>3 DEF LoadPlugin
  <2>2. QED
    BY <2>1 DEF Life, Hooks
<1>7. OnePending' /\ Loading' /\ Passed'
  BY <1>1, <1>3, <1>5 DEF LoadPlugin, NonePending, OnePending, LifeInv, Loading, Passed
<1>8. QED
  BY <1>4, <1>6, <1>7 DEF LifeInv

(* A step to another phase, taken when nothing is pending. *)
LEMMA PhaseKeeps ==
  ASSUME Types, LifeInv, NonePending, UNCHANGED <<hookVars, checkable, health, recovered>>,
         phase' \in Phases \ {"load"}, at' \in 1..(N + 1), Passed'
  PROVE  HookTypes' /\ LoopTypes' /\ LifeInv'
<1>1. HookTypes' /\ LoopTypes'
  BY DEF Types, HookTypes, LoopTypes, hookVars
<1>2. ASSUME NEW p \in Plugins PROVE Life(p)'
  BY LifeKept DEF hookVars, LifeInv
<1>3. OnePending' /\ Loading'
  BY NoHookPending DEF NonePending, Loading, hookVars
<1>4. QED
  BY <1>1, <1>2, <1>3 DEF LifeInv

LEMMA PluginsLoadedKeeps ==
  ASSUME Types, LifeInv, PluginsLoaded PROVE HookTypes' /\ LoopTypes' /\ LifeInv'
<1>1. NonePending
  BY NotAwaiting, HookFacts DEF PluginsLoaded, LifeInv, Awaiting, Walking
<1>2. Passed' /\ phase' \in Phases \ {"load"} /\ at' \in 1..(N + 1)
  BY OrderFacts DEF PluginsLoaded, Passed, Phases
<1>3. QED
  BY <1>1, <1>2, PhaseKeeps DEF PluginsLoaded

LEMMA StartPluginsKeeps ==
  ASSUME Types, LifeInv, StartPlugins PROVE HookTypes' /\ LoopTypes' /\ LifeInv'
<1>1. NonePending
  BY NotAwaiting, HookFacts DEF StartPlugins, LifeInv, Awaiting, Walking
<1>2. Passed' /\ phase' \in Phases \ {"load"} /\ at' \in 1..(N + 1)
  BY OrderFacts DEF StartPlugins, Passed, Phases
<1>3. QED
  BY <1>1, <1>2, PhaseKeeps DEF StartPlugins

LEMMA StopPluginsKeeps ==
  ASSUME Types, LifeInv, StopPlugins PROVE HookTypes' /\ LoopTypes' /\ LifeInv'
<1>1. NonePending
  BY NotAwaiting, HookFacts DEF StopPlugins, LifeInv, Awaiting, Walking
<1>2. Passed' /\ phase' \in Phases \ {"load"} /\ at' \in 1..(N + 1)
  BY OrderFacts DEF StopPlugins, Passed, Phases
<1>3. QED
  BY <1>1, <1>2, PhaseKeeps DEF StopPlugins

(* stopPlugins() ends after it has been at every plugin. *)
LEMMA PhaseEndsKeeps ==
  ASSUME Types, LifeInv, PhaseEnds PROVE HookTypes' /\ LoopTypes' /\ LifeInv'
<1>1. NonePending /\ at = N + 1
  BY NotAwaiting, OrderFacts DEF PhaseEnds, LifeInv, Awaiting, Walking, Types, LoopTypes
<1>2. phase' \in {"up", "ready", "stopped"} /\ (phase' = "stopped" => phase = "stop") /\ at' = at
  BY HookFacts DEF PhaseEnds
<1>3. ASSUME phase = "stop", NEW p \in Plugins, status[p] = "running" PROVE p \in recovered
  <2>1. PICK i \in 1..N : Order[i] = p
    BY OrderFacts
  <2>2. N + 1 - i \in 1..(at - 1) /\ N + 1 - (N + 1 - i) = i
    BY <1>1, <2>1, OrderFacts
  <2>3. QED
    BY <2>1, <2>2, <1>3 DEF LifeInv, Passed
<1>4. Passed'
  BY <1>2, <1>3 DEF Passed, PhaseEnds, hookVars
<1>5. QED
  BY <1>1, <1>2, <1>4, OrderFacts, PhaseKeeps DEF PhaseEnds, Phases

(* A hook is called of a plugin in the status its phase wants; it has not been called before. *)
LEMMA CallHookKeeps ==
  ASSUME Types, LifeInv, CallHook PROVE HookTypes' /\ LoopTypes' /\ LifeInv'
<1> DEFINE c == Current
           k == HookOf[phase]
<1>1. c \in Plugins /\ k \in Hooks /\ NonePending
  BY AtPlugin, NotAwaiting, HookFacts DEF CallHook, Types, LifeInv, Walking, Hooks
<1>2. /\ hook' \in [Plugins -> [Hooks -> Ends]]
      /\ \A p \in Plugins, h \in Hooks : hook'[p][h] = IF p = c /\ h = k THEN "pending" ELSE hook[p][h]
  BY <1>1 DEF CallHook, Types, HookTypes, Ends
<1>3. hook[c][k] = "none" /\ Life(c)
  <2>1. /\ status[c] = Wanted[phase] /\ phase \in {"init", "start", "stop"} /\ Life(c)
        /\ hook[c][k] # "pending"
    BY <1>1, HookFacts DEF CallHook, Walking, LifeInv, NonePending
  <2>2. QED
    BY <2>1, HookFacts DEF Life
<1>4. /\ calls' \in [Plugins -> [Hooks -> 0..1]]
      /\ \A p \in Plugins, h \in Hooks : calls'[p][h] = IF p = c /\ h = k THEN 1 ELSE calls[p][h]
  <2>1. calls[c][k] = 0
    BY <1>1, <1>3 DEF Life
  <2>2. calls' = [calls EXCEPT ![c][k] = 1]
    BY <1>1, <2>1 DEF CallHook, Types, HookTypes
  <2>3. QED
    BY <1>1, <2>2 DEF Types, HookTypes
<1>5. HookTypes' /\ LoopTypes'
  BY <1>2, <1>4 DEF CallHook, Types, HookTypes, LoopTypes, loopVars
<1>6. ASSUME NEW p \in Plugins PROVE Life(p)'
  <2>0. Life(p) /\ status'[p] = status[p] /\ recovered' = recovered
    BY DEF LifeInv, CallHook
  <2>1. CASE p # c
    BY <1>2, <1>4, <2>0, <2>1, LifeKept
  <2>2. CASE p = c
    <3>1. \A h \in Hooks : calls'[p][h] = IF hook'[p][h] = "none" THEN 0 ELSE 1
      BY <1>2, <1>4, <2>0 DEF Life
    <3>2. CASE phase = "init"
      BY <1>2, <2>0, <2>2, <3>1, <3>2, HookFacts DEF Life, CallHook, Hooks
    <3>3. CASE phase = "start"
      BY <1>2, <2>0, <2>2, <3>1, <3>3, HookFacts DEF Life, CallHook, Hooks
    <3>4. CASE phase = "stop"
      BY <1>2, <2>0, <2>2, <3>1, <3>4, HookFacts DEF Life, CallHook, Hooks
    <3>5. QED
      BY <3>2, <3>3, <3>4, HookFacts DEF CallHook, Walking
  <2>3. QED
    BY <2>1, <2>2
<1>7. OnePending'
  BY <1>1, <1>2 DEF CallHook, OnePending, NonePending, Walking, Current, loopVars
<1>8. Loading' /\ Passed'
  BY DEF CallHook, LifeInv, Loading, Passed, loopVars
<1>9. QED
  BY <1>5, <1>6, <1>7, <1>8 DEF LifeInv

LEMMA SkipPluginKeeps ==
  ASSUME Types, LifeInv, SkipPlugin PROVE HookTypes' /\ LoopTypes' /\ LifeInv'
<1>1. NonePending
  BY NotAwaiting DEF SkipPlugin, LifeInv
<1>2. at \in 1..N /\ at' = at + 1 /\ phase' = phase /\ phase # "load"
  BY HookFacts DEF SkipPlugin, Walking, Types, LoopTypes
<1>3. Passed'
  <2>1. ASSUME phase = "stop", NEW j \in 1..at, status[Order[N + 1 - j]] = "running"
        PROVE  Order[N + 1 - j] \in recovered
    <3>1. j # at
      BY <2>1, HookFacts DEF SkipPlugin, Current
    <3>2. QED
      BY <1>2, <2>1, <3>1 DEF LifeInv, Passed
  <2>2. at' - 1 = at
    BY <1>2
  <2>3. QED
    BY <1>2, <2>1, <2>2 DEF Passed, SkipPlugin, LifeInv, hookVars
<1>4. QED
  BY <1>1, <1>2, <1>3, OrderFacts, PhaseKeeps DEF SkipPlugin, Types, LoopTypes

(* A hook resolves, rejects or is given up: its plugin was in the status the phase wants. *)
LEMMA HookEndsKeeps ==
  ASSUME Types, LifeInv, NEW outcome \in {"done", "failed", "late"}, HookEnds(outcome)
  PROVE  HookTypes' /\ LoopTypes' /\ LifeInv'
<1> DEFINE c == Current
           k == HookOf[phase]
           s == IF outcome = "done" THEN Reached[phase] ELSE Refused[phase]
<1>1. c \in Plugins /\ k \in Hooks /\ phase \in {"init", "start", "stop"} /\ at \in 1..N
  BY AtPlugin, HookFacts DEF HookEnds, Awaiting, Types, Walking, Hooks, LoopTypes
<1>2. /\ hook' \in [Plugins -> [Hooks -> Ends]]
      /\ \A p \in Plugins, h \in Hooks : hook'[p][h] = IF p = c /\ h = k THEN outcome ELSE hook[p][h]
  BY <1>1 DEF HookEnds, Types, HookTypes, Ends
<1>3. /\ status' \in [Plugins -> Statuses]
      /\ \A p \in Plugins : status'[p] = IF p = c THEN s ELSE status[p]
  <2>1. s \in Statuses
    BY <1>1, HookFacts DEF Statuses
  <2>2. QED
    BY <1>1, <2>1, SetStatus DEF HookEnds, Types
<1>4. HookTypes' /\ LoopTypes'
  BY <1>1, <1>2, <1>3, OrderFacts DEF HookEnds, Types, HookTypes, LoopTypes
<1>5. hook[c][k] = "pending" /\ status[c] = Wanted[phase] /\ Life(c)
  <2>1. hook[c][k] = "pending" /\ Life(c) /\ status[c] \in Statuses
    BY <1>1 DEF HookEnds, Awaiting, LifeInv, Types, HookTypes
  <2>2. QED
    BY <1>1, <2>1, HookFacts DEF Life, Statuses, Gone
<1>6. ASSUME NEW p \in Plugins PROVE Life(p)'
  <2>0. Life(p) /\ calls'[p] = calls[p] /\ recovered' = recovered
    BY DEF LifeInv, HookEnds
  <2>1. CASE p # c
    BY <1>2, <1>3, <2>0, <2>1, LifeKept
  <2>2. CASE p = c
    <3>1. \A h \in Hooks : calls'[p][h] = IF hook'[p][h] = "none" THEN 0 ELSE 1
      BY <1>2, <1>5, <2>0, <2>2 DEF Life
    <3>2. CASE phase = "init"
      BY <1>2, <1>3, <1>5, <2>0, <2>2, <3>1, <3>2, HookFacts DEF Life, Hooks
    <3>3. CASE phase = "start"
      BY <1>2, <1>3, <1>5, <2>0, <2>2, <3>1, <3>3, HookFacts DEF Life, Hooks
    <3>4. CASE phase = "stop"
      BY <1>2, <1>3, <1>5, <2>0, <2>2, <3>1, <3>4, HookFacts DEF Life, Hooks, Gone
    <3>5. QED
      BY <1>1, <3>2, <3>3, <3>4
  <2>3. QED
    BY <2>1, <2>2
<1>7. OnePending'
  <2>1. NonePending'
    BY <1>1, <1>2 DEF LifeInv, OnePending, NonePending
  <2>2. QED
    BY <2>1, NoHookPending
<1>8. Loading'
  BY <1>1 DEF HookEnds, Loading
<1>9. Passed'
  <2>1. ASSUME phase = "stop", NEW j \in 1..at, status'[Order[N + 1 - j]] = "running"
        PROVE  Order[N + 1 - j] \in recovered
    <3>1. Order[N + 1 - j] \in Plugins /\ s = "stopped"
      BY <1>1, <2>1, OrderFacts, HookFacts
    <3>2. Order[N + 1 - j] # c /\ status[Order[N + 1 - j]] = "running"
      BY <1>3, <2>1, <3>1
    <3>3. j # at
      BY <2>1, <3>2 DEF Current
    <3>4. QED
      BY <1>1, <2>1, <3>2, <3>3 DEF LifeInv, Passed
  <2>2. at' - 1 = at /\ phase' = phase /\ recovered' = recovered
    BY <1>1 DEF HookEnds
  <2>3. QED
    BY <1>1, <2>1, <2>2 DEF Passed
<1>10. QED
  BY <1>4, <1>6, <1>7, <1>8, <1>9 DEF LifeInv

LEMMA LateHookEndsKeeps ==
  ASSUME Types, LifeInv, LateHookEnds PROVE HookTypes' /\ LoopTypes' /\ LifeInv'
<1>1. PICK c \in Plugins, k \in Hooks :
        hook[c][k] = "late" /\ hook' = [hook EXCEPT ![c][k] = "ended"]
  BY DEF LateHookEnds
<1>2. /\ hook' \in [Plugins -> [Hooks -> Ends]]
      /\ \A p \in Plugins, h \in Hooks : hook'[p][h] = IF p = c /\ h = k THEN "ended" ELSE hook[p][h]
  BY <1>1 DEF Types, HookTypes, Ends
<1>3. HookTypes' /\ LoopTypes'
  BY <1>2 DEF LateHookEnds, Types, HookTypes, LoopTypes, loopVars
<1>4. ASSUME NEW p \in Plugins PROVE Life(p)'
  <2>1. /\ Life(p) /\ calls'[p] = calls[p] /\ status'[p] = status[p] /\ recovered' = recovered
        /\ status[p] \in Statuses /\ k \in {"onInit", "onStart", "onStop"}
    BY DEF LifeInv, LateHookEnds, Types, HookTypes, Hooks
  <2>2. CASE p # c
    BY <1>2, <2>1, <2>2, LifeKept
  <2>3. CASE p = c
    BY <1>1, <1>2, <2>1, <2>3 DEF Life, Hooks, Gone
  <2>4. QED
    BY <2>2, <2>3
<1>5. OnePending' /\ Loading' /\ Passed'
  BY <1>2 DEF LateHookEnds, LifeInv, OnePending, Loading, Passed, Walking, Current, loopVars
<1>6. QED
  BY <1>3, <1>4, <1>5 DEF LifeInv
-----------------------------------------------------------------------------
(* The events and the health checks leave the loops alone. *)
LEMMA LoopsKept ==
  ASSUME Types, LifeInv, UNCHANGED <<hookVars, phase, at, recovered>>, Loading'
  PROVE  HookTypes' /\ LoopTypes' /\ LifeInv'
<1>1. HookTypes' /\ LoopTypes'
  BY DEF Types, HookTypes, LoopTypes, hookVars
<1>2. ASSUME NEW p \in Plugins PROVE Life(p)'
  BY LifeKept DEF LifeInv, hookVars
<1>3. OnePending' /\ Passed'
  BY DEF hookVars, LifeInv, OnePending, Passed, Walking, Current
<1>4. QED
  BY <1>1, <1>2, <1>3 DEF LifeInv

(* An event is delivered to a running plugin, from the place on where it is. *)
LEMMA DeliverKeeps ==
  ASSUME Types, LifeInv, EventsReachStarted, HandlersBehind, SeenDispatched,
         NEW d \in Dispatches, NEW e \in 0..MaxEvents, NEW i \in Nat, i >= 1,
         Deliver(d, e, i), events' \in 0..MaxEvents, e <= events', events <= events',
         UNCHANGED recovered
  PROVE  /\ EventTypes' /\ EventsReachStarted' /\ HandlersBehind' /\ SeenDispatched'
         /\ disorder' # disorder =>
              \E j \in i..N : disorder' = disorder \cup {Order[j]} /\ e < seen[Order[j]]
<1> DEFINE j == NextRunning(i)
           p == Order[j]
<1>0. events \in 0..MaxEvents /\ 0 \in 0..MaxEvents
  BY EventAssumption DEF Types, EventTypes
<1>1. CASE j = 0
  <2>1. dispatch' = [dispatch EXCEPT ![d] = Free] /\ UNCHANGED <<seen, disorder, unheard>>
    BY <1>1 DEF Deliver
  <2>2. Free \in [event : 0..MaxEvents, at : 0..N]
    BY <1>0, OrderFacts DEF Free
  <2>3. EventTypes'
    BY <2>1, <2>2 DEF Types, EventTypes
  <2>4. HandlersBehind'
    BY <1>0, <2>1 DEF HandlersBehind, Types, EventTypes, Free
  <2>5. EventsReachStarted' /\ SeenDispatched'
    BY <1>0, <2>1 DEF EventsReachStarted, SeenDispatched, Types, EventTypes
  <2>6. QED
    BY <2>1, <2>3, <2>4, <2>5
<1>2. CASE j # 0
  <2>1. j \in i..N /\ status[p] = "running" /\ j \in 1..N /\ p \in Plugins
    <3>1. j \in i..N /\ status[p] = "running"
      BY <1>2, NextRunningFacts
    <3>2. j \in 1..N
      BY <3>1, OrderFacts
    <3>3. QED
      BY <3>1, <3>2, OrderFacts
  <2>2. /\ dispatch' = [dispatch EXCEPT ![d] = [event |-> e, at |-> j]]
        /\ seen' = [seen EXCEPT ![p] = IF e > @ THEN e ELSE @]
        /\ disorder' = IF e < seen[p] THEN disorder \cup {p} ELSE disorder
        /\ unheard' = IF hook[p]["onStart"] # "done" \/ hook[p]["onStop"] \notin {"none", "pending"}
                      THEN unheard \cup {p} ELSE unheard
    BY <1>2 DEF Deliver
  <2>3. unheard' # unheard => p \in recovered
    <3>1. Life(p)
      BY <2>1 DEF LifeInv
    <3>2. QED
      BY <2>1, <2>2, <3>1 DEF Life
  <2>4. [event |-> e, at |-> j] \in [event : 0..MaxEvents, at : 0..N]
    BY <2>1, OrderFacts
  <2>5. dispatch' \in [Dispatches -> [event : 0..MaxEvents, at : 0..N]]
    BY <2>2, <2>4 DEF Types, EventTypes
  <2>6. /\ seen' \in [Plugins -> 0..MaxEvents]
        /\ \A q \in Plugins : seen'[q] = seen[q] \/ seen'[q] = e
    BY <2>1, <2>2 DEF Types, EventTypes
  <2>7. EventTypes'
    BY <2>1, <2>2, <2>5, <2>6 DEF Types, EventTypes
  <2>8. HandlersBehind'
    <3>1. \A c \in Dispatches : dispatch'[c] = dispatch[c] \/ dispatch'[c] = [event |-> e, at |-> j]
      BY <2>2 DEF Types, EventTypes
    <3>2. ASSUME NEW c \in Dispatches
          PROVE  dispatch'[c].event <= events' /\ (dispatch'[c] # Free => dispatch'[c].at >= 1)
      <4>1. CASE dispatch'[c] = dispatch[c]
        BY <1>0, <4>1 DEF HandlersBehind, Types, EventTypes
      <4>2. CASE dispatch'[c] = [event |-> e, at |-> j]
        BY <2>1, <4>2, OrderFacts
      <4>3. QED
        BY <3>1, <4>1, <4>2
    <3>3. QED
      BY <3>2 DEF HandlersBehind
  <2>9. SeenDispatched'
    BY <1>0, <2>6 DEF SeenDispatched, Types, EventTypes
  <2>10. EventsReachStarted'
    BY <2>2, <2>3 DEF EventsReachStarted
  <2>11. QED
    BY <2>1, <2>2, <2>7, <2>8, <2>9, <2>10
<1>3. QED
  BY <1>1, <1>2

(* A new event is the newest; one that goes on to the next plugin has passed the first. *)
LEMMA DispatchKeeps ==
  ASSUME HostInv, NEW d \in Dispatches, DispatchEvent(d) \/ HandlerEnds(d) PROVE HostInv'
<1>0. Types /\ LifeInv /\ EventsReachStarted /\ HandlersBehind /\ SeenDispatched /\ FirstSeesInOrder
  BY DEF HostInv, OrderInv
<1>1. UNCHANGED <<hookVars, phase, at, checkable, health, recovered>>
  BY DEF DispatchEvent, HandlerEnds, loopVars
<1>2. events \in 0..MaxEvents /\ MaxEvents \in Nat
  BY <1>0, EventAssumption DEF Types, EventTypes
<1>3. HookTypes' /\ LoopTypes' /\ LifeInv' /\ HealthTypes'
  <2>1. Loading'
    BY <1>0, <1>1 DEF LifeInv, Loading, hookVars
  <2>2. QED
    BY <1>0, <1>1, <2>1, LoopsKept DEF Types, HealthTypes
<1>4. CASE DispatchEvent(d)
  <2>1. Deliver(d, events', 1) /\ events' = events + 1 /\ events' \in 0..MaxEvents
    BY <1>2, <1>4 DEF DispatchEvent
  <2>2. /\ EventTypes' /\ EventsReachStarted' /\ HandlersBehind' /\ SeenDispatched'
        /\ disorder' # disorder => \E j \in 1..N : events' < seen[Order[j]]
    BY <1>0, <1>1, <1>2, <2>1, DeliverKeeps
  <2>3. \A j \in 1..N : ~(events' < seen[Order[j]])
    BY <1>0, <1>2, <2>1, OrderFacts DEF SeenDispatched, Types, EventTypes
  <2>4. FirstSeesInOrder'
    BY <1>0, <2>2, <2>3 DEF FirstSeesInOrder
  <2>5. QED
    BY <1>3, <2>2, <2>4 DEF HostInv, Types, OrderInv
<1>5. CASE HandlerEnds(d)
  <2>1. /\ Deliver(d, dispatch[d].event, dispatch[d].at + 1) /\ events' = events
        /\ dispatch[d].event \in 0..MaxEvents /\ dispatch[d].event <= events
        /\ dispatch[d].at \in Nat /\ dispatch[d].at >= 1
    BY <1>0, <1>5, OrderFacts DEF HandlerEnds, Types, EventTypes, HandlersBehind
  <2>2. /\ EventTypes' /\ EventsReachStarted' /\ HandlersBehind' /\ SeenDispatched'
        /\ disorder' # disorder =>
             \E j \in (dispatch[d].at + 1)..N : disorder' = disorder \cup {Order[j]}
    BY <1>0, <1>1, <1>2, <2>1, DeliverKeeps
  <2>3. \A j \in (dispatch[d].at + 1)..N : Order[j] # Order[1]
    BY <2>1, OrderFacts
  <2>4. FirstSeesInOrder'
    BY <1>0, <2>2, <2>3 DEF FirstSeesInOrder
  <2>5. QED
    BY <1>3, <2>2, <2>4 DEF HostInv, Types, OrderInv
<1>6. QED
  BY <1>4, <1>5

LEMMA CollectKeeps == ASSUME HostInv, CollectHealthStatus PROVE HostInv'
<1>0. Types /\ LifeInv /\ EventsReachStarted /\ OrderInv
  BY DEF HostInv
<1>1. health' \in 0..N
  BY NextCheckableFacts, OrderFacts DEF CollectHealthStatus
<1>2. Types' /\ LifeInv'
  <2>1. Loading'
    BY DEF CollectHealthStatus, Loading, loopVars
  <2>2. HookTypes' /\ LoopTypes' /\ LifeInv'
    BY <1>0, <2>1, LoopsKept DEF CollectHealthStatus, loopVars
  <2>3. EventTypes' /\ HealthTypes'
    BY <1>0, <1>1 DEF CollectHealthStatus, Types, EventTypes, HealthTypes, eventVars
  <2>4. QED
    BY <2>2, <2>3 DEF Types
<1>3. EventsReachStarted' /\ OrderInv'
  BY <1>0 DEF CollectHealthStatus, EventsReachStarted, OrderInv, SeenDispatched, HandlersBehind,
              FirstSeesInOrder, eventVars
<1>4. QED
  BY <1>2, <1>3 DEF HostInv

(* A plugin in error was never stopped, and its start did not end in time. *)
LEMMA HealthAnsweredKeeps == ASSUME HostInv, HealthAnswered PROVE HostInv'
<1>0. Types /\ LifeInv /\ EventsReachStarted /\ OrderInv
  BY DEF HostInv
<1> DEFINE c == Order[health]
<1>1. c \in Plugins /\ health' \in 0..N
  <2>1. health \in 1..N
    BY <1>0 DEF HealthAnswered, Types, HealthTypes
  <2>2. health' = NextCheckable(health + 1) /\ health + 1 \in Nat /\ health + 1 >= 1
    BY <2>1, OrderFacts DEF HealthAnswered
  <2>3. NextCheckable(health + 1) # 0 => NextCheckable(health + 1) \in (health + 1)..N
    BY <2>2, NextCheckableFacts
  <2>4. QED
    BY <2>1, <2>2, <2>3, OrderFacts
<1>2. UNCHANGED <<hook, calls, loopVars, eventVars, checkable>> /\ phase # "load"
  BY <1>0 DEF HealthAnswered, LifeInv, Loading
<1>3. EventTypes' /\ OrderInv'
  BY <1>0, <1>2 DEF Types, EventTypes, OrderInv, SeenDispatched, HandlersBehind, FirstSeesInOrder,
                    eventVars
<1>4. CASE UNCHANGED <<status, recovered>>
  <2>1. Loading'
    BY <1>2 DEF Loading, loopVars
  <2>2. HookTypes' /\ LoopTypes' /\ LifeInv'
    BY <1>0, <1>2, <1>4, <2>1, LoopsKept DEF hookVars, loopVars
  <2>3. HealthTypes' /\ EventsReachStarted'
    BY <1>0, <1>1, <1>2, <1>4 DEF Types, HealthTypes, EventsReachStarted, eventVars
  <2>4. QED
    BY <1>3, <2>2, <2>3 DEF HostInv, Types
<1>5. CASE /\ status[c] = "error" /\ status' = [status EXCEPT ![c] = "running"]
           /\ recovered' = recovered \cup {c}
  <2>1. /\ status' \in [Plugins -> Statuses]
        /\ \A p \in Plugins : status'[p] = IF p = c THEN "running" ELSE status[p]
    BY <1>0, <1>1, <1>5, SetStatus DEF Types, Statuses
  <2>2. HookTypes' /\ LoopTypes' /\ HealthTypes' /\ EventsReachStarted'
    BY <1>0, <1>1, <1>2, <1>5, <2>1
       DEF Types, HookTypes, LoopTypes, HealthTypes, EventsReachStarted, loopVars, eventVars
  <2>3. ASSUME NEW p \in Plugins PROVE Life(p)'
    <3>1. Life(p)
      BY <1>0 DEF LifeInv
    <3>2. CASE p # c
      BY <1>2, <1>5, <2>1, <3>1, <3>2, LifeKept
    <3>3. CASE p = c
      BY <1>2, <1>5, <2>1, <3>1, <3>3 DEF Life
    <3>4. QED
      BY <3>2, <3>3
  <2>4. OnePending' /\ Loading'
    BY <1>0, <1>2 DEF LifeInv, OnePending, Loading, Walking, Current, loopVars
  <2>5. Passed'
    <3>1. \A j \in 1..(at - 1) : phase = "stop" => Order[N + 1 - j] \in Plugins
      BY <1>0, OrderFacts DEF Types, LoopTypes
    <3>2. QED
      BY <1>0, <1>2, <1>5, <2>1, <3>1 DEF LifeInv, Passed, loopVars
  <2>6. QED
    BY <1>3, <2>2, <2>3, <2>4, <2>5 DEF HostInv, Types, LifeInv
<1>6. QED
  BY <1>4, <1>5 DEF HealthAnswered
-----------------------------------------------------------------------------
LEMMA LifecycleKeeps == ASSUME HostInv, Lifecycle PROVE HostInv'
<1>0. Types /\ LifeInv /\ EventsReachStarted /\ OrderInv
  BY DEF HostInv
<1>1. UNCHANGED <<eventVars, checkable, health, recovered>>
  BY DEF Lifecycle, LoadPlugin, PluginsLoaded, CallHook, SkipPlugin, HookSettles, HookTimesOut, HookEnds,
         LateHookEnds, PhaseEnds, StartPlugins, StopPlugins
<1>2. HookTypes' /\ LoopTypes' /\ LifeInv'
  <2>1. CASE LoadPlugin
    BY <1>0, <2>1, LoadPluginKeeps
  <2>2. CASE PluginsLoaded
    BY <1>0, <2>2, PluginsLoadedKeeps
  <2>3. CASE CallHook
    BY <1>0, <2>3, CallHookKeeps
  <2>4. CASE SkipPlugin
    BY <1>0, <2>4, SkipPluginKeeps
  <2>5. CASE HookSettles
    BY <1>0, <2>5, HookEndsKeeps DEF HookSettles
  <2>6. CASE HookTimesOut
    BY <1>0, <2>6, HookEndsKeeps DEF HookTimesOut
  <2>7. CASE LateHookEnds
    BY <1>0, <2>7, LateHookEndsKeeps
  <2>8. CASE PhaseEnds
    BY <1>0, <2>8, PhaseEndsKeeps
  <2>9. CASE StartPlugins
    BY <1>0, <2>9, StartPluginsKeeps
  <2>10. CASE StopPlugins
    BY <1>0, <2>10, StopPluginsKeeps
  <2>11. QED
    BY <2>1, <2>2, <2>3, <2>4, <2>5, <2>6, <2>7, <2>8, <2>9, <2>10 DEF Lifecycle
<1>3. EventTypes' /\ HealthTypes' /\ EventsReachStarted' /\ OrderInv'
  BY <1>0, <1>1 DEF Types, EventTypes, HealthTypes, EventsReachStarted, OrderInv, SeenDispatched,
                    HandlersBehind, FirstSeesInOrder, eventVars
<1>4. QED
  BY <1>2, <1>3 DEF HostInv, Types

LEMMA HostStep == ASSUME HostInv, [PluginsNext]_pluginVars PROVE HostInv'
<1>1. CASE Lifecycle
  BY <1>1, LifecycleKeeps
<1>2. CASE \E d \in Dispatches : DispatchEvent(d) \/ HandlerEnds(d)
  BY <1>2, DispatchKeeps
<1>3. CASE CollectHealthStatus
  BY <1>3, CollectKeeps
<1>4. CASE HealthAnswered
  BY <1>4, HealthAnsweredKeeps
<1>5. CASE UNCHANGED pluginVars
  <2>0. Types /\ LifeInv /\ EventsReachStarted /\ OrderInv
    BY DEF HostInv
  <2>1. EventTypes' /\ HealthTypes' /\ EventsReachStarted' /\ OrderInv'
    BY <1>5, <2>0 DEF pluginVars, Types, EventTypes, HealthTypes, EventsReachStarted, OrderInv,
                      SeenDispatched, HandlersBehind, FirstSeesInOrder, eventVars
  <2>2. HookTypes' /\ LoopTypes'
    BY <1>5, <2>0 DEF pluginVars, hookVars, loopVars, Types, HookTypes, LoopTypes
  <2>3. ASSUME NEW p \in Plugins PROVE Life(p)'
    BY <1>5, <2>0, LifeKept DEF LifeInv, pluginVars, hookVars
  <2>4. OnePending' /\ Loading' /\ Passed'
    BY <1>5, <2>0 DEF LifeInv, OnePending, Loading, Passed, Walking, Current, pluginVars, hookVars, loopVars
  <2>5. QED
    BY <2>1, <2>2, <2>3, <2>4 DEF HostInv, Types, LifeInv
<1>6. QED
  BY <1>1, <1>2, <1>3, <1>4, <1>5 DEF PluginsNext

(* The inductive invariant of the plugin host: the status of a plugin tells how its hooks
   stand, and the loops await one hook at a time (loader.ts:415). *)
THEOREM HostInvHolds == PluginsSpec => []HostInv
<1>1. PluginsInit => HostInv
  BY HostInit
<1>2. HostInv /\ [PluginsNext]_pluginVars => HostInv'
  BY HostStep
<1>3. QED
  BY <1>1, <1>2, PTL DEF PluginsSpec

(* The host counts as started between the end of startPlugins() and the end of
   stopPlugins(), whatever the plugins did (loader.ts:438). *)
Started == isStarted = (phase \in {"ready", "stop"})

LEMMA StartedHolds == PluginsSpec => []Started
<1>1. PluginsInit => Started
  <2> SUFFICES ASSUME PluginsInit PROVE Started
    OBVIOUS
  <2>1. (phase \in {"ready", "stop"}) = FALSE
    BY DEF PluginsInit
  <2>2. isStarted = FALSE
    BY DEF PluginsInit
  <2>3. QED
    BY <2>1, <2>2, Zenon DEF Started
<1>2. Started /\ [PluginsNext]_pluginVars => Started'
  <2> SUFFICES ASSUME Started, [PluginsNext]_pluginVars PROVE Started'
    OBVIOUS
  <2>1. CASE UNCHANGED loopVars
    BY <2>1 DEF Started, loopVars
  <2>2. CASE PluginsLoaded \/ StartPlugins \/ StopPlugins \/ LoadPlugin \/ SkipPlugin
    BY <2>2 DEF Started, PluginsLoaded, StartPlugins, StopPlugins, LoadPlugin, SkipPlugin
  <2>3. CASE HookSettles \/ HookTimesOut
    BY <2>3 DEF Started, HookSettles, HookTimesOut, HookEnds
  <2>4. CASE PhaseEnds
    BY <2>4, HookFacts DEF Started, PhaseEnds
  <2>5. CASE UNCHANGED pluginVars
    BY <2>5 DEF Started, pluginVars, loopVars
  <2>6. QED
    BY <2>1, <2>2, <2>3, <2>4, <2>5
       DEF PluginsNext, Lifecycle, CallHook, LateHookEnds, DispatchEvent, HandlerEnds,
           CollectHealthStatus, HealthAnswered
<1>3. QED
  BY <1>1, <1>2, PTL DEF PluginsSpec

(* The types of all variables; the host is started from the end of startPlugins() to the end of
   stopPlugins(). *)
THEOREM PluginsTypesHold == PluginsSpec => []PluginsTypeOK
<1>1. Types /\ Started => PluginsTypeOK
  <2> SUFFICES ASSUME Types, Started PROVE PluginsTypeOK
    OBVIOUS
  <2>1. isStarted = (phase \in {"ready", "stop"})
    BY DEF Started
  <2>2. QED
    BY <2>1 DEF Types, HookTypes, LoopTypes, EventTypes, HealthTypes, PluginsTypeOK, Statuses, Ends
<1>2. HostInv => Types
  BY DEF HostInv
<1>3. QED
  BY <1>1, <1>2, HostInvHolds, StartedHolds, PTL

(* A plugin is started after its onInit has resolved in time, and stopped only if its
   onStart did, or a health check called it healthy (loader.ts:557). *)
THEOREM HooksInOrderHold == PluginsSpec => []HooksInOrder
<1>1. HostInv => HooksInOrder
  <2> SUFFICES ASSUME HostInv, NEW p \in Plugins
               PROVE  /\ Called(p, "onStart") => hook[p]["onInit"] = "done"
                      /\ Called(p, "onStop") => hook[p]["onStart"] = "done" \/ p \in recovered
    BY DEF HooksInOrder
  <2>1. Life(p) /\ "onStart" \in Hooks /\ "onStop" \in Hooks
    BY DEF HostInv, LifeInv, Hooks
  <2>2. QED
    BY <2>1 DEF Life, Called
<1>2. QED
  BY <1>1, HostInvHolds, PTL

(* When stopPlugins() has ended, every plugin that was started in time was told to stop,
   and only one that a health check called healthy still runs (loader.ts:455). *)
THEOREM StartedIsStoppedHolds == PluginsSpec => []StartedIsStopped
<1>1. HostInv => StartedIsStopped
  <2> SUFFICES ASSUME HostInv, phase = "stopped", NEW p \in Plugins
               PROVE  /\ hook[p]["onStart"] = "done" => Called(p, "onStop")
                      /\ status[p] = "running" => p \in recovered /\ ~Called(p, "onStop")
    BY DEF StartedIsStopped
  <2>1. /\ Life(p) /\ "onStart" \in Hooks /\ "onStop" \in Hooks /\ status[p] \in Statuses
        /\ status[p] = "running" => p \in recovered
    BY DEF HostInv, LifeInv, Hooks, Passed, Types, HookTypes
  <2>2. hook[p]["onStop"] # "pending"
    BY <2>1, HookFacts DEF HostInv, LifeInv, OnePending, Walking
  <2>3. QED
    BY <2>1, <2>2 DEF Life, Called, Statuses, Gone
<1>2. QED
  BY <1>1, HostInvHolds, PTL

(* An event reaches only plugins that were started and not yet stopped, or that a health
   check called healthy (loader.ts:513). *)
THEOREM EventsReachStartedHold == PluginsSpec => []EventsReachStarted
<1>1. HostInv => EventsReachStarted
  BY DEF HostInv
<1>2. QED
  BY <1>1, HostInvHolds, PTL

(* However the dispatches overlap, the first plugin of the configuration sees the events in
   their order (loader.ts:513). *)
THEOREM FirstSeesInOrderHolds == PluginsSpec => []FirstSeesInOrder
<1>1. HostInv => FirstSeesInOrder
  BY DEF HostInv, OrderInv
<1>2. QED
  BY <1>1, HostInvHolds, PTL

(* A plugin that was stopped stays stopped, whatever hooks and health checks end after it. *)
StoppedStays == \A p \in Plugins : status[p] = "stopped" => status'[p] = "stopped"

LEMMA StoppedStep == HostInv /\ [PluginsNext]_pluginVars => [StoppedStays]_pluginVars
<1> SUFFICES ASSUME HostInv, [PluginsNext]_pluginVars PROVE StoppedStays \/ UNCHANGED pluginVars
  OBVIOUS
<1>0. Types /\ LifeInv /\ status \in [Plugins -> Statuses]
  BY DEF HostInv, Types, HookTypes
<1>1. CASE LoadPlugin
  <2>1. \A p \in Plugins : status[p] # "stopped"
    BY <1>0, <1>1 DEF LoadPlugin, LifeInv, Loading
  <2>2. QED
    BY <2>1 DEF StoppedStays
<1>2. CASE HookSettles \/ HookTimesOut
  <2>1. PICK outcome \in {"done", "failed", "late"} : HookEnds(outcome)
    BY <1>2 DEF HookSettles, HookTimesOut
  <2>2. /\ Current \in Plugins /\ phase \in {"init", "start", "stop"}
        /\ hook[Current][HookOf[phase]] = "pending" /\ Life(Current)
    BY <1>0, <2>1, AtPlugin, HookFacts DEF HookEnds, Awaiting, Walking, LifeInv, Types
  <2>3. status[Current] # "stopped"
    BY <2>2, HookFacts DEF Life, Gone
  <2>4. \A p \in Plugins : p # Current => status'[p] = status[p]
    BY <1>0, <2>1 DEF HookEnds
  <2>5. QED
    BY <2>3, <2>4 DEF StoppedStays
<1>3. CASE HealthAnswered
  <2>1. \A p \in Plugins : status[p] # "error" => status'[p] = status[p]
    BY <1>0, <1>3 DEF HealthAnswered
  <2>2. QED
    BY <2>1 DEF StoppedStays
<1>4. CASE UNCHANGED status
  BY <1>4 DEF StoppedStays
<1>5. QED
  BY <1>1, <1>2, <1>3, <1>4
     DEF PluginsNext, Lifecycle, PluginsLoaded, CallHook, SkipPlugin, LateHookEnds, PhaseEnds, StartPlugins,
         StopPlugins, DispatchEvent, HandlerEnds, CollectHealthStatus, hookVars, pluginVars

(* stopPlugins() is the end of a plugin: a hook that was given up and ends late, or a health
   check asked before the stop and answered after it, does not bring it back (loader.ts:557). *)
THEOREM StoppedStaysHolds == PluginsSpec => [][StoppedStays]_pluginVars
BY StoppedStep, HostInvHolds, PTL DEF PluginsSpec
=============================================================================
