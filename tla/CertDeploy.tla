----------------------------- MODULE CertDeploy -----------------------------
(***************************************************************************)
(* The deployment of one certificate target, lib/deployer.ts: rotation     *)
(* events, the initial sync and the polls of the daemon all run            *)
(* deployCertificate(), which asks the vault twice and then, without       *)
(* another await, backs up the output files, writes them one by one, runs  *)
(* the reload and the health check, and rolls back if one of them fails.   *)
(*                                                                         *)
(* The versions of the certificate stand for their contents and their      *)
(* fingerprints.  A file is written by a rename, so a crash leaves it old  *)
(* or new.  A second process (the CLI) deploying the same target and the   *)
(* writing of the configuration file itself are not modelled here.         *)
(***************************************************************************)
EXTENDS Integers, Sequences, Functions, FiniteSets

CONSTANTS
  Tasks,        \* deployments of the daemon that can be in flight
  Outputs,      \* the configured output files in the order they are written
  Optional,     \* those whose part a certificate may lack (key, chain)
  Existing,     \* those that exist before the first deployment
  None,
  MaxVersion,   \* bound: versions of the certificate
  MaxFailures,  \* bound: requests, writes, backups, reloads and checks that fail
  MaxCrashes    \* bound: crashes of the agent

Files == Range(Outputs)

ASSUME FileAssumption  == /\ Outputs \in Seq(Files)
                          /\ Optional \subseteq Files /\ Existing \subseteq Files
ASSUME BoundAssumption == {MaxVersion, MaxFailures, MaxCrashes} \subseteq Nat /\ MaxVersion > 0
ASSUME NoneAssumption  == None \notin Nat

VARIABLES
  version,      \* the vault's version
  parts,        \* the files each version has a part for
  event,        \* a rotation event is on its way
  phase,        \* the daemon: "down", "starting" (before the initial sync), "up"
  disk,         \* the version of each output file
  bak,          \* the version of each backup file
  inMemory,     \* config-from-vault: the configuration is one object in memory
  lastFingerprint, \* target.lastFingerprint in the configuration file
  memFingerprint,  \* the same in the configuration the daemon started with
  service,      \* the files the service loaded when it was last reloaded
  task,         \* the deployments
  failures, crashes, \* what has been used of the two bounds
  torn,         \* history: a crash or a copy that failed may have left files of two
                \* versions, and no deployment has ended well since
  overtaken,    \* history: data older than lastFingerprint has been written
  misrecorded   \* history: memFingerprint is that of a deployment that was undone

worldVars == <<version, parts, event, service>>
fileVars  == <<disk, bak>>
fpVars    == <<inMemory, lastFingerprint, memFingerprint>>
pastVars  == <<torn, overtaken, misrecorded>>
budgetVars == <<failures, crashes>>
vars == <<worldVars, phase, fileVars, fpVars, task, budgetVars, pastVars>>

Version == 0..MaxVersion
Content == [Files -> Version \cup {None}]

(* A deployment: where it is, the version of its metadata and of its data, the next
   output, the backups to restore from and (history) the files as it found them. *)
Idle == [at |-> "idle", src |-> "poll", meta |-> 0, data |-> 0, next |-> 1,
         backups |-> {}, found |-> [f \in Files |-> None]]
Holding == {"write", "reload", "record", "restore", "rollback"}
TaskType == [at      : {"idle", "metadata", "decrypt", "decrypted", "ack"} \cup Holding,
             src     : {"event", "sync", "poll"},
             meta    : Version,
             data    : Version,
             next    : 1..Len(Outputs) + 1,
             backups : SUBSET Files,
             found   : Content]

(* Without an await a deployment holds the event loop. *)
Busy == \E t \in Tasks : task[t].at \in Holding
(* JavaScript of task t may run. *)
Runs(t) == phase # "down" /\ \A u \in Tasks \ {t} : task[u].at \notin Holding

Fail == failures < MaxFailures /\ failures' = failures + 1 /\ UNCHANGED crashes
-----------------------------------------------------------------------------
Init ==
  /\ version = 1 /\ parts = [v \in {0, 1} |-> Files] /\ event = FALSE
  /\ disk = [f \in Files |-> IF f \in Existing THEN 0 ELSE None]
  /\ bak = [f \in Files |-> None] /\ service = disk
  /\ phase = "starting" /\ inMemory \in BOOLEAN
  /\ lastFingerprint = None /\ memFingerprint = None
  /\ task = [t \in Tasks |-> Idle]
  /\ failures = 0 /\ crashes = 0 /\ torn = FALSE
  /\ overtaken = FALSE /\ misrecorded = FALSE

(* The vault rotates the certificate; the event may be lost. *)
Rotate ==
  /\ version < MaxVersion /\ version' = version + 1
  /\ \E missing \in SUBSET Optional :
       parts' = [v \in 0..version' |-> IF v > version THEN Files \ missing ELSE parts[v]]
  /\ event' \in {event, phase # "down"}
  /\ UNCHANGED <<phase, fileVars, fpVars, service, task, budgetVars, pastVars>>

Begin(t, src) ==
  /\ task[t].at = "idle" /\ Runs(t)
  /\ task' = [task EXCEPT ![t] = [Idle EXCEPT !.at = "metadata", !.src = src]]
  /\ UNCHANGED <<version, parts, service, fileVars, fpVars, budgetVars, pastVars>>

(* handleCertificateEvent: force. *)
CertificateEvent(t) ==
  event /\ event' = FALSE /\ Begin(t, "event") /\ UNCHANGED phase
(* deployAllCertificates(false) of startDaemon, and the poll that follows it. *)
InitialSync(t) == phase = "starting" /\ phase' = "up" /\ Begin(t, "sync") /\ UNCHANGED event
Poll(t) == /\ phase = "up" /\ \A u \in Tasks : task[u].src = "sync" => task[u].at = "idle"
           /\ Begin(t, "poll") /\ UNCHANGED <<phase, event>>

Step(t, at) == task' = [task EXCEPT ![t].at = at]
End(t)      == task' = [task EXCEPT ![t] = Idle]

(* The fingerprint the task's target carries: the sync reads the configuration again,
   which in config-from-vault mode is the object in memory. *)
Known(t) == IF task[t].src = "sync" /\ ~inMemory THEN lastFingerprint ELSE memFingerprint

(* The metadata arrives: unchanged certificates are skipped unless forced. *)
Unchanged_Recorded(t) == task[t].src # "event" /\ Known(t) # None      \* mutant
Unchanged(t) == task[t].src # "event" /\ Known(t) = version
Metadata(t) ==
  /\ task[t].at = "metadata" /\ Runs(t)
  /\ task' = [task EXCEPT ![t] = IF Unchanged(t) THEN Idle
                                 ELSE [@ EXCEPT !.at = "decrypt", !.meta = version]]
  /\ UNCHANGED <<worldVars, phase, fileVars, fpVars, budgetVars, pastVars>>

(* The vault answers the decryption; the answer travels. *)
Decrypt(t) ==
  /\ task[t].at = "decrypt" /\ phase # "down"
  /\ task' = [task EXCEPT ![t].at = "decrypted", ![t].data = version]
  /\ UNCHANGED <<worldVars, phase, fileVars, fpVars, budgetVars, pastVars>>

(* A request fails, or the certificate has expired. *)
RequestFails(t) ==
  /\ task[t].at \in {"metadata", "decrypt"} /\ Runs(t) /\ Fail
  /\ End(t)
  /\ UNCHANGED <<worldVars, phase, fileVars, fpVars, pastVars>>

(* backupFiles: the files that exist; a copy that fails is left out. *)
Backup(t) ==
  /\ task[t].at = "decrypted" /\ Runs(t)
  /\ LET exist == {f \in Files : disk[f] # None} IN
     \E copied \in SUBSET exist :
       /\ IF copied = exist THEN UNCHANGED budgetVars ELSE Fail
       /\ bak' = [f \in Files |-> IF f \in copied THEN disk[f] ELSE bak[f]]
       /\ torn' = (torn \/ copied # exist)
       /\ task' = [task EXCEPT ![t] = [@ EXCEPT !.at = "write", !.backups = copied,
                                                !.found = disk]]
  /\ overtaken' = (overtaken \/ (lastFingerprint # None /\ task[t].data < lastFingerprint))
  /\ UNCHANGED <<worldVars, phase, disk, fpVars, misrecorded>>

(* writeSecureFile for the next output, if the certificate has that part. *)
After(i) == i + 1
Write(t) ==
  LET i == task[t].next  d == task[t].data  IN
  /\ task[t].at = "write" /\ i <= Len(Outputs)
  /\ disk' = IF Outputs[i] \in parts[d] THEN [disk EXCEPT ![Outputs[i]] = d] ELSE disk
  /\ task' = [task EXCEPT ![t].next = After(i)]
  /\ UNCHANGED <<worldVars, phase, bak, fpVars, budgetVars, pastVars>>

(* A write or a verification fails: restore, and no reload. *)
AfterFailedWrite_Forgotten == "ack"                                   \* mutant
AfterFailedWrite == "restore"
WriteFails(t) ==
  /\ task[t].at = "write" /\ Fail
  /\ Step(t, AfterFailedWrite)
  /\ UNCHANGED <<worldVars, phase, fileVars, fpVars, pastVars>>

(* All written and verified. *)
Verified(t) ==
  /\ task[t].at = "write" /\ task[t].next > Len(Outputs)
  /\ Step(t, "reload")
  /\ UNCHANGED <<worldVars, phase, fileVars, fpVars, budgetVars, pastVars>>

(* The reload command and the health check succeed ... *)
Reload(t) ==
  /\ task[t].at = "reload"
  /\ service' = disk
  /\ Step(t, "record")
  /\ UNCHANGED <<version, parts, event, phase, fileVars, fpVars, budgetVars, pastVars>>

(* ... or one of them fails. *)
ReloadFails(t) ==
  /\ task[t].at = "reload" /\ Fail
  /\ service' \in {service, disk}
  /\ Step(t, "rollback")
  /\ UNCHANGED <<version, parts, event, phase, fileVars, fpVars, pastVars>>

(* restoreBackups, one file after the other; a copy may fail. *)
Restore(t) ==
  /\ task[t].at \in {"restore", "rollback"}
  /\ \E f \in task[t].backups :
       /\ task' = [task EXCEPT ![t].backups = @ \ {f}]
       /\ \/ disk' = [disk EXCEPT ![f] = bak[f]] /\ UNCHANGED <<torn, budgetVars>>
          \/ torn' = TRUE /\ Fail /\ UNCHANGED disk
  /\ UNCHANGED <<worldVars, phase, bak, fpVars, overtaken, misrecorded>>

(* A failed deployment returns, after a rollback with one more reload. *)
RolledBack_Early(t) ==             \* mutant: returns after the first file restored
  /\ task[t].at \in {"restore", "rollback"} /\ task[t].backups # DOMAIN disk
  /\ service' \in IF task[t].at = "rollback" THEN {service, disk} ELSE {service}
  /\ End(t)
  /\ UNCHANGED <<version, parts, event, phase, fileVars, fpVars, budgetVars, pastVars>>
RolledBack(t) ==
  /\ task[t].at \in {"restore", "rollback"} /\ task[t].backups = {}
  /\ service' \in IF task[t].at = "rollback" THEN {service, disk} ELSE {service}
  /\ End(t)
  /\ UNCHANGED <<version, parts, event, phase, fileVars, fpVars, budgetVars, pastVars>>

(* updateTargetFingerprint changes the object it has loaded, the daemon's own in
   config-from-vault mode, and saves it; the acknowledgement is sent. *)
Recorded_Current(t) == version                                        \* mutant
Recorded(t) == task[t].meta
Remember(t) == memFingerprint' = IF inMemory THEN Recorded(t) ELSE memFingerprint
Record(t) ==
  /\ task[t].at = "record"
  /\ lastFingerprint' = Recorded(t) /\ Remember(t)
  /\ torn' = FALSE /\ misrecorded' = FALSE
  /\ task' = [task EXCEPT ![t].at = "ack", ![t].found = Idle.found]
  /\ UNCHANGED <<worldVars, phase, fileVars, inMemory, budgetVars, overtaken>>

(* The save throws: the files are restored, without a reload, and what the object in
   memory holds stays. *)
RecordFails(t) ==
  /\ task[t].at = "record" /\ Fail
  /\ Remember(t) /\ misrecorded' = (misrecorded \/ inMemory)
  /\ Step(t, "restore")
  /\ UNCHANGED <<worldVars, phase, fileVars, inMemory, lastFingerprint, torn, overtaken>>

(* Acknowledged or not: cleanupBackups. *)
Acked(t) ==
  /\ task[t].at = "ack" /\ Runs(t)
  /\ bak' = [f \in Files |-> IF f \in task[t].backups THEN None ELSE bak[f]]
  /\ End(t)
  /\ UNCHANGED <<worldVars, phase, disk, fpVars, budgetVars, pastVars>>

(* The agent is killed; it is started again. *)
Crash ==
  /\ phase # "down" /\ crashes < MaxCrashes
  /\ crashes' = crashes + 1 /\ phase' = "down" /\ event' = FALSE
  /\ torn' = (torn \/ Busy)
  /\ task' = [t \in Tasks |-> Idle]
  /\ UNCHANGED <<version, parts, service, fileVars, fpVars, failures, overtaken, misrecorded>>
(* The configuration of the vault has no fingerprints. *)
Restart ==
  /\ phase = "down" /\ phase' = "starting"
  /\ memFingerprint' = IF inMemory THEN None ELSE lastFingerprint
  /\ misrecorded' = FALSE
  /\ UNCHANGED <<worldVars, fileVars, inMemory, lastFingerprint, task, budgetVars, torn,
                 overtaken>>

Proceed(t) ==
  \/ Metadata(t) \/ Decrypt(t) \/ RequestFails(t) \/ Backup(t) \/ Write(t)
  \/ WriteFails(t) \/ Verified(t) \/ Reload(t) \/ ReloadFails(t) \/ Restore(t)
  \/ RolledBack(t) \/ Record(t) \/ RecordFails(t) \/ Acked(t)

Next ==
  \/ Rotate \/ Crash \/ Restart
  \/ \E t \in Tasks : CertificateEvent(t) \/ InitialSync(t) \/ Poll(t) \/ Proceed(t)

(* Requests end, code without an await goes on, polls come round and a supervisor
   starts the agent again. *)
Fairness == /\ WF_vars(Restart)
            /\ \A t \in Tasks : WF_vars(Proceed(t))
            /\ SF_vars(\E t \in Tasks : Poll(t))
            /\ WF_vars(\E t \in Tasks : InitialSync(t))

Spec     == Init /\ [][Next]_vars
FairSpec == Spec /\ Fairness
-----------------------------------------------------------------------------
(* The types. *)
TypeOK ==
  /\ version \in Version /\ parts \in [0..version -> SUBSET Files] /\ event \in BOOLEAN
  /\ phase \in {"down", "starting", "up"}
  /\ {disk, bak, service} \subseteq Content
  /\ inMemory \in BOOLEAN
  /\ {lastFingerprint, memFingerprint} \subseteq Version \cup {None}
  /\ task \in [Tasks -> TaskType]
  /\ failures \in 0..MaxFailures /\ crashes \in 0..MaxCrashes
  /\ {torn, overtaken, misrecorded} \subseteq BOOLEAN

(* When no deployment is writing, the certificate and its key are of one version,
   although events, polls and the sync overlap and any step of them may fail: what
   excuses a pair of two versions is a crash in the middle or a copy that failed. *)
OneVersion ==
  ~Busy /\ ~torn => \A f, g \in Files \ Optional : disk[f] = disk[g]

(* Neither the recorded fingerprint nor the one in memory is ahead of the files: an agent
   that skips a certificate as unchanged has it on disk.  The exceptions are an older answer
   that was written over a newer one, and for the one in memory a save that failed. *)
Fingerprints == {lastFingerprint} \cup (IF misrecorded THEN {} ELSE {memFingerprint})
FingerprintIsBacked ==
  \A v \in Fingerprints \ {None} :
    ~overtaken => \A f \in Files \ Optional : disk[f] # None /\ disk[f] >= v

(* A deployment that gives up, at whatever write, reload or check, leaves every file that
   was there before it in the version it found, unless a copy failed: the rotations and
   the other deployments that went on meanwhile do not change what it restores. *)
RollbackRestores ==
  [][\A t \in Tasks, f \in Files :
       RolledBack(t) /\ ~torn /\ task[t].found[f] # None => disk'[f] = task[t].found[f]]_vars

(* Once the rotations, failures and crashes have ended, the files and the service
   reach the vault's version, also if every rotation event was lost.  The exceptions:
   an older answer has been written over a newer one, or the polls go by the fingerprint of
   a deployment that was undone because it could not be saved. *)
UpToDate == \A f \in parts[version] : disk[f] = version /\ service[f] = version
Converges == <>[]UpToDate \/ <>overtaken \/ <>[]misrecorded
-----------------------------------------------------------------------------
(* Statements the code does not keep. *)

(* A rollback leaves the files as the deployment found them: those that did not exist
   stay, with Existing = {cert}. *)
RollbackReverts ==
  [][\A t \in Tasks : RolledBack(t) /\ ~torn => disk' = task[t].found]_vars

(* Converges without its excuses: an older answer written over a newer one, and a crash
   before the older fingerprint is recorded; or a save that failed with the configuration
   in memory. *)
AlwaysConverges == <>[]UpToDate
=============================================================================
