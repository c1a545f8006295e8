------------------------ MODULE Certificates_proofs -------------------------
(***************************************************************************)
(* Proofs about the certificates of the agent: those it deploys to the     *)
(* files of a target, and the one it keeps for its own server.             *)
(***************************************************************************)
EXTENDS CertDeploy, TlsCertificate, TLAPS

(***************************************************************************)
(* The deployment of a certificate target, for every number of output      *)
(* files, overlapping deployments, versions, failures and crashes.         *)
(***************************************************************************)
LEMMA Constants ==
  /\ None \notin Nat /\ MaxVersion \in Nat /\ MaxVersion > 0
  /\ MaxFailures \in Nat /\ MaxCrashes \in Nat
  /\ Len(Outputs) \in Nat /\ DOMAIN Outputs = 1..Len(Outputs)
  /\ \A i \in 1..Len(Outputs) : Outputs[i] \in Files
  /\ \A f \in Files : \E i \in 1..Len(Outputs) : Outputs[i] = f
<1>1. Outputs \in Seq(Files)
  BY FileAssumption
<1>2. Len(Outputs) \in Nat /\ DOMAIN Outputs = 1..Len(Outputs)
      /\ \A i \in 1..Len(Outputs) : Outputs[i] \in Files
  BY <1>1
<1>3. \A f \in Files : \E i \in 1..Len(Outputs) : Outputs[i] = f
  BY <1>2 DEF Files, Range
<1>4. QED
  BY <1>2, <1>3, BoundAssumption, NoneAssumption

(* TypeOK in the parts that the actions change together. *)
WorldTypes == version \in Version /\ parts \in [0..version -> SUBSET Files] /\ event \in BOOLEAN
DiskTypes  == disk \in Content /\ bak \in Content /\ service \in Content
FpTypes    == /\ inMemory \in BOOLEAN
              /\ lastFingerprint \in Version \cup {None}
              /\ memFingerprint \in Version \cup {None}
TaskTypes  == task \in [Tasks -> TaskType]
PastTypes  == /\ phase \in {"down", "starting", "up"}
              /\ failures \in 0..MaxFailures /\ crashes \in 0..MaxCrashes
              /\ torn \in BOOLEAN /\ overtaken \in BOOLEAN /\ misrecorded \in BOOLEAN

LEMMA TypeParts ==
  TypeOK <=> WorldTypes /\ DiskTypes /\ FpTypes /\ TaskTypes /\ PastTypes
BY DEF TypeOK, WorldTypes, DiskTypes, FpTypes, TaskTypes, PastTypes

LEMMA IdleType == Idle \in TaskType /\ Idle.at = "idle" /\ Idle.next = 1
<1>1. 1 \in 1..Len(Outputs) + 1 /\ 0 \in Version
  BY Constants DEF Version
<1>2. [f \in Files |-> None] \in Content
  BY DEF Content
<1>3. QED
  BY <1>1, <1>2 DEF Idle, TaskType

(* A step replaces the record of one deployment. *)
LEMMA TaskChanges ==
  ASSUME TaskTypes, NEW t \in Tasks, NEW r \in TaskType, task' = [task EXCEPT ![t] = r]
  PROVE  TaskTypes' /\ task'[t] = r /\ \A u \in Tasks \ {t} : task'[u] = task[u]
BY DEF TaskTypes

LEMMA FailTypes ==
  ASSUME PastTypes, Fail
  PROVE  failures' \in 0..MaxFailures /\ crashes' \in 0..MaxCrashes
BY Constants DEF Fail, PastTypes
-----------------------------------------------------------------------------
(* What each step of a deployment does to its record. *)
OthersKept(t) == \A u \in Tasks \ {t} : task'[u] = task[u]

LEMMA Fields ==
  ASSUME TypeOK, NEW t \in Tasks
  PROVE  /\ task[t] \in TaskType /\ task[t].data \in Version /\ task[t].meta \in Version
         /\ task[t].next \in 1..Len(Outputs) + 1 /\ task[t].backups \in SUBSET Files
         /\ task[t].found \in Content
         /\ version \in Version /\ version \in Nat
BY TypeParts DEF TaskTypes, TaskType, WorldTypes, Version

LEMMA BeginStep ==
  ASSUME TypeOK, NEW t \in Tasks, NEW src \in {"event", "sync", "poll"}, Begin(t, src)
  PROVE  TaskTypes' /\ OthersKept(t) /\ task'[t].at = "metadata" /\ task'[t].next = 1
<1> DEFINE r == [Idle EXCEPT !.at = "metadata", !.src = src]
<1>1. r \in TaskType /\ r.at = "metadata" /\ r.next = 1
  BY IdleType DEF TaskType
<1>2. task' = [task EXCEPT ![t] = r]
  BY DEF Begin
<1> HIDE DEF r
<1>3. QED
  BY <1>1, <1>2, TaskChanges, TypeParts DEF OthersKept

(* The deployment ends. *)
LEMMA EndStep ==
  ASSUME TypeOK, NEW t \in Tasks, End(t)
  PROVE  TaskTypes' /\ OthersKept(t) /\ task'[t].at = "idle"
<1>1. task' = [task EXCEPT ![t] = Idle]
  BY DEF End
<1>2. QED
  BY <1>1, IdleType, TaskChanges, TypeParts DEF OthersKept

(* The deployment goes to another place. *)
LEMMA PlaceStep ==
  ASSUME TypeOK, NEW t \in Tasks, NEW at \in {"ack"} \cup Holding, Step(t, at)
  PROVE  /\ TaskTypes' /\ OthersKept(t) /\ task'[t].at = at
         /\ task'[t].meta = task[t].meta /\ task'[t].data = task[t].data
         /\ task'[t].next = task[t].next /\ task'[t].backups = task[t].backups
         /\ task'[t].found = task[t].found
<1> DEFINE r == [task[t] EXCEPT !.at = at]
<1>1. /\ r \in TaskType /\ r.at = at /\ r.meta = task[t].meta /\ r.data = task[t].data
      /\ r.next = task[t].next /\ r.backups = task[t].backups /\ r.found = task[t].found
  BY Fields DEF TaskType
<1>2. task' = [task EXCEPT ![t] = r]
  BY DEF Step
<1> HIDE DEF r
<1>3. QED
  BY <1>1, <1>2, TaskChanges, TypeParts DEF OthersKept

LEMMA MetadataStep ==
  ASSUME TypeOK, NEW t \in Tasks, Metadata(t)
  PROVE  /\ TaskTypes' /\ OthersKept(t)
         /\ \/ task'[t].at = "idle"
            \/ /\ task'[t].at = "decrypt" /\ task'[t].meta = version
               /\ task'[t].next = task[t].next
<1> DEFINE r == [task[t] EXCEPT !.at = "decrypt", !.meta = version]
<1>1. r \in TaskType /\ r.at = "decrypt" /\ r.meta = version /\ r.next = task[t].next
  BY Fields DEF TaskType
<1>2. task' = [task EXCEPT ![t] = r] \/ task' = [task EXCEPT ![t] = Idle]
  BY DEF Metadata
<1> HIDE DEF r
<1>3. QED
  BY <1>1, <1>2, IdleType, TaskChanges, TypeParts DEF OthersKept

LEMMA DecryptStep ==
  ASSUME TypeOK, NEW t \in Tasks, Decrypt(t)
  PROVE  /\ TaskTypes' /\ OthersKept(t)
         /\ task'[t].at = "decrypted" /\ task'[t].data = version
         /\ task'[t].meta = task[t].meta /\ task'[t].next = task[t].next
<1> DEFINE r == [task[t] EXCEPT !.at = "decrypted", !.data = version]
<1>1. /\ r \in TaskType /\ r.at = "decrypted" /\ r.data = version /\ r.meta = task[t].meta
      /\ r.next = task[t].next
  BY Fields DEF TaskType
<1>2. task' = [task EXCEPT ![t] = r]
  BY DEF Decrypt
<1> HIDE DEF r
<1>3. QED
  BY <1>1, <1>2, TaskChanges, TypeParts DEF OthersKept

LEMMA BackupStep ==
  ASSUME TypeOK, NEW t \in Tasks, Backup(t)
  PROVE  /\ TaskTypes' /\ OthersKept(t)
         /\ task'[t].at = "write" /\ task'[t].found = disk
         /\ task'[t].next = task[t].next
         /\ task'[t].meta = task[t].meta /\ task'[t].data = task[t].data
         /\ LET exist  == {f \in Files : disk[f] # None}
                copied == task'[t].backups
            IN  /\ copied \subseteq exist
                /\ bak' = [f \in Files |-> IF f \in copied THEN disk[f] ELSE bak[f]]
                /\ torn' = (torn \/ copied # exist)
                /\ UNCHANGED budgetVars \/ Fail
<1> DEFINE exist == {f \in Files : disk[f] # None}
<1>1. PICK copied \in SUBSET exist :
        /\ UNCHANGED budgetVars \/ Fail
        /\ bak' = [f \in Files |-> IF f \in copied THEN disk[f] ELSE bak[f]]
        /\ torn' = (torn \/ copied # exist)
        /\ task' = [task EXCEPT ![t] = [@ EXCEPT !.at = "write", !.backups = copied,
                                                 !.found = disk]]
  BY DEF Backup
<1> DEFINE r == [task[t] EXCEPT !.at = "write", !.backups = copied, !.found = disk]
<1>2. copied \in SUBSET Files /\ disk \in Content
  BY TypeParts DEF DiskTypes
<1>3. /\ r \in TaskType /\ r.at = "write" /\ r.found = disk /\ r.backups = copied
      /\ r.next = task[t].next /\ r.meta = task[t].meta /\ r.data = task[t].data
  BY <1>2, Fields DEF TaskType, Holding
<1>4. task' = [task EXCEPT ![t] = r]
  BY <1>1
<1> HIDE DEF r
<1>5. TaskTypes' /\ task'[t] = r /\ OthersKept(t)
  BY <1>3, <1>4, TaskChanges, TypeParts DEF OthersKept
<1>6. QED
  BY <1>1, <1>3, <1>5

LEMMA WriteStep ==
  ASSUME TypeOK, NEW t \in Tasks, Write(t)
  PROVE  /\ TaskTypes' /\ OthersKept(t)
         /\ task'[t].at = "write" /\ task'[t].next = task[t].next + 1
         /\ task'[t].meta = task[t].meta /\ task'[t].data = task[t].data
         /\ task'[t].backups = task[t].backups /\ task'[t].found = task[t].found
<1>1. task[t].next + 1 \in 1..Len(Outputs) + 1
  BY Fields, Constants DEF Write
<1> DEFINE n == task[t].next + 1
           r == [task[t] EXCEPT !.next = n]
<1>2. task' = [task EXCEPT ![t] = r]
  BY DEF Write, After
<1>3. n \in 1..Len(Outputs) + 1
  BY <1>1
<1> HIDE DEF n
<1>4. /\ r \in TaskType /\ r.at = task[t].at /\ r.next = n
      /\ r.meta = task[t].meta /\ r.data = task[t].data
      /\ r.backups = task[t].backups /\ r.found = task[t].found
  BY <1>3, Fields DEF TaskType
<1> HIDE DEF r
<1>5. task[t].at = "write"
  BY DEF Write
<1>6. TaskTypes' /\ task'[t] = r /\ OthersKept(t)
  BY <1>2, <1>4, TaskChanges, TypeParts DEF OthersKept
<1>7. QED
  BY <1>4, <1>5, <1>6 DEF n

LEMMA RestoreStep ==
  ASSUME TypeOK, NEW t \in Tasks, Restore(t)
  PROVE  /\ TaskTypes' /\ OthersKept(t)
         /\ task'[t].at = task[t].at /\ task'[t].next = task[t].next
         /\ task'[t].meta = task[t].meta /\ task'[t].data = task[t].data
         /\ task'[t].found = task[t].found
         /\ \E f \in task[t].backups :
              /\ task'[t].backups = task[t].backups \ {f}
              /\ \/ disk' = [disk EXCEPT ![f] = bak[f]] /\ UNCHANGED <<torn, budgetVars>>
                 \/ torn' = TRUE /\ Fail /\ UNCHANGED disk
<1>1. PICK f \in task[t].backups :
        /\ task' = [task EXCEPT ![t].backups = @ \ {f}]
        /\ \/ disk' = [disk EXCEPT ![f] = bak[f]] /\ UNCHANGED <<torn, budgetVars>>
           \/ torn' = TRUE /\ Fail /\ UNCHANGED disk
  BY DEF Restore
<1> DEFINE b == task[t].backups \ {f}
           r == [task[t] EXCEPT !.backups = b]
<1>2. task' = [task EXCEPT ![t] = r]
  BY <1>1
<1>3. b \in SUBSET Files
  BY Fields
<1> HIDE DEF b
<1>4. /\ r \in TaskType /\ r.at = task[t].at /\ r.next = task[t].next
      /\ r.meta = task[t].meta /\ r.data = task[t].data
      /\ r.backups = b /\ r.found = task[t].found
  BY <1>3, Fields DEF TaskType
<1> HIDE DEF r
<1>5. TaskTypes' /\ task'[t] = r /\ OthersKept(t)
  BY <1>2, <1>4, TaskChanges, TypeParts DEF OthersKept
<1>6. QED
  BY <1>1, <1>4, <1>5 DEF b

LEMMA RecordStep ==
  ASSUME TypeOK, NEW t \in Tasks, Record(t)
  PROVE  TaskTypes' /\ OthersKept(t) /\ task'[t].at = "ack"
<1> DEFINE none == Idle.found
           r == [task[t] EXCEPT !.at = "ack", !.found = none]
<1>1. task' = [task EXCEPT ![t] = r]
  BY DEF Record
<1>2. none \in Content
  BY IdleType DEF TaskType
<1> HIDE DEF none
<1>3. r \in TaskType /\ r.at = "ack"
  BY <1>2, Fields DEF TaskType
<1> HIDE DEF r
<1>4. QED
  BY <1>1, <1>3, TaskChanges, TypeParts DEF OthersKept
-----------------------------------------------------------------------------
(* The types. *)
Writing(t) == \/ Backup(t) \/ Write(t) \/ Reload(t) \/ ReloadFails(t) \/ Restore(t)
              \/ RolledBack(t) \/ Record(t) \/ RecordFails(t) \/ Acked(t)

LEMMA DiskStepTypes ==
  ASSUME TypeOK, NEW t \in Tasks, Writing(t)
  PROVE  DiskTypes'
<1> USE TypeParts DEF DiskTypes
<1>1. CASE Backup(t)
  <2>1. bak' \in Content
    BY <1>1, BackupStep DEF Content
  <2>2. disk' = disk /\ service' = service
    BY <1>1 DEF Backup, worldVars
  <2>3. QED
    BY <2>1, <2>2
<1>2. CASE Write(t)
  <2>1. disk' \in Content
    BY <1>2, Fields DEF Write, Content
  <2>2. bak' = bak /\ service' = service
    BY <1>2 DEF Write, worldVars
  <2>3. QED
    BY <2>1, <2>2
<1>3. CASE Reload(t) \/ ReloadFails(t) \/ RolledBack(t)
  <2>1. service' \in {service, disk} /\ disk' = disk /\ bak' = bak
    BY <1>3 DEF Reload, ReloadFails, RolledBack, fileVars
  <2>2. QED
    BY <2>1
<1>4. CASE Restore(t)
  <2>1. PICK f \in task[t].backups : disk' = [disk EXCEPT ![f] = bak[f]] \/ disk' = disk
    BY <1>4 DEF Restore
  <2>2. f \in Files
    BY <2>1, Fields
  <2>3. disk' \in Content
    BY <2>1, <2>2 DEF Content
  <2>4. bak' = bak /\ service' = service
    BY <1>4 DEF Restore, worldVars
  <2>5. QED
    BY <2>3, <2>4
<1>5. CASE Record(t) \/ RecordFails(t)
  BY <1>5 DEF Record, RecordFails, worldVars, fileVars
<1>6. CASE Acked(t)
  <2>1. bak' \in Content
    BY <1>6 DEF Acked, Content
  <2>2. disk' = disk /\ service' = service
    BY <1>6 DEF Acked, worldVars
  <2>3. QED
    BY <2>1, <2>2
<1>7. QED
  BY <1>1, <1>2, <1>3, <1>4, <1>5, <1>6 DEF Writing

LEMMA WritingTypes ==
  ASSUME TypeOK, NEW t \in Tasks, Writing(t)
  PROVE  TypeOK'
<1>1. TaskTypes'
  BY BackupStep, WriteStep, RestoreStep, RecordStep, EndStep, PlaceStep
  DEF Writing, Reload, ReloadFails, RolledBack, RecordFails, Acked, Holding
<1>2. UNCHANGED <<version, parts, event, phase, inMemory>>
  BY DEF Writing, Backup, Write, Reload, ReloadFails, Restore, RolledBack, Record, RecordFails,
         Acked, worldVars, fpVars
<1>3. FpTypes'
  <2>1. /\ lastFingerprint' \in {lastFingerprint, task[t].meta}
        /\ memFingerprint' \in {memFingerprint, task[t].meta}
    BY DEF Writing, Backup, Write, Reload, ReloadFails, Restore, RolledBack, Record, RecordFails,
           Acked, fpVars, Recorded, Remember
  <2>2. QED
    BY <1>2, <2>1, Fields, TypeParts DEF FpTypes
<1>4. failures' \in 0..MaxFailures /\ crashes' \in 0..MaxCrashes
  <2>1. UNCHANGED budgetVars \/ Fail
    BY BackupStep, RestoreStep
    DEF Writing, Write, Reload, ReloadFails, RolledBack, Record, RecordFails, Acked
  <2>2. QED
    BY <2>1, FailTypes, TypeParts DEF PastTypes, budgetVars
<1>5. torn' \in BOOLEAN
  <2>1. CASE Backup(t)
    BY <2>1 DEF Backup
  <2>2. CASE Restore(t)
    BY <2>2, TypeParts DEF Restore, PastTypes
  <2>3. CASE Record(t)
    BY <2>3 DEF Record
  <2>4. CASE Write(t) \/ Reload(t) \/ ReloadFails(t) \/ RolledBack(t) \/ RecordFails(t) \/ Acked(t)
    BY <2>4, TypeParts DEF Write, Reload, ReloadFails, RolledBack, RecordFails, Acked, pastVars,
                           PastTypes
  <2>5. QED
    BY <2>1, <2>2, <2>3, <2>4 DEF Writing
<1>6. overtaken' \in BOOLEAN /\ misrecorded' \in BOOLEAN
  <2>1. CASE Backup(t)
    BY <2>1, TypeParts DEF Backup, PastTypes
  <2>2. CASE ~Backup(t)
    BY <2>2, TypeParts DEF Writing, Write, Reload, ReloadFails, Restore, RolledBack, Record,
                           RecordFails, Acked, pastVars, PastTypes
  <2>3. QED
    BY <2>1, <2>2
<1>7. WorldTypes' /\ PastTypes'
  BY <1>2, <1>4, <1>5, <1>6, TypeParts DEF WorldTypes, PastTypes
<1>8. QED
  BY <1>1, <1>3, <1>7, DiskStepTypes, TypeParts DEF TypeOK, WorldTypes, DiskTypes, FpTypes,
     TaskTypes, PastTypes

Asking(t) == \/ CertificateEvent(t) \/ InitialSync(t) \/ Poll(t) \/ Metadata(t) \/ Decrypt(t)
             \/ RequestFails(t) \/ WriteFails(t) \/ Verified(t)

(* These leave the files, the fingerprints and what is known of the past alone. *)
LEMMA AskingKeeps ==
  ASSUME NEW t \in Tasks, Asking(t)
  PROVE  /\ UNCHANGED <<version, parts, service, disk, bak, inMemory, lastFingerprint,
                        memFingerprint, torn, overtaken, misrecorded>>
         /\ UNCHANGED budgetVars \/ Fail
BY DEF Asking, CertificateEvent, InitialSync, Poll, Begin, Metadata, Decrypt, RequestFails,
       WriteFails, Verified, worldVars, fileVars, fpVars, pastVars

LEMMA AskingTypes ==
  ASSUME TypeOK, NEW t \in Tasks, Asking(t)
  PROVE  TypeOK'
<1>1. TaskTypes'
  <2>1. CASE CertificateEvent(t) \/ InitialSync(t) \/ Poll(t)
    BY <2>1, BeginStep DEF CertificateEvent, InitialSync, Poll
  <2>2. CASE Metadata(t) \/ Decrypt(t)
    BY <2>2, MetadataStep, DecryptStep
  <2>3. CASE RequestFails(t)
    BY <2>3, EndStep DEF RequestFails
  <2>4. CASE WriteFails(t) \/ Verified(t)
    BY <2>4, PlaceStep DEF WriteFails, Verified, AfterFailedWrite, Holding
  <2>5. QED
    BY <2>1, <2>2, <2>3, <2>4 DEF Asking
<1>2. event' \in BOOLEAN
  BY TypeParts DEF Asking, CertificateEvent, InitialSync, Poll, Metadata, Decrypt, RequestFails,
                   WriteFails, Verified, worldVars, WorldTypes
<1>3. phase' \in {"down", "starting", "up"}
  BY TypeParts DEF Asking, CertificateEvent, InitialSync, Poll, Metadata, Decrypt, RequestFails,
                   WriteFails, Verified, PastTypes
<1>4. failures' \in 0..MaxFailures /\ crashes' \in 0..MaxCrashes
  BY AskingKeeps, FailTypes, TypeParts DEF PastTypes, budgetVars
<1>5. WorldTypes' /\ DiskTypes' /\ FpTypes' /\ PastTypes'
  BY <1>2, <1>3, <1>4, AskingKeeps, TypeParts DEF WorldTypes, DiskTypes, FpTypes, PastTypes
<1>6. QED
  BY <1>1, <1>5, TypeParts DEF TypeOK, WorldTypes, DiskTypes, FpTypes, TaskTypes, PastTypes

LEMMA WorldStepTypes ==
  ASSUME TypeOK, Rotate \/ Crash \/ Restart \/ UNCHANGED vars
  PROVE  TypeOK'
<1> USE TypeParts
<1>1. CASE Rotate
  <2>1. version' \in Version /\ version' = version + 1 /\ version \in Nat
    BY <1>1, Constants, Fields DEF Rotate, WorldTypes, Version
  <2>2. parts' \in [0..version' -> SUBSET Files]
    <3>1. PICK missing \in SUBSET Optional :
            parts' = [v \in 0..version' |-> IF v > version THEN Files \ missing ELSE parts[v]]
      BY <1>1 DEF Rotate
    <3>2. \A v \in 0..version' : v > version \/ v \in 0..version
      BY <2>1
    <3>3. QED
      BY <3>1, <3>2 DEF WorldTypes
  <2>3. event' \in BOOLEAN
    BY <1>1 DEF Rotate, WorldTypes
  <2>4. UNCHANGED <<phase, disk, bak, service, inMemory, lastFingerprint, memFingerprint, task,
                    failures, crashes, torn, overtaken, misrecorded>>
    BY <1>1 DEF Rotate, fileVars, fpVars, budgetVars, pastVars
  <2>5. QED
    BY <2>1, <2>2, <2>3, <2>4 DEF TypeOK
<1>2. CASE Crash
  <2>1. task' \in [Tasks -> TaskType]
    BY <1>2, IdleType DEF Crash
  <2>2. crashes' \in 0..MaxCrashes /\ torn' \in BOOLEAN
    BY <1>2, Constants DEF Crash, PastTypes
  <2>3. UNCHANGED <<version, parts, service, disk, bak, inMemory, lastFingerprint, memFingerprint,
                    failures, overtaken, misrecorded>> /\ phase' = "down" /\ event' = FALSE
    BY <1>2 DEF Crash, fileVars, fpVars
  <2>4. QED
    BY <2>1, <2>2, <2>3 DEF TypeOK
<1>3. CASE Restart
  BY <1>3 DEF Restart, TypeOK, worldVars, fileVars, budgetVars, pastVars
<1>4. CASE UNCHANGED vars
  BY <1>4 DEF TypeOK, vars, worldVars, fileVars, fpVars, budgetVars, pastVars
<1>5. QED
  BY <1>1, <1>2, <1>3, <1>4

LEMMA StepCases ==
  ASSUME [Next]_vars
  PROVE  \/ Rotate \/ Crash \/ Restart \/ UNCHANGED vars
         \/ \E t \in Tasks : Asking(t) \/ Writing(t)
BY DEF Next, Proceed, Asking, Writing

(* The types of all variables: among others no deployment runs past its last output and
   the data it writes is a version the vault has. *)
THEOREM TypeCorrect == Spec => []TypeOK
<1>1. Init => TypeOK
  <2> SUFFICES ASSUME Init PROVE TypeOK
    OBVIOUS
  <2>1. WorldTypes
    <3>1. version = 1 /\ parts = [v \in {0, 1} |-> Files] /\ event = FALSE
      BY DEF Init
    <3>2. 0..version = {0, 1} /\ version \in Version
      BY <3>1, Constants DEF Version
    <3>3. QED
      BY <3>1, <3>2 DEF WorldTypes
  <2>2. 0 \in Version
    BY Constants DEF Version
  <2>3. DiskTypes
    BY <2>2 DEF Init, DiskTypes, Content
  <2>4. FpTypes
    BY DEF Init, FpTypes
  <2>5. TaskTypes
    BY IdleType DEF Init, TaskTypes
  <2>6. PastTypes
    <3>1. 0 \in 0..MaxFailures /\ 0 \in 0..MaxCrashes
      BY Constants
    <3>2. QED
      BY <3>1 DEF Init, PastTypes
  <2>7. QED
    BY <2>1, <2>3, <2>4, <2>5, <2>6, TypeParts
<1>2. TypeOK /\ [Next]_vars => TypeOK'
  BY StepCases, WorldStepTypes, AskingTypes, WritingTypes
<1>3. QED
  BY <1>1, <1>2, PTL DEF Spec
-----------------------------------------------------------------------------
(* One deployment at a time holds the event loop, which is what makes the code between
   two of its awaits a sequence nobody else enters. *)
Exclusive == \A t, u \in Tasks : task[t].at \in Holding /\ task[u].at \in Holding => t = u

(* Every output a certificate cannot lack. *)
Required == Files \ Optional

(* Each version has these, and what a deployment has fetched is a version of the vault,
   not older than the metadata it acts on. *)
PartsInv == \A v \in 0..version : Required \subseteq parts[v]
FetchInv ==
  \A t \in Tasks :
    /\ task[t].at \in {"decrypt", "decrypted"} \cup Holding => task[t].meta <= version
    /\ task[t].at \in {"decrypted"} \cup Holding =>
         task[t].meta <= task[t].data /\ task[t].data <= version

(* Only a deployment that may run takes a step. *)
LEMMA Alone ==
  ASSUME TypeOK, Exclusive, NEW t \in Tasks,
         Runs(t) \/ task[t].at \in Holding
  PROVE  \A u \in Tasks \ {t} : task[u].at \notin Holding
BY DEF Runs, Exclusive

LEMMA WritingAlone ==
  ASSUME TypeOK, Exclusive, NEW t \in Tasks, Writing(t) \/ WriteFails(t) \/ Verified(t)
  PROVE  \A u \in Tasks \ {t} : task[u].at \notin Holding
<1>1. Runs(t) \/ task[t].at \in Holding
  BY DEF Writing, Backup, Write, Reload, ReloadFails, Restore, RolledBack, Record, RecordFails,
         Acked, WriteFails, Verified, Holding
<1>2. QED
  BY <1>1, Alone

LEMMA ExclusiveStep ==
  ASSUME TypeOK, Exclusive, [Next]_vars
  PROVE  Exclusive'
<1>1. CASE Rotate \/ Restart \/ UNCHANGED vars
  BY <1>1 DEF Rotate, Restart, vars, Exclusive
<1>2. CASE Crash
  BY <1>2, IdleType DEF Crash, Exclusive, Holding
<1>3. ASSUME NEW t \in Tasks, Writing(t) \/ WriteFails(t) \/ Verified(t)
      PROVE  Exclusive'
  <2>1. OthersKept(t)
    BY <1>3, BackupStep, WriteStep, RestoreStep, RecordStep, EndStep, PlaceStep
    DEF Writing, Reload, ReloadFails, RolledBack, RecordFails, Acked, WriteFails, Verified,
        AfterFailedWrite, Holding
  <2>2. QED
    BY <1>3, <2>1, WritingAlone DEF OthersKept, Exclusive
<1>4. ASSUME NEW t \in Tasks, Asking(t), ~WriteFails(t), ~Verified(t)
      PROVE  Exclusive'
  <2>1. OthersKept(t) /\ task'[t].at \notin Holding
    BY <1>4, BeginStep, MetadataStep, DecryptStep, EndStep
    DEF Asking, CertificateEvent, InitialSync, Poll, RequestFails, Holding
  <2>2. QED
    BY <2>1 DEF OthersKept, Exclusive
<1>5. QED
  BY <1>1, <1>2, <1>3, <1>4, StepCases

LEMMA PartsStep ==
  ASSUME TypeOK, PartsInv, [Next]_vars
  PROVE  PartsInv' /\ version <= version' /\ version' \in Nat
<1>1. version \in Nat
  BY TypeParts DEF WorldTypes, Version
<1>2. CASE Rotate
  <2>1. version' = version + 1
    BY <1>2 DEF Rotate
  <2>2. PICK missing \in SUBSET Optional :
          parts' = [v \in 0..version' |-> IF v > version THEN Files \ missing ELSE parts[v]]
    BY <1>2 DEF Rotate
  <2>3. \A v \in 0..version' : v > version \/ v \in 0..version
    BY <1>1, <2>1
  <2>4. QED
    BY <1>1, <2>1, <2>2, <2>3 DEF PartsInv, Required
<1>3. CASE Crash \/ Restart \/ UNCHANGED vars
  BY <1>1, <1>3 DEF Crash, Restart, vars, worldVars, PartsInv
<1>4. ASSUME NEW t \in Tasks, Asking(t) \/ Writing(t)
      PROVE  PartsInv' /\ version <= version' /\ version' \in Nat
  <2>1. version' = version /\ parts' = parts
    BY <1>4, AskingKeeps DEF Writing, Backup, Write, Reload, ReloadFails, Restore, RolledBack,
                             Record, RecordFails, Acked, worldVars
  <2>2. QED
    BY <1>1, <2>1 DEF PartsInv
<1>5. QED
  BY <1>2, <1>3, <1>4, StepCases

LEMMA FetchStep ==
  ASSUME TypeOK, PartsInv, FetchInv, [Next]_vars
  PROVE  FetchInv'
<1>0. version \in Nat /\ version' \in Nat /\ version <= version'
      /\ \A t \in Tasks : task[t].meta \in Nat /\ task[t].data \in Nat
  <2>1. version \in Nat
    BY TypeParts DEF WorldTypes, Version
  <2>2. version' \in Nat /\ version <= version'
    BY PartsStep
  <2>3. \A t \in Tasks : task[t].meta \in Nat /\ task[t].data \in Nat
    BY Fields DEF Version
  <2>4. QED
    BY <2>1, <2>2, <2>3
<1>1. CASE Rotate \/ Restart \/ UNCHANGED vars
  <2>1. task' = task
    BY <1>1 DEF Rotate, Restart, vars
  <2>2. QED
    BY <1>0, <2>1 DEF FetchInv
<1>2. CASE Crash
  BY <1>2, IdleType DEF Crash, FetchInv, Holding
<1>3. ASSUME NEW t \in Tasks, OthersKept(t),
             \/ task'[t].at \in {"idle", "metadata", "ack"}
             \/ task'[t].at = "decrypt" /\ task'[t].meta = version
             \/ task[t].at = "decrypt" /\ task'[t].data = version /\ task'[t].meta = task[t].meta
             \/ /\ task[t].at \in {"decrypted"} \cup Holding
                /\ task'[t].meta = task[t].meta /\ task'[t].data = task[t].data
      PROVE  FetchInv'
  <2>1. \A u \in Tasks \ {t} :
          /\ task'[u].at \in {"decrypt", "decrypted"} \cup Holding => task'[u].meta <= version'
          /\ task'[u].at \in {"decrypted"} \cup Holding =>
               task'[u].meta <= task'[u].data /\ task'[u].data <= version'
    BY <1>0, <1>3 DEF OthersKept, FetchInv
  <2>2. /\ task'[t].at \in {"decrypt", "decrypted"} \cup Holding => task'[t].meta <= version'
        /\ task'[t].at \in {"decrypted"} \cup Holding =>
             task'[t].meta <= task'[t].data /\ task'[t].data <= version'
    BY <1>0, <1>3 DEF FetchInv, Holding
  <2>3. QED
    BY <2>1, <2>2 DEF FetchInv
<1>4. ASSUME NEW t \in Tasks, Asking(t) PROVE FetchInv'
  <2>1. CASE CertificateEvent(t) \/ InitialSync(t) \/ Poll(t)
    BY <1>3, <2>1, BeginStep DEF CertificateEvent, InitialSync, Poll
  <2>2. CASE Metadata(t) \/ Decrypt(t)
    BY <1>3, <2>2, MetadataStep, DecryptStep DEF Decrypt
  <2>3. CASE RequestFails(t)
    BY <1>3, <2>3, EndStep DEF RequestFails
  <2>4. CASE WriteFails(t) \/ Verified(t)
    BY <1>3, <2>4, PlaceStep DEF WriteFails, Verified, AfterFailedWrite, Holding
  <2>5. QED
    BY <1>4, <2>1, <2>2, <2>3, <2>4 DEF Asking
<1>5. ASSUME NEW t \in Tasks, Writing(t) PROVE FetchInv'
  <2>1. CASE Backup(t) \/ Write(t) \/ Restore(t)
    BY <1>3, <2>1, BackupStep, WriteStep, RestoreStep DEF Backup, Write, Restore, Holding
  <2>2. CASE Reload(t) \/ ReloadFails(t) \/ RecordFails(t)
    BY <1>3, <2>2, PlaceStep DEF Reload, ReloadFails, RecordFails, Holding
  <2>3. CASE RolledBack(t) \/ Record(t) \/ Acked(t)
    BY <1>3, <2>3, EndStep, RecordStep DEF RolledBack, Acked
  <2>4. QED
    BY <1>5, <2>1, <2>2, <2>3 DEF Writing
<1>6. QED
  BY <1>1, <1>2, <1>4, <1>5, StepCases
-----------------------------------------------------------------------------
(* What a deployment that holds the event loop has done to the files. *)
Written(i) == {Outputs[j] : j \in 1..(i - 1)}

(* The copies it restores from are the files as it found them. *)
SafeCopies(t) == \A f \in task[t].backups : bak[f] = task[t].found[f] /\ task[t].found[f] # None

(* The outputs it has passed hold its data, the others what it found. *)
Progress(t) ==
  /\ task[t].at = "write" =>
       \A f \in Required : disk[f] = IF f \in Written(task[t].next) THEN task[t].data
                                     ELSE task[t].found[f]
  /\ task[t].at \in {"reload", "record"} => \A f \in Required : disk[f] = task[t].data

FilesInv == /\ \A t \in Tasks : task[t].at \in Holding => SafeCopies(t) /\ Progress(t)
            /\ \A t \in Tasks : task[t].at \in {"metadata", "decrypt", "decrypted"} =>
                 task[t].next = 1

LEMMA WrittenFacts ==
  /\ Written(1) = {}
  /\ \A i \in 1..Len(Outputs) : Written(i + 1) = Written(i) \cup {Outputs[i]}
  /\ \A i \in 1..Len(Outputs) + 1 : i > Len(Outputs) => Files \subseteq Written(i)
<1>1. Written(1) = {}
  <2>1. 1..(1 - 1) = {}
    OBVIOUS
  <2>2. QED
    BY <2>1 DEF Written
<1>2. ASSUME NEW i \in 1..Len(Outputs) PROVE Written(i + 1) = Written(i) \cup {Outputs[i]}
  <2>1. 1..(i + 1 - 1) = 1..(i - 1) \cup {i}
    BY Constants
  <2>2. QED
    BY <2>1 DEF Written
<1>3. ASSUME NEW i \in 1..Len(Outputs) + 1, i > Len(Outputs) PROVE Files \subseteq Written(i)
  <2>1. i - 1 = Len(Outputs)
    BY <1>3, Constants
  <2>2. QED
    BY <2>1, Constants DEF Written
<1>4. QED
  BY <1>1, <1>2, <1>3

(* The steps of the deployment that holds the event loop, or takes it. *)
Acting(t) == Writing(t) \/ WriteFails(t) \/ Verified(t)

LEMMA ActingAlone ==
  ASSUME TypeOK, Exclusive, NEW t \in Tasks, Acting(t)
  PROVE  /\ OthersKept(t)
         /\ \A u \in Tasks \ {t} : task[u].at \notin Holding /\ task'[u].at \notin Holding
<1>1. OthersKept(t)
  BY BackupStep, WriteStep, RestoreStep, RecordStep, EndStep, PlaceStep
  DEF Acting, Writing, Reload, ReloadFails, RolledBack, RecordFails, Acked, WriteFails, Verified,
      AfterFailedWrite, Holding
<1>2. QED
  BY <1>1, WritingAlone DEF Acting, OthersKept

(* The others ask the vault and hold nothing. *)
LEMMA AskingApart ==
  ASSUME TypeOK, NEW t \in Tasks, Asking(t), ~Acting(t)
  PROVE  /\ OthersKept(t) /\ task[t].at \notin Holding /\ task'[t].at \notin Holding
         /\ UNCHANGED <<version, disk, bak, inMemory, lastFingerprint, memFingerprint, torn,
                        overtaken, misrecorded>>
<1>1. OthersKept(t) /\ task'[t].at \notin Holding
  BY BeginStep, MetadataStep, DecryptStep, EndStep
  DEF Acting, Asking, CertificateEvent, InitialSync, Poll, RequestFails, Holding
<1>2. task[t].at \notin Holding
  BY DEF Acting, Asking, CertificateEvent, InitialSync, Poll, Begin, Metadata, Decrypt,
         RequestFails, Holding
<1>3. QED
  BY <1>1, <1>2, AskingKeeps

LEMMA ActCases ==
  ASSUME [Next]_vars
  PROVE  \/ Rotate \/ Restart \/ UNCHANGED vars \/ Crash
         \/ \E t \in Tasks : Acting(t) \/ (Asking(t) /\ ~Acting(t))
BY StepCases DEF Acting

LEMMA ActingFiles ==
  ASSUME TypeOK, Exclusive, PartsInv, FetchInv, FilesInv, NEW t \in Tasks, Acting(t)
  PROVE  /\ task'[t].at \in Holding => SafeCopies(t)' /\ Progress(t)'
         /\ task'[t].at \notin {"metadata", "decrypt", "decrypted"}
<1>1. CASE Backup(t)
  <2>1. /\ task'[t].at = "write" /\ task'[t].found = disk /\ task'[t].next = 1
        /\ task'[t].backups \subseteq {f \in Files : disk[f] # None}
        /\ bak' = [f \in Files |-> IF f \in task'[t].backups THEN disk[f] ELSE bak[f]]
        /\ disk' = disk
    <3>1. task[t].next = 1
      BY <1>1 DEF Backup, FilesInv
    <3>2. QED
      BY <1>1, <3>1, BackupStep DEF Backup
  <2>2. SafeCopies(t)'
    BY <2>1 DEF SafeCopies
  <2>3. Progress(t)'
    BY <2>1, WrittenFacts DEF Progress
  <2>4. QED
    BY <2>1, <2>2, <2>3
<1>2. CASE Write(t)
  <2> DEFINE i == task[t].next
             d == task[t].data
  <2>1. /\ task[t].at = "write" /\ i \in 1..Len(Outputs)
        /\ disk' = IF Outputs[i] \in parts[d] THEN [disk EXCEPT ![Outputs[i]] = d] ELSE disk
        /\ bak' = bak
    BY <1>2, Fields DEF Write
  <2>2. /\ task'[t].at = "write" /\ task'[t].next = i + 1 /\ task'[t].data = d
        /\ task'[t].backups = task[t].backups /\ task'[t].found = task[t].found
    BY <1>2, WriteStep
  <2>3. SafeCopies(t) /\ Progress(t)
    BY <2>1 DEF FilesInv, Holding
  <2>4. Required \subseteq parts[d]
    BY <2>1, Fields DEF PartsInv, FetchInv, Holding, Version
  <2>5. Written(i + 1) = Written(i) \cup {Outputs[i]}
    BY <2>1, WrittenFacts
  <2>6. disk \in [Files -> Version \cup {None}]
    BY TypeParts DEF DiskTypes, Content
  <2>7. ASSUME NEW f \in Required
        PROVE  disk'[f] = IF f \in Written(i + 1) THEN d ELSE task[t].found[f]
    <3>1. disk[f] = IF f \in Written(i) THEN d ELSE task[t].found[f]
      BY <2>1, <2>3 DEF Progress
    <3>2. f \in Files
      BY DEF Required
    <3>3. CASE f = Outputs[i]
      BY <2>1, <2>4, <2>5, <2>6, <3>2, <3>3
    <3>4. CASE f # Outputs[i]
      BY <2>1, <2>5, <2>6, <3>1, <3>2, <3>4
    <3>5. QED
      BY <3>3, <3>4
  <2>8. Progress(t)'
    BY <2>2, <2>7 DEF Progress
  <2>9. SafeCopies(t)'
    BY <2>1, <2>2, <2>3 DEF SafeCopies
  <2>10. QED
    BY <2>2, <2>8, <2>9
<1>3. CASE Verified(t) \/ WriteFails(t) \/ Reload(t) \/ ReloadFails(t) \/ RecordFails(t)
  <2>1. /\ task[t].at \in {"write", "reload", "record"} /\ task'[t].at \in Holding
        /\ \/ task[t].at = "write" /\ task[t].next > Len(Outputs) /\ task'[t].at = "reload"
           \/ task[t].at = "reload" /\ task'[t].at = "record"
           \/ task'[t].at \in {"restore", "rollback"}
        /\ task'[t].data = task[t].data /\ task'[t].backups = task[t].backups
        /\ task'[t].found = task[t].found /\ disk' = disk /\ bak' = bak
    BY <1>3, PlaceStep DEF Verified, WriteFails, Reload, ReloadFails, RecordFails, AfterFailedWrite, Holding,
                           fileVars
  <2>2. SafeCopies(t) /\ Progress(t)
    BY <2>1 DEF FilesInv, Holding
  <2>3. SafeCopies(t)'
    BY <2>1, <2>2 DEF SafeCopies
  <2>4. task[t].next > Len(Outputs) => Required \subseteq Written(task[t].next)
    BY Fields, WrittenFacts DEF Required
  <2>5. Progress(t)'
    BY <2>1, <2>2, <2>4 DEF Progress
  <2>6. QED
    BY <2>1, <2>3, <2>5 DEF Holding
<1>4. CASE Restore(t)
  <2>1. /\ task[t].at \in {"restore", "rollback"} /\ task'[t].at = task[t].at
        /\ task'[t].found = task[t].found /\ task'[t].backups \subseteq task[t].backups
        /\ bak' = bak
    BY <1>4, RestoreStep DEF Restore
  <2>2. SafeCopies(t)
    BY <2>1 DEF FilesInv, Holding
  <2>3. SafeCopies(t)' /\ Progress(t)'
    BY <2>1, <2>2 DEF SafeCopies, Progress
  <2>4. QED
    BY <2>1, <2>3
<1>5. CASE RolledBack(t) \/ Record(t) \/ Acked(t)
  BY <1>5, EndStep, RecordStep DEF RolledBack, Acked, Holding
<1>6. QED
  BY <1>1, <1>2, <1>3, <1>4, <1>5 DEF Acting, Writing

LEMMA FilesStep ==
  ASSUME TypeOK, Exclusive, PartsInv, FetchInv, FilesInv, [Next]_vars
  PROVE  FilesInv'
<1>1. CASE Rotate \/ Restart \/ UNCHANGED vars
  <2>1. UNCHANGED <<task, disk, bak>>
    BY <1>1 DEF Rotate, Restart, vars, fileVars
  <2>2. QED
    BY <2>1 DEF FilesInv, SafeCopies, Progress
<1>2. CASE Crash
  BY <1>2, IdleType DEF Crash, FilesInv, Holding
<1>3. ASSUME NEW t \in Tasks, Acting(t) PROVE FilesInv'
  <2>1. \A u \in Tasks \ {t} : task'[u].at \notin Holding /\ task'[u] = task[u]
    BY <1>3, ActingAlone DEF OthersKept
  <2>2. QED
    BY <1>3, <2>1, ActingFiles DEF FilesInv
<1>4. ASSUME NEW t \in Tasks, Asking(t), ~Acting(t) PROVE FilesInv'
  <2>1. /\ OthersKept(t) /\ task'[t].at \notin Holding
        /\ UNCHANGED <<disk, bak>>
    BY <1>4, AskingApart
  <2>2. task'[t].at \in {"metadata", "decrypt", "decrypted"} => task'[t].next = 1
    BY <1>4, BeginStep, MetadataStep, DecryptStep, EndStep
    DEF FilesInv, Acting, Asking, CertificateEvent, InitialSync, Poll, Metadata, Decrypt,
        RequestFails
  <2>3. QED
    BY <2>1, <2>2 DEF OthersKept, FilesInv, SafeCopies, Progress
<1>5. QED
  BY <1>1, <1>2, <1>3, <1>4, ActCases
-----------------------------------------------------------------------------
(* What every deployment may rely on. *)
DeployInv == Exclusive /\ PartsInv /\ FetchInv /\ FilesInv

LEMMA DeployAlways == Spec => [](TypeOK /\ DeployInv)
<1>1. Init => DeployInv
  <2> SUFFICES ASSUME Init PROVE DeployInv
    OBVIOUS
  <2>1. Exclusive /\ FetchInv /\ FilesInv
    BY IdleType DEF Init, Exclusive, FetchInv, FilesInv, Holding
  <2>2. PartsInv
    BY DEF Init, PartsInv, Required
  <2>3. QED
    BY <2>1, <2>2 DEF DeployInv
<1>2. TypeOK /\ DeployInv /\ [Next]_vars => DeployInv'
  BY ExclusiveStep, PartsStep, FetchStep, FilesStep DEF DeployInv
<1>3. QED
  BY <1>1, <1>2, TypeCorrect, PTL DEF Spec
-----------------------------------------------------------------------------
(* One version. *)
Same(content) == \A f, g \in Required : content[f] = content[g]

(* While nothing has gone wrong, the copies a deployment holds are enough to bring
   back what it found, and that was of one version. *)
Undo(t) ==
  ~torn => /\ Same(task[t].found)
           /\ task[t].at \in {"write", "reload", "record"} => Required \subseteq task[t].backups
           /\ task[t].at \in {"restore", "rollback"} =>
                \A f \in Required : f \in task[t].backups \/ disk[f] = task[t].found[f]

PairInv == /\ \A f \in Required : disk[f] # None
           /\ \A t \in Tasks : task[t].at \in Holding => Undo(t)
           /\ OneVersion

LEMMA OneVersionIsSame == OneVersion <=> (~Busy /\ ~torn => Same(disk))
BY DEF OneVersion, Same, Required

LEMMA ActingPair ==
  ASSUME TypeOK, DeployInv, PairInv, NEW t \in Tasks, Acting(t)
  PROVE  /\ \A f \in Required : disk'[f] # None
         /\ task'[t].at \in Holding => Undo(t)'
         /\ task'[t].at \notin Holding /\ ~torn' => Same(disk')
<1>0. \A u \in Tasks \ {t} : task[u].at \notin Holding
  BY ActingAlone DEF DeployInv
<1>1. CASE Backup(t)
  <2>1. /\ task'[t].at = "write" /\ task'[t].found = disk /\ disk' = disk
        /\ torn' = (torn \/ task'[t].backups # {f \in Files : disk[f] # None})
    BY <1>1, BackupStep DEF Backup
  <2>2. ~torn => Same(disk)
    <3>1. ~Busy
      BY <1>0, <1>1 DEF Backup, Busy, Holding
    <3>2. QED
      BY <3>1, OneVersionIsSame DEF PairInv
  <2>3. Undo(t)'
    BY <2>1, <2>2 DEF Undo, PairInv, Required, Same
  <2>4. QED
    BY <2>1, <2>3 DEF PairInv, Holding
<1>2. CASE Write(t)
  <2>1. /\ task[t].at = "write" /\ task'[t].at = "write"
        /\ task'[t].backups = task[t].backups /\ task'[t].found = task[t].found
        /\ torn' = torn
    BY <1>2, WriteStep DEF Write, pastVars
  <2>2. Undo(t)'
    BY <2>1 DEF PairInv, Undo, Holding
  <2>3. task[t].data # None
    BY Fields, Constants DEF Version
  <2>4. \A f \in Required : disk'[f] # None
    BY <1>2, <2>3, TypeParts DEF Write, PairInv, DiskTypes, Content, Required
  <2>5. QED
    BY <2>1, <2>2, <2>4 DEF Holding
<1>3. CASE Verified(t) \/ WriteFails(t) \/ Reload(t) \/ ReloadFails(t) \/ RecordFails(t)
  <2>1. /\ task[t].at \in {"write", "reload", "record"} /\ task'[t].at \in Holding
        /\ task'[t].at \in {"reload", "record", "restore", "rollback"}
        /\ task'[t].backups = task[t].backups
        /\ task'[t].found = task[t].found /\ disk' = disk /\ torn' = torn
    BY <1>3, PlaceStep DEF Verified, WriteFails, Reload, ReloadFails, RecordFails, AfterFailedWrite, Holding,
                           fileVars, pastVars
  <2>2. Undo(t)
    BY <2>1 DEF PairInv, Holding
  <2>3. Undo(t)'
    BY <2>1, <2>2 DEF Undo
  <2>4. QED
    BY <2>1, <2>3 DEF PairInv
<1>4. CASE Restore(t)
  <2>1. /\ task[t].at \in {"restore", "rollback"} /\ task'[t].at = task[t].at
        /\ task'[t].found = task[t].found
    BY <1>4, RestoreStep DEF Restore
  <2>2. PICK f \in task[t].backups :
          /\ task'[t].backups = task[t].backups \ {f}
          /\ \/ disk' = [disk EXCEPT ![f] = bak[f]] /\ torn' = torn
             \/ torn' = TRUE /\ disk' = disk
    BY <1>4, RestoreStep
  <2>3. Undo(t) /\ SafeCopies(t)
    BY <2>1 DEF PairInv, DeployInv, FilesInv, Holding
  <2>4. bak[f] = task[t].found[f] /\ bak[f] # None
    BY <2>2, <2>3 DEF SafeCopies
  <2>5. disk \in [Files -> Version \cup {None}] /\ Required \subseteq Files
    BY TypeParts DEF DiskTypes, Content, Required
  <2>6. \A g \in Required : disk'[g] # None
    BY <2>2, <2>4, <2>5 DEF PairInv
  <2>7. CASE torn' = TRUE
    BY <2>1, <2>6, <2>7 DEF Undo, Holding
  <2>8. CASE disk' = [disk EXCEPT ![f] = bak[f]] /\ torn' = torn
    <3>1. ASSUME ~torn, NEW g \in Required
          PROVE  g \in task'[t].backups \/ disk'[g] = task[t].found[g]
      <4>1. g \in task[t].backups \/ disk[g] = task[t].found[g]
        BY <2>1, <2>3, <3>1 DEF Undo
      <4>2. CASE g = f
        BY <2>4, <2>5, <2>8, <4>2
      <4>3. CASE g # f
        BY <2>2, <2>5, <2>8, <4>1, <4>3
      <4>4. QED
        BY <4>2, <4>3
    <3>2. Undo(t)'
      BY <2>1, <2>3, <2>8, <3>1 DEF Undo
    <3>3. QED
      BY <2>1, <2>6, <3>2 DEF Holding
  <2>9. QED
    BY <2>2, <2>7, <2>8
<1>5. CASE RolledBack(t)
  <2>1. /\ task[t].at \in {"restore", "rollback"} /\ task[t].backups = {}
        /\ task'[t].at = "idle" /\ disk' = disk /\ torn' = torn
    BY <1>5, EndStep DEF RolledBack, fileVars, pastVars
  <2>2. Undo(t)
    BY <2>1 DEF PairInv, Holding
  <2>3. ~torn => Same(disk)
    BY <2>1, <2>2 DEF Undo, Same
  <2>4. QED
    BY <2>1, <2>3 DEF PairInv, Holding
<1>6. CASE Record(t)
  <2>1. task[t].at = "record" /\ task'[t].at = "ack" /\ disk' = disk
    BY <1>6, RecordStep DEF Record, fileVars
  <2>2. Progress(t)
    BY <2>1 DEF DeployInv, FilesInv, Holding
  <2>3. Same(disk)
    BY <2>1, <2>2 DEF Progress, Same
  <2>4. QED
    BY <2>1, <2>3 DEF PairInv, Holding
<1>7. CASE Acked(t)
  <2>1. task[t].at = "ack" /\ task'[t].at = "idle" /\ disk' = disk /\ torn' = torn
    BY <1>7, EndStep DEF Acked, pastVars
  <2>2. ~Busy
    BY <1>0, <2>1 DEF Busy, Holding
  <2>3. ~torn => Same(disk)
    BY <2>2, OneVersionIsSame DEF PairInv
  <2>4. QED
    BY <2>1, <2>3 DEF PairInv, Holding
<1>8. QED
  BY <1>1, <1>2, <1>3, <1>4, <1>5, <1>6, <1>7 DEF Acting, Writing

LEMMA PairStep ==
  ASSUME TypeOK, DeployInv, PairInv, [Next]_vars
  PROVE  PairInv'
<1>1. CASE Rotate \/ Restart \/ UNCHANGED vars
  <2>1. UNCHANGED <<task, disk, torn>>
    BY <1>1 DEF Rotate, Restart, vars, fileVars, pastVars
  <2>2. QED
    BY <2>1 DEF PairInv, Undo, OneVersion, Busy, Same
<1>2. CASE Crash
  <2>1. disk' = disk /\ torn' = (torn \/ Busy) /\ \A t \in Tasks : task'[t].at \notin Holding
    BY <1>2, IdleType DEF Crash, fileVars, Holding
  <2>2. QED
    BY <2>1 DEF PairInv, OneVersion
<1>3. ASSUME NEW t \in Tasks, Acting(t) PROVE PairInv'
  <2>1. \A u \in Tasks \ {t} : task'[u].at \notin Holding
    BY <1>3, ActingAlone DEF DeployInv
  <2>2. /\ \A f \in Required : disk'[f] # None
        /\ task'[t].at \in Holding => Undo(t)'
        /\ task'[t].at \notin Holding /\ ~torn' => Same(disk')
    BY <1>3, ActingPair
  <2>3. OneVersion'
    BY <2>2 DEF OneVersion, Busy, Same, Required
  <2>4. QED
    BY <2>1, <2>2, <2>3 DEF PairInv
<1>4. ASSUME NEW t \in Tasks, Asking(t), ~Acting(t) PROVE PairInv'
  <2>1. /\ OthersKept(t) /\ task[t].at \notin Holding /\ task'[t].at \notin Holding
        /\ disk' = disk /\ torn' = torn
    BY <1>4, AskingApart
  <2>2. Busy' <=> Busy
    BY <2>1 DEF OthersKept, Busy
  <2>3. OneVersion'
    BY <2>1, <2>2 DEF PairInv, OneVersion
  <2>4. QED
    BY <2>1, <2>3 DEF OthersKept, PairInv, Undo, Same
<1>5. QED
  BY <1>1, <1>2, <1>3, <1>4, ActCases

(* The certificate and its key are of one version whenever no deployment is writing and
   neither a crash nor a failed copy has come between, if all of them are there when the
   agent is installed.  (A rollback does not remove a file it has created.) *)
THEOREM OneVersionHolds ==
  ASSUME Files \ Optional \subseteq Existing
  PROVE  Spec => []OneVersion
<1>1. Init => PairInv
  <2> SUFFICES ASSUME Init PROVE PairInv
    OBVIOUS
  <2>1. \A f \in Required : disk[f] = 0
    BY FileAssumption DEF Init, Required
  <2>2. 0 # None
    BY Constants
  <2>3. OneVersion
    BY <2>1, OneVersionIsSame DEF Same
  <2>4. \A t \in Tasks : task[t].at \notin Holding
    BY IdleType DEF Init, Holding
  <2>5. QED
    BY <2>1, <2>2, <2>3, <2>4 DEF PairInv
<1>2. TypeOK /\ DeployInv /\ PairInv /\ [Next]_vars => PairInv'
  BY PairStep
<1>3. PairInv => OneVersion
  BY DEF PairInv
<1>4. QED
  BY <1>1, <1>2, <1>3, DeployAlways, PTL DEF Spec
-----------------------------------------------------------------------------
(* The fingerprints.  Files of the version v or of a later one. *)
Backed(content, v) ==
  v # None /\ ~overtaken => \A f \in Required : content[f] # None /\ content[f] >= v

(* So are the data of a deployment that holds the event loop and what it found. *)
Ahead(t, v) == v # None /\ ~overtaken => task[t].data >= v /\ Backed(task[t].found, v)

Secured(v) == Backed(disk, v) /\ \A t \in Tasks : task[t].at \in Holding => Ahead(t, v)

(* The fingerprint in memory is the recorded one when the configuration is kept there, and
   otherwise that of the start, which the answers of the vault are never behind. *)
MemoryInv ==
  /\ phase = "down" => \A t \in Tasks : task[t].at = "idle"
  /\ lastFingerprint # None => lastFingerprint <= version
  /\ ~inMemory => ~misrecorded
  /\ inMemory /\ ~misrecorded => memFingerprint \in {lastFingerprint, None}
  /\ ~inMemory /\ memFingerprint # None =>
       /\ memFingerprint <= version
       /\ \A t \in Tasks : task[t].at \in {"decrypted"} \cup Holding =>
            task[t].data >= memFingerprint

BackedInv == MemoryInv /\ \A v \in Fingerprints : Secured(v)

LEMMA BackedIs ==
  FingerprintIsBacked <=> \A v \in Fingerprints : Backed(disk, v)
BY DEF FingerprintIsBacked, Backed, Required

LEMMA FingerprintTypes ==
  ASSUME TypeOK, NEW v \in Fingerprints
  PROVE  v \in Version \cup {None}
BY TypeParts DEF Fingerprints, FpTypes

LEMMA ActingBacked ==
  ASSUME TypeOK, DeployInv, NEW v \in Version \cup {None}, Secured(v), NEW t \in Tasks,
         Acting(t), Backup(t) /\ v # None /\ ~overtaken' => task[t].data >= v
  PROVE  Backed(disk, v)' /\ (task'[t].at \in Holding => Ahead(t, v)')
<1>1. CASE Backup(t)
  <2>1. /\ task'[t].found = disk /\ task'[t].data = task[t].data /\ disk' = disk
        /\ overtaken \in BOOLEAN /\ (overtaken => overtaken')
    BY <1>1, BackupStep, TypeParts DEF Backup, PastTypes
  <2>2. Backed(disk, v)'
    BY <2>1 DEF Secured, Backed
  <2>3. Ahead(t, v)'
    BY <1>1, <2>1, <2>2 DEF Ahead, Backed
  <2>4. QED
    BY <2>2, <2>3
<1>2. CASE Write(t)
  <2>1. /\ task[t].at = "write"
        /\ task'[t].data = task[t].data /\ task'[t].found = task[t].found
        /\ overtaken' = overtaken
    BY <1>2, WriteStep DEF Write, pastVars
  <2>2. Ahead(t, v)
    BY <2>1 DEF Secured, Holding
  <2>3. \A f \in Required : disk'[f] = disk[f] \/ disk'[f] = task[t].data
    BY <1>2, TypeParts DEF Write, DiskTypes, Content, Required
  <2>4. task[t].data # None
    BY Fields, Constants DEF Version
  <2>5. Backed(disk, v)'
    BY <2>1, <2>2, <2>3, <2>4 DEF Secured, Backed, Ahead
  <2>6. Ahead(t, v)'
    BY <2>1, <2>2 DEF Ahead, Backed
  <2>7. QED
    BY <2>5, <2>6
<1>3. CASE Verified(t) \/ WriteFails(t) \/ Reload(t) \/ ReloadFails(t) \/ RecordFails(t)
  <2>1. /\ task[t].at \in Holding
        /\ task'[t].data = task[t].data /\ task'[t].found = task[t].found /\ disk' = disk
        /\ overtaken' = overtaken
    BY <1>3, PlaceStep DEF Verified, WriteFails, Reload, ReloadFails, RecordFails,
                           AfterFailedWrite, Holding, fileVars, pastVars
  <2>2. Ahead(t, v)
    BY <2>1 DEF Secured
  <2>3. QED
    BY <2>1, <2>2 DEF Secured, Backed, Ahead
<1>4. CASE Restore(t)
  <2>1. /\ task[t].at \in Holding
        /\ task'[t].data = task[t].data /\ task'[t].found = task[t].found
        /\ overtaken' = overtaken
    BY <1>4, RestoreStep DEF Restore, Holding
  <2>2. Ahead(t, v) /\ SafeCopies(t)
    BY <2>1 DEF Secured, DeployInv, FilesInv
  <2>3. PICK f \in task[t].backups : disk' = [disk EXCEPT ![f] = bak[f]] \/ disk' = disk
    BY <1>4 DEF Restore
  <2>4. \A g \in Required : disk'[g] = disk[g] \/ disk'[g] = task[t].found[g]
    BY <2>2, <2>3, TypeParts DEF SafeCopies, DiskTypes, Content, Required
  <2>5. Backed(disk, v)'
    BY <2>1, <2>2, <2>4 DEF Secured, Backed, Ahead
  <2>6. Ahead(t, v)'
    BY <2>1, <2>2 DEF Ahead, Backed
  <2>7. QED
    BY <2>5, <2>6
<1>5. CASE RolledBack(t) \/ Record(t) \/ Acked(t)
  <2>1. /\ task'[t].at \notin Holding /\ disk' = disk /\ overtaken' = overtaken
    BY <1>5, EndStep, RecordStep DEF RolledBack, Record, Acked, Holding, fileVars, pastVars
  <2>2. QED
    BY <2>1 DEF Secured, Backed
<1>6. QED
  BY <1>1, <1>2, <1>3, <1>4, <1>5 DEF Acting, Writing

(* What is recorded is on disk at that moment. *)
LEMMA RecordBacks ==
  ASSUME TypeOK, DeployInv, NEW t \in Tasks, Record(t), NEW v, v = task[t].meta
  PROVE  Secured(v)'
<1>1. /\ task[t].at = "record" /\ task'[t].at = "ack" /\ disk' = disk
  BY RecordStep DEF Record, fileVars
<1>2. Progress(t) /\ task[t].meta <= task[t].data
  BY <1>1 DEF DeployInv, FilesInv, FetchInv, Holding
<1>3. task[t].data \in Int /\ task[t].meta \in Int /\ task[t].data # None
  BY Fields, Constants DEF Version
<1>4. \A f \in Required : disk'[f] = task[t].data
  BY <1>1, <1>2 DEF Progress
<1>5. \A f \in Required : disk'[f] # None /\ disk'[f] >= v
  BY <1>2, <1>3, <1>4
<1>6. \A u \in Tasks : task'[u].at \notin Holding
  BY <1>1, ActingAlone DEF DeployInv, Acting, Writing, Holding
<1>7. QED
  BY <1>5, <1>6 DEF Secured, Backed

LEMMA MemoryStep ==
  ASSUME TypeOK, DeployInv, MemoryInv, [Next]_vars
  PROVE  MemoryInv'
<1>0. /\ version \in Nat /\ version' \in Nat /\ version <= version'
      /\ lastFingerprint # None => lastFingerprint \in Nat
      /\ memFingerprint # None => memFingerprint \in Nat
      /\ \A t \in Tasks : task[t].data \in Nat /\ task[t].meta \in Nat
  <2>1. version \in Nat /\ \A t \in Tasks : task[t].data \in Nat /\ task[t].meta \in Nat
    BY Fields, TypeParts DEF Version, WorldTypes
  <2>2. version' \in Nat /\ version <= version'
    BY PartsStep DEF DeployInv
  <2>3. /\ lastFingerprint # None => lastFingerprint \in Nat
        /\ memFingerprint # None => memFingerprint \in Nat
    BY TypeParts DEF FpTypes, Version
  <2>4. QED
    BY <2>1, <2>2, <2>3
<1>1. CASE Rotate \/ UNCHANGED vars
  <2>1. UNCHANGED <<phase, task, inMemory, lastFingerprint, memFingerprint, misrecorded>>
    BY <1>1 DEF Rotate, vars, fpVars, pastVars
  <2>2. QED
    BY <1>0, <2>1 DEF MemoryInv
<1>2. CASE Crash
  <2>1. /\ UNCHANGED <<version, inMemory, lastFingerprint, memFingerprint, misrecorded>>
        /\ \A t \in Tasks : task'[t].at = "idle"
    BY <1>2, IdleType DEF Crash, fpVars
  <2>2. QED
    BY <2>1 DEF MemoryInv, Holding
<1>3. CASE Restart
  <2>1. /\ UNCHANGED <<version, task, inMemory, lastFingerprint>> /\ phase' = "starting"
        /\ memFingerprint' = IF inMemory THEN None ELSE lastFingerprint
        /\ misrecorded' = FALSE
        /\ \A t \in Tasks : task[t].at = "idle"
    BY <1>3 DEF Restart, MemoryInv, worldVars
  <2>2. QED
    BY <2>1 DEF MemoryInv, Holding
<1>4. ASSUME NEW t \in Tasks, Asking(t) \/ Writing(t) PROVE MemoryInv'
  <2>1. phase' # "down" \/ (phase' = phase /\ task[t].at # "idle")
    BY <1>4 DEF Asking, Writing, CertificateEvent, InitialSync, Poll, Begin, Runs, Metadata,
         Decrypt, RequestFails, WriteFails, Verified, Backup, Write, Reload, ReloadFails,
         Restore, RolledBack, Record, RecordFails, Acked
  <2>2. phase' # "down"
    BY <2>1 DEF MemoryInv
  <2>3. version' = version /\ inMemory' = inMemory
    BY <1>4, AskingKeeps DEF Writing, Backup, Write, Reload, ReloadFails, Restore, RolledBack,
         Record, RecordFails, Acked, worldVars, fpVars
  <2>4. /\ lastFingerprint' # lastFingerprint => Record(t)
        /\ memFingerprint' # memFingerprint => inMemory /\ (Record(t) \/ RecordFails(t))
        /\ misrecorded' # misrecorded => Record(t) \/ (inMemory /\ RecordFails(t))
    <3>1. CASE Asking(t)
      BY <3>1, AskingKeeps
    <3>2. CASE Record(t)
      <4>1. memFingerprint' # memFingerprint => inMemory
        BY <3>2 DEF Record, Remember
      <4>2. QED
        BY <3>2, <4>1
    <3>3. CASE RecordFails(t)
      BY <3>3, TypeParts DEF RecordFails, Remember, PastTypes, FpTypes
    <3>4. CASE Backup(t) \/ Write(t) \/ Reload(t) \/ ReloadFails(t) \/ Restore(t) \/ RolledBack(t)
               \/ Acked(t)
      BY <3>4 DEF Backup, Write, Reload, ReloadFails, Restore, RolledBack, Acked, fpVars, pastVars
    <3>5. QED
      BY <1>4, <3>1, <3>2, <3>3, <3>4 DEF Writing
  <2>5. lastFingerprint' # None => lastFingerprint' <= version'
    <3>1. CASE Record(t)
      <4>1. task[t].meta <= version
        BY <3>1 DEF DeployInv, FetchInv, Record, Holding
      <4>2. QED
        BY <2>3, <3>1, <4>1 DEF Record, Recorded
    <3>2. CASE ~Record(t)
      BY <2>3, <2>4, <3>2 DEF MemoryInv
    <3>3. QED
      BY <3>1, <3>2
  <2>6. inMemory' /\ ~misrecorded' => memFingerprint' \in {lastFingerprint', None}
    <3>1. CASE Record(t)
      BY <2>3, <3>1 DEF Record, Remember
    <3>2. CASE RecordFails(t)
      <4>1. misrecorded' = (misrecorded \/ inMemory)
        BY <3>2 DEF RecordFails
      <4>2. inMemory => misrecorded'
        BY <4>1
      <4>3. QED
        BY <2>3, <4>2
    <3>3. CASE ~Record(t) /\ ~RecordFails(t)
      BY <2>3, <2>4, <3>3 DEF MemoryInv
    <3>4. QED
      BY <3>1, <3>2, <3>3
  <2>7. ASSUME ~inMemory, memFingerprint # None, NEW u \in Tasks,
               task'[u].at \in {"decrypted"} \cup Holding
        PROVE  task'[u].data >= memFingerprint
    <3>1. OthersKept(t)
      BY <1>4, AskingApart, ActingAlone DEF DeployInv, Acting
    <3>2. CASE u # t
      BY <2>7, <3>1, <3>2 DEF OthersKept, MemoryInv
    <3>3. CASE Decrypt(t) /\ u = t
      BY <1>0, <2>7, <3>3, DecryptStep DEF MemoryInv
    <3>4. CASE ~Decrypt(t) /\ u = t
      <4>1. /\ task[t].at \in {"decrypted"} \cup Holding
            /\ task'[t].data = task[t].data
        BY <1>4, <2>7, <3>4, BeginStep, MetadataStep, EndStep, PlaceStep, BackupStep, WriteStep,
           RestoreStep, RecordStep
        DEF Asking, Writing, CertificateEvent, InitialSync, Poll, RequestFails, WriteFails,
            Verified, AfterFailedWrite, Backup, Write, Restore, Reload, ReloadFails, RolledBack,
            RecordFails, Acked, Holding
      <4>2. QED
        BY <2>7, <3>4, <4>1 DEF MemoryInv
    <3>5. QED
      BY <3>2, <3>3, <3>4
  <2>8. ~inMemory' /\ memFingerprint' # None =>
          /\ memFingerprint' <= version'
          /\ \A u \in Tasks : task'[u].at \in {"decrypted"} \cup Holding =>
               task'[u].data >= memFingerprint'
    BY <2>3, <2>4, <2>7 DEF MemoryInv
  <2>9. ~inMemory' => ~misrecorded'
    <3>1. CASE Record(t)
      BY <3>1 DEF Record
    <3>2. CASE ~Record(t)
      BY <2>3, <2>4, <3>2, TypeParts DEF MemoryInv, PastTypes
    <3>3. QED
      BY <3>1, <3>2
  <2>10. QED
    BY <2>2, <2>5, <2>6, <2>8, <2>9 DEF MemoryInv
<1>5. QED
  BY <1>1, <1>2, <1>3, <1>4, StepCases

LEMMA BackedStep ==
  ASSUME TypeOK, DeployInv, BackedInv, [Next]_vars
  PROVE  BackedInv'
<1>0. MemoryInv'
  BY MemoryStep DEF BackedInv
<1>1. CASE Rotate \/ Restart \/ UNCHANGED vars
  <2>1. UNCHANGED <<task, disk, overtaken>>
    BY <1>1 DEF Rotate, Restart, vars, fileVars, pastVars
  <2>2. Fingerprints' \subseteq Fingerprints \cup {None}
    BY <1>1 DEF Rotate, Restart, vars, fpVars, pastVars, Fingerprints
  <2>3. \A v : Secured(v) => Secured(v)'
    BY <2>1 DEF Secured, Backed, Ahead
  <2>4. Secured(None)'
    BY DEF Secured, Backed, Ahead
  <2>5. QED
    BY <1>0, <2>2, <2>3, <2>4 DEF BackedInv
<1>2. CASE Crash
  <2>1. UNCHANGED <<disk, overtaken, lastFingerprint, memFingerprint, misrecorded>>
        /\ \A t \in Tasks : task'[t].at \notin Holding
    BY <1>2, IdleType DEF Crash, fileVars, fpVars, Holding
  <2>2. \A v : Secured(v) => Secured(v)'
    BY <2>1 DEF Secured, Backed
  <2>3. QED
    BY <1>0, <2>1, <2>2 DEF BackedInv, Fingerprints
<1>3. ASSUME NEW t \in Tasks, Acting(t) PROVE BackedInv'
  <2>1. \A u \in Tasks \ {t} : task'[u].at \notin Holding
    BY <1>3, ActingAlone DEF DeployInv
  <2>2. ASSUME NEW v \in Fingerprints, Backup(t), v # None, ~overtaken'
        PROVE  task[t].data >= v
    <3>1. task[t].data \in Int /\ v \in Int
      BY <2>2, Fields, FingerprintTypes DEF Version
    <3>2. CASE v = lastFingerprint
      <4>1. ~(task[t].data < lastFingerprint)
        BY <2>2, <3>2 DEF Backup
      <4>2. QED
        BY <3>1, <3>2, <4>1
    <3>3. CASE v # lastFingerprint
      <4>1. v = memFingerprint /\ ~inMemory
        BY <2>2, <3>3 DEF Fingerprints, BackedInv, MemoryInv
      <4>2. QED
        BY <2>2, <4>1 DEF Backup, BackedInv, MemoryInv
    <3>4. QED
      BY <3>2, <3>3
  <2>3. \A v \in Fingerprints : Secured(v)'
    <3> SUFFICES ASSUME NEW v \in Fingerprints PROVE Secured(v)'
      OBVIOUS
    <3>1. v \in Version \cup {None} /\ Secured(v)
      BY FingerprintTypes DEF BackedInv
    <3>2. Backed(disk, v)' /\ (task'[t].at \in Holding => Ahead(t, v)')
      BY <1>3, <2>2, <3>1, ActingBacked
    <3>3. QED
      BY <2>1, <3>2 DEF Secured
  <2>4. Fingerprints' \subseteq Fingerprints \cup (IF Record(t) THEN {task[t].meta} ELSE {})
    <3>1. CASE Record(t)
      <4>1. ~inMemory => ~misrecorded
        BY DEF BackedInv, MemoryInv
      <4>2. QED
        BY <3>1, <4>1 DEF Record, Recorded, Remember, Fingerprints
    <3>2. CASE RecordFails(t)
      BY <3>2, TypeParts DEF RecordFails, Remember, Fingerprints, PastTypes
    <3>3. CASE ~Record(t) /\ ~RecordFails(t)
      <4>1. UNCHANGED <<lastFingerprint, memFingerprint, misrecorded>>
        BY <1>3, <3>3 DEF Acting, Writing, Backup, Write, WriteFails, Verified, Reload, ReloadFails,
                          Restore, RolledBack, Acked, fpVars, pastVars
      <4>2. QED
        BY <4>1 DEF Fingerprints
    <3>4. QED
      BY <3>1, <3>2, <3>3
  <2>5. \A v : Record(t) /\ v = task[t].meta => Secured(v)'
    BY RecordBacks DEF BackedInv
  <2>6. \A v \in Fingerprints' : Secured(v)'
    <3> SUFFICES ASSUME NEW v \in Fingerprints' PROVE Secured(v)'
      OBVIOUS
    <3>1. v \in Fingerprints \/ (Record(t) /\ v = task[t].meta)
      BY <2>4
    <3>2. CASE v \in Fingerprints
      BY <2>3, <3>2
    <3>3. CASE Record(t) /\ v = task[t].meta
      BY <2>5, <3>3
    <3>4. QED
      BY <3>1, <3>2, <3>3
  <2>7. QED
    BY <1>0, <2>6 DEF BackedInv
<1>4. ASSUME NEW t \in Tasks, Asking(t), ~Acting(t) PROVE BackedInv'
  <2>1. /\ OthersKept(t) /\ task'[t].at \notin Holding
        /\ UNCHANGED <<disk, lastFingerprint, memFingerprint, misrecorded, overtaken>>
    BY <1>4, AskingApart
  <2>2. \A v : Secured(v) => Secured(v)'
    BY <2>1 DEF OthersKept, Secured, Backed, Ahead
  <2>3. QED
    BY <1>0, <2>1, <2>2 DEF BackedInv, Fingerprints
<1>5. QED
  BY <1>1, <1>2, <1>3, <1>4, ActCases

(* Neither the recorded fingerprint nor the one the polls go by is ahead of the files,
   whatever fails or crashes between writing and recording; what excuses it is an older
   answer written over a newer one, and for the one in memory a save that failed. *)
THEOREM FingerprintHolds == Spec => []FingerprintIsBacked
<1>1. Init => BackedInv
  <2> SUFFICES ASSUME Init PROVE BackedInv
    OBVIOUS
  <2>1. Fingerprints = {None}
    BY DEF Init, Fingerprints
  <2>2. MemoryInv
    BY IdleType DEF Init, MemoryInv
  <2>3. QED
    BY <2>1, <2>2 DEF BackedInv, Secured, Backed, Ahead
<1>2. TypeOK /\ DeployInv /\ BackedInv /\ [Next]_vars => BackedInv'
  BY BackedStep
<1>3. BackedInv => FingerprintIsBacked
  BY BackedIs DEF BackedInv, Secured
<1>4. QED
  BY <1>1, <1>2, <1>3, DeployAlways, PTL DEF Spec
-----------------------------------------------------------------------------
(* What a rollback brings back.  While no copy has failed, every file a deployment found
   is backed up until it is written, and then it still is or has its content again. *)
Kept(t) ==
  ~torn => \A f \in Files : task[t].found[f] # None =>
    /\ task[t].at \in {"write", "reload", "record"} => f \in task[t].backups
    /\ task[t].at \in {"restore", "rollback"} =>
         f \in task[t].backups \/ disk[f] = task[t].found[f]

KeptInv == \A t \in Tasks : task[t].at \in Holding => Kept(t)

LEMMA ActingKeeps ==
  ASSUME TypeOK, DeployInv, KeptInv, NEW t \in Tasks, Acting(t), task'[t].at \in Holding
  PROVE  Kept(t)'
<1>1. CASE Backup(t)
  <2>1. /\ task'[t].at = "write" /\ task'[t].found = disk
        /\ torn' = (torn \/ task'[t].backups # {f \in Files : disk[f] # None})
    BY <1>1, BackupStep
  <2>2. QED
    BY <2>1 DEF Kept
<1>2. CASE Write(t)
  <2>1. /\ task[t].at = "write" /\ task'[t].at = "write" /\ torn' = torn
        /\ task'[t].backups = task[t].backups /\ task'[t].found = task[t].found
    BY <1>2, WriteStep DEF Write, pastVars
  <2>2. QED
    BY <2>1 DEF KeptInv, Kept, Holding
<1>3. CASE Verified(t) \/ WriteFails(t) \/ Reload(t) \/ ReloadFails(t) \/ RecordFails(t)
  <2>1. /\ task[t].at \in {"write", "reload", "record"}
        /\ task'[t].at \in {"reload", "record", "restore", "rollback"}
        /\ task'[t].backups = task[t].backups /\ task'[t].found = task[t].found
        /\ torn' = torn
    BY <1>3, PlaceStep DEF Verified, WriteFails, Reload, ReloadFails, RecordFails, AfterFailedWrite, Holding,
                           pastVars
  <2>2. Kept(t)
    BY <2>1 DEF KeptInv, Holding
  <2>3. QED
    BY <2>1, <2>2 DEF Kept
<1>4. CASE Restore(t)
  <2>1. /\ task[t].at \in {"restore", "rollback"} /\ task'[t].at = task[t].at
        /\ task'[t].found = task[t].found
    BY <1>4, RestoreStep DEF Restore
  <2>2. PICK f \in task[t].backups :
          /\ task'[t].backups = task[t].backups \ {f}
          /\ \/ disk' = [disk EXCEPT ![f] = bak[f]] /\ torn' = torn
             \/ torn' = TRUE
    BY <1>4, RestoreStep
  <2>3. Kept(t) /\ bak[f] = task[t].found[f]
    BY <2>1, <2>2 DEF KeptInv, DeployInv, FilesInv, SafeCopies, Holding
  <2>4. DOMAIN disk = Files
    BY TypeParts DEF DiskTypes, Content
  <2>5. ASSUME ~torn', NEW g \in Files, task[t].found[g] # None
        PROVE  g \in task'[t].backups \/ disk'[g] = task[t].found[g]
    <3>1. disk' = [disk EXCEPT ![f] = bak[f]] /\ ~torn
      BY <2>2, <2>5
    <3>2. g \in task[t].backups \/ disk[g] = task[t].found[g]
      BY <2>1, <2>3, <2>5, <3>1 DEF Kept
    <3>3. CASE g = f
      BY <2>3, <2>4, <3>1, <3>3
    <3>4. CASE g # f
      BY <2>2, <2>4, <3>1, <3>2, <3>4
    <3>5. QED
      BY <3>3, <3>4
  <2>6. QED
    BY <2>1, <2>5 DEF Kept
<1>5. CASE RolledBack(t) \/ Record(t) \/ Acked(t)
  BY <1>5, EndStep, RecordStep DEF RolledBack, Acked, Holding
<1>6. QED
  BY <1>1, <1>2, <1>3, <1>4, <1>5 DEF Acting, Writing

LEMMA KeptStep ==
  ASSUME TypeOK, DeployInv, KeptInv, [Next]_vars
  PROVE  KeptInv'
<1>1. CASE Rotate \/ Restart \/ UNCHANGED vars
  <2>1. UNCHANGED <<task, disk, torn>>
    BY <1>1 DEF Rotate, Restart, vars, fileVars, pastVars
  <2>2. QED
    BY <2>1 DEF KeptInv, Kept
<1>2. CASE Crash
  BY <1>2, IdleType DEF Crash, KeptInv, Holding
<1>3. ASSUME NEW t \in Tasks, Acting(t) PROVE KeptInv'
  <2>1. \A u \in Tasks \ {t} : task'[u].at \notin Holding
    BY <1>3, ActingAlone DEF DeployInv
  <2>2. QED
    BY <1>3, <2>1, ActingKeeps DEF KeptInv
<1>4. ASSUME NEW t \in Tasks, Asking(t), ~Acting(t) PROVE KeptInv'
  <2>1. OthersKept(t) /\ task'[t].at \notin Holding /\ disk' = disk /\ torn' = torn
    BY <1>4, AskingApart
  <2>2. QED
    BY <2>1 DEF OthersKept, KeptInv, Kept
<1>5. QED
  BY <1>1, <1>2, <1>3, <1>4, ActCases

(* A deployment that gives up brings back every file it found, in the version it found
   it, for any list of outputs and whatever happens to the vault and to the other
   deployments meanwhile; only a copy that fails excuses it. *)
THEOREM RollbackHolds == Spec => RollbackRestores
<1> DEFINE Restored == \A t \in Tasks, f \in Files :
             RolledBack(t) /\ ~torn /\ task[t].found[f] # None => disk'[f] = task[t].found[f]
<1>1. Init => KeptInv
  BY IdleType DEF Init, KeptInv, Holding
<1>2. TypeOK /\ DeployInv /\ KeptInv /\ [Next]_vars => KeptInv'
  BY KeptStep
<1>3. KeptInv => Restored
  BY DEF KeptInv, Kept, RolledBack, Holding, fileVars
<1>4. KeptInv => [Restored]_vars
  BY <1>3
<1>5. QED
  BY <1>1, <1>2, <1>4, DeployAlways, PTL DEF Spec, RollbackRestores

-----------------------------------------------------------------------------
(***************************************************************************)
(* The certificate of the server itself, for every number of certificates  *)
(* the vault issues, of failed answers and writes, and of restarts.        *)
(***************************************************************************)
(* A check that has an answer goes on with a certificate that was issued and is not older than
   what the configuration or the vault has for installed; once it has written a file, the
   file has it. *)
Handling == {"answer", "cert", "between", "key", "written", "activate"}
InHand ==
  check.pc \in Handling =>
    /\ check.v \in 1..issued /\ saved <= check.v /\ active <= check.v
    /\ check.pc \in {"between", "key", "written", "activate"} => cert = check.v
    /\ check.pc \in {"written", "activate"} => key = check.v
    /\ check.pc = "activate" => saved = check.v /\ exp \in {0, check.v}

(* Certificates issued and faults to come; the fault of a stop counts until the exit. *)
Spent == issued + (MaxFaults - faults) + (IF daemon = "stopping" THEN 1 ELSE 0)

(* The newest certificate is not due, and is in the hands of a check or installed: nothing
   but a fault or its age makes a check ask for another. *)
Newest ==
  /\ due < issued
  /\ \/ check.pc \in Handling /\ check.v = issued
     \/ check.pc \in {"none", "look", "info"} /\ cert = issued /\ saved = issued /\ exp \in {0, issued}

(* The bounds leave a certificate for every check that asks for one. *)
Budget == Spent <= MaxCert /\ (Spent = MaxCert => Newest)

(* TlsTypeOK but the type of the timer. *)
TlsTypes ==
  /\ issued \in 0..MaxCert /\ active \in 0..issued /\ due \in 0..issued
  /\ {cert, key} \subseteq (0..issued) \union {Empty} /\ {saved, exp} \subseteq 0..issued
  /\ daemon \in Phases /\ check \in [pc : Steps, v : 0..MaxCert, by : {"start", "timer"}]
  /\ server \in (0..issued) \union {NoServer} /\ changed \subseteq {"cert", "key"}
  /\ notes \subseteq {"first", "unacknowledged"} /\ faults \in 0..MaxFaults
  /\ check.by = "start" => daemon = "starting"
  /\ timer => check = NoCheck /\ daemon \in {"starting", "up"}
  /\ check.pc \in {"request", "renew"} => issued < MaxCert

TimerType == timer \in BOOLEAN

Rest == daemon = "down" => check = NoCheck

TlsInv == TlsTypes /\ InHand /\ Budget /\ Rest

LEMMA TlsInitial == TlsInit => TlsInv /\ InstalledFirst
BY TlsAssumption
   DEF TlsInit, TlsInv, TlsTypes, InHand, Budget, Spent, Newest, Rest, NoCheck, Steps, Phases,
       NoServer, Empty, Handling, InstalledFirst, Certs

(* scheduleNextCheck(): the check has ended, and the timer runs unless the manager stops. *)
LEMMA Scheduled ==
  Schedule => check' = NoCheck /\ check'.pc = "none" /\ (timer' => daemon # "stopping")
<1>1. Schedule => check' = NoCheck /\ (timer' => daemon # "stopping")
  BY DEF Schedule
<1>2. QED
  BY <1>1 DEF NoCheck

LEMMA NoCheckType == NoCheck.pc = "none"
BY DEF NoCheck

LEMMA AgesKeeps == TlsInv /\ Ages => TlsInv'
BY TlsAssumption
   DEF TlsInv, TlsTypes, InHand, Budget, Spent, Newest, Rest, NoCheck, Steps, Phases, NoServer,
       Empty, Handling, Certs, vault, files, https, Ages

LEMMA TimerFiresKeeps == TlsInv /\ TimerFires => TlsInv'
BY TlsAssumption
   DEF TlsInv, TlsTypes, InHand, Budget, Spent, Newest, Rest, NoCheck, Steps, Phases, NoServer,
       Empty, Handling, Certs, vault, files, https, TimerFires, Go

LEMMA StartKeeps == TlsInv /\ Start => TlsInv'
BY TlsAssumption
   DEF TlsInv, TlsTypes, InHand, Budget, Spent, Newest, Rest, NoCheck, Steps, Phases, NoServer,
       Empty, Handling, Certs, vault, files, https, Start, Go

LEMMA LookKeeps == TlsInv /\ Look => TlsInv'
<1> SUFFICES ASSUME TlsInv, Look PROVE TlsInv'
  OBVIOUS
<1>1. UNCHANGED <<issued, active, due, cert, key, saved, daemon, exp, server, changed, notes, faults>>
      /\ check.pc = "look"
  BY DEF Look, At, vault, files, https
<1>2. \/ check' = [check EXCEPT !.pc = "request"] /\ UNCHANGED timer /\ cert \notin Certs
      \/ check' = [check EXCEPT !.pc = "renew"] /\ UNCHANGED timer /\ exp # 0 /\ exp <= due
      \/ check' = [check EXCEPT !.pc = "info"] /\ UNCHANGED timer
      \/ check' = NoCheck /\ check'.pc = "none" /\ (timer' => daemon # "stopping")
  BY Scheduled DEF Look, Go, Decide
<1>3. Spent' = Spent
  BY <1>1 DEF Spent
<1>4. check'.pc \in {"request", "renew"} => Spent < MaxCert /\ issued < MaxCert
  <2>1. Newest => cert \in Certs /\ exp \in {0, issued} /\ due < issued
    BY <1>1 DEF Newest, TlsInv, TlsTypes, Handling, Certs
  <2>2. check'.pc \in {"request", "renew"} => ~Newest
    BY <1>2, <2>1, NoCheckType DEF TlsInv, TlsTypes
  <2>3. Spent >= issued /\ Spent \in Nat
    BY TlsAssumption DEF Spent, TlsInv, TlsTypes
  <2>4. QED
    BY <2>2, <2>3, TlsAssumption DEF TlsInv, Budget, TlsTypes
<1>5. check' \in [pc : {"request", "renew", "info", "none"}, v : 0..MaxCert, by : {"start", "timer"}]
      /\ check'.by \in {check.by, "timer"}
  BY <1>2, TlsAssumption DEF TlsInv, TlsTypes, NoCheck
<1>6. TlsTypes'
  <2>1. ~timer /\ daemon \in Phases \ {"down"}
    BY <1>1, NoCheckType DEF TlsInv, TlsTypes, Rest
  <2>2. timer' => check' = NoCheck /\ daemon' \in {"starting", "up"}
    BY <1>1, <1>2, <2>1 DEF Phases
  <2>3. QED
    BY <1>1, <1>4, <1>5, <2>2 DEF TlsInv, TlsTypes, Steps
<1>7. InHand' /\ Rest'
  BY <1>1, <1>2, <1>5 DEF InHand, Rest, TlsInv, Handling, NoCheck, TlsTypes
<1>8. Budget'
  <2>1. Newest => Newest' \/ check'.pc \in {"request", "renew"}
    BY <1>1, <1>5 DEF Newest, Handling
  <2>2. QED
    BY <1>3, <1>4, <2>1, TlsAssumption DEF Budget, TlsInv, Spent, TlsTypes
<1>9. QED
  BY <1>6, <1>7, <1>8 DEF TlsInv

LEMMA InfoKeeps == TlsInv /\ Info => TlsInv'
<1> SUFFICES ASSUME TlsInv, Info PROVE TlsInv'
  OBVIOUS
<1>1. UNCHANGED daemon /\ Rest'
  BY Scheduled DEF TlsInv, Rest, NoCheck, vault, files, https, Info, At, Fault, Decide, Go
<1>2. Budget'
  BY TlsAssumption, Scheduled, <1>1
     DEF TlsInv, TlsTypes, Budget, Spent, Newest, InHand, Handling, NoCheck, Certs, Empty, Phases, Steps, vault, files, https, Info, At, Fault, Decide, Go
<1>3. InHand'
  BY Scheduled DEF TlsInv, TlsTypes, InHand, Handling, NoCheck, vault, files, https, Info, At, Fault, Decide, Go
<1>4. TlsTypes'
  BY TlsAssumption, Scheduled
     DEF TlsInv, TlsTypes, Budget, Spent, Newest, InHand, Rest, Handling, NoCheck, Certs, Empty, NoServer, Phases, Steps, vault, files, https, Info, At, Fault, Decide, Go
<1>5. QED
  BY <1>1, <1>2, <1>3, <1>4 DEF TlsInv

LEMMA IssueKeeps == TlsInv /\ Issue => TlsInv'
BY TlsAssumption
   DEF TlsInv, TlsTypes, InHand, Budget, Spent, Newest, Rest, NoCheck, Steps, Phases, NoServer,
       Empty, Handling, Certs, vault, files, https, Issue, Fault

LEMMA IssueFailsKeeps == TlsInv /\ IssueFails => TlsInv'
<1> SUFFICES ASSUME TlsInv, IssueFails PROVE TlsInv'
  OBVIOUS
<1>1. UNCHANGED daemon /\ Rest'
  BY Scheduled DEF TlsInv, Rest, NoCheck, vault, files, https, IssueFails, Fault
<1>2. Budget'
  <2>1. Spent < MaxCert
    BY TlsAssumption DEF IssueFails, TlsInv, Budget, Newest, Handling, Spent, TlsTypes
  <2>2. issued' \in {issued, issued + 1} /\ faults' = faults + 1
    BY DEF IssueFails, Fault
  <2>3. Spent' = Spent - 1 \/ Spent' = Spent
    <3> DEFINE stop == IF daemon = "stopping" THEN 1 ELSE 0
    <3>1. stop \in Nat /\ stop' = stop /\ MaxFaults \in Nat /\ issued \in Nat /\ faults \in Nat
      BY <1>1, TlsAssumption DEF TlsInv, TlsTypes
    <3>2. Spent = issued + (MaxFaults - faults) + stop
          /\ Spent' = issued' + (MaxFaults - faults') + stop'
      BY DEF Spent
    <3> HIDE DEF stop
    <3>3. CASE issued' = issued
      BY <2>2, <3>1, <3>2, <3>3
    <3>4. CASE issued' = issued + 1
      BY <2>2, <3>1, <3>2, <3>4
    <3>5. QED
      BY <2>2, <3>3, <3>4
  <2>4. Spent \in Nat
    BY TlsAssumption DEF Spent, TlsInv, TlsTypes
  <2>5. QED
    BY <2>1, <2>3, <2>4, TlsAssumption DEF Budget
<1>3. InHand'
  BY Scheduled DEF TlsInv, TlsTypes, InHand, Handling, NoCheck, vault, files, https, IssueFails, Fault
<1>4. TlsTypes'
  BY TlsAssumption, Scheduled
     DEF TlsInv, TlsTypes, Budget, Spent, Newest, InHand, Rest, Handling, NoCheck, Certs, Empty, NoServer, Phases, Steps, vault, files, https, IssueFails, Fault
<1>5. QED
  BY <1>1, <1>2, <1>3, <1>4 DEF TlsInv

LEMMA OpenCertKeeps == TlsInv /\ OpenCert => TlsInv'
BY TlsAssumption
   DEF TlsInv, TlsTypes, InHand, Budget, Spent, Newest, Rest, NoCheck, Steps, Phases, NoServer,
       Empty, Handling, Certs, vault, files, https, OpenCert, At, Go, Touched

LEMMA WriteCertKeeps == TlsInv /\ WriteCert => TlsInv'
BY TlsAssumption
   DEF TlsInv, TlsTypes, InHand, Budget, Spent, Newest, Rest, NoCheck, Steps, Phases, NoServer,
       Empty, Handling, Certs, vault, files, https, WriteCert, At, Go, Touched

LEMMA OpenKeyKeeps == TlsInv /\ OpenKey => TlsInv'
BY TlsAssumption
   DEF TlsInv, TlsTypes, InHand, Budget, Spent, Newest, Rest, NoCheck, Steps, Phases, NoServer,
       Empty, Handling, Certs, vault, files, https, OpenKey, At, Go, Touched

LEMMA WriteKeyKeeps == TlsInv /\ WriteKey => TlsInv'
BY TlsAssumption
   DEF TlsInv, TlsTypes, InHand, Budget, Spent, Newest, Rest, NoCheck, Steps, Phases, NoServer,
       Empty, Handling, Certs, vault, files, https, WriteKey, At, Go, Touched

LEMMA FilesFailKeeps == TlsInv /\ FilesFail => TlsInv'
<1> SUFFICES ASSUME TlsInv, FilesFail PROVE TlsInv'
  OBVIOUS
<1>1. UNCHANGED daemon /\ Rest'
  BY Scheduled DEF TlsInv, Rest, NoCheck, vault, files, https, FilesFail, Fault, Cut
<1>2. Budget'
  BY TlsAssumption, Scheduled, <1>1
     DEF TlsInv, TlsTypes, Budget, Spent, Newest, InHand, Handling, NoCheck, Certs, Empty, Phases, Steps, vault, files, https, FilesFail, Fault, Cut
<1>3. InHand'
  BY Scheduled DEF TlsInv, TlsTypes, InHand, Handling, NoCheck, vault, files, https, FilesFail, Fault, Cut
<1>4. TlsTypes'
  BY TlsAssumption, Scheduled
     DEF TlsInv, TlsTypes, Budget, Spent, Newest, InHand, Rest, Handling, NoCheck, Certs, Empty, NoServer, Phases, Steps, vault, files, https, FilesFail, Fault, Cut
<1>5. QED
  BY <1>1, <1>2, <1>3, <1>4 DEF TlsInv

LEMMA InstalledKeeps == TlsInv /\ Installed => TlsInv'
<1> SUFFICES ASSUME TlsInv, Installed PROVE TlsInv'
  OBVIOUS
<1>1. UNCHANGED daemon /\ Rest'
  BY Scheduled DEF TlsInv, Rest, NoCheck, vault, files, https, Installed, At, Go, Fault
<1>2. Budget'
  BY TlsAssumption, Scheduled, <1>1
     DEF TlsInv, TlsTypes, Budget, Spent, Newest, InHand, Handling, NoCheck, Certs, Empty, Phases, Steps, vault, files, https, Installed, At, Go, Fault
<1>3. InHand'
  BY Scheduled DEF TlsInv, TlsTypes, InHand, Handling, NoCheck, vault, files, https, Installed, At, Go, Fault
<1>4. TlsTypes'
  BY TlsAssumption, Scheduled
     DEF TlsInv, TlsTypes, Budget, Spent, Newest, InHand, Rest, Handling, NoCheck, Certs, Empty, NoServer, Phases, Steps, vault, files, https, Installed, At, Go, Fault
<1>5. QED
  BY <1>1, <1>2, <1>3, <1>4 DEF TlsInv

LEMMA ActivateKeeps == TlsInv /\ Activate => TlsInv'
<1> SUFFICES ASSUME TlsInv, Activate PROVE TlsInv'
  OBVIOUS
<1>1. UNCHANGED daemon /\ Rest'
  BY Scheduled DEF TlsInv, Rest, NoCheck, vault, files, https, Activate, At, ReloadContext, Context, Broken
<1>2. Budget'
  BY TlsAssumption, Scheduled, <1>1
     DEF TlsInv, TlsTypes, Budget, Spent, Newest, InHand, Handling, NoCheck, Certs, Empty, Phases, Steps, vault, files, https, Activate, At, ReloadContext, Context, Broken
<1>3. InHand'
  BY Scheduled DEF TlsInv, TlsTypes, InHand, Handling, NoCheck, vault, files, https, Activate, At, ReloadContext, Context, Broken
<1>4. TlsTypes'
  BY TlsAssumption, Scheduled
     DEF TlsInv, TlsTypes, Budget, Spent, Newest, InHand, Rest, Handling, NoCheck, Certs, Empty, NoServer, Phases, Steps, vault, files, https, Activate, At, ReloadContext, Context, Broken
<1>5. QED
  BY <1>1, <1>2, <1>3, <1>4 DEF TlsInv

LEMMA ActivateFailsKeeps == TlsInv /\ ActivateFails => TlsInv'
<1> SUFFICES ASSUME TlsInv, ActivateFails PROVE TlsInv'
  OBVIOUS
<1>1. UNCHANGED daemon /\ Rest'
  BY Scheduled DEF TlsInv, Rest, NoCheck, vault, files, https, ActivateFails, Fault, At
<1>2. Budget'
  BY TlsAssumption, Scheduled, <1>1
     DEF TlsInv, TlsTypes, Budget, Spent, Newest, InHand, Handling, NoCheck, Certs, Empty, Phases, Steps, vault, files, https, ActivateFails, Fault, At
<1>3. InHand'
  BY Scheduled DEF TlsInv, TlsTypes, InHand, Handling, NoCheck, vault, files, https, ActivateFails, Fault, At
<1>4. TlsTypes'
  BY TlsAssumption, Scheduled
     DEF TlsInv, TlsTypes, Budget, Spent, Newest, InHand, Rest, Handling, NoCheck, Certs, Empty, NoServer, Phases, Steps, vault, files, https, ActivateFails, Fault, At
<1>5. QED
  BY <1>1, <1>2, <1>3, <1>4 DEF TlsInv

LEMMA ServerStartsKeeps == TlsInv /\ ServerStarts => TlsInv'
BY TlsAssumption
   DEF TlsInv, TlsTypes, InHand, Budget, Spent, Newest, Rest, NoCheck, Steps, Phases, NoServer,
       Empty, Handling, Certs, vault, files, https, ServerStarts, Loads, Context, Broken, Fault

LEMMA StopKeeps == TlsInv /\ Stop => TlsInv'
BY TlsAssumption
   DEF TlsInv, TlsTypes, InHand, Budget, Spent, Newest, Rest, NoCheck, Steps, Phases, NoServer,
       Empty, Handling, Certs, vault, files, https, Stop, Fault

LEMMA ExitKeeps == TlsInv /\ Exit => TlsInv'
BY TlsAssumption
   DEF TlsInv, TlsTypes, InHand, Budget, Spent, Newest, Rest, NoCheck, Steps, Phases, NoServer,
       Empty, Handling, Certs, vault, files, https, Exit, Ends, Cut

LEMMA KilledKeeps == TlsInv /\ Killed => TlsInv'
BY TlsAssumption
   DEF TlsInv, TlsTypes, InHand, Budget, Spent, Newest, Rest, NoCheck, Steps, Phases, NoServer,
       Empty, Handling, Certs, vault, files, https, Killed, Ends, Cut, Fault

LEMMA WatchedKeeps == ASSUME TlsInv, NEW f \in {"cert", "key"}, Watched(f) PROVE TlsInv'
BY TlsAssumption
   DEF TlsInv, TlsTypes, InHand, Budget, Spent, Newest, Rest, NoCheck, Steps, Phases, NoServer,
       Empty, Handling, Certs, vault, files, https, Watched, ReloadContext, Context, Broken

LEMMA TlsStepKeeps == TlsInv /\ [TlsNext]_tlsVars => TlsInv'
<1> SUFFICES ASSUME TlsInv, [TlsNext]_tlsVars PROVE TlsInv'
  OBVIOUS
<1>1. CASE UNCHANGED tlsVars
  BY <1>1 DEF TlsInv, TlsTypes, InHand, Budget, Spent, Newest, Rest, tlsVars, vault, files, https
<1>2. CASE Ages \/ TimerFires
  BY <1>2, AgesKeeps, TimerFiresKeeps
<1>3. CASE TlsStep
  BY <1>3, StartKeeps, LookKeeps, InfoKeeps, IssueKeeps, OpenCertKeeps, WriteCertKeeps,
     OpenKeyKeeps, WriteKeyKeeps, InstalledKeeps, ActivateKeeps, ServerStartsKeeps DEF TlsStep
<1>4. CASE IssueFails \/ FilesFail \/ ActivateFails
  BY <1>4, IssueFailsKeeps, FilesFailKeeps, ActivateFailsKeeps
<1>5. CASE \E f \in {"cert", "key"} : Watched(f)
  BY <1>5, WatchedKeeps
<1>6. CASE Stop \/ Exit \/ Killed
  BY <1>6, StopKeeps, ExitKeeps, KilledKeeps
<1>7. QED
  BY <1>1, <1>2, <1>3, <1>4, <1>5, <1>6 DEF TlsNext

(* The inductive invariant of the certificate manager: what a check has in hand is not older than
   what counts as installed, and a certificate is asked for only when none will do
   (checkAndRenewIfNeeded, requestCertificate). *)
THEOREM TlsInvHolds == TlsSpec => []TlsInv
<1>1. TlsInit => TlsInv
  BY TlsInitial
<1>2. QED
  BY <1>1, TlsStepKeeps, PTL DEF TlsSpec

LEMMA TimerTyped == TimerType /\ [TlsNext]_tlsVars => TimerType'
<1> SUFFICES ASSUME TimerType, [TlsNext]_tlsVars PROVE timer' \in BOOLEAN
  BY DEF TimerType
<1> USE DEF TimerType
<1>1. Schedule => timer' \in BOOLEAN
  BY DEF Schedule
<1>2. CASE TlsStep
  <2>1. Info => timer' \in BOOLEAN
    BY <1>1 DEF Info, Decide
  <2>2. Look => timer' \in BOOLEAN
    BY <1>1 DEF Look, Decide
  <2>3. Issue \/ Installed \/ Activate \/ ServerStarts => timer' \in BOOLEAN
    BY <1>1 DEF Issue, Installed, Activate, ServerStarts
  <2>4. Start \/ OpenCert \/ WriteCert \/ OpenKey \/ WriteKey => timer' \in BOOLEAN
    BY DEF Start, OpenCert, WriteCert, OpenKey, WriteKey
  <2>5. QED
    BY <1>2, <2>1, <2>2, <2>3, <2>4 DEF TlsStep
<1>3. IssueFails \/ FilesFail \/ ActivateFails => timer' \in BOOLEAN
  BY <1>1 DEF IssueFails, FilesFail, ActivateFails
<1>4. Ages \/ TimerFires \/ Stop \/ Exit \/ Killed => timer' \in BOOLEAN
  BY DEF Ages, TimerFires, Stop, Exit, Killed, Ends
<1>5. (\E f \in {"cert", "key"} : Watched(f)) \/ UNCHANGED tlsVars => timer' \in BOOLEAN
  BY DEF Watched, tlsVars
<1>6. QED
  BY <1>2, <1>3, <1>4, <1>5 DEF TlsNext

(* The types of all variables: one check at a time, and a certificate is left in the vault for
   every check that asks for one. *)
THEOREM TlsTypesHold == TlsSpec => []TlsTypeOK
<1>1. TlsInit => TimerType
  BY DEF TlsInit, TimerType
<1>2. TlsTypes /\ TimerType => TlsTypeOK
  BY DEF TimerType, TlsTypes, TlsTypeOK
<1>3. TlsInv => TlsTypes
  BY DEF TlsInv
<1>4. QED
  BY <1>1, <1>2, <1>3, TimerTyped, TlsInvHolds, PTL DEF TlsSpec

LEMMA InstalledStep == TlsInv /\ InstalledFirst /\ [TlsNext]_tlsVars => InstalledFirst'
<1> SUFFICES ASSUME TlsInv, InstalledFirst, [TlsNext]_tlsVars PROVE InstalledFirst'
  OBVIOUS
<1> USE DEF vault, files, https
<1>1. CASE UNCHANGED <<files, saved, active>>
  BY <1>1 DEF InstalledFirst
<1>2. CASE OpenCert \/ OpenKey
  <2>1. Empty \notin Certs
    BY TlsAssumption DEF Empty, Certs
  <2>2. QED
    BY <1>2, <2>1 DEF InstalledFirst, OpenCert, OpenKey
<1>3. CASE WriteCert \/ WriteKey
  BY <1>3 DEF InstalledFirst, WriteCert, WriteKey, At, TlsInv, InHand, Handling
<1>4. CASE Installed
  BY <1>4 DEF InstalledFirst, Installed, At, TlsInv, InHand, Handling
<1>5. CASE Activate \/ ActivateFails
  BY <1>5 DEF InstalledFirst, Activate, ActivateFails, At, TlsInv, InHand, Handling
<1>6. QED
  <2>1. Ages \/ TimerFires \/ Start \/ Look \/ Info \/ Issue \/ ServerStarts
          => UNCHANGED <<files, saved, active>>
    BY DEF Ages, TimerFires, Start, Look, Info, Issue, ServerStarts
  <2>2. IssueFails \/ FilesFail \/ Stop \/ Exit \/ Killed \/ UNCHANGED tlsVars
          => UNCHANGED <<files, saved, active>>
    BY DEF IssueFails, FilesFail, Stop, Exit, Killed, Ends, tlsVars
  <2>3. (\E f \in {"cert", "key"} : Watched(f)) => UNCHANGED <<files, saved, active>>
    BY DEF Watched
  <2>4. QED
    BY <1>1, <1>2, <1>3, <1>4, <1>5, <2>1, <2>2, <2>3 DEF TlsNext, TlsStep

(* Neither the configuration nor the vault takes a certificate for installed that one of the two
   files does not have yet, at whatever step a write, a stop or a kill cuts an installation off
   (writeCertificateFiles, activateAgentTLSCertificate). *)
THEOREM InstalledFirstHolds == TlsSpec => []InstalledFirst
<1>1. TlsInit => InstalledFirst
  BY TlsInitial
<1>2. QED
  BY <1>1, InstalledStep, TlsInvHolds, PTL DEF TlsSpec

(* What counts as installed never becomes older. *)
NeverBack == [][saved' >= saved /\ active' >= active]_tlsVars

(* The expiry in the configuration and the acknowledgement in the vault never go back to an older
   certificate, although a request whose answer is lost makes the vault issue another. *)
THEOREM NothingGoesBack == TlsSpec => NeverBack
<1>1. TlsInv /\ [TlsNext]_tlsVars => [saved' >= saved /\ active' >= active]_tlsVars
  <2> SUFFICES ASSUME TlsInv, TlsNext PROVE saved' >= saved /\ active' >= active
    OBVIOUS
  <2> USE DEF vault, files, https
  <2>1. saved \in Nat /\ active \in Nat
    BY DEF TlsInv, TlsTypes
  <2>2. CASE UNCHANGED <<saved, active>>
    BY <2>1, <2>2
  <2>3. CASE Installed \/ Activate \/ ActivateFails
    BY <2>1, <2>3 DEF Installed, Activate, ActivateFails, At, TlsInv, InHand, Handling
  <2>4. QED
    <3>1. Ages \/ TimerFires \/ Start \/ Look \/ Info \/ Issue \/ ServerStarts
            => UNCHANGED <<saved, active>>
      BY DEF Ages, TimerFires, Start, Look, Info, Issue, ServerStarts
    <3>2. OpenCert \/ OpenKey \/ WriteCert \/ WriteKey => UNCHANGED <<saved, active>>
      BY DEF OpenCert, OpenKey, WriteCert, WriteKey
    <3>3. IssueFails \/ FilesFail \/ Stop \/ Exit \/ Killed => UNCHANGED <<saved, active>>
      BY DEF IssueFails, FilesFail, Stop, Exit, Killed, Ends
    <3>4. (\E f \in {"cert", "key"} : Watched(f)) => UNCHANGED <<saved, active>>
      BY DEF Watched
    <3>5. QED
      BY <2>2, <2>3, <3>1, <3>2, <3>3, <3>4 DEF TlsNext, TlsStep
<1>2. QED
  BY <1>1, TlsInvHolds, PTL DEF TlsSpec, NeverBack
=============================================================================
