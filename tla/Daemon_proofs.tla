---------------------------- MODULE Daemon_proofs ----------------------------
(***************************************************************************)
(* Proofs about the daemon and the configuration it runs with, for every   *)
(* set of events and every bound.                                          *)
(***************************************************************************)
EXTENDS Daemon, TLAPS

Configurations == [key : Nat, cfg : Nat, sv : Nat]

(* The objects have the fields of a configuration, of keys and versions that exist. *)
Records ==
  /\ {disk, boot, mem} \subseteq Configurations
  /\ disk.sv <= secV /\ boot.sv <= secV /\ mem.sv <= secV
  /\ disk.cfg <= cfgV /\ boot.cfg <= cfgV /\ mem.cfg <= cfgV
  /\ \A h \in Handlers : task[h].v <= secV

(* Nothing is under way when the process has ended. *)
Ended ==
  phase = "down" => /\ source = "disk" /\ env = 0 /\ fetches = {}
                    /\ \A h \in Handlers : task[h].pc = "none"

(* The key loadConfig() returns. *)
KeyLoaded == IF env # 0 THEN env ELSE IF source = "disk" THEN disk.key ELSE boot.key

(* The newest key, or the one before it when the newest could not be saved. *)
Recent(k) == k = keyV \/ (unsaved /\ k + 1 = keyV)

(* The file has the newest key, also between two lives of the daemon, unless it could not be
   saved; the key in use is in the environment, which goes before the auth that the objects in
   memory share, or in that auth, or in the file as it was at the start. *)
KeyShared ==
  /\ disk.key \in 1..keyV /\ (~unsaved => disk.key = keyV)
  /\ phase # "down" => boot.key \in 1..MaxKey
  /\ env # 0 => Recent(env) /\ (source # "disk" => boot.key = env)
  /\ phase # "down" /\ env = 0 => Recent(boot.key) /\ (source = "disk" => disk.key = boot.key)

(* A fetch is made with the shared auth or, with a configuration from the file, with the key
   of the start; only the latter is refused, as long as the vault accepts the key in use. *)
FetchKeys ==
  \A f \in fetches :
    /\ f.result = "refused" => f.own \/ ~Accepts(KeyLoaded)
    /\ f.result = "asked" /\ ~f.own => Accepts(f.key) \/ ~Accepts(KeyLoaded)

(* No object in memory and no answer is older than what the daemon began with, which is what
   a fetch names. *)
CfgOrder ==
  /\ phase # "down" /\ source = "disk" => disk.cfg = boot.cfg
  /\ source = "event" => boot.cfg <= mem.cfg
  /\ \A f \in fetches : /\ f.have \in {0, boot.cfg}
                        /\ f.result = "config" => boot.cfg <= f.cfg /\ f.cfg <= cfgV

(* The version of the configuration loadConfig() returns. *)
InUse == IF source = "disk" THEN disk.cfg ELSE IF source = "boot" THEN boot.cfg ELSE mem.cfg

(* Without the vault's configuration, one is on its way or there is a reason. *)
Explained == lag \cap {"missed", "failed", "overtaken", "outdated key"} # {}
Pending(f) == f.result \in {"asked", "refused"} \/ (f.result = "config" /\ f.cfg = cfgV)
Current ==
  phase # "down" => Explained \/ InUse = cfgV \/ \E f \in fetches : Pending(f)

IInv == TypeOK /\ Records /\ Ended /\ KeyShared /\ FetchKeys /\ CfgOrder /\ Current
-----------------------------------------------------------------------------
LEMMA BoundFacts ==
  /\ MaxConfig \in Nat \ {0} /\ MaxKey \in Nat \ {0} /\ MaxEvents \in Nat /\ MaxFaults \in Nat
  /\ MaxSecret \in Nat \ {0} /\ Poll \notin Events /\ Poll \in Handlers
BY HostConfigAssumption, DaemonAssumption DEF Handlers, Events, Poll

LEMMA TypeFacts ==
  ASSUME TypeOK, Records
  PROVE  /\ disk \in Configurations /\ boot \in Configurations /\ mem \in Configurations
         /\ source \in {"disk", "boot", "event"} /\ grace \in BOOLEAN /\ unsaved \in BOOLEAN
         /\ env \in Nat /\ cfgV \in Nat /\ cfgV >= 1 /\ keyV \in Nat /\ keyV >= 1 /\ secV \in Nat
         /\ \A f \in fetches : /\ f \in [key : Nat, own : BOOLEAN, have : Nat, result : Results, cfg : Nat]
                               /\ f.key >= 1
BY BoundFacts DEF TypeOK, HostTypeOK, Records

(* What loadConfig() returns. *)
LEMMA LoadedFacts ==
  ASSUME TypeOK, Records
  PROVE  /\ Loaded \in Configurations /\ Loaded.sv <= secV /\ Loaded.cfg <= cfgV
         /\ Loaded.cfg = InUse
         /\ Loaded.key = KeyLoaded /\ KeyLoaded \in Nat
<1> DEFINE c == CASE source = "disk" -> disk [] source = "boot" -> boot [] source = "event" -> mem
           k == IF source = "event" THEN boot.key ELSE c.key
<1>1. /\ c \in Configurations /\ c.sv <= secV /\ c.cfg <= cfgV
      /\ source = "disk" => c = disk
      /\ source = "boot" => c = boot
      /\ source = "event" => c = mem
  BY TypeFacts DEF Records
<1>2. Loaded = [c EXCEPT !.key = IF env # 0 THEN env ELSE k]
  BY DEF Loaded
<1>3. k \in Nat /\ k = IF source = "disk" THEN disk.key ELSE boot.key
  BY <1>1, TypeFacts DEF Configurations
<1> HIDE DEF c, k
<1>4. (IF env # 0 THEN env ELSE k) \in Nat
  BY <1>3, TypeFacts
<1>5. Loaded \in Configurations /\ Loaded.sv = c.sv /\ Loaded.cfg = c.cfg
        /\ Loaded.key = IF env # 0 THEN env ELSE k
  BY <1>1, <1>2, <1>4 DEF Configurations
<1>6. QED
  BY <1>1, <1>3, <1>4, <1>5, TypeFacts DEF InUse, KeyLoaded

LEMMA LoadedKey ==
  ASSUME TypeOK, Records, KeyShared, phase # "down"
  PROVE  Recent(KeyLoaded) /\ (source # "disk" => KeyLoaded = boot.key)
BY TypeFacts DEF KeyShared, KeyLoaded

(* Nobody but the vault and the process itself: the configuration stays. *)
Quiet ==
  /\ UNCHANGED <<config, vault, fetches, unsaved, lag>>
  /\ phase' = "down" <=> phase = "down"

(* The key is rotated, or not. *)
Turns ==
  /\ Accepts(KeyLoaded)
  /\ \/ UNCHANGED <<keyV, grace>>
     \/ keyV < MaxKey /\ ~grace /\ grace' = TRUE /\ keyV' = keyV + 1

(* A deployment saves the key it has loaded, a bind the newest. *)
SavesKey(k) ==
  \/ k = KeyLoaded /\ UNCHANGED <<keyV, grace, env, unsaved>>
  \/ k = keyV' /\ Turns /\ env' = keyV' /\ unsaved' = FALSE

(* The configuration is loaded, changed and saved: after a bind or a deployment. *)
Saves ==
  /\ \E c \in Configurations : c.cfg = Loaded.cfg /\ SavesKey(c.key) /\ c.sv <= secV /\ SaveConfig(c)
  /\ phase # "down" /\ UNCHANGED <<phase, source, cfgV, fetches, lag, secV>>

(* A bind whose key is not saved. *)
KeyUnsaved ==
  /\ Turns /\ phase # "down" /\ UNCHANGED <<phase, disk, source, mem, env, cfgV, fetches, lag, secV>>
  /\ unsaved' = (unsaved \/ keyV' # keyV)
  /\ boot' = IF source # "disk" /\ env = 0 THEN [boot EXCEPT !.key = keyV'] ELSE boot

(* Only the version in the object in memory changes. *)
KeptInMemory ==
  /\ \E v \in 0..secV : /\ boot' \in {boot, [boot EXCEPT !.sv = v]}
                        /\ mem' \in {mem, [mem EXCEPT !.sv = v]}
  /\ UNCHANGED <<phase, disk, source, env, vault, fetches, unsaved, lag, secV>>

(* The process ends; a kill may have let a last save through. *)
Ending ==
  /\ ProcessEnds /\ phase # "down" /\ UNCHANGED <<vault, unsaved, secV>>
  /\ \/ disk' = disk
     \/ \E v \in 0..secV : disk' = [Loaded EXCEPT !.sv = v]

HostStep ==
  /\ UNCHANGED secretVars
  /\ \/ Boot \/ GraceEnds \/ Push
     \/ \E f \in fetches : FetchAnswered(f) \/ FetchFails(f) \/ FetchEnds(f)

LEMMA DeployedSaves ==
  ASSUME IInv, NEW h \in Handlers, Deployed(h)
  PROVE  Saves
<1>1. task[h].v \in Nat /\ task[h].v <= secV
  BY DEF IInv, Records, TypeOK
<1>2. phase # "down"
  BY DEF IInv, Ended, Deployed, Writes
<1>3. Loaded \in Configurations /\ Loaded.key = KeyLoaded
  BY LoadedFacts DEF IInv
<1> DEFINE c == [Loaded EXCEPT !.sv = task[h].v]
<1>4. c \in Configurations /\ c.cfg = Loaded.cfg /\ c.key = KeyLoaded /\ c.sv = task[h].v
  BY <1>1, <1>3 DEF Configurations
<1>5. SaveConfig(c) /\ UNCHANGED <<phase, source, env, vault, fetches, unsaved, lag, secV>>
  BY DEF Deployed
<1> HIDE DEF c
<1>6. keyV' = keyV /\ cfgV' = cfgV /\ grace' = grace
  BY <1>5 DEF vault
<1>7. QED
  BY <1>1, <1>2, <1>4, <1>5, <1>6 DEF Saves, SavesKey

LEMMA BoundTurns ==
  ASSUME IInv, Bound
  PROVE  Turns /\ keyV' \in Nat /\ phase # "down"
<1>1. Loaded.key = KeyLoaded /\ keyV \in Nat
  BY LoadedFacts, TypeFacts DEF IInv
<1>2. QED
  BY <1>1 DEF Bound, Turns, Up

LEMMA BindSaves ==
  ASSUME IInv, Bind, UNCHANGED secretVars
  PROVE  Saves
<1>1. Loaded \in Configurations /\ Loaded.sv <= secV
  BY LoadedFacts DEF IInv
<1>2. Turns /\ keyV' \in Nat /\ phase # "down"
  BY BoundTurns DEF Bind
<1> DEFINE c == [Loaded EXCEPT !.key = keyV']
<1>3. c \in Configurations /\ c.cfg = Loaded.cfg /\ c.key = keyV' /\ c.sv <= secV
  BY <1>1, <1>2 DEF Configurations
<1>4. SaveConfig(c) /\ UNCHANGED <<phase, source, cfgV, fetches, lag, secV>>
  BY DEF Bind, secretVars
<1> HIDE DEF c
<1>5. QED
  BY <1>2, <1>3, <1>4 DEF Bind, Saves, SavesKey

LEMMA UnsavedKeeps ==
  ASSUME IInv, NEW h \in Handlers, Unsaved(h)
  PROVE  KeptInMemory
<1>1. task[h].v \in 0..secV
  BY DEF IInv, Records, TypeOK
<1>2. QED
  BY <1>1 DEF Unsaved, KeptInMemory

LEMMA CutEnds ==
  ASSUME IInv, NEW h \in Handlers, Cut(h)
  PROVE  Ending
<1>1. task[h].v \in 0..secV
  BY DEF IInv, Records, TypeOK
<1>2. QED
  BY <1>1 DEF Cut, Ends, Ending, Writes, IInv, Ended

LEMMA NextCases ==
  ASSUME IInv, [Next]_vars
  PROVE  Quiet \/ Saves \/ KeyUnsaved \/ KeptInMemory \/ Ending \/ HostStep
<1>1. CASE UNCHANGED vars \/ (BootFails /\ UNCHANGED secretVars)
  BY <1>1 DEF vars, hostVars, BootFails, Quiet, config
<1>2. CASE SecretChanges \/ SyncBegins \/ PollBegins \/ StartedUp \/ Shutdown \/ ChildStopped
  BY <1>2 DEF SecretChanges, SyncBegins, PollBegins, StartedUp, Shutdown, ChildStopped, Quiet, hostVars, config
<1>3. ASSUME NEW h \in Handlers, PluginsTold(h) \/ Answered(h) \/ SecretRefused(h) \/ SecretFails(h) \/ UpToDate(h) \/ Restarted(h)
      PROVE  Quiet
  BY <1>3 DEF PluginsTold, Answered, SecretRefused, SecretFails, UpToDate, Restarted, Quiet, hostVars, config
<1>4. CASE Exit \/ Killed
  BY <1>4 DEF Exit, Killed, Ends, Ending
<1>5. CASE BindUnsaved /\ UNCHANGED secretVars
  BY <1>5, BoundTurns DEF BindUnsaved, KeyUnsaved, secretVars
<1>6. QED
  BY <1>1, <1>2, <1>3, <1>4, <1>5, BindSaves, DeployedSaves, UnsavedKeeps, CutEnds DEF Next, HostNext, HostStep
-----------------------------------------------------------------------------
(* What a step leaves of the configuration: the facts of all the groups together. *)

LEMMA SavesFacts ==
  ASSUME IInv, Saves
  PROVE  /\ {disk', boot', mem'} \subseteq Configurations
         /\ disk'.sv <= secV /\ boot'.sv <= secV /\ mem'.sv <= secV
         /\ SavesKey(disk'.key) /\ disk'.key \in 1..MaxKey
         /\ source = "disk" => boot' = boot
         /\ source # "disk" => boot'.key = disk'.key
         /\ boot'.cfg = boot.cfg /\ mem'.cfg = mem.cfg /\ disk'.cfg = InUse /\ InUse' = InUse
<1>1. PICK c \in Configurations : c.cfg = Loaded.cfg /\ SavesKey(c.key) /\ c.sv <= secV /\ SaveConfig(c)
  BY DEF Saves
<1>2. boot \in Configurations /\ mem \in Configurations /\ disk \in Configurations
  BY DEF IInv, Records
<1>3. c.key \in 1..MaxKey
  <2>1. keyV \in 1..MaxKey /\ MaxKey \in Nat /\ phase # "down"
    BY BoundFacts DEF IInv, Saves, TypeOK, HostTypeOK
  <2>2. KeyLoaded \in 1..MaxKey
    BY <2>1, TypeFacts DEF IInv, TypeOK, HostTypeOK, KeyShared, KeyLoaded
  <2>3. QED
    BY <1>1, <2>1, <2>2 DEF SavesKey, Turns
<1>4. [boot EXCEPT !.key = c.key] \in Configurations /\ [boot EXCEPT !.key = c.key].cfg = boot.cfg
        /\ [boot EXCEPT !.key = c.key].sv = boot.sv /\ [boot EXCEPT !.key = c.key].key = c.key
  BY <1>2 DEF Configurations
<1>5. source \in {"disk", "boot", "event"} /\ source' = source
  BY TypeFacts DEF Saves, IInv
<1>6. boot.sv <= secV /\ mem.sv <= secV
  BY DEF IInv, Records
<1>7. /\ source = "disk" => boot' = boot /\ mem' = mem
      /\ source = "boot" => boot' = c /\ mem' = mem
      /\ source = "event" => boot' = [boot EXCEPT !.key = c.key] /\ mem' = c
      /\ disk' = c
  BY <1>1, <1>5 DEF SaveConfig
<1>8. Loaded.cfg = InUse
  BY LoadedFacts DEF IInv
<1>9. {disk', boot', mem'} \subseteq Configurations
  BY <1>1, <1>2, <1>4, <1>5, <1>7
<1>10. disk'.sv <= secV /\ boot'.sv <= secV /\ mem'.sv <= secV
  BY <1>1, <1>4, <1>5, <1>6, <1>7
<1>11. boot'.cfg = boot.cfg /\ mem'.cfg = mem.cfg /\ disk'.cfg = InUse
  BY <1>1, <1>4, <1>5, <1>7, <1>8 DEF InUse
<1>12. SavesKey(disk'.key)
  BY <1>1, <1>7
<1>13. QED
  BY <1>1, <1>3, <1>4, <1>5, <1>7, <1>9, <1>10, <1>11, <1>12 DEF InUse

LEMMA KeptFacts ==
  ASSUME IInv, KeptInMemory
  PROVE  /\ boot' \in Configurations /\ mem' \in Configurations
         /\ boot'.key = boot.key /\ boot'.cfg = boot.cfg /\ mem'.cfg = mem.cfg
         /\ boot'.sv <= secV /\ mem'.sv <= secV
<1>1. PICK v \in 0..secV : /\ boot' \in {boot, [boot EXCEPT !.sv = v]}
                           /\ mem' \in {mem, [mem EXCEPT !.sv = v]}
  BY DEF KeptInMemory
<1>2. boot \in Configurations /\ mem \in Configurations /\ boot.sv <= secV /\ mem.sv <= secV /\ secV \in Nat
  BY TypeFacts DEF IInv, Records
<1>3. QED
  BY <1>1, <1>2 DEF Configurations

LEMMA EndingFacts ==
  ASSUME IInv, Ending
  PROVE  /\ disk' \in Configurations /\ disk'.key \in {disk.key, KeyLoaded}
         /\ disk'.cfg <= cfgV /\ disk'.sv <= secV
         /\ boot' \in Configurations /\ mem' \in Configurations
         /\ boot'.sv = 0 /\ boot'.cfg = 0 /\ mem'.sv = 0 /\ mem'.cfg = 0 /\ boot'.key = 0
<1>1. Nothing \in Configurations /\ Nothing.sv = 0 /\ Nothing.cfg = 0 /\ Nothing.key = 0
  BY DEF Nothing, Configurations
<1>2. boot' = Nothing /\ mem' = Nothing
  BY DEF Ending, ProcessEnds
<1>3. /\ disk' \in Configurations /\ disk'.key \in {disk.key, KeyLoaded}
      /\ disk'.cfg <= cfgV /\ disk'.sv <= secV
  <2>1. CASE disk' = disk
    BY <2>1 DEF IInv, Records
  <2>2. ASSUME NEW v \in 0..secV, disk' = [Loaded EXCEPT !.sv = v]
        PROVE  disk' \in Configurations /\ disk'.key = KeyLoaded /\ disk'.cfg <= cfgV /\ disk'.sv <= secV
    <3>1. Loaded \in Configurations /\ Loaded.cfg <= cfgV /\ Loaded.key = KeyLoaded /\ secV \in Nat
      BY LoadedFacts, TypeFacts DEF IInv
    <3>2. QED
      BY <2>2, <3>1 DEF Configurations
  <2>3. QED
    BY <2>1, <2>2 DEF Ending
<1>4. QED
  BY <1>1, <1>2, <1>3

LEMMA BootFacts ==
  ASSUME IInv, Boot
  PROVE  /\ boot' \in Configurations /\ boot'.key = disk.key /\ boot'.cfg = cfgV /\ boot'.sv <= secV
         /\ source' \in {"disk", "boot"} /\ (source' = "disk" => disk.cfg = cfgV)
<1>1. disk \in Configurations /\ disk.sv <= secV /\ cfgV \in Nat /\ secV \in Nat
  BY TypeFacts DEF IInv, Records
<1>2. QED
  BY <1>1 DEF Boot, Configurations

LEMMA FetchEndsFacts ==
  ASSUME IInv, NEW f \in fetches, FetchEnds(f)
  PROVE  /\ fetches' \subseteq fetches /\ UNCHANGED <<phase, disk, env, vault, unsaved>> /\ phase # "down"
         /\ \/ UNCHANGED <<source, boot, mem>>
            \/ /\ f.result = "config" /\ source' = "event" /\ {boot', mem'} \subseteq Configurations
               /\ boot'.key = KeyLoaded /\ boot'.cfg = boot.cfg /\ boot'.sv = boot.sv
               /\ mem'.key = KeyLoaded /\ mem'.cfg = f.cfg /\ mem'.sv = 0
<1>1. fetches' \subseteq fetches /\ UNCHANGED <<phase, disk, env, vault, unsaved>>
  BY DEF FetchEnds
<1>2. phase # "down"
  BY DEF IInv, Ended
<1>3. CASE UNCHANGED <<source, boot, mem>>
  BY <1>1, <1>2, <1>3
<1>4. CASE f.result = "config" /\ SetConfigInMemory(f.cfg)
  <2>1. (IF env # 0 THEN env ELSE boot.key) = KeyLoaded
    BY <1>2, TypeFacts DEF IInv, KeyShared, KeyLoaded
  <2>2. boot \in Configurations /\ f.cfg \in Nat /\ KeyLoaded \in Nat
    BY TypeFacts, LoadedFacts DEF IInv, Records
  <2>3. boot' = [boot EXCEPT !.key = KeyLoaded] /\ source' = "event"
    BY <1>4, <2>1 DEF SetConfigInMemory
  <2>4. boot' \in Configurations /\ boot'.key = KeyLoaded /\ boot'.cfg = boot.cfg /\ boot'.sv = boot.sv
    BY <2>2, <2>3 DEF Configurations
  <2>5. mem' = [key |-> KeyLoaded, cfg |-> f.cfg, sv |-> 0]
    BY <1>4, <2>4 DEF SetConfigInMemory
  <2>6. mem' \in Configurations /\ mem'.key = KeyLoaded /\ mem'.cfg = f.cfg /\ mem'.sv = 0
    BY <2>2, <2>5 DEF Configurations
  <2>7. QED
    BY <1>1, <1>2, <1>4, <2>3, <2>4, <2>6
<1>5. QED
  BY <1>3, <1>4 DEF FetchEnds
-----------------------------------------------------------------------------
(* The strengthening, conjunct by conjunct. *)

LEMMA KeyFacts ==
  ASSUME IInv
  PROVE  /\ keyV \in 1..MaxKey /\ MaxKey \in Nat /\ unsaved \in BOOLEAN /\ grace \in BOOLEAN
         /\ env \in Nat /\ disk.key \in Nat /\ boot.key \in Nat /\ KeyLoaded \in Nat
         /\ source \in {"disk", "boot", "event"} /\ boot.key <= MaxKey
BY BoundFacts, TypeFacts, LoadedFacts DEF IInv, TypeOK, HostTypeOK, Records, Configurations

LEMMA KeySaves ==
  ASSUME IInv, Saves
  PROVE  KeyShared'
<1>1. SavesKey(disk'.key) /\ disk'.key \in 1..MaxKey
  BY SavesFacts
<1>2. /\ source = "disk" => boot' = boot
      /\ source # "disk" => boot'.key = disk'.key
      /\ source' = source /\ phase # "down" /\ phase' = phase
  BY SavesFacts DEF Saves
<1>3. boot.key \in 1..MaxKey /\ Recent(KeyLoaded) /\ (source # "disk" => KeyLoaded = boot.key)
  BY <1>2, LoadedKey DEF IInv, KeyShared
<1>4. CASE disk'.key = KeyLoaded /\ UNCHANGED <<keyV, grace, env, unsaved>>
  <2>1. disk'.key \in 1..keyV' /\ (~unsaved' => disk'.key = keyV')
    BY <1>1, <1>3, <1>4, KeyFacts DEF Recent
  <2>2. boot'.key \in 1..MaxKey
    BY <1>1, <1>2, <1>3
  <2>3. env' # 0 => Recent(env)' /\ (source' # "disk" => boot'.key = env')
    BY <1>2, <1>4 DEF IInv, KeyShared, KeyLoaded, Recent
  <2>4. env' = 0 => Recent(boot.key)' /\ (source' = "disk" => disk'.key = boot'.key)
    BY <1>2, <1>3, <1>4 DEF IInv, KeyShared, KeyLoaded, Recent
  <2>5. QED
    BY <2>1, <2>2, <2>3, <2>4 DEF KeyShared
<1>5. CASE disk'.key = keyV' /\ Turns /\ env' = keyV' /\ unsaved' = FALSE
  BY <1>1, <1>2, <1>3, <1>5, KeyFacts DEF KeyShared, Recent
<1>6. QED
  BY <1>1, <1>4, <1>5 DEF SavesKey

(* Without a grace period the vault accepts the newest key only, so a rotation leaves the agent
   with the key before it. *)
LEMMA KeyUnsavedFacts ==
  ASSUME IInv, KeyUnsaved
  PROVE  /\ keyV' \in 1..MaxKey /\ keyV' >= keyV /\ phase # "down" /\ phase' = phase
         /\ \/ keyV' = keyV /\ unsaved' = unsaved
            \/ keyV' = keyV + 1 /\ unsaved' = TRUE /\ KeyLoaded = keyV
         /\ boot' \in Configurations /\ boot'.cfg = boot.cfg /\ boot'.sv = boot.sv
         /\ boot'.key = IF source # "disk" /\ env = 0 THEN keyV' ELSE boot.key
<1>1. Turns /\ phase # "down" /\ phase' = phase
  BY DEF KeyUnsaved
<1>2. /\ keyV' \in 1..MaxKey /\ keyV' >= keyV
      /\ \/ keyV' = keyV /\ unsaved' = unsaved
         \/ keyV' = keyV + 1 /\ unsaved' = TRUE /\ KeyLoaded = keyV
  <2>1. /\ keyV \in 1..MaxKey /\ MaxKey \in Nat /\ unsaved' = (unsaved \/ keyV' # keyV)
        /\ unsaved \in BOOLEAN
    BY KeyFacts DEF KeyUnsaved
  <2>2. CASE keyV' = keyV
    BY <2>1, <2>2
  <2>3. CASE keyV < MaxKey /\ ~grace /\ keyV' = keyV + 1
    <3>1. keyV' \in 1..MaxKey /\ keyV' >= keyV /\ keyV' # keyV
      BY <2>1, <2>3
    <3>2. KeyLoaded = keyV
      BY <1>1, <2>3 DEF Turns, Accepts
    <3>3. unsaved' = TRUE
      BY <2>1, <3>1
    <3>4. QED
      BY <2>3, <3>1, <3>2, <3>3
  <2>4. QED
    BY <1>1, <2>2, <2>3 DEF Turns
<1>3. boot \in Configurations /\ keyV' \in Nat
  BY <1>2, KeyFacts DEF IInv, Records
<1>4. /\ boot' \in Configurations /\ boot'.cfg = boot.cfg /\ boot'.sv = boot.sv
      /\ boot'.key = IF source # "disk" /\ env = 0 THEN keyV' ELSE boot.key
  BY <1>3 DEF KeyUnsaved, Configurations
<1>5. QED
  BY <1>1, <1>2, <1>4

LEMMA KeyNotSaved ==
  ASSUME IInv, KeyUnsaved
  PROVE  KeyShared'
<1>1. /\ keyV' \in 1..MaxKey /\ keyV' >= keyV /\ phase # "down" /\ phase' = phase
      /\ \/ keyV' = keyV /\ unsaved' = unsaved
         \/ keyV' = keyV + 1 /\ unsaved' = TRUE /\ KeyLoaded = keyV
      /\ boot'.key = IF source # "disk" /\ env = 0 THEN keyV' ELSE boot.key
      /\ UNCHANGED <<disk, source, env>>
  BY KeyUnsavedFacts DEF KeyUnsaved
<1>2. disk'.key \in 1..keyV' /\ (~unsaved' => disk'.key = keyV')
  BY <1>1, KeyFacts DEF IInv, KeyShared
<1>3. boot'.key \in 1..MaxKey
  BY <1>1, KeyFacts DEF IInv, KeyShared
<1>4. env' # 0 => Recent(env)' /\ (source' # "disk" => boot'.key = env')
  BY <1>1, KeyFacts DEF IInv, KeyShared, KeyLoaded, Recent
<1>5. env' = 0 => Recent(boot.key)' /\ (source' = "disk" => disk'.key = boot'.key)
  <2>1. CASE source # "disk"
    BY <1>1, <2>1 DEF Recent
  <2>2. CASE source = "disk"
    BY <1>1, <2>2, KeyFacts DEF IInv, KeyShared, KeyLoaded, Recent
  <2>3. QED
    BY <2>1, <2>2
<1>6. QED
  BY <1>2, <1>3, <1>4, <1>5 DEF KeyShared

LEMMA KeyStep ==
  ASSUME IInv, [Next]_vars
  PROVE  KeyShared'
<1> USE DEF Recent
<1>1. CASE Quiet
  BY <1>1 DEF Quiet, config, vault, IInv, KeyShared
<1>2. CASE KeptInMemory
  <2>1. boot'.key = boot.key /\ UNCHANGED <<disk, source, env, keyV, unsaved, phase>>
    BY <1>2, KeptFacts DEF KeptInMemory, vault
  <2>2. QED
    BY <2>1 DEF IInv, KeyShared
<1>3. CASE Ending
  <2>1. /\ disk'.key \in {disk.key, KeyLoaded} /\ phase' = "down" /\ phase # "down" /\ env' = 0
        /\ UNCHANGED <<keyV, unsaved>>
    BY <1>3, EndingFacts DEF Ending, ProcessEnds, vault
  <2>2. KeyLoaded \in 1..keyV /\ (~unsaved => KeyLoaded = keyV)
    BY <2>1, LoadedKey, KeyFacts DEF IInv, KeyShared, KeyLoaded
  <2>3. QED
    BY <2>1, <2>2 DEF IInv, KeyShared
<1>4. CASE HostStep
  <2>1. CASE Boot
    <3>1. boot'.key = disk.key /\ UNCHANGED <<disk, env, keyV, unsaved>> /\ env = 0 /\ Accepts(disk.key)
      BY <2>1, BootFacts DEF Boot, vault, IInv, Ended
    <3>2. boot'.key \in 1..MaxKey
      BY <3>1, KeyFacts DEF IInv, KeyShared
    <3>3. Recent(disk.key)
      BY <3>1, KeyFacts DEF IInv, KeyShared, Accepts
    <3>4. QED
      BY <3>1, <3>2, <3>3 DEF IInv, KeyShared
  <2>2. CASE GraceEnds \/ Push
    BY <2>2 DEF GraceEnds, Push, IInv, KeyShared
  <2>3. ASSUME NEW f \in fetches, FetchAnswered(f) \/ FetchFails(f) PROVE KeyShared'
    BY <2>3 DEF FetchAnswered, FetchFails, vault, IInv, KeyShared
  <2>4. ASSUME NEW f \in fetches, FetchEnds(f) PROVE KeyShared'
    <3>1. UNCHANGED <<disk, env, keyV, unsaved, phase>> /\ phase # "down"
      BY <2>4, FetchEndsFacts DEF vault
    <3>2. CASE UNCHANGED <<source, boot, mem>>
      BY <3>1, <3>2 DEF IInv, KeyShared
    <3>3. CASE source' = "event" /\ boot'.key = KeyLoaded
      <4>1. KeyLoaded \in 1..MaxKey
        BY <3>1, KeyFacts DEF IInv, KeyShared, KeyLoaded
      <4>2. Recent(KeyLoaded) /\ (env # 0 => KeyLoaded = env)
        BY <3>1, LoadedKey DEF IInv, KeyLoaded
      <4>3. QED
        BY <3>1, <3>3, <4>1, <4>2 DEF IInv, KeyShared
    <3>4. QED
      BY <2>4, <3>2, <3>3, FetchEndsFacts
  <2>5. QED
    BY <1>4, <2>1, <2>2, <2>3, <2>4 DEF HostStep
<1>5. QED
  BY <1>1, <1>2, <1>3, <1>4, KeySaves, KeyNotSaved, NextCases

(* What an answer makes of a fetch. *)
LEMMA AnswerFacts ==
  ASSUME IInv, NEW f \in fetches, FetchAnswered(f)
  PROVE  \E g \in [key : Nat, own : BOOLEAN, have : Nat, result : Results, cfg : Nat] :
           /\ f.result = "asked" /\ fetches' = (fetches \ {f}) \union {g}
           /\ g.key = f.key /\ g.own = f.own /\ g.have = f.have
           /\ \/ g.result = "refused" /\ ~Accepts(f.key) /\ g.cfg = 0
              \/ g.result = "same" /\ f.have = cfgV /\ g.cfg = 0
              \/ g.result = "config" /\ g.cfg = cfgV
<1> DEFINE r == IF ~Accepts(f.key) THEN "refused" ELSE IF f.have = cfgV THEN "same" ELSE "config"
           g == [f EXCEPT !.result = r, !.cfg = IF r = "config" THEN cfgV ELSE 0]
<1>1. f \in [key : Nat, own : BOOLEAN, have : Nat, result : Results, cfg : Nat] /\ cfgV \in Nat
  BY TypeFacts DEF IInv
<1>2. /\ r \in Results
      /\ r = "refused" => ~Accepts(f.key)
      /\ r = "same" => f.have = cfgV
      /\ r \in {"refused", "same", "config"}
  BY DEF Results
<1>3. f.result = "asked" /\ fetches' = (fetches \ {f}) \union {g}
  BY DEF FetchAnswered
<1> HIDE DEF r
<1>4. /\ g \in [key : Nat, own : BOOLEAN, have : Nat, result : Results, cfg : Nat]
      /\ g.key = f.key /\ g.own = f.own /\ g.have = f.have /\ g.result = r
      /\ g.cfg = IF r = "config" THEN cfgV ELSE 0
  BY <1>1, <1>2
<1> HIDE DEF g
<1>5. QED
  BY <1>2, <1>3, <1>4

(* What an event about the configuration asks. *)
LEMMA AskedFacts ==
  ASSUME IInv, phase = "running", NEW force \in BOOLEAN
  PROVE  /\ Asked(force) \in [key : 1..MaxKey, own : BOOLEAN, have : 0..MaxConfig, result : Results,
                              cfg : 0..MaxConfig]
         /\ Asked(force).key = boot.key /\ Asked(force).own = (source = "disk")
         /\ Asked(force).have \in {0, boot.cfg} /\ Asked(force).result = "asked" /\ Asked(force).cfg = 0
BY BoundFacts DEF Asked, Results, IInv, KeyShared, TypeOK, HostTypeOK

(* A key that the vault does not accept any more stays the one in use. *)
LEMMA LoadedStays ==
  ASSUME IInv, Quiet \/ Saves \/ KeyUnsaved \/ KeptInMemory \/ HostStep, ~Boot
  PROVE  /\ Accepts(KeyLoaded)' => Accepts(KeyLoaded)
         /\ \A k \in Nat : Accepts(k) => Accepts(k)' \/ (GraceEnds /\ k # keyV)
<1>1. keyV \in Nat /\ grace \in BOOLEAN /\ KeyLoaded \in Nat
  BY KeyFacts
<1>2. ASSUME KeyLoaded' = KeyLoaded, keyV' = keyV, grace' = grace \/ (GraceEnds /\ grace' = FALSE)
      PROVE  /\ Accepts(KeyLoaded)' => Accepts(KeyLoaded)
             /\ \A k \in Nat : Accepts(k) => Accepts(k)' \/ (GraceEnds /\ k # keyV)
  BY <1>1, <1>2 DEF Accepts
<1>3. ASSUME Turns
      PROVE  /\ Accepts(KeyLoaded)
             /\ \A k \in Nat : Accepts(k) => Accepts(k)'
  BY <1>1, <1>3 DEF Turns, Accepts
<1>4. CASE Quiet \/ KeptInMemory
  <2>1. boot'.key = boot.key /\ UNCHANGED <<disk, source, env, keyV, grace>>
    BY <1>4, KeptFacts DEF Quiet, KeptInMemory, config, vault
  <2>2. QED
    BY <1>2, <2>1 DEF KeyLoaded
<1>5. CASE Saves
  <2>1. SavesKey(disk'.key) /\ (source = "disk" => boot' = boot) /\ (source # "disk" => boot'.key = disk'.key)
          /\ source' = source /\ phase # "down"
    BY <1>5, SavesFacts DEF Saves
  <2>2. CASE disk'.key = KeyLoaded /\ UNCHANGED <<keyV, grace, env, unsaved>>
    <3>1. KeyLoaded' = KeyLoaded
      BY <2>1, <2>2 DEF KeyLoaded
    <3>2. QED
      BY <1>2, <2>2, <3>1
  <2>3. QED
    BY <1>3, <2>1, <2>2 DEF SavesKey
<1>6. CASE KeyUnsaved
  BY <1>3, <1>6 DEF KeyUnsaved
<1>7. CASE HostStep
  <2>1. CASE GraceEnds \/ Push
    BY <1>2, <2>1 DEF GraceEnds, Push, KeyLoaded
  <2>2. ASSUME NEW f \in fetches, FetchAnswered(f) \/ FetchFails(f)
        PROVE  KeyLoaded' = KeyLoaded /\ UNCHANGED <<keyV, grace>>
    BY <2>2 DEF FetchAnswered, FetchFails, vault, KeyLoaded
  <2>3. ASSUME NEW f \in fetches, FetchEnds(f)
        PROVE  KeyLoaded' = KeyLoaded /\ UNCHANGED <<keyV, grace>>
    BY <2>3, FetchEndsFacts DEF vault, KeyLoaded
  <2>4. QED
    BY <1>2, <1>7, <2>1, <2>2, <2>3 DEF HostStep
<1>8. QED
  BY <1>4, <1>5, <1>6, <1>7

LEMMA FetchKeysStep ==
  ASSUME IInv, [Next]_vars
  PROVE  FetchKeys'
<1>1. \A f \in fetches : f.key \in Nat /\ f.own \in BOOLEAN
  BY TypeFacts DEF IInv
<1>2. CASE Ending
  BY <1>2 DEF Ending, ProcessEnds, FetchKeys
<1>3. CASE Boot
  BY <1>3 DEF Boot, IInv, Ended, FetchKeys
<1>4. ASSUME ~Boot, Quiet \/ Saves \/ KeyUnsaved \/ KeptInMemory \/ HostStep PROVE FetchKeys'
  <2>1. /\ Accepts(KeyLoaded)' => Accepts(KeyLoaded)
        /\ \A k \in Nat : Accepts(k) => Accepts(k)' \/ (GraceEnds /\ k # keyV)
    BY <1>4, LoadedStays
  <2>2. ASSUME NEW f \in fetches
        PROVE  /\ f.result = "refused" => f.own \/ ~Accepts(KeyLoaded)'
               /\ f.result = "asked" /\ ~f.own => Accepts(f.key)' \/ ~Accepts(KeyLoaded)'
    <3>1. GraceEnds /\ f.result = "asked" => f.key = keyV
      BY DEF GraceEnds
    <3>2. QED
      BY <1>1, <2>1, <3>1 DEF IInv, FetchKeys
  <2>3. ASSUME NEW g \in fetches', g \notin fetches
        PROVE  /\ g.result = "refused" => g.own \/ ~Accepts(KeyLoaded)'
               /\ g.result = "asked" /\ ~g.own => Accepts(g.key)' \/ ~Accepts(KeyLoaded)'
    <3>1. CASE Push
      <4>1. PICK force \in BOOLEAN : phase = "running" /\ fetches' = fetches \union {Asked(force)}
        BY <2>3, <3>1 DEF Push
      <4>2. g = Asked(force)
        BY <2>3, <4>1
      <4>3. g.key = boot.key /\ g.own = (source = "disk") /\ g.result = "asked"
        BY <4>1, <4>2, AskedFacts
      <4>4. source # "disk" => KeyLoaded = boot.key
        BY <4>1, LoadedKey DEF IInv
      <4>5. KeyLoaded' = KeyLoaded /\ UNCHANGED <<keyV, grace>>
        BY <3>1 DEF Push, KeyLoaded
      <4>6. Accepts(boot.key)' <=> Accepts(boot.key)
        BY <3>1 DEF Push, Accepts
      <4>7. ~g.own => (Accepts(g.key)' <=> Accepts(KeyLoaded)')
        BY <4>3, <4>4, <4>5 DEF Accepts
      <4>8. QED
        BY <4>3, <4>7
    <3>2. ASSUME NEW f \in fetches, FetchAnswered(f)
          PROVE  g.result = "refused" /\ ~g.own => ~Accepts(KeyLoaded)'
      <4>1. f.result = "asked" /\ g.own = f.own /\ (g.result = "refused" => ~Accepts(f.key))
        BY <2>3, <3>2, AnswerFacts
      <4>2. QED
        BY <2>1, <4>1 DEF IInv, FetchKeys
    <3>3. ASSUME NEW f \in fetches, FetchAnswered(f)
          PROVE  g.result # "asked"
      BY <2>3, <3>3, AnswerFacts
    <3>4. ~(Quiet \/ Saves \/ KeyUnsaved \/ KeptInMemory \/ GraceEnds)
      BY <2>3 DEF Quiet, Saves, KeyUnsaved, KeptInMemory, GraceEnds
    <3>5. ASSUME NEW f \in fetches, FetchFails(f) \/ FetchEnds(f) PROVE FALSE
      BY <2>3, <3>5 DEF FetchFails, FetchEnds
    <3>6. QED
      BY <1>4, <3>1, <3>2, <3>3, <3>4, <3>5 DEF HostStep
  <2>4. QED
    BY <2>2, <2>3 DEF FetchKeys
<1>5. QED
  BY <1>2, <1>3, <1>4, NextCases

LEMMA CfgOrderStep ==
  ASSUME IInv, [Next]_vars
  PROVE  CfgOrder'
<1>1. /\ cfgV \in Nat /\ boot.cfg \in Nat /\ mem.cfg \in Nat /\ boot.cfg <= cfgV
      /\ source \in {"disk", "boot", "event"}
      /\ \A f \in fetches : f.cfg \in Nat
  BY TypeFacts DEF IInv, Records, Configurations
<1> USE <1>1
<1>2. CASE Quiet
  BY <1>2 DEF Quiet, config, vault, IInv, CfgOrder
<1>3. CASE Saves
  BY <1>3, SavesFacts DEF Saves, IInv, CfgOrder, InUse
<1>4. CASE KeptInMemory \/ KeyUnsaved
  BY <1>4, KeptFacts, KeyUnsavedFacts DEF KeptInMemory, KeyUnsaved, vault, IInv, CfgOrder
<1>5. CASE Ending
  BY <1>5 DEF Ending, ProcessEnds, CfgOrder
<1>6. CASE HostStep
  <2>1. CASE Boot
    BY <2>1, BootFacts DEF Boot, IInv, Ended, CfgOrder
  <2>2. CASE GraceEnds
    BY <2>2 DEF GraceEnds, IInv, CfgOrder
  <2>3. CASE Push
    <3>1. cfgV' >= cfgV /\ cfgV' \in Nat /\ UNCHANGED <<phase, disk, source, boot, mem>>
      BY <2>3, BoundFacts DEF Push
    <3>2. fetches' = fetches \/ \E force \in BOOLEAN : phase = "running" /\ fetches' = fetches \union {Asked(force)}
      BY <2>3 DEF Push
    <3>3. QED
      BY <3>1, <3>2, AskedFacts DEF IInv, CfgOrder
  <2>4. ASSUME NEW f \in fetches, FetchAnswered(f) PROVE CfgOrder'
    <3>1. UNCHANGED <<phase, disk, source, boot, mem, cfgV>>
      BY <2>4 DEF FetchAnswered, vault
    <3>2. QED
      BY <2>4, <3>1, AnswerFacts DEF IInv, CfgOrder
  <2>5. ASSUME NEW f \in fetches, FetchFails(f) PROVE CfgOrder'
    BY <2>5 DEF FetchFails, vault, IInv, CfgOrder
  <2>6. ASSUME NEW f \in fetches, FetchEnds(f) PROVE CfgOrder'
    BY <2>6, FetchEndsFacts DEF vault, IInv, CfgOrder
  <2>7. QED
    BY <1>6, <2>1, <2>2, <2>3, <2>4, <2>5, <2>6 DEF HostStep
<1>7. QED
  BY <1>2, <1>3, <1>4, <1>5, <1>6, NextCases

LEMMA CurrentStep ==
  ASSUME IInv, [Next]_vars
  PROVE  Current'
<1>1. /\ cfgV \in Nat /\ cfgV >= 1 /\ boot.cfg \in Nat /\ mem.cfg \in Nat /\ disk.cfg \in Nat
      /\ boot.cfg <= cfgV /\ mem.cfg <= cfgV /\ disk.cfg <= cfgV
      /\ source \in {"disk", "boot", "event"}
      /\ \A f \in fetches : f.cfg \in Nat
  BY TypeFacts DEF IInv, Records, Configurations
<1> USE <1>1
<1>2. CASE Quiet
  BY <1>2 DEF Quiet, config, vault, IInv, Current, Explained, Pending, InUse
<1>3. CASE Saves
  <2>1. InUse' = InUse /\ UNCHANGED <<phase, cfgV, fetches, lag>>
    BY <1>3, SavesFacts DEF Saves
  <2>2. QED
    BY <2>1 DEF IInv, Current, Explained, Pending
<1>4. CASE KeptInMemory \/ KeyUnsaved
  <2>1. InUse' = InUse /\ UNCHANGED <<phase, cfgV, fetches, lag>>
    BY <1>4, KeptFacts, KeyUnsavedFacts DEF KeptInMemory, KeyUnsaved, InUse, vault
  <2>2. QED
    BY <2>1 DEF IInv, Current, Explained, Pending
<1>5. CASE Ending
  BY <1>5 DEF Ending, ProcessEnds, Current
<1>6. CASE HostStep
  <2>1. CASE Boot
    BY <2>1, BootFacts DEF Boot, vault, InUse, Current
  <2>2. CASE GraceEnds
    BY <2>2 DEF GraceEnds, IInv, Current, Explained, Pending, InUse
  <2>3. CASE Push
    <3>1. CASE lag' = lag \union {"missed"}
      BY <3>1 DEF Current, Explained
    <3>2. ASSUME NEW force \in BOOLEAN, phase = "running", fetches' = fetches \union {Asked(force)}
          PROVE  Current'
      <4>1. Asked(force).result = "asked"
        BY <3>2, AskedFacts
      <4>2. QED
        BY <3>2, <4>1 DEF Current, Pending
    <3>3. QED
      BY <2>3, <3>1, <3>2 DEF Push
  <2>4. ASSUME NEW f \in fetches, FetchAnswered(f) PROVE Current'
    <3>1. UNCHANGED <<phase, disk, source, boot, mem, cfgV, lag>>
      BY <2>4 DEF FetchAnswered, vault
    <3>2. PICK g : /\ fetches' = (fetches \ {f}) \union {g}
                   /\ g.result = "refused" \/ f.have = cfgV \/ (g.result = "config" /\ g.cfg = cfgV)
      BY <2>4, AnswerFacts
    <3>3. f.have = cfgV => InUse = cfgV
      <4>1. f.have \in {0, boot.cfg}
        BY DEF IInv, CfgOrder
      <4>2. phase # "down"
        BY DEF IInv, Ended
      <4>3. QED
        BY <4>1, <4>2 DEF IInv, CfgOrder, InUse
    <3>4. g.result = "refused" \/ (g.result = "config" /\ g.cfg = cfgV) => Pending(g)'
      BY <3>1 DEF Pending
    <3>5. InUse' = InUse /\ (Explained' <=> Explained)
      BY <3>1 DEF InUse, Explained
    <3>6. QED
      BY <3>1, <3>2, <3>3, <3>4, <3>5 DEF Current
  <2>5. ASSUME NEW f \in fetches, FetchFails(f) PROVE Current'
    BY <2>5 DEF FetchFails, Current, Explained
  <2>6. ASSUME NEW f \in fetches, FetchEnds(f) PROVE Current'
    <3>1. fetches' = fetches \ {f} /\ UNCHANGED <<phase, disk, cfgV>> /\ phase # "down"
      BY <2>6, FetchEndsFacts DEF FetchEnds, vault
    <3>2. CASE f.result = "refused"
      <4>1. f.own \/ unsaved
        <5>1. Recent(KeyLoaded)
          BY <3>1, LoadedKey DEF IInv
        <5>2. QED
          BY <3>2, <5>1 DEF IInv, FetchKeys, Recent, Accepts
      <4>2. lag' = lag \union {"outdated key"}
        BY <2>6, <3>2, <4>1 DEF FetchEnds
      <4>3. QED
        BY <4>2 DEF Current, Explained
    <3>3. CASE f.result = "same"
      <4>1. UNCHANGED <<source, boot, mem, lag>>
        BY <2>6, <3>3 DEF FetchEnds
      <4>2. ~Pending(f)
        BY <3>3 DEF Pending
      <4>3. QED
        BY <3>1, <4>1, <4>2 DEF IInv, Current, Explained, Pending, InUse
    <3>4. CASE f.result = "config"
      <4>1. source' = "event" /\ mem'.cfg = f.cfg
        <5>1. SetConfigInMemory(f.cfg)
          BY <2>6, <3>4 DEF FetchEnds
        <5>2. QED
          BY <5>1 DEF SetConfigInMemory
      <4>2. InUse' = f.cfg
        BY <4>1 DEF InUse
      <4>3. f.cfg <= cfgV
        BY <3>4 DEF IInv, CfgOrder
      <4>4. lag' = IF f.cfg < InUse THEN lag \union {"overtaken"} ELSE lag
        BY <2>6, <3>4, LoadedFacts DEF FetchEnds, IInv
      <4>5. CASE f.cfg = cfgV
        BY <3>1, <4>2, <4>5 DEF Current
      <4>6. CASE f.cfg < cfgV /\ InUse = cfgV
        BY <4>4, <4>6 DEF Current, Explained
      <4>7. CASE f.cfg < cfgV /\ InUse # cfgV
        <5>1. ~Pending(f)
          BY <3>4, <4>7 DEF Pending
        <5>2. Explained => Explained'
          BY <4>4 DEF Explained
        <5>3. \A g \in fetches : Pending(g) => g \in fetches' /\ Pending(g)'
          BY <3>1, <5>1 DEF Pending
        <5>4. QED
          BY <3>1, <4>7, <5>2, <5>3 DEF IInv, Current
      <4>8. QED
        BY <4>3, <4>5, <4>6, <4>7
    <3>5. QED
      BY <2>6, <3>2, <3>3, <3>4 DEF FetchEnds
  <2>7. QED
    BY <1>6, <2>1, <2>2, <2>3, <2>4, <2>5, <2>6 DEF HostStep
<1>7. QED
  BY <1>2, <1>3, <1>4, <1>5, <1>6, NextCases

(* The secret's part: the deployments and what they write. *)
Tasks == [Handlers -> [pc : {"none", "plugins", "fetch", "answered", "restart"},
                       have : 0..MaxSecret, v : 0..MaxSecret]]

LEMMA SetTyped ==
  ASSUME TypeOK, Records, NEW h \in Handlers, NEW pc \in {"none", "plugins", "fetch", "answered", "restart"},
         NEW have \in 0..MaxSecret, NEW v \in 0..secV,
         task' = [task EXCEPT ![h] = [pc |-> pc, have |-> have, v |-> v]]
  PROVE  /\ task' \in Tasks /\ task'[h].pc = pc
         /\ \A g \in Handlers : task'[g].v <= secV /\ (g # h => task'[g] = task[g])
BY BoundFacts DEF TypeOK, Records, Tasks

LEMMA IdleSet ==
  ASSUME TypeOK, Records, NEW h \in Handlers, task' = [task EXCEPT ![h] = Idle]
  PROVE  /\ task' \in Tasks /\ task'[h].pc = "none"
         /\ \A g \in Handlers : task'[g].v <= secV /\ (g # h => task'[g] = task[g])
<1>1. 0 \in 0..MaxSecret /\ 0 <= secV
  BY BoundFacts, TypeFacts
<1>2. QED
  BY <1>1 DEF Idle, TypeOK, Records, Tasks

LEMMA TaskStep ==
  ASSUME IInv, [Next]_vars
  PROVE  /\ task' \in Tasks /\ secV' \in 1..MaxSecret /\ secV' >= secV
         /\ \A h \in Handlers : task'[h].v <= secV'
         /\ phase' = "down" => \A h \in Handlers : task'[h].pc = "none"
<1> DEFINE Good == /\ task' \in Tasks /\ secV' \in 1..MaxSecret /\ secV' >= secV
                   /\ \A h \in Handlers : task'[h].v <= secV'
                   /\ phase' = "down" => \A h \in Handlers : task'[h].pc = "none"
<1> SUFFICES Good
  OBVIOUS
<1>1. /\ task \in Tasks /\ secV \in 1..MaxSecret /\ MaxSecret \in Nat /\ TypeOK /\ Records
      /\ \A h \in Handlers : task[h].v <= secV /\ task[h].v \in 0..MaxSecret
      /\ phase = "down" => \A h \in Handlers : task[h].pc = "none"
  BY BoundFacts DEF IInv, TypeOK, Tasks, Records, Ended
<1>2. ASSUME UNCHANGED <<task, secV>>, phase' = "down" => phase = "down" PROVE Good
  BY <1>1, <1>2
<1>3. ASSUME NEW h \in Handlers, task' = [task EXCEPT ![h] = Idle], secV' = secV,
             phase' = "down" => phase = "down"
      PROVE  Good
  <2>1. /\ task' \in Tasks /\ task'[h].pc = "none"
        /\ \A g \in Handlers : task'[g].v <= secV /\ (g # h => task'[g] = task[g])
    BY <1>1, <1>3, IdleSet
  <2>2. QED
    BY <1>1, <1>3, <2>1
<1>4. ASSUME NEW h \in Handlers, NEW pc \in {"none", "plugins", "fetch", "answered", "restart"},
             NEW have \in 0..MaxSecret, NEW v \in 0..secV, Set(h, pc, have, v), secV' = secV, phase' # "down"
      PROVE  Good
  <2>1. task' \in Tasks /\ \A g \in Handlers : task'[g].v <= secV
    BY <1>1, <1>4, SetTyped DEF Set
  <2>2. QED
    BY <1>1, <1>4, <2>1
<1>5. CASE UNCHANGED vars \/ (HostNext /\ UNCHANGED secretVars)
  <2>1. UNCHANGED <<task, secV>>
    BY <1>5 DEF vars, secretVars
  <2>2. phase' = "down" => phase = "down"
    BY <1>5 DEF vars, hostVars, HostNext, Boot, BootFails, Bound, Up, Bind, BindUnsaved, GraceEnds, Push, FetchAnswered, FetchFails, FetchEnds
  <2>3. QED
    BY <1>2, <2>1, <2>2
<1>6. CASE SecretChanges
  <2>1. secV' \in 1..MaxSecret /\ secV' >= secV /\ phase' = phase
    BY <1>1, <1>6 DEF SecretChanges
  <2>2. CASE UNCHANGED task
    BY <1>1, <2>1, <2>2
  <2>3. ASSUME Up, Set(secV', "plugins", 0, 0) PROVE Good
    <3>1. secV' \in Handlers /\ 0 \in 0..MaxSecret /\ 0 \in 0..secV
      BY <1>1, <1>6 DEF SecretChanges, Handlers, Events
    <3>2. task' \in Tasks /\ \A g \in Handlers : task'[g].v <= secV
      <4>1. PICK e \in Handlers : e = secV'
        BY <3>1
      <4>2. Set(e, "plugins", 0, 0)
        BY <2>3, <4>1
      <4>3. QED
        BY <1>1, <3>1, <4>2, SetTyped DEF Set
    <3>3. \A g \in Handlers : task'[g].v \in Nat
      BY <3>2, <1>1 DEF Tasks
    <3>4. phase' # "down"
      BY <2>1, <2>3 DEF Up
    <3>5. QED
      BY <1>1, <2>1, <3>2, <3>3, <3>4
  <2>4. QED
    BY <1>6, <2>2, <2>3 DEF SecretChanges
<1>7. CASE SyncBegins \/ PollBegins
  <2>1. Loaded.sv \in 0..MaxSecret /\ Poll \in Handlers /\ 0 \in 0..MaxSecret /\ 0 \in 0..secV
    BY <1>1, LoadedFacts, BoundFacts DEF Configurations
  <2>2. QED
    BY <1>4, <1>7, <2>1 DEF SyncBegins, PollBegins, hostVars
<1>8. CASE StartedUp \/ Shutdown \/ ChildStopped
  BY <1>2, <1>8 DEF StartedUp, Shutdown, ChildStopped, secretVars
<1>9. ASSUME NEW h \in Handlers, PluginsTold(h) \/ Answered(h) PROVE Good
  <2>1. phase # "down" /\ phase' = phase /\ secV' = secV
    BY <1>1, <1>9 DEF PluginsTold, Answered, hostVars
  <2>2. task[h].have \in 0..MaxSecret /\ secV \in 0..secV /\ 0 \in 0..MaxSecret /\ 0 \in 0..secV
    BY <1>1 DEF Tasks
  <2>3. QED
    BY <1>4, <1>9, <2>1, <2>2 DEF PluginsTold, Answered
<1>10. ASSUME NEW h \in Handlers, SecretRefused(h) \/ SecretFails(h) \/ UpToDate(h) \/ Unsaved(h) \/ Restarted(h) PROVE Good
  BY <1>3, <1>10 DEF SecretRefused, SecretFails, UpToDate, Unsaved, Restarted, hostVars
<1>11. ASSUME NEW h \in Handlers, Deployed(h) PROVE Good
  <2>1. phase # "down" /\ phase' = phase /\ secV' = secV
    BY <1>1, <1>11 DEF Deployed, Writes
  <2>2. 0 \in 0..MaxSecret /\ 0 \in 0..secV
    BY <1>1
  <2>3. QED
    BY <1>3, <1>4, <1>11, <2>1, <2>2 DEF Deployed
<1>12. ASSUME Ends PROVE Good
  <2>1. task' = [h \in Handlers |-> [pc |-> "none", have |-> 0, v |-> 0]] /\ secV' = secV
    BY <1>12 DEF Ends, Idle
  <2>2. QED
    BY <1>1, <2>1 DEF Tasks
<1>13. ASSUME NEW h \in Handlers, Cut(h) PROVE Good
  BY <1>12, <1>13 DEF Cut
<1>14. CASE Exit \/ Killed
  BY <1>12, <1>14 DEF Exit, Killed
<1> HIDE DEF Good
<1>15. QED
  BY <1>5, <1>6, <1>7, <1>8, <1>9, <1>10, <1>11, <1>13, <1>14 DEF Next

LEMMA EndedStep ==
  ASSUME IInv, [Next]_vars
  PROVE  Ended'
<1>1. phase' = "down" => \A h \in Handlers : task'[h].pc = "none"
  BY TaskStep
<1>2. phase' = "down" => source' = "disk" /\ env' = 0 /\ fetches' = {}
  <2>1. CASE Quiet \/ KeptInMemory \/ KeyUnsaved
    BY <2>1 DEF Quiet, KeptInMemory, KeyUnsaved, config, IInv, Ended
  <2>2. CASE Saves
    BY <2>2 DEF Saves
  <2>3. CASE Ending
    BY <2>3 DEF Ending, ProcessEnds
  <2>4. CASE HostStep
    <3>1. CASE Boot \/ GraceEnds
      BY <3>1 DEF Boot, GraceEnds, IInv, Ended
    <3>2. CASE Push
      BY <3>2 DEF Push, IInv, Ended
    <3>3. ASSUME NEW f \in fetches, FetchAnswered(f) \/ FetchFails(f) \/ FetchEnds(f)
          PROVE  phase' # "down"
      BY <3>3 DEF FetchAnswered, FetchFails, FetchEnds, IInv, Ended
    <3>4. QED
      BY <2>4, <3>1, <3>2, <3>3 DEF HostStep
  <2>5. QED
    BY <2>1, <2>2, <2>3, <2>4, NextCases
<1>3. QED
  BY <1>1, <1>2 DEF Ended

LEMMA RecordsStep ==
  ASSUME IInv, [Next]_vars
  PROVE  Records' /\ cfgV' \in 1..MaxConfig
<1> DEFINE Objects == /\ {disk', boot', mem'} \subseteq Configurations
                      /\ disk'.sv <= secV' /\ boot'.sv <= secV' /\ mem'.sv <= secV'
                      /\ disk'.cfg <= cfgV' /\ boot'.cfg <= cfgV' /\ mem'.cfg <= cfgV'
                      /\ cfgV' \in 1..MaxConfig
<1> SUFFICES Objects
  BY TaskStep DEF Records
<1>1. /\ cfgV \in 1..MaxConfig /\ MaxConfig \in Nat /\ secV \in Nat /\ secV' \in Nat /\ secV' >= secV
      /\ {disk, boot, mem} \subseteq Configurations
      /\ disk.sv <= secV /\ boot.sv <= secV /\ mem.sv <= secV
      /\ disk.cfg <= cfgV /\ boot.cfg <= cfgV /\ mem.cfg <= cfgV
      /\ disk.sv \in Nat /\ boot.sv \in Nat /\ mem.sv \in Nat
      /\ disk.cfg \in Nat /\ boot.cfg \in Nat /\ mem.cfg \in Nat
  BY BoundFacts, TypeFacts, TaskStep DEF IInv, Records, TypeOK, HostTypeOK, Configurations
<1> USE <1>1
<1>2. CASE Quiet
  BY <1>2 DEF Quiet, config, vault
<1>3. CASE Saves
  <2>1. InUse <= cfgV
    BY DEF InUse
  <2>2. QED
    BY <1>3, <2>1, SavesFacts DEF Saves
<1>4. CASE KeptInMemory \/ KeyUnsaved
  BY <1>4, KeptFacts, KeyUnsavedFacts DEF KeptInMemory, KeyUnsaved, vault
<1>5. CASE Ending
  BY <1>5, EndingFacts DEF Ending, vault
<1>6. CASE HostStep
  <2>0. secV' = secV
    BY <1>6 DEF HostStep, secretVars
  <2>1. CASE Boot
    BY <2>0, <2>1, BootFacts DEF Boot, vault
  <2>2. CASE GraceEnds \/ Push
    BY <2>0, <2>2 DEF GraceEnds, Push
  <2>3. ASSUME NEW f \in fetches, FetchAnswered(f) \/ FetchFails(f) PROVE Objects
    BY <2>0, <2>3 DEF FetchAnswered, FetchFails, vault
  <2>4. ASSUME NEW f \in fetches, FetchEnds(f) PROVE Objects
    <3>1. f.result = "config" => f.cfg <= cfgV
      BY DEF IInv, CfgOrder
    <3>2. QED
      BY <2>0, <2>4, <3>1, FetchEndsFacts DEF vault
  <2>5. QED
    BY <1>6, <2>1, <2>2, <2>3, <2>4 DEF HostStep
<1> HIDE DEF Objects
<1>7. QED
  BY <1>2, <1>3, <1>4, <1>5, <1>6, NextCases

(* The faults so far, and the steps of the process. *)
LEMMA CountersStep ==
  ASSUME IInv, [Next]_vars
  PROVE  /\ phase' \in Phases /\ faults' \in 0..MaxFaults /\ events' \in 0..MaxEvents
         /\ source' \in {"disk", "boot", "event"} /\ grace' \in BOOLEAN /\ lag' \subseteq Reasons
<1>1. /\ phase \in Phases /\ faults \in 0..MaxFaults /\ events \in 0..MaxEvents
      /\ source \in {"disk", "boot", "event"} /\ grace \in BOOLEAN /\ lag \subseteq Reasons
      /\ MaxFaults \in Nat /\ MaxEvents \in Nat
  BY BoundFacts DEF IInv, TypeOK, HostTypeOK
<1>2. Fault => faults' \in 0..MaxFaults
  BY <1>1 DEF Fault
<1> DEFINE Good == /\ phase' \in Phases /\ faults' \in 0..MaxFaults /\ events' \in 0..MaxEvents
                   /\ source' \in {"disk", "boot", "event"} /\ grace' \in BOOLEAN /\ lag' \subseteq Reasons
<1>3. CASE UNCHANGED vars
  BY <1>1, <1>3 DEF vars, hostVars, vault
<1>4. CASE Boot \/ BootFails \/ Bind \/ BindUnsaved \/ GraceEnds
  BY <1>1, <1>2, <1>4 DEF Boot, BootFails, Bound, Bind, BindUnsaved, GraceEnds, vault, Phases
<1>5. CASE Push
  <2>1. events' \in 0..MaxEvents /\ UNCHANGED <<phase, source, grace>>
    BY <1>1, <1>5 DEF Push
  <2>2. faults' \in 0..MaxFaults
    BY <1>1, <1>2, <1>5 DEF Push
  <2>3. lag' \subseteq Reasons
    BY <1>1, <1>5 DEF Push, Reasons
  <2>4. QED
    BY <1>1, <2>1, <2>2, <2>3
<1>6. ASSUME NEW f \in fetches, FetchAnswered(f) \/ FetchFails(f) \/ FetchEnds(f) PROVE Good
  <2>1. faults' \in 0..MaxFaults /\ UNCHANGED <<phase, events, grace>>
    BY <1>1, <1>2, <1>6 DEF FetchAnswered, FetchFails, FetchEnds, vault
  <2>2. source' \in {"disk", "boot", "event"}
    BY <1>1, <1>6 DEF FetchAnswered, FetchFails, FetchEnds, SetConfigInMemory
  <2>3. lag' \subseteq lag \union {"failed", "refused", "outdated key", "overtaken"}
    BY <1>6 DEF FetchAnswered, FetchFails, FetchEnds
  <2>4. QED
    BY <1>1, <2>1, <2>2, <2>3 DEF Reasons
<1>7. CASE SecretChanges \/ SyncBegins \/ PollBegins \/ StartedUp \/ Shutdown \/ ChildStopped
  <2>1. /\ phase' \in {phase, "syncing", "running", "stopping", "waiting"} /\ UNCHANGED <<source, grace, lag>>
        /\ events' \in {events, events + 1} /\ (events' # events => events < MaxEvents)
    BY <1>7 DEF SecretChanges, SyncBegins, PollBegins, StartedUp, Shutdown, ChildStopped, hostVars, vault, config
  <2>2. faults' \in 0..MaxFaults
    BY <1>1, <1>2, <1>7 DEF SecretChanges, SyncBegins, PollBegins, StartedUp, Shutdown, ChildStopped, hostVars
  <2>3. QED
    BY <1>1, <2>1, <2>2 DEF Phases
<1>8. ASSUME NEW h \in Handlers, PluginsTold(h) \/ Answered(h) \/ SecretRefused(h) \/ SecretFails(h) \/ UpToDate(h) \/ Restarted(h)
      PROVE  Good
  BY <1>1, <1>2, <1>8 DEF PluginsTold, Answered, SecretRefused, SecretFails, UpToDate, Restarted, hostVars, vault, config
<1>9. ASSUME NEW h \in Handlers, Deployed(h) \/ Unsaved(h) PROVE Good
  <2>1. UNCHANGED <<phase, source, events, grace, lag>>
    BY <1>9 DEF Deployed, Unsaved, vault
  <2>2. faults' \in 0..MaxFaults
    BY <1>1, <1>2, <1>9 DEF Deployed, Unsaved, Reload
  <2>3. QED
    BY <1>1, <2>1, <2>2
<1>10. ASSUME Ends, faults' \in 0..MaxFaults PROVE Good
  BY <1>1, <1>10 DEF Ends, ProcessEnds, Phases, vault, Reasons
<1>11. ASSUME NEW h \in Handlers, Cut(h) PROVE Good
  BY <1>2, <1>10, <1>11 DEF Cut
<1>12. CASE Exit \/ Killed
  BY <1>1, <1>2, <1>10, <1>12 DEF Exit, Killed
<1> HIDE DEF Good
<1>13. Good
  BY <1>3, <1>4, <1>5, <1>6, <1>7, <1>8, <1>9, <1>11, <1>12 DEF Next, HostNext, Good
<1>14. QED
  BY <1>13 DEF Good

LEMMA FetchTypeStep ==
  ASSUME IInv, [Next]_vars
  PROVE  fetches' \subseteq [key : 1..MaxKey, own : BOOLEAN, have : 0..MaxConfig, result : Results,
                             cfg : 0..MaxConfig]
<1> DEFINE Fetches == [key : 1..MaxKey, own : BOOLEAN, have : 0..MaxConfig, result : Results,
                       cfg : 0..MaxConfig]
<1>1. fetches \subseteq Fetches /\ cfgV \in 0..MaxConfig
  BY DEF IInv, TypeOK, HostTypeOK
<1>2. CASE Quiet \/ Saves \/ KeyUnsaved \/ KeptInMemory \/ Ending
  BY <1>1, <1>2 DEF Quiet, Saves, KeyUnsaved, KeptInMemory, Ending, ProcessEnds
<1>3. CASE HostStep
  <2>1. CASE Boot \/ GraceEnds
    BY <1>1, <2>1 DEF Boot, GraceEnds
  <2>2. CASE Push
    BY <1>1, <2>2, AskedFacts DEF Push
  <2>3. ASSUME NEW f \in fetches, FetchAnswered(f) PROVE fetches' \subseteq Fetches
    <3>1. PICK g \in [key : Nat, own : BOOLEAN, have : Nat, result : Results, cfg : Nat] :
            /\ fetches' = (fetches \ {f}) \union {g} /\ g.key = f.key /\ g.have = f.have
            /\ g.cfg \in {0, cfgV}
      BY <2>3, AnswerFacts
    <3>2. g \in Fetches
      BY <1>1, <3>1, BoundFacts
    <3>3. QED
      BY <1>1, <3>1, <3>2
  <2>4. ASSUME NEW f \in fetches, FetchFails(f) \/ FetchEnds(f) PROVE fetches' \subseteq Fetches
    BY <1>1, <2>4 DEF FetchFails, FetchEnds
  <2>5. QED
    BY <1>3, <2>1, <2>2, <2>3, <2>4 DEF HostStep
<1>4. QED
  BY <1>2, <1>3, NextCases

LEMMA HostTypeStep ==
  ASSUME IInv, [Next]_vars
  PROVE  HostTypeOK'
<1>1. Records' /\ cfgV' \in 1..MaxConfig /\ KeyShared'
  BY RecordsStep, KeyStep
<1>2. /\ disk'.cfg \in 0..MaxConfig /\ boot'.cfg \in 0..MaxConfig /\ mem'.cfg \in 0..MaxConfig
      /\ boot'.key \in Nat
  BY <1>1, BoundFacts DEF Records, Configurations
<1>3. keyV' \in 1..MaxKey /\ env' \in Nat /\ unsaved' \in BOOLEAN
  <2>1. keyV \in 1..MaxKey /\ env \in Nat /\ unsaved \in BOOLEAN /\ MaxKey \in Nat
    BY KeyFacts
  <2>2. CASE Quiet \/ KeptInMemory
    BY <2>1, <2>2 DEF Quiet, KeptInMemory, config, vault
  <2>3. CASE Saves
    <3>1. SavesKey(disk'.key)
      BY <2>3, SavesFacts
    <3>2. CASE UNCHANGED <<keyV, env, unsaved>>
      BY <2>1, <3>2
    <3>3. CASE Turns /\ env' = keyV' /\ unsaved' = FALSE
      <4>1. keyV' \in 1..MaxKey
        BY <2>1, <3>3 DEF Turns
      <4>2. env' \in Nat
        BY <2>1, <3>3, <4>1
      <4>3. unsaved' \in BOOLEAN
        BY <3>3
      <4>4. QED
        BY <4>1, <4>2, <4>3
    <3>4. QED
      BY <3>1, <3>2, <3>3 DEF SavesKey
  <2>4. CASE Ending
    BY <2>1, <2>4 DEF Ending, ProcessEnds, vault
  <2>5. CASE HostStep
    BY <2>1, <2>5 DEF HostStep, Boot, GraceEnds, Push, FetchAnswered, FetchFails, FetchEnds, vault
  <2>6. CASE KeyUnsaved
    BY <2>1, <2>6, KeyUnsavedFacts DEF KeyUnsaved
  <2>7. QED
    BY <2>2, <2>3, <2>4, <2>5, <2>6, NextCases
<1>4. disk'.key \in 1..MaxKey /\ env' \in 0..MaxKey /\ boot'.key \in 0..MaxKey
  <2>1. disk'.key \in 1..MaxKey
    BY <1>1, <1>3, BoundFacts DEF KeyShared
  <2>2. env' \in 0..MaxKey
    <3>1. env' = 0 \/ env' = keyV' \/ env' + 1 = keyV'
      BY <1>1 DEF KeyShared, Recent
    <3>2. keyV' \in 1..MaxKey /\ env' \in Nat /\ MaxKey \in Nat
      BY <1>3, BoundFacts
    <3>3. \A e \in Nat, k \in 1..MaxKey : e \in {0, k} \/ e + 1 = k => e \in 0..MaxKey
      BY <3>2
    <3>4. QED
      BY <3>1, <3>2, <3>3
  <2>3. boot'.key \in 0..MaxKey
    <3>1. CASE phase' # "down"
      BY <1>1, <3>1, BoundFacts DEF KeyShared
    <3>2. CASE phase' = "down"
      <4>1. boot.key \in 0..MaxKey
        BY DEF IInv, TypeOK, HostTypeOK
      <4>2. CASE Ending
        BY <4>2, EndingFacts, BoundFacts
      <4>3. CASE Quiet
        BY <4>1, <4>3 DEF Quiet, config
      <4>4. CASE HostStep
        <5>1. boot' = boot
          BY <3>2, <4>4, FetchEndsFacts DEF HostStep, Boot, GraceEnds, Push, FetchAnswered, FetchFails
        <5>2. QED
          BY <4>1, <5>1
      <4>5. ~Saves /\ ~KeyUnsaved
        BY <3>2 DEF Saves, KeyUnsaved
      <4>6. CASE KeptInMemory
        BY <4>1, <4>6, KeptFacts
      <4>7. QED
        BY <4>2, <4>3, <4>4, <4>5, <4>6, NextCases
    <3>3. QED
      BY <3>1, <3>2
  <2>4. QED
    BY <2>1, <2>2, <2>3
<1>5. QED
  BY <1>1, <1>2, <1>3, <1>4, CountersStep, FetchTypeStep DEF HostTypeOK

(* The versions in the output file, in the service and in the child. *)
LEMMA SecretStep ==
  ASSUME IInv, [Next]_vars
  PROVE  /\ {file', loaded'} \subseteq 0..secV' /\ child' \in (0..secV') \union {NoChild}
         /\ quirks' \subseteq ChildQuirks \union ReloadQuirks \union FileQuirks
         /\ phase' \in {"waiting", "down"} => child' = NoChild
<1> DEFINE Quirks == ChildQuirks \union ReloadQuirks \union FileQuirks
           Good == /\ {file', loaded'} \subseteq 0..secV' /\ child' \in (0..secV') \union {NoChild}
                   /\ quirks' \subseteq Quirks
                   /\ phase' \in {"waiting", "down"} => child' = NoChild
<1> SUFFICES Good
  OBVIOUS
<1>1. /\ {file, loaded} \subseteq 0..secV /\ child \in (0..secV) \union {NoChild} /\ quirks \subseteq Quirks
      /\ phase \in {"waiting", "down"} => child = NoChild
      /\ secV \in Nat /\ secV' \in Nat /\ secV' >= secV
      /\ \A h \in Handlers : task[h].v \in 0..secV
      /\ phase = "down" => \A h \in Handlers : task[h].pc = "none"
  BY TypeFacts, TaskStep, BoundFacts DEF IInv, TypeOK, Records, Ended
<1>2. \A k \in 0..secV : k \in 0..secV'
  BY <1>1
<1>3. ASSUME UNCHANGED <<file, loaded, child, quirks>>,
             phase' \in {"waiting", "down"} => phase \in {"waiting", "down"}
      PROVE  Good
  BY <1>1, <1>2, <1>3
<1>4. CASE UNCHANGED vars \/ (HostNext /\ UNCHANGED secretVars)
  <2>1. UNCHANGED <<file, loaded, child, quirks>>
    BY <1>4 DEF vars, secretVars
  <2>2. phase' \in {"waiting", "down"} => phase \in {"waiting", "down"}
    BY <1>4 DEF vars, hostVars, HostNext, Boot, BootFails, Bound, Up, Bind, BindUnsaved, GraceEnds, Push, FetchAnswered, FetchFails, FetchEnds
  <2>3. QED
    BY <1>3, <2>1, <2>2
<1>5. CASE SecretChanges \/ SyncBegins \/ PollBegins \/ Shutdown
  BY <1>3, <1>5 DEF SecretChanges, SyncBegins, PollBegins, Shutdown, hostVars, secretVars
<1>6. CASE StartedUp
  <2>1. UNCHANGED <<file, loaded>> /\ child' \in {child, file} /\ quirks' \subseteq quirks /\ phase' = "running"
    BY <1>6 DEF StartedUp
  <2>2. QED
    BY <1>1, <1>2, <2>1
<1>7. CASE ChildStopped
  BY <1>1, <1>2, <1>7 DEF ChildStopped
<1>8. ASSUME NEW h \in Handlers, PluginsTold(h) \/ Answered(h) \/ SecretRefused(h) \/ SecretFails(h) \/ UpToDate(h)
      PROVE  Good
  BY <1>3, <1>8 DEF PluginsTold, Answered, SecretRefused, SecretFails, UpToDate, hostVars
<1>9. ASSUME NEW h \in Handlers, Deployed(h) PROVE Good
  <2>1. file' = task[h].v /\ loaded' \in {loaded, task[h].v} /\ UNCHANGED <<phase, child>>
    BY <1>9 DEF Deployed, Reload
  <2>2. quirks' \subseteq quirks \union {"polled", "reload failed"}
    BY <1>9 DEF Deployed, Reload, Polled
  <2>3. QED
    BY <1>1, <1>2, <2>1, <2>2 DEF ChildQuirks, ReloadQuirks
<1>10. ASSUME NEW h \in Handlers, Unsaved(h) PROVE Good
  <2>1. file' = task[h].v /\ UNCHANGED <<loaded, phase, child>>
    BY <1>10 DEF Unsaved
  <2>2. quirks' \subseteq quirks \union {"unsaved", "believed"} \union FileQuirks
    BY <1>10 DEF Unsaved, Backdated
  <2>3. QED
    BY <1>1, <1>2, <2>1, <2>2 DEF ChildQuirks, ReloadQuirks
<1>11. ASSUME NEW h \in Handlers, Restarted(h) PROVE Good
  <2>1. UNCHANGED <<file, loaded, phase>> /\ phase # "down" /\ quirks' \subseteq quirks
    BY <1>1, <1>11 DEF Restarted, hostVars
  <2>2. child' = child \/ (child' = file /\ phase # "waiting")
    BY <1>11 DEF Restarted
  <2>3. QED
    BY <1>1, <1>2, <2>1, <2>2
<1>12. CASE Exit \/ Killed
  BY <1>1, <1>2, <1>12 DEF Exit, Killed, Ends
<1>13. ASSUME NEW h \in Handlers, Cut(h) PROVE Good
  <2>1. file' = task[h].v /\ loaded' = loaded /\ child' = NoChild
    BY <1>13 DEF Cut, Ends
  <2>2. quirks' \subseteq quirks \union {"cut"} \union FileQuirks
    BY <1>13 DEF Cut, Backdated
  <2>3. QED
    BY <1>1, <1>2, <2>1, <2>2 DEF ReloadQuirks
<1> HIDE DEF Good
<1>14. QED
  BY <1>4, <1>5, <1>6, <1>7, <1>8, <1>9, <1>10, <1>11, <1>12, <1>13 DEF Next

LEMMA InitIInv ==
  ASSUME Init
  PROVE  IInv
<1> USE BoundFacts DEF Init, HostInit
<1>1. PICK v \in {0, 1} : disk = [key |-> 1, cfg |-> v, sv |-> 0]
  OBVIOUS
<1>2. /\ disk \in Configurations /\ disk.key = 1 /\ disk.cfg = v /\ disk.sv = 0
      /\ boot \in Configurations /\ boot.key = 0 /\ boot.cfg = 0 /\ boot.sv = 0
      /\ mem \in Configurations /\ mem.key = 0 /\ mem.cfg = 0 /\ mem.sv = 0
  BY <1>1 DEF Nothing, Configurations
<1>3. /\ task \in Tasks
      /\ \A h \in Handlers : task[h].pc = "none" /\ task[h].v = 0
  BY DEF Idle, Tasks
<1>4. TypeOK
  <2>1. HostTypeOK
    <3>1. /\ disk.cfg \in 0..MaxConfig /\ boot.cfg \in 0..MaxConfig /\ mem.cfg \in 0..MaxConfig
          /\ disk.key \in 1..MaxKey /\ boot.key \in 0..MaxKey /\ v \in 0..MaxConfig
      BY <1>2
    <3>a. grace \in BOOLEAN /\ phase \in Phases
      BY DEF Phases
    <3>2. /\ source \in {"disk", "boot", "event"} /\ env \in 0..MaxKey
          /\ cfgV \in 1..MaxConfig /\ keyV \in 1..MaxKey /\ fetches = {} /\ lag = {}
          /\ events \in 0..MaxEvents /\ faults \in 0..MaxFaults
      OBVIOUS
    <3>3. QED
      BY <3>a, <3>1, <3>2 DEF HostTypeOK
  <2>2. QED
    BY <1>3, <2>1 DEF TypeOK, Tasks, NoChild
<1>5. Records /\ Ended /\ KeyShared /\ FetchKeys /\ CfgOrder /\ Current
  BY <1>2, <1>3 DEF Records, Ended, KeyShared, FetchKeys, CfgOrder, Current
<1>6. QED
  BY <1>4, <1>5 DEF IInv

LEMMA IInvStep ==
  ASSUME IInv, [Next]_vars
  PROVE  IInv'
<1>1. TypeOK'
  BY HostTypeStep, TaskStep, SecretStep DEF TypeOK, Tasks
<1>2. QED
  BY <1>1, RecordsStep, EndedStep, KeyStep, FetchKeysStep, CfgOrderStep, CurrentStep DEF IInv
-----------------------------------------------------------------------------
(* The strengthening is an invariant, for all events and all bounds. *)
THEOREM InvHolds == Spec => []IInv
<1>1. Init => IInv
  BY InitIInv
<1>2. IInv /\ [Next]_vars => IInv'
  BY IInvStep
<1>3. QED
  BY <1>1, <1>2, PTL DEF Spec

(* The configurations, the fetches, the deployments and the versions have their types, and a
   child that was stopped for the shutdown stays stopped. *)
THEOREM TypeCorrect == Spec => []TypeOK
<1>1. IInv => TypeOK
  BY DEF IInv
<1>2. QED
  BY <1>1, InvHolds, PTL

(* The daemon works with the newest key, and the file has it for the next start, wherever the
   configuration comes from and whichever object is saved (loadConfig, saveConfig,
   setConfigInMemory); when the newest key could not be saved, the daemon works with that one or
   the one before it until a bind saves it (updateManagedKey). *)
THEOREM KeyInUseHolds == Spec => []KeyInUse
<1>1. IInv => KeyInUse
  BY LoadedFacts, LoadedKey, KeyFacts DEF IInv, KeyShared, KeyInUse, Recent
<1>2. QED
  BY <1>1, InvHolds, PTL

(* A daemon without the vault's configuration and without a fetch under way missed an event,
   failed a fetch, applied answers out of order or asked with the key of its start
   (handleHostConfigEvent). *)
THEOREM LagExplained == Spec => []LagIsExplained
<1>1. IInv => LagIsExplained
  BY LoadedFacts DEF IInv, Current, Explained, LagIsExplained
<1>2. QED
  BY <1>1, InvHolds, PTL

(* The objects in memory share one auth: a fetch that is made with it is never refused, also
   when keys are rotated while it is under way, as long as the vault accepts the key in use. *)
MemoryNotRefused == \A f \in fetches : f.result = "refused" => f.own \/ ~Accepts(Loaded.key)
THEOREM MemoryFetches == Spec => []MemoryNotRefused
<1>1. IInv => MemoryNotRefused
  BY LoadedFacts DEF IInv, FetchKeys, MemoryNotRefused
<1>2. QED
  BY <1>1, InvHolds, PTL
=============================================================================
