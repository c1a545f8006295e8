----------------------------- MODULE HostConfig -----------------------------
(***************************************************************************)
(* Where the agent's configuration comes from in config-from-vault mode:   *)
(* commands/start.ts fetches the configuration of the host at startup,     *)
(* handleHostConfigEvent() of lib/websocket.ts fetches it again when the   *)
(* vault announces a change, loadConfig() and saveConfig() go to the       *)
(* object in memory or to the file.  A save of the object in memory writes *)
(* all of it to the file, its version too, and the next start then has the *)
(* vault answer 304 and runs from the file.                                *)
(*                                                                         *)
(* The configuration is represented by its version, the API key in it and  *)
(* the version recorded for one secret target.  Daemon extends the module  *)
(* with the deployment of that secret.                                     *)
(***************************************************************************)
EXTENDS Naturals, FiniteSets

CONSTANTS
  MaxConfig,   \* bound: versions of the configuration in the vault
  MaxKey,      \* bound: API keys
  MaxEvents,   \* bound: events about the configuration, and those that an extension adds
  MaxFaults    \* bound: failed requests, lost events, signals and kills

ASSUME HostConfigAssumption ==
  MaxConfig \in Nat \ {0} /\ MaxKey \in Nat \ {0} /\ MaxEvents \in Nat /\ MaxFaults \in Nat

VARIABLES
  phase,   \* of the process, see Phases
  disk,    \* config.json
  source,  \* what loadConfig() returns: "disk", "boot" (startDaemon's object, in memory) or
           \* "event" (the object set by the last host config event)
  boot,    \* startDaemon's object; in memory or not, its auth is that of every object in memory
  mem,     \* the object of the last host config event
  env,     \* process.env.ZNVAULT_API_KEY, set by rotations, 0 for not set
  cfgV,    \* the vault: version of the host's configuration
  keyV,    \* the vault: the agent's newest key
  grace,   \* the vault: the key before it is still accepted
  fetches, \* fetches of handleHostConfigEvent() under way or answered
  unsaved, \* history: the newest key could not be saved, and has not been since
  lag,     \* history: why the agent may run an old configuration
  events,  \* events so far
  faults   \* faults so far

vault    == <<cfgV, keyV, grace>>
hostVars == <<phase, disk, source, boot, mem, env, vault, fetches, unsaved, lag, events, faults>>

Phases  == {"down", "starting", "syncing", "running", "stopping", "waiting"}
Up      == phase \in {"starting", "syncing", "running"}
Nothing == [key |-> 0, cfg |-> 0, sv |-> 0]
Reasons == {"missed", "failed", "overtaken", "outdated key", "refused"}
Results == {"asked", "config", "same", "refused"}

Fault == faults < MaxFaults /\ faults' = faults + 1

(* loadConfig(), with the environment's key over that of the configuration. *)
Loaded ==
  LET c == CASE source = "disk" -> disk [] source = "boot" -> boot [] source = "event" -> mem
      k == IF source = "event" THEN boot.key ELSE c.key
  IN  [c EXCEPT !.key = IF env # 0 THEN env ELSE k]

(* Mutant: the object of an event has a copy of auth. *)
SaveConfig_Copy(c) ==
  /\ disk' = c
  /\ boot' = IF source = "boot" THEN c ELSE boot
  /\ mem' = IF source = "event" THEN c ELSE mem

(* An update of the configuration: loadConfig(), a change of the object, saveConfig(). *)
SaveConfig(c) ==
  /\ disk' = c
  /\ boot' = IF source = "boot" THEN c ELSE IF source = "event" THEN [boot EXCEPT !.key = c.key] ELSE boot
  /\ mem' = IF source = "event" THEN c ELSE mem

Accepts(k) == k = keyV \/ (grace /\ k + 1 = keyV)

HostInit ==
  /\ phase = "down" /\ source = "disk" /\ boot = Nothing /\ mem = Nothing /\ env = 0
  /\ cfgV = 1 /\ keyV = 1 /\ grace = FALSE
  /\ disk \in {[key |-> 1, cfg |-> v, sv |-> 0] : v \in {0, 1}}
  /\ fetches = {} /\ unsaved = FALSE /\ lag = {} /\ events = 0 /\ faults = 0
-----------------------------------------------------------------------------
(* The start command: the version in the file goes with the request; a new configuration is
   kept in memory only, and without one the daemon loads the file. *)
Boot ==
  /\ phase = "down" /\ Accepts(disk.key) /\ phase' = "starting"
  /\ IF disk.cfg = cfgV
       THEN source' = "disk" /\ boot' = disk
       ELSE source' = "boot" /\ boot' = [key |-> disk.key, cfg |-> cfgV, sv |-> 0]
  /\ lag' = {} /\ UNCHANGED <<disk, mem, env, vault, fetches, unsaved, events, faults>>

(* The configuration cannot be fetched: the start command exits and systemd starts it again, in
   vain when the vault refuses the file's key. *)
BootFails ==
  /\ Fault /\ phase = "down"
  /\ UNCHANGED <<phase, disk, source, boot, mem, env, vault, fetches, unsaved, lag, events>>

(* What is left when the process has ended. *)
ProcessEnds ==
  /\ phase' = "down" /\ source' = "disk" /\ boot' = Nothing /\ mem' = Nothing /\ env' = 0
  /\ fetches' = {} /\ lag' = {}

(* A bind of the managed key: the answer has the key that was rotated just before, or the one the
   agent was given last (ManagedKey has the protocol). *)
Bound ==
  /\ Up /\ Accepts(Loaded.key)
  /\ \/ keyV < MaxKey /\ ~grace /\ keyV' = keyV + 1 /\ grace' = TRUE
     \/ UNCHANGED <<keyV, grace>>

(* Mutant: the environment keeps the key of the start. *)
Bind_KeepsEnv ==
  /\ Bound /\ SaveConfig([Loaded EXCEPT !.key = keyV']) /\ UNCHANGED env /\ unsaved' = FALSE
  /\ UNCHANGED <<phase, source, cfgV, fetches, lag, events, faults>>

(* updateManagedKey() stores the key. *)
Bind ==
  /\ Bound /\ SaveConfig([Loaded EXCEPT !.key = keyV']) /\ env' = keyV' /\ unsaved' = FALSE
  /\ UNCHANGED <<phase, source, cfgV, fetches, lag, events, faults>>

(* The configuration cannot be saved: the file has the old key, and so has the environment, which
   the next loadConfig() puts over the new key in memory.  Until the next bind, nothing tries
   again. *)
BindUnsaved ==
  /\ Bound /\ Fault /\ unsaved' = (unsaved \/ keyV' # keyV)
  /\ boot' = IF source # "disk" /\ env = 0 THEN [boot EXCEPT !.key = keyV'] ELSE boot
  /\ UNCHANGED <<phase, disk, source, mem, env, cfgV, fetches, lag, events>>

(* The grace period is longer than the 30 seconds a request may take. *)
GraceEnds ==
  /\ grace /\ grace' = FALSE
  /\ \A f \in fetches : f.result # "asked" \/ f.key = keyV
  /\ UNCHANGED <<phase, disk, source, boot, mem, env, cfgV, keyV, fetches, unsaved, lag, events, faults>>
-----------------------------------------------------------------------------
(* The request of handleHostConfigEvent(), made of startDaemon's object, which with a configuration
   from the file is its own: nothing updates the key in it. *)
Asked(force) ==
  [key |-> boot.key, own |-> source = "disk", have |-> IF force THEN 0 ELSE boot.cfg,
   result |-> "asked", cfg |-> 0]

(* The vault has a new version, or an operator pushes the one it has; the event reaches the
   running agent, or is lost with the connection; during the startup it is taken as lost. *)
Push ==
  /\ events < MaxEvents /\ events' = events + 1
  /\ cfgV' \in {cfgV, cfgV + 1} \cap 1..MaxConfig
  /\ \/ /\ phase = "running" /\ \E force \in BOOLEAN : fetches' = fetches \union {Asked(force)}
        /\ UNCHANGED <<lag, faults>>
     \/ phase = "running" /\ Fault /\ lag' = lag \union {"missed"} /\ UNCHANGED fetches
     \/ phase # "running" /\ lag' = lag \union {"missed"} /\ UNCHANGED <<fetches, faults>>
  /\ UNCHANGED <<phase, disk, source, boot, mem, env, keyV, grace, unsaved>>

(* fetchConfigFromVault(), at the vault. *)
FetchAnswered(f) ==
  /\ f.result = "asked"
  /\ LET r == IF ~Accepts(f.key) THEN "refused" ELSE IF f.have = cfgV THEN "same" ELSE "config"
     IN  fetches' = (fetches \ {f}) \union {[f EXCEPT !.result = r, !.cfg = IF r = "config" THEN cfgV ELSE 0]}
  /\ UNCHANGED <<phase, disk, source, boot, mem, env, vault, unsaved, lag, events, faults>>

(* The request fails or its answer cannot be parsed; nothing tries again. *)
FetchFails(f) ==
  /\ Fault /\ fetches' = fetches \ {f} /\ lag' = lag \union {"failed"}
  /\ UNCHANGED <<phase, disk, source, boot, mem, env, vault, unsaved, events>>

(* setConfigInMemory(): the answer replaces the object in memory and what was recorded in it;
   auth is startDaemon's, and the next loadConfig() puts the environment's key there. *)
SetConfigInMemory(v) ==
  /\ source' = "event"
  /\ boot' = [boot EXCEPT !.key = IF env # 0 THEN env ELSE boot.key]
  /\ mem' = [key |-> boot'.key, cfg |-> v, sv |-> 0]

(* handleHostConfigEvent() with the answer.  Answers are applied in the order they come. *)
FetchEnds(f) ==
  /\ f.result # "asked" /\ fetches' = fetches \ {f}
  /\ \/ f.result = "same" /\ UNCHANGED <<source, boot, mem, lag>>
     \/ /\ f.result = "refused" /\ UNCHANGED <<source, boot, mem>>
        /\ lag' = lag \union {IF f.own \/ unsaved THEN "outdated key" ELSE "refused"}
     \/ /\ f.result = "config" /\ SetConfigInMemory(f.cfg)
        /\ lag' = IF f.cfg < Loaded.cfg THEN lag \union {"overtaken"} ELSE lag
  /\ UNCHANGED <<phase, disk, env, vault, unsaved, events, faults>>
-----------------------------------------------------------------------------
HostNext ==
  \/ Boot \/ BootFails \/ Bind \/ BindUnsaved \/ GraceEnds \/ Push
  \/ \E f \in fetches : FetchAnswered(f) \/ FetchFails(f) \/ FetchEnds(f)

HostTypeOK ==
  /\ phase \in Phases /\ source \in {"disk", "boot", "event"} /\ grace \in BOOLEAN
  /\ disk.key \in 1..MaxKey /\ disk.cfg \in 0..MaxConfig
  /\ boot.key \in 0..MaxKey /\ boot.cfg \in 0..MaxConfig
  /\ mem.cfg \in 0..MaxConfig /\ env \in 0..MaxKey
  /\ cfgV \in 1..MaxConfig /\ keyV \in 1..MaxKey
  /\ fetches \subseteq [key : 1..MaxKey, own : BOOLEAN, have : 0..MaxConfig, result : Results,
                    cfg : 0..MaxConfig]
  /\ unsaved \in BOOLEAN /\ lag \subseteq Reasons /\ events \in 0..MaxEvents /\ faults \in 0..MaxFaults

(* The daemon works with the newest key wherever its configuration comes from, and the file has
   that key for the next start: a configuration from the vault, or an older object that is
   saved again, never brings a key back that was rotated out.  Only a key that could not be saved
   is missing, until a later bind saves it; the daemon then works with it or the one before. *)
KeyInUse ==
  phase # "down" => IF unsaved THEN Loaded.key \in {keyV - 1, keyV} ELSE Loaded.key = keyV /\ disk.key = keyV

(* When no fetch is under way the daemon has the vault's configuration, unless an event was
   missed, its fetch failed, an older answer came last, or the daemon asked with an old key: it
   started from the file and asked with the key of that start, or could not save the new one.
   Otherwise the objects in memory share one auth, and with them a fetch is never refused. *)
LagIsExplained ==
  phase = "running" /\ fetches = {} /\ Loaded.cfg # cfgV
    => lag \cap {"missed", "failed", "overtaken", "outdated key"} # {}
-----------------------------------------------------------------------------
(* Not kept by the code. *)

(* The key that loadConfig() returns is one the vault accepts, as the comment in
   updateManagedKey() on the environment wants it: a new key that could not be saved has to be
   saved by a bind within the grace period. *)
KeyAccepted == Accepts(Loaded.key)
=============================================================================
