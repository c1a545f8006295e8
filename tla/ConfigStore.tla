---------------------------- MODULE ConfigStore ----------------------------
(***************************************************************************)
(* lib/config/: config.json and the file of the managed key, written by    *)
(* the agent while a command of another process edits the configuration.   *)
(* A process runs its JavaScript without interruption, but the other       *)
(* process and a crash come between any two calls of the file system:      *)
(* writeFileSync empties the file before it fills it.                      *)
(***************************************************************************)
EXTENDS Naturals, FiniteSets

CONSTANTS
  Certs,      \* certificates a target can be added for
  Secrets,    \* secrets a target can be added for
  None,       \* undefined, a file that is missing
  Torn,       \* a file that was cut short: it does not parse, it has no znv_ key
  MaxKey,     \* bound: keys the vault hands out
  MaxCommands,\* bound: commands of the other process
  MaxTrouble  \* bound: file operations that fail, deaths of either process and damages of
              \* the key file by somebody else, together

Keys == 0..MaxKey

ASSUME BoundsAssumption == {MaxKey, MaxCommands, MaxTrouble} \subseteq Nat
ASSUME NoneAssumption == None \notin Keys /\ Torn \notin Keys \cup {None}

VARIABLES
  serverKey,  \* the newest key the vault has handed out
  config,     \* config.json
  keyFile,    \* managedKey.filePath
  backup,     \* its .backup
  temp,       \* its .tmp.<pid>
  env,        \* ZNVAULT_API_KEY of the agent
  agent,      \* the agent: where it is, what it writes
  cli,        \* the command that runs next to it
  stored,     \* history: the last configuration written to the end
  raced,      \* history: two processes overlapped between load and save
  cut,        \* history: a write of config.json did not end
  missed,     \* history: the key file was not brought up to the stored key
  commands, trouble \* what has been used of the bounds

fileVars  == <<config, keyFile, backup, temp>>
ghostVars == <<stored, raced, cut, missed>>
bounds    == <<commands, trouble>>
vars == <<serverKey, fileVars, env, agent, cli, ghostVars, bounds>>

Register == INSTANCE ConfigRegister
              WITH Targets <- Certs \cup Secrets, value <- stored, intact <- ~(raced \/ cut)

Config == Register!Config
Empty  == Register!Empty

ASSUME TornAssumption == Torn \notin Config

(* A process: at "load" it has the configuration in its hands, at "write" it has emptied
   config.json; "copy", "temp", "fill" and "rename" are the steps of
   writeManagedKeyToFile; "ask" and "bind" are the awaits of the login command. *)
Process == [at : {"down", "idle", "load", "write", "backup", "copy", "temp", "fill", "rename",
                  "ask", "self", "bind"},
            op : {"none", "bind", "mark", "rotate", "sync", "start", "edit", "login", "tenant", "bound"},
            cfg : Config, key : Keys \cup {None}, again : BOOLEAN]
Idle == [at |-> "idle", op |-> "none", cfg |-> Empty, key |-> None, again |-> FALSE]

Busy(p) == p.at \in {"load", "write", "ask", "self", "bind"}

(* loadConfig(): a file that does not parse counts as an empty configuration, and the
   agent's environment overrides the key. *)
Loaded(override) ==
  LET read == IF config = Torn THEN Empty ELSE config
  IN  IF override = None THEN read ELSE Register!WithKey(read, override)
-----------------------------------------------------------------------------
Init ==
  /\ serverKey = 0
  /\ config = [Empty EXCEPT !.key = 0, !.managed = TRUE, !.file = TRUE, !.tls = TRUE,
                            !.targets = Certs \cup Secrets]
  /\ keyFile = 0 /\ backup = None /\ temp = None
  /\ env = None /\ agent = [Idle EXCEPT !.at = "down"] /\ cli = Idle
  /\ stored = config /\ raced = FALSE /\ cut = FALSE /\ missed = FALSE
  /\ commands = 0 /\ trouble = 0

(* The agent loads the configuration and goes on to save c. *)
AgentSaves(op, c, k) ==
  /\ agent' = [Idle EXCEPT !.at = "load", !.op = op, !.cfg = c, !.key = k]
  /\ raced' = (raced \/ Busy(cli))

(* updateManagedKey() after a bind; without a managed key it only warns. *)
BindKey(k) ==
  /\ agent.at = "idle" /\ k \in {serverKey, serverKey + 1} \cap Keys
  /\ serverKey' = k
  /\ IF Loaded(env).managed
     THEN AgentSaves("bind", Register!WithKey(Loaded(env), k), k)
     ELSE UNCHANGED <<agent, raced>>
  /\ UNCHANGED <<fileVars, env, cli, stored, cut, missed, bounds>>

(* updateTargetFingerprint() and updateSecretTargetVersion() after a deployment. *)
MarkSynced(x) ==
  /\ agent.at = "idle" /\ x \in Loaded(env).targets
  /\ AgentSaves("mark", Register!WithMark(Loaded(env), x), None)
  /\ UNCHANGED <<serverKey, fileVars, env, cli, stored, cut, missed, bounds>>
RecordPrint(c)   == c \in Certs /\ MarkSynced(c)
RecordVersion(s) == s \in Secrets /\ MarkSynced(s)

(* updateApiKey() reads the file itself, without the environment, and throws when it does
   not parse. *)
RotateKey ==
  /\ agent.at = "idle" /\ serverKey < MaxKey /\ config # Torn
  /\ serverKey' = serverKey + 1
  /\ AgentSaves("rotate", Register!WithKey(config, serverKey + 1), serverKey + 1)
  /\ UNCHANGED <<fileVars, env, cli, stored, cut, missed, bounds>>

(* Mutant: only a missing file is written. *)
SyncBegins_MissingOnly(op, override) ==
  LET c == Loaded(override)
  IN  agent' = IF c.file /\ c.key # None /\ keyFile = None
               THEN [Idle EXCEPT !.at = "backup", !.op = op, !.key = c.key]
               ELSE Idle

(* syncManagedKeyFile(), by the 60 second timer and at the start. *)
SyncBegins(op, override) ==
  LET c == Loaded(override)
  IN  agent' = IF c.file /\ c.key # None /\ keyFile # c.key
               THEN [Idle EXCEPT !.at = "backup", !.op = op, !.key = c.key,
                                 !.again = keyFile \notin Keys /\ backup = c.key]
               ELSE Idle
SyncKeyFile ==
  /\ agent.at = "idle" /\ SyncBegins("sync", env) /\ agent' # Idle
  /\ UNCHANGED <<serverKey, fileVars, env, cli, ghostVars, bounds>>

(* The daemon starts only with a configured agent, and synchronises the key file first. *)
StartAgent ==
  /\ agent.at = "down" /\ Loaded(None).key # None
  /\ SyncBegins("start", None)
  /\ UNCHANGED <<serverKey, fileVars, env, cli, ghostVars, bounds>>
-----------------------------------------------------------------------------
(* saveConfig() opens the file, which empties it, ... *)
Truncate(p) ==
  /\ p.at = "load" /\ p.op # "rotate"
  /\ config' = Torn

(* ... and fills it. *)
Fill(p) ==
  /\ \/ p.at = "write"
     \/ p.at = "load" /\ p.op = "rotate" \* updateApiKey renames a file it has filled
  /\ config' = p.cfg /\ stored' = p.cfg
  /\ missed' = (missed \/ (p.cfg.key # stored.key /\ ~(p.op = "bind" /\ p.cfg.file)))

AgentTruncates ==
  /\ Truncate(agent) /\ agent' = [agent EXCEPT !.at = "write"]
  /\ UNCHANGED <<serverKey, keyFile, backup, temp, env, cli, ghostVars, bounds>>

(* Mutant: the key file is left to the timer. *)
AgentFills_NoFile ==
  /\ Fill(agent)
  /\ env' = IF agent.op \in {"bind", "rotate"} THEN agent.key ELSE env
  /\ agent' = Idle
  /\ UNCHANGED <<serverKey, keyFile, backup, temp, cli, raced, cut, bounds>>

(* A bind goes on to the environment and the key file. *)
AgentFills ==
  /\ Fill(agent)
  /\ env' = IF agent.op \in {"bind", "rotate"} THEN agent.key ELSE env
  /\ agent' = IF agent.op = "bind" /\ agent.cfg.file
              THEN [agent EXCEPT !.at = "backup", !.cfg = Empty] ELSE Idle
  /\ UNCHANGED <<serverKey, keyFile, backup, temp, cli, raced, cut, bounds>>

(* The write fails: saveConfig throws and the bind ends before the environment. *)
AgentSaveFails ==
  /\ agent.at = "write" /\ trouble < MaxTrouble /\ trouble' = trouble + 1
  /\ agent' = Idle /\ cut' = TRUE
  /\ UNCHANGED <<serverKey, fileVars, env, cli, stored, raced, missed, commands>>
-----------------------------------------------------------------------------
(* writeManagedKeyToFile(): a file with a key is copied to the backup, which empties the
   backup first; a copy that fails is passed over, ... *)
CopyToBackup ==
  /\ \/ /\ agent.at = "backup" /\ keyFile \in Keys
        /\ backup' = Torn /\ agent' = [agent EXCEPT !.at = "copy"]
     \/ /\ agent.at = "backup" /\ keyFile \notin Keys
        /\ agent' = [agent EXCEPT !.at = "temp"] /\ UNCHANGED backup
     \/ /\ agent.at = "copy" /\ backup' = keyFile /\ agent' = [agent EXCEPT !.at = "temp"]
  /\ UNCHANGED <<serverKey, config, keyFile, temp, env, cli, ghostVars, bounds>>

CopyFails ==
  /\ agent.at \in {"backup", "copy"} /\ keyFile \in Keys
  /\ trouble < MaxTrouble /\ trouble' = trouble + 1
  /\ agent' = [agent EXCEPT !.at = "temp"]
  /\ UNCHANGED <<serverKey, fileVars, env, cli, ghostVars, commands>>

WriteTemp_InPlace ==
  /\ \/ /\ agent.at = "temp" /\ keyFile' = Torn /\ UNCHANGED temp
        /\ agent' = [agent EXCEPT !.at = "fill"]
     \/ /\ agent.at = "fill" /\ temp' = agent.key /\ UNCHANGED keyFile
        /\ agent' = [agent EXCEPT !.at = "rename"]
  /\ UNCHANGED <<serverKey, config, backup, env, cli, ghostVars, bounds>>

(* ... the key goes to a file of its own, to the disk, ... *)
WriteTemp ==
  /\ \/ agent.at = "temp" /\ temp' = Torn /\ agent' = [agent EXCEPT !.at = "fill"]
     \/ agent.at = "fill" /\ temp' = agent.key /\ agent' = [agent EXCEPT !.at = "rename"]
  /\ UNCHANGED <<serverKey, config, keyFile, backup, env, cli, ghostVars, bounds>>

(* ... and takes the place of the key file in one step. *)
Rename ==
  /\ agent.at = "rename"
  /\ keyFile' = temp /\ temp' = None /\ missed' = (temp # stored.key) /\ agent' = Idle
  /\ UNCHANGED <<serverKey, config, backup, env, cli, stored, raced, cut, bounds>>

(* A failure removes the temporary file; the bind passes it over, the restore from a
   matching backup is followed by a second attempt, and a start gives up. *)
KeyWriteFails ==
  /\ agent.at \in {"temp", "fill", "rename"} /\ trouble < MaxTrouble /\ trouble' = trouble + 1
  /\ temp' = None /\ missed' = TRUE
  /\ agent' = IF agent.again THEN [agent EXCEPT !.at = "backup", !.again = FALSE]
              ELSE IF agent.op = "start" THEN [Idle EXCEPT !.at = "down"] ELSE Idle
  /\ UNCHANGED <<serverKey, config, keyFile, backup, env, cli, stored, raced, cut, commands>>
-----------------------------------------------------------------------------
(* A command loads the configuration ... *)
CommandLoads(op, c, at) ==
  /\ cli.at = "idle" /\ commands < MaxCommands /\ commands' = commands + 1
  /\ cli' = [Idle EXCEPT !.at = at, !.op = op, !.cfg = c]
  /\ raced' = (raced \/ Busy(agent))
  /\ UNCHANGED <<serverKey, fileVars, env, agent, stored, cut, missed, trouble>>

(* ... and saves it at once, after all its questions: add and remove, the same for
   secrets, and tls enable and disable ... *)
Edit(c) == Loaded(None).key # None /\ CommandLoads("edit", c, "load")

(* Mutant: the command starts from the defaults. *)
AddTarget_Fresh(c) == c \in Certs /\ Edit(Register!WithTarget(Empty, c))

AddTarget(c)       == c \in Certs /\ Edit(Register!WithTarget(Loaded(None), c))
AddSecretTarget(s) == s \in Secrets /\ Edit(Register!WithTarget(Loaded(None), s))
RemoveTarget(c)    == /\ c \in Certs \cap Loaded(None).targets
                      /\ Edit(Register!Without(Loaded(None), c))
RemoveSecretTarget(s) == /\ s \in Secrets \cap Loaded(None).targets
                         /\ Edit(Register!Without(Loaded(None), s))
EnableTls  == Edit(Register!WithTls(Loaded(None), TRUE))
DisableTls == Loaded(None).tls /\ Edit(Register!WithTls(Loaded(None), FALSE))

(* ... or after its questions: login. *)
LoginStarts == CommandLoads("login", Loaded(None), "ask")

(* The answer clears managedKey and takes the key that was typed. *)
LoginAnswered ==
  /\ cli.at = "ask"
  /\ cli' = [cli EXCEPT !.at = "load", !.cfg = Register!WithLogin(@, serverKey)]
  /\ UNCHANGED <<serverKey, fileVars, env, agent, ghostVars, bounds>>

(* The vault names the managed key (the tenant is saved first) and hands out its value. *)
LoginAccount ==
  /\ cli.at = "self" /\ cli' = [cli EXCEPT !.at = "load", !.op = "tenant"]
  /\ UNCHANGED <<serverKey, fileVars, env, agent, ghostVars, bounds>>
LoginBound ==
  /\ cli.at = "bind"
  /\ cli' = [cli EXCEPT !.at = "load", !.op = "bound", !.cfg = Register!WithBinding(@, serverKey)]
  /\ UNCHANGED <<serverKey, fileVars, env, agent, ghostVars, bounds>>

(* A request of login fails: what was saved so far stays. *)
LoginFails ==
  /\ cli.at \in {"self", "bind"} /\ cli' = Idle
  /\ UNCHANGED <<serverKey, fileVars, env, agent, ghostVars, bounds>>

CommandTruncates ==
  /\ Truncate(cli) /\ cli' = [cli EXCEPT !.at = "write"]
  /\ UNCHANGED <<serverKey, keyFile, backup, temp, env, agent, ghostVars, bounds>>
CommandFills ==
  /\ Fill(cli)
  /\ cli' = IF cli.op = "login" THEN [cli EXCEPT !.at = "self"]
            ELSE IF cli.op = "tenant" THEN [cli EXCEPT !.at = "bind"]
            ELSE Idle
  /\ UNCHANGED <<serverKey, keyFile, backup, temp, env, agent, raced, cut, bounds>>
-----------------------------------------------------------------------------
(* A process dies.  The agent's next life has a new environment and another pid: the
   startup cleanup knows other names and leaves the temporary file. *)
AgentCrashes ==
  /\ agent.at # "down" /\ trouble < MaxTrouble /\ trouble' = trouble + 1
  /\ agent' = [Idle EXCEPT !.at = "down"] /\ env' = None
  /\ cut' = (cut \/ agent.at = "write")
  /\ missed' = (missed \/ agent.at \in {"backup", "copy", "temp", "fill", "rename"})
  /\ UNCHANGED <<serverKey, fileVars, cli, stored, raced, commands>>
CommandCrashes ==
  /\ cli.at # "idle" /\ trouble < MaxTrouble /\ trouble' = trouble + 1
  /\ cli' = Idle /\ cut' = (cut \/ cli.at = "write")
  /\ UNCHANGED <<serverKey, fileVars, env, agent, stored, raced, missed, commands>>

(* Somebody else removes or damages the key file. *)
KeyFileDamaged ==
  /\ trouble < MaxTrouble /\ trouble' = trouble + 1
  /\ keyFile' \in {None, Torn} /\ missed' = TRUE
  /\ UNCHANGED <<serverKey, config, backup, temp, env, agent, cli, stored, raced, cut, commands>>

AgentStep == \/ AgentTruncates \/ AgentFills \/ CopyToBackup \/ WriteTemp \/ Rename
CommandStep == CommandTruncates \/ CommandFills

Next == \/ \E k \in Keys : BindKey(k)
        \/ \E c \in Certs : RecordPrint(c) \/ AddTarget(c) \/ RemoveTarget(c)
        \/ \E s \in Secrets : RecordVersion(s) \/ AddSecretTarget(s) \/ RemoveSecretTarget(s)
        \/ RotateKey \/ SyncKeyFile \/ StartAgent
        \/ AgentStep \/ AgentSaveFails \/ CopyFails \/ KeyWriteFails
        \/ EnableTls \/ DisableTls \/ LoginStarts \/ LoginAnswered \/ LoginAccount \/ LoginBound \/ LoginFails
        \/ CommandStep \/ AgentCrashes \/ CommandCrashes \/ KeyFileDamaged

Spec == Init /\ [][Next]_vars

(* The agent runs and is started again by the service manager, its timer fires, and a
   command ends once it saves; what a person or the vault does is not fair. *)
Fairness == /\ WF_vars(AgentStep) /\ WF_vars(StartAgent) /\ WF_vars(SyncKeyFile)
            /\ WF_vars(CommandStep)
FairSpec == Spec /\ Fairness
-----------------------------------------------------------------------------
TypeOK ==
  /\ serverKey \in Keys
  /\ config \in Config \cup {Torn} /\ stored \in Config
  /\ {keyFile, backup, temp} \subseteq Keys \cup {None, Torn}
  /\ env \in Keys \cup {None}
  /\ agent \in Process /\ cli \in Process
  /\ {raced, cut, missed} \subseteq BOOLEAN
  /\ agent.at \in {"backup", "copy", "temp", "fill", "rename"} => agent.key \in Keys
  /\ agent.at = "rename" => temp = agent.key
  /\ commands \in 0..MaxCommands /\ trouble \in 0..MaxTrouble

(* The newest key that was stored is never out of reach: it is in config.json, in the key
   file or in the running agent, also when processes overlap and writes are cut, unless the
   key file was not brought up to it.  (A save empties config.json, so the order of
   updateManagedKey matters.) *)
NoKeyLost ==
  \/ config # Torn /\ config.key = stored.key
  \/ stored.key \in {keyFile, env}
  \/ missed

(* No step of the agent leaves part of a key in the key file, and without an overlap none
   puts an older key in the place of a newer one. *)
KeyFileMovesForward ==
  [][agent' # agent /\ keyFile' # keyFile =>
       keyFile' \in Keys /\ (keyFile \in Keys /\ ~raced => keyFile' >= keyFile)]_vars

(* A key file that was damaged, or whose write failed, gets the agent's key, unless the
   configuration is lost or no longer names the file. *)
KeyFileRepaired ==
  (config # Torn /\ config.file)
    ~> (config = Torn \/ ~config.file \/ keyFile = Loaded(env).key)

(* config.json is the register that ConfigRegister promises. *)
UpdatesAreAtomic == Register!Spec
=============================================================================
