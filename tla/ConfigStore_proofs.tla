------------------------- MODULE ConfigStore_proofs -------------------------
(***************************************************************************)
(* Proofs about the configuration file and the file of the managed key,    *)
(* for every set of targets, every number of keys, commands and troubles.  *)
(***************************************************************************)
EXTENDS ConfigStore, TLAPS

Writing == {"load", "write"}
KeyFilePhase == {"backup", "copy", "temp", "fill", "rename"}
OldKey(k, new) == k \in Keys => k <= new

(* What the steps of either process are at, beyond the types. *)
Shape ==
  /\ stored.key \in Keys
  /\ config \in {Torn, stored}
  /\ agent.at \in {"down", "idle"} \cup Writing \cup KeyFilePhase
  /\ agent.at \in Writing => /\ agent.cfg.key \in Keys
                             /\ agent.op \in {"bind", "mark", "rotate"}
                             /\ agent.op \in {"bind", "rotate"}
                                  => agent.key = serverKey /\ agent.cfg.key = serverKey
  /\ agent.at = "down" \/ (agent.at \in KeyFilePhase /\ agent.op = "start") => env = None
  /\ cli.at \in {"idle", "ask", "self", "bind"} \cup Writing
  /\ cli.op \in {"none", "edit", "login", "tenant", "bound"}
  /\ cli.at \in {"self", "bind"} \cup Writing => cli.cfg.key \in Keys

(* Nobody knows a key the vault has not handed out. *)
Handed ==
  /\ OldKey(stored.key, serverKey) /\ OldKey(keyFile, serverKey) /\ OldKey(env, serverKey)
  /\ OldKey(agent.key, serverKey) /\ OldKey(agent.cfg.key, serverKey) /\ OldKey(cli.cfg.key, serverKey)

(* The key file is behind the stored key only while the agent is on its way to it, or when
   something was missed. *)
FileFollows ==
  missed \/ keyFile = stored.key \/ (env = stored.key /\ agent.at \in KeyFilePhase)

(* Without an overlap the keys in the key file, in the environment and in the configuration
   are of that age, and the agent writes none that is older than the one in the key file. *)
KeyOrder ==
  ~raced =>
    /\ ~(Busy(agent) /\ Busy(cli))
    /\ OldKey(keyFile, stored.key) /\ OldKey(env, stored.key)
    /\ env # None => OldKey(keyFile, env)
    /\ agent.at \in KeyFilePhase =>
         /\ OldKey(keyFile, agent.key) /\ agent.key <= stored.key
         /\ env # None => agent.key = env
    /\ agent.at \in Writing => /\ OldKey(keyFile, agent.cfg.key)
                               /\ env # None /\ agent.op = "mark" => agent.cfg.key = env
    /\ cli.at \in {"self", "bind"} \cup Writing => stored.key <= cli.cfg.key

(* Without an overlap and a cut write, what a process has in its hands is the stored
   configuration, or the update of it that is saved next. *)
HoldsUpdate ==
  ~raced /\ ~cut =>
    /\ config = Torn => agent.at = "write" \/ cli.at = "write"
    /\ agent.at \in Writing => agent.cfg \in Register!Updated(stored)
    /\ cli.at \in {"ask", "self", "bind"} => cli.cfg = stored
    /\ cli.at \in Writing => cli.cfg \in Register!Updated(stored)

IInv == TypeOK /\ Shape /\ Handed /\ FileFollows /\ KeyOrder /\ HoldsUpdate
-----------------------------------------------------------------------------
LEMMA KeyFacts ==
  /\ Keys \subseteq Nat /\ 0 \in Keys /\ None \notin Keys /\ Torn \notin Keys /\ Torn # None
  /\ \A k \in Keys : k + 1 \in Keys <=> k < MaxKey
BY BoundsAssumption, NoneAssumption DEF Keys

LEMMA EmptyTyped == Register!Empty \in Register!Config /\ Register!Empty.key = None
BY DEF Register!Empty, Register!Config

(* What the updates of ConfigRegister make of a configuration. *)
LEMMA KeyUpdate ==
  ASSUME NEW c \in Register!Config, NEW k \in Keys
  PROVE  /\ Register!WithKey(c, k) \in Register!Config
         /\ Register!WithKey(c, k).key = k
         /\ Register!WithKey(c, k).managed = c.managed
         /\ Register!WithKey(c, k).file = c.file
         /\ Register!WithKey(c, k).targets = c.targets
         /\ Register!WithKey(c, k).tls = c.tls
         /\ Register!WithLogin(c, k) \in Register!Config /\ Register!WithLogin(c, k).key = k
         /\ Register!WithBinding(c, k) \in Register!Config /\ Register!WithBinding(c, k).key = k
BY DEF Register!Config, Register!WithKey, Register!WithLogin, Register!WithBinding

LEMMA TargetUpdate ==
  ASSUME NEW c \in Register!Config, NEW x \in Certs \cup Secrets
  PROVE  /\ Register!WithTarget(c, x) \in Register!Config /\ Register!WithTarget(c, x).key = c.key
         /\ Register!Without(c, x) \in Register!Config /\ Register!Without(c, x).key = c.key
         /\ Register!WithMark(c, x) \in Register!Config /\ Register!WithMark(c, x).key = c.key
BY DEF Register!Config, Register!WithTarget, Register!Without, Register!WithMark

LEMMA TlsUpdate ==
  ASSUME NEW c \in Register!Config, NEW on \in BOOLEAN
  PROVE  Register!WithTls(c, on) \in Register!Config /\ Register!WithTls(c, on).key = c.key
BY DEF Register!Config, Register!WithTls

LEMMA TlsAgain ==
  ASSUME NEW c \in Register!Config
  PROVE  Register!WithTls(c, c.tls) = c
BY DEF Register!Config, Register!WithTls

LEMMA Updates ==
  ASSUME NEW c \in Register!Config
  PROVE  /\ \A k \in Keys : /\ Register!WithKey(c, k) \in Register!Updated(c)
                            /\ Register!WithLogin(c, k) \in Register!Updated(c)
                            /\ Register!WithBinding(c, k) \in Register!Updated(c)
         /\ \A x \in Certs \cup Secrets :
              /\ Register!WithTarget(c, x) \in Register!Updated(c)
              /\ Register!Without(c, x) \in Register!Updated(c)
              /\ Register!WithMark(c, x) \in Register!Updated(c)
              /\ \A k \in Keys : Register!WithMark(Register!WithKey(c, k), x) \in Register!Updated(c)
         /\ \A on \in BOOLEAN : Register!WithTls(c, on) \in Register!Updated(c)
BY DEF Register!Updated

(* What a process finds in config.json. *)
LEMMA LoadedFacts ==
  ASSUME TypeOK, NEW k \in Keys \cup {None}
  PROVE  /\ Loaded(k) \in Register!Config
         /\ k # None => Loaded(k).key = k
         /\ k = None => Loaded(k) = IF config = Torn THEN Register!Empty ELSE config
         /\ Loaded(k).managed \/ Loaded(k).file \/ Loaded(k).targets # {} => config # Torn
<1> DEFINE read == IF config = Torn THEN Register!Empty ELSE config
<1>1. Loaded(k) = IF k = None THEN read ELSE Register!WithKey(read, k)
  BY DEF Loaded, Empty
<1>2. read \in Register!Config
  BY EmptyTyped DEF TypeOK, Config
<1>3. read.managed \/ read.file \/ read.targets # {} => config # Torn
  BY DEF Register!Empty
<1> HIDE DEF read
<1>4. CASE k = None
  BY <1>1, <1>2, <1>3, <1>4 DEF read
<1>5. CASE k \in Keys
  <2>1. Loaded(k) = Register!WithKey(read, k) /\ k # None
    BY <1>1, <1>5, KeyFacts
  <2>2. QED
    BY <1>2, <1>3, <1>5, <2>1, KeyUpdate
<1>6. QED
  BY <1>4, <1>5
-----------------------------------------------------------------------------
(* Types *)

LEMMA IdleTyped ==
  /\ Idle \in Process /\ Idle.at = "idle" /\ Idle.op = "none" /\ Idle.key = None /\ Idle.cfg.key = None
  /\ LET p == [Idle EXCEPT !.at = "down"]
     IN  p \in Process /\ p.at = "down" /\ p.op = "none" /\ p.key = None /\ p.cfg.key = None
BY EmptyTyped DEF Idle, Process, Empty, Config

LEMMA SavesTyped ==
  ASSUME TypeOK, NEW op \in {"bind", "mark", "rotate"}, NEW c \in Register!Config,
         NEW k \in Keys \cup {None}, AgentSaves(op, c, k)
  PROVE  agent' \in Process /\ raced' \in BOOLEAN /\ agent'.at = "load" /\ agent'.op = op
           /\ agent'.cfg = c /\ agent'.key = k
BY EmptyTyped DEF AgentSaves, Idle, Process, TypeOK, Config, Empty

LEMMA SyncTyped ==
  ASSUME TypeOK, NEW op \in {"sync", "start"}, NEW k \in Keys \cup {None}, SyncBegins(op, k)
  PROVE  /\ agent' \in Process
         /\ \/ agent'.at = "idle" /\ agent' = Idle
            \/ /\ agent'.at = "backup" /\ agent'.op = op /\ agent'.cfg = Empty
               /\ agent'.key = Loaded(k).key /\ agent'.key \in Keys
<1>1. Loaded(k) \in Register!Config
  BY LoadedFacts
<1>2. Loaded(k).key \in Keys \cup {None}
  BY <1>1 DEF Register!Config
<1>3. (keyFile \notin Keys /\ backup = Loaded(k).key) \in BOOLEAN
  OBVIOUS
<1>4. QED
  BY <1>2, <1>3, EmptyTyped, KeyFacts DEF SyncBegins, Idle, Process, Config, Empty

LEMMA CommandTyped ==
  ASSUME TypeOK, NEW op \in {"edit", "login"}, NEW c \in Register!Config,
         NEW at \in {"load", "ask"}, CommandLoads(op, c, at)
  PROVE  TypeOK'
<1>1. cli' \in Process
  BY KeyFacts DEF CommandLoads, Idle, Process, Config
<1>2. QED
  BY <1>1, BoundsAssumption DEF CommandLoads, TypeOK, fileVars

LEMMA TypeStep ==
  ASSUME TypeOK, Shape, [Next]_vars
  PROVE  TypeOK'
<1> USE KeyFacts, BoundsAssumption
<1>1. ASSUME NEW k \in Keys, BindKey(k) PROVE TypeOK'
  <2>1. CASE Loaded(env).managed
    <3>1. Loaded(env) \in Register!Config
      BY LoadedFacts DEF TypeOK
    <3>2. Register!WithKey(Loaded(env), k) \in Register!Config
      BY <3>1, KeyUpdate
    <3>3. agent' \in Process /\ raced' \in BOOLEAN /\ agent'.at = "load" /\ agent'.key = k
      BY <1>1, <2>1, <3>2, SavesTyped DEF BindKey
    <3>4. QED
      BY <1>1, <3>3 DEF BindKey, TypeOK, fileVars, bounds
  <2>2. CASE ~Loaded(env).managed
    BY <1>1, <2>2 DEF BindKey, TypeOK, fileVars, bounds
  <2>3. QED
    BY <2>1, <2>2
<1>2. ASSUME NEW x \in Certs \cup Secrets, MarkSynced(x) PROVE TypeOK'
  <2>1. Loaded(env) \in Register!Config
    BY LoadedFacts DEF TypeOK
  <2>2. Register!WithMark(Loaded(env), x) \in Register!Config
    BY <2>1, TargetUpdate
  <2>3. agent' \in Process /\ raced' \in BOOLEAN /\ agent'.at = "load"
    BY <1>2, <2>2, SavesTyped DEF MarkSynced
  <2>4. QED
    BY <1>2, <2>3 DEF MarkSynced, TypeOK, fileVars, bounds
<1>3. CASE RotateKey
  <2>1. config \in Register!Config /\ serverKey + 1 \in Keys
    BY <1>3 DEF RotateKey, TypeOK, Config
  <2>2. Register!WithKey(config, serverKey + 1) \in Register!Config
    BY <2>1, KeyUpdate
  <2>3. agent' \in Process /\ raced' \in BOOLEAN /\ agent'.at = "load"
    BY <1>3, <2>1, <2>2, SavesTyped DEF RotateKey
  <2>4. QED
    BY <1>3, <2>1, <2>3 DEF RotateKey, TypeOK, fileVars, bounds
<1>4. CASE SyncKeyFile \/ StartAgent
  <2>1. UNCHANGED <<serverKey, fileVars, env, cli, ghostVars, bounds>>
    BY <1>4 DEF SyncKeyFile, StartAgent
  <2>2. /\ agent' \in Process
        /\ agent'.at = "idle" \/ (agent'.at = "backup" /\ agent'.key \in Keys)
    BY <1>4, SyncTyped DEF SyncKeyFile, StartAgent, TypeOK
  <2>3. QED
    BY <2>1, <2>2 DEF TypeOK, fileVars, bounds, ghostVars
<1>5. CASE AgentTruncates \/ AgentSaveFails
  <2>1. agent' \in Process /\ agent'.at \in {"write", "idle"}
    <3>1. CASE AgentTruncates
      BY <3>1 DEF AgentTruncates, TypeOK, Process
    <3>2. CASE AgentSaveFails
      BY <3>2, IdleTyped DEF AgentSaveFails
    <3>3. QED
      BY <1>5, <3>1, <3>2
  <2>2. config' \in {config, Torn} /\ cut' \in {cut, TRUE} /\ trouble' \in {trouble} \cup 0..MaxTrouble
    <3>1. CASE AgentTruncates
      BY <3>1 DEF AgentTruncates, Truncate, bounds, ghostVars
    <3>2. CASE AgentSaveFails
      BY <3>2 DEF AgentSaveFails, TypeOK, fileVars
    <3>3. QED
      BY <1>5, <3>1, <3>2
  <2>3. UNCHANGED <<serverKey, keyFile, backup, temp, env, cli, stored, raced, missed, commands>>
    BY <1>5 DEF AgentTruncates, AgentSaveFails, fileVars, bounds, ghostVars
  <2>4. QED
    BY <2>1, <2>2, <2>3 DEF TypeOK
<1>6. CASE AgentFills
  <2>1. agent' \in Process /\ (agent'.at = "idle" \/ (agent'.at = "backup" /\ agent'.key \in Keys))
    BY <1>6, IdleTyped, EmptyTyped DEF AgentFills, Fill, Writing, Shape, TypeOK, Process, Config, Empty
  <2>2. config' \in Config /\ stored' \in Config /\ env' \in Keys \cup {None} /\ missed' \in BOOLEAN
    BY <1>6 DEF AgentFills, Fill, Writing, Shape, TypeOK, Process
  <2>3. QED
    BY <1>6, <2>1, <2>2 DEF AgentFills, TypeOK, bounds
<1>7. CASE CopyToBackup \/ CopyFails \/ WriteTemp
  BY <1>7 DEF CopyToBackup, CopyFails, WriteTemp, TypeOK, fileVars, bounds, ghostVars, Process
<1>8. CASE Rename \/ KeyWriteFails
  <2>1. agent' \in Process /\ agent'.at \in {"idle", "down", "backup"}
          /\ (agent'.at = "backup" => agent'.key = agent.key)
    <3>1. CASE agent' = [agent EXCEPT !.at = "backup", !.again = FALSE]
      BY <3>1 DEF TypeOK, Process
    <3>2. CASE agent' \in {Idle, [Idle EXCEPT !.at = "down"]}
      BY <3>2, IdleTyped
    <3>3. QED
      BY <1>8, <3>1, <3>2 DEF Rename, KeyWriteFails
  <2>2. missed' \in BOOLEAN
    BY <1>8 DEF Rename, KeyWriteFails
  <2>3. keyFile' \in Keys \cup {None, Torn} /\ temp' = None /\ trouble' \in 0..MaxTrouble
    BY <1>8 DEF Rename, KeyWriteFails, TypeOK, bounds
  <2>4. UNCHANGED <<serverKey, config, backup, env, cli, stored, raced, cut, commands>>
    BY <1>8 DEF Rename, KeyWriteFails, bounds
  <2>5. agent'.at \in {"backup", "copy", "temp", "fill", "rename"} => agent'.key \in Keys
    BY <1>8, <2>1 DEF Rename, KeyWriteFails, TypeOK
  <2>6. QED
    BY <2>1, <2>2, <2>3, <2>4, <2>5 DEF TypeOK
<1>9. ASSUME NEW c \in Certs, AddTarget(c) \/ RemoveTarget(c) PROVE TypeOK'
  BY <1>9, LoadedFacts, TargetUpdate, CommandTyped DEF AddTarget, RemoveTarget, Edit
<1>10. ASSUME NEW s \in Secrets, AddSecretTarget(s) \/ RemoveSecretTarget(s) PROVE TypeOK'
  BY <1>10, LoadedFacts, TargetUpdate, CommandTyped DEF AddSecretTarget, RemoveSecretTarget, Edit
<1>11. CASE EnableTls \/ DisableTls
  BY <1>11, LoadedFacts, TlsUpdate, CommandTyped DEF EnableTls, DisableTls, Edit
<1>12. CASE LoginStarts
  BY <1>12, LoadedFacts, CommandTyped DEF LoginStarts
<1>13. CASE LoginAnswered \/ LoginBound
  <2>1. /\ Register!WithLogin(cli.cfg, serverKey) \in Config
        /\ Register!WithBinding(cli.cfg, serverKey) \in Config
    BY KeyUpdate DEF TypeOK, Process, Config
  <2>2. cli' \in Process
    <3>1. CASE LoginAnswered
      BY <2>1, <3>1 DEF LoginAnswered, TypeOK, Process
    <3>2. CASE LoginBound
      BY <2>1, <3>2 DEF LoginBound, TypeOK, Process
    <3>3. QED
      BY <1>13, <3>1, <3>2
  <2>3. QED
    BY <1>13, <2>2 DEF LoginAnswered, LoginBound, TypeOK, fileVars, bounds, ghostVars
<1>14. CASE LoginAccount \/ LoginFails
  <2>1. cli' \in Process
    BY <1>14, IdleTyped DEF LoginAccount, LoginFails, TypeOK, Process
  <2>2. QED
    BY <1>14, <2>1 DEF LoginAccount, LoginFails, TypeOK, fileVars, bounds, ghostVars
<1>15. CASE CommandTruncates
  BY <1>15 DEF CommandTruncates, Truncate, TypeOK, bounds, ghostVars, Process
<1>16. CASE CommandFills
  <2>1. cli' \in Process
    <3>1. ASSUME NEW at \in {"self", "bind"} PROVE [cli EXCEPT !.at = at] \in Process
      BY DEF TypeOK, Process
    <3>2. QED
      BY <1>16, <3>1, IdleTyped DEF CommandFills
  <2>2. config' \in Config /\ stored' \in Config /\ missed' \in BOOLEAN
    BY <1>16 DEF CommandFills, Fill, TypeOK, Process
  <2>3. QED
    BY <1>16, <2>1, <2>2 DEF CommandFills, TypeOK, bounds
<1>17. CASE AgentCrashes \/ CommandCrashes
  <2>1. agent' \in Process /\ cli' \in Process /\ agent'.at \in {"down", agent.at}
          /\ (agent'.at # "down" => agent' = agent)
    BY <1>17, IdleTyped DEF AgentCrashes, CommandCrashes, TypeOK
  <2>2. cut' \in BOOLEAN /\ missed' \in BOOLEAN
    BY <1>17 DEF AgentCrashes, CommandCrashes, TypeOK
  <2>3. env' \in Keys \cup {None} /\ trouble' \in 0..MaxTrouble
    BY <1>17 DEF AgentCrashes, CommandCrashes, TypeOK
  <2>4. UNCHANGED <<serverKey, fileVars, stored, raced, commands>>
    BY <1>17 DEF AgentCrashes, CommandCrashes
  <2>5. QED
    BY <2>1, <2>2, <2>3, <2>4 DEF TypeOK, fileVars
<1>18. CASE KeyFileDamaged
  BY <1>18 DEF KeyFileDamaged, TypeOK
<1>19. CASE UNCHANGED vars
  BY <1>19 DEF vars, fileVars, ghostVars, bounds, TypeOK
<1>20. QED
  BY <1>1, <1>2, <1>3, <1>4, <1>5, <1>6, <1>7, <1>8, <1>9, <1>10, <1>11, <1>12, <1>13, <1>14,
     <1>15, <1>16, <1>17, <1>18, <1>19
  DEF Next, AgentStep, CommandStep, RecordPrint, RecordVersion
-----------------------------------------------------------------------------
(* What the steps do to the two processes. *)

(* The agent begins to save an update of the stored configuration. *)
SaveBegins ==
  /\ agent.at = "idle" /\ agent'.at = "load" /\ agent'.op \in {"bind", "mark", "rotate"}
  /\ config = stored
  /\ agent'.cfg \in Register!Updated(stored) /\ agent'.cfg.key \in Keys
  /\ agent'.op \in {"bind", "rotate"} => agent'.cfg.key = serverKey' /\ agent'.key = serverKey'
  /\ agent'.op = "mark" => /\ agent'.cfg.key = IF env # None THEN env ELSE stored.key
                           /\ serverKey' = serverKey /\ agent'.key = None
  /\ serverKey' >= serverKey
  /\ raced' = (raced \/ Busy(cli))
  /\ UNCHANGED <<fileVars, env, cli, stored, cut, missed>>

LEMMA BindSaves ==
  ASSUME TypeOK, Shape, NEW k \in Keys, BindKey(k), Loaded(env).managed
  PROVE  SaveBegins
<1>1. config = stored /\ config \in Register!Config
  BY LoadedFacts DEF TypeOK, Shape, Config
<1>2. Loaded(env) = IF env # None THEN Register!WithKey(stored, env) ELSE stored
  BY <1>1, TornAssumption DEF Loaded, Config
<1>3. Register!WithKey(Loaded(env), k) = Register!WithKey(stored, k)
  BY <1>1, <1>2 DEF Register!WithKey, Register!Config
<1>4. /\ Register!WithKey(stored, k) \in Register!Updated(stored)
      /\ Register!WithKey(stored, k).key = k /\ Register!WithKey(stored, k) \in Register!Config
  BY <1>1, Updates, KeyUpdate
<1>5. k >= serverKey /\ k = serverKey'
  BY KeyFacts DEF BindKey, TypeOK
<1>6. AgentSaves("bind", Register!WithKey(stored, k), k)
  BY <1>3 DEF BindKey
<1>7. /\ agent'.at = "load" /\ agent'.op = "bind"
      /\ agent'.cfg = Register!WithKey(stored, k) /\ agent'.key = k
  BY <1>4, <1>6, SavesTyped
<1>8. QED
  BY <1>1, <1>4, <1>5, <1>6, <1>7 DEF BindKey, AgentSaves, SaveBegins

LEMMA MarkSaves ==
  ASSUME TypeOK, Shape, NEW x \in Certs \cup Secrets, MarkSynced(x)
  PROVE  SaveBegins
<1> DEFINE c == IF env # None THEN Register!WithKey(stored, env) ELSE stored
<1>1. config = stored /\ config \in Register!Config
  BY LoadedFacts DEF TypeOK, Shape, Config, MarkSynced
<1>2. Loaded(env) = c
  BY <1>1, TornAssumption DEF Loaded, Config
<1>3. c \in Register!Config /\ c.key = IF env # None THEN env ELSE stored.key
  BY <1>1, KeyUpdate DEF TypeOK
<1>4. Register!WithMark(c, x) \in Register!Updated(stored)
  BY <1>1, Updates DEF TypeOK
<1> HIDE DEF c
<1>5. Register!WithMark(c, x).key = c.key /\ Register!WithMark(c, x) \in Register!Config
  BY <1>3, TargetUpdate
<1>6. AgentSaves("mark", Register!WithMark(c, x), None)
  BY <1>2 DEF MarkSynced
<1>7. /\ agent'.at = "load" /\ agent'.op = "mark"
      /\ agent'.cfg = Register!WithMark(c, x) /\ agent'.key = None
  BY <1>5, <1>6, SavesTyped
<1>8. serverKey' = serverKey /\ serverKey \in Nat /\ env \in Keys \cup {None} /\ stored.key \in Keys
  BY KeyFacts DEF MarkSynced, TypeOK, Shape
<1>9. QED
  BY <1>1, <1>3, <1>4, <1>5, <1>6, <1>7, <1>8 DEF MarkSynced, AgentSaves, SaveBegins

LEMMA RotateSaves ==
  ASSUME TypeOK, Shape, RotateKey
  PROVE  SaveBegins
<1>1. config = stored /\ config \in Register!Config /\ serverKey + 1 \in Keys
  BY KeyFacts DEF TypeOK, Shape, Config, RotateKey
<1>2. /\ Register!WithKey(stored, serverKey + 1) \in Register!Updated(stored)
      /\ Register!WithKey(stored, serverKey + 1).key = serverKey + 1
      /\ Register!WithKey(stored, serverKey + 1) \in Register!Config
  BY <1>1, Updates, KeyUpdate
<1>3. AgentSaves("rotate", Register!WithKey(stored, serverKey + 1), serverKey + 1)
  BY <1>1 DEF RotateKey
<1>4. /\ agent'.at = "load" /\ agent'.op = "rotate"
      /\ agent'.cfg = Register!WithKey(stored, serverKey + 1) /\ agent'.key = serverKey + 1
  BY <1>1, <1>2, <1>3, SavesTyped
<1>5. serverKey' = serverKey + 1 /\ serverKey \in Nat
  BY KeyFacts DEF RotateKey, TypeOK
<1>6. QED
  BY <1>1, <1>2, <1>3, <1>4, <1>5 DEF RotateKey, AgentSaves, SaveBegins

(* A command has loaded the configuration: an edit has changed it, login asks first. *)
CommandBegins ==
  /\ cli.at = "idle" /\ <<cli'.at, cli'.op>> \in {<<"load", "edit">>, <<"ask", "login">>}
  /\ cli'.at = "load" => /\ config = stored /\ cli'.cfg.key = stored.key
                         /\ cli'.cfg \in Register!Updated(stored)
  /\ cli'.at = "ask" => /\ config # Torn => cli'.cfg = stored
                        /\ cli'.cfg.key \in {None, stored.key}
  /\ raced' = (raced \/ Busy(agent))
  /\ UNCHANGED <<serverKey, fileVars, env, agent, stored, cut, missed>>

LEMMA EditBegins ==
  ASSUME TypeOK, Shape, NEW c, Edit(c), config = stored =>
           c \in Register!Updated(stored) /\ c.key = stored.key
  PROVE  CommandBegins
<1>1. config = stored
  BY LoadedFacts, EmptyTyped DEF Edit, Shape
<1>2. /\ cli'.at = "load" /\ cli'.op = "edit" /\ cli'.cfg = c
  BY DEF Edit, CommandLoads, Idle
<1>3. QED
  BY <1>1, <1>2 DEF Edit, CommandLoads, CommandBegins

LEMMA LoadedStored ==
  ASSUME TypeOK, Shape, config = stored
  PROVE  Loaded(None) = stored /\ stored \in Register!Config
BY LoadedFacts, TornAssumption DEF TypeOK, Config

LEMMA CommandsBegin ==
  ASSUME TypeOK, Shape,
         \/ \E c \in Certs : AddTarget(c) \/ RemoveTarget(c)
         \/ \E s \in Secrets : AddSecretTarget(s) \/ RemoveSecretTarget(s)
         \/ EnableTls \/ DisableTls \/ LoginStarts
  PROVE  CommandBegins
<1>1. ASSUME NEW x \in Certs \cup Secrets,
             Edit(Register!WithTarget(Loaded(None), x)) \/ Edit(Register!Without(Loaded(None), x))
      PROVE  CommandBegins
  BY <1>1, LoadedStored, Updates, TargetUpdate, EditBegins
<1>2. ASSUME NEW on \in BOOLEAN, Edit(Register!WithTls(Loaded(None), on))
      PROVE  CommandBegins
  BY <1>2, LoadedStored, Updates, TlsUpdate, EditBegins
<1>3. CASE LoginStarts
  <2>1. cli'.at = "ask" /\ cli'.op = "login" /\ cli'.cfg = Loaded(None)
    BY <1>3 DEF LoginStarts, CommandLoads, Idle
  <2>2. Loaded(None).key \in {None, stored.key} /\ (config # Torn => Loaded(None) = stored)
    BY LoadedFacts, EmptyTyped DEF Shape
  <2>3. QED
    BY <1>3, <2>1, <2>2 DEF LoginStarts, CommandLoads, CommandBegins
<1>4. QED
  BY <1>1, <1>2, <1>3
  DEF AddTarget, RemoveTarget, AddSecretTarget, RemoveSecretTarget, EnableTls, DisableTls

(* syncManagedKeyFile() has found the key file to differ, or nothing to do. *)
SyncDecides ==
  /\ agent.at \in {"idle", "down"}
  /\ agent.at = "down" \/ agent'.at = "backup"
  /\ \/ agent' = Idle
     \/ /\ agent'.at = "backup" /\ agent'.key \in Keys
        /\ config = stored /\ agent'.cfg.key = None
        /\ agent'.key = IF env # None THEN env ELSE stored.key
        /\ agent'.op = "start" => env = None
  /\ UNCHANGED <<serverKey, fileVars, env, cli, ghostVars>>

LEMMA SyncStep ==
  ASSUME TypeOK, Shape, SyncKeyFile \/ StartAgent
  PROVE  SyncDecides
<1>1. Loaded(env).file => /\ config = stored
                          /\ Loaded(env).key = IF env # None THEN env ELSE stored.key
  BY LoadedFacts DEF TypeOK, Shape
<1> USE EmptyTyped DEF Empty
<1>2. CASE SyncKeyFile
  <2>1. agent' = Idle \/ (agent'.at = "backup" /\ agent'.op = "sync" /\ agent'.key = Loaded(env).key
                            /\ agent'.key \in Keys /\ agent'.cfg.key = None)
    BY <1>2, SyncTyped DEF SyncKeyFile, TypeOK
  <2>2. agent' # Idle => Loaded(env).file
    BY <1>2 DEF SyncKeyFile, SyncBegins
  <2>3. QED
    BY <1>1, <1>2, <2>1, <2>2 DEF SyncKeyFile, SyncDecides
<1>3. CASE StartAgent
  <2>1. env = None
    BY <1>3 DEF StartAgent, Shape
  <2>2. agent' = Idle \/ (agent'.at = "backup" /\ agent'.op = "start" /\ agent'.key = Loaded(env).key
                            /\ agent'.key \in Keys /\ agent'.cfg.key = None)
    BY <1>3, <2>1, SyncTyped DEF StartAgent
  <2>3. agent' # Idle => Loaded(env).file
    BY <1>3, <2>1 DEF StartAgent, SyncBegins
  <2>4. QED
    BY <1>1, <1>3, <2>1, <2>2, <2>3 DEF StartAgent, SyncDecides
<1>4. QED
  BY <1>2, <1>3

(* The steps of Next, with what begins a save or a command put together. *)
LEMMA NextCases ==
  ASSUME TypeOK, Shape, [Next]_vars
  PROVE  \/ SaveBegins \/ CommandBegins \/ SyncDecides
         \/ /\ serverKey' = serverKey \/ (serverKey' >= serverKey /\ agent.at = "idle")
            /\ UNCHANGED <<fileVars, env, agent, cli, ghostVars>>
         \/ AgentTruncates \/ AgentFills \/ AgentSaveFails
         \/ CopyToBackup \/ CopyFails \/ WriteTemp \/ Rename \/ KeyWriteFails
         \/ LoginAnswered \/ LoginAccount \/ LoginBound \/ LoginFails
         \/ CommandTruncates \/ CommandFills
         \/ AgentCrashes \/ CommandCrashes \/ KeyFileDamaged
<1>1. ASSUME NEW k \in Keys, BindKey(k), ~Loaded(env).managed
      PROVE  /\ serverKey' = serverKey \/ (serverKey' >= serverKey /\ agent.at = "idle")
             /\ UNCHANGED <<fileVars, env, agent, cli, ghostVars>>
  <2>1. k >= serverKey
    BY <1>1, KeyFacts DEF BindKey, TypeOK
  <2>2. QED
    BY <1>1, <2>1 DEF BindKey, ghostVars
<1>2. ASSUME UNCHANGED vars
      PROVE  /\ serverKey' = serverKey \/ (serverKey' >= serverKey /\ agent.at = "idle")
             /\ UNCHANGED <<fileVars, env, agent, cli, ghostVars>>
  BY <1>2, KeyFacts DEF vars, TypeOK
<1>3. QED
  BY <1>1, <1>2, BindSaves, MarkSaves, RotateSaves, SyncStep, CommandsBegin
  DEF Next, AgentStep, CommandStep, RecordPrint, RecordVersion
-----------------------------------------------------------------------------
(* The strengthening, conjunct by conjunct. *)

LEMMA ShapeStep ==
  ASSUME TypeOK, Shape, [Next]_vars
  PROVE  Shape'
<1> USE KeyFacts DEF Writing, KeyFilePhase
<1>1. CASE SaveBegins \/ CommandBegins
  BY <1>1 DEF SaveBegins, CommandBegins, Shape, fileVars
<1>2. CASE SyncDecides
  BY <1>2, IdleTyped DEF SyncDecides, Shape, fileVars, ghostVars
<1>3. CASE /\ serverKey' = serverKey \/ (serverKey' >= serverKey /\ agent.at = "idle")
           /\ UNCHANGED <<fileVars, env, agent, cli, ghostVars>>
  BY <1>3 DEF Shape, fileVars, ghostVars
<1>4. CASE AgentTruncates \/ AgentSaveFails
  BY <1>4, IdleTyped DEF AgentTruncates, AgentSaveFails, Truncate, Shape, fileVars, ghostVars, TypeOK, Process
<1>5. CASE AgentFills
  BY <1>5, IdleTyped DEF AgentFills, Fill, Shape, TypeOK, Process
<1>6. CASE CopyToBackup \/ CopyFails \/ WriteTemp
  BY <1>6 DEF CopyToBackup, CopyFails, WriteTemp, Shape, fileVars, ghostVars, TypeOK, Process
<1>7. CASE Rename \/ KeyWriteFails
  <2>1. /\ agent.at \in KeyFilePhase
        /\ \/ agent' = Idle \/ (agent' = [Idle EXCEPT !.at = "down"] /\ agent.op = "start")
           \/ agent' = [agent EXCEPT !.at = "backup", !.again = FALSE]
    BY <1>7 DEF Rename, KeyWriteFails
  <2>2. \/ agent'.at = "idle"
        \/ agent'.at = "down" /\ agent.at \in KeyFilePhase /\ agent.op = "start"
        \/ agent'.at = "backup" /\ agent'.op = agent.op /\ agent.at \in KeyFilePhase
    BY <2>1, IdleTyped DEF TypeOK, Process
  <2>3. UNCHANGED <<serverKey, config, stored, env, cli>>
    BY <1>7 DEF Rename, KeyWriteFails
  <2>4. QED
    BY <2>2, <2>3 DEF Shape
<1>8. CASE LoginAnswered \/ LoginAccount \/ LoginBound \/ LoginFails
  <2>1. /\ Register!WithLogin(cli.cfg, serverKey).key \in Keys
        /\ Register!WithBinding(cli.cfg, serverKey).key \in Keys
    <3>1. cli.cfg \in Register!Config /\ serverKey \in Keys
      BY DEF TypeOK, Process, Config
    <3>2. QED
      BY <3>1, KeyUpdate
  <2>2. /\ cli'.at \in {"load", "idle"} /\ cli'.op \in {cli.op, "tenant", "bound", "none"}
        /\ cli'.at = "load" => cli'.cfg.key \in Keys
    BY <1>8, <2>1, IdleTyped
    DEF LoginAnswered, LoginAccount, LoginBound, LoginFails, Shape, TypeOK, Process
  <2>3. UNCHANGED <<serverKey, config, stored, env, agent>>
    BY <1>8 DEF LoginAnswered, LoginAccount, LoginBound, LoginFails, fileVars, ghostVars
  <2>4. QED
    BY <2>2, <2>3 DEF Shape
<1>9. CASE CommandTruncates \/ CommandFills
  BY <1>9, IdleTyped DEF CommandTruncates, CommandFills, Truncate, Fill, Shape, ghostVars, TypeOK, Process
<1>10. CASE AgentCrashes \/ CommandCrashes \/ KeyFileDamaged
  BY <1>10, IdleTyped DEF AgentCrashes, CommandCrashes, KeyFileDamaged, Shape, fileVars
<1>11. QED
  BY <1>1, <1>2, <1>3, <1>4, <1>5, <1>6, <1>7, <1>8, <1>9, <1>10, NextCases

LEMMA HandedStep ==
  ASSUME TypeOK, TypeOK', Shape, Handed, [Next]_vars
  PROVE  Handed'
<1>1. serverKey \in Nat /\ serverKey' \in Nat /\ Keys \subseteq Nat /\ Torn \notin Keys /\ None \notin Keys
  BY KeyFacts DEF TypeOK
<1>a. serverKey' >= serverKey => \A k : OldKey(k, serverKey) => OldKey(k, serverKey')
  BY <1>1 DEF OldKey
<1>b. OldKey(None, serverKey') /\ OldKey(Torn, serverKey') /\ OldKey(serverKey', serverKey')
  BY <1>1 DEF OldKey
<1> USE <1>1, <1>a, <1>b DEF Writing, KeyFilePhase
<1>2. CASE SaveBegins
  BY <1>2 DEF SaveBegins, Handed, Shape, fileVars
<1>3. CASE CommandBegins
  BY <1>3 DEF CommandBegins, Handed, Shape, fileVars
<1>4. CASE SyncDecides
  BY <1>4, IdleTyped DEF SyncDecides, Handed, Shape, fileVars, ghostVars
<1>5. CASE /\ serverKey' = serverKey \/ (serverKey' >= serverKey /\ agent.at = "idle")
           /\ UNCHANGED <<fileVars, env, agent, cli, ghostVars>>
  BY <1>5 DEF Handed, fileVars, ghostVars
<1>6. CASE AgentTruncates \/ AgentSaveFails \/ CopyToBackup \/ CopyFails \/ WriteTemp
  <2>1. UNCHANGED <<serverKey, keyFile, stored, env, cli>>
    BY <1>6 DEF AgentTruncates, AgentSaveFails, CopyToBackup, CopyFails, WriteTemp, fileVars, ghostVars
  <2>2. agent' = Idle \/ (agent'.key = agent.key /\ agent'.cfg = agent.cfg)
    BY <1>6 DEF AgentTruncates, AgentSaveFails, CopyToBackup, CopyFails, WriteTemp, TypeOK, Process
  <2>3. QED
    BY <2>1, <2>2, IdleTyped DEF Handed
<1>7. CASE AgentFills
  <2>1. UNCHANGED <<serverKey, keyFile, cli>> /\ stored' = agent.cfg /\ env' \in {env, agent.key}
    BY <1>7 DEF AgentFills, Fill
  <2>2. agent' = Idle \/ (agent'.key = agent.key /\ agent'.cfg = Empty)
    BY <1>7 DEF AgentFills, TypeOK, Process
  <2>3. QED
    BY <2>1, <2>2, IdleTyped, EmptyTyped DEF Handed, Empty
<1>8. CASE Rename
  BY <1>8, IdleTyped DEF Rename, Handed, TypeOK
<1>9. CASE KeyWriteFails
  <2>1. agent' = Idle \/ agent' = [Idle EXCEPT !.at = "down"] \/ (agent'.key = agent.key /\ agent'.cfg = agent.cfg)
    BY <1>9 DEF KeyWriteFails, TypeOK, Process
  <2>2. QED
    BY <1>9, <2>1, IdleTyped DEF KeyWriteFails, Handed
<1>10. CASE LoginAnswered \/ LoginAccount \/ LoginBound \/ LoginFails \/ CommandTruncates
  <2>1. UNCHANGED <<serverKey, keyFile, env, agent, stored>>
    BY <1>10 DEF LoginAnswered, LoginAccount, LoginBound, LoginFails, CommandTruncates, fileVars, ghostVars
  <2>2. cli.cfg \in Register!Config /\ serverKey \in Keys
    BY DEF TypeOK, Process, Config
  <2>a. Register!WithLogin(cli.cfg, serverKey).key = serverKey /\ Register!WithBinding(cli.cfg, serverKey).key = serverKey
    BY <2>2, KeyUpdate
  <2>3. cli'.cfg.key \in {cli.cfg.key, serverKey, None}
    BY <1>10, <2>a, IdleTyped
    DEF LoginAnswered, LoginAccount, LoginBound, LoginFails, CommandTruncates, TypeOK, Process
  <2>4. QED
    BY <2>1, <2>3 DEF Handed
<1>11. CASE CommandFills
  <2>1. UNCHANGED <<serverKey, keyFile, env, agent>> /\ stored' = cli.cfg
    BY <1>11 DEF CommandFills, Fill
  <2>2. cli'.cfg.key \in {cli.cfg.key, None}
    BY <1>11, IdleTyped DEF CommandFills, TypeOK, Process
  <2>3. QED
    BY <2>1, <2>2 DEF Handed
<1>12. CASE AgentCrashes \/ CommandCrashes \/ KeyFileDamaged
  BY <1>12, IdleTyped DEF AgentCrashes, CommandCrashes, KeyFileDamaged, Handed, fileVars
<1>13. QED
  BY <1>2, <1>3, <1>4, <1>5, <1>6, <1>7, <1>8, <1>9, <1>10, <1>11, <1>12, NextCases

LEMMA FileFollowsStep ==
  ASSUME TypeOK, Shape, FileFollows, [Next]_vars
  PROVE  FileFollows'
<1> USE DEF Writing, KeyFilePhase
<1>1. CASE SaveBegins \/ CommandBegins
  BY <1>1 DEF SaveBegins, CommandBegins, FileFollows, fileVars
<1>2. CASE SyncDecides
  BY <1>2 DEF SyncDecides, FileFollows, fileVars, ghostVars
<1>3. CASE UNCHANGED <<fileVars, env, agent, cli, ghostVars>>
  BY <1>3 DEF FileFollows, fileVars, ghostVars
<1>4. CASE AgentTruncates \/ AgentSaveFails \/ CopyToBackup \/ CopyFails \/ WriteTemp
  <2>1. UNCHANGED <<keyFile, stored, env, missed>>
    BY <1>4 DEF AgentTruncates, AgentSaveFails, CopyToBackup, CopyFails, WriteTemp, fileVars, ghostVars
  <2>2. agent.at \in KeyFilePhase => agent'.at \in KeyFilePhase
    BY <1>4 DEF AgentTruncates, AgentSaveFails, CopyToBackup, CopyFails, WriteTemp, Truncate, TypeOK, Process
  <2>3. QED
    BY <2>1, <2>2 DEF FileFollows
<1>5. CASE AgentFills
  <2>1. agent.at \in Writing /\ stored' = agent.cfg /\ keyFile' = keyFile
    BY <1>5 DEF AgentFills, Fill
  <2>2. CASE agent.op = "bind" /\ agent.cfg.file
    <3>1. agent'.at = "backup" /\ env' = agent.key /\ agent.key = stored'.key
      BY <1>5, <2>1, <2>2 DEF AgentFills, Shape, TypeOK, Process
    <3>2. QED
      BY <3>1 DEF FileFollows
  <2>3. CASE ~(agent.op = "bind" /\ agent.cfg.file)
    <3>1. missed' = (missed \/ agent.cfg.key # stored.key)
      BY <1>5, <2>3 DEF AgentFills, Fill
    <3>2. QED
      BY <2>1, <3>1 DEF FileFollows
  <2>4. QED
    BY <2>2, <2>3
<1>6. CASE Rename \/ KeyWriteFails \/ KeyFileDamaged \/ AgentCrashes
  <2>1. (missed' \/ keyFile' = stored'.key) \/ (~missed /\ agent.at \notin KeyFilePhase)
    BY <1>6 DEF Rename, KeyWriteFails, KeyFileDamaged, AgentCrashes, TypeOK
  <2>2. UNCHANGED <<keyFile, stored>> /\ agent.at \notin KeyFilePhase
          => keyFile' = stored'.key \/ missed
    BY DEF FileFollows
  <2>3. QED
    BY <1>6, <2>1, <2>2 DEF Rename, KeyWriteFails, KeyFileDamaged, AgentCrashes, FileFollows, fileVars
<1>7. CASE LoginAnswered \/ LoginAccount \/ LoginBound \/ LoginFails \/ CommandTruncates \/ CommandCrashes
  BY <1>7 DEF LoginAnswered, LoginAccount, LoginBound, LoginFails, CommandTruncates, CommandCrashes,
              FileFollows, fileVars, ghostVars
<1>8. CASE CommandFills
  <2>1. UNCHANGED <<keyFile, env, agent>> /\ stored' = cli.cfg /\ missed' = (missed \/ cli.cfg.key # stored.key)
    BY <1>8 DEF CommandFills, Fill, Shape
  <2>2. QED
    BY <2>1 DEF FileFollows
<1>9. QED
  BY <1>1, <1>2, <1>3, <1>4, <1>5, <1>6, <1>7, <1>8, NextCases

LEMMA KeyOrderStep ==
  ASSUME TypeOK, TypeOK', Shape, Handed, KeyOrder, [Next]_vars
  PROVE  KeyOrder'
<1> SUFFICES ASSUME ~raced' PROVE KeyOrder'
  BY DEF KeyOrder
<1>1. /\ serverKey \in Nat /\ serverKey' \in Nat /\ Keys \subseteq Nat
      /\ Torn \notin Keys /\ None \notin Keys /\ Torn # None
  BY KeyFacts DEF TypeOK
<1>2. /\ stored.key \in Nat /\ env \in Keys \cup {None} /\ keyFile \in Keys \cup {None, Torn}
      /\ agent.at \in KeyFilePhase => agent.key \in Keys
  BY <1>1 DEF TypeOK, Shape, KeyFilePhase
<1>3. OldKey(None, stored'.key) /\ OldKey(Torn, stored'.key)
  BY <1>1 DEF OldKey
<1> USE <1>1, <1>2 DEF Writing, KeyFilePhase
<1>4. CASE SaveBegins
  <2>1. ~raced /\ ~Busy(cli)
    BY <1>4 DEF SaveBegins
  <2>2. OldKey(keyFile, agent'.cfg.key) /\ (env # None /\ agent'.op = "mark" => agent'.cfg.key = env)
    BY <1>4, <2>1 DEF SaveBegins, KeyOrder, Handed, OldKey
  <2>3. QED
    BY <1>4, <2>1, <2>2 DEF SaveBegins, KeyOrder, fileVars, Busy
<1>5. CASE CommandBegins
  <2>1. ~raced /\ ~Busy(agent)
    BY <1>5 DEF CommandBegins
  <2>2. cli'.at \in {"self", "bind"} \cup Writing => stored.key <= cli'.cfg.key
    BY <1>5 DEF CommandBegins
  <2>3. QED
    BY <1>5, <2>1, <2>2 DEF CommandBegins, KeyOrder, fileVars, Busy
<1>6. CASE SyncDecides
  <2>1. agent' = Idle \/ (agent'.at = "backup" /\ agent'.key = (IF env # None THEN env ELSE stored.key)
                            /\ agent'.key \in Keys)
    BY <1>6 DEF SyncDecides
  <2>2. ~raced /\ UNCHANGED <<keyFile, env, cli, stored>>
    BY <1>6 DEF SyncDecides, fileVars, ghostVars
  <2>3. agent'.at = "backup" => /\ OldKey(keyFile, agent'.key) /\ agent'.key <= stored.key
                                /\ env # None => agent'.key = env
    BY <2>1, <2>2, IdleTyped DEF KeyOrder, OldKey
  <2>4. QED
    BY <2>1, <2>2, <2>3, IdleTyped DEF KeyOrder, Busy
<1>7. CASE UNCHANGED <<fileVars, env, agent, cli, ghostVars>>
  BY <1>7 DEF KeyOrder, fileVars, ghostVars
<1>8. CASE AgentTruncates \/ AgentSaveFails \/ CopyToBackup \/ CopyFails \/ WriteTemp
  <2>1. ~raced /\ UNCHANGED <<keyFile, stored, env, cli>>
    BY <1>8 DEF AgentTruncates, AgentSaveFails, CopyToBackup, CopyFails, WriteTemp, fileVars, ghostVars
  <2>2. \/ agent' = Idle
        \/ /\ agent'.key = agent.key /\ agent'.cfg = agent.cfg /\ agent'.op = agent.op
           /\ \/ agent.at \in Writing /\ agent'.at \in Writing
              \/ agent.at \in KeyFilePhase /\ agent'.at \in KeyFilePhase
    BY <1>8 DEF AgentTruncates, AgentSaveFails, CopyToBackup, CopyFails, WriteTemp, Truncate, TypeOK, Process
  <2>3. QED
    BY <2>1, <2>2, IdleTyped DEF KeyOrder, Busy
<1>9. CASE AgentFills
  <2>1. /\ agent.at \in Writing /\ ~raced /\ UNCHANGED <<keyFile, cli>> /\ stored' = agent.cfg
        /\ env' = (IF agent.op \in {"bind", "rotate"} THEN agent.key ELSE env)
    BY <1>9 DEF AgentFills, Fill
  <2>2. ~Busy(cli)
    BY <2>1 DEF KeyOrder, Busy
  <2>3. agent'.at \in {"idle", "backup"} /\ (agent'.at = "backup" => agent'.key = agent.key /\ agent.op = "bind")
    BY <1>9, IdleTyped DEF AgentFills, TypeOK, Process
  <2>4. OldKey(keyFile, stored'.key) /\ OldKey(env', stored'.key)
    BY <2>1 DEF KeyOrder, Handed, Shape, OldKey
  <2>5. env' # None => OldKey(keyFile, env')
    BY <2>1 DEF KeyOrder, Handed, Shape, OldKey
  <2>6. agent'.at = "backup" => /\ OldKey(keyFile, agent'.key) /\ agent'.key <= stored'.key
                                /\ env' # None => agent'.key = env'
    BY <2>1, <2>3 DEF KeyOrder, Handed, Shape, OldKey
  <2>7. QED
    BY <2>1, <2>2, <2>3, <2>4, <2>5, <2>6 DEF KeyOrder, Busy
<1>10. CASE Rename
  <2>1. keyFile' = agent.key /\ ~raced /\ UNCHANGED <<env, cli, stored>> /\ agent'.at = "idle"
    BY <1>10, IdleTyped DEF Rename, TypeOK
  <2>2. agent.at = "rename"
    BY <1>10 DEF Rename
  <2>3. OldKey(keyFile', stored.key) /\ (env # None => OldKey(keyFile', env))
    BY <2>1, <2>2 DEF KeyOrder, OldKey
  <2>4. QED
    BY <2>1, <2>3 DEF KeyOrder, Busy
<1>11. CASE KeyWriteFails \/ AgentCrashes
  <2>1. ~raced /\ UNCHANGED <<keyFile, cli, stored>> /\ env' \in {env, None}
    BY <1>11 DEF KeyWriteFails, AgentCrashes, fileVars
  <2>2. \/ agent'.at \in {"idle", "down"}
        \/ agent'.at = "backup" /\ agent'.key = agent.key /\ agent.at \in KeyFilePhase /\ env' = env
    BY <1>11, IdleTyped DEF KeyWriteFails, AgentCrashes, TypeOK, Process
  <2>3. QED
    BY <1>3, <2>1, <2>2 DEF KeyOrder, Busy
<1>12. CASE KeyFileDamaged
  <2>1. keyFile' \in {None, Torn} /\ ~raced /\ UNCHANGED <<env, agent, cli, stored>>
    BY <1>12 DEF KeyFileDamaged
  <2>2. \A k : OldKey(keyFile', k)
    BY <2>1 DEF OldKey
  <2>3. QED
    BY <2>1, <2>2 DEF KeyOrder
<1>13. CASE LoginAnswered \/ LoginAccount \/ LoginBound \/ LoginFails \/ CommandTruncates \/ CommandCrashes
  <2>1. ~raced /\ UNCHANGED <<keyFile, env, agent, stored>>
    BY <1>13 DEF LoginAnswered, LoginAccount, LoginBound, LoginFails, CommandTruncates, CommandCrashes,
                 fileVars, ghostVars
  <2>2. cli'.at = "idle" \/ (Busy(cli) /\ cli'.at \in Writing)
    <3>1. CASE LoginFails \/ CommandCrashes
      BY <3>1, IdleTyped DEF LoginFails, CommandCrashes
    <3>2. CASE LoginAnswered \/ LoginAccount \/ LoginBound \/ CommandTruncates
      <4>1. cli'.at \in Writing
        <5>1. CASE LoginAnswered \/ LoginBound
          BY <5>1 DEF LoginAnswered, LoginBound, TypeOK, Process
        <5>2. CASE LoginAccount \/ CommandTruncates
          BY <5>2 DEF LoginAccount, CommandTruncates, TypeOK, Process
        <5>3. QED
          BY <3>2, <5>1, <5>2
      <4>2. QED
        BY <3>2, <4>1 DEF LoginAnswered, LoginAccount, LoginBound, CommandTruncates, Truncate, Busy
    <3>3. QED
      BY <1>13, <3>1, <3>2
  <2>3. cli'.at \in Writing => stored.key <= cli'.cfg.key
    <3>1. cli.cfg \in Register!Config /\ serverKey \in Keys
      BY DEF TypeOK, Process, Config
    <3>2. Register!WithLogin(cli.cfg, serverKey).key = serverKey /\ Register!WithBinding(cli.cfg, serverKey).key = serverKey
      BY <3>1, KeyUpdate
    <3>3. CASE LoginAnswered \/ LoginBound
      <4>1. cli'.cfg \in {Register!WithLogin(cli.cfg, serverKey), Register!WithBinding(cli.cfg, serverKey)}
        <5>1. CASE LoginAnswered
          BY <5>1 DEF LoginAnswered, TypeOK, Process
        <5>2. CASE LoginBound
          BY <5>2 DEF LoginBound, TypeOK, Process
        <5>3. QED
          BY <3>3, <5>1, <5>2
      <4>2. QED
        BY <3>2, <4>1 DEF Handed, OldKey, Shape
    <3>4. CASE LoginAccount \/ CommandTruncates
      <4>1. cli'.cfg = cli.cfg /\ cli.at \in {"self"} \cup Writing
        BY <3>4 DEF LoginAccount, CommandTruncates, Truncate, TypeOK, Process
      <4>2. QED
        BY <2>1, <4>1 DEF KeyOrder
    <3>5. CASE LoginFails \/ CommandCrashes
      BY <3>5, IdleTyped DEF LoginFails, CommandCrashes
    <3>6. QED
      BY <1>13, <3>3, <3>4, <3>5
  <2>4. QED
    BY <2>1, <2>2, <2>3 DEF KeyOrder, Busy
<1>14. CASE CommandFills
  <2>1. /\ cli.at \in Writing /\ ~raced /\ UNCHANGED <<keyFile, env, agent>> /\ stored' = cli.cfg
        /\ cli'.at \in {"idle", "self", "bind"} /\ (cli'.at # "idle" => cli'.cfg = cli.cfg)
    BY <1>14, IdleTyped DEF CommandFills, Fill, TypeOK, Process
  <2>2. ~Busy(agent) /\ stored.key <= stored'.key /\ stored'.key \in Nat
    BY <2>1 DEF KeyOrder, Busy, Shape
  <2>3. OldKey(keyFile, stored'.key) /\ OldKey(env, stored'.key)
    BY <2>1, <2>2 DEF KeyOrder, OldKey
  <2>4. agent.at \in KeyFilePhase => agent.key <= stored'.key
    <3>1. agent.at \in KeyFilePhase => agent.key <= stored.key /\ agent.key \in Nat
      BY <2>1 DEF KeyOrder
    <3>2. QED
      BY <2>2, <3>1
  <2>5. QED
    BY <2>1, <2>2, <2>3, <2>4 DEF KeyOrder, Busy
<1>15. QED
  BY <1>4, <1>5, <1>6, <1>7, <1>8, <1>9, <1>10, <1>11, <1>12, <1>13, <1>14, NextCases

LEMMA HoldsUpdateStep ==
  ASSUME TypeOK, Shape, KeyOrder, HoldsUpdate, [Next]_vars
  PROVE  HoldsUpdate'
<1> SUFFICES ASSUME ~raced', ~cut' PROVE HoldsUpdate'
  BY DEF HoldsUpdate
<1>1. stored \in Register!Config /\ stored # Torn /\ serverKey \in Keys
  BY TornAssumption DEF TypeOK, Config
<1> USE DEF Writing
<1>2. CASE SaveBegins
  <2>1. ~raced /\ ~cut /\ ~Busy(cli) /\ config' # Torn
    BY <1>1, <1>2 DEF SaveBegins, fileVars
  <2>2. QED
    BY <1>2, <2>1 DEF SaveBegins, HoldsUpdate, Busy
<1>3. CASE CommandBegins
  <2>1. ~raced /\ ~cut /\ ~Busy(agent) /\ UNCHANGED <<config, agent, stored>> /\ cli.at = "idle"
    BY <1>3 DEF CommandBegins, fileVars
  <2>2. config # Torn
    BY <2>1 DEF HoldsUpdate, Busy
  <2>3. QED
    BY <1>3, <2>1, <2>2 DEF CommandBegins, HoldsUpdate, Busy
<1>4. CASE SyncDecides
  BY <1>4, IdleTyped DEF SyncDecides, HoldsUpdate, fileVars, ghostVars
<1>5. CASE UNCHANGED <<fileVars, env, agent, cli, ghostVars>>
  BY <1>5 DEF HoldsUpdate, fileVars, ghostVars
<1>6. CASE AgentTruncates
  BY <1>6 DEF AgentTruncates, Truncate, HoldsUpdate, ghostVars, TypeOK, Process
<1>7. CASE AgentFills
  <2>1. ~raced /\ ~cut /\ Busy(agent) /\ cli' = cli /\ config' = agent.cfg /\ agent.cfg \in Config
    BY <1>7 DEF AgentFills, Fill, Busy, TypeOK, Process
  <2>2. agent'.at \notin Writing
    BY <1>7, IdleTyped DEF AgentFills, TypeOK, Process
  <2>3. QED
    BY <2>1, <2>2, TornAssumption DEF KeyOrder, HoldsUpdate, Busy
<1>8. CASE CopyToBackup \/ CopyFails \/ WriteTemp \/ Rename \/ KeyWriteFails \/ KeyFileDamaged
  <2>1. ~raced /\ ~cut /\ UNCHANGED <<config, cli, stored>>
    BY <1>8 DEF CopyToBackup, CopyFails, WriteTemp, Rename, KeyWriteFails, KeyFileDamaged, fileVars, ghostVars
  <2>2. agent' = agent \/ (agent'.at \notin Writing /\ agent.at # "write")
    BY <1>8, IdleTyped DEF CopyToBackup, CopyFails, WriteTemp, Rename, KeyWriteFails, KeyFileDamaged, TypeOK, Process
  <2>3. QED
    BY <2>1, <2>2 DEF HoldsUpdate
<1>9. CASE AgentSaveFails \/ AgentCrashes \/ CommandCrashes
  BY <1>9, IdleTyped DEF AgentSaveFails, AgentCrashes, CommandCrashes, HoldsUpdate, fileVars
<1>10. CASE LoginAnswered \/ LoginAccount \/ LoginBound \/ LoginFails
  <2>1. ~raced /\ ~cut /\ UNCHANGED <<config, agent, stored>> /\ cli.at \in {"ask", "self", "bind"}
    BY <1>10 DEF LoginAnswered, LoginAccount, LoginBound, LoginFails, fileVars, ghostVars
  <2>2. cli.cfg = stored /\ (config = Torn => agent.at = "write")
    BY <2>1 DEF HoldsUpdate
  <2>3. \/ cli' = Idle
        \/ /\ cli'.at = "load"
           /\ cli'.cfg \in {stored, Register!WithLogin(stored, serverKey), Register!WithBinding(stored, serverKey)}
    <3>1. CASE LoginAnswered
      BY <2>2, <3>1 DEF LoginAnswered, TypeOK, Process
    <3>2. CASE LoginBound
      BY <2>2, <3>2 DEF LoginBound, TypeOK, Process
    <3>3. CASE LoginAccount \/ LoginFails
      BY <2>2, <3>3 DEF LoginAccount, LoginFails, TypeOK, Process
    <3>4. QED
      BY <1>10, <3>1, <3>2, <3>3
  <2>4. stored \in Register!Updated(stored)
    <3>1. stored.tls \in BOOLEAN
      BY <1>1 DEF Register!Config
    <3>2. QED
      BY <1>1, <3>1, TlsAgain, Updates
  <2>5. cli' = Idle \/ (cli'.at = "load" /\ cli'.cfg \in Register!Updated(stored))
    BY <1>1, <2>3, <2>4, Updates
  <2>6. QED
    BY <2>1, <2>2, <2>5, IdleTyped DEF HoldsUpdate
<1>11. CASE CommandTruncates
  BY <1>11 DEF CommandTruncates, Truncate, HoldsUpdate, ghostVars, TypeOK, Process
<1>12. CASE CommandFills
  <2>1. ~raced /\ ~cut /\ Busy(cli) /\ agent' = agent /\ config' = cli.cfg /\ stored' = cli.cfg /\ cli.cfg \in Config
    BY <1>12 DEF CommandFills, Fill, Busy, TypeOK, Process
  <2>2. cli'.at \notin Writing /\ (cli'.at \in {"ask", "self", "bind"} => cli'.cfg = cli.cfg)
    BY <1>12, IdleTyped DEF CommandFills, TypeOK, Process
  <2>3. QED
    BY <2>1, <2>2, TornAssumption DEF KeyOrder, HoldsUpdate, Busy
<1>13. QED
  BY <1>2, <1>3, <1>4, <1>5, <1>6, <1>7, <1>8, <1>9, <1>10, <1>11, <1>12, NextCases
-----------------------------------------------------------------------------
LEMMA InitIInv ==
  ASSUME Init
  PROVE  IInv
<1>1. config \in Config /\ config.key = 0 /\ config # Torn
  <2>1. config \in Config /\ config.key = 0
    BY KeyFacts, EmptyTyped DEF Init, Config, Empty, Register!Config
  <2>2. QED
    BY <2>1, TornAssumption
<1>2. /\ serverKey = 0 /\ keyFile = 0 /\ backup = None /\ temp = None /\ env = None
      /\ agent \in Process /\ agent.at = "down" /\ agent.op = "none" /\ agent.key = None /\ agent.cfg.key = None
      /\ cli \in Process /\ cli.at = "idle" /\ cli.op = "none" /\ cli.cfg.key = None
      /\ stored = config /\ ~raced /\ ~cut /\ ~missed
      /\ raced \in BOOLEAN /\ cut \in BOOLEAN /\ missed \in BOOLEAN
      /\ commands = 0 /\ trouble = 0
  BY IdleTyped DEF Init
<1>3. TypeOK
  BY <1>1, <1>2, KeyFacts, BoundsAssumption DEF TypeOK
<1>4. Shape /\ Handed /\ FileFollows
  BY <1>1, <1>2, KeyFacts DEF Shape, Handed, OldKey, FileFollows, Writing, KeyFilePhase
<1>5. KeyOrder /\ HoldsUpdate
  BY <1>1, <1>2, KeyFacts DEF KeyOrder, HoldsUpdate, OldKey, Writing, KeyFilePhase, Busy
<1>6. QED
  BY <1>3, <1>4, <1>5 DEF IInv

LEMMA IInvStep ==
  ASSUME IInv, [Next]_vars
  PROVE  IInv'
<1>1. TypeOK'
  BY TypeStep DEF IInv
<1>2. QED
  BY <1>1, ShapeStep, HandedStep, FileFollowsStep, KeyOrderStep, HoldsUpdateStep DEF IInv

(* The strengthening is an invariant, for all sets of targets and all bounds. *)
THEOREM InvHolds == Spec => []IInv
<1>1. Init => IInv
  BY InitIInv
<1>2. IInv /\ [Next]_vars => IInv'
  BY IInvStep
<1>3. QED
  BY <1>1, <1>2, PTL DEF Spec

(* The configuration, the files and what the two processes hold have their types. *)
THEOREM TypeCorrect == Spec => []TypeOK
<1>1. IInv => TypeOK
  BY DEF IInv
<1>2. QED
  BY <1>1, InvHolds, PTL

(* The newest key that was stored is in config.json, in the key file or in the running
   agent, unless the key file was not brought up to it: also while a save has emptied
   config.json (the order of updateManagedKey) and after any overlap or cut write. *)
THEOREM KeyNeverLost == Spec => []NoKeyLost
<1>1. IInv => NoKeyLost
  BY DEF IInv, FileFollows, NoKeyLost
<1>2. QED
  BY <1>1, InvHolds, PTL

(* Only a rename and an outsider change the key file; the rename puts in a key that is
   whole and, without an overlap, no older than what it replaces (writeManagedKeyToFile). *)
LEMMA KeyFileStep ==
  ASSUME IInv, Next, agent' # agent, keyFile' # keyFile
  PROVE  keyFile' \in Keys /\ (keyFile \in Keys /\ ~raced => keyFile' >= keyFile)
<1>1. Rename
  <2>1. [Next]_vars
    OBVIOUS
  <2>2. QED
    BY <2>1, NextCases DEF IInv, SaveBegins, CommandBegins, SyncDecides, AgentTruncates, AgentFills,
      AgentSaveFails, CopyToBackup, CopyFails, WriteTemp, KeyWriteFails, LoginAnswered, LoginAccount,
      LoginBound, LoginFails, CommandTruncates, CommandFills, AgentCrashes, CommandCrashes,
      KeyFileDamaged, fileVars
<1>2. agent.at = "rename" /\ keyFile' = agent.key /\ agent.key \in Keys
  BY <1>1 DEF Rename, IInv, TypeOK
<1>3. keyFile \in Keys /\ ~raced => keyFile <= agent.key
  BY <1>2 DEF IInv, KeyOrder, OldKey, KeyFilePhase
<1>4. QED
  BY <1>2, <1>3, KeyFacts

THEOREM KeyFileForward == Spec => KeyFileMovesForward
<1>1. IInv /\ [Next]_vars =>
        [agent' # agent /\ keyFile' # keyFile =>
           keyFile' \in Keys /\ (keyFile \in Keys /\ ~raced => keyFile' >= keyFile)]_vars
  BY KeyFileStep
<1>2. QED
  BY <1>1, InvHolds, PTL DEF Spec, KeyFileMovesForward

(* A step of the two processes is an update of the register, the end of its promise or no
   change of it: only a write that was filled changes what is stored. *)
LEMMA RegisterStep ==
  ASSUME IInv, Next
  PROVE  [Register!Next]_(Register!vars)
<1> USE DEF Register!Next, Register!Update, Register!Damage, Register!vars
<1>1. [Next]_vars
  OBVIOUS
<1>2. ASSUME stored' = stored, raced => raced', cut => cut'
      PROVE  [Register!Next]_(Register!vars)
  BY <1>2
<1>3. CASE SaveBegins \/ CommandBegins \/ SyncDecides \/ UNCHANGED <<fileVars, env, agent, cli, ghostVars>>
  BY <1>2, <1>3 DEF SaveBegins, CommandBegins, SyncDecides, ghostVars
<1>4. CASE \/ AgentTruncates \/ AgentSaveFails \/ CopyToBackup \/ CopyFails \/ WriteTemp \/ Rename
           \/ KeyWriteFails \/ LoginAnswered \/ LoginAccount \/ LoginBound \/ LoginFails
           \/ CommandTruncates \/ AgentCrashes \/ CommandCrashes \/ KeyFileDamaged
  BY <1>2, <1>4
  DEF AgentTruncates, AgentSaveFails, CopyToBackup, CopyFails, WriteTemp, Rename, KeyWriteFails,
      LoginAnswered, LoginAccount, LoginBound, LoginFails, CommandTruncates, AgentCrashes,
      CommandCrashes, KeyFileDamaged, ghostVars
<1>5. CASE AgentFills \/ CommandFills
  <2>1. /\ raced' = raced /\ cut' = cut
        /\ \/ stored' = agent.cfg /\ agent.at \in Writing
           \/ stored' = cli.cfg /\ cli.at \in Writing
    BY <1>5 DEF AgentFills, CommandFills, Fill, Writing
  <2>2. ~raced /\ ~cut => stored' \in Register!Updated(stored)
    BY <2>1 DEF IInv, HoldsUpdate
  <2>3. CASE raced \/ cut
    BY <2>1, <2>3
  <2>4. CASE ~raced /\ ~cut
    BY <2>1, <2>2, <2>4
  <2>5. QED
    BY <2>3, <2>4
<1>6. QED
  BY <1>1, <1>3, <1>4, <1>5, NextCases DEF IInv

(* config.json is the register ConfigRegister describes: every update of the agent and of
   the commands changes the stored configuration in one step and keeps the rest of it,
   until two processes overlap or one dies in a write. *)
THEOREM Implements == Spec => UpdatesAreAtomic
<1>1. Init => Register!Init
  <2>1. Init => stored \in Register!Config /\ ~raced /\ ~cut
    BY InitIInv DEF IInv, TypeOK, Config, Init
  <2>2. QED
    BY <2>1 DEF Register!Init
<1>2. IInv /\ [Next]_vars => [Register!Next]_(Register!vars)
  <2>1. UNCHANGED vars => UNCHANGED Register!vars
    BY DEF vars, ghostVars, Register!vars
  <2>2. QED
    BY <2>1, RegisterStep
<1>3. QED
  BY <1>1, <1>2, InvHolds, PTL DEF Spec, UpdatesAreAtomic, Register!Spec
=============================================================================
