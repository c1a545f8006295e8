--------------------------- MODULE DynamicSecrets ---------------------------
(***************************************************************************)
(* services/dynamic-secrets: the vault pushes the configuration of a       *)
(* database connection to the agent, asks it for credentials, and has it   *)
(* renew and revoke them.  The module follows one connection; every        *)
(* version of its configuration names a database of its own.  Messages     *)
(* are handled when they arrive, each handler up to its first await; the   *)
(* SQL of several requests, a closing client, a lost WebSocket and the     *)
(* end of the agent overlap in any order.                                  *)
(***************************************************************************)
EXTENDS Naturals, FiniteSets

CONSTANTS
  Leases,     \* bound: leases the vault may ask for
  Requests,   \* bound: what the vault may ask for a lease
  MaxConfig,  \* bound: versions of the configuration
  Catalogs,   \* bound: what the versions hold: which roles, and statements for what; and which
              \* version is in the payload that is pushed as a version
  MaxFailures \* bound: lost links, killed agents, failures of the database and of pushes

Ops    == {"generate", "revoke", "renew"}
Lists  == {"none", "others", "all"}  \* no role at all, others than the leases', theirs too
ASSUME DynamicSecretsAssumption ==
  /\ MaxConfig \in Nat /\ MaxFailures \in Nat /\ Requests \subseteq Leases \X Ops
  /\ Catalogs \subseteq [1..MaxConfig -> [roles : Lists, statements : SUBSET Ops, payload : 1..MaxConfig]]

VARIABLES
  link,     \* the WebSocket is open
  catalog,  \* what the versions of the configuration hold in this behaviour
  store,    \* configStore: version of the configuration, 0 for none
  cached,   \* clientCache: the version the cached client was made from, 0 for none
  pool,     \* the pool of the cached client: not made yet, open, ended
  ending,   \* the clients whose pools closeClient() waits for
  stopping, \* cleanupDynamicSecrets() is running
  task,     \* the handler at work on a lease, the client it uses and how it came to share that
            \* client's pool, and whether it has statements to run
  db,       \* the database that has the credential of a lease, 0 for none
  extended, \* leases whose credential was renewed in the database
  wanted,   \* the vault: version it wants the agent to have, 0 for none
  newest,   \* the vault: the newest version it has made
  acked,    \* the vault: the push that was acknowledged as loaded on this connection
  lease,    \* the vault: what it knows of a lease
  prolonged,\* the vault: leases it was told are renewed
  excused,  \* history: leases a success was reported for without its effect, and why not
  unremoved,\* history: a revoked configuration stays because its client could not be closed
  failures  \* of the link, the agent and the database so far

agent == <<store, cached, pool, ending, stopping, unremoved>>
dbase == <<db, extended, excused>>
vault == <<wanted, newest, acked, lease, prolonged>>
dynamicVars == <<link, catalog, agent, task, dbase, vault, failures>>

Configs == 0..MaxConfig
Pools   == {"none", "open", "ended"}
Shares  == Pools \union {"ending"}
Acks    == [payload : Configs, late : BOOLEAN]
NoAck   == [payload |-> 0, late |-> FALSE]
NoTask  == [op |-> "none", pc |-> "none", via |-> 0, pool |-> "none", run |-> FALSE]
Reasons == {"unconfigured", "statementless", "misdirected", "torn"}
Busy(v, share) == \E l \in Leases : task[l].pc = "sql" /\ task[l].via = v /\ task[l].pool = share

Failure   == failures < MaxFailures /\ failures' = failures + 1
Excuse(x) == excused' = excused \union {x}

(* sendMessage() drops the answer when the WebSocket is not open. *)
Answer(l, outcome) == lease' = IF link THEN [lease EXCEPT ![l] = outcome] ELSE lease
-----------------------------------------------------------------------------
DynamicInit ==
  /\ link = TRUE /\ catalog \in Catalogs
  /\ store = 0 /\ cached = 0 /\ pool = "none" /\ ending = {} /\ stopping = FALSE
  /\ task = [l \in Leases |-> NoTask]
  /\ db = [l \in Leases |-> 0] /\ extended = {} /\ excused = {}
  /\ wanted = 0 /\ newest = 0 /\ acked = NoAck /\ lease = [l \in Leases |-> "none"] /\ prolonged = {}
  /\ unremoved = FALSE /\ failures = 0

(* Mutant: a configuration that is there is never replaced. *)
StoreConfig_Once(v) == IF store = 0 THEN v ELSE store

(* storeConfig() keeps what it has when that is as new. *)
StoreConfig(v) == IF store >= v THEN store ELSE v

(* handleConfigPush(); the vault pushes a new version, or its newest again after a revocation
   and a reconnect.  The store goes by the version in the payload, the acknowledgement by that
   of the message; a push that is decrypted is acknowledged also while a revocation waits for
   the client, and so comes late. *)
Pushed(v) ==
  /\ link /\ v \in {newest, newest + 1} \cap 1..MaxConfig /\ (v > wanted \/ acked = NoAck)
  /\ wanted' = v /\ newest' = v
PushConfig ==
  /\ \E v \in 1..MaxConfig :
       /\ Pushed(v) /\ store' = StoreConfig(catalog[v].payload)
       /\ acked' = [payload |-> catalog[v].payload, late |-> ending # {}]
  /\ UNCHANGED <<link, catalog, cached, pool, ending, stopping, task, dbase, lease, prolonged,
                 unremoved, failures>>
PushFails ==
  /\ Failure /\ \E v \in 1..MaxConfig : Pushed(v)
  /\ UNCHANGED <<link, catalog, agent, task, dbase, acked, lease, prolonged>>

(* The cached client and the configuration are removed, whichever they are by then. *)
Remove == cached' = 0 /\ pool' = "none" /\ store' = 0 /\ unremoved' = FALSE

(* handleConfigRevoke() as far as the await of closeClient(): without a pool there is nothing
   to wait for.  A pool is ended once; the second time is an error, with which closeClient()
   leaves the client and handleConfigRevoke() the configuration, or nothing is left to end. *)
RevokeConfig ==
  /\ link /\ wanted # 0 /\ wanted' = 0 /\ acked' = NoAck
  /\ \/ pool = "none" /\ Remove /\ UNCHANGED ending
     \/ /\ pool = "open" /\ pool' = "ended" /\ ending' = ending \union {cached}
        /\ unremoved' = FALSE /\ UNCHANGED <<store, cached>>
     \/ pool = "ended" /\ unremoved' = (ending = {}) /\ UNCHANGED <<store, cached, pool, ending>>
     \/ pool = "ended" /\ cached \notin ending /\ Remove /\ UNCHANGED ending
  /\ task' = [l \in Leases |-> IF pool = "open" /\ task[l].pool = "open" /\ task[l].via = cached
                              THEN [task[l] EXCEPT !.pool = "ending"] ELSE task[l]]
  /\ UNCHANGED <<link, catalog, stopping, dbase, newest, lease, prolonged, failures>>

(* Mutant: nothing of the store is removed. *)
ClientClosed_KeepsConfig(v) ==
  /\ v \in ending /\ ~Busy(v, "ending") /\ ending' = ending \ {v} /\ cached' = 0 /\ pool' = "none"
  /\ UNCHANGED <<link, catalog, store, unremoved, stopping, task, dbase, vault, failures>>

(* The pool has ended once no query runs on it. *)
ClientClosed(v) ==
  /\ v \in ending /\ ~Busy(v, "ending") /\ ending' = ending \ {v} /\ Remove
  /\ UNCHANGED <<link, catalog, stopping, task, dbase, vault, failures>>

(* The pool does not end without an error: the ended client stays in the cache, and its
   configuration in the store. *)
ClientCloseFails(v) ==
  /\ Failure /\ v \in ending /\ ~Busy(v, "ending") /\ ending' = ending \ {v} /\ unremoved' = (ending = {v})
  /\ UNCHANGED <<link, catalog, store, cached, pool, stopping, task, dbase, vault>>
-----------------------------------------------------------------------------
(* getOrCreateClient(): a cached client that was used in the last five minutes is used again,
   whatever its configuration and its pool; otherwise one is made from the configuration. *)
UseClient ==
  \/ cached # 0 /\ UNCHANGED <<cached, pool>>
  \/ cached' = store /\ pool' = "none"
Begin(l, op) ==
  /\ UseClient
  /\ task' = [task EXCEPT ![l] = [op |-> op, pc |-> "connect", via |-> cached', pool |-> pool',
                                  run |-> op \in catalog[store].statements]]

(* handleGenerate() and handleRenew() look up the role, handleRevoke() takes the first one. *)
HasRole(op) ==
  store # 0 /\ IF op = "revoke" THEN catalog[store].roles # "none" ELSE catalog[store].roles = "all"
Lacking == IF store = 0 THEN "unconfigured" ELSE "statementless"

Generate(l) ==
  /\ link /\ lease[l] = "none" /\ <<l, "generate">> \in Requests
  /\ IF HasRole("generate")
       THEN Begin(l, "generate") /\ lease' = [lease EXCEPT ![l] = "asked"]
       ELSE lease' = [lease EXCEPT ![l] = "refused"] /\ UNCHANGED <<cached, pool, task>>
  /\ UNCHANGED <<link, catalog, store, ending, stopping, dbase, wanted, newest, acked, prolonged,
                 unremoved, failures>>

(* Also a second time, when no answer has come.  Without a configuration or a role the answer
   is a success. *)
Revoke(l) ==
  /\ link /\ lease[l] \in {"held", "revoking"} /\ task[l] = NoTask /\ <<l, "revoke">> \in Requests
  /\ IF HasRole("revoke")
       THEN Begin(l, "revoke") /\ lease' = [lease EXCEPT ![l] = "revoking"] /\ UNCHANGED excused
       ELSE /\ lease' = [lease EXCEPT ![l] = "revoked"] /\ Excuse(<<l, Lacking>>)
            /\ UNCHANGED <<cached, pool, task>>
  /\ UNCHANGED <<link, catalog, store, ending, stopping, db, extended, wanted, newest, acked,
                 prolonged, unremoved, failures>>

(* So it is without statements, for which a client is made all the same. *)
Renew(l) ==
  /\ link /\ lease[l] = "held" /\ task[l] = NoTask /\ <<l, "renew">> \in Requests /\ l \notin prolonged
  /\ IF HasRole("renew") /\ "renew" \in catalog[store].statements
       THEN Begin(l, "renew") /\ UNCHANGED <<prolonged, excused>>
       ELSE /\ prolonged' = prolonged \union {l} /\ Excuse(<<l, Lacking>>) /\ UNCHANGED task
            /\ IF HasRole("renew") THEN UseClient ELSE UNCHANGED <<cached, pool>>
  /\ UNCHANGED <<link, catalog, store, ending, stopping, db, extended, wanted, newest, acked, lease,
                 unremoved, failures>>

(* The first handlers of a client make its pool when they come to use it, also after the client
   has been closed or dropped from the cache: then nobody waits for that pool.  The client in the
   cache may be a newer one of the same version. *)
GetConnection(l) ==
  /\ task[l].pc = "connect" /\ task[l].pool # "ended"
  /\ task' = [task EXCEPT ![l].pc = "sql", ![l].pool = IF @ = "none" THEN "open" ELSE @]
  /\ pool' \in IF pool = "none" /\ task[l].via = cached /\ task[l].pool = "none" THEN {"none", "open"}
               ELSE {pool}
  /\ UNCHANGED <<link, catalog, store, cached, ending, stopping, unremoved, dbase, vault, failures>>

(* What the vault makes of the answer when a request fails. *)
Failed(op) == CASE op = "generate" -> "refused" [] op = "revoke" -> "kept" [] op = "renew" -> "held"

(* A pool that is ending or has ended gives out no connection; the answer is an error. *)
ConnectRefused(l) ==
  /\ task[l].pc = "connect"
  /\ \/ task[l].pool \in {"ending", "ended"}
     \/ task[l].pool = "open" /\ (task[l].via # cached \/ pool = "none" \/ stopping)
  /\ Answer(l, Failed(task[l].op)) /\ task' = [task EXCEPT ![l] = NoTask]
  /\ UNCHANGED <<link, catalog, agent, dbase, wanted, newest, acked, prolonged, failures>>

Created(l) ==
  /\ task[l].pc = "sql" /\ task[l].op = "generate"
  /\ IF task[l].run THEN db' = [db EXCEPT ![l] = task[l].via] /\ UNCHANGED excused
                    ELSE Excuse(<<l, "statementless">>) /\ UNCHANGED db
  /\ Answer(l, "held") /\ task' = [task EXCEPT ![l] = NoTask]
  /\ UNCHANGED <<link, catalog, agent, extended, wanted, newest, acked, prolonged, failures>>

(* Mutant: the answer is sent before the statements have run. *)
Revoked_Early(l) ==
  /\ task[l].pc = "connect" /\ task[l].op = "revoke"
  /\ Answer(l, "revoked") /\ task' = [task EXCEPT ![l] = NoTask]
  /\ UNCHANGED <<link, catalog, agent, dbase, wanted, newest, acked, prolonged, failures>>

(* The statements succeed; in another database they find no such user, which some statements
   let pass. *)
Revoked(l) ==
  /\ task[l].pc = "sql" /\ task[l].op = "revoke"
  /\ IF task[l].run /\ db[l] \in {0, task[l].via}
       THEN db' = [db EXCEPT ![l] = 0] /\ UNCHANGED excused
       ELSE Excuse(<<l, IF task[l].run THEN "misdirected" ELSE "statementless">>) /\ UNCHANGED db
  /\ Answer(l, "revoked") /\ task' = [task EXCEPT ![l] = NoTask]
  /\ UNCHANGED <<link, catalog, agent, extended, wanted, newest, acked, prolonged, failures>>

Renewed(l) ==
  /\ task[l].pc = "sql" /\ task[l].op = "renew"
  /\ IF db[l] = task[l].via
       THEN extended' = extended \union {l} /\ UNCHANGED excused
       ELSE Excuse(<<l, "misdirected">>) /\ UNCHANGED extended
  /\ prolonged' = IF link THEN prolonged \union {l} ELSE prolonged
  /\ task' = [task EXCEPT ![l] = NoTask]
  /\ UNCHANGED <<link, catalog, agent, db, wanted, newest, acked, lease, failures>>

(* The database is not reached or a statement fails, possibly after the first of them has
   created or dropped the user, or the password cannot be encrypted for the vault. *)
SqlFails(l) ==
  /\ Failure /\ task[l].pc = "sql"
  /\ \/ UNCHANGED <<db, excused>>
     \/ task[l].run /\ task[l].op = "generate" /\ db' = [db EXCEPT ![l] = task[l].via] /\ Excuse(<<l, "torn">>)
     \/ /\ task[l].run /\ task[l].op = "revoke" /\ db[l] = task[l].via
        /\ db' = [db EXCEPT ![l] = 0] /\ UNCHANGED excused
  /\ Answer(l, Failed(task[l].op)) /\ task' = [task EXCEPT ![l] = NoTask]
  /\ UNCHANGED <<link, catalog, agent, extended, wanted, newest, acked, prolonged>>

(* The user is not there, because an earlier revocation got through or the client belongs to
   another configuration, and the statements do not let that pass. *)
NoSuchUser(l) ==
  /\ task[l].pc = "sql" /\ task[l].op \in {"revoke", "renew"} /\ task[l].run
  /\ db[l] # task[l].via
  /\ Answer(l, Failed(task[l].op)) /\ task' = [task EXCEPT ![l] = NoTask]
  /\ UNCHANGED <<link, catalog, agent, dbase, wanted, newest, acked, prolonged, failures>>
-----------------------------------------------------------------------------
LinkDrops ==
  /\ Failure /\ link /\ link' = FALSE /\ acked' = NoAck
  /\ UNCHANGED <<catalog, agent, task, dbase, wanted, newest, lease, prolonged>>
Reconnect ==
  /\ ~link /\ ~stopping /\ link' = TRUE
  /\ UNCHANGED <<catalog, agent, task, dbase, vault, failures>>

(* The shutdown disconnects before it has the cached client's pool ended. *)
Cleanup ==
  /\ Failure /\ ~stopping /\ stopping' = TRUE /\ link' = FALSE /\ acked' = NoAck
  /\ UNCHANGED <<catalog, store, cached, pool, ending, unremoved, task, dbase, wanted, newest, lease,
                 prolonged>>

(* The process ends and is started again: nothing of the configuration outlives it, and the
   statements under way may get through. *)
Restarted ==
  /\ store' = 0 /\ cached' = 0 /\ pool' = "none" /\ ending' = {} /\ stopping' = FALSE
  /\ unremoved' = FALSE /\ link' = TRUE /\ acked' = NoAck
  /\ \E through \in SUBSET {l \in Leases : task[l].pc = "sql" /\ task[l].op = "generate" /\ task[l].run} :
       db' = [l \in Leases |-> IF l \in through THEN task[l].via ELSE db[l]]
  /\ task' = [l \in Leases |-> NoTask]
  /\ UNCHANGED <<catalog, extended, excused, wanted, newest, lease, prolonged>>

(* cleanupDynamicSecrets() has ended. *)
CleanupEnds == stopping /\ ~Busy(cached, "open") /\ Restarted /\ UNCHANGED failures
Killed == Failure /\ Restarted
-----------------------------------------------------------------------------
SqlEnds(l) == Created(l) \/ Revoked(l) \/ Renewed(l) \/ SqlFails(l) \/ NoSuchUser(l)

DynamicNext ==
  \/ PushConfig \/ PushFails \/ RevokeConfig
  \/ \E v \in ending : ClientClosed(v) \/ ClientCloseFails(v)
  \/ \E l \in Leases :
       \/ Generate(l) \/ Revoke(l) \/ Renew(l)
       \/ GetConnection(l) \/ ConnectRefused(l) \/ SqlEnds(l)
  \/ LinkDrops \/ Reconnect \/ Cleanup \/ CleanupEnds \/ Killed

(* Connections are given out or refused, statements end, promises are continued. *)
DynamicFairness ==
  /\ \A v \in 1..MaxConfig : WF_dynamicVars(ClientClosed(v))
  /\ WF_dynamicVars(CleanupEnds)
  /\ \A l \in Leases : WF_dynamicVars(GetConnection(l) \/ ConnectRefused(l))
                        /\ WF_dynamicVars(SqlEnds(l))

DynamicSpec == DynamicInit /\ [][DynamicNext]_dynamicVars /\ DynamicFairness
-----------------------------------------------------------------------------
(* Type invariant; a handler that reached the database has a client made from some
   configuration. *)
DynamicTypeOK ==
  /\ link \in BOOLEAN /\ stopping \in BOOLEAN /\ (stopping => ~link) /\ catalog \in Catalogs
  /\ {store, cached, wanted, newest} \subseteq Configs /\ acked \in Acks
  /\ pool \in Pools /\ (cached = 0 => pool = "none") /\ ending \subseteq 1..MaxConfig
  /\ \A l \in Leases :
       \/ task[l] = NoTask
       \/ task[l] \in [op : Ops, pc : {"connect", "sql"}, via : Configs \ {0}, pool : Shares, run : BOOLEAN]
  /\ db \in [Leases -> Configs] /\ extended \subseteq Leases /\ prolonged \subseteq Leases
  /\ lease \in [Leases -> {"none", "asked", "refused", "held", "revoking", "revoked", "kept"}]
  /\ excused \subseteq Leases \X Reasons /\ unremoved \in BOOLEAN /\ failures \in 0..MaxFailures

(* A lease the vault holds has a credential in a database, unless its role has no statements
   that create one. *)
HeldIsReal == \A l \in Leases : lease[l] = "held" => db[l] # 0 \/ <<l, "statementless">> \in excused

(* A success was reported for the lease although nothing was done for it in its database. *)
Misled(l) == {<<l, "unconfigured">>, <<l, "statementless">>, <<l, "misdirected">>} \cap excused # {}

(* Every credential in a database is accounted for: the vault holds its lease or waits for an
   answer about it, or it was told of a failure; otherwise the statements that created it broke
   off, or its revocation was reported as done when the configuration, its roles or their
   statements were missing or a client of another configuration was used. *)
CredentialsAccountedFor ==
  \A l \in Leases :
    db[l] # 0 =>
      \/ lease[l] \in {"asked", "held", "revoking", "kept"}
      \/ lease[l] = "refused" /\ <<l, "torn">> \in excused
      \/ lease[l] = "revoked" /\ Misled(l)

(* A renewal the vault was told of was made in the database, with the same exceptions. *)
RenewedIsExtended == \A l \in prolonged : l \in extended \/ Misled(l)

(* What was acknowledged to the vault is in the store, in the version of its payload or a newer
   one, as long as the connection lasts and the vault does not revoke it, unless the push came
   while a revocation waited for its client. *)
AckedIsStored == acked # NoAck => store >= acked.payload \/ acked.late

(* A revoked configuration, and the client made from it, go once the statements under way have
   ended, whatever requests go on arriving, unless the client could not be closed. *)
RevokedConfigGoes ==
  (wanted = 0) ~> (wanted # 0 \/ (store = 0 /\ cached = 0) \/ stopping \/ unremoved)
-----------------------------------------------------------------------------
(* Statements the code does not keep. *)

(* The version that the vault has pushed and knows to be loaded is in the store: the
   acknowledgement has the version of the message, and the store that of the payload. *)
AckNamesStored == acked # NoAck /\ failures = 0 => store >= wanted \/ acked.late

(* A revoked credential is gone from its database: without roles or statements, and through a
   client of another configuration, the revocation reports a success all the same. *)
RevokedIsGone == \A l \in Leases : lease[l] = "revoked" => db[l] = 0

(* A revoked configuration goes in any case. *)
RevokedAlwaysGoes == (wanted = 0) ~> (wanted # 0 \/ (store = 0 /\ cached = 0) \/ stopping)
=============================================================================
