# zn-vault-agent: TLA+ models, checks and proofs

zn-vault-agent is a daemon that keeps a machine supplied with certificates, secrets
and its own API key from a ZN-Vault server. It holds a WebSocket to the vault, writes
files when the vault announces a rotation, reloads services, renews the key it
authenticates with, and in exec mode supervises a child process whose environment holds
the secrets. This directory holds models of its parts, the TLC runs that check
them and the TLAPS proofs about them. Paths below are relative to `src/` (the
repository); `websocket.ts` without a directory is `src/lib/websocket.ts`, the daemon.

The agent is one Node.js process with one JavaScript thread. Code runs without
interruption from one `await` (or callback) to the next, and everything else may run in
between. All modules use this granularity: an action is the code between two awaits.

## 1. Inventory

| Component | Code | State it keeps | Operations |
|---|---|---|---|
| Daemon | `websocket.ts`, `commands/start.ts` | `isShuttingDown`, `activeDeployments`, poll and key-sync timers | start in a fixed order, event handlers, poll, shutdown |
| Child process manager | `services/child-process-manager.ts`, `lib/secret-file-manager.ts` | `child`, `status`, `restartCount`, restart window, timers, PID file, secret files | start, stop, restart, crash handling, orphan handling, signals |
| Managed key renewal | `services/managed-key/` | `currentKey`, refresh timer, grace poller, heartbeat, event flags | start, stop, bind, schedule, react to events, reconnects, auth failures |
| WebSocket client | `lib/websocket/client.ts`, `reconnect.ts`, `heartbeat.ts` | `ws`, reconnect timer, heartbeat interval, flags | connect, disconnect, force reconnect, open, close, error, message |
| Dispatcher | `lib/websocket/dispatcher.ts` | none | parse a message, call the handlers |
| Certificate deployer | `lib/deployer.ts`, `lib/config/targets.ts` | output files, backups, fingerprints | deploy, back up, write, verify, reload, roll back, record |
| Secret deployer | `lib/secret-deployer.ts` | output files, versions | fetch, write, record, reload |
| Configuration store | `lib/config/` | `config.json`, `ZNVAULT_*` variables | load, save, update key, fingerprints, managed key |
| Managed key file | `lib/config/managed-key.ts` | key file, `.bak` | write atomically, recover, synchronise |
| Configuration from the vault | `lib/config/vault-loader.ts`, `commands/start.ts` | configuration in memory, its version | fetch at the start and after an event |
| Startup cleanup | `utils/startup-cleanup.ts` | files left by a crash | remove temporary and old backup files |
| API key renewal | `services/api-key-renewal.ts` | timer, in-flight check | check, rotate, save |
| Degraded mode | `services/degraded-mode-handler.ts` | degraded state, agent id | enter, leave, claim a reprovisioning token |
| TLS certificate manager | `services/tls-certificate-manager.ts` | certificate files, retry count, timer | activate, renew, schedule, reload HTTPS |
| Agent auto-update | `services/npm-auto-update.ts` | lock file, timers | check, delay, lock, install, restart |
| Plugin auto-update | `services/plugin-auto-update.ts` | lock file, installed versions, timers | the same for plugins |
| Plugin host | `plugins/` | status of each plugin, storage | load, init, start, stop, dispatch events, health |
| Dynamic secrets | `services/dynamic-secrets/` | pushed configurations, database clients, vault key | generate, renew, revoke, configuration push and revoke |
| API client | `lib/api.ts` | login token | requests with retries |
| Bootstrap | `lib/auth/bootstrap.ts` | one-time token | exchange a one-time token for a key |
| Health, metrics, logging, validation, CLI | `lib/health.ts`, `lib/metrics.ts`, ... | counters and views | reporting; one-shot commands |

**How they interact.** `startDaemon` (`websocket.ts`) composes them: clean up, synchronise
the key file, build the child manager, plugins, health server, TLS manager and WebSocket
client, register handlers, await the first key refresh, connect, run the initial syncs of
certificates and secrets, start the child, start polling, install signal handlers. From
then on everything is callbacks: a message of the WebSocket starts a deployment, a
deployment or a key rotation calls `childManager.restart`, a changed key closes the
WebSocket and opens it 500 ms later, a close with 4001 starts a key refresh, a reconnect
polls for a missed rotation. They share the configuration file, which each update loads,
changes and saves whole, and the file system.

**What is hard, and what makes each part correct.**

- *Child process manager.* `start()` awaits an orphan check and the secret fetch between
  testing `this.child` and setting it; crash timers, events, boot and shutdown all call
  it; the exit listener of a crash also sees deliberate exits; the agent may die and
  leave the child behind. Correct: at most `maxRestarts` automatic restarts in a window;
  no child out of sight; a crashed child comes back or is given up; nothing starts after
  a stop; a stop ends; no secret file after an orderly exit; an orphan is found again.
- *Managed key renewal.* Binds overlap and their answers may be reordered; the event of
  a rotation may be lost with the connection; binds fail; the next attempt must come
  before the vault's grace period ends. Correct: the key in use is always accepted; the
  chain of refreshes never breaks; a stopped service stays quiet; the open WebSocket was
  authenticated with the current key.
- *WebSocket client.* Sockets outlive `this.ws`; `connect` has five callers; every path
  that gives a connection up must leave something behind that makes the next one.
  Correct: never stranded, one connection, watched by the heartbeat, quiet after shutdown,
  connected again after every fault.
- *Certificate deployer.* Events, the first sync and polls overlap; files are written one
  by one; writes, reloads and health checks fail; the agent crashes between two files.
  Correct: certificate and key of one version, fingerprint never ahead of the files,
  convergence to the vault's version.
- *Secret deployer and daemon.* Deployments of one secret overlap at their fetch, and answers
  come in any order; polls compare with the targets of the start; the configuration is a
  file, or an object in memory, or another object after an event, and a save of one of them
  writes all of it. Correct: the file, the service and the child get the vault's version;
  the newest key is used and stored; whoever runs an old configuration has a reason.
- *Configuration and key file.* Every update loads, changes and saves a whole file in place,
  next to commands of other processes. Correct: the file is a register whose updates are
  atomic; the newest stored key stays within reach; the key file never goes back.
- *API key renewal and degraded mode.* The vault may have rotated a key whose answer is
  lost; claims, rotations and rewrites of the key overlap. Correct: the accepted key is
  stored or on its way; a key expires only by faults.
- *Plugin host.* Hooks are foreign code that may outlast its timeout; health checks and
  events overlap with start and stop. Correct: what was started is stopped, no event goes
  to a plugin that was not started, no hook holds the daemon up.
- *Auto-update.* Agents of one host, and overlapping checks of one agent, share a lock file;
  the registry moves on during a delay of up to half an hour; a restart may cut an
  installation, and who may not write the lock goes on without it. Correct: one update at a time
  under the lock, no restart into a broken package, a host gets the release in the end.
- *Dynamic secrets.* SQL runs while configurations are pushed and revoked and clients are
  closed or cannot be; a success is answered without SQL when roles or statements are missing. Correct: every credential in a database is accounted for, an acknowledged
  configuration is there, a revoked one goes.
- *TLS manager.* Two files are written one after the other, watched one by one, recorded and
  acknowledged later. Correct: nothing counts as installed before both files have it, a due
  certificate is renewed, the server serves what is installed.

`PROJECT.json` lists the components with their status and every hazard at its line.

## 2. Plan

Order by importance: what loses the child, the key, the connection or the files first, then
the services around them.

1. **Done, with theorems**, in this order: `ChildProcess`, `ManagedKey`, `WsClient`, `CertDeploy`,
   `ConfigStore` with its abstract specification `ConfigRegister`, `ApiKey`, `AutoUpdate`,
   `HostConfig` and the composition `Daemon` on top of it, `PluginHost`, `DynamicSecrets`,
   `TlsCertificate`. A proof module has the theorems of one module, or of two that do not
   share a name: `Connections_proofs` (`WsClient`, `DynamicSecrets`), `Certificates_proofs`
   (`CertDeploy`, `TlsCertificate`), `Packages_proofs` (`AutoUpdate`, `PluginHost`); the others are
   called after their module (those of `HostConfig` are in `Daemon_proofs`).
2. **Proofs that are left**: `KeyStaysValid` for grace periods that have room only for what the
   poll inside the grace period asks, and for a key an operator rotates.
3. **Left for later models**: plugin storage and events between plugins, the deployments of
   `sync` next to the agent's, the temporary files of the certificate deployer.

## 3. Modules

Each module names the code's own functions and fields. Definitions with a suffix (for
example `Exceeded_OffByOne`, marked as mutant) are plausible mistakes in that piece of code;
replacing the definition by its variant makes TLC find the property violated.
`PROJECT.json` maps every definition to its lines.

Variables marked *history* are not in the code: they remember why a promise may not be kept,
so that a property can say "or else for this reason". Each such reason was found by TLC
refuting the statement without it, and the text of the property names it.

### ChildProcess

`start()`, `restart()`, `stop()`, `handleCrash`, both exit listeners, the two kill timers,
signals, `killOrphanedChild`, the PID file and `SecretFileManager`.

- A suspended call of `start()` or `restart()` is a member of `Tasks`, at one of three
  awaits: `"exit"` (of the child it stops), `"orphan"`, `"secrets"`.
- `live` is the operating system's view, `mine` the children whose `exit` event this run
  of the agent will get, `child` is `this.child`. Their difference is the point of the
  module: a second spawn overwrites `child`, an agent crash empties `mine`.
- `timers` counts armed restart timers while `timerHeld` says whether `this.restartTimeout`
  holds one: `handleCrash` overwrites the handle, so there may be more timers than handles.
- The agent ends by `process.exit` (`"exited"`, exit handlers run) or is `"killed"`.
- The restart window is the flag `windowOpen` that may close at any time.

Left out: the text of the environment, stdio, `resetRestartCount` (no caller), and the
wall-clock length of delays (a timer that is armed may fire at any time).

### ManagedKey

`refreshManagedKey` with its seven callers, `calculateNextRefreshMs`, `GracePeriodPoller`,
`HeartbeatMonitor`, start and stop, next to a vault that rotates, keeps the old key for
`Grace` and refuses it afterwards. It is the one module with a clock, in ticks of 30
seconds, the unit of the code's constants (`MinRefresh` 2 = 60 s, `Fallback` 10 = 5 min,
`RefreshBefore` 1 = 30 s, `Heartbeat` 2 = 60 s): whether a refresh comes in time is its
question. `Tick` is not enabled while a timer is due or a call has been pending for
`Latency`, which makes "in time" a safety property.

Found while modelling: `refreshManagedKey` catches its own errors, so the retry in the
callers' `catch` blocks (and `RotationRetryHandler`) is never reached and is not in the
model: one failed bind after a rotation event is not repeated although
`services/managed-key/service.ts:383` has "Schedule retry with exponential backoff", and
`wsEventReceived` silences the other safety rails; a configuration that cannot be read makes
`refreshManagedKey` return before it asks the vault (`skipped`, 102-110); `currentKey` is set before
the configuration is saved (118, 131), so when the save throws the next refresh sees no change,
the WebSocket is not opened again with the new key and the flags of the rotation stay as they
are (`unnoticed`) until another rotation; `forceRefresh` has no caller in the program; after 4001 the client
refreshes with the key that was just refused, which can succeed only if another path replaced
it. Left out: the user's configuration file of an agent that cannot write the system's, and what
a save that fails leaves in the file (`ConfigStore`).

### WsClient

The client with its heartbeat and reconnect manager, and what the daemon does to it.
Each socket has a `phase` (`"silent"` is an open socket whose peer is gone), `attached` are
the sockets whose listeners are on. `ws` goes on naming a closed socket, as `this.ws`
does. A closed socket may stand for a new one, so a small number of sockets is enough for
behaviours of any length. Backoff delays, subscriptions and message contents are left out;
the configuration is taken to be complete whenever it is read.

### CertDeploy

`deployCertificate` for one target with the daemon's callers, `backupFiles`,
`writeSecureFile`, `verifyFile`, reload, health check, `restoreBackups`,
`updateTargetFingerprint`, `cleanupBackups`. Before the first write there are two awaits
(metadata, decryption), afterwards none until the acknowledgement: `Busy` is the
deployment that holds the event loop, and only crashes come between its steps. Versions
stand for contents and fingerprints. `memFingerprint` is what polls compare with: the target the
daemon keeps from its start. With a configuration file no deployment updates it, so polls
redeploy after the first rotation; with the configuration of the vault (`inMemory`) it is the
object `updateTargetFingerprint` changes (`Remember`), and a restart forgets it.

Found while modelling: `updateTargetFingerprint` changes the loaded object before it saves
(`lib/config/targets.ts:61-63`). When the save throws (`RecordFails`) the deployment is rolled back, and
in memory the target keeps the fingerprint of the files that were taken back (`misrecorded`), so
that every poll skips them until another rotation or a restart. Left out: more than one target, owners and modes, PEM parsing,
the CLI as a second process, temporary files, a configuration of the vault that is replaced
meanwhile, and what a save that fails leaves in the file.

### ConfigRegister and ConfigStore

`ConfigRegister` is what `lib/config/` promises: `value` changes by one update at a time.
`ConfigStore` is how it is done, call of the file system by call: `writeFileSync` empties
`config.json` and fills it (`AgentTruncates`, `AgentFills`), the key file goes through its
backup, its temporary file and a rename (`CopyToBackup`, `WriteTemp`, `Rename`), and a command of another
process (`login`, targets, `tls`) loads, waits for the vault and saves next to it. Crashes
of either process, write errors and a key file damaged from outside come anywhere. The
refinement maps the register's `value` to `stored`, the configuration last written to the end, and `intact` to
"no overlap and no cut write yet": `UpdatesAreAtomic` is `ConfigRegister`'s
specification. A reader that finds a torn file goes on with an empty configuration, as
`loadConfig` does. `NoKeyLost` asks that, unless a step on the way was missed, the stored key
is in a configuration file that is whole, in the key file or in the environment; `Torn` is
assumed to be no configuration.

Found while modelling: the agent's saves also write the key of its environment, which
`loadConfig` has put into the configuration, over a key that `login` has just stored;
`login` drops `managedKey.filePath`; the startup cleanup looks for `.name.pid.tmp` and does
not see the `.tmp.<pid>` of the key file; `utils/file.ts` has an atomic write that nothing
uses. Left out: the store of a user who cannot write the system file.

### ApiKey

The credentials of an agent without a managed key, next to a vault that issues, expires and
revokes: the bootstrap token, `checkAndRenewApiKey`, `claimReprovisionToken` and the
degraded connection, and `request()` of `lib/api.ts` with its cached login and retries.
Time is counted in days. `valid` is the key the vault accepts; `lost` remembers that a key was
issued whose answer nobody could store.

Found while modelling: nothing calls `claimReprovisionToken`, and the degraded state is left
only by it; a `ZNVAULT_API_KEY` in the unit's environment outlives the rotation of the key
and is back after a restart; a shutdown does not wait for a rotation under way; the POST
that spends the bootstrap token is retried after a timeout although it may have been
handled; `makeClaimRequest` and the exchange have no timeout.

### PluginHost

`PluginLoader`: `hook` says how the promise of a hook stands, `"late"` being one that has
timed out and runs on; `phase` and `at` are the loop of the daemon's call (load, init,
start, stop) and the plugin it is at; `dispatch` are running calls of `dispatchEvent()`, and
`health` a running `collectHealthStatus()`. A health check that answers "healthy" sets a
plugin in error to running (`recovered`), which is the reason the properties excuse.
Left out: storage, events from plugin to plugin, the getters of the context.

### AutoUpdate

Both updaters over one lock file, with the operations of the file system one by one
(`existsSync`, `statSync`, read, unlink, create): `service` chooses which of them a
behaviour follows, `cast` which agent runs each of the checks, `machine` who may write to the
lock's directory and whether npm has `npm bin -g` (constant `Hosts`). The registry's `tag` moves at
any time, `bad` are versions that do not start, `disk` is what is installed (0: broken off).
`adrift` has the checks that update without a lock file of their own, `overlapped` those next to
which another update ran: the first is what the lock promises, the second what the installation
relies on.

Found while modelling: `acquireLock` returns true without a lock on every error but `EEXIST`
(`npm-auto-update.ts:392-394`, `plugin-auto-update.ts:504-508`): for an agent that may not write
to the directory, which the shipped unit's may not, and when the lock is released between
`existsSync` and `statSync`; a stale lock that such an agent may not remove keeps it from updating for
good; the lock file of the plugins is written without
`O_EXCL` and removed without a look at its pid (`docs/GUIDE.md:1700` has "Only one agent
performs the update"); after the delay the updater installs what the tag names by then but
verifies against the version it saw before, so a release in the delay is rolled back and
comes with the next check; an agent whose package another agent has updated sees its disk
at the newest version and is not restarted; `npm bin -g` no longer exists in npm 9 and later,
which every supported Node comes with, and the health check is then skipped; `stop()` of both services has no
caller; a restart asked for by one service cuts the installation of the other.

### DynamicSecrets

The handlers of the WebSocket messages up to their awaits (`task`), the configuration store
with its client cache, `closeClient` and `cleanupDynamicSecrets`; the vault as what it
wants the agent to have and what it knows of each lease; the database as the credentials it
has. Every version of the configuration names a database of its own, so that using a client of an older
version shows. `catalog` is what the versions hold: which roles, which statements, and which
version is in the payload that is pushed as a version. A pool is made when a client is first
used, also by a handler whose client was closed or replaced meanwhile (`GetConnection`), and is
ended once.

Found while modelling: a cached client that is used at least every five minutes keeps the
connection string it was made with, whatever is pushed (`misdirected`); renewals and
revocations report success without any SQL when the configuration is missing (`unconfigured`), or
when its roles or their statements are (`statementless`), and so does a creation without statements;
the store keeps the version of the payload while the acknowledgement names that of the message; a configuration
pushed and acknowledged while a revocation waits for its client is removed by it
(`late`); when the client of a revoked configuration cannot be closed `removeConfig` is never reached,
the configuration stays (`unremoved`), and its ended client refuses every request; a creation that breaks off after its first statement leaves the credential
(`torn`). Left out: a missing vault key, which fails a creation before its SQL, the queue of a pool, the
encryption of passwords, and which of two clients of one version is meant.

### HostConfig and Daemon

`HostConfig` is the configuration in config-from-vault mode: what `loadConfig()` returns is
the file, `startDaemon`'s object (`boot`) or the object of the last host config event
(`mem`), which share one `auth`; `SaveConfig` writes all of the object in use to the file.
A bind takes the newest key and saves it (`Bind`), or changes the objects and cannot save it
(`BindUnsaved`). `Daemon` EXTENDS it with the life of the process (start, initial sync, running, shutdown)
around one secret target: `handleSecretEvent`, the poll and `deploySecret`, with their
awaits (plugins, fetch, restart of the child), and what the output file, the service and
the child have.

Found while modelling: any save in memory mode puts the vault's configuration and its
version into the file (`commands/start.ts:234` has "don't persist to disk"), so the next
start is answered 304 and runs from the file, where the `auth` of `startDaemon`'s object is not
updated by rotations, and the fetch of a host config event is refused once the grace
period is over; overlapping fetches are applied in the order of their answers; polls
compare with the targets of the start, which after an event are no longer updated, so that
each poll deploys again and an older answer that came last can stay; the version is
recorded before the reload command runs, so a kill in between means that it never runs;
the poll never restarts the child; events are dispatched to plugins before the deployment
is counted, and the shutdown does not wait for those; a signal before
`setupSignalHandlers` ends the process at once; a save of the new key that fails leaves the old one
in the file and in the environment, which `loadConfig` prefers to memory, and unless another bind
saves it within the grace period the key is lost (`KeyAccepted` is not kept); an object in memory
keeps a version whose save failed, the next save of anything writes it to the file, and then the
reload command never runs (`believed`). Simplifications: a bind is atomic
(`ManagedKey` has its protocol) and rotations are further apart than the grace period, which waits for the
requests in flight; polls do not overlap; an event during the start is lost.

### TlsCertificate

`TlsCertificateManager` and the HTTPS server: a certificate is the number of its issue. A
check looks at the certificate file, the expiry it knows and the vault's, requests, renews,
writes two files, records the expiry in the configuration, acknowledges and tells the
server; the watchers of the two files reload each for itself. `due` grows as time passes.

Found while modelling: without a configured `agentId` there is never a certificate; the
server is started once, 30 seconds after the start at the latest, and not when a certificate
comes later; `start --tls` without `tls.enabled` in the configuration waits for nothing and
starts no server, and a configuration from the vault has no `tls`; an acknowledgement that
failed is not sent again; a first installation that is cut off between the two files is never
repeated before the vault's certificate falls due, since only the certificate file is looked at; an expiry learnt from the vault may be that of a certificate that was never
installed; `forceRenewal` has no caller. A check may run while the start still waits for the files,
since the timer's delay is half the time until the renewal, however short. Left out: the delays between checks, files that
change between the start of the server and that of its watchers, certificates of the operator's own.

## 4. Runs

All runs use the specification of the module itself; `MC*.tla` only defines the constants a
cfg cannot write. Bounds are CONSTANTS that guard the actions of the environment; only
`mk_scheduled` has a constraint on the state besides (`Apart`, below).

| Run | States | Shows |
|---|---|---|
| `cp_restart` (ChildProcess.cfg) | 262691 | restartOnChange: restart requests, crash restarts, start failures, children that ignore SIGTERM, orphans, agent crashes and shutdown interleaved at every await: rate limit, reported states and shutdown hold, and a crashed child comes back. Checks `RateLimited`, `NoNewStartAfterStop`, `CrashRecovers`. |
| `cp_norestart` (ChildProcess_noRestart.cfg) | 4383 | restartOnChange off, where calls never overlap: there is one child at most, giving up is final, an orphan is named by the PID file and shutdown ends. Checks `NoUntrackedChild`, `UnaskedOrphanIsNamed`, `StopCompletes`. |
| `mk_scheduled` (ManagedKey.cfg) | 764602 | Scheduled rotations with the code's intervals, a broken connection, overlapping refreshes, and either a refresh that goes wrong (a lost bind, a configuration that cannot be read, a save that fails) or a rotation by an operator or a revocation: with a grace period of 3.5 minutes the key in use expires only after a revocation or while a key could not be saved; the refresh chain never breaks, and the connection is opened with the configured key unless a new one could not be saved. Checks `KeyStaysValid`, `RenewalNeverStops`, `LinkUsesKey`. |
| `ws_client` (WsClient.cfg) | 52542 | The client with closed, refused, silent and unauthorized connections, changes of credentials at any moment and a shutdown: it is never left without a way back, has one connection, comes back after every fault and is at rest after a shutdown. Checks `NotStranded`, `OneConnection`, `HeartbeatWatches`, `Reconnects`. |
| `cert_deploy` (CertDeploy.cfg) | 776291 | A rotation event, the initial sync and polls deploy one certificate in overlapping steps while a request, write, copy, reload or check fails, the vault rotates and the agent crashes between any two file operations. Checks `OneVersion`, `FingerprintIsBacked`, `RollbackRestores`, `Converges`. |
| `config_store` (ConfigStore.cfg) | 1411441 | The agent binds, rotates, records deployments and repairs its key file while another process logs in or edits targets; a write fails, the key file is damaged, a process dies between any two file operations: config.json is the atomic register of ConfigRegister until two processes overlap or a write is cut, and the newest stored key stays within reach. Checks `NoKeyLost`, `KeyFileMovesForward`, `KeyFileRepaired`, `UpdatesAreAtomic`. |
| `api_key` (ApiKey.cfg) | 893819 | An agent registers with a one-time token, renews its key day by day, loses it to a revocation and claims another, or logs in with a password; answers are lost, saves fail, the daemon ends at any point: which faults cost a key, and that none other does. Checks `KeyWithinReach`, `ExpiresOnlyByFaults`. |
| `plugin_host` (PluginHost.cfg) | 729632 | Two plugins whose hooks resolve, reject, time out, end late or never, two overlapping events and health checks at any moment of the daemon's life: which plugins are started, told of events and stopped, and that no hook keeps the daemon. Checks `StartedIsStopped`, `EventsReachStarted`, `HostProgresses`. |
| `auto_update` (AutoUpdate.cfg) | 526162 | Two checks, of two agents of a host or of one, follow the agent's package or a plugin through three releases, a bad one among them, with a failure or a kill at any point, on hosts where both agents, one or none may write the lock file: which updates the lock keeps apart, what an agent restarts into, and that releases arrive. Checks `UpdatesExclude`, `RestartsIntoWorking`, `LatestArrives`. |
| `dyn_secrets` (DynamicSecrets.cfg) | 663016 | Two leases are generated, renewed and revoked over one connection while its configuration is pushed, changed and revoked, with roles or statements missing, payloads of another version than their message, clients that cannot be closed, and the link, the agent or the database failing: what the vault believes of a credential against what the databases have. Checks `CredentialsAccountedFor`, `AckedIsStored`, `RevokedConfigGoes`. |
| `daemon` (Daemon.cfg) | 493872 | The daemon starts, deploys a secret from two overlapping events and the poll, takes host configurations from the vault, has its key rotated and saved or not, shuts down, is killed and starts again: which configuration, key, file, reload and child it has in the end. Checks `KeyInUse`, `LagIsExplained`, `FileConverges`, `ReloadCatchesUp`. |
| `tls_cert` (TlsCertificate.cfg) | 181804 | The agent's own certificate is requested, written, recorded, acknowledged, served and renewed, also while the start still waits, while requests, writes, stops and kills cut any step off: which certificate is in the two files, in the server and known to the vault in the end. Checks `InstalledFirst`, `DueIsRenewed`, `PairInstalled`, `ServedIsInstalled`. |

The cfgs name the properties that are about a hazard. The modules hold more of the same
kind, for which TLC finds no violation on these instances either: `TypeOK` of every module
(proved, section 6), `CrashedIsRecovering`, `RunningMeansTracked`, `StatusProgress`,
and with `RestartOnChange = FALSE` `SingleFlight` and `GaveUpIsFinal` (`ChildProcess`), with
`FileMode = TRUE` `OrderlyExitLeavesNoFile`; `StoppedIsQuiet` (`ManagedKey`);
`ShutdownIsQuiet` (`WsClient`); `SessionRecovers` (`ApiKey`); `HooksInOrder`,
`FirstSeesInOrder` (`PluginHost`); `UpdaterHoldsLock`, `PluginsCatchUp` (`AutoUpdate`);
`HeldIsReal`, `RenewedIsExtended` (`DynamicSecrets`); `ChildFresh` (`Daemon`);
`Acknowledged` (`TlsCertificate`). `Reprovisioned` (`ApiKey`) is about `claimReprovisionToken`, which nothing
calls.

Some properties end where the code has the very fault they are about; the notes of the hazards in
`PROJECT.json` name each of these excuses. What such a property shows is that nothing else leads
there.

**Why the bounds are enough.**

- *ChildProcess*: three processes and two calls let a crash restart and a requested restart
  overlap, with one untracked child and one orphan of the earlier run of the agent; the
  theorems hold for any number. `MaxRestarts` 1 puts the limit within reach; `CountCap`
  above it makes the counter saturate past the limit. Agent crashes and restarts are not
  bounded. `cp_norestart` needs two calls: with `restartOnChange` off calls never overlap
  (`SingleFlight`, proved).
- *ManagedKey*: the constants are the code's in ticks. `mk_scheduled` takes a period of
  3 minutes and a grace period of 3.5 minutes, the smallest for which the property holds
  with one refresh that goes wrong; 13 ticks cover two rotations and the grace period of the first.
  One rotation by an operator or one revocation comes at any time, or one refresh goes wrong;
  the constraint `Apart` keeps the two from being combined, which `KeyStaysValid` exempts.
  Without it the run passes as well, with 5,508,562 states; `LinkHolds` and `RenewalHolds` are
  proved without it. `KeyHolds` has the property for grace periods no longer than the rotation
  period, without an operator (`Prompt`).
- *WsClient*: four faults in any order (failed handshake, close, silent peer) with three
  changes of key; one socket more than faults.
- *CertDeploy*: two deployments in flight, three files, two versions, one failure and one
  crash at any step, with a configuration file or with the vault's in memory. `Optional = {chain}`: a version may lack a chain.
- *ConfigStore*: two keys, a target of each kind (there from the start, and TLS on, so that one
  command can remove or disable it), one command, and two troubles in all, each a failed file
  operation, a crash or a damaged key file: every pair of a command and an update of the
  agent, cut at every call, and cut again in the recovery.
- *ApiKey*: keys of two days with a threshold of one, so that a renewal is due at once and
  one missed check matters; two issued keys, two faults, one stop, one revocation, one lost
  session. `MaxRetries` 2: one retry.
- *PluginHost*: two plugins, so that one is behind the other; two events in two overlapping
  dispatches. Hooks end in every way at any time.
- *AutoUpdate*: two checks of two agents, of one agent, and one next to a manual update;
  hosts where both agents may write the lock, one, or none, as with the shipped unit, the last two
  with an npm of today; three versions, so that one can be published in the delay; one that does not start; one fault.
- *DynamicSecrets*: two leases that share a client, one asked for everything and one for a
  credential, two configurations and one fault. `Catalogs`: the second version has everything, or lacks
  all roles, the roles of the leases, or the statements, or each payload has the other's version.
  The reasons of the properties need no second fault: each arises from a push or a revocation in between.
- *Daemon*: three versions of the secret, so that two events and a poll overlap, two of the
  configuration, three keys, two events of either kind (`MaxEvents`) and one fault at any step. With two
  faults the properties hold for two versions and two keys, and for two versions of the secret and
  one configuration.
- *TlsCertificate*: four faults and six certificates, two more than the faults can waste.

**Deadlock.** The child manager's runs check for deadlock. The others switch it off since
their behaviours end: time is bounded (`ManagedKey`), the agent exits (`WsClient`,
`PluginHost`), or the vault, the registry and the faults have used up their budget.

## 5. Fairness

- `ChildProcess` (`FairSpec`): the event loop resumes suspended calls (every request has a
  timeout and `waitForProcessExit` is bounded), fires armed timers and carries `shutdown()`
  through to `process.exit`; the operating system ends a process that was sent SIGKILL.
  Nothing makes a child exit by itself or obey SIGTERM, makes requests or signals
  arrive, or makes the service manager start the agent again: the liveness properties
  speak of one run of the agent.
- `WsClient`: timers and due `connect()` calls run; a handshake ends one way or the other
  (`HANDSHAKE_TIMEOUT`); a closing socket is closed (the ws library's close timeout); a
  recovery ends (requests have a 30 s timeout). Faults are not fair, and nothing assumes
  that a handshake succeeds, only that after the bounded faults it does not fail.
- `CertDeploy`: code without an await goes on, requests end, the first sync happens, the
  agent is started again (all weak), and polls come round: the interval fires again and
  again, but a poll is not continuously possible while a deployment runs, hence strong
  fairness for the poll.
- `ManagedKey` needs none: its properties are safety properties over the clock.
- `ConfigStore`: file operations go on to their end, the agent is started again
  (`Restart=always` in the unit) and its timer of the key file fires.
- `ApiKey`: requests are answered or time out, the WebSocket is tried again, a cached login
  expires; nobody has to revoke, offer, claim or stop.
- `PluginHost`: the loops go on and the timeout of a hook fires. A hook itself never has to
  end; an event handler ends or is given up by its timeout.
- `AutoUpdate`: checks are started by their interval, a requested restart happens, a lock
  file grows old, and the steps of a check go on. These are strongly fair: the event loop
  comes back to them although restarts of the agent interrupt them. Publishing, faults and
  manual updates are not fair.
- `DynamicSecrets`: connections open or are refused, SQL ends, `end()` of a pool returns once
  its statements have.
- `Daemon`: the unit has `Restart=always`, so the agent comes back; requests are answered,
  promises go on, the poll's interval fires.
- `TlsCertificate`: the check timer fires, its requests end, the watchers of the files
  report, a daemon that stops ends.

## 6. Proofs

TLAPS proves for every value of the constants that satisfies the module's ASSUMEs.

Each `*_proofs` module proves the type invariant and the safety invariants of its module;
the theorems are listed in `PROJECT.json`. An invariant that is not inductive by itself is
strengthened by named conjuncts, one lemma says for each action what it does to the
suspended calls, and the theorem's step follows from one lemma per group of actions.

`ChildProcess_proofs`:

- `TypeCorrect`. `TypeOK` includes that a held timer handle is an armed timer, which is what
  `TimersAfterClear` relies on.
- `RateLimit`. The invariant ties the history of automatic restarts to `restartCount`:
  within a window the former never exceeds the latter nor the limit.
- `RunningTracked` and `CrashedRecovers`. `Recovering` strengthens them: while the status is
  crashed, and not by a failed start, there is no child and `stop()` has not run, so
  the timer that fires next does call `start()` past its early return.
- `NoStartAfterStop`, an action property: of the steps that may add a call to `start()`
  each is closed by `isShuttingDown`.
- `SingleFlightHolds` and `OneChildInSight`, assuming `RestartOnChange` is FALSE: the manager
  has at most one of a child, a start in flight and an armed timer. `SingleFlight` is
  inductive with `TypeOK`; `NoUntrackedChild` and `GaveUpIsFinal` follow. With
  `RestartOnChange = TRUE` TLC finds both violated.
- `OrphanNamed`, under the same assumption, which TLC shows to be needed. `Named`: a call
  that has passed the PID file has left nothing there, one that waits for an orphan has
  asked it to end, and after the boot the file names `this.child` or a process that was
  asked; so a spawn, which overwrites the file, never overwrites the only trace of a child.
- `NoFileLeft`, for every setting: while no agent was killed, a secret file exists only in the
  run that wrote it, and that run knows it (`FilesInHand`), so its exit handler removes it.

`ManagedKey_proofs`:

- `TypeCorrect`. `TypeOK` includes that no timer is armed for the past; it needs
  `Announces` (a vault that rotates by schedule knows when) for the times in a response.
- `LinkHolds`. `LinkInv` adds that the service's `currentKey` is the configured key while
  it runs, unless `unnoticed`, which is what makes the comparison in `Rotated` catch every change of key;
  only a save that failed makes `unnoticed` true, and the next rotation that is noticed ends it.
- `RenewalHolds`, with `DelayInv`: the only call that waits before it asks the vault is a
  reconnect's, never the scheduled one; `NextRefreshFacts` says that the next refresh is
  always a time in the future.
- `KeyHolds` and `NoRefusal`, for a vault that rotates by schedule (`Scheduled`) with a grace
  period no longer than the rotation period that has room for one refresh and those that can go
  wrong (`Prompt`), until an operator rotates the key or a new key cannot be saved (`Orderly`):
  `Wait` (4 ticks in the code's constants) and four latencies, 4 of the default 5 minutes, so the
  documented 24 hours and 5 minutes are within `Prompt` if no bind is lost, and every refresh that may go
  wrong needs `Slow + Latency` more, because the fallback interval may come after it. The agent
  then holds no key the vault refuses and no request of it is refused, whatever happens to events,
  polls and the WebSocket. `Clock`: calls end within `Latency`, and what the vault has announced is
  at most a period away. `SoonInv` says
  how a replaced key is noticed. What the agent was told of the next rotation is over as soon as
  the key it came with is not the vault's (`News`), so an old answer arms a refresh within `Wait`
  (`NextSoon`), and an armed refresh is never much later than the vault's next rotation
  (`RefreshSoon`). The poll inside the grace period arms no refresh: if it brings an older key
  back after a refresh has armed the next one far ahead, the agent depends on the heartbeat.
  `Beating` is that case: the rotation it expects is over, no event silences it (a change of key
  clears `wsEventReceived`, closes the connection and loses the event on it), and the key
  outlasts the heartbeat's next turn or its request. `AllCovered` states that the key outlasts
  every refresh armed or on its way, or `Beating`; a call that returned without asking (`Skipping`) counts
  with the fallback interval it arms (`Extra`). TLC checked `SoonInv` before the proof with
  constants within `Prompt` (`Period = Grace = 10`, three calls), and reached `Beating`.
- `QuietAfterStop`. `StartInv`: there is one call of the start, and it has ended before the
  service can be stopped, so no later call arms the heartbeat.

`Connections_proofs`, the WebSocket client:

- `TypeCorrect`; `OneConnectionHolds`, with `ClosingIsWs`: a closing socket is `ws` unless it
  was replaced, so the single test of `this.ws` in `connect()` sees every socket in use.
- `NeverStranded`, with `EnabledOrDue`: reconnecting is switched off only while a `connect()`
  is due that switches it on.
- `QuietAfterShutdown` and `HeartbeatHolds` (for a socket that `connect()` put in the place of
  a closing one the statement is false, see `DeadConnectionsAreDetected`).

`Connections_proofs`, the dynamic secrets:

- `DynamicInvHolds`. `Agreed`, for each lease: what its handler at work means to the vault, and
  what an answered one left in the database and in the vault's books, or the excuse on record
  where they differ (no configuration, no role or statements, a client of another configuration,
  statements that broke off); a step touches one lease (`OneLease`) and no excuse is withdrawn.
  `Leaving`: while a client is being closed nothing is acknowledged, or the acknowledged push
  came meanwhile (`late`).
- `CredentialsHold`, `HeldLeasesAreReal` and `RenewalsAreReal` are what `Agreed` says of all
  leases, with those reasons; `AckedHolds`, about the payload's version, needs `Leaving`,
  because the store is emptied only when the client of a revoked configuration has been closed,
  or there was none to wait for.

`Certificates_proofs`, the deployments:

- `TypeCorrect`, and `DeployInv`, which every deployment relies on: one deployment holds the
  event loop (`Exclusive`), its data are a version of the vault and not older than its
  metadata (`FetchInv`), its backups equal the files as it found them and the outputs it
  has passed hold its data (`FilesInv`).
- `OneVersionHolds`, assuming that the outputs a certificate cannot lack exist when the
  agent is installed: while nothing is torn, what the deployment found was of one version
  and its copies bring all of it back (`Undo`). The assumption is needed because a rollback
  does not remove a file that the deployment has created.
- `FingerprintHolds`, without that assumption: files, and what a deployment found, are of
  the recorded version or later until older data is written over newer (`Secured`), and of the version in
  memory until a record could not be saved (`MemoryInv`).
- `RollbackHolds`, an action property, without any assumption: while no copy has failed, each
  file that the deployment found is among its backups until the first write, and when it
  gives up each is still among them or has its content again (`KeptInv`); `FilesInv` says
  that the backups have the content found.

`Certificates_proofs`, the server's certificate:

- `TlsInvHolds`. `InHand`: a check that has an answer works on a certificate that is not older
  than what the configuration or the vault has for installed, and each file it has passed has
  it. `Budget`: what was issued and the faults to come (`Spent`) stay within the bounds, and
  when they reach them nothing but the newest certificate is around (`Newest`), so that no
  check asks for another: the bounds of the model cut nothing off.
- `InstalledFirstHolds` and, an action property, `NothingGoesBack`, from `InHand`.

`ConfigStore_proofs`:

- `InvHolds` proves the invariant all others follow from. `Shape`, where a process is and what
  it then holds; `Handed`, nobody knows a key the vault has not handed out; `FileFollows`, the key
  file is behind the stored key only on the way to it or after something was missed;
  `KeyOrder`, without an overlap of agent and command the keys of file, environment and
  configuration are of that age; `HoldsUpdate`, without an overlap and a cut write
  what a process has in its hands is the stored configuration or one update of it.
- `KeyNeverLost`, from `Shape` and `FileFollows`; `KeyFileForward`, an action property, from `KeyOrder`.
- `Implements`: every behaviour of `ConfigStore` is one of `ConfigRegister`. A save that
  fills the file is an `Update` or `Damage` of the register by `HoldsUpdate`, and every other
  call of the file system is a stutter.

`Daemon_proofs`:

- `InvHolds`: `KeyShared`, the file has the newest key, also between two lives of the
  daemon, and in memory it is in the environment or in the `auth` the objects share, and while the
  newest one is not saved each of them has that one or the one before (`Recent`);
  `FetchKeys`, a fetch made with that `auth` is accepted as long as the key in use is; `CfgOrder`, no object in memory and
  no answer on its way is older than what the daemon began with; `Current`, who runs an older
  configuration than the vault's has a fetch on its way or a reason.
- `KeyInUseHolds` from `KeyShared`, `LagExplained` from `Current`, and `MemoryFetches`: only a
  daemon that runs from its file, or whose key could not be saved in time, is ever refused its
  configuration. A step turns the key and saves it, does not save it, or saves something else with
  the key in use (`SavesKey`, `KeyUnsaved`, `Saves`), and each has its lemma.

`Packages_proofs`, the updates:

- `InvHolds`. `Exclusive`: whoever updates and is not adrift finds its pid in the lock file, and of
  two of them there is none, not even in one agent; `Overlaps`: of two updates each knows of
  the other; `Healthy`: what is on the disk when an update that ran alone asks for a restart, lock or no
  lock. The proof sorts the steps of a check by what they do to the lock (`Looks`, `Begins`,
  `Removes`, `Releases`, `Works`), and `CheckUpdating` says who updates after each.
- `UpdatesExcludeHolds`, `HolderHolds` and `RestartsWork`, for any number of agents and checks.

`Packages_proofs`, the plugins:

- `HostInvHolds`. `Life`: what the status of a plugin tells of its hooks; `OnePending`: the loop
  awaits the hook of the plugin it is at and no other; `Passed`: behind the loop of
  `stopPlugins()`, which goes through the configuration backwards, only a plugin that a
  health check called healthy still runs. `Order` has every plugin once, a fact about the
  sizes of finite sets, so the loops miss none.
- `HooksInOrderHold`, `StartedIsStoppedHolds` and `EventsReachStartedHold` from these;
  `FirstSeesInOrderHolds` with `HandlersBehind`: no handler has an event that was not dispatched.
- `StoppedStaysHolds`, an action property: the answer of a health check makes only a plugin in
  error run again, and a hook that ends late changes no status.

`ApiKey_proofs`:

- `InvHolds`. `Reach`: the key the vault accepts is stored, on its way, or noted as lost;
  `Fresh`: no day passes while a new key is on its way; `Counted`: each day that a stored key
  has been due is accounted for by a failed request, a missed check, a stop or the check of
  today, and `Idled`: the days without a check are bounded by the keys issued.
- `KeyReachable`, and `ExpiryExplained` from `Counted`: a key with `Threshold` days left when
  it falls due expires only if every one of those days has a reason.

Only model-checked: every property under fairness (`CrashRecovers`, `StopCompletes`,
`Reconnects`, `Converges`, `KeyFileRepaired`, `HostProgresses`,
`LatestArrives`, `RevokedConfigGoes`, `FileConverges`, `ReloadCatchesUp`, `DueIsRenewed`,
`PairInstalled`, `ServedIsInstalled`), since liveness and ENABLED are out of the prover's reach;
`KeyStaysValid` for constants outside of `Prompt`, those of the run among them; `UnaskedOrphanIsNamed` and
`NoUntrackedChild` have no proof with `RestartOnChange = TRUE` because they are false there. Every safety and action property that a run checks is proved.

## 7. Where code and documents differ

These statements are in the modules, after their last rule or among the properties. TLC
refutes them with the constants named here (the other constants as in the module's cfg); no
run is listed for them.

- `NoUntrackedChild` (`ChildProcess`, `RestartOnChange = TRUE`): `start()` tests
  `this.child` before its awaits and never again, so a restart request during a start spawns
  a second child and the first is forgotten; `services/child-process-manager.ts:238` logs
  "Child process already running, ignoring start request".
- `ExitLeavesNoChild` (`ChildProcess`, `FileMode = TRUE`): with secrets in files the SIGTERM
  listener of `SecretFileManager` runs first and exits; `docs/GUIDE.md:1327` has "Kill child
  with SIGTERM → wait for exit → shutdown daemon".
- `KeyStaysValid` (`ManagedKey`, `Scheduled = FALSE`, `Subscribed = FALSE`, one manual
  rotation, no fault, `Grace = 10`, `MaxTime = 26`): in managed key mode the daemon subscribes only to the keys mapped
  in `exec.secrets` (`websocket.ts:430`), and the 5 minute fallback refresh may come after
  the default grace period of 5 minutes; `README.md:345` promises zero downtime.
- `DeploymentsFinish` (`WsClient`): `disconnect()` removes the `error` listener and closes a
  socket that is still connecting; the library reports that as an error nobody handles, and
  the process ends at once. `README.md:33` has "Completes in-flight deployments before exit".
- `RollbackReverts` (`CertDeploy`, `Existing = {cert}`): a rollback leaves the files that did
  not exist before; `README.md:11` has "Reverts on reload or health check failure".
- `AlwaysConverges` (`CertDeploy`): an older answer written over a newer one just before a
  crash stays, and so do the old files after a record that could not be saved. A certificate
  without a key or chain part also leaves that file of an earlier version in place.
- `OrphanIsNamed`, `CrashedWillRestart`, `CountsOnlyCrashes`, `NoSpawnAfterStop`,
  `RunningIsRunning` (`ChildProcess`): a child asked to stop that ignores SIGTERM outlives
  the agent without a PID file; a failed fetch leaves `crashed` with nothing scheduled; a
  requested restart counts as a crash; a start that awaits its secrets when the shutdown
  begins still spawns; a command that cannot be run is `running`. `StopCompletes` needs
  `restartOnChange` off: otherwise the child that stop waits for may be untracked when
  the 10 second timer looks for it.
- `OnlyOneUpdates` (`AutoUpdate`): two agents without a lock file of their own update at the same
  time; `docs/GUIDE.md:1700` has "Only one agent performs the update". `NeverBroken`: without
  `npm bin -g` the health check is skipped; `services/npm-auto-update.ts:263` has "Never restart with a broken
  binary".
- `AckNamesStored`, `RevokedIsGone`, `RevokedAlwaysGoes` (`DynamicSecrets`): the acknowledged version is
  not the stored one when a payload has another, a revocation reports a success without its
  effect, and a revoked configuration whose client cannot be closed stays.
- `KeyAccepted` (`HostConfig`): a key that could not be saved is lost with the end of the grace
  period, the environment still having the old one.
- `DeadConnectionsAreDetected`, `StatusIsTrue` (`WsClient`): the `close` of a replaced socket
  stops the heartbeat of the new one; `forceReconnect` leaves the status at connected.

For scheduled rotations `KeyStaysValid` needs a grace period of at least
`(MaxLost + 1) * MinRefresh + 3 * Latency` ticks; for a manual rotation of a key without a
schedule it must exceed the fallback interval by three ticks.

In `PluginHost`, `DynamicSecrets` and `TlsCertificate` the same kind of disagreement is the list "Found while modelling"
of section 3, and shows in the properties as the reasons they excuse.

## 8. Not modelled

See `components` in `PROJECT.json`. Left out for good: the dispatcher (stateless),
environment parsing and validation (pure functions of strings with unit tests), metrics and
logging (views), the dialogues of the interactive commands, the text of SQL statements,
packaging. In the modelled parts: the 30 second limit of the child's stop during the
shutdown, `connect()` with a configuration without `vaultUrl` (it returns without
scheduling anything, and can happen only while the configuration file is being rewritten),
the storage of plugins, deployments started by `sync` next to the agent's, more than one
target per deployer and more than one database connection.
