------------------------------- MODULE ApiKey -------------------------------
(***************************************************************************)
(* The credentials of an agent without a managed key: the one-time token   *)
(* it registers with (lib/auth/bootstrap.ts, commands/login.ts), the key   *)
(* it rotates before it expires (services/api-key-renewal.ts), the key it  *)
(* claims after the vault has revoked the old one                          *)
(* (services/degraded-mode-handler.ts) and the requests of lib/api.ts that *)
(* use them.  The vault and the network are the environment.               *)
(***************************************************************************)
EXTENDS Integers

CONSTANTS
  None,        \* undefined
  Life,        \* days a key is valid
  Threshold,   \* RENEWAL_THRESHOLD_DAYS
  MaxRetries,  \* MAX_RETRIES
  MaxKey,      \* bound: keys the vault issues
  MaxSession,  \* bound: times the vault drops its sessions
  MaxFaults,   \* bound: requests or answers lost, saves that fail
  MaxStops,    \* bound: times the daemon ends
  MaxRevokes   \* bound: keys an administrator revokes

Keys == 0..MaxKey

ASSUME DaysAssumption  == Life \in Nat /\ Threshold \in 1..(Life - 1) /\ MaxRetries \in Nat \ {0}
ASSUME BoundAssumption == {MaxKey, MaxSession, MaxFaults, MaxStops, MaxRevokes} \subseteq Nat
ASSUME NoneAssumption  == None \notin Int

VARIABLES
  auth,     \* what the agent was installed with: a key, a password, a bootstrap token
  valid,    \* vault: the key it accepts
  issued,   \* vault: the last key it has issued
  days,     \* vault: days until the key expires
  token,    \* vault: the registration token
  offer,    \* vault: the reprovision token
  session,  \* vault: the sessions it accepts
  stored,   \* auth.apiKey of config.json
  pending,  \* auth.bootstrapToken of config.json
  managed,  \* the configuration has a managedKey
  unit,     \* ZNVAULT_API_KEY of the service's unit
  env,      \* process.env.ZNVAULT_API_KEY of the daemon
  daemon,   \* the daemon's process
  check,    \* checkAndRenewApiKey()
  claim,    \* claimReprovisionToken()
  state,    \* the degraded mode handler's state
  link,     \* the WebSocket
  req,      \* a call of request()
  cached,   \* cachedToken, and whether tokenExpiry is ahead
  refused,  \* the last request ended with 401
  lost,     \* history: a key was issued that nobody stored, or was overwritten
  renewed,  \* history: this process has stored a key
  idle,     \* history: days a key was due and no renewal was running
  faults, stops, revokes  \* what has been used of the bounds

vaultVars == <<valid, issued, days, token, offer, session>>
fileVars  == <<stored, pending, managed>>
keyVars   == <<stored, env, renewed>>
reqVars   == <<req, cached, refused>>
ghosts    == <<lost, idle>>
bounds    == <<faults, stops, revokes>>
vars == <<auth, vaultVars, fileVars, unit, env, daemon, check, claim, state, link, reqVars,
          lost, renewed, idle, bounds>>

(* loadConfig().auth.apiKey *)
ApiKey == IF env # None THEN env ELSE stored

Accepts(k) == k # None /\ k = valid /\ days > 0

Resting  == [at |-> "idle", key |-> None, reply |-> None]
Healthy  == [on |-> FALSE, agentId |-> FALSE, offered |-> FALSE]
Offline  == [at |-> "down", key |-> None]
Closed   == [at |-> "off", key |-> None]
NoCall   == [at |-> "idle", op |-> "poll", key |-> None, gen |-> None, attempt |-> 0]
NoToken  == [gen |-> None, live |-> FALSE]

Fault == faults < MaxFaults /\ faults' = faults + 1

(* Each key the vault issues replaces the one before. *)
Issue == /\ issued < MaxKey
         /\ issued' = issued + 1 /\ valid' = issued + 1 /\ days' = Life
-----------------------------------------------------------------------------
Init ==
  /\ auth \in {"key", "password", "token"}
  /\ unit \in IF auth = "key" THEN {None, 0} ELSE {None}
  /\ issued = 0 /\ days = Life /\ valid = (IF auth = "key" THEN 0 ELSE None)
  /\ token = "unused" /\ offer = "none" /\ session = 0
  /\ stored = valid /\ pending \in (IF auth = "token" THEN BOOLEAN ELSE {FALSE}) /\ managed = FALSE
  /\ env = unit /\ daemon = "down" /\ check = Resting /\ claim = Resting
  /\ state = Healthy /\ link = Closed /\ req = NoCall /\ cached = NoToken /\ refused = FALSE
  /\ lost = FALSE /\ renewed = FALSE /\ idle = 0
  /\ faults = 0 /\ stops = 0 /\ revokes = 0

(* startApiKeyRenewal() checks at once and then once a day. *)
StartApiKeyRenewal ==
  check' = IF ~managed' /\ stored' # None
           THEN [at |-> "status", key |-> IF env # None THEN env ELSE stored', reply |-> None]
           ELSE Resting
Renewing == daemon = "up" /\ ~managed /\ ApiKey # None

(* startDaemon(): the renewal, then connect(). *)
StartServices ==
  /\ daemon' = "up" /\ StartApiKeyRenewal /\ link' = Offline

IsConfigured == ApiKey # None \/ auth = "password" \/ pending

(* zn-vault-agent start; needsBootstrapRegistration() sends it to the vault first. *)
StartDaemon ==
  /\ daemon = "down" /\ IsConfigured /\ req.at = "idle"
  /\ IF pending /\ ApiKey = None
     THEN daemon' = "exchange" /\ UNCHANGED <<fileVars, check, link>>
     ELSE UNCHANGED fileVars /\ StartServices
  /\ UNCHANGED <<auth, vaultVars, unit, env, claim, state, reqVars, renewed, ghosts, bounds>>

(* exchangeBootstrapToken() returns, applyRegistrationResult() replaces the token by the
   key, saveConfig() keeps it. *)
ExchangeAnswered ==
  /\ daemon = "exchange" /\ token = "unused" /\ Issue
  /\ token' = "spent"
  /\ stored' = issued' /\ pending' = FALSE /\ managed' = FALSE
  /\ StartServices
  /\ UNCHANGED <<auth, offer, session, unit, env, claim, state, reqVars, renewed, ghosts, bounds>>

(* The answer is lost or cannot be saved: the agent exits with 1, the token is spent. *)
ExchangeFails ==
  /\ daemon = "exchange"
  /\ \/ token = "unused" /\ Fault /\ Issue /\ token' = "spent" /\ lost' = TRUE
     \/ token = "unused" /\ Fault /\ UNCHANGED <<issued, valid, days, token, lost>>
     \/ token = "spent" /\ UNCHANGED <<issued, valid, days, token, lost, faults>>
  /\ daemon' = "down"
  /\ UNCHANGED <<auth, offer, session, fileVars, unit, env, check, claim, state, link, reqVars,
                 renewed, idle, stops, revokes>>
-----------------------------------------------------------------------------
(* The clock: the key is a day older, and the interval of the renewal fires.  A check
   takes at most two minutes, so the one of the day before is over, and so is a claim that
   was answered. *)
Day ==
  /\ valid # None /\ days > 0 /\ check.at = "idle" /\ claim.reply = None
  /\ days' = days - 1
  /\ idle' = IF days' \in 1..Threshold /\ ~Renewing THEN idle + 1 ELSE idle
  /\ check' = IF Renewing THEN [at |-> "status", key |-> ApiKey, reply |-> None] ELSE check
  /\ UNCHANGED <<auth, valid, issued, token, offer, session, fileVars, unit, env, daemon, claim,
                 state, link, reqVars, lost, renewed, bounds>>

(* Mutant: the comparison loses the day of the threshold. *)
StatusAnswered_Late ==
  /\ check.at = "status"
  /\ check' = IF Accepts(check.key) /\ days < Threshold /\ ApiKey # None
              THEN [at |-> "rotate", key |-> ApiKey, reply |-> None] ELSE Resting
  /\ UNCHANGED <<auth, vaultVars, fileVars, unit, env, daemon, claim, state, link, reqVars,
                 renewed, ghosts, bounds>>

(* checkApiKeyStatus() returns; a refused key ends the check, a key with more days than
   the threshold as well. rotateApiKey() loads the configuration again. *)
StatusAnswered ==
  /\ check.at = "status"
  /\ check' = IF Accepts(check.key) /\ days <= Threshold /\ ApiKey # None
              THEN [at |-> "rotate", key |-> ApiKey, reply |-> None] ELSE Resting
  /\ UNCHANGED <<auth, vaultVars, fileVars, unit, env, daemon, claim, state, link, reqVars,
                 renewed, ghosts, bounds>>

(* A request of the check does not reach the vault. *)
CheckFails ==
  /\ check.at # "idle" /\ check.reply = None /\ Fault
  /\ check' = Resting
  /\ UNCHANGED <<auth, vaultVars, fileVars, unit, env, daemon, claim, state, link, reqVars,
                 renewed, ghosts, stops, revokes>>

(* The vault handles POST /auth/api-keys/self/rotate. *)
VaultRotates ==
  /\ check.at = "rotate" /\ check.reply = None
  /\ IF Accepts(check.key)
     THEN Issue /\ check' = [check EXCEPT !.reply = issued']
     ELSE check' = Resting /\ UNCHANGED <<issued, valid, days>>
  /\ UNCHANGED <<auth, token, offer, session, fileVars, unit, env, daemon, claim, state, link,
                 reqVars, renewed, ghosts, bounds>>

(* Mutant: the environment keeps the key of the start. *)
UpdateApiKey_FileOnly(k) ==
  /\ stored' = k /\ env' = env /\ renewed' = TRUE
  /\ lost' = (lost \/ (stored = valid /\ valid # None /\ k # valid))

(* updateApiKey() writes the file and the environment, whatever key they hold. *)
UpdateApiKey(k) ==
  /\ stored' = k /\ env' = k /\ renewed' = TRUE
  /\ lost' = (lost \/ (stored = valid /\ valid # None /\ k # valid))

RotateAnswered ==
  /\ check.reply # None /\ UpdateApiKey(check.reply)
  /\ check' = Resting
  /\ UNCHANGED <<auth, vaultVars, pending, managed, unit, daemon, claim, state, link, reqVars,
                 idle, bounds>>

(* The answer is lost, or updateApiKey() throws: "The old key is now invalid". *)
RotateFails ==
  /\ check.reply # None /\ Fault
  /\ check' = Resting /\ lost' = (lost \/ check.reply = valid)
  /\ UNCHANGED <<auth, vaultVars, fileVars, unit, env, daemon, claim, state, link, reqVars,
                 renewed, idle, stops, revokes>>
-----------------------------------------------------------------------------
(* An administrator revokes the key, and offers a new one to an agent that has none. *)
Revoke ==
  /\ valid # None /\ revokes < MaxRevokes
  /\ valid' = None /\ revokes' = revokes + 1
  /\ UNCHANGED <<auth, issued, days, token, offer, session, fileVars, unit, env, daemon, check,
                 claim, state, link, reqVars, renewed, ghosts, faults, stops>>
Offer ==
  /\ offer = "none" /\ ~Accepts(valid) /\ auth # "password" /\ issued > 0 /\ offer' = "open"
  /\ UNCHANGED <<auth, valid, issued, days, token, session, fileVars, unit, env, daemon, check,
                 claim, state, link, reqVars, renewed, ghosts, bounds>>

(* The connection is open and registered: setAgentId(). *)
LinkUp ==
  /\ daemon = "up" /\ link.at = "down" /\ Accepts(ApiKey)
  /\ link' = [at |-> "up", key |-> ApiKey] /\ state' = [state EXCEPT !.agentId = TRUE]
  /\ UNCHANGED <<auth, vaultVars, fileVars, unit, env, daemon, check, claim, reqVars,
                 renewed, ghosts, bounds>>

(* degraded_connection: handleDegradedConnection() takes the message's agent id, if it has
   one, over its own. *)
LinkDegraded ==
  /\ daemon = "up" /\ link.at = "down" /\ ApiKey # None /\ ~Accepts(ApiKey)
  /\ link' = [at |-> "degraded", key |-> ApiKey]
  /\ \E named \in BOOLEAN : state' = [state EXCEPT !.on = TRUE, !.agentId = named]
  /\ UNCHANGED <<auth, vaultVars, fileVars, unit, env, daemon, check, claim, reqVars,
                 renewed, ghosts, bounds>>

LinkDrops ==
  /\ link.at \in {"up", "degraded"} /\ link' = Offline
  /\ UNCHANGED <<auth, vaultVars, fileVars, unit, env, daemon, check, claim, state, reqVars,
                 renewed, ghosts, bounds>>

(* reprovision_available: handleReprovisionAvailable() *)
OfferArrives ==
  /\ offer = "open" /\ link.at = "degraded" /\ ~state.offered
  /\ state' = [state EXCEPT !.offered = TRUE]
  /\ UNCHANGED <<auth, vaultVars, fileVars, unit, env, daemon, check, claim, link, reqVars,
                 renewed, ghosts, bounds>>

(* claimReprovisionToken() is exported and has no caller under src/src: an operator with
   the token is its environment. *)
ClaimReprovisionToken ==
  /\ daemon = "up" /\ claim.at = "idle" /\ offer # "none"
  /\ state.agentId
  /\ claim' = [at |-> "sent", key |-> None, reply |-> None]
  /\ UNCHANGED <<auth, vaultVars, fileVars, unit, env, daemon, check, state, link, reqVars,
                 renewed, ghosts, bounds>>

VaultClaims ==
  /\ claim.at = "sent" /\ claim.reply = None
  /\ IF offer = "open"
     THEN Issue /\ offer' = "spent" /\ claim' = [claim EXCEPT !.reply = issued']
     ELSE claim' = Resting /\ UNCHANGED <<issued, valid, days, offer>>
  /\ UNCHANGED <<auth, token, session, fileVars, unit, env, daemon, check, state, link, reqVars,
                 renewed, ghosts, bounds>>

(* The answer: updateApiKey(), clearDegradedState(), and onCredentialsUpdated()
   disconnects; the client connects again after half a second. *)
ClaimAnswered ==
  /\ claim.reply # None /\ UpdateApiKey(claim.reply)
  /\ state' = Healthy /\ claim' = Resting /\ link' = Closed
  /\ UNCHANGED <<auth, vaultVars, pending, managed, unit, daemon, check, reqVars, idle, bounds>>
Reconnect ==
  /\ daemon = "up" /\ link = Closed /\ link' = Offline
  /\ UNCHANGED <<auth, vaultVars, fileVars, unit, env, daemon, check, claim, state, reqVars,
                 renewed, ghosts, bounds>>

(* The claim or its answer is lost, or updateApiKey() throws: the degraded state stays. *)
ClaimFails ==
  /\ claim.at = "sent" /\ Fault
  /\ claim' = Resting /\ lost' = (lost \/ claim.reply # None)
  /\ UNCHANGED <<auth, vaultVars, fileVars, unit, env, daemon, check, state, link, reqVars,
                 renewed, idle, stops, revokes>>

(* The daemon ends, by a signal or a crash; nothing waits for a check or a claim, whose
   request the vault may still handle. *)
DaemonEnds ==
  /\ daemon # "down" /\ stops < MaxStops /\ stops' = stops + 1
  /\ daemon' = "down" /\ env' = unit /\ renewed' = FALSE
  /\ check' = Resting /\ claim' = Resting /\ state' = Healthy /\ link' = Closed
  /\ req' = NoCall /\ cached' = NoToken
  /\ LET reply == {check.reply, claim.reply} \ {None}
         late  == \/ check.at = "rotate" /\ check.reply = None /\ Accepts(check.key)
                  \/ claim.at = "sent" /\ claim.reply = None /\ offer = "open"
                  \/ daemon = "exchange" /\ token = "unused"
     IN  \/ late /\ Issue /\ lost' = TRUE
            /\ token' = (IF daemon = "exchange" THEN "spent" ELSE token)
            /\ offer' = (IF claim.at = "sent" THEN "spent" ELSE offer)
         \/ lost' = (lost \/ valid \in reply) /\ UNCHANGED <<issued, valid, days, token, offer>>
  /\ UNCHANGED <<auth, session, fileVars, unit, refused, idle, faults, revokes>>
-----------------------------------------------------------------------------
(* The credential of a request is chosen when it starts, and kept for its retries. *)
Authenticate(op) ==
  CASE op = "bootstrap" -> [NoCall EXCEPT !.at = "send", !.op = op]
    [] op = "poll" /\ ApiKey # None -> [NoCall EXCEPT !.at = "send", !.key = ApiKey]
    [] op = "poll" /\ ApiKey = None /\ cached.live -> [NoCall EXCEPT !.at = "send", !.gen = cached.gen]
    [] OTHER -> [NoCall EXCEPT !.at = "login"]

(* A request of the daemon, or login --bootstrap-token of an agent not yet configured. *)
Request ==
  /\ req.at = "idle"
  /\ \/ daemon = "up" /\ req' = Authenticate("poll")
     \/ daemon = "down" /\ auth = "token" /\ ~pending /\ stored = None
        /\ req' = Authenticate("bootstrap")
  /\ UNCHANGED <<auth, vaultVars, fileVars, unit, env, daemon, check, claim, state, link, cached,
                 refused, renewed, ghosts, bounds>>

(* login(): a single attempt, whose token is cached. *)
LoginAnswered ==
  /\ req.at = "login"
  /\ cached' = [gen |-> session, live |-> TRUE]
  /\ req' = [req EXCEPT !.at = "send", !.gen = session]
  /\ UNCHANGED <<auth, vaultVars, fileVars, unit, env, daemon, check, claim, state, link, refused,
                 renewed, ghosts, bounds>>
LoginFails ==
  /\ req.at = "login" /\ Fault
  /\ req' = NoCall /\ refused' = FALSE
  /\ UNCHANGED <<auth, vaultVars, fileVars, unit, env, daemon, check, claim, state, link, cached,
                 renewed, ghosts, stops, revokes>>

Authentic == IF req.key # None THEN Accepts(req.key) ELSE req.gen = session

PollAnswered ==
  /\ req.at = "send" /\ req.op = "poll"
  /\ req' = NoCall /\ refused' = ~Authentic \* 401 is not retried
  /\ UNCHANGED <<auth, vaultVars, fileVars, unit, env, daemon, check, claim, state, link, cached,
                 renewed, ghosts, bounds>>

(* bootstrapWithToken() returns; the command saves the key of the managed key. *)
BootstrapAnswered ==
  /\ req.at = "send" /\ req.op = "bootstrap" /\ req' = NoCall
  /\ IF token = "unused"
     THEN /\ Issue /\ token' = "spent"
          /\ stored' = issued' /\ managed' = TRUE /\ refused' = FALSE
     ELSE /\ refused' = TRUE /\ UNCHANGED <<issued, valid, days, token, stored, managed>>
  /\ UNCHANGED <<auth, offer, session, pending, unit, env, daemon, check, claim, state, link,
                 cached, renewed, ghosts, bounds>>

(* An attempt times out, or is answered by 429 or a 5xx.  The vault may have handled it:
   then a registration token is spent before the retry. *)
AttemptFails ==
  /\ req.at = "send" /\ Fault
  /\ IF req.attempt + 1 < MaxRetries
     THEN req' = [req EXCEPT !.at = "sleep", !.attempt = @ + 1] /\ UNCHANGED refused
     ELSE req' = NoCall /\ refused' = FALSE
  /\ \/ req.op = "bootstrap" /\ token = "unused" /\ Issue /\ token' = "spent" /\ lost' = TRUE
     \/ UNCHANGED <<issued, valid, days, token, lost>>
  /\ UNCHANGED <<auth, offer, session, fileVars, unit, env, daemon, check, claim, state, link,
                 cached, renewed, idle, stops, revokes>>
Retry ==
  /\ req.at = "sleep" /\ req' = [req EXCEPT !.at = "send"]
  /\ UNCHANGED <<auth, vaultVars, fileVars, unit, env, daemon, check, claim, state, link, cached,
                 refused, renewed, ghosts, bounds>>

TokenExpires ==
  /\ cached.live /\ cached' = [cached EXCEPT !.live = FALSE]
  /\ UNCHANGED <<auth, vaultVars, fileVars, unit, env, daemon, check, claim, state, link, req,
                 refused, renewed, ghosts, bounds>>
DropSessions ==
  /\ cached.gen = session /\ session < MaxSession /\ session' = session + 1
  /\ UNCHANGED <<auth, valid, issued, days, token, offer, fileVars, unit, env, daemon, check,
                 claim, state, link, reqVars, renewed, ghosts, bounds>>
-----------------------------------------------------------------------------
Registration == StartDaemon \/ ExchangeAnswered \/ ExchangeFails \/ DaemonEnds
Renewal == Day \/ StatusAnswered \/ CheckFails \/ VaultRotates \/ RotateAnswered \/ RotateFails
Degraded ==
  \/ Revoke \/ Offer \/ LinkUp \/ LinkDegraded \/ LinkDrops \/ OfferArrives
  \/ ClaimReprovisionToken \/ VaultClaims \/ ClaimAnswered \/ Reconnect \/ ClaimFails
Requests ==
  \/ Request \/ LoginAnswered \/ LoginFails \/ PollAnswered \/ BootstrapAnswered
  \/ AttemptFails \/ Retry \/ TokenExpires \/ DropSessions

Next == Registration \/ Renewal \/ Degraded \/ Requests

(* Timers fire, the vault and the network answer, the agent is asked to connect and to
   poll again; nobody has to revoke, offer, claim or stop. *)
Fairness ==
  /\ WF_vars(ClaimAnswered) /\ WF_vars(Reconnect) /\ WF_vars(LinkUp)
  /\ WF_vars(Request) /\ WF_vars(LoginAnswered) /\ WF_vars(PollAnswered) /\ WF_vars(Retry)
  /\ WF_vars(TokenExpires)

Spec == Init /\ [][Next]_vars /\ Fairness
-----------------------------------------------------------------------------
(* Every variable has its type; the agent id is known on a registered connection, and only
   a client that was told to connect again in a moment is disconnected. *)
TypeOK ==
  /\ auth \in {"key", "password", "token"} /\ valid \in Keys \cup {None} /\ issued \in Keys
  /\ days \in 0..Life /\ token \in {"unused", "spent"} /\ offer \in {"none", "open", "spent"}
  /\ session \in 0..MaxSession /\ {stored, unit, env} \subseteq Keys \cup {None}
  /\ pending \in BOOLEAN /\ managed \in BOOLEAN /\ lost \in BOOLEAN /\ renewed \in BOOLEAN
  /\ daemon \in {"down", "exchange", "up"}
  /\ check \in [at : {"idle", "status", "rotate"}, key : Keys \cup {None}, reply : Keys \cup {None}]
  /\ claim \in [at : {"idle", "sent"}, key : {None}, reply : Keys \cup {None}]
  /\ state \in [on : BOOLEAN, agentId : BOOLEAN, offered : BOOLEAN]
  /\ link \in [at : {"off", "down", "up", "degraded"}, key : Keys \cup {None}]
  /\ req \in [at : {"idle", "login", "send", "sleep"}, op : {"poll", "bootstrap"},
              key : Keys \cup {None}, gen : 0..MaxSession \cup {None}, attempt : 0..(MaxRetries - 1)]
  /\ cached \in [gen : 0..MaxSession \cup {None}, live : BOOLEAN]
  /\ refused \in BOOLEAN /\ idle \in 0..(MaxKey + 1) * Life
  /\ faults \in 0..MaxFaults /\ stops \in 0..MaxStops /\ revokes \in 0..MaxRevokes
  /\ link.at = "up" => state.agentId

(* The key the vault accepts is stored, or on its way to the agent, unless an answer was
   lost, could not be saved, died with the process or was overwritten by an older one; and
   a key that a running daemon has stored is the one it uses, also when its unit sets
   ZNVAULT_API_KEY (saver.ts:72). *)
KeyWithinReach ==
  /\ valid \in {None, stored, check.reply, claim.reply} \/ lost
  /\ renewed => ApiKey = stored

(* Threshold daily checks stand between a key and its end: a key that nobody revoked
   expires only when as many of them failed, died with the daemon, or found no daemon (api-key-renewal.ts:32). *)
ExpiresOnlyByFaults ==
  (valid # None /\ days = 0 /\ stored = valid /\ ~managed /\ unit = None)
    => faults + idle + stops >= Threshold

(* A reprovisioned agent connects with its new key, without a restart.  No run checks it: nothing
   in the source calls claimReprovisionToken() (degraded-mode-handler.ts:176). *)
Reprovisioned ==
  (claim.reply # None /\ claim.reply = valid)
    ~> \/ link = [at |-> "up", key |-> valid]
       \/ lost \/ ~Accepts(valid) \/ daemon # "up" \/ faults = MaxFaults

(* An agent with a password whose session the vault has dropped is served again: the token
   it holds expires, and it logs in (api.ts:172). *)
SessionRecovers ==
  (auth = "password" /\ refused) ~> (~refused \/ daemon # "up")

=============================================================================
