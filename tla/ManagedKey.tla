----------------------------- MODULE ManagedKey -----------------------------
(***************************************************************************)
(* The renewal of the agent's managed API key, services/managed-key/:      *)
(* the bind calls, the scheduled refresh and the "safety rails" around it  *)
(* (rotation events and reconnects of the WebSocket, the poll inside the   *)
(* grace period, the heartbeat), next to the vault that rotates the key    *)
(* and refuses a key whose grace period is over.                           *)
(*                                                                         *)
(* Time is counted in ticks (30 seconds in the code's constants).  A timer *)
(* that is due fires before the next tick, and a bind call ends within     *)
(* Latency ticks.  Delays far below a tick (the 2 seconds after a          *)
(* reconnect, the 500 ms before the WebSocket is opened again) are steps   *)
(* of their own that end before the next tick, and so is the delivery of   *)
(* a rotation event, unless the connection breaks first.                   *)
(***************************************************************************)
EXTENDS Integers, FiniteSets

CONSTANTS
  Calls,         \* refreshManagedKey() calls that can be in flight
  None,          \* null, undefined, a timer that is not armed
  RefreshBefore, \* DEFAULT_REFRESH_BEFORE_MS
  MinRefresh,    \* MIN_REFRESH_INTERVAL_MS
  Fallback,      \* FALLBACK_REFRESH_INTERVAL_MS
  MinGracePoll,  \* MIN_GRACE_POLL_DELAY_MS
  Heartbeat,     \* HEARTBEAT_INTERVAL_MS
  StaleAfter,    \* the 60 seconds of HeartbeatMonitor.check
  Latency,       \* longest bind call
  Period,        \* the vault's rotation period
  Grace,         \* the vault's grace period
  Scheduled,     \* the vault rotates by schedule and announces nextRotationAt
  Subscribed,    \* managedKeyNames of the WebSocket client holds the agent's key
  MayRevoke,     \* the vault may revoke the key once, without a grace period
  MaxManual,     \* bound: rotations by an operator, revocations included
  MaxLost,       \* bound: refreshes that go wrong, in lost and unsaved together
  MaxDrops,      \* bound: connections that break
  MaxTime        \* bound: length of a behaviour

ASSUME NoneAssumption == None \notin Nat
ASSUME TicksAssumption ==
  /\ {RefreshBefore, StaleAfter, Latency, MaxManual, MaxLost, MaxDrops, MaxTime} \subseteq Nat
  /\ {MinRefresh, Fallback, MinGracePoll, Heartbeat, Period, Grace} \subseteq Nat \ {0}
ASSUME ModeAssumption == {Scheduled, Subscribed, MayRevoke} \subseteq BOOLEAN

VARIABLES
  now,              \* the clock
  serverKey,        \* the vault's current key; keys are numbered as they are made
  expiry,           \* when the grace period of each earlier key ends
  nextRotation,     \* when the vault rotates next, or None
  manual, lost, drops, \* what has been used of the three bounds; lost counts the
                    \* refreshes without an answer of the vault,
  unsaved,          \* and this one those whose new key could not be saved
  revoked,          \* a key was revoked
  key,              \* config.auth.apiKey, ZNVAULT_API_KEY: the key requests carry
  currentKey,       \* currentKey
  unnoticed,        \* a new key was not saved, and no rotation was noticed since
  isRunning,        \* isRunning
  started,          \* startManagedKeyRenewal() has returned
  staleKeyDetected, \* staleKeyDetected
  wsEventReceived,  \* rotationTracking.wsEventReceived
  expectedRotation, \* rotationTracking.expectedRotationAt
  meta,             \* config.managedKey's nextRotationAt and graceExpiresAt
  refreshAt,        \* refreshTimer
  graceAt,          \* GracePeriodPoller.timer
  beatAt,           \* HeartbeatMonitor.timer
  call,             \* the refresh calls
  link,             \* the WebSocket: "down", "up", "recovering" (after 4001)
  linkKey,          \* the key it was opened with, None if it is not open
  wasConnected,     \* wasConnectedBefore
  event             \* a rotation event is on its way on this connection

serverVars == <<serverKey, expiry, nextRotation, manual, revoked>>
keyVars    == <<key, currentKey, unnoticed, unsaved, meta, expectedRotation>>
timerVars  == <<refreshAt, graceAt, beatAt>>
linkVars   == <<link, linkKey, wasConnected, event>>
vars == <<now, serverVars, lost, drops, keyVars, isRunning, started, staleKeyDetected,
          wsEventReceived, timerVars, call, linkVars>>

Time == Nat \cup {None}
RefreshSource == {"start", "scheduled", "ws_event", "grace_poll", "reconnect",
                  "heartbeat", "auth"}
Meta   == [next : Time, grace : Time]
NoMeta == [next |-> None, grace |-> None]

(* A refresh call: "delay" waits RECONNECT_POLL_DELAY_MS, "sent" is with the vault,
   "skipped" has returned without asking it, the others hold the outcome of the
   request until the call resumes. *)
Idle == [at |-> "idle", src |-> "start", since |-> 0, key |-> 0, meta |-> NoMeta]
CallType == [at    : {"idle", "delay", "sent", "skipped", "answered", "refused", "failed"},
             src   : RefreshSource,
             since : Nat,
             key   : Nat,
             meta  : Meta]

Valid(k) == k = serverKey \/ (k < serverKey /\ now < expiry[k])
IdleCalls == {c \in Calls : call[c].at = "idle"}

(* refreshManagedKey() up to its await: the request carries the configured key. *)
Sent(src) == [Idle EXCEPT !.at = "sent", !.src = src, !.since = now, !.key = key]
Later(x, y) == IF x < y THEN y ELSE x
-----------------------------------------------------------------------------
Init ==
  /\ now = 0 /\ serverKey = 0 /\ expiry = [k \in {} |-> 0]
  /\ nextRotation = IF Scheduled THEN Period ELSE None
  /\ manual = 0 /\ lost = 0 /\ drops = 0 /\ revoked = FALSE
  /\ key = 0 /\ currentKey = 0 /\ expectedRotation = None
  /\ unsaved = 0 /\ unnoticed = FALSE
  /\ meta \in {NoMeta, [next |-> nextRotation, grace |-> None]}
  /\ isRunning = TRUE /\ started = FALSE
  /\ staleKeyDetected = FALSE /\ wsEventReceived = FALSE
  /\ refreshAt = None /\ graceAt = None /\ beatAt = None
  /\ \E c \in Calls : call = [d \in Calls |-> IF d = c THEN Sent("start") ELSE Idle]
  /\ link = "down" /\ linkKey = None /\ wasConnected = FALSE /\ event = FALSE

(* The vault makes a new key, keeps the old one for some time and tells the agents
   subscribed to the key. *)
NewKey(grace) ==
  /\ serverKey' = serverKey + 1
  /\ expiry' = [k \in 0..serverKey |-> IF k = serverKey THEN now + grace ELSE expiry[k]]
  /\ nextRotation' = IF Scheduled THEN now + Period ELSE None
  /\ event' = (event \/ (Subscribed /\ link = "up"))
  /\ UNCHANGED <<now, lost, drops, keyVars, isRunning, started, staleKeyDetected,
                 wsEventReceived, timerVars, call, link, linkKey, wasConnected>>

Rotate       == nextRotation = now /\ NewKey(Grace) /\ UNCHANGED <<manual, revoked>>
ManualRotate == /\ manual < MaxManual /\ manual' = manual + 1
                /\ NewKey(Grace) /\ UNCHANGED revoked
Revoke       == /\ MayRevoke /\ ~revoked /\ revoked' = TRUE
                /\ manual < MaxManual /\ manual' = manual + 1
                /\ NewKey(0)

(* graceExpiresAt of a bind response: when the key handed out stops working, if the
   vault knows, or the end of the grace period that is running. *)
GraceExpires ==
  IF Scheduled THEN nextRotation + Grace
  ELSE IF serverKey > 0 /\ Valid(serverKey - 1) THEN expiry[serverKey - 1]
  ELSE None

(* The vault answers a bind, or refuses it. *)
Answer(c) ==
  /\ call[c].at = "sent"
  /\ call' = [call EXCEPT ![c] =
       IF Valid(call[c].key)
       THEN [@ EXCEPT !.at = "answered", !.key = serverKey,
                      !.meta = [next |-> nextRotation, grace |-> GraceExpires]]
       ELSE [@ EXCEPT !.at = "refused"]]
  /\ UNCHANGED <<now, serverVars, lost, drops, keyVars, isRunning, started,
                 staleKeyDetected, wsEventReceived, timerVars, linkVars>>

(* A bind is lost on the way, all retries of request() included; or it is never sent,
   because at that moment the configuration cannot be read and names no key to bind. *)
Lose(c) ==
  /\ call[c].at = "sent" /\ lost + unsaved < MaxLost
  /\ lost' = lost + 1
  /\ \/ call' = [call EXCEPT ![c].at = "failed"]
     \/ call[c].since = now /\ call' = [call EXCEPT ![c].at = "skipped"]
  /\ UNCHANGED <<now, serverVars, drops, keyVars, isRunning, started, staleKeyDetected,
                 wsEventReceived, timerVars, linkVars>>
-----------------------------------------------------------------------------
(* calculateNextRefreshMs, as the time it leads to. *)
NextRefresh_ByGrace(m) ==                                             \* mutant
  IF m.grace # None THEN Later(m.grace - RefreshBefore, now + MinRefresh)
  ELSE now + Fallback
NextRefresh(m) ==
  IF m.next # None THEN Later(m.next - RefreshBefore, now + MinRefresh)
  ELSE IF m.grace # None
       THEN now + Later((Later(m.grace, now) - now) \div 2, MinRefresh)
  ELSE now + Fallback

(* scheduleNextRefresh: one timer, replaced by every call. *)
ArmRefresh(m) == IF isRunning THEN NextRefresh(m) ELSE None

(* GracePeriodPoller.schedule: half of the remaining time. *)
ArmGrace(m) ==
  IF m.grace = None THEN graceAt
  ELSE IF ~isRunning \/ m.grace <= now THEN None
  ELSE now + Later((m.grace - now) \div 2, MinGracePoll)

(* What a call does with the timers once it has ended, with a bind response or without:
   the poll inside the grace period arms only itself, a call of another source that
   brings nothing arms nothing. *)
ReArmed_OnSuccess(c, bound) == bound /\ call[c].src # "grace_poll"    \* mutant
ReArmed(c, bound) == \/ call[c].src \in {"start", "scheduled"}
                     \/ bound /\ call[c].src # "grace_poll"

Schedule(c, m, bound) ==
  /\ refreshAt' = IF ReArmed(c, bound) THEN ArmRefresh(m) ELSE refreshAt
  /\ graceAt'   = IF bound /\ call[c].src # "scheduled" THEN ArmGrace(m) ELSE graceAt
  /\ beatAt'    = IF call[c].src = "start" THEN now + Heartbeat ELSE beatAt
  /\ started'   = (started \/ call[c].src = "start")
  /\ call'      = [call EXCEPT ![c] = Idle]

(* The key has changed: the callback of startDaemon closes the WebSocket, which is
   opened again by connect(); the client forgets that it was connected. *)
Rotated_IfNewer(k) == currentKey # None /\ currentKey < k             \* mutant
Rotated(k) == currentKey # None /\ currentKey # k

Bound(c) ==
  LET k == call[c].key  m == call[c].meta  IN
  /\ Schedule(c, m, TRUE)
  /\ staleKeyDetected' = (staleKeyDetected /\ ~Rotated(k) /\ call[c].src # "auth")
  /\ wsEventReceived'  = (wsEventReceived /\ ~Rotated(k))
  /\ \/ /\ Rotated(k)
        /\ link' = "down" /\ linkKey' = None /\ wasConnected' = FALSE /\ event' = FALSE
     \/ /\ ~Rotated(k)
        /\ link' = IF call[c].src = "auth" THEN "down" ELSE link
        /\ UNCHANGED <<linkKey, wasConnected, event>>
  /\ UNCHANGED <<now, serverVars, lost, drops, isRunning>>

(* What a call that brings nothing leaves alone; the recovery from 4001 ends as well. *)
Unbound(c) ==
  /\ link' = IF call[c].src = "auth" THEN "down" ELSE link
  /\ UNCHANGED <<now, serverVars, lost, drops, isRunning, wsEventReceived, linkKey,
                 wasConnected, event>>

(* A call resumes with a bind response: currentKey is set first ... *)
Remember(c) ==
  LET m == call[c].meta  IN
  /\ call[c].at = "answered"
  /\ currentKey' = call[c].key
  /\ expectedRotation' = IF m.next # None THEN m.next ELSE expectedRotation

(* ... and updateManagedKey saves the key, which reaches the environment. *)
Refreshed(c) ==
  /\ Remember(c) /\ Bound(c)
  /\ key' = call[c].key /\ meta' = call[c].meta
  /\ unnoticed' = (unnoticed /\ ~Rotated(call[c].key))
  /\ UNCHANGED unsaved

Unsaved(c) ==
  /\ Remember(c)
  /\ lost + unsaved < MaxLost /\ unsaved' = unsaved + 1
  /\ unnoticed' = TRUE

(* saveConfig throws, and refreshManagedKey takes it for a failed bind.  From the disk
   the old configuration is read again.  In config-from-vault mode the object in memory
   has changed already; its key is overridden by the old one of the environment, if a
   save has put one there. *)
SaveFails(c) ==
  /\ Unsaved(c) /\ Unbound(c)
  /\ \/ UNCHANGED <<key, meta>>
     \/ UNCHANGED key /\ meta' = call[c].meta
     \/ key = 0 /\ key' = call[c].key /\ meta' = call[c].meta
  /\ Schedule(c, meta', FALSE)
  /\ UNCHANGED staleKeyDetected

(* The configuration cannot be read at that moment: updateManagedKey returns without a
   word, and the rest of the refresh goes on as if the key were saved. *)
SaveSkipped(c) ==
  /\ Unsaved(c) /\ Bound(c)
  /\ UNCHANGED <<key, meta>>

(* A call resumes with an error: handleRefreshError.  A refusal is recognised by the
   text of the vault's message.  The next time comes from the configuration. *)
RefreshFailed(c) ==
  /\ call[c].at \in {"refused", "failed", "skipped"}
  /\ staleKeyDetected' \in {staleKeyDetected, staleKeyDetected \/ call[c].at = "refused"}
  /\ Schedule(c, IF call[c].at = "skipped" THEN NoMeta ELSE meta, FALSE)
  /\ Unbound(c)
  /\ UNCHANGED keyVars
-----------------------------------------------------------------------------
(* The refresh timer fires. *)
RefreshTimer(c) ==
  /\ refreshAt = now /\ c \in IdleCalls
  /\ refreshAt' = None
  /\ call' = [call EXCEPT ![c] = Sent("scheduled")]
  /\ UNCHANGED <<now, serverVars, lost, drops, keyVars, isRunning, started,
                 staleKeyDetected, wsEventReceived, graceAt, beatAt, linkVars>>

(* GracePeriodPoller.executePoll. *)
GraceTimer(c) ==
  /\ graceAt = now /\ c \in IdleCalls
  /\ graceAt' = None
  /\ call' = [call EXCEPT ![c] = IF wsEventReceived THEN Idle ELSE Sent("grace_poll")]
  /\ UNCHANGED <<now, serverVars, lost, drops, keyVars, isRunning, started,
                 staleKeyDetected, wsEventReceived, refreshAt, beatAt, linkVars>>

(* HeartbeatMonitor.check. *)
Stale == /\ expectedRotation # None /\ now > expectedRotation + StaleAfter
         /\ ~wsEventReceived
HeartbeatTimer(c) ==
  /\ beatAt = now /\ c \in IdleCalls
  /\ beatAt' = now + Heartbeat
  /\ call' = [call EXCEPT ![c] = IF Stale THEN Sent("heartbeat") ELSE Idle]
  /\ UNCHANGED <<now, serverVars, lost, drops, keyVars, isRunning, started,
                 staleKeyDetected, wsEventReceived, refreshAt, graceAt, linkVars>>

(* onWebSocketRotationEvent. *)
RotationEvent(c) ==
  /\ event /\ isRunning /\ c \in IdleCalls
  /\ event' = FALSE
  /\ wsEventReceived' = TRUE
  /\ call' = [call EXCEPT ![c] = Sent("ws_event")]
  /\ UNCHANGED <<now, serverVars, lost, drops, keyVars, isRunning, started,
                 staleKeyDetected, timerVars, link, linkKey, wasConnected>>

(* The WebSocket opens with the configured key; a reconnect of a subscribed client
   is passed to onWebSocketReconnect. *)
LinkOpens(c) ==
  /\ started /\ isRunning /\ link = "down" /\ Valid(key) /\ c \in IdleCalls
  /\ link' = "up" /\ linkKey' = key /\ wasConnected' = TRUE
  /\ call' = [call EXCEPT ![c] =
       IF wasConnected /\ Subscribed
       THEN [Idle EXCEPT !.at = "delay", !.src = "reconnect", !.since = now] ELSE Idle]
  /\ UNCHANGED <<now, serverVars, lost, drops, keyVars, isRunning, started,
                 staleKeyDetected, wsEventReceived, timerVars, event>>

(* onWebSocketReconnect goes on after its delay. *)
DelayOver(c) ==
  /\ call[c].at = "delay"
  /\ call' = [call EXCEPT ![c] = IF isRunning THEN Sent("reconnect") ELSE Idle]
  /\ UNCHANGED <<now, serverVars, lost, drops, keyVars, isRunning, started,
                 staleKeyDetected, wsEventReceived, timerVars, linkVars>>

(* The vault closes the connection with 4001: a subscribed client runs
   onWebSocketAuthFailure and reconnects when it is done. *)
LinkRefused(c) ==
  /\ started /\ isRunning /\ link = "down" /\ ~Valid(key) /\ c \in IdleCalls
  /\ Subscribed
  /\ drops < MaxDrops /\ drops' = drops + 1
  /\ link' = "recovering" /\ staleKeyDetected' = TRUE
  /\ call' = [call EXCEPT ![c] = Sent("auth")]
  /\ UNCHANGED <<now, serverVars, lost, keyVars, isRunning, started, wsEventReceived,
                 timerVars, linkKey, wasConnected, event>>

(* The connection breaks, with the events still on it. *)
LinkDrops ==
  /\ link = "up" /\ drops < MaxDrops
  /\ drops' = drops + 1
  /\ link' = "down" /\ linkKey' = None /\ event' = FALSE
  /\ UNCHANGED <<now, serverVars, lost, keyVars, isRunning, started, staleKeyDetected,
                 wsEventReceived, timerVars, call, wasConnected>>

(* stopManagedKeyRenewal, after the WebSocket was disconnected; calls in flight
   are not cancelled. *)
Stop ==
  /\ started /\ isRunning
  /\ isRunning' = FALSE /\ currentKey' = None /\ staleKeyDetected' = FALSE
  /\ wsEventReceived' = FALSE /\ expectedRotation' = None
  /\ refreshAt' = None /\ graceAt' = None /\ beatAt' = None
  /\ link' = "down" /\ linkKey' = None /\ wasConnected' = FALSE /\ event' = FALSE
  /\ UNCHANGED <<now, serverVars, lost, drops, key, unnoticed, unsaved, meta, started, call>>

(* A tick passes; what is due comes first. *)
Due == \/ now \in {nextRotation, refreshAt, graceAt, beatAt} \/ event
       \/ \E c \in Calls : \/ call[c].at \in {"delay", "skipped"}
                           \/ call[c].at # "idle" /\ now >= call[c].since + Latency
Tick ==
  /\ now < MaxTime /\ ~Due
  /\ now' = now + 1
  /\ UNCHANGED <<serverVars, lost, drops, keyVars, isRunning, started, staleKeyDetected,
                 wsEventReceived, timerVars, call, linkVars>>

Next ==
  \/ Tick \/ Rotate \/ ManualRotate \/ Revoke \/ LinkDrops \/ Stop
  \/ \E c \in Calls :
       \/ Answer(c) \/ Lose(c) \/ Refreshed(c) \/ RefreshFailed(c)
       \/ SaveFails(c) \/ SaveSkipped(c)
       \/ RefreshTimer(c) \/ GraceTimer(c) \/ HeartbeatTimer(c)
       \/ RotationEvent(c) \/ LinkOpens(c) \/ DelayOver(c) \/ LinkRefused(c)

Spec == Init /\ [][Next]_vars
-----------------------------------------------------------------------------
(* The types, and that no timer is armed for the past. *)
ServerTypes == /\ now \in Nat /\ serverKey \in Nat
               /\ expiry \in [0..serverKey-1 -> Nat]
               /\ nextRotation \in Time /\ manual \in Nat
               /\ lost \in Nat /\ drops \in Nat /\ revoked \in BOOLEAN
KeyTypes == /\ key \in 0..serverKey /\ currentKey \in 0..serverKey \cup {None}
            /\ unsaved \in Nat /\ unnoticed \in BOOLEAN
            /\ meta \in Meta /\ expectedRotation \in Time
FlagTypes == /\ isRunning \in BOOLEAN /\ started \in BOOLEAN
             /\ staleKeyDetected \in BOOLEAN /\ wsEventReceived \in BOOLEAN
TimerTypes == \A t \in {refreshAt, graceAt, beatAt} : t = None \/ (t \in Nat /\ t >= now)
CallTypes == call \in [Calls -> CallType] /\ \A c \in Calls : call[c].key \in 0..serverKey
LinkTypes == /\ link \in {"down", "up", "recovering"} /\ linkKey \in 0..serverKey \cup {None}
             /\ wasConnected \in BOOLEAN /\ event \in BOOLEAN
TypeOK == ServerTypes /\ KeyTypes /\ FlagTypes /\ TimerTypes /\ CallTypes /\ LinkTypes

(* Without a revocation the agent never holds a key the vault refuses, although every
   rotation event may be lost, some refreshes go wrong and answers of overlapping binds
   are taken in any order: a later refresh picks up each new key before the grace period
   of the old one ends.  Only a refresh that goes wrong and an operator who rotates the
   key then together leave it to the fallback interval; and while a key that could not
   be saved is not made good, the schedule of the new key decides when the old one is
   asked with again. *)
KeyStaysValid ==
  isRunning /\ ~revoked /\ ~unnoticed /\ (manual = 0 \/ lost + unsaved = 0) => Valid(key)

(* The chain of scheduled refreshes does not break: once the service has started, a
   refresh is always armed or on its way, whatever the other calls do. *)
RenewalNeverStops ==
  isRunning /\ started =>
    \/ refreshAt # None
    \/ \E c \in Calls : call[c].at # "idle" /\ call[c].src = "scheduled"

(* Once the service is stopped no timer is armed again, although refresh calls in
   flight still end and still write their key. *)
StoppedIsQuiet == started /\ ~isRunning => refreshAt = None /\ graceAt = None /\ beatAt = None

(* The open WebSocket was authenticated with the key the agent has configured.  This ends
   when a new key could not be saved: currentKey is the new key already, so the refresh
   that saves it sees no change and closes nothing.  It holds again once a later rotation
   is noticed. *)
LinkUsesKey == link = "up" => linkKey = key \/ unnoticed
=============================================================================
