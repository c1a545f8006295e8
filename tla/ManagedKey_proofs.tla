------------------------- MODULE ManagedKey_proofs -------------------------
(***************************************************************************)
(* Proofs about the renewal of the managed key, for every number of        *)
(* overlapping refresh calls, all intervals and all bounds.                *)
(***************************************************************************)
EXTENDS ManagedKey, TLAPS

LEMMA Constants ==
  /\ None \notin Nat
  /\ RefreshBefore \in Nat /\ StaleAfter \in Nat /\ Latency \in Nat
  /\ MinRefresh \in Nat \ {0} /\ Fallback \in Nat \ {0} /\ MinGracePoll \in Nat \ {0}
  /\ Heartbeat \in Nat \ {0} /\ Period \in Nat \ {0} /\ Grace \in Nat \ {0}
BY NoneAssumption, TicksAssumption

(* A vault that rotates by schedule knows when. *)
Announces == Scheduled => nextRotation \in Nat

Types == TypeOK /\ Announces

-----------------------------------------------------------------------------
(* The helpers. *)
LEMMA LaterFacts ==
  ASSUME NEW x \in Int, NEW y \in Nat
  PROVE  Later(x, y) \in Nat /\ Later(x, y) >= y
BY DEF Later

LEMMA HalfFacts ==
  ASSUME NEW x \in Nat
  PROVE  x \div 2 \in Nat
OBVIOUS

(* Whatever the vault has announced, the next refresh is in the future. *)
LEMMA NextRefreshFacts ==
  ASSUME now \in Nat, NEW m \in Meta
  PROVE  NextRefresh(m) \in Nat /\ NextRefresh(m) > now
<1>1. m.next \in Time /\ m.grace \in Time
  BY DEF Meta
<1>2. CASE m.next # None
  <2>1. m.next - RefreshBefore \in Int /\ now + MinRefresh \in Nat /\ now + MinRefresh > now
    BY <1>1, <1>2, Constants DEF Time
  <2> DEFINE x == m.next - RefreshBefore
             y == now + MinRefresh
  <2>2. NextRefresh(m) = Later(x, y)
    BY <1>2 DEF NextRefresh
  <2>3. x \in Int /\ y \in Nat /\ y > now
    BY <2>1
  <2> HIDE DEF x, y
  <2>4. Later(x, y) \in Nat /\ Later(x, y) >= y
    BY <2>3, LaterFacts
  <2>5. QED
    BY <2>2, <2>3, <2>4
<1>3. CASE m.next = None /\ m.grace # None
  <2>0. m.grace \in Int
    BY <1>1, <1>3 DEF Time
  <2>1. Later(m.grace, now) - now \in Nat
    BY <2>0 DEF Later
  <2> DEFINE half == (Later(m.grace, now) - now) \div 2
  <2>2. half \in Nat
    BY <2>1, HalfFacts
  <2>3. NextRefresh(m) = now + Later(half, MinRefresh)
    BY <1>3 DEF NextRefresh
  <2> HIDE DEF half
  <2>4. Later(half, MinRefresh) \in Nat /\ Later(half, MinRefresh) >= MinRefresh
    BY <2>2, Constants, LaterFacts
  <2>5. QED
    BY <2>3, <2>4, Constants
<1>4. CASE m.next = None /\ m.grace = None
  BY <1>4, Constants DEF NextRefresh
<1>5. QED
  BY <1>2, <1>3, <1>4

LEMMA ArmGraceFacts ==
  ASSUME now \in Nat, NEW m \in Meta, graceAt = None \/ (graceAt \in Nat /\ graceAt >= now)
  PROVE  ArmGrace(m) = None \/ (ArmGrace(m) \in Nat /\ ArmGrace(m) >= now)
<1>1. m.grace \in Time
  BY DEF Meta
<1>2. CASE m.grace = None \/ ~isRunning \/ m.grace <= now
  BY <1>2 DEF ArmGrace
<1>3. CASE m.grace # None /\ isRunning /\ ~(m.grace <= now)
  <2> DEFINE half == (m.grace - now) \div 2
  <2>1. m.grace - now \in Nat
    BY <1>1, <1>3 DEF Time
  <2>2. half \in Nat
    BY <2>1, HalfFacts
  <2>3. ArmGrace(m) = now + Later(half, MinGracePoll)
    BY <1>3 DEF ArmGrace
  <2> HIDE DEF half
  <2>4. Later(half, MinGracePoll) \in Nat
    BY <2>2, Constants DEF Later
  <2>5. QED
    BY <2>3, <2>4
<1>4. QED
  BY <1>2, <1>3

LEMMA IdleFacts == Idle \in CallType /\ Idle.at = "idle" /\ Idle.key = 0 /\ Idle.src = "start"
BY DEF Idle, CallType, RefreshSource, NoMeta, Meta, Time

LEMMA SentFacts ==
  ASSUME now \in Nat, key \in Nat, NEW src \in RefreshSource
  PROVE  /\ Sent(src) \in CallType
         /\ Sent(src).at = "sent" /\ Sent(src).src = src /\ Sent(src).key = key
BY DEF Sent, Idle, CallType, RefreshSource, NoMeta, Meta, Time

LEMMA CallChanges ==
  ASSUME TypeOK, NEW c \in Calls, NEW r \in CallType, r.key \in 0..serverKey,
         call' = [call EXCEPT ![c] = r], serverKey' = serverKey
  PROVE  CallTypes'
BY DEF TypeOK, CallTypes

LEMMA TimersSplit ==
  TimerTypes <=> /\ refreshAt = None \/ (refreshAt \in Nat /\ refreshAt >= now)
                 /\ graceAt = None \/ (graceAt \in Nat /\ graceAt >= now)
                 /\ beatAt = None \/ (beatAt \in Nat /\ beatAt >= now)
BY DEF TimerTypes
-----------------------------------------------------------------------------
(* The vault. *)
LEMMA NewKeyTypes ==
  ASSUME Types, NEW grace \in Nat, NewKey(grace),
         manual' \in Nat, revoked' \in BOOLEAN
  PROVE  Types'
<1>1. serverKey \in Nat /\ now \in Nat /\ expiry \in [0..serverKey-1 -> Nat]
  BY DEF Types, TypeOK, ServerTypes
<1>2. serverKey' = serverKey + 1
  BY DEF NewKey
<1>3. serverKey' \in Nat /\ 0..serverKey \subseteq 0..serverKey'
  BY <1>1, <1>2
<1>4. expiry' \in [0..serverKey'-1 -> Nat]
  <2>1. \A k \in 0..serverKey : k = serverKey \/ k \in 0..serverKey-1
    BY <1>1
  <2>2. \A k \in 0..serverKey : (IF k = serverKey THEN now + grace ELSE expiry[k]) \in Nat
    BY <1>1, <2>1
  <2>3. expiry' \in [0..serverKey -> Nat]
    BY <2>2 DEF NewKey
  <2>4. serverKey'-1 = serverKey
    BY <1>1, <1>2
  <2>5. QED
    BY <2>3, <2>4
<1>5. nextRotation' \in Time /\ Announces'
  BY <1>1, Constants DEF NewKey, Time, Announces
<1>6. UNCHANGED <<now, lost, drops, key, currentKey, unnoticed, unsaved, meta,
                  expectedRotation, isRunning, started, staleKeyDetected, wsEventReceived, refreshAt, graceAt, beatAt,
                  call, link, linkKey, wasConnected>>
  BY DEF NewKey, keyVars, timerVars
<1>7. ServerTypes'
  BY <1>1, <1>3, <1>4, <1>5, <1>6 DEF ServerTypes, Types, TypeOK
<1>8. KeyTypes' /\ FlagTypes' /\ TimerTypes'
  BY <1>3, <1>6 DEF KeyTypes, FlagTypes, TimerTypes, Types, TypeOK
<1>9. CallTypes'
  BY <1>3, <1>6 DEF CallTypes, Types, TypeOK
<1>10. LinkTypes'
  <2>1. event' \in BOOLEAN
    BY DEF NewKey
  <2>2. QED
    BY <1>3, <1>6, <2>1 DEF LinkTypes, Types, TypeOK
<1>11. QED
  BY <1>5, <1>7, <1>8, <1>9, <1>10 DEF Types, TypeOK

LEMMA GraceExpiresType == ASSUME Types PROVE GraceExpires \in Time
<1>1. serverKey \in Nat /\ expiry \in [0..serverKey-1 -> Nat] /\ nextRotation \in Time
  BY DEF Types, TypeOK, ServerTypes
<1>2. CASE Scheduled
  BY <1>2, Constants DEF GraceExpires, Types, Announces, Time
<1>3. CASE ~Scheduled /\ serverKey > 0 /\ Valid(serverKey - 1)
  BY <1>1, <1>3 DEF GraceExpires, Time
<1>4. CASE ~Scheduled /\ ~(serverKey > 0 /\ Valid(serverKey - 1))
  BY <1>4 DEF GraceExpires, Time
<1>5. QED
  BY <1>2, <1>3, <1>4

(* What an action leaves alone keeps its type. *)
LEMMA ServerKept ==
  ASSUME Types, UNCHANGED <<now, serverVars>>, lost' \in Nat, drops' \in Nat
  PROVE  ServerTypes' /\ Announces' /\ serverKey' = serverKey /\ now' = now
BY DEF Types, TypeOK, ServerTypes, Announces, serverVars

LEMMA AnswerTypes ==
  ASSUME Types, NEW c \in Calls, Answer(c) \/ Lose(c)
  PROVE  Types'
<1>1. UNCHANGED <<now, serverVars, drops, keyVars, isRunning, started, staleKeyDetected,
                  wsEventReceived, timerVars, linkVars>>
  BY DEF Answer, Lose
<1>2. lost' \in Nat /\ drops' \in Nat
  BY DEF Answer, Lose, Types, TypeOK, ServerTypes
<1>3. ServerTypes' /\ Announces' /\ serverKey' = serverKey /\ now' = now
  BY <1>1, <1>2, ServerKept
<1>4. KeyTypes' /\ FlagTypes' /\ TimerTypes' /\ LinkTypes'
  BY <1>1, <1>3 DEF Types, TypeOK, KeyTypes, FlagTypes, TimerTypes, LinkTypes, keyVars,
                    timerVars, linkVars
<1>5. call[c] \in CallType /\ call[c].key \in 0..serverKey /\ serverKey \in Nat
      /\ nextRotation \in Time
  BY DEF Types, TypeOK, CallTypes, ServerTypes
<1>6. CallTypes'
  <2> DEFINE m == [next |-> nextRotation, grace |-> GraceExpires]
             a == [call[c] EXCEPT !.at = "answered", !.key = serverKey, !.meta = m]
             r == [call[c] EXCEPT !.at = "refused"]
             f == [call[c] EXCEPT !.at = "failed"]
             n == [call[c] EXCEPT !.at = "skipped"]
  <2>1. m \in Meta
    BY <1>5, GraceExpiresType DEF Meta
  <2> HIDE DEF m
  <2>2. /\ a \in CallType /\ a.key = serverKey
        /\ r \in CallType /\ r.key = call[c].key
        /\ f \in CallType /\ f.key = call[c].key
        /\ n \in CallType /\ n.key = call[c].key
    <3>1. a \in CallType /\ a.key = serverKey
      BY <1>5, <2>1 DEF CallType
    <3>2. r \in CallType /\ r.key = call[c].key
      BY <1>5 DEF CallType
    <3>3. f \in CallType /\ f.key = call[c].key
      BY <1>5 DEF CallType
    <3>4. n \in CallType /\ n.key = call[c].key
      BY <1>5 DEF CallType
    <3>5. QED
      BY <3>1, <3>2, <3>3, <3>4
  <2>3. \/ call' = [call EXCEPT ![c] = a]
        \/ call' = [call EXCEPT ![c] = r]
        \/ call' = [call EXCEPT ![c] = f]
        \/ call' = [call EXCEPT ![c] = n]
    BY DEF Answer, Lose, m
  <2> HIDE DEF a, r, f, n
  <2>4. /\ a.key \in 0..serverKey /\ r.key \in 0..serverKey /\ f.key \in 0..serverKey
        /\ n.key \in 0..serverKey
    BY <1>5, <2>2
  <2>5. QED
    BY <1>3, <2>2, <2>3, <2>4, CallChanges DEF Types
<1>7. QED
  BY <1>3, <1>4, <1>6 DEF Types, TypeOK
-----------------------------------------------------------------------------
(* A call resumes. *)
LEMMA ScheduleTypes ==
  ASSUME Types, NEW c \in Calls, NEW m \in Meta, NEW bound \in BOOLEAN,
         Schedule(c, m, bound), now' = now,
         serverKey' = serverKey
  PROVE  /\ TimerTypes' /\ CallTypes' /\ started' \in BOOLEAN
<1>1. now \in Nat /\ serverKey \in Nat
  BY DEF Types, TypeOK, ServerTypes
<1>2. refreshAt' = None \/ (refreshAt' \in Nat /\ refreshAt' >= now)
  <2>1. NextRefresh(m) \in Nat /\ NextRefresh(m) > now
    BY <1>1, NextRefreshFacts
  <2>2. refreshAt' \in {refreshAt, None, NextRefresh(m)}
    BY DEF Schedule, ArmRefresh
  <2>3. refreshAt = None \/ (refreshAt \in Nat /\ refreshAt >= now)
    BY TimersSplit DEF Types, TypeOK
  <2>4. QED
    BY <1>1, <2>1, <2>2, <2>3
<1>3. graceAt' = None \/ (graceAt' \in Nat /\ graceAt' >= now)
  <2>1. graceAt = None \/ (graceAt \in Nat /\ graceAt >= now)
    BY TimersSplit DEF Types, TypeOK
  <2>2. ArmGrace(m) = None \/ (ArmGrace(m) \in Nat /\ ArmGrace(m) >= now)
    BY <1>1, <2>1, ArmGraceFacts
  <2>3. graceAt' \in {graceAt, ArmGrace(m)}
    BY DEF Schedule
  <2>4. QED
    BY <2>1, <2>2, <2>3
<1>4. beatAt' = None \/ (beatAt' \in Nat /\ beatAt' >= now)
  <2>1. beatAt = None \/ (beatAt \in Nat /\ beatAt >= now)
    BY TimersSplit DEF Types, TypeOK
  <2>2. beatAt' \in {beatAt, now + Heartbeat}
    BY DEF Schedule
  <2>3. QED
    BY <1>1, <2>1, <2>2, Constants
<1>5. TimerTypes'
  BY <1>2, <1>3, <1>4, TimersSplit DEF TimerTypes
<1>6. CallTypes'
  <2>1. call' = [call EXCEPT ![c] = Idle] /\ Idle.key \in 0..serverKey
    BY <1>1, IdleFacts DEF Schedule
  <2>2. QED
    BY <2>1, IdleFacts, CallChanges DEF Types
<1>7. started' \in BOOLEAN
  BY DEF Schedule
<1>8. QED
  BY <1>5, <1>6, <1>7

(* How a call can end. *)
Resumes(c) == Refreshed(c) \/ SaveFails(c) \/ SaveSkipped(c) \/ RefreshFailed(c)

(* What every end of a call has in common. *)
LEMMA ResumeKeeps ==
  ASSUME NEW c \in Calls, Resumes(c)
  PROVE  /\ UNCHANGED <<now, serverVars, lost, drops, isRunning>>
         /\ unsaved' = unsaved \/ unsaved' = unsaved + 1
         /\ \E m \in {call[c].meta, meta, NoMeta}, bound \in BOOLEAN :
              /\ Schedule(c, m, bound)
              /\ bound => call[c].at = "answered"
         /\ link' \in {"down", link} /\ (link' = "up" => UNCHANGED linkKey)
BY DEF Resumes, Refreshed, SaveFails, SaveSkipped, Unsaved, Remember, Bound, Unbound,
       RefreshFailed, keyVars

LEMMA ResumeMeta ==
  ASSUME TypeOK, NEW c \in Calls, Resumes(c)
  PROVE  \E m \in Meta, bound \in BOOLEAN : Schedule(c, m, bound)
<1>1. call[c].meta \in Meta /\ meta \in Meta /\ NoMeta \in Meta
  BY DEF TypeOK, CallTypes, CallType, KeyTypes, Meta, NoMeta, Time
<1>2. QED
  BY <1>1, ResumeKeeps

(* What the configuration says of the schedule changes only to what the answer says. *)
LEMMA MetaAfter ==
  ASSUME NEW c \in Calls, Resumes(c)
  PROVE  meta' = meta \/ (meta' = call[c].meta /\ call[c].at = "answered")
BY DEF Resumes, Refreshed, SaveFails, SaveSkipped, Unsaved, Remember, RefreshFailed, keyVars

LEMMA ResumeTypes ==
  ASSUME Types, NEW c \in Calls, Resumes(c)
  PROVE  Types'
<1>1. UNCHANGED <<now, serverVars, lost, drops, isRunning>>
  BY ResumeKeeps
<1>2. ServerTypes' /\ Announces' /\ serverKey' = serverKey /\ now' = now
  BY <1>1, ServerKept DEF Types, TypeOK, ServerTypes
<1>3. /\ call[c].key \in 0..serverKey /\ call[c].meta \in Meta /\ call[c].meta.next \in Time
      /\ meta \in Meta /\ NoMeta \in Meta
  BY DEF Types, TypeOK, CallTypes, CallType, KeyTypes, Meta, NoMeta, Time
<1>4. TimerTypes' /\ CallTypes' /\ started' \in BOOLEAN
  BY <1>2, <1>3, ResumeKeeps, ScheduleTypes
<1>5. KeyTypes'
  <2>1. unsaved' \in Nat
    BY ResumeKeeps DEF Types, TypeOK, KeyTypes
  <2>2. CASE RefreshFailed(c)
    BY <1>2, <2>2 DEF RefreshFailed, KeyTypes, Types, TypeOK, keyVars
  <2>3. CASE Refreshed(c) \/ SaveFails(c) \/ SaveSkipped(c)
    <3>1. currentKey' = call[c].key /\ expectedRotation' \in {call[c].meta.next, expectedRotation}
      BY <2>3 DEF Refreshed, SaveFails, SaveSkipped, Unsaved, Remember
    <3>2. key' \in {call[c].key, key} /\ meta' \in {call[c].meta, meta}
          /\ unnoticed' \in BOOLEAN
      BY <2>3 DEF Refreshed, SaveFails, SaveSkipped, Unsaved, KeyTypes, Types, TypeOK
    <3>3. QED
      BY <1>2, <1>3, <2>1, <3>1, <3>2 DEF KeyTypes, Types, TypeOK
  <2>4. QED
    BY <2>2, <2>3 DEF Resumes
<1>6. FlagTypes'
  <2>1. staleKeyDetected' \in BOOLEAN /\ wsEventReceived' \in BOOLEAN
    BY DEF Resumes, Refreshed, SaveFails, SaveSkipped, Bound, Unbound, RefreshFailed, FlagTypes,
           Types, TypeOK
  <2>2. QED
    BY <1>1, <1>4, <2>1 DEF FlagTypes, Types, TypeOK
<1>7. LinkTypes'
  <2>1. CASE Refreshed(c) \/ SaveSkipped(c)
    BY <1>2, <2>1 DEF Refreshed, SaveSkipped, Bound, LinkTypes, Types, TypeOK
  <2>2. CASE SaveFails(c) \/ RefreshFailed(c)
    BY <1>2, <2>2 DEF SaveFails, RefreshFailed, Unbound, LinkTypes, Types, TypeOK
  <2>3. QED
    BY <2>1, <2>2 DEF Resumes
<1>8. QED
  BY <1>2, <1>4, <1>5, <1>6, <1>7 DEF Types, TypeOK
-----------------------------------------------------------------------------
(* A timer fires, or the WebSocket reports something: one call begins. *)
LEMMA BeginTypes ==
  ASSUME Types, NEW c \in Calls, now' = now, serverKey' = serverKey,
         \/ call' = [call EXCEPT ![c] = Idle]
         \/ \E src \in RefreshSource : call' = [call EXCEPT ![c] = Sent(src)]
  PROVE  CallTypes'
<1>1. now \in Nat /\ serverKey \in Nat /\ key \in 0..serverKey /\ key \in Nat
  BY DEF Types, TypeOK, ServerTypes, KeyTypes
<1>2. CASE call' = [call EXCEPT ![c] = Idle]
  <2>1. Idle \in CallType /\ Idle.key \in 0..serverKey
    BY <1>1, IdleFacts
  <2>2. QED
    BY <1>2, <2>1, CallChanges DEF Types
<1>3. ASSUME NEW src \in RefreshSource, call' = [call EXCEPT ![c] = Sent(src)]
      PROVE  CallTypes'
  <2>1. Sent(src) \in CallType /\ Sent(src).key \in 0..serverKey
    BY <1>1, SentFacts
  <2>2. QED
    BY <1>3, <2>1, CallChanges DEF Types
<1>4. QED
  BY <1>2, <1>3

LEMMA TimerStepTypes ==
  ASSUME Types, NEW c \in Calls, RefreshTimer(c) \/ GraceTimer(c) \/ HeartbeatTimer(c)
  PROVE  Types'
<1>1. UNCHANGED <<now, serverVars, lost, drops, keyVars, isRunning, started,
                  staleKeyDetected, wsEventReceived, linkVars>>
  BY DEF RefreshTimer, GraceTimer, HeartbeatTimer
<1>2. ServerTypes' /\ Announces' /\ serverKey' = serverKey /\ now' = now
  BY <1>1, ServerKept DEF Types, TypeOK, ServerTypes
<1>3. KeyTypes' /\ FlagTypes' /\ LinkTypes'
  BY <1>1, <1>2 DEF Types, TypeOK, KeyTypes, FlagTypes, LinkTypes, keyVars, linkVars
<1>4. CallTypes'
  BY <1>2, BeginTypes DEF RefreshTimer, GraceTimer, HeartbeatTimer, RefreshSource
<1>5. now \in Nat
  BY DEF Types, TypeOK, ServerTypes
<1>6. TimerTypes'
  <2>1. refreshAt' \in {refreshAt, None} /\ graceAt' \in {graceAt, None}
        /\ beatAt' \in {beatAt, now + Heartbeat}
    BY DEF RefreshTimer, GraceTimer, HeartbeatTimer
  <2>2. now + Heartbeat \in Nat /\ now + Heartbeat >= now
    BY <1>5, Constants
  <2>3. QED
    BY <1>2, <2>1, <2>2, TimersSplit DEF Types, TypeOK, TimerTypes
<1>7. QED
  BY <1>2, <1>3, <1>4, <1>6 DEF Types, TypeOK

LEMMA LinkStepTypes ==
  ASSUME Types, NEW c \in Calls,
         RotationEvent(c) \/ LinkOpens(c) \/ DelayOver(c) \/ LinkRefused(c)
  PROVE  Types'
<1>1. UNCHANGED <<now, serverVars, lost, keyVars, isRunning, started, timerVars>>
  BY DEF RotationEvent, LinkOpens, DelayOver, LinkRefused
<1>2. drops' \in Nat /\ lost' \in Nat
  BY <1>1 DEF RotationEvent, LinkOpens, DelayOver, LinkRefused, Types, TypeOK, ServerTypes
<1>3. ServerTypes' /\ Announces' /\ serverKey' = serverKey /\ now' = now
  BY <1>1, <1>2, ServerKept
<1>4. KeyTypes' /\ TimerTypes'
  BY <1>1, <1>3 DEF Types, TypeOK, KeyTypes, TimerTypes, keyVars, timerVars
<1>5. staleKeyDetected' \in BOOLEAN /\ wsEventReceived' \in BOOLEAN
  BY DEF RotationEvent, LinkOpens, DelayOver, LinkRefused, Types, TypeOK, FlagTypes
<1>6. FlagTypes'
  BY <1>1, <1>5 DEF FlagTypes, Types, TypeOK
<1>7. link' \in {"down", "up", "recovering"} /\ wasConnected' \in BOOLEAN /\ event' \in BOOLEAN
  BY DEF RotationEvent, LinkOpens, DelayOver, LinkRefused, linkVars, Types, TypeOK, LinkTypes
<1>8. linkKey' \in 0..serverKey \cup {None}
  BY DEF RotationEvent, LinkOpens, DelayOver, LinkRefused, linkVars, Types, TypeOK, LinkTypes,
         KeyTypes
<1>9. LinkTypes'
  BY <1>3, <1>7, <1>8 DEF LinkTypes
<1>10. CallTypes'
  <2>1. CASE RotationEvent(c) \/ DelayOver(c) \/ LinkRefused(c)
    BY <1>3, <2>1, BeginTypes DEF RotationEvent, DelayOver, LinkRefused, RefreshSource
  <2>2. CASE LinkOpens(c)
    <3> DEFINE d == [Idle EXCEPT !.at = "delay", !.src = "reconnect", !.since = now]
    <3>1. d \in CallType /\ d.key = 0
      BY DEF Types, TypeOK, ServerTypes, Idle, CallType, RefreshSource, NoMeta, Meta, Time
    <3>2. call' = [call EXCEPT ![c] = d] \/ call' = [call EXCEPT ![c] = Idle]
      BY <2>2 DEF LinkOpens
    <3> HIDE DEF d
    <3>3. 0 \in 0..serverKey
      BY DEF Types, TypeOK, ServerTypes
    <3>4. QED
      BY <1>3, <3>1, <3>2, <3>3, BeginTypes, CallChanges DEF Types
  <2>3. QED
    BY <2>1, <2>2
<1>11. QED
  BY <1>3, <1>4, <1>6, <1>9, <1>10 DEF Types, TypeOK

LEMMA OtherStepTypes ==
  ASSUME Types, LinkDrops \/ Stop \/ Tick \/ UNCHANGED vars
  PROVE  Types'
<1> USE DEF Types, TypeOK
<1>1. now \in Nat /\ serverKey \in Nat
  BY DEF ServerTypes
<1>2. CASE LinkDrops \/ UNCHANGED vars
  <2>1. UNCHANGED <<now, serverVars, lost, keyVars, isRunning, started, staleKeyDetected,
                    wsEventReceived, timerVars, call>>
    BY <1>2 DEF LinkDrops, vars
  <2>2. ServerTypes' /\ Announces' /\ serverKey' = serverKey /\ now' = now
    BY <1>2, <2>1, ServerKept DEF LinkDrops, vars, ServerTypes
  <2>3. KeyTypes' /\ FlagTypes' /\ TimerTypes' /\ CallTypes'
    BY <2>1, <2>2 DEF KeyTypes, FlagTypes, TimerTypes, CallTypes, keyVars, timerVars
  <2>4. LinkTypes'
    BY <1>2, <2>1, <2>2 DEF LinkDrops, vars, linkVars, LinkTypes
  <2>5. QED BY <2>2, <2>3, <2>4
<1>3. CASE Stop
  <2>1. ServerTypes' /\ Announces' /\ serverKey' = serverKey /\ now' = now
    BY <1>3, ServerKept DEF Stop, ServerTypes
  <2>2. KeyTypes'
    BY <1>3, <2>1 DEF Stop, KeyTypes, Time
  <2>3. FlagTypes'
    BY <1>3 DEF Stop, FlagTypes
  <2>4. TimerTypes'
    BY <1>3 DEF Stop, TimerTypes
  <2>5. CallTypes' /\ LinkTypes'
    BY <1>3, <2>1 DEF Stop, CallTypes, LinkTypes
  <2>6. QED BY <2>1, <2>2, <2>3, <2>4, <2>5
<1>4. CASE Tick
  <2>1. UNCHANGED <<serverVars, lost, drops, keyVars, isRunning, started, staleKeyDetected,
                    wsEventReceived, timerVars, call, linkVars>>
        /\ now' = now + 1 /\ now \notin {nextRotation, refreshAt, graceAt, beatAt}
    BY <1>4 DEF Tick, Due
  <2>2. ServerTypes' /\ Announces' /\ serverKey' = serverKey
    BY <1>1, <2>1 DEF ServerTypes, Announces, serverVars
  <2>3. KeyTypes' /\ FlagTypes' /\ CallTypes' /\ LinkTypes'
    BY <2>1, <2>2 DEF KeyTypes, FlagTypes, CallTypes, LinkTypes, keyVars, linkVars
  <2>4. TimerTypes'
    BY <1>1, <2>1, TimersSplit DEF TimerTypes, timerVars
  <2>5. QED BY <2>2, <2>3, <2>4
<1>5. QED
  BY <1>2, <1>3, <1>4

LEMMA TypeStep ==
  ASSUME Types, [Next]_vars
  PROVE  Types'
<1>1. CASE Rotate \/ ManualRotate \/ Revoke
  <2>1. manual' \in Nat /\ revoked' \in BOOLEAN
    <3>1. manual' \in {manual, manual + 1} /\ revoked' \in {revoked, TRUE}
      BY <1>1 DEF Rotate, ManualRotate, Revoke
    <3>2. manual \in Nat /\ revoked \in BOOLEAN
      BY DEF Types, TypeOK, ServerTypes
    <3>3. manual' \in Nat
      BY <3>1, <3>2
    <3>4. revoked' \in BOOLEAN
      BY <3>1, <3>2
    <3>5. QED
      BY <3>3, <3>4
  <2>2. PICK grace \in Nat : NewKey(grace)
    BY <1>1, Constants DEF Rotate, ManualRotate, Revoke
  <2>3. QED
    BY <2>1, <2>2, NewKeyTypes
<1>2. CASE LinkDrops \/ Stop \/ Tick \/ UNCHANGED vars
  BY <1>2, OtherStepTypes
<1>3. ASSUME NEW c \in Calls, Answer(c) \/ Lose(c) \/ Resumes(c)
      PROVE  Types'
  BY <1>3, AnswerTypes, ResumeTypes
<1>4. ASSUME NEW c \in Calls,
             \/ RefreshTimer(c) \/ GraceTimer(c) \/ HeartbeatTimer(c)
             \/ RotationEvent(c) \/ LinkOpens(c) \/ DelayOver(c) \/ LinkRefused(c)
      PROVE  Types'
  BY <1>4, TimerStepTypes, LinkStepTypes
<1>5. QED
  BY <1>1, <1>2, <1>3, <1>4 DEF Next, Resumes

LEMMA InitTypes == Init => Types
<1> SUFFICES ASSUME Init PROVE Types
  OBVIOUS
<1>1. ServerTypes /\ Announces
  <2>1. now = 0 /\ serverKey = 0 /\ expiry = [k \in {} |-> 0] /\ manual = 0 /\ lost = 0
        /\ drops = 0 /\ revoked = FALSE
    BY DEF Init
  <2>2. nextRotation \in Time /\ Announces
    BY Constants DEF Init, Announces, Time
  <2>3. expiry \in [0..serverKey-1 -> Nat]
    <3>1. 0..serverKey-1 = {}
      BY <2>1
    <3>2. QED
      BY <2>1, <3>1
  <2>4. QED
    BY <2>1, <2>2, <2>3 DEF ServerTypes
<1>2. KeyTypes
  <2>1. nextRotation \in Time /\ None \in Time
    BY <1>1 DEF ServerTypes, Time
  <2>2. meta \in Meta
    BY <2>1 DEF Init, Meta, NoMeta
  <2>3. QED
    <3>1. key = 0 /\ currentKey = 0 /\ serverKey = 0 /\ expectedRotation = None
          /\ unsaved = 0 /\ unnoticed = FALSE
      BY DEF Init
    <3>2. 0 \in 0..serverKey
      BY <3>1
    <3>3. QED
      BY <2>1, <2>2, <3>1, <3>2 DEF KeyTypes
<1>3. FlagTypes /\ TimerTypes /\ LinkTypes
  <2>1. FlagTypes
    BY DEF Init, FlagTypes
  <2>2. TimerTypes
    BY DEF Init, TimerTypes
  <2>3. LinkTypes
    <3>1. linkKey \in {None}
      BY DEF Init
    <3>2. QED
      BY <3>1 DEF Init, LinkTypes
  <2>4. QED
    BY <2>1, <2>2, <2>3
<1>4. CallTypes
  <2>1. now = 0 /\ key = 0 /\ serverKey = 0
    BY DEF Init
  <2>2. PICK c \in Calls : call = [d \in Calls |-> IF d = c THEN Sent("start") ELSE Idle]
    BY DEF Init
  <2>3. Sent("start") \in CallType /\ Sent("start").key = 0
    BY <2>1, SentFacts DEF RefreshSource
  <2>4. QED
    BY <2>1, <2>2, <2>3, IdleFacts DEF CallTypes
<1>5. QED
  BY <1>1, <1>2, <1>3, <1>4 DEF Types, TypeOK

LEMMA TypesHold == Spec => []Types
BY InitTypes, TypeStep, PTL DEF Spec

(* The types, and that no timer of the service is ever armed for the past. *)
THEOREM TypeCorrect == Spec => []TypeOK
<1>1. Types => TypeOK
  BY DEF Types
<1>2. QED
  BY <1>1, TypesHold, PTL
-----------------------------------------------------------------------------
(* The link. *)
LinkInv == /\ LinkUsesKey
           /\ unsaved = 0 => ~unnoticed
           /\ currentKey = None \/ currentKey = key \/ unnoticed
           /\ isRunning => currentKey # None
           /\ link = "up" => isRunning

LEMMA LinkStep ==
  ASSUME TypeOK, LinkInv, [Next]_vars
  PROVE  LinkInv'
<1>0. unsaved \in Nat
  BY DEF TypeOK, KeyTypes
<1>1. CASE \/ Rotate \/ ManualRotate \/ Revoke \/ Tick \/ UNCHANGED vars
           \/ \E c \in Calls : \/ Answer(c) \/ Lose(c) \/ RefreshTimer(c) \/ GraceTimer(c)
                               \/ HeartbeatTimer(c) \/ RotationEvent(c) \/ DelayOver(c)
  <2>1. UNCHANGED <<key, currentKey, unnoticed, unsaved, isRunning, link, linkKey>>
    BY <1>1 DEF Rotate, ManualRotate, Revoke, NewKey, Tick, Answer, Lose, RefreshTimer,
                GraceTimer, HeartbeatTimer, RotationEvent, DelayOver, vars, keyVars, linkVars
  <2>2. QED
    BY <2>1 DEF LinkInv, LinkUsesKey
<1>2. CASE LinkDrops
  BY <1>2 DEF LinkDrops, LinkInv, LinkUsesKey, keyVars
<1>3. CASE Stop
  BY <1>3 DEF Stop, LinkInv, LinkUsesKey
<1>4. ASSUME NEW c \in Calls, Refreshed(c) \/ SaveFails(c) \/ SaveSkipped(c) PROVE LinkInv'
  <2> DEFINE k == call[c].key
  <2>1. currentKey' = k /\ isRunning' = isRunning
    BY <1>4 DEF Refreshed, SaveFails, SaveSkipped, Unsaved, Remember, Bound, Unbound
  <2>2. k \in 0..serverKey /\ serverKey \in Nat
    BY DEF TypeOK, CallTypes, ServerTypes
  <2>3. k # None
    BY <2>2, Constants
  <2>4. link' = "up" => link = "up" /\ UNCHANGED linkKey
    BY <1>4, ResumeKeeps DEF Resumes
  <2>5. CASE SaveFails(c) \/ SaveSkipped(c)
    <3>1. unnoticed' /\ unsaved' = unsaved + 1
      BY <2>5 DEF SaveFails, SaveSkipped, Unsaved
    <3>2. unsaved' # 0
      BY <1>0, <3>1
    <3>3. QED
      BY <2>1, <2>3, <2>4, <3>1, <3>2 DEF LinkInv, LinkUsesKey
  <2>6. CASE Refreshed(c) /\ Rotated(k)
    BY <2>1, <2>3, <2>6 DEF Refreshed, Bound, LinkInv, LinkUsesKey
  <2>7. CASE Refreshed(c) /\ ~Rotated(k)
    <3>1. key' = k /\ unnoticed' = unnoticed /\ unsaved' = unsaved
      BY <2>7 DEF Refreshed, TypeOK, KeyTypes
    <3>2. link = "up" => currentKey = k
      BY <2>7 DEF Rotated, LinkInv
    <3>3. link' = "up" => linkKey' = key' \/ unnoticed'
      BY <2>3, <2>4, <3>1, <3>2 DEF LinkInv, LinkUsesKey
    <3>4. QED
      BY <2>1, <2>3, <2>4, <3>1, <3>3 DEF LinkInv, LinkUsesKey
  <2>8. QED
    BY <1>4, <2>5, <2>6, <2>7
<1>5. ASSUME NEW c \in Calls, RefreshFailed(c) PROVE LinkInv'
  BY <1>5 DEF RefreshFailed, Unbound, LinkInv, LinkUsesKey, keyVars
<1>6. ASSUME NEW c \in Calls, LinkOpens(c) \/ LinkRefused(c) PROVE LinkInv'
  BY <1>6 DEF LinkOpens, LinkRefused, LinkInv, LinkUsesKey, keyVars
<1>7. QED
  BY <1>1, <1>2, <1>3, <1>4, <1>5, <1>6 DEF Next

(* The open WebSocket was authenticated with the configured key, in whatever order the
   answers of overlapping binds are taken and whichever saves fail, but for the time from a
   failed save to the next rotation that is noticed. *)
THEOREM LinkHolds == Spec => []LinkUsesKey
<1>1. Init => LinkInv
  <2>1. ASSUME Init PROVE currentKey # None
    BY <2>1, Constants DEF Init
  <2>2. QED
    BY <2>1 DEF Init, LinkInv, LinkUsesKey
<1>2. Spec => []LinkInv
  BY <1>1, LinkStep, TypeCorrect, PTL DEF Spec
<1>3. LinkInv => LinkUsesKey
  BY DEF LinkInv
<1>4. QED
  BY <1>2, <1>3, PTL
-----------------------------------------------------------------------------
(* What a step does to the calls: it moves at most one. *)
Active(c, src) == call[c].at # "idle" /\ call[c].src = src
OthersKept(c)  == \A d \in Calls \ {c} : call'[d] = call[d]

LEMMA AnswerCalls ==
  ASSUME TypeOK, NEW c \in Calls, Answer(c) \/ Lose(c)
  PROVE  /\ OthersKept(c)
         /\ call[c].at = "sent" /\ call'[c].at \in {"answered", "refused", "failed", "skipped"}
         /\ call'[c].src = call[c].src
<1>1. call \in [Calls -> CallType] /\ call[c] \in CallType
  BY DEF TypeOK, CallTypes
<1> DEFINE m == [next |-> nextRotation, grace |-> GraceExpires]
           a == [call[c] EXCEPT !.at = "answered", !.key = serverKey, !.meta = m]
           r == [call[c] EXCEPT !.at = "refused"]
           f == [call[c] EXCEPT !.at = "failed"]
           n == [call[c] EXCEPT !.at = "skipped"]
<1>2. \/ call' = [call EXCEPT ![c] = a]
      \/ call' = [call EXCEPT ![c] = r]
      \/ call' = [call EXCEPT ![c] = f]
      \/ call' = [call EXCEPT ![c] = n]
  BY DEF Answer, Lose
<1>3. /\ a.at = "answered" /\ a.src = call[c].src
      /\ r.at = "refused" /\ r.src = call[c].src
      /\ f.at = "failed" /\ f.src = call[c].src
      /\ n.at = "skipped" /\ n.src = call[c].src
  BY <1>1 DEF CallType
<1> HIDE DEF a, r, f, n
<1>4. QED
  BY <1>1, <1>2, <1>3 DEF Answer, Lose, OthersKept

LEMMA ResumeCalls ==
  ASSUME TypeOK, NEW c \in Calls, Resumes(c)
  PROVE  /\ OthersKept(c) /\ call'[c] = Idle
         /\ call[c].at \in {"answered", "refused", "failed", "skipped"}
<1>1. call' = [call EXCEPT ![c] = Idle]
  BY ResumeKeeps DEF Schedule
<1>2. QED
  BY <1>1 DEF TypeOK, CallTypes, OthersKept, Resumes, Refreshed, SaveFails, SaveSkipped, Unsaved,
              Remember, RefreshFailed

Begins(c) == \/ RefreshTimer(c) \/ GraceTimer(c) \/ HeartbeatTimer(c)
             \/ RotationEvent(c) \/ LinkOpens(c) \/ DelayOver(c) \/ LinkRefused(c)

LEMMA BeginCalls ==
  ASSUME TypeOK, NEW c \in Calls, Begins(c)
  PROVE  /\ OthersKept(c)
         /\ call[c].at \in {"idle", "delay"}
         /\ \/ call'[c].at = "idle"
            \/ call'[c].at = "sent" /\ call'[c].src \in RefreshSource \ {"start"}
            \/ call'[c].at = "delay" /\ call'[c].src = "reconnect"
<1>1. now \in Nat /\ key \in Nat /\ call \in [Calls -> CallType]
  BY DEF TypeOK, ServerTypes, KeyTypes, CallTypes
<1> DEFINE d == [Idle EXCEPT !.at = "delay", !.src = "reconnect", !.since = now]
<1>2. d.at = "delay" /\ d.src = "reconnect"
  BY DEF Idle
<1>3. \/ call' = [call EXCEPT ![c] = Idle]
      \/ \E src \in RefreshSource \ {"start"} : call' = [call EXCEPT ![c] = Sent(src)]
      \/ call' = [call EXCEPT ![c] = d]
  <2>1. CASE \/ RefreshTimer(c) \/ GraceTimer(c) \/ HeartbeatTimer(c)
             \/ RotationEvent(c) \/ DelayOver(c) \/ LinkRefused(c)
    BY <2>1 DEF RefreshTimer, GraceTimer, HeartbeatTimer, RotationEvent, DelayOver,
                LinkRefused, RefreshSource
  <2>2. CASE LinkOpens(c)
    BY <2>2 DEF LinkOpens
  <2>3. QED
    BY <2>1, <2>2 DEF Begins
<1> HIDE DEF d
<1>4. call[c].at \in {"idle", "delay"}
  BY DEF Begins, RefreshTimer, GraceTimer, HeartbeatTimer, RotationEvent, LinkOpens,
         DelayOver, LinkRefused, IdleCalls
<1>5. \A src \in RefreshSource : Sent(src).at = "sent" /\ Sent(src).src = src
  BY <1>1, SentFacts
<1>6. QED
  BY <1>1, <1>2, <1>3, <1>4, <1>5, IdleFacts DEF OthersKept

LEMMA RefreshTimerCall ==
  ASSUME TypeOK, NEW c \in Calls, RefreshTimer(c)
  PROVE  Active(c, "scheduled")'
<1>1. now \in Nat /\ key \in Nat /\ call \in [Calls -> CallType]
  BY DEF TypeOK, ServerTypes, KeyTypes, CallTypes
<1>2. Sent("scheduled").at = "sent" /\ Sent("scheduled").src = "scheduled"
  BY <1>1, SentFacts DEF RefreshSource
<1>3. call'[c] = Sent("scheduled")
  BY <1>1 DEF RefreshTimer
<1>4. QED
  BY <1>2, <1>3 DEF Active

(* Only a reconnect waits before it asks the vault. *)
DelayInv == \A c \in Calls : call[c].at = "delay" => call[c].src = "reconnect"

(* The steps that no refresh call takes part in. *)
Background == Rotate \/ ManualRotate \/ Revoke \/ Tick \/ LinkDrops \/ UNCHANGED vars

LEMMA BackgroundKeeps ==
  ASSUME Background
  PROVE  UNCHANGED <<call, refreshAt, graceAt, beatAt, isRunning, started>>
BY DEF Background, Rotate, ManualRotate, Revoke, NewKey, Tick, LinkDrops, vars, timerVars

LEMMA StepCases ==
  ASSUME [Next]_vars
  PROVE  \/ Background \/ Stop
         \/ \E c \in Calls : \/ Answer(c) \/ Lose(c) \/ Resumes(c)
                             \/ Begins(c)
BY DEF Next, Background, Begins, Resumes

LEMMA DelayStep ==
  ASSUME TypeOK, DelayInv, [Next]_vars
  PROVE  DelayInv'
<1>1. CASE Background
  BY <1>1, BackgroundKeeps DEF DelayInv
<1>2. CASE Stop
  BY <1>2 DEF Stop, DelayInv
<1>3. ASSUME NEW c \in Calls, Answer(c) \/ Lose(c) PROVE DelayInv'
  BY <1>3, AnswerCalls DEF DelayInv, OthersKept
<1>4. ASSUME NEW c \in Calls, Resumes(c) PROVE DelayInv'
  BY <1>4, ResumeCalls, IdleFacts DEF DelayInv, OthersKept
<1>5. ASSUME NEW c \in Calls, Begins(c) PROVE DelayInv'
  BY <1>5, BeginCalls DEF DelayInv, OthersKept
<1>6. QED
  BY <1>1, <1>2, <1>3, <1>4, <1>5, StepCases

LEMMA InitCalls ==
  ASSUME Init
  PROVE  /\ DelayInv
         /\ \A c, d \in Calls : Active(c, "start") /\ Active(d, "start") => c = d
<1>1. PICK c \in Calls : call = [d \in Calls |-> IF d = c THEN Sent("start") ELSE Idle]
  BY DEF Init
<1>2. Sent("start").at = "sent"
  BY DEF Sent, Idle
<1>3. QED
  BY <1>1, <1>2, IdleFacts DEF DelayInv, Active
-----------------------------------------------------------------------------
(* The chain of scheduled refreshes. *)
LEMMA RenewResume ==
  ASSUME TypeOK, DelayInv, RenewalNeverStops, NEW c \in Calls,
         Resumes(c)
  PROVE  RenewalNeverStops'
<1>1. PICK m \in Meta, bound \in BOOLEAN : Schedule(c, m, bound)
  BY ResumeMeta
<1>2. isRunning' = isRunning
  BY ResumeKeeps
<1>3. OthersKept(c) /\ call'[c] = Idle
  BY ResumeCalls DEF Resumes
<1>4. CASE ReArmed(c, bound)
  <2>1. NextRefresh(m) \in Nat
    BY NextRefreshFacts DEF TypeOK, ServerTypes
  <2>2. isRunning => refreshAt' = NextRefresh(m)
    BY <1>1, <1>4 DEF Schedule, ArmRefresh
  <2>3. QED
    BY <1>2, <2>1, <2>2, Constants DEF RenewalNeverStops
<1>5. CASE ~ReArmed(c, bound)
  <2>1. call[c].src \notin {"start", "scheduled"}
    BY <1>5 DEF ReArmed
  <2>2. refreshAt' = refreshAt /\ (started' <=> started)
    BY <1>1, <1>5, <2>1 DEF Schedule
  <2>3. \A d \in Calls : call[d].at # "idle" /\ call[d].src = "scheduled"
          => call'[d] = call[d]
    BY <1>3, <2>1 DEF OthersKept
  <2>4. QED
    BY <1>2, <2>2, <2>3 DEF RenewalNeverStops
<1>6. QED
  BY <1>4, <1>5

LEMMA RenewBegin ==
  ASSUME TypeOK, DelayInv, RenewalNeverStops, NEW c \in Calls, Begins(c)
  PROVE  RenewalNeverStops'
<1>1. CASE RefreshTimer(c)
  BY <1>1, RefreshTimerCall DEF Active, RenewalNeverStops
<1>2. CASE ~RefreshTimer(c)
  <2>1. UNCHANGED <<refreshAt, isRunning, started>>
    BY <1>2 DEF Begins, GraceTimer, HeartbeatTimer, RotationEvent, LinkOpens, DelayOver,
                LinkRefused, timerVars
  <2>2. OthersKept(c) /\ call[c].at \in {"idle", "delay"}
    BY BeginCalls
  <2>3. \A d \in Calls : call[d].at # "idle" /\ call[d].src = "scheduled"
          => call'[d] = call[d]
    BY <2>2 DEF OthersKept, DelayInv
  <2>4. QED
    BY <2>1, <2>3 DEF RenewalNeverStops
<1>3. QED
  BY <1>1, <1>2

LEMMA RenewStep ==
  ASSUME TypeOK, DelayInv, RenewalNeverStops, [Next]_vars
  PROVE  RenewalNeverStops'
<1>1. CASE Background
  BY <1>1, BackgroundKeeps DEF RenewalNeverStops
<1>2. CASE Stop
  BY <1>2 DEF Stop, RenewalNeverStops
<1>3. ASSUME NEW c \in Calls, Answer(c) \/ Lose(c) PROVE RenewalNeverStops'
  <2>1. UNCHANGED <<refreshAt, isRunning, started>>
    BY <1>3 DEF Answer, Lose, timerVars
  <2>2. \A d \in Calls : call[d].at # "idle" /\ call[d].src = "scheduled"
          => call'[d].at # "idle" /\ call'[d].src = "scheduled"
    BY <1>3, AnswerCalls DEF OthersKept
  <2>3. QED
    BY <2>1, <2>2 DEF RenewalNeverStops
<1>4. QED
  BY <1>1, <1>2, <1>3, RenewResume, RenewBegin, StepCases

(* Once the service has started a scheduled refresh is armed or on its way, for any
   number of overlapping calls, any pattern of failures and any announced times. *)
THEOREM RenewalHolds == Spec => []RenewalNeverStops
<1>1. Init => DelayInv /\ RenewalNeverStops
  BY InitCalls DEF Init, RenewalNeverStops
<1>2. TypeOK /\ DelayInv /\ RenewalNeverStops /\ [Next]_vars
        => (DelayInv /\ RenewalNeverStops)'
  BY DelayStep, RenewStep
<1>3. QED
  BY <1>1, <1>2, TypeCorrect, PTL DEF Spec
-----------------------------------------------------------------------------
(* After the stop.  The heartbeat is armed by the first call alone, which has ended
   before the service can be stopped. *)
StartInv == /\ \A c, d \in Calls : Active(c, "start") /\ Active(d, "start") => c = d
            /\ \A c \in Calls : Active(c, "start") => ~started
            /\ ~isRunning => started
            /\ DelayInv

LEMMA StartKept ==
  ASSUME StartInv, UNCHANGED <<isRunning, started>>,
         \A c \in Calls : Active(c, "start")' => Active(c, "start")
  PROVE  /\ \A c, d \in Calls : Active(c, "start")' /\ Active(d, "start")' => c = d
         /\ \A c \in Calls : Active(c, "start")' => ~started'
         /\ ~isRunning' => started'
BY DEF StartInv

LEMMA StartStep ==
  ASSUME TypeOK, StartInv, [Next]_vars
  PROVE  StartInv'
<1>0. DelayInv'
  BY DelayStep DEF StartInv
<1>1. CASE Background
  BY <1>0, <1>1, BackgroundKeeps, StartKept DEF StartInv, Active
<1>2. CASE Stop
  BY <1>0, <1>2 DEF Stop, StartInv, Active
<1>3. ASSUME NEW c \in Calls, Answer(c) \/ Lose(c) PROVE StartInv'
  <2>1. UNCHANGED <<isRunning, started>>
    BY <1>3 DEF Answer, Lose
  <2>2. \A d \in Calls : Active(d, "start")' => Active(d, "start")
    BY <1>3, AnswerCalls DEF OthersKept, Active
  <2>3. QED
    BY <1>0, <2>1, <2>2, StartKept DEF StartInv
<1>4. ASSUME NEW c \in Calls, Begins(c) PROVE StartInv'
  <2>1. UNCHANGED <<isRunning, started>>
    BY <1>4 DEF Begins, RefreshTimer, GraceTimer, HeartbeatTimer, RotationEvent, LinkOpens,
                DelayOver, LinkRefused
  <2>2. \A d \in Calls : Active(d, "start")' => Active(d, "start")
    BY <1>4, BeginCalls DEF OthersKept, Active
  <2>3. QED
    BY <1>0, <2>1, <2>2, StartKept DEF StartInv
<1>5. ASSUME NEW c \in Calls, Resumes(c) PROVE StartInv'
  <2>1. isRunning' = isRunning
    BY <1>5, ResumeKeeps
  <2>2. OthersKept(c) /\ call'[c] = Idle /\ call[c].at # "idle"
    BY <1>5, ResumeCalls
  <2>3. started' = (started \/ call[c].src = "start")
    BY <1>5, ResumeKeeps DEF Schedule
  <2>4. \A d \in Calls : Active(d, "start")' => d # c /\ Active(d, "start")
    BY <2>2, IdleFacts DEF OthersKept, Active
  <2>5. \A d \in Calls : Active(d, "start")' => ~started'
    BY <2>2, <2>3, <2>4 DEF StartInv, Active
  <2>6. QED
    BY <1>0, <2>1, <2>3, <2>4, <2>5 DEF StartInv
<1>6. QED
  BY <1>1, <1>2, <1>3, <1>4, <1>5, StepCases

LEMMA QuietStep ==
  ASSUME TypeOK, StartInv, StoppedIsQuiet, [Next]_vars
  PROVE  StoppedIsQuiet'
<1>0. now # None
  <2>1. now \in Nat
    BY DEF TypeOK, ServerTypes
  <2>2. QED
    BY <2>1, Constants
<1>1. CASE Background
  BY <1>1, BackgroundKeeps DEF StoppedIsQuiet
<1>2. CASE Stop
  BY <1>2 DEF Stop, StoppedIsQuiet
<1>3. ASSUME NEW c \in Calls, Answer(c) \/ Lose(c) PROVE StoppedIsQuiet'
  BY <1>3 DEF Answer, Lose, timerVars, StoppedIsQuiet
<1>4. ASSUME NEW c \in Calls, Begins(c) PROVE StoppedIsQuiet'
  <2>1. CASE RefreshTimer(c) \/ GraceTimer(c) \/ HeartbeatTimer(c)
    BY <1>0, <2>1 DEF RefreshTimer, GraceTimer, HeartbeatTimer, StoppedIsQuiet
  <2>2. CASE RotationEvent(c) \/ LinkOpens(c) \/ DelayOver(c) \/ LinkRefused(c)
    BY <2>2 DEF RotationEvent, LinkOpens, DelayOver, LinkRefused, timerVars, StoppedIsQuiet
  <2>3. QED
    BY <1>4, <2>1, <2>2 DEF Begins
<1>5. ASSUME NEW c \in Calls, Resumes(c) PROVE StoppedIsQuiet'
  <2> SUFFICES ASSUME ~isRunning
               PROVE  refreshAt' = None /\ graceAt' = None /\ beatAt' = None
    BY <1>5, ResumeKeeps DEF StoppedIsQuiet
  <2>1. started /\ refreshAt = None /\ graceAt = None /\ beatAt = None
    BY DEF StartInv, StoppedIsQuiet
  <2>2. call[c].src # "start"
    BY <1>5, <2>1, ResumeCalls DEF StartInv, Active
  <2>3. PICK m \in Meta, bound \in BOOLEAN : Schedule(c, m, bound)
    BY <1>5, ResumeMeta
  <2>4. refreshAt' = None /\ graceAt' = None
    BY <2>1, <2>3 DEF Schedule, ArmRefresh, ArmGrace
  <2>5. beatAt' = None
    BY <2>1, <2>2, <2>3 DEF Schedule
  <2>6. QED
    BY <2>4, <2>5
<1>6. QED
  BY <1>1, <1>2, <1>3, <1>4, <1>5, StepCases

(* Once the service is stopped no timer is armed again, whatever calls are still in
   flight and however they end. *)
THEOREM QuietAfterStop == Spec => []StoppedIsQuiet
<1>1. Init => StartInv /\ StoppedIsQuiet
  BY InitCalls DEF Init, StartInv, StoppedIsQuiet
<1>2. TypeOK /\ StartInv /\ StoppedIsQuiet /\ [Next]_vars => (StartInv /\ StoppedIsQuiet)'
  BY StartStep, QuietStep
<1>3. QED
  BY <1>1, <1>2, TypeCorrect, PTL DEF Spec
-----------------------------------------------------------------------------
(* The key stays valid; this is about a vault that rotates by schedule.  A call ends within
   Latency ticks, and what the vault announces is at most a period away. *)
Known(m) == \/ m.next = None /\ m.grace = None
            \/ m.next \in Nat /\ m.next <= now + Period
OnTime(c) == /\ Known(call[c].meta)
             /\ call[c].at # "idle" =>
                  call[c].since <= now /\ now <= call[c].since + Latency
Clock == /\ lost <= MaxLost
         /\ nextRotation <= now + Period
         /\ Known(meta) /\ \A c \in Calls : OnTime(c)

(* Until the service has started its first call is on its way. *)
Chained(c) == call[c].at # "idle" /\ call[c].src \in {"start", "scheduled"}
Starting   == ~started => \E c \in Calls : Active(c, "start")

(* The key is the vault's, or its grace period ends after t. *)
Lasts(k, t) == k = serverKey \/ t < expiry[k]

(* Products of naturals, kept away from the arithmetic of the steps. *)
LEMMA Products ==
  ASSUME NEW n \in Nat, NEW x \in Nat
  PROVE  n * x \in Nat /\ (n + 1) * x = n * x + x
OBVIOUS

LEMMA ProductsGrow ==
  ASSUME NEW m \in Nat, NEW n \in Nat, m <= n, NEW x \in Nat
  PROVE  m * x <= n * x
<1>1. n - m \in Nat /\ n = m + (n - m)
  OBVIOUS
<1>2. PICK d \in Nat : n = m + d
  BY <1>1
<1>3. (m + d) * x = m * x + d * x
  OBVIOUS
<1>4. d * x \in Nat /\ m * x \in Nat
  BY Products
<1>5. QED
  BY <1>2, <1>3, <1>4

(* What the steps do to a call, in full. *)
LEMMA CallFields ==
  ASSUME TypeOK, NEW c \in Calls
  PROVE  /\ call[c] \in CallType /\ call[c].since \in Nat /\ call[c].key \in 0..serverKey
         /\ call[c].meta \in Meta /\ now \in Nat /\ Latency \in Nat
BY Constants DEF TypeOK, CallTypes, CallType, ServerTypes

LEMMA AnswerCall ==
  ASSUME TypeOK, NEW c \in Calls, Answer(c)
  PROVE  /\ OthersKept(c) /\ call[c].at = "sent"
         /\ call'[c].since = call[c].since /\ call'[c].src = call[c].src
         /\ \/ /\ call'[c].at = "answered" /\ call'[c].key = serverKey
               /\ call'[c].meta = [next |-> nextRotation, grace |-> GraceExpires]
            \/ /\ call'[c].at = "refused" /\ ~Valid(call[c].key)
               /\ call'[c].meta = call[c].meta
<1> DEFINE m == [next |-> nextRotation, grace |-> GraceExpires]
           a == [call[c] EXCEPT !.at = "answered", !.key = serverKey, !.meta = m]
           r == [call[c] EXCEPT !.at = "refused"]
<1>1. \/ call' = [call EXCEPT ![c] = a]
      \/ call' = [call EXCEPT ![c] = r] /\ ~Valid(call[c].key)
  BY DEF Answer
<1> HIDE DEF m
<1>2. /\ a.at = "answered" /\ a.src = call[c].src /\ a.since = call[c].since
      /\ a.key = serverKey /\ a.meta = m
      /\ r.at = "refused" /\ r.src = call[c].src /\ r.since = call[c].since
      /\ r.meta = call[c].meta
  BY CallFields DEF CallType
<1> HIDE DEF a, r
<1>3. call \in [Calls -> CallType] /\ call[c].at = "sent"
  BY DEF TypeOK, CallTypes, Answer
<1>4. QED
  BY <1>1, <1>2, <1>3 DEF OthersKept, m

LEMMA LoseCall ==
  ASSUME TypeOK, NEW c \in Calls, Lose(c)
  PROVE  /\ OthersKept(c) /\ call[c].at = "sent" /\ call'[c].at \in {"failed", "skipped"}
         /\ call'[c].since = call[c].since /\ call'[c].src = call[c].src
         /\ call'[c].meta = call[c].meta
<1> DEFINE f == [call[c] EXCEPT !.at = "failed"]
           n == [call[c] EXCEPT !.at = "skipped"]
<1>1. call' = [call EXCEPT ![c] = f] \/ call' = [call EXCEPT ![c] = n]
  BY DEF Lose
<1>2. /\ f.at = "failed" /\ f.src = call[c].src /\ f.since = call[c].since
      /\ f.meta = call[c].meta
      /\ n.at = "skipped" /\ n.src = call[c].src /\ n.since = call[c].since
      /\ n.meta = call[c].meta
  BY CallFields DEF CallType
<1> HIDE DEF f, n
<1>3. call \in [Calls -> CallType] /\ call[c].at = "sent"
  BY DEF TypeOK, CallTypes, Lose
<1>4. QED
  BY <1>1, <1>2, <1>3 DEF OthersKept

LEMMA BeginCall ==
  ASSUME TypeOK, NEW c \in Calls, Begins(c)
  PROVE  /\ OthersKept(c)
         /\ call'[c].at \in {"idle", "delay", "sent"} /\ call'[c].meta = NoMeta
         /\ call'[c].at # "idle" => call'[c].since = now
         /\ call'[c].at = "sent" => call'[c].key = key
         /\ Chained(c)' => RefreshTimer(c)
<1>1. call \in [Calls -> CallType]
  BY DEF TypeOK, CallTypes
<1> DEFINE d == [Idle EXCEPT !.at = "delay", !.src = "reconnect", !.since = now]
<1>2. d.at = "delay" /\ d.src = "reconnect" /\ d.since = now /\ d.meta = NoMeta
  BY DEF Idle
<1>3. \/ call' = [call EXCEPT ![c] = Idle]
      \/ \E src \in RefreshSource \ {"start"} :
           /\ call' = [call EXCEPT ![c] = Sent(src)]
           /\ src = "scheduled" => RefreshTimer(c)
      \/ call' = [call EXCEPT ![c] = d]
  <2>1. CASE RefreshTimer(c)
    BY <2>1 DEF RefreshTimer, RefreshSource
  <2>2. CASE \/ GraceTimer(c) \/ HeartbeatTimer(c) \/ RotationEvent(c) \/ DelayOver(c)
             \/ LinkRefused(c)
    BY <2>2 DEF GraceTimer, HeartbeatTimer, RotationEvent, DelayOver, LinkRefused,
                RefreshSource
  <2>3. CASE LinkOpens(c)
    BY <2>3 DEF LinkOpens
  <2>4. QED
    BY <2>1, <2>2, <2>3 DEF Begins
<1> HIDE DEF d
<1>4. \A src \in RefreshSource : /\ Sent(src).at = "sent" /\ Sent(src).src = src
                                 /\ Sent(src).since = now /\ Sent(src).key = key
                                 /\ Sent(src).meta = NoMeta
  BY DEF Sent, Idle
<1>5. Idle.at = "idle" /\ Idle.meta = NoMeta
  BY DEF Idle
<1>6. QED
  BY <1>1, <1>2, <1>3, <1>4, <1>5 DEF OthersKept, Chained
-----------------------------------------------------------------------------
(* The clock. *)
LEMMA NoMetaKnown == NoMeta \in Meta /\ Known(NoMeta) /\ Known(NoMeta)'
BY DEF Known, NoMeta, Meta, Time

LEMMA ClockBackground ==
  ASSUME Scheduled, Types, Clock, Background \/ Stop
  PROVE  Clock'
<1> USE DEF Types, Clock
<1>1. /\ now \in Nat /\ Period \in Nat /\ nextRotation \in Nat
  BY Constants DEF TypeOK, ServerTypes, Announces
<1>2. \A c \in Calls : call[c].since \in Nat /\ Latency \in Nat
  BY CallFields
<1>3. CASE Rotate \/ ManualRotate \/ Revoke
  <2>1. UNCHANGED <<now, lost, meta, call>> /\ nextRotation' = now + Period
    BY <1>3 DEF Rotate, ManualRotate, Revoke, NewKey, keyVars
  <2>2. QED
    BY <1>1, <2>1 DEF OnTime, Known
<1>4. CASE LinkDrops \/ UNCHANGED vars \/ Stop
  <2>1. UNCHANGED <<now, lost, meta, call, nextRotation>>
    BY <1>4 DEF LinkDrops, Stop, vars, keyVars, serverVars
  <2>2. QED
    BY <2>1 DEF OnTime, Known
<1>5. CASE Tick
  <2>1. now' = now + 1 /\ UNCHANGED <<lost, meta, call, nextRotation>>
    BY <1>5 DEF Tick, keyVars, serverVars
  <2>2. \A m \in Meta : Known(m) => Known(m)'
    BY <1>1, <2>1 DEF Known
  <2>3. meta \in Meta /\ \A c \in Calls : call[c].meta \in Meta
    BY CallFields DEF TypeOK, KeyTypes
  <2>4. Known(meta)' /\ \A c \in Calls : Known(call[c].meta)'
    <3>1. Known(meta)'
      BY <1>1, <2>1, <2>3 DEF Known
    <3>2. ASSUME NEW c \in Calls PROVE Known(call[c].meta)'
      <4>1. Known(call[c].meta)
        BY DEF OnTime
      <4>2. QED
        BY <1>1, <2>1, <4>1 DEF Known
    <3>3. QED
      BY <3>1, <3>2
  <2>5. ASSUME NEW c \in Calls, call[c].at # "idle"
        PROVE  call[c].since <= now' /\ now' <= call[c].since + Latency
    <3>1. ~(now >= call[c].since + Latency)
      BY <1>5, <2>5 DEF Tick, Due
    <3>2. call[c].since <= now
      BY <2>5 DEF OnTime
    <3>3. QED
      BY <1>1, <1>2, <2>1, <3>1, <3>2
  <2>6. nextRotation' <= now' + Period
    BY <1>1, <2>1
  <2>7. QED
    BY <2>1, <2>4, <2>5, <2>6 DEF OnTime
<1>6. QED
  BY <1>3, <1>4, <1>5 DEF Background

(* A step of a call, while the clock stands still. *)
LEMMA ClockCall ==
  ASSUME Types, Clock, NEW c \in Calls, OthersKept(c), OnTime(c)',
         UNCHANGED <<now, nextRotation>>, lost' <= MaxLost, Known(meta)'
  PROVE  Clock'
<1>1. ASSUME NEW d \in Calls \ {c} PROVE OnTime(d)'
  BY <1>1 DEF Clock, OthersKept, OnTime, Known
<1>2. QED
  BY <1>1 DEF Clock

LEMMA ClockResume ==
  ASSUME Scheduled, Types, Clock, NEW c \in Calls, Resumes(c)
  PROVE  Clock'
<1>1. Known(call[c].meta) /\ Known(meta)
  BY DEF Clock, OnTime
<1>2. OthersKept(c) /\ call'[c] = Idle
  BY ResumeCalls DEF Types
<1>3. UNCHANGED <<now, nextRotation, lost>>
  BY ResumeKeeps DEF serverVars
<1>4. OnTime(c)'
  BY <1>2, NoMetaKnown DEF OnTime, Idle
<1>5. Known(meta)'
  BY <1>1, <1>3, MetaAfter DEF Known
<1>6. QED
  BY <1>2, <1>3, <1>4, <1>5, ClockCall DEF Clock

LEMMA ClockBegin ==
  ASSUME Types, Clock, NEW c \in Calls, Begins(c)
  PROVE  Clock'
<1>1. UNCHANGED <<now, nextRotation, lost, meta>>
  BY DEF Begins, RefreshTimer, GraceTimer, HeartbeatTimer, RotationEvent, LinkOpens,
         DelayOver, LinkRefused, serverVars, keyVars, timerVars
<1>2. /\ OthersKept(c) /\ call'[c].meta = NoMeta
      /\ call'[c].at # "idle" => call'[c].since = now
  BY BeginCall DEF Types
<1>3. now \in Nat /\ Latency \in Nat
  BY CallFields DEF Types
<1>4. OnTime(c)'
  BY <1>1, <1>2, <1>3, NoMetaKnown DEF OnTime
<1>5. Known(meta)'
  BY <1>1 DEF Clock, Known
<1>6. QED
  BY <1>1, <1>2, <1>4, <1>5, ClockCall DEF Clock

LEMMA ClockAnswer ==
  ASSUME Scheduled, Types, Clock, NEW c \in Calls, Answer(c) \/ Lose(c)
  PROVE  Clock'
<1>1. UNCHANGED <<now, nextRotation, meta>>
  BY DEF Answer, Lose, serverVars, keyVars
<1>2. lost' <= MaxLost
  <2>1. lost \in Nat /\ unsaved \in Nat /\ MaxLost \in Nat
    BY TicksAssumption DEF Types, TypeOK, ServerTypes, KeyTypes
  <2>2. QED
    BY <2>1 DEF Answer, Lose, Clock
<1>3. /\ OthersKept(c) /\ call[c].at = "sent" /\ call'[c].since = call[c].since
      /\ \/ call'[c].meta = [next |-> nextRotation, grace |-> GraceExpires]
         \/ call'[c].meta = call[c].meta
  BY AnswerCall, LoseCall DEF Types
<1>4. nextRotation \in Nat /\ nextRotation <= now + Period
  BY DEF Types, Announces, Clock
<1>5. Known(call[c].meta) /\ call[c].since <= now /\ now <= call[c].since + Latency
  BY <1>3 DEF Clock, OnTime
<1>6. OnTime(c)'
  BY <1>1, <1>3, <1>4, <1>5 DEF OnTime, Known
<1>7. Known(meta)'
  BY <1>1 DEF Clock, Known
<1>8. QED
  BY <1>1, <1>2, <1>3, <1>6, <1>7, ClockCall DEF Clock

LEMMA ClockStep ==
  ASSUME Scheduled, Types, Clock, [Next]_vars
  PROVE  Clock'
BY ClockBackground, ClockResume, ClockBegin, ClockAnswer, StepCases

LEMMA StartingStep ==
  ASSUME TypeOK, DelayInv, Starting, [Next]_vars
  PROVE  Starting'
<1>1. CASE Background
  BY <1>1, BackgroundKeeps DEF Starting, Active
<1>2. CASE Stop
  BY <1>2 DEF Stop, Starting
<1>3. ASSUME NEW c \in Calls, Answer(c) \/ Lose(c) PROVE Starting'
  <2>1. started' = started
    BY <1>3 DEF Answer, Lose
  <2>2. \A d \in Calls : Active(d, "start") => Active(d, "start")'
    BY <1>3, AnswerCalls DEF OthersKept, Active
  <2>3. QED
    BY <2>1, <2>2 DEF Starting
<1>4. ASSUME NEW c \in Calls, Resumes(c) PROVE Starting'
  <2>1. OthersKept(c) /\ started' = (started \/ call[c].src = "start")
    BY <1>4, ResumeCalls, ResumeKeeps DEF Schedule
  <2>2. QED
    BY <2>1 DEF Starting, Active, OthersKept
<1>5. ASSUME NEW c \in Calls, Begins(c) PROVE Starting'
  <2>1. started' = started
    BY <1>5 DEF Begins, RefreshTimer, GraceTimer, HeartbeatTimer, RotationEvent, LinkOpens,
                DelayOver, LinkRefused
  <2>2. \A d \in Calls : Active(d, "start") => Active(d, "start")'
    BY <1>5, BeginCalls DEF OthersKept, Active, DelayInv
  <2>3. QED
    BY <2>1, <2>2 DEF Starting
<1>6. QED
  BY <1>1, <1>2, <1>3, <1>4, <1>5, StepCases
-----------------------------------------------------------------------------
(* The key outlasts what is armed and what is on its way. *)
LEMMA ServerFacts ==
  ASSUME TypeOK
  PROVE  /\ serverKey \in Nat /\ now \in Nat /\ key \in 0..serverKey
         /\ \A k \in 0..serverKey : k # serverKey => expiry[k] \in Nat
         /\ Latency \in Nat /\ Grace \in Nat
         /\ refreshAt # None => refreshAt \in Nat /\ refreshAt >= now
<1>1. serverKey \in Nat /\ expiry \in [0..serverKey-1 -> Nat]
  BY DEF TypeOK, ServerTypes
<1>2. \A k \in 0..serverKey : k # serverKey => k \in 0..serverKey-1
  BY <1>1
<1>3. QED
  BY <1>1, <1>2, Constants, TimersSplit DEF TypeOK, ServerTypes, KeyTypes

LEMMA LastsEarlier ==
  ASSUME TypeOK, NEW k \in 0..serverKey, NEW s \in Int, NEW t \in Int, s <= t, Lasts(k, t)
  PROVE  Lasts(k, s)
BY ServerFacts DEF Lasts

LEMMA LastsValid ==
  ASSUME TypeOK, NEW k \in 0..serverKey, NEW t \in Int, now <= t, Lasts(k, t)
  PROVE  Valid(k)
BY ServerFacts DEF Lasts, Valid

(* A rotation leaves the key that was current its grace period. *)
LEMMA LastsRotated ==
  ASSUME TypeOK, NewKey(Grace), NEW k \in 0..serverKey, NEW t \in Int, t < now + Grace,
         Lasts(k, t)
  PROVE  Lasts(k, t)'
BY ServerFacts DEF Lasts, NewKey

LEMMA LastsKept ==
  ASSUME UNCHANGED <<serverKey, expiry>>, NEW k, NEW t
  PROVE  Lasts(k, t)' <=> Lasts(k, t)
BY DEF Lasts
-----------------------------------------------------------------------------
(* Short grace periods.  Until an operator rotates the key (manual = 0) the grace period need not
   outlast a period: a key that was replaced is noticed by the refresh armed for the rotation, by
   the refresh that an old answer arms at once, or by the heartbeat, which sees that the rotation
   the agent expected is over.  How long that takes, ... *)
Wait == Later(MinRefresh, StaleAfter + Heartbeat)

(* ... how long if no answer has told the agent about the schedule, and what a bind that is lost
   costs then. *)
Slow  == Later(Wait, Fallback)
Share == (MaxLost - lost) * (Slow + Latency)

(* The grace period of the vault has room for every bind that can be lost, and for one refresh
   and the calls that overlap with it. *)
Prompt == Grace <= Period /\ MaxLost * (Slow + Latency) + Wait + 4 * Latency < Grace

(* No operator has rotated the key, and every new key was saved. *)
Orderly == manual = 0 /\ unsaved = 0
Calm    == isRunning /\ Orderly

(* The grace periods end before the next rotation. *)
Expiring == \A k \in 0..serverKey-1 : expiry[k] <= nextRotation

(* What the agent was told of the next rotation: it is not later than the vault's, and over if the
   key told is no longer the vault's. *)
Announced(m) == m.next = None \/ (m.next \in Nat /\ m.next <= nextRotation)
Past(m)      == m.next = None \/ m.next <= now
Heard(c) == call[c].at = "answered" => call[c].meta.next \in Nat /\ Announced(call[c].meta)
OldNews(c) == call[c].at = "answered" /\ call[c].key # serverKey => Past(call[c].meta)
News == /\ Announced(meta) /\ \A c \in Calls : Heard(c)
        /\ Orderly => /\ key # serverKey => Past(meta)
                      /\ \A c \in Calls : OldNews(c)

LossNoted == \A c \in Calls : call[c].at \in {"failed", "skipped"} => lost > 0

(* Before the start has ended there is nothing but its call. *)
OnlyStart ==
  ~started => /\ refreshAt = None /\ graceAt = None /\ beatAt = None
              /\ ~event /\ link = "down"
              /\ \A c \in Calls : call[c].at # "idle" => call[c].src = "start"

BeatArmed == started /\ isRunning => beatAt \in Nat /\ beatAt <= now + Heartbeat

(* A refresh is armed for the rotation or for soon. *)
RefreshSoon ==
  Calm /\ refreshAt # None => \/ refreshAt <= nextRotation \/ refreshAt <= now + Wait
                              \/ lost > 0 /\ refreshAt <= now + Slow

(* The heartbeat is going to ask the vault, or does, because the rotation it expected is over and
   no event has told of it. *)
NextBeat   == Later(beatAt, expectedRotation + StaleAfter + Heartbeat)
Hopeful(c) == call[c].src = "heartbeat" /\ call[c].at \in {"sent", "answered"}
Beating ==
  /\ started /\ ~wsEventReceived /\ ~event
  /\ expectedRotation \in Nat /\ expectedRotation <= now
  /\ \/ Lasts(key, NextBeat + 3 * Latency + Share)
     \/ \E c \in Calls : Hopeful(c) /\ Lasts(key, call[c].since + 3 * Latency + Share)

(* The key outlasts what is armed and on its way, or the heartbeat comes first.  While a call has
   found no configuration to ask with, the fallback interval is what comes next. *)
Covered(t) == Lasts(key, t) \/ Beating
Skipping == \E c \in Calls : call[c].at = "skipped"
Delay == IF meta.next = None \/ Skipping THEN Slow ELSE Wait
Extra == IF Skipping THEN Slow ELSE 0
ArmedCovered == refreshAt # None => Covered(refreshAt + 2 * Latency + Share)
CallCovered(c) ==
  /\ Chained(c) => Covered(call[c].since + 2 * Latency + Share)
  /\ Chained(c) /\ call[c].at \in {"failed", "skipped"} =>
       Covered(call[c].since + 3 * Latency + Delay + Share)
  /\ call[c].at = "answered" =>
       Lasts(call[c].key, call[c].since + 4 * Latency + Wait + Extra + Share)
  /\ call[c].at = "sent" => Lasts(call[c].key, call[c].since + Latency)
  /\ call[c].at # "refused"
AllCovered == Calm => ArmedCovered /\ \A c \in Calls : CallCovered(c)

LEMMA DelayFacts ==
  /\ Wait \in Nat /\ Wait >= MinRefresh /\ Wait >= StaleAfter + Heartbeat
  /\ Slow \in Nat /\ Slow >= Wait /\ Slow >= Fallback
  /\ Delay \in Nat /\ Delay <= Slow /\ Delay >= Wait
  /\ Extra \in Nat /\ Extra <= Slow
  /\ MinRefresh \in Nat /\ StaleAfter \in Nat /\ Heartbeat \in Nat /\ Latency \in Nat
  /\ Fallback \in Nat /\ Grace \in Nat /\ Period \in Nat /\ MaxLost \in Nat
<1>1. /\ MinRefresh \in Nat /\ StaleAfter \in Nat /\ Heartbeat \in Nat /\ Latency \in Nat
      /\ Fallback \in Nat /\ Grace \in Nat /\ Period \in Nat /\ MaxLost \in Nat
  BY Constants, TicksAssumption
<1>2. Wait \in Nat /\ Wait >= MinRefresh /\ Wait >= StaleAfter + Heartbeat
  BY <1>1 DEF Wait, Later
<1>3. Slow \in Nat /\ Slow >= Wait /\ Slow >= Fallback
  BY <1>1, <1>2 DEF Slow, Later
<1>4. Delay \in Nat /\ Delay <= Slow /\ Delay >= Wait
  BY <1>2, <1>3 DEF Delay
<1>5. Extra \in Nat /\ Extra <= Slow
  BY <1>3 DEF Extra
<1>6. QED
  BY <1>1, <1>2, <1>3, <1>4, <1>5

LEMMA ShareFacts ==
  ASSUME Prompt, TypeOK, lost <= MaxLost
  PROVE  /\ Share \in Nat
         /\ Share + Wait + 4 * Latency < Grace
         /\ lost > 0 => Share + Slow + Wait + 5 * Latency < Grace
<1>1. lost \in Nat /\ MaxLost \in Nat /\ Latency \in Nat /\ Grace \in Nat
      /\ Wait \in Nat /\ Slow \in Nat
  BY DelayFacts DEF TypeOK, ServerTypes
<1> DEFINE x == Slow + Latency
           n == MaxLost - lost
           p == MaxLost * x
<1>2. x \in Nat /\ n \in Nat /\ n <= MaxLost /\ (lost > 0 => n + 1 <= MaxLost)
  BY <1>1
<1>3. p + Wait + 4 * Latency < Grace
  BY DEF Prompt
<1>4. Share = n * x
  BY DEF Share
<1> HIDE DEF n, x
<1>5. n * x \in Nat /\ n * x <= p /\ p \in Nat
  BY <1>1, <1>2, Products, ProductsGrow
<1>6. lost > 0 => n * x + x <= p
  <2> SUFFICES ASSUME lost > 0 PROVE n * x + x <= p
    OBVIOUS
  <2>1. n + 1 \in Nat /\ n + 1 <= MaxLost
    BY <1>2
  <2>2. (n + 1) * x <= p
    BY <1>1, <1>2, <2>1, ProductsGrow
  <2>3. QED
    BY <1>2, <2>2, Products
<1>7. x = Slow + Latency
  BY DEF x
<1> HIDE DEF p
<1>8. QED
  BY <1>1, <1>3, <1>4, <1>5, <1>6, <1>7

LEMMA ShareLost ==
  ASSUME TypeOK, lost < MaxLost, lost' = lost + 1
  PROVE  Share' \in Nat /\ Share = Share' + Slow + Latency
<1>1. lost \in Nat /\ MaxLost \in Nat /\ Latency \in Nat /\ Slow \in Nat
  BY DelayFacts DEF TypeOK, ServerTypes
<1> DEFINE n == MaxLost - (lost + 1)
           x == Slow + Latency
<1>2. n \in Nat /\ MaxLost - lost = n + 1 /\ x \in Nat
  BY <1>1
<1>3. Share' = n * x
  BY DEF Share, Slow, Wait
<1>4. Share = (n + 1) * x
  BY <1>2 DEF Share
<1> HIDE DEF n
<1>5. n * x \in Nat /\ (n + 1) * x = n * x + x
  BY <1>2, Products
<1>6. QED
  BY <1>1, <1>3, <1>4, <1>5
-----------------------------------------------------------------------------
(* What the vault does. *)
LEMMA ServerOnly ==
  ASSUME [Next]_vars
  PROVE  Rotate \/ ManualRotate \/ Revoke \/ UNCHANGED <<serverKey, expiry, nextRotation, manual>>
<1>1. ASSUME NEW c \in Calls, Answer(c) \/ Lose(c) \/ Resumes(c) \/ Begins(c)
      PROVE  UNCHANGED serverVars
  BY <1>1, ResumeKeeps DEF Answer, Lose, Begins, RefreshTimer, GraceTimer,
              HeartbeatTimer, RotationEvent, LinkOpens, DelayOver, LinkRefused
<1>2. Stop \/ Tick \/ LinkDrops \/ UNCHANGED vars => UNCHANGED serverVars
  BY DEF Stop, Tick, LinkDrops, vars
<1>3. QED
  BY <1>1, <1>2, StepCases DEF Background, serverVars

LEMMA ExpiringStep ==
  ASSUME Scheduled, Prompt, Types, Clock, Expiring, [Next]_vars
  PROVE  Expiring'
<1>1. /\ now \in Nat /\ serverKey \in Nat /\ nextRotation \in Nat /\ Grace \in Nat /\ Period \in Nat
      /\ nextRotation <= now + Period /\ expiry \in [0..serverKey-1 -> Nat] /\ Grace <= Period
  BY DelayFacts DEF Types, TypeOK, ServerTypes, Announces, Clock, Prompt
<1>2. ASSUME NEW grace \in Nat, grace <= Grace, NewKey(grace) PROVE Expiring'
  <2>1. serverKey' = serverKey + 1 /\ nextRotation' = now + Period
    BY <1>2 DEF NewKey
  <2> SUFFICES ASSUME NEW k \in 0..serverKey PROVE expiry'[k] <= now + Period
    BY <1>1, <2>1 DEF Expiring
  <2>2. expiry'[k] = IF k = serverKey THEN now + grace ELSE expiry[k]
    BY <1>2 DEF NewKey
  <2>3. k # serverKey => k \in 0..serverKey-1
    BY <1>1
  <2>4. k # serverKey => expiry[k] \in Nat /\ expiry[k] <= nextRotation
    BY <1>1, <2>3 DEF Expiring
  <2>5. QED
    BY <1>1, <1>2, <2>2, <2>4
<1>3. CASE Rotate \/ ManualRotate \/ Revoke
  BY <1>1, <1>2, <1>3 DEF Rotate, ManualRotate, Revoke
<1>4. CASE UNCHANGED <<serverKey, expiry, nextRotation>>
  BY <1>4 DEF Expiring
<1>5. QED
  BY <1>3, <1>4, ServerOnly

(* A save that fails ends the order for good. *)
LEMMA OrderlyResume ==
  ASSUME TypeOK, NEW c \in Calls, Resumes(c), unsaved' = 0
  PROVE  unsaved = 0 /\ (Refreshed(c) \/ RefreshFailed(c))
<1>1. unsaved \in Nat
  BY DEF TypeOK, KeyTypes
<1>2. unsaved = 0
  BY <1>1, ResumeKeeps
<1>3. ~(SaveFails(c) \/ SaveSkipped(c))
  BY <1>1, <1>2 DEF SaveFails, SaveSkipped, Unsaved
<1>4. QED
  BY <1>2, <1>3 DEF Resumes

LEMMA NewsCall ==
  ASSUME News, NEW c \in Calls, OthersKept(c), UNCHANGED <<now, serverKey, nextRotation>>,
         Orderly' => Orderly, Heard(c)', Orderly' => OldNews(c)',
         Announced(meta)', Orderly' => (key' # serverKey => Past(meta)')
  PROVE  News'
<1>1. ASSUME NEW d \in Calls \ {c} PROVE Heard(d)' /\ (Orderly' => OldNews(d)')
  BY <1>1 DEF News, OthersKept, Heard, OldNews, Announced, Past
<1>2. QED
  BY <1>1 DEF News

LEMMA NewsBackground ==
  ASSUME Scheduled, Types, Clock, News, Background \/ Stop
  PROVE  News'
<1>1. /\ now \in Nat /\ serverKey \in Nat /\ nextRotation \in Nat /\ Period \in Nat
      /\ nextRotation <= now + Period /\ manual \in Nat
  BY DelayFacts DEF Types, TypeOK, ServerTypes, Announces, Clock
<1>2. CASE Rotate \/ ManualRotate \/ Revoke
  <2>1. UNCHANGED <<now, meta, key, call, unsaved>> /\ nextRotation' = now + Period
        /\ serverKey' = serverKey + 1
    BY <1>2 DEF Rotate, ManualRotate, Revoke, NewKey, keyVars
  <2>2. \A m \in Meta : Announced(m) => m.next = None \/ (m.next \in Nat /\ m.next <= now + Period)
    BY <1>1 DEF Announced
  <2>3. meta \in Meta /\ \A c \in Calls : call[c].meta \in Meta
    BY CallFields DEF Types, TypeOK, KeyTypes
  <2>4. Announced(meta)' /\ \A c \in Calls : Heard(c)'
    BY <2>1, <2>2, <2>3 DEF News, Heard, Announced
  <2>5. CASE Rotate /\ Orderly
    <3>1. nextRotation = now
      BY <2>5 DEF Rotate
    <3>2. \A m \in Meta : Announced(m) => Past(m)
      BY <3>1 DEF Announced, Past
    <3>3. Past(meta) /\ \A c \in Calls : call[c].at = "answered" => Past(call[c].meta)
      BY <2>3, <3>2 DEF News, Heard
    <3>4. Past(meta)' /\ \A c \in Calls : OldNews(c)'
      BY <2>1, <3>3 DEF Past, OldNews
    <3>5. QED
      BY <2>4, <3>4 DEF News
  <2>6. CASE ~(Rotate /\ Orderly)
    <3>1. ~Orderly'
      <4>1. CASE Rotate
        BY <2>1, <2>6, <4>1 DEF Rotate, Orderly
      <4>2. CASE ManualRotate \/ Revoke
        BY <1>1, <4>2 DEF ManualRotate, Revoke, Orderly
      <4>3. QED
        BY <1>2, <4>1, <4>2
    <3>2. QED
      BY <2>4, <3>1 DEF News
  <2>7. QED
    BY <2>5, <2>6
<1>3. CASE LinkDrops \/ UNCHANGED vars \/ Stop
  <2>1. UNCHANGED <<now, meta, key, call, nextRotation, serverKey, manual, unsaved>>
    BY <1>3 DEF LinkDrops, Stop, vars, keyVars, serverVars
  <2>2. QED
    BY <2>1 DEF News, Heard, OldNews, Announced, Past, Orderly
<1>4. CASE Tick
  <2>1. UNCHANGED <<meta, key, call, nextRotation, serverKey, manual, unsaved>> /\ now' = now + 1
    BY <1>4 DEF Tick, keyVars, serverVars
  <2>2. \A m \in Meta : Past(m) => m.next = None \/ m.next <= now + 1
    BY <1>1, Constants DEF Past, Meta, Time
  <2>3. meta \in Meta /\ \A c \in Calls : call[c].meta \in Meta
    BY CallFields DEF Types, TypeOK, KeyTypes
  <2>4. (Past(meta) => Past(meta)') /\ \A c \in Calls : OldNews(c) => OldNews(c)'
    BY <2>1, <2>2, <2>3 DEF Past, OldNews
  <2>5. QED
    BY <2>1, <2>4 DEF News, Heard, Announced, Orderly
<1>5. QED
  BY <1>2, <1>3, <1>4 DEF Background

LEMMA NewsStep ==
  ASSUME Scheduled, Types, Clock, News, [Next]_vars
  PROVE  News'
<1> USE DEF Types
<1>1. ASSUME NEW c \in Calls, Answer(c) PROVE News'
  <2>1. UNCHANGED <<now, serverKey, nextRotation, manual, unsaved, meta, key>>
    BY <1>1 DEF Answer, serverVars, keyVars
  <2>2. /\ OthersKept(c)
        /\ call'[c].at = "answered" => /\ call'[c].key = serverKey
                                       /\ call'[c].meta.next = nextRotation
    BY <1>1, AnswerCall
  <2>3. nextRotation \in Nat
    BY DEF Announces
  <2>4. Heard(c)' /\ OldNews(c)'
    BY <2>1, <2>2, <2>3 DEF Heard, OldNews, Announced
  <2>5. Announced(meta)' /\ (Orderly' => (key' # serverKey => Past(meta)')) /\ (Orderly' => Orderly)
    BY <2>1 DEF News, Announced, Past, Orderly
  <2>6. QED
    BY <2>1, <2>2, <2>4, <2>5, NewsCall
<1>2. ASSUME NEW c \in Calls, Resumes(c) PROVE News'
  <2>1. UNCHANGED <<now, serverKey, nextRotation, manual>>
    BY <1>2, ResumeKeeps DEF serverVars
  <2>2. OthersKept(c) /\ call'[c].at = "idle"
    BY <1>2, ResumeCalls, IdleFacts
  <2>3. Announced(meta)'
    BY <1>2, <2>1, MetaAfter DEF News, Heard, Announced
  <2>4. Orderly' => Orderly /\ (Refreshed(c) \/ RefreshFailed(c))
    BY <1>2, <2>1, OrderlyResume DEF Orderly
  <2>5. Orderly' => (key' # serverKey => Past(meta)')
    <3>1. CASE Refreshed(c) /\ Orderly
      BY <2>1, <3>1 DEF Refreshed, Remember, News, OldNews, Past
    <3>2. CASE RefreshFailed(c) /\ Orderly
      BY <2>1, <3>2 DEF RefreshFailed, keyVars, News, Past
    <3>3. QED
      BY <2>4, <3>1, <3>2
  <2>6. Heard(c)' /\ OldNews(c)'
    BY <2>2 DEF Heard, OldNews
  <2>7. QED
    BY <2>1, <2>2, <2>3, <2>4, <2>5, <2>6, NewsCall
<1>3. ASSUME NEW c \in Calls, Lose(c) \/ Begins(c) PROVE News'
  <2>1. UNCHANGED <<now, serverKey, nextRotation, manual, unsaved, meta, key>>
    BY <1>3 DEF Lose, Begins, RefreshTimer, GraceTimer, HeartbeatTimer,
                RotationEvent, LinkOpens, DelayOver, LinkRefused, serverVars, keyVars
  <2>2. OthersKept(c) /\ call'[c].at # "answered"
    BY <1>3, LoseCall, BeginCall
  <2>3. Announced(meta)' /\ (Orderly' => (key' # serverKey => Past(meta)')) /\ (Orderly' => Orderly)
    BY <2>1 DEF News, Announced, Past, Orderly
  <2>4. QED
    BY <2>1, <2>2, <2>3, NewsCall DEF Heard, OldNews
<1>4. QED
  BY <1>1, <1>2, <1>3, NewsBackground, StepCases

LEMMA LossNotedStep ==
  ASSUME TypeOK, LossNoted, [Next]_vars
  PROVE  LossNoted'
<1>1. lost \in Nat
  BY DEF TypeOK, ServerTypes
<1>2. CASE Background \/ Stop
  <2>1. UNCHANGED <<call, lost>>
    BY <1>2 DEF Background, Rotate, ManualRotate, Revoke, NewKey, Tick, LinkDrops, Stop, vars
  <2>2. QED
    BY <2>1 DEF LossNoted
<1>3. ASSUME NEW c \in Calls, Lose(c) PROVE LossNoted'
  BY <1>1, <1>3 DEF Lose, LossNoted
<1>4. ASSUME NEW c \in Calls, Answer(c) \/ Resumes(c) \/ Begins(c)
      PROVE  LossNoted'
  <2>1. lost' = lost
    BY <1>4, ResumeKeeps DEF Answer, Begins, RefreshTimer, GraceTimer, HeartbeatTimer,
                RotationEvent, LinkOpens, DelayOver, LinkRefused
  <2>2. OthersKept(c) /\ call'[c].at \notin {"failed", "skipped"}
    BY <1>4, AnswerCall, ResumeCalls, IdleFacts, BeginCall
  <2>3. QED
    BY <2>1, <2>2 DEF LossNoted, OthersKept
<1>5. QED
  BY <1>2, <1>3, <1>4, StepCases
-----------------------------------------------------------------------------
(* What the agent does around its calls. *)
LEMMA OnlyStartStep ==
  ASSUME TypeOK, DelayInv, OnlyStart, [Next]_vars
  PROVE  OnlyStart'
<1>0. now # None
  BY Constants DEF TypeOK, ServerTypes
<1>1. CASE Background \/ Stop
  <2>1. started' = started /\ (~started' => UNCHANGED <<refreshAt, graceAt, beatAt, call>>)
    BY <1>1 DEF Background, Rotate, ManualRotate, Revoke, NewKey, Tick, LinkDrops, Stop,
                vars, timerVars
  <2>2. ~started' => ~event' /\ link' = "down"
    BY <1>1 DEF OnlyStart, Background, Rotate, ManualRotate, Revoke, NewKey, Tick, LinkDrops, Stop,
                vars, linkVars
  <2>3. QED
    BY <2>1, <2>2 DEF OnlyStart
<1>2. ASSUME NEW c \in Calls, Answer(c) \/ Lose(c) PROVE OnlyStart'
  <2>1. UNCHANGED <<started, refreshAt, graceAt, beatAt, event, link>>
    BY <1>2 DEF Answer, Lose, timerVars, linkVars
  <2>2. OthersKept(c) /\ call[c].at = "sent" /\ call'[c].src = call[c].src
    BY <1>2, AnswerCalls
  <2>3. QED
    BY <2>1, <2>2 DEF OnlyStart, OthersKept
<1>3. ASSUME NEW c \in Calls, Resumes(c) PROVE OnlyStart'
  <2>1. call[c].at # "idle" /\ started' = (started \/ call[c].src = "start")
    BY <1>3, ResumeKeeps, ResumeCalls DEF Schedule
  <2>2. started'
    BY <2>1 DEF OnlyStart
  <2>3. QED
    BY <2>2 DEF OnlyStart
<1>4. ASSUME NEW c \in Calls, Begins(c) PROVE OnlyStart'
  <2>1. started' = started
    BY <1>4 DEF Begins, RefreshTimer, GraceTimer, HeartbeatTimer, RotationEvent, LinkOpens,
                DelayOver, LinkRefused
  <2>2. CASE started
    BY <2>1, <2>2 DEF OnlyStart
  <2>3. CASE ~started
    <3>1. DelayOver(c)
      BY <1>0, <1>4, <2>3 DEF OnlyStart, Begins, RefreshTimer, GraceTimer, HeartbeatTimer,
                              RotationEvent, LinkOpens, LinkRefused
    <3>2. UNCHANGED <<refreshAt, graceAt, beatAt, event, link>> /\ call[c].at = "delay"
      BY <3>1 DEF DelayOver, timerVars, linkVars
    <3>3. call[c].src = "start"
      BY <2>3, <3>2 DEF OnlyStart
    <3>4. QED
      BY <3>2, <3>3 DEF DelayInv
  <2>4. QED
    BY <2>2, <2>3
<1>5. QED
  BY <1>1, <1>2, <1>3, <1>4, StepCases

LEMMA BeatArmedStep ==
  ASSUME TypeOK, BeatArmed, [Next]_vars
  PROVE  BeatArmed'
<1>0. now \in Nat /\ Heartbeat \in Nat /\ isRunning \in BOOLEAN
  BY DelayFacts DEF TypeOK, ServerTypes, FlagTypes
<1>1. CASE Tick
  <2>1. now' = now + 1 /\ UNCHANGED <<started, isRunning, beatAt>>
    BY <1>1 DEF Tick, timerVars
  <2>2. QED
    BY <1>0, <2>1 DEF BeatArmed
<1>2. CASE Stop
  BY <1>2 DEF Stop, BeatArmed
<1>3. CASE Rotate \/ ManualRotate \/ Revoke \/ LinkDrops \/ UNCHANGED vars
  <2>1. UNCHANGED <<now, started, isRunning, beatAt>>
    BY <1>3 DEF Rotate, ManualRotate, Revoke, NewKey, LinkDrops, vars, timerVars
  <2>2. QED
    BY <2>1 DEF BeatArmed
<1>4. ASSUME NEW c \in Calls, Answer(c) \/ Lose(c) PROVE BeatArmed'
  <2>1. UNCHANGED <<now, started, isRunning, beatAt>>
    BY <1>4 DEF Answer, Lose, timerVars
  <2>2. QED
    BY <2>1 DEF BeatArmed
<1>5. ASSUME NEW c \in Calls, Resumes(c) PROVE BeatArmed'
  <2>1. /\ UNCHANGED <<now, isRunning>> /\ started' = (started \/ call[c].src = "start")
        /\ beatAt' = IF call[c].src = "start" THEN now + Heartbeat ELSE beatAt
    BY <1>5, ResumeKeeps DEF Schedule
  <2>2. CASE call[c].src = "start"
    BY <1>0, <2>1, <2>2 DEF BeatArmed
  <2>3. CASE call[c].src # "start"
    <3>1. started' <=> started
      BY <2>1, <2>3
    <3>2. beatAt' = beatAt
      BY <2>1, <2>3
    <3>3. QED
      BY <2>1, <3>1, <3>2 DEF BeatArmed
  <2>4. QED
    BY <2>2, <2>3
<1>6. ASSUME NEW c \in Calls, Begins(c) PROVE BeatArmed'
  <2>1. UNCHANGED <<now, started, isRunning>> /\ beatAt' \in {beatAt, now + Heartbeat}
    BY <1>6 DEF Begins, RefreshTimer, GraceTimer, HeartbeatTimer, RotationEvent, LinkOpens,
                DelayOver, LinkRefused, timerVars
  <2>2. QED
    BY <1>0, <2>1 DEF BeatArmed
<1>7. QED
  BY <1>1, <1>2, <1>3, <1>4, <1>5, <1>6, StepCases DEF Background

LEMMA CalmBefore ==
  ASSUME TypeOK, [Next]_vars, Calm'
  PROVE  Calm
<1>1. manual \in Nat /\ unsaved \in Nat
  BY DEF TypeOK, ServerTypes, KeyTypes
<1>2. isRunning' => isRunning
  <2>1. CASE Background \/ Stop
    BY <2>1, BackgroundKeeps DEF Stop
  <2>2. ASSUME NEW c \in Calls,
               Answer(c) \/ Lose(c) \/ Resumes(c) \/ Begins(c)
        PROVE  isRunning' = isRunning
    BY <2>2, ResumeKeeps DEF Answer, Lose, Begins, RefreshTimer, GraceTimer,
                HeartbeatTimer, RotationEvent, LinkOpens, DelayOver, LinkRefused
  <2>3. QED
    BY <2>1, <2>2, StepCases
<1>3. manual' = 0 => manual = 0
  <2>1. Rotate \/ UNCHANGED <<serverKey, expiry, nextRotation, manual>> => manual' = manual
    BY DEF Rotate
  <2>2. ManualRotate \/ Revoke => manual' = manual + 1
    BY DEF ManualRotate, Revoke
  <2>3. manual' = manual \/ manual' = manual + 1
    BY <2>1, <2>2, ServerOnly
  <2>4. QED
    BY <1>1, <2>3
<1>4. unsaved' = 0 => unsaved = 0
  <2>1. CASE Background \/ Stop
    BY <2>1 DEF Background, Rotate, ManualRotate, Revoke, NewKey, Tick, LinkDrops, Stop, vars,
                keyVars
  <2>2. ASSUME NEW c \in Calls, Answer(c) \/ Lose(c) \/ Begins(c) PROVE unsaved' = unsaved
    BY <2>2 DEF Answer, Lose, Begins, RefreshTimer, GraceTimer, HeartbeatTimer, RotationEvent,
                LinkOpens, DelayOver, LinkRefused, keyVars
  <2>3. QED
    BY <2>1, <2>2, OrderlyResume, StepCases
<1>5. QED
  BY <1>2, <1>3, <1>4 DEF Calm, Orderly

(* When the next refresh is. *)
LEMMA NextSoon ==
  ASSUME Scheduled, Types, NEW m \in Meta, Known(m), Announced(m)
  PROVE  /\ NextRefresh(m) \in Nat
         /\ m.next \in Nat => NextRefresh(m) <= nextRotation \/ NextRefresh(m) <= now + Wait
         /\ m.next = None => NextRefresh(m) <= now + Slow
         /\ m.next \in Nat /\ Past(m) => NextRefresh(m) <= now + Wait
<1>1. /\ now \in Nat /\ RefreshBefore \in Nat /\ nextRotation \in Nat /\ None \notin Nat
  BY Constants DEF Types, TypeOK, ServerTypes, Announces
<1>2. NextRefresh(m) \in Nat
  BY <1>1, NextRefreshFacts
<1>3. CASE m.next = None
  <2>1. NextRefresh(m) = now + Fallback
    BY <1>1, <1>3 DEF Known, NextRefresh
  <2>2. QED
    BY <1>1, <1>2, <1>3, <2>1, DelayFacts
<1>4. CASE m.next \in Nat
  <2>1. NextRefresh(m) = Later(m.next - RefreshBefore, now + MinRefresh)
    BY <1>1, <1>4 DEF NextRefresh
  <2>2. m.next <= nextRotation /\ (Past(m) => m.next <= now)
    BY <1>1, <1>4 DEF Announced, Past
  <2> DEFINE x == m.next - RefreshBefore
             y == now + MinRefresh
  <2>3. x \in Int /\ y \in Nat /\ x <= nextRotation /\ y <= now + Wait
        /\ (m.next <= now => x <= now + Wait)
    BY <1>1, <1>4, <2>2, DelayFacts
  <2> HIDE DEF x, y
  <2>4. NextRefresh(m) = x \/ NextRefresh(m) = y
    BY <2>1 DEF Later, x, y
  <2>5. QED
    BY <1>1, <1>2, <1>4, <2>2, <2>3, <2>4
<1>5. QED
  BY <1>3, <1>4 DEF Announced

LEMMA RefreshSoonStep ==
  ASSUME Scheduled, Types, Clock, News, LossNoted, AllCovered, RefreshSoon, [Next]_vars
  PROVE  RefreshSoon'
<1> SUFFICES ASSUME Calm', refreshAt' # None
             PROVE  \/ refreshAt' <= nextRotation' \/ refreshAt' <= now' + Wait
                    \/ lost' > 0 /\ refreshAt' <= now' + Slow
  BY DEF RefreshSoon, Wait, Slow
<1>0. Calm
  BY CalmBefore DEF Types
<1> USE DEF Types
<1>1. /\ now \in Nat /\ nextRotation \in Nat /\ Period \in Nat /\ nextRotation <= now + Period
      /\ refreshAt # None => refreshAt \in Nat
      /\ lost \in Nat /\ Wait \in Nat /\ Slow \in Nat
  BY DelayFacts, ServerFacts DEF TypeOK, ServerTypes, Announces, Clock
<1>2. CASE UNCHANGED refreshAt
  <2>1. \/ refreshAt <= nextRotation \/ refreshAt <= now + Wait
        \/ lost > 0 /\ refreshAt <= now + Slow
    BY <1>0, <1>2 DEF RefreshSoon
  <2>2. now' \in Nat /\ now' >= now /\ nextRotation' \in Nat /\ nextRotation' >= nextRotation
        /\ lost' \in Nat /\ lost' >= lost
    <3>1. CASE Rotate \/ ManualRotate \/ Revoke
      BY <1>1, <3>1 DEF Rotate, ManualRotate, Revoke, NewKey
    <3>2. CASE Tick \/ LinkDrops \/ Stop \/ UNCHANGED vars
      BY <1>1, <3>2 DEF Tick, LinkDrops, Stop, vars, serverVars
    <3>3. ASSUME NEW c \in Calls,
                 Answer(c) \/ Lose(c) \/ Resumes(c) \/ Begins(c)
          PROVE  UNCHANGED <<now, nextRotation>> /\ lost' \in {lost, lost + 1}
      BY <3>3, ResumeKeeps DEF Answer, Lose, Begins, RefreshTimer, GraceTimer,
                  HeartbeatTimer, RotationEvent, LinkOpens, DelayOver, LinkRefused, serverVars
    <3>4. QED
      BY <1>1, <3>1, <3>2, <3>3, StepCases DEF Background
  <2>3. refreshAt \in Nat /\ refreshAt' = refreshAt
    BY <1>1, <1>2
  <2>4. ASSUME NEW a \in Nat, NEW b \in Nat, NEW d \in Nat, a <= b
        PROVE  /\ refreshAt <= a + d => refreshAt <= b + d
               /\ refreshAt <= a => refreshAt <= b
               /\ a > 0 => b > 0
    BY <2>3, <2>4
  <2>5. /\ refreshAt <= nextRotation => refreshAt' <= nextRotation'
        /\ refreshAt <= now + Wait => refreshAt' <= now' + Wait
        /\ lost > 0 => lost' > 0
        /\ refreshAt <= now + Slow => refreshAt' <= now' + Slow
    <3>1. refreshAt <= nextRotation => refreshAt <= nextRotation'
      BY <1>1, <2>2, <2>4
    <3>2. refreshAt <= now + Wait => refreshAt <= now' + Wait
      BY <1>1, <2>2, <2>4
    <3>3. refreshAt <= now + Slow => refreshAt <= now' + Slow
      BY <1>1, <2>2, <2>4
    <3>4. lost > 0 => lost' > 0
      BY <1>1, <2>2
    <3>5. QED
      BY <2>3, <3>1, <3>2, <3>3, <3>4
  <2>6. QED
    BY <2>1, <2>5
<1>3. ASSUME NEW c \in Calls, Resumes(c), refreshAt' # refreshAt
      PROVE  \/ refreshAt' <= nextRotation' \/ refreshAt' <= now' + Wait
             \/ lost' > 0 /\ refreshAt' <= now' + Slow
  <2>1. UNCHANGED <<now, nextRotation, lost>>
    BY <1>3, ResumeKeeps DEF serverVars
  <2>2. CASE Refreshed(c)
    <3>1. call[c].at = "answered" /\ refreshAt' = NextRefresh(call[c].meta)
      BY <1>0, <1>3, <2>2 DEF Refreshed, Remember, Bound, Schedule, ArmRefresh, Calm
    <3>2. call[c].meta \in Meta /\ Known(call[c].meta) /\ Announced(call[c].meta)
          /\ call[c].meta.next \in Nat
      BY <3>1, CallFields DEF Clock, OnTime, News, Heard
    <3>3. QED
      BY <1>1, <2>1, <3>1, <3>2, NextSoon
  <2>3. CASE RefreshFailed(c)
    <3>1. PICK m \in {meta, NoMeta} : refreshAt' = NextRefresh(m)
      BY <1>0, <1>3, <2>3 DEF RefreshFailed, Schedule, ArmRefresh, Calm
    <3>2. lost > 0
      BY <1>0, <2>3 DEF RefreshFailed, AllCovered, CallCovered, LossNoted
    <3>3. m \in Meta /\ Known(m) /\ Announced(m)
      BY <3>1, NoMetaKnown DEF Clock, News, TypeOK, KeyTypes, Announced, NoMeta
    <3>4. m.next \in Nat \/ m.next = None
      BY <3>3 DEF Announced
    <3>5. QED
      BY <1>1, <2>1, <3>1, <3>2, <3>3, <3>4, NextSoon
  <2>4. QED
    BY <1>3, <2>2, <2>3, OrderlyResume DEF Calm, Orderly
<1>4. CASE Background \/ Stop
  BY <1>2, <1>4, BackgroundKeeps DEF Stop
<1>5. ASSUME NEW c \in Calls, Answer(c) \/ Lose(c) \/ Begins(c) PROVE UNCHANGED refreshAt
  BY <1>5 DEF Answer, Lose, Begins, RefreshTimer, GraceTimer, HeartbeatTimer, RotationEvent,
              LinkOpens, DelayOver, LinkRefused, timerVars
<1>6. QED
  BY <1>2, <1>3, <1>4, <1>5, StepCases
-----------------------------------------------------------------------------
(* The key outlasts what is armed and on its way, or the heartbeat comes first. *)
LEMMA SameDelays ==
  ASSUME UNCHANGED <<lost, meta>>
  PROVE  /\ Share' = Share /\ Wait' = Wait
         /\ (Skipping' => Skipping) => Delay' <= Delay /\ Extra' <= Extra
<1>1. Share' = Share /\ Wait' = Wait /\ Slow' = Slow
  BY DEF Share, Slow, Wait
<1>2. Slow \in Nat /\ Wait \in Nat /\ Slow >= Wait
  BY DelayFacts
<1>3. QED
  BY <1>1, <1>2 DEF Delay, Extra

(* Only a bind that goes wrong can leave a call without a configuration. *)
LEMMA SkippingKept ==
  ASSUME NEW c \in Calls, OthersKept(c), call'[c].at # "skipped" \/ call[c].at = "skipped"
  PROVE  Skipping' => Skipping
BY DEF Skipping, OthersKept

LEMMA NextBeatFacts ==
  ASSUME beatAt \in Nat, expectedRotation \in Nat
  PROVE  /\ NextBeat \in Nat /\ NextBeat >= beatAt
         /\ NextBeat >= expectedRotation + StaleAfter + Heartbeat
         /\ NextBeat = beatAt \/ NextBeat = expectedRotation + StaleAfter + Heartbeat
<1>1. StaleAfter \in Nat /\ Heartbeat \in Nat
  BY DelayFacts
<1>2. QED
  BY <1>1 DEF NextBeat, Later

(* A heartbeat that is due may be waited for. *)
LEMMA NextBeatSoon ==
  ASSUME TypeOK, BeatArmed, isRunning, started, expectedRotation \in Nat, expectedRotation <= now
  PROVE  NextBeat \in Nat /\ NextBeat >= now /\ NextBeat <= now + Wait
<1>1. beatAt \in Nat /\ beatAt >= now /\ beatAt <= now + Heartbeat
  BY TimersSplit, Constants DEF BeatArmed, TypeOK
<1>2. now \in Nat
  BY ServerFacts
<1>3. QED
  BY <1>1, <1>2, NextBeatFacts, DelayFacts

LEMMA BeatingLasts ==
  ASSUME Prompt, TypeOK, Clock, BeatArmed, Calm, Beating
  PROVE  Lasts(key, now + Latency)
<1>1. Share \in Nat /\ Latency \in Nat /\ now \in Nat /\ key \in 0..serverKey
  BY ShareFacts, ServerFacts DEF Clock
<1>2. CASE Lasts(key, NextBeat + 3 * Latency + Share)
  <2>1. NextBeat \in Nat /\ NextBeat >= now
    BY NextBeatSoon DEF Beating, Calm
  <2>2. /\ now + Latency \in Int /\ NextBeat + 3 * Latency + Share \in Int
        /\ now + Latency <= NextBeat + 3 * Latency + Share
    BY <1>1, <2>1
  <2>3. QED
    BY <1>1, <1>2, <2>2, LastsEarlier
<1>3. ASSUME NEW c \in Calls, Hopeful(c), Lasts(key, call[c].since + 3 * Latency + Share)
      PROVE  Lasts(key, now + Latency)
  <2>1. call[c].since \in Nat /\ now <= call[c].since + Latency
    BY <1>3, CallFields DEF Clock, OnTime, Hopeful
  <2>2. /\ now + Latency \in Int /\ call[c].since + 3 * Latency + Share \in Int
        /\ now + Latency <= call[c].since + 3 * Latency + Share
    BY <1>1, <2>1
  <2>3. QED
    BY <1>1, <1>3, <2>2, LastsEarlier
<1>4. QED
  BY <1>2, <1>3 DEF Beating

LEMMA CoveredLasts ==
  ASSUME Prompt, TypeOK, Clock, BeatArmed, Calm, NEW t \in Int, now + Latency <= t, Covered(t)
  PROVE  Lasts(key, now + Latency)
<1>1. now + Latency \in Int /\ key \in 0..serverKey
  BY ServerFacts
<1>2. QED
  BY <1>1, LastsEarlier, BeatingLasts DEF Covered

(* The key works, and goes on to for as long as a request that is sent now. *)
LEMMA NowLasts ==
  ASSUME Prompt, TypeOK, Clock, Starting, RenewalNeverStops, BeatArmed, AllCovered, Calm
  PROVE  Lasts(key, now + Latency)
<1>1. Share \in Nat /\ Latency \in Nat /\ now \in Nat
  BY ShareFacts, ServerFacts DEF Clock
<1>2. ASSUME NEW c \in Calls, Chained(c) PROVE Lasts(key, now + Latency)
  <2>1. call[c].since \in Nat /\ now <= call[c].since + Latency
    BY <1>2, CallFields DEF Clock, OnTime, Chained
  <2>2. Covered(call[c].since + 2 * Latency + Share)
    BY <1>2 DEF AllCovered, CallCovered
  <2>3. call[c].since + 2 * Latency + Share \in Int
        /\ now + Latency <= call[c].since + 2 * Latency + Share
    BY <1>1, <2>1
  <2>4. QED
    BY <2>2, <2>3, CoveredLasts
<1>3. CASE refreshAt # None
  <2>1. Covered(refreshAt + 2 * Latency + Share)
    BY <1>3 DEF AllCovered, ArmedCovered
  <2>2. refreshAt + 2 * Latency + Share \in Int
        /\ now + Latency <= refreshAt + 2 * Latency + Share
    BY <1>1, <1>3, ServerFacts
  <2>3. QED
    BY <2>1, <2>2, CoveredLasts
<1>4. refreshAt # None \/ \E c \in Calls : Chained(c)
  BY DEF Calm, Starting, RenewalNeverStops, Chained, Active
<1>5. QED
  BY <1>2, <1>3, <1>4

LEMMA BeatingKept ==
  ASSUME Beating, now \in Nat, now' \in Nat, now' >= now,
         UNCHANGED <<serverKey, expiry, key, lost, beatAt, expectedRotation, started,
                     wsEventReceived>>,
         ~event => ~event',
         \A c \in Calls : Hopeful(c) => Hopeful(c)' /\ call'[c].since = call[c].since
  PROVE  Beating'
<1>1. Share' = Share /\ NextBeat' = NextBeat
  BY DEF Share, Slow, Wait, NextBeat
<1>2. started' /\ ~wsEventReceived' /\ ~event'
  BY DEF Beating
<1>3. expectedRotation' \in Nat /\ expectedRotation' <= now'
  BY DEF Beating
<1>4. CASE Lasts(key, NextBeat + 3 * Latency + Share)
  <2>1. Lasts(key, NextBeat + 3 * Latency + Share)'
    BY <1>1, <1>4 DEF Lasts
  <2>2. QED
    BY <1>2, <1>3, <2>1 DEF Beating
<1>5. ASSUME NEW c \in Calls, Hopeful(c), Lasts(key, call[c].since + 3 * Latency + Share)
      PROVE  Beating'
  <2>1. Hopeful(c)' /\ Lasts(key, call[c].since + 3 * Latency + Share)'
    BY <1>1, <1>5 DEF Lasts
  <2>2. QED
    BY <1>2, <1>3, <2>1 DEF Beating
<1>6. QED
  BY <1>4, <1>5 DEF Beating

(* A call that a step leaves alone stays covered, if the key is the same. *)
LEMMA CallStays ==
  ASSUME Prompt, TypeOK, Clock, AllCovered, Calm, NEW c \in Calls, call'[c] = call[c],
         UNCHANGED <<serverKey, expiry, key, lost, meta>>, Beating => Beating',
         Skipping' => Skipping
  PROVE  CallCovered(c)'
<1> DEFINE s == call[c].since
<1>1. Share' = Share /\ Delay' <= Delay /\ Extra' <= Extra /\ Wait' = Wait
  BY SameDelays
<1>2. CallCovered(c)
  BY DEF AllCovered
<1>3. /\ Share \in Nat /\ Wait \in Nat /\ Latency \in Nat /\ s \in Nat
      /\ Delay \in Nat /\ Extra \in Nat /\ call[c].key \in 0..serverKey /\ key \in 0..serverKey
  BY ShareFacts, DelayFacts, CallFields, ServerFacts DEF Clock
<1>4. Delay' \in Nat /\ Extra' \in Nat
  BY <1>3, DelayFacts DEF Delay, Extra, Slow, Wait
<1> HIDE DEF s
<1>5. /\ s + 3 * Latency + Delay' + Share \in Int /\ s + 3 * Latency + Delay + Share \in Int
      /\ s + 3 * Latency + Delay' + Share <= s + 3 * Latency + Delay + Share
      /\ s + 4 * Latency + Wait + Extra' + Share \in Int
      /\ s + 4 * Latency + Wait + Extra + Share \in Int
      /\ s + 4 * Latency + Wait + Extra' + Share <= s + 4 * Latency + Wait + Extra + Share
  BY <1>1, <1>3, <1>4
<1>6. /\ Covered(s + 3 * Latency + Delay + Share) => Covered(s + 3 * Latency + Delay' + Share)
      /\ Lasts(call[c].key, s + 4 * Latency + Wait + Extra + Share) =>
           Lasts(call[c].key, s + 4 * Latency + Wait + Extra' + Share)
  BY <1>3, <1>5, LastsEarlier DEF Covered
<1>7. s' = s
  BY DEF s
<1>8. \A t : Covered(t) => Lasts(key, t)' \/ Beating'
  BY DEF Covered, Lasts
<1>9. /\ Chained(c)' => Covered(call[c].since + 2 * Latency + Share)'
      /\ Chained(c)' /\ call'[c].at \in {"failed", "skipped"} =>
           Covered(call[c].since + 3 * Latency + Delay + Share)'
  BY <1>1, <1>2, <1>6, <1>7, <1>8 DEF CallCovered, Covered, Chained, s
<1>10. /\ call'[c].at = "answered" =>
            Lasts(call[c].key, call[c].since + 4 * Latency + Wait + Extra + Share)'
       /\ call'[c].at = "sent" => Lasts(call[c].key, call[c].since + Latency)'
       /\ call'[c].at # "refused"
  BY <1>1, <1>2, <1>6 DEF CallCovered, Lasts, s
<1>11. QED
  BY <1>9, <1>10 DEF CallCovered

LEMMA ArmedStays ==
  ASSUME AllCovered, Calm, UNCHANGED <<serverKey, expiry, key, lost, meta>>,
         refreshAt' \in {refreshAt, None}, Beating => Beating'
  PROVE  ArmedCovered'
<1>1. Share' = Share
  BY SameDelays
<1>2. ArmedCovered
  BY DEF AllCovered
<1>3. QED
  BY <1>1, <1>2 DEF ArmedCovered, Covered, Lasts

(* At a rotation the agent has the key that is replaced, and everything armed and on its way ends
   within its grace period. *)
LEMMA CoveredRotate ==
  ASSUME Scheduled, Prompt, Types, Clock, Starting, RenewalNeverStops, BeatArmed, Expiring,
         LossNoted, RefreshSoon, AllCovered, Rotate
  PROVE  AllCovered'
<1> USE DEF Types
<1>1. /\ NewKey(Grace) /\ nextRotation = now /\ serverKey' = serverKey + 1
      /\ UNCHANGED <<now, key, meta, refreshAt, call, lost, isRunning, manual, unsaved>>
  BY DEF Rotate, NewKey, keyVars, timerVars
<1> SUFFICES ASSUME Calm PROVE ArmedCovered' /\ \A c \in Calls : CallCovered(c)'
  BY <1>1 DEF AllCovered, Calm, Orderly
<1>2. /\ Share \in Nat /\ Share + Wait + 4 * Latency < Grace
      /\ lost > 0 => Share + Slow + Wait + 5 * Latency < Grace
  BY ShareFacts DEF Clock
<1>3. Wait \in Nat /\ Slow \in Nat /\ Delay \in Nat /\ Delay <= Slow /\ Latency \in Nat
      /\ Extra \in Nat /\ Extra <= Slow /\ (Extra # 0 => lost > 0)
      /\ Grace \in Nat /\ now \in Nat
  BY DelayFacts, ServerFacts DEF Extra, Skipping, LossNoted
<1>4. Share' = Share /\ Delay' = Delay /\ Extra' = Extra /\ Wait' = Wait
  BY <1>1 DEF Share, Delay, Extra, Skipping, Slow, Wait
<1>5. key = serverKey
  <2>1. Lasts(key, now + Latency)
    BY NowLasts
  <2>2. key # serverKey => key \in 0..serverKey-1 /\ expiry[key] \in Nat
    BY ServerFacts
  <2>3. key # serverKey => expiry[key] <= now
    BY <1>1, <2>2 DEF Expiring
  <2>4. QED
    BY <1>3, <2>1, <2>2, <2>3 DEF Lasts
<1>6. \A k \in 0..serverKey, t \in Int :
        t < now + Grace /\ Lasts(k, t) => k = serverKey' \/ t < expiry'[k]
  BY <1>1, LastsRotated DEF Lasts
<1>7. \A t \in Int : t < now + Grace => key = serverKey' \/ t < expiry'[key]
  BY <1>5, <1>6, ServerFacts DEF Lasts
<1>8. ArmedCovered'
  <2> SUFFICES ASSUME refreshAt # None
               PROVE  key = serverKey' \/ refreshAt + 2 * Latency + Share < expiry'[key]
    BY <1>1, <1>4 DEF ArmedCovered, Covered, Lasts
  <2>1. refreshAt \in Nat
    BY ServerFacts
  <2>2. \/ refreshAt <= now \/ refreshAt <= now + Wait
        \/ lost > 0 /\ refreshAt <= now + Slow
    BY <1>1 DEF RefreshSoon
  <2>3. refreshAt + 2 * Latency + Share \in Int /\ refreshAt + 2 * Latency + Share < now + Grace
    <3>1. CASE refreshAt <= now + Wait
      BY <1>2, <1>3, <2>1, <3>1
    <3>2. CASE lost > 0 /\ refreshAt <= now + Slow
      BY <1>2, <1>3, <2>1, <3>2
    <3>3. QED
      BY <1>3, <2>1, <2>2, <3>1, <3>2
  <2>4. QED
    BY <1>7, <2>3
<1>9. ASSUME NEW c \in Calls PROVE CallCovered(c)'
  <2> DEFINE s == call[c].since
  <2>1. s \in Nat /\ call[c].key \in 0..serverKey
    BY CallFields
  <2>2. call[c].at # "idle" => s <= now
    BY DEF Clock, OnTime
  <2>3. CallCovered(c)
    BY DEF AllCovered
  <2>4. s' = s /\ call' = call
    BY <1>1
  <2> HIDE DEF s
  <2>5. Chained(c) => key = serverKey' \/ s + 2 * Latency + Share < expiry'[key]
    <3> SUFFICES ASSUME Chained(c)
                 PROVE  key = serverKey' \/ s + 2 * Latency + Share < expiry'[key]
      OBVIOUS
    <3>1. s <= now
      BY <2>2 DEF Chained
    <3>2. s + 2 * Latency + Share \in Int /\ s + 2 * Latency + Share < now + Grace
      BY <1>2, <1>3, <2>1, <3>1
    <3>3. QED
      BY <1>7, <3>2
  <2>6. call[c].at \in {"failed", "skipped"} =>
          key = serverKey' \/ s + 3 * Latency + Delay + Share < expiry'[key]
    <3> SUFFICES ASSUME call[c].at \in {"failed", "skipped"}
                 PROVE  key = serverKey' \/ s + 3 * Latency + Delay + Share < expiry'[key]
      OBVIOUS
    <3>1. s <= now /\ lost > 0
      BY <2>2 DEF LossNoted
    <3>2. s + 3 * Latency + Delay + Share \in Int /\ s + 3 * Latency + Delay + Share < now + Grace
      BY <1>2, <1>3, <2>1, <3>1
    <3>3. QED
      BY <1>7, <3>2
  <2>7. call[c].at = "answered" =>
          call[c].key = serverKey' \/ s + 4 * Latency + Wait + Extra + Share < expiry'[call[c].key]
    <3> SUFFICES ASSUME call[c].at = "answered"
                 PROVE  \/ call[c].key = serverKey'
                        \/ s + 4 * Latency + Wait + Extra + Share < expiry'[call[c].key]
      OBVIOUS
    <3>1. s <= now /\ Lasts(call[c].key, s + 4 * Latency + Wait + Extra + Share)
      BY <2>2, <2>3 DEF CallCovered, s
    <3>2. s + 4 * Latency + Wait + Extra + Share \in Int /\ s + 4 * Latency + Wait + Extra + Share < now + Grace
      BY <1>2, <1>3, <2>1, <3>1
    <3>3. QED
      BY <1>6, <2>1, <3>1, <3>2
  <2>8. call[c].at = "sent" =>
          call[c].key = serverKey' \/ s + Latency < expiry'[call[c].key]
    <3> SUFFICES ASSUME call[c].at = "sent"
                 PROVE  call[c].key = serverKey' \/ s + Latency < expiry'[call[c].key]
      OBVIOUS
    <3>1. s <= now /\ Lasts(call[c].key, s + Latency)
      BY <2>2, <2>3 DEF CallCovered, s
    <3>2. s + Latency \in Int /\ s + Latency < now + Grace
      BY <1>2, <1>3, <2>1, <3>1
    <3>3. QED
      BY <1>6, <2>1, <3>1, <3>2
  <2>9. Chained(c)' <=> Chained(c)
    BY <1>1 DEF Chained
  <2>10. call[c].at # "refused"
    BY <2>3 DEF CallCovered
  <2>11. QED
    BY <1>1, <1>4, <2>4, <2>5, <2>6, <2>7, <2>8, <2>9, <2>10
       DEF CallCovered, Covered, Lasts, Chained, s
<1>10. QED
  BY <1>8, <1>9

LEMMA CoveredQuiet ==
  ASSUME Prompt, TypeOK, Clock, AllCovered,
         Tick \/ ManualRotate \/ Revoke \/ LinkDrops \/ Stop \/ UNCHANGED vars
  PROVE  AllCovered'
<1>1. CASE ManualRotate \/ Revoke \/ Stop
  <2>1. manual \in Nat
    BY DEF TypeOK, ServerTypes
  <2>2. CASE ManualRotate \/ Revoke
    <3>1. manual' = manual + 1
      BY <2>2 DEF ManualRotate, Revoke
    <3>2. QED
      BY <2>1, <3>1 DEF AllCovered, Calm, Orderly
  <2>3. CASE Stop
    BY <2>3 DEF Stop, AllCovered, Calm
  <2>4. QED
    BY <1>1, <2>2, <2>3
<1>2. CASE Tick \/ LinkDrops \/ UNCHANGED vars
  <2>1. /\ UNCHANGED <<serverKey, expiry, key, meta, refreshAt, call, lost, isRunning, manual,
                       unsaved, beatAt, expectedRotation, started, wsEventReceived>>
        /\ ~event => ~event'
    BY <1>2 DEF Tick, LinkDrops, vars, serverVars, keyVars, timerVars, linkVars
  <2>2. now \in Nat /\ now' \in Nat /\ now' >= now
    BY <1>2, ServerFacts DEF Tick, LinkDrops, vars
  <2>3. \A c \in Calls : Hopeful(c) => Hopeful(c)' /\ call'[c].since = call[c].since
    BY <2>1 DEF Hopeful
  <2>4. Beating => Beating'
    BY <2>1, <2>2, <2>3, BeatingKept
  <2>5. Skipping' => Skipping
    BY <2>1 DEF Skipping
  <2>6. ASSUME Calm PROVE ArmedCovered' /\ \A c \in Calls : CallCovered(c)'
    BY <2>1, <2>4, <2>5, <2>6, CallStays, ArmedStays
  <2>7. QED
    BY <2>1, <2>6 DEF AllCovered, Calm, Orderly
<1>3. QED
  BY <1>1, <1>2

(* The vault refuses no request. *)
LEMMA CoveredAnswer ==
  ASSUME Prompt, TypeOK, Clock, AllCovered, NEW c \in Calls, Answer(c)
  PROVE  AllCovered'
<1>1. UNCHANGED <<now, serverKey, expiry, key, meta, refreshAt, lost, isRunning, manual, unsaved,
                  beatAt, expectedRotation, started, wsEventReceived, event>>
  BY DEF Answer, serverVars, keyVars, timerVars, linkVars
<1> SUFFICES ASSUME Calm PROVE ArmedCovered' /\ \A d \in Calls : CallCovered(d)'
  BY <1>1 DEF AllCovered, Calm, Orderly
<1>2. Share' = Share /\ Wait' = Wait
  BY <1>1, SameDelays
<1>3. Valid(call[c].key)
  <2>1. Lasts(call[c].key, call[c].since + Latency)
    BY AnswerCall DEF AllCovered, CallCovered
  <2>2. now <= call[c].since + Latency
    BY AnswerCall DEF Clock, OnTime
  <2>3. call[c].since + Latency \in Int /\ call[c].key \in 0..serverKey
    BY CallFields
  <2>4. QED
    BY <2>1, <2>2, <2>3, LastsValid
<1>4. /\ call'[c].since = call[c].since /\ call'[c].src = call[c].src /\ OthersKept(c)
      /\ call[c].at = "sent" /\ call'[c].at = "answered" /\ call'[c].key = serverKey
  BY <1>3, AnswerCall
<1>5. Beating => Beating'
  <2>1. \A d \in Calls : Hopeful(d) => Hopeful(d)' /\ call'[d].since = call[d].since
    BY <1>4 DEF Hopeful, OthersKept
  <2>2. now \in Nat /\ now' \in Nat /\ now' >= now
    BY <1>1, ServerFacts
  <2>3. QED
    BY <1>1, <2>1, <2>2, BeatingKept
<1>6. ArmedCovered'
  BY <1>1, <1>5, ArmedStays
<1>7. ASSUME NEW d \in Calls \ {c} PROVE CallCovered(d)'
  BY <1>1, <1>4, <1>5, <1>7, CallStays, SkippingKept DEF OthersKept
<1>8. CallCovered(c)'
  <2>1. Chained(c) => Covered(call[c].since + 2 * Latency + Share)
    BY DEF AllCovered, CallCovered
  <2>2. Chained(c)' => Covered(call[c].since + 2 * Latency + Share)'
    BY <1>1, <1>2, <1>4, <1>5, <2>1 DEF Covered, Lasts, Chained
  <2>3. Lasts(call[c].key, call[c].since + 4 * Latency + Wait + Extra + Share)'
    BY <1>1, <1>4 DEF Lasts
  <2>4. QED
    BY <1>4, <2>2, <2>3 DEF CallCovered
<1>9. QED
  BY <1>6, <1>7, <1>8

(* A bind is lost; the share it uses up is the time until the next one, of the schedule or of the
   heartbeat. *)
LEMMA CoveredLose ==
  ASSUME Prompt, TypeOK, Clock, BeatArmed, AllCovered, NEW c \in Calls, Lose(c)
  PROVE  AllCovered'
<1>1. UNCHANGED <<now, serverKey, expiry, key, meta, refreshAt, isRunning, manual, unsaved,
                  beatAt, expectedRotation, started, wsEventReceived, event>>
  BY DEF Lose, serverVars, keyVars, timerVars, linkVars
<1> SUFFICES ASSUME Calm PROVE ArmedCovered' /\ \A d \in Calls : CallCovered(d)'
  BY <1>1 DEF AllCovered, Calm, Orderly
<1> DEFINE left == Share'
           rest == Delay'
           more == Extra'
<1>0. lost < MaxLost /\ lost' = lost + 1
  <2>1. lost \in Nat /\ unsaved \in Nat /\ MaxLost \in Nat
    BY TicksAssumption DEF TypeOK, ServerTypes, KeyTypes
  <2>2. lost + unsaved < MaxLost /\ lost' = lost + 1
    BY DEF Lose
  <2>3. QED
    BY <2>1, <2>2
<1>2. left \in Nat /\ Share = left + Slow + Latency
  BY <1>0, ShareLost
<1>3. Wait' = Wait /\ rest \in {Wait, Slow} /\ more \in {0, Slow}
  BY DEF Delay, Extra, Slow, Wait
<1>4. /\ OthersKept(c) /\ call[c].at = "sent" /\ call'[c].at \in {"failed", "skipped"}
      /\ call'[c].since = call[c].since /\ call'[c].src = call[c].src
  BY LoseCall
<1>5. /\ Wait \in Nat /\ Slow \in Nat /\ Slow >= Wait
      /\ Latency \in Nat /\ now \in Nat /\ key \in 0..serverKey /\ Extra \in Nat
      /\ rest \in Nat /\ rest <= Slow /\ more \in Nat /\ more <= Slow
  BY <1>3, DelayFacts, ServerFacts
<1> HIDE DEF left, rest, more
<1>6. \A k \in 0..serverKey, s \in Int, t \in Int : s <= t /\ Lasts(k, t) => Lasts(k, s)
  BY LastsEarlier
<1>7. Beating => Beating'
  <2> SUFFICES ASSUME Beating PROVE Beating'
    OBVIOUS
  <2>1. started' /\ ~wsEventReceived' /\ ~event' /\ expectedRotation' \in Nat
        /\ expectedRotation' <= now' /\ NextBeat' = NextBeat
    BY <1>1 DEF Beating, NextBeat
  <2>2. NextBeat \in Nat /\ NextBeat <= now + Wait
    BY NextBeatSoon DEF Beating, Calm
  <2>3. Lasts(key, NextBeat + 3 * Latency + left) => Beating'
    BY <1>1, <2>1 DEF Beating, Lasts, left
  <2>4. CASE Lasts(key, NextBeat + 3 * Latency + Share)
    <3>1. /\ NextBeat + 3 * Latency + left \in Int /\ NextBeat + 3 * Latency + Share \in Int
          /\ NextBeat + 3 * Latency + left <= NextBeat + 3 * Latency + Share
      BY <1>2, <1>5, <2>2
    <3>2. QED
      BY <1>5, <1>6, <2>3, <2>4, <3>1
  <2>5. ASSUME NEW d \in Calls, Hopeful(d), Lasts(key, call[d].since + 3 * Latency + Share)
        PROVE  Beating'
    <3>1. call[d].since \in Nat /\ now <= call[d].since + Latency
      BY <2>5, CallFields DEF Clock, OnTime, Hopeful
    <3>2. CASE d = c
      <4>1. /\ NextBeat + 3 * Latency + left \in Int /\ call[d].since + 3 * Latency + Share \in Int
            /\ NextBeat + 3 * Latency + left <= call[d].since + 3 * Latency + Share
        BY <1>2, <1>5, <2>2, <3>1
      <4>2. QED
        BY <1>5, <1>6, <2>3, <2>5, <4>1
    <3>3. CASE d # c
      <4>1. /\ call[d].since + 3 * Latency + left \in Int
            /\ call[d].since + 3 * Latency + Share \in Int
            /\ call[d].since + 3 * Latency + left <= call[d].since + 3 * Latency + Share
        BY <1>2, <1>5, <3>1
      <4>2. Lasts(key, call[d].since + 3 * Latency + left)
        BY <1>5, <1>6, <2>5, <4>1
      <4>3. call'[d] = call[d]
        BY <1>4, <3>3 DEF OthersKept
      <4>4. Hopeful(d)' /\ Lasts(key, call[d].since + 3 * Latency + Share)'
        BY <1>1, <2>5, <4>2, <4>3 DEF Hopeful, Lasts, left
      <4>5. QED
        BY <2>1, <4>4 DEF Beating
    <3>4. QED
      BY <3>2, <3>3
  <2>6. QED
    BY <2>4, <2>5 DEF Beating
<1>8. ASSUME NEW s \in Int, NEW t \in Int, s <= t, Covered(t)
      PROVE  key = serverKey' \/ s < expiry'[key] \/ Beating'
  <2>1. CASE Lasts(key, t)
    <3>1. Lasts(key, s)
      BY <1>5, <1>6, <1>8, <2>1
    <3>2. QED
      BY <1>1, <3>1 DEF Lasts
  <2>2. QED
    BY <1>7, <1>8, <2>1 DEF Covered
<1>9. ArmedCovered'
  <2> SUFFICES ASSUME refreshAt # None
               PROVE  key = serverKey' \/ refreshAt + 2 * Latency + left < expiry'[key] \/ Beating'
    BY <1>1 DEF ArmedCovered, Covered, Lasts, left
  <2>1. Covered(refreshAt + 2 * Latency + Share)
    BY DEF AllCovered, ArmedCovered
  <2>2. refreshAt \in Nat
    BY ServerFacts
  <2>3. /\ refreshAt + 2 * Latency + left \in Int /\ refreshAt + 2 * Latency + Share \in Int
        /\ refreshAt + 2 * Latency + left <= refreshAt + 2 * Latency + Share
    BY <1>2, <1>5, <2>2
  <2>4. QED
    BY <1>8, <2>1, <2>3
<1>10. ASSUME NEW d \in Calls PROVE CallCovered(d)'
  <2> DEFINE s == call[d].since
  <2>1. s \in Nat /\ call[d].key \in 0..serverKey
    BY CallFields
  <2>2. CallCovered(d)
    BY DEF AllCovered
  <2>3. s' = s /\ call'[d].src = call[d].src
        /\ (call'[d] = call[d] \/ (call[d].at = "sent" /\ call'[d].at \in {"failed", "skipped"}))
    BY <1>4 DEF OthersKept
  <2> HIDE DEF s
  <2>4. Chained(d)' <=> Chained(d)
    BY <2>3 DEF Chained
  <2>5. ASSUME Chained(d)
        PROVE  /\ key = serverKey' \/ s + 2 * Latency + left < expiry'[key] \/ Beating'
               /\ key = serverKey' \/ s + 3 * Latency + rest + left < expiry'[key] \/ Beating'
    <3>1. Covered(s + 2 * Latency + Share)
      BY <2>2, <2>5 DEF CallCovered, s
    <3>2. /\ s + 2 * Latency + left \in Int /\ s + 2 * Latency + Share \in Int
          /\ s + 2 * Latency + left <= s + 2 * Latency + Share
          /\ s + 3 * Latency + rest + left \in Int
          /\ s + 3 * Latency + rest + left <= s + 2 * Latency + Share
      BY <1>2, <1>5, <2>1
    <3>3. QED
      BY <1>8, <3>1, <3>2
  <2>6. ASSUME call[d].at = "answered"
        PROVE  Lasts(call[d].key, s + 4 * Latency + Wait + more + left)
    <3>1. Lasts(call[d].key, s + 4 * Latency + Wait + Extra + Share)
      BY <2>2, <2>6 DEF CallCovered, s
    <3>2. /\ s + 4 * Latency + Wait + more + left \in Int /\ s + 4 * Latency + Wait + Extra + Share \in Int
          /\ s + 4 * Latency + Wait + more + left <= s + 4 * Latency + Wait + Extra + Share
      BY <1>2, <1>5, <2>1
    <3>3. QED
      BY <1>6, <2>1, <3>1, <3>2
  <2>7. call[d].at = "sent" => Lasts(call[d].key, s + Latency)
    BY <2>2 DEF CallCovered, s
  <2>8. call[d].at # "refused"
    BY <2>2 DEF CallCovered
  <2>9. /\ Chained(d)' => Covered(call[d].since + 2 * Latency + Share)'
        /\ Chained(d)' => Covered(call[d].since + 3 * Latency + Delay + Share)'
    BY <1>1, <1>3, <2>3, <2>4, <2>5 DEF Covered, Lasts, s, left, rest
  <2>10. call'[d].at = "answered" =>
           Lasts(call[d].key, call[d].since + 4 * Latency + Wait + Extra + Share)'
    BY <1>1, <1>3, <2>3, <2>6 DEF Lasts, s, left, more
  <2>11. call'[d].at = "sent" => Lasts(call[d].key, call[d].since + Latency)'
    BY <1>1, <2>3, <2>7 DEF Lasts, s
  <2>12. call'[d].at # "refused"
    BY <2>3, <2>8
  <2>13. QED
    BY <2>9, <2>10, <2>11, <2>12 DEF CallCovered
<1>11. QED
  BY <1>9, <1>10

(* A refresh begins.  While the heartbeat is waited for no event comes, and when it comes it asks
   the vault or will at its next turn. *)
LEMMA BeatingBegin ==
  ASSUME Prompt, TypeOK, Clock, BeatArmed, Calm, Beating, NEW c \in Calls, Begins(c)
  PROVE  Beating'
<1>1. /\ UNCHANGED <<now, serverKey, expiry, key, lost, expectedRotation, started>>
      /\ OthersKept(c) /\ call[c].at \in {"idle", "delay"}
  BY BeginCalls DEF Begins, RefreshTimer, GraceTimer, HeartbeatTimer, RotationEvent, LinkOpens,
        DelayOver, LinkRefused, serverVars, keyVars
<1>2. \A d \in Calls : Hopeful(d) => d # c
  BY <1>1 DEF Hopeful
<1>3. \A d \in Calls : Hopeful(d) => Hopeful(d)' /\ call'[d].since = call[d].since
  BY <1>1, <1>2 DEF Hopeful, OthersKept
<1>4. now \in Nat /\ now' \in Nat /\ now' >= now
  BY <1>1, ServerFacts
<1>5. ~RotationEvent(c)
  BY DEF Beating, RotationEvent
<1>6. UNCHANGED wsEventReceived /\ (~event => ~event')
  BY <1>5 DEF Begins, RefreshTimer, GraceTimer, HeartbeatTimer, LinkOpens, DelayOver,
              LinkRefused, linkVars
<1>7. CASE ~HeartbeatTimer(c)
  <2>1. UNCHANGED beatAt
    BY <1>5, <1>7 DEF Begins, RefreshTimer, GraceTimer, LinkOpens, DelayOver, LinkRefused, timerVars
  <2>2. QED
    BY <1>1, <1>3, <1>4, <1>6, <2>1, BeatingKept
<1>8. CASE HeartbeatTimer(c)
  <2>1. /\ beatAt = now /\ beatAt' = now + Heartbeat
        /\ call' = [call EXCEPT ![c] = IF Stale THEN Sent("heartbeat") ELSE Idle]
    BY <1>8 DEF HeartbeatTimer
  <2>2. started' /\ ~wsEventReceived' /\ ~event' /\ expectedRotation' \in Nat
        /\ expectedRotation' <= now' /\ expectedRotation' = expectedRotation
        /\ expectedRotation \in Nat
    BY <1>1, <1>6 DEF Beating
  <2>3. Share' = Share
    BY <1>1 DEF Share, Slow, Wait
  <2>4. CASE \E d \in Calls : Hopeful(d) /\ Lasts(key, call[d].since + 3 * Latency + Share)
    <3>1. PICK d \in Calls : Hopeful(d) /\ Lasts(key, call[d].since + 3 * Latency + Share)
      BY <2>4
    <3>2. Hopeful(d)' /\ Lasts(key, call[d].since + 3 * Latency + Share)'
      BY <1>1, <1>3, <2>3, <3>1 DEF Lasts
    <3>3. QED
      BY <2>2, <3>2 DEF Beating
  <2>5. CASE Lasts(key, NextBeat + 3 * Latency + Share)
    <3>1. /\ NextBeat \in Nat /\ NextBeat >= now
          /\ NextBeat >= expectedRotation + StaleAfter + Heartbeat
      BY <1>4, <2>1, <2>2, NextBeatFacts
    <3>2. Share \in Nat /\ Latency \in Nat /\ StaleAfter \in Nat /\ Heartbeat \in Nat
          /\ key \in 0..serverKey
      BY ShareFacts, DelayFacts, ServerFacts DEF Clock
    <3>3. CASE Stale
      <4>1. call'[c] = Sent("heartbeat")
        BY <2>1, <3>3 DEF TypeOK, CallTypes
      <4>2. Hopeful(c)' /\ call'[c].since = now
        BY <4>1 DEF Hopeful, Sent, Idle
      <4>3. /\ now + 3 * Latency + Share \in Int /\ NextBeat + 3 * Latency + Share \in Int
            /\ now + 3 * Latency + Share <= NextBeat + 3 * Latency + Share
        BY <1>4, <3>1, <3>2
      <4>4. Lasts(key, now + 3 * Latency + Share)
        BY <2>5, <3>2, <4>3, LastsEarlier
      <4>5. Lasts(key, call[c].since + 3 * Latency + Share)'
        BY <1>1, <2>3, <4>2, <4>4 DEF Lasts
      <4>6. QED
        BY <2>2, <4>2, <4>5 DEF Beating
    <3>4. CASE ~Stale
      <4>1. now <= expectedRotation + StaleAfter
        BY <1>4, <2>2, <3>2, <3>4, Constants DEF Stale, Beating
      <4>0. NextBeat' \in Nat
        BY <1>4, <2>1, <2>2, <3>2 DEF NextBeat, Later
      <4>2. \/ NextBeat' = now + Heartbeat
            \/ NextBeat' = expectedRotation + StaleAfter + Heartbeat
        BY <1>4, <2>1, <2>2, <3>2 DEF NextBeat, Later
      <4>3. NextBeat' <= NextBeat
        BY <1>4, <2>2, <3>1, <3>2, <4>0, <4>1, <4>2
      <4>4. /\ NextBeat' + 3 * Latency + Share \in Int /\ NextBeat + 3 * Latency + Share \in Int
            /\ NextBeat' + 3 * Latency + Share <= NextBeat + 3 * Latency + Share
        <5>1. \A n \in Nat : n <= NextBeat =>
                /\ n + 3 * Latency + Share \in Int /\ NextBeat + 3 * Latency + Share \in Int
                /\ n + 3 * Latency + Share <= NextBeat + 3 * Latency + Share
          BY <3>1, <3>2
        <5>2. QED
          BY <4>0, <4>3, <5>1
      <4>5. \A s \in Int : s <= NextBeat + 3 * Latency + Share => Lasts(key, s)
        BY <2>5, <3>2, <4>4, LastsEarlier
      <4>6. Lasts(key, NextBeat + 3 * Latency + Share)'
        BY <1>1, <2>3, <4>4, <4>5 DEF Lasts
      <4>7. QED
        BY <2>2, <4>6 DEF Beating
    <3>5. QED
      BY <3>3, <3>4
  <2>6. QED
    BY <2>4, <2>5 DEF Beating
<1>9. QED
  BY <1>7, <1>8

LEMMA CoveredBegin ==
  ASSUME Prompt, TypeOK, Clock, Starting, RenewalNeverStops, BeatArmed, AllCovered,
         NEW c \in Calls, Begins(c)
  PROVE  AllCovered'
<1>1. /\ UNCHANGED <<now, serverKey, expiry, key, meta, lost, isRunning, manual, unsaved>>
      /\ refreshAt' \in {refreshAt, None}
  BY DEF Begins, RefreshTimer, GraceTimer, HeartbeatTimer, RotationEvent, LinkOpens,
         DelayOver, LinkRefused, serverVars, keyVars, timerVars
<1> SUFFICES ASSUME Calm PROVE ArmedCovered' /\ \A d \in Calls : CallCovered(d)'
  BY <1>1 DEF AllCovered, Calm, Orderly
<1>2. Share' = Share
  BY <1>1, SameDelays
<1>3. Beating => Beating'
  BY BeatingBegin
<1>4. ArmedCovered'
  BY <1>1, <1>3, ArmedStays
<1>5. ASSUME NEW d \in Calls \ {c} PROVE CallCovered(d)'
  BY <1>1, <1>3, <1>5, BeginCall, CallStays, SkippingKept DEF OthersKept
<1>6. Lasts(key, now + Latency)
  BY NowLasts
<1>7. Chained(c)' => Covered(now + 2 * Latency + Share)
  <2> SUFFICES ASSUME RefreshTimer(c) PROVE Covered(now + 2 * Latency + Share)
    BY BeginCall
  <2>1. refreshAt = now /\ refreshAt # None
    BY ServerFacts, Constants DEF RefreshTimer
  <2>2. QED
    BY <2>1 DEF AllCovered, ArmedCovered
<1>8. /\ call'[c].at \in {"idle", "delay", "sent"}
      /\ call'[c].at # "idle" => call'[c].since = now
      /\ call'[c].at = "sent" => call'[c].key = key
  BY BeginCall
<1>9. Chained(c)' => call'[c].since = now
  BY <1>8 DEF Chained
<1>10. Chained(c)' => Covered(call[c].since + 2 * Latency + Share)'
  BY <1>1, <1>2, <1>3, <1>7, <1>9 DEF Covered, Lasts
<1>11. call'[c].at = "sent" => Lasts(call[c].key, call[c].since + Latency)'
  BY <1>1, <1>6, <1>8 DEF Lasts
<1>12. CallCovered(c)'
  BY <1>8, <1>10, <1>11 DEF CallCovered
<1>13. QED
  BY <1>4, <1>5, <1>12

(* The key of an answer outlasts everything on its way.  If it is not the vault's any more, the
   answer arms a refresh for soon; the poll inside the grace period arms none, but the key it
   brings makes the agent forget the event it was told of, and the heartbeat asks. *)
LEMMA AnsweredLasts ==
  ASSUME Prompt, TypeOK, Clock, AllCovered, Calm, NEW c \in Calls, call[c].at = "answered"
  PROVE  Lasts(call[c].key, call[c].since + 4 * Latency + Wait + Share)
<1> DEFINE s == call[c].since
<1>1. s \in Nat /\ Share \in Nat /\ Wait \in Nat /\ Latency \in Nat /\ Extra \in Nat
  BY ShareFacts, DelayFacts, CallFields DEF Clock
<1>2. Lasts(call[c].key, s + 4 * Latency + Wait + Extra + Share)
  BY DEF AllCovered, CallCovered
<1> HIDE DEF s
<1>3. /\ s + 4 * Latency + Wait + Share \in Int /\ s + 4 * Latency + Wait + Extra + Share \in Int
      /\ s + 4 * Latency + Wait + Share <= s + 4 * Latency + Wait + Extra + Share
  BY <1>1
<1>4. QED
  BY <1>2, <1>3, CallFields, LastsEarlier DEF s

LEMMA BeatingRefreshed ==
  ASSUME Prompt, TypeOK, Clock, News, OnlyStart, BeatArmed, StartInv, AllCovered, Calm,
         NEW c \in Calls, Refreshed(c), ~ReArmed(c, TRUE), call[c].key # serverKey,
         Rotated(call[c].key) \/ Beating
  PROVE  Beating'
<1> DEFINE k == call[c].key
           m == call[c].meta
           s == call[c].since
<1>1. /\ call[c].at = "answered" /\ call[c].src = "grace_poll"
      /\ UNCHANGED <<now, serverKey, expiry, lost, isRunning, beatAt>>
      /\ key' = k /\ (started => started')
      /\ expectedRotation' = IF m.next # None THEN m.next ELSE expectedRotation
  BY DEF Refreshed, Remember, Bound, ReArmed, Schedule, serverVars
<1>2. started
  BY <1>1 DEF OnlyStart
<1>3. ~wsEventReceived' /\ ~event'
  <2>1. CASE Rotated(k)
    BY <2>1 DEF Refreshed, Bound
  <2>2. CASE ~Rotated(k)
    <3>1. Beating
      BY <2>2
    <3>2. wsEventReceived' = wsEventReceived /\ event' = event
      BY <2>2, <3>1 DEF Refreshed, Bound, TypeOK, FlagTypes, Beating
    <3>3. QED
      BY <3>1, <3>2 DEF Beating
  <2>3. QED
    BY <2>1, <2>2
<1>4. m.next \in Nat /\ m.next <= now
  BY <1>1, Constants DEF News, Heard, OldNews, Past, Calm
<1>5. expectedRotation' = m.next
  BY <1>1, <1>4, Constants
<1>6. beatAt \in Nat /\ beatAt <= now + Heartbeat
  BY <1>2 DEF BeatArmed, Calm
<1>7. /\ k \in 0..serverKey /\ s \in Nat /\ now <= s + Latency
      /\ Lasts(k, s + 4 * Latency + Wait + Share)
  BY <1>1, CallFields, AnsweredLasts DEF Clock, OnTime
<1>8. /\ Share \in Nat /\ Share' = Share /\ Wait \in Nat /\ Latency \in Nat /\ now \in Nat
      /\ StaleAfter \in Nat /\ Heartbeat \in Nat /\ Wait >= StaleAfter + Heartbeat
  BY <1>1, ShareFacts, DelayFacts, ServerFacts DEF Clock, Share, Slow, Wait
<1>9. NextBeat' \in Nat
  BY <1>1, <1>4, <1>5, <1>6, <1>8 DEF NextBeat, Later
<1>10. NextBeat' <= now + Wait
  <2>1. NextBeat' = beatAt \/ NextBeat' = m.next + StaleAfter + Heartbeat
    BY <1>1, <1>4, <1>5, <1>6, <1>8 DEF NextBeat, Later
  <2> HIDE DEF m
  <2>2. QED
    BY <1>4, <1>6, <1>8, <2>1
<1> HIDE DEF k, m, s
<1>11. /\ NextBeat' + 3 * Latency + Share \in Int /\ s + 4 * Latency + Wait + Share \in Int
       /\ NextBeat' + 3 * Latency + Share <= s + 4 * Latency + Wait + Share
  <2>1. \A n \in Nat : n <= now + Wait =>
          /\ n + 3 * Latency + Share \in Int /\ s + 4 * Latency + Wait + Share \in Int
          /\ n + 3 * Latency + Share <= s + 4 * Latency + Wait + Share
    BY <1>7, <1>8
  <2>2. QED
    BY <1>9, <1>10, <2>1
<1>12. \A t \in Int : t <= s + 4 * Latency + Wait + Share => Lasts(k, t)
  BY <1>7, <1>11, LastsEarlier
<1>13. Lasts(k, NextBeat' + 3 * Latency + Share)
  BY <1>11, <1>12
<1>14. Lasts(key, NextBeat + 3 * Latency + Share)'
  BY <1>1, <1>8, <1>13 DEF Lasts
<1>15. QED
  BY <1>1, <1>2, <1>3, <1>4, <1>5, <1>14 DEF Beating

LEMMA ArmedRefreshed ==
  ASSUME Scheduled, Prompt, Types, Clock, News, LinkInv, OnlyStart, BeatArmed, StartInv,
         AllCovered, Calm, NEW c \in Calls, Refreshed(c)
  PROVE  ArmedCovered'
<1> USE DEF Types
<1> DEFINE k == call[c].key
           m == call[c].meta
           s == call[c].since
<1>1. /\ call[c].at = "answered" /\ key' = k
      /\ UNCHANGED <<now, serverKey, expiry, lost, isRunning>>
      /\ refreshAt' = IF ReArmed(c, TRUE) THEN ArmRefresh(m) ELSE refreshAt
  BY DEF Refreshed, Remember, Bound, Schedule, serverVars
<1>2. /\ Share \in Nat /\ Share' = Share /\ Wait \in Nat /\ Latency \in Nat /\ now \in Nat
  BY <1>1, ShareFacts, DelayFacts, ServerFacts DEF Clock, Share, Slow, Wait
<1> SUFFICES ASSUME refreshAt' # None, k # serverKey
             PROVE  Lasts(k, refreshAt' + 2 * Latency + Share) \/ Beating'
  BY <1>1, <1>2 DEF ArmedCovered, Covered, Lasts
<1>3. CASE ReArmed(c, TRUE)
  <2>1. refreshAt' = NextRefresh(m)
    BY <1>1, <1>3 DEF ArmRefresh, Calm
  <2>2. m \in Meta /\ Known(m) /\ Announced(m) /\ m.next \in Nat /\ Past(m)
    BY <1>1, CallFields DEF Clock, OnTime, News, Heard, OldNews, Calm
  <2>3. NextRefresh(m) \in Nat /\ NextRefresh(m) <= now + Wait
    BY <2>2, NextSoon
  <2>4. /\ k \in 0..serverKey /\ s \in Nat /\ now <= s + Latency
        /\ Lasts(k, s + 4 * Latency + Wait + Share)
    BY <1>1, CallFields, AnsweredLasts DEF Clock, OnTime
  <2> HIDE DEF k, m, s
  <2>5. /\ refreshAt' + 2 * Latency + Share \in Int /\ s + 4 * Latency + Wait + Share \in Int
        /\ refreshAt' + 2 * Latency + Share <= s + 4 * Latency + Wait + Share
    BY <1>2, <2>1, <2>3, <2>4
  <2>6. \A t \in Int : t <= s + 4 * Latency + Wait + Share => Lasts(k, t)
    BY <2>4, <2>5, LastsEarlier
  <2>7. QED
    BY <2>5, <2>6
<1>4. CASE ~ReArmed(c, TRUE)
  <2>1. CASE Rotated(k) \/ Beating
    BY <1>4, <2>1, BeatingRefreshed
  <2>2. CASE ~Rotated(k) /\ ~Beating
    <3>1. currentKey = key /\ currentKey # None
      BY ServerFacts, Constants DEF LinkInv, Calm, Orderly
    <3>2. k = key
      BY <2>2, <3>1 DEF Rotated
    <3>3. refreshAt' = refreshAt
      BY <1>1, <1>4
    <3>4. Lasts(key, refreshAt + 2 * Latency + Share)
      BY <2>2, <3>3 DEF AllCovered, ArmedCovered, Covered
    <3>5. QED
      BY <3>2, <3>3, <3>4
  <2>3. QED
    BY <2>1, <2>2
<1>5. QED
  BY <1>3, <1>4

LEMMA CoveredRefreshed ==
  ASSUME Scheduled, Prompt, Types, Clock, News, LinkInv, OnlyStart, BeatArmed, StartInv,
         AllCovered, NEW c \in Calls, Refreshed(c)
  PROVE  AllCovered'
<1> USE DEF Types
<1> DEFINE k == call[c].key
           s == call[c].since
<1>1. /\ call[c].at = "answered" /\ key' = k /\ meta' = call[c].meta
      /\ UNCHANGED <<now, serverKey, expiry, lost, isRunning, manual, unsaved>>
  BY DEF Refreshed, Remember, Bound, serverVars
<1> SUFFICES ASSUME Calm PROVE ArmedCovered' /\ \A d \in Calls : CallCovered(d)'
  BY <1>1 DEF AllCovered, Calm, Orderly
<1>2. ArmedCovered'
  BY ArmedRefreshed
<1>3. /\ Share \in Nat /\ Wait \in Nat /\ Latency \in Nat /\ now \in Nat
      /\ k \in 0..serverKey /\ s \in Nat /\ s <= now /\ now <= s + Latency
      /\ Extra \in Nat /\ Lasts(k, s + 4 * Latency + Wait + Extra + Share)
  BY <1>1, ShareFacts, DelayFacts, ServerFacts, CallFields
     DEF Clock, OnTime, AllCovered, CallCovered
<1>4. meta'.next \in Nat
  BY <1>1 DEF News, Heard
<1>6. OthersKept(c) /\ call'[c] = Idle
  BY ResumeCalls DEF Resumes
<1> DEFINE rest == Delay'
           more == Extra'
<1>5. /\ Share' = Share /\ Wait' = Wait
      /\ rest \in Nat /\ rest <= Wait + Extra
      /\ more \in Nat /\ more <= Extra
  <2>1. Skipping' => Skipping
    BY <1>6, IdleFacts, SkippingKept
  <2>2. Share' = Share /\ Wait' = Wait /\ Slow' = Slow
    BY <1>1 DEF Share, Slow, Wait
  <2>3. meta'.next # None
    BY <1>4, Constants
  <2>4. rest \in {Wait, Slow} /\ (rest # Wait => Skipping)
    BY <2>1, <2>2, <2>3 DEF Delay
  <2>5. Skipping => Extra = Slow
    BY DEF Extra
  <2>6. more = 0 \/ more = Extra
    BY <2>1, <2>2 DEF Extra
  <2>7. Slow \in Nat
    BY DelayFacts
  <2> HIDE DEF rest, more
  <2>8. QED
    BY <1>3, <2>2, <2>4, <2>5, <2>6, <2>7
<1> HIDE DEF k, s, rest, more
<1>7. ASSUME NEW t \in Int, t <= s + 4 * Latency + Wait + Extra + Share PROVE Lasts(k, t)
  <2>1. s + 4 * Latency + Wait + Extra + Share \in Int
    BY <1>3
  <2>2. QED
    BY <1>3, <1>7, <2>1, LastsEarlier
<1>8. CallCovered(c)'
  BY <1>6, IdleFacts DEF CallCovered, Chained
<1>9. ASSUME NEW d \in Calls \ {c} PROVE CallCovered(d)'
  <2> DEFINE u == call[d].since
  <2>1. call'[d] = call[d]
    BY <1>6, <1>9 DEF OthersKept
  <2>2. CallCovered(d)
    BY DEF AllCovered
  <2>3. u \in Nat /\ (Chained(d) => u <= now)
    BY CallFields DEF Clock, OnTime, Chained
  <2> HIDE DEF u
  <2>4. Chained(d) => /\ Lasts(k, u + 2 * Latency + Share)
                      /\ Lasts(k, u + 3 * Latency + rest + Share)
    <3> SUFFICES ASSUME Chained(d)
                 PROVE  /\ Lasts(k, u + 2 * Latency + Share)
                        /\ Lasts(k, u + 3 * Latency + rest + Share)
      OBVIOUS
    <3>0. u \in Nat /\ u <= now
      BY <2>3
    <3>1. /\ u + 2 * Latency + Share \in Int /\ u + 3 * Latency + rest + Share \in Int
          /\ u + 2 * Latency + Share <= s + 4 * Latency + Wait + Extra + Share
          /\ u + 3 * Latency + rest + Share <= s + 4 * Latency + Wait + Extra + Share
      BY <1>3, <1>5, <3>0
    <3>2. QED
      BY <1>7, <3>1
  <2>5. Chained(d)' => /\ Covered(call[d].since + 2 * Latency + Share)'
                       /\ Covered(call[d].since + 3 * Latency + Delay + Share)'
    BY <1>1, <1>5, <2>1, <2>4 DEF Chained, Covered, Lasts, u, rest
  <2>6. /\ call'[d].at = "answered" =>
             Lasts(call[d].key, call[d].since + 4 * Latency + Wait + Extra + Share)'
        /\ call'[d].at = "sent" => Lasts(call[d].key, call[d].since + Latency)'
        /\ call'[d].at # "refused"
    <3>1. /\ u + 4 * Latency + Wait + more + Share \in Int
          /\ u + 4 * Latency + Wait + Extra + Share \in Int
          /\ u + 4 * Latency + Wait + more + Share <= u + 4 * Latency + Wait + Extra + Share
      BY <1>3, <1>5, <2>3
    <3>2. Lasts(call[d].key, u + 4 * Latency + Wait + Extra + Share)
            => Lasts(call[d].key, u + 4 * Latency + Wait + more + Share)
      BY <3>1, CallFields, LastsEarlier
    <3>3. QED
      BY <1>1, <1>5, <2>1, <2>2, <3>2 DEF CallCovered, Lasts, u, more
  <2>7. QED
    BY <2>5, <2>6 DEF CallCovered
<1>10. QED
  BY <1>2, <1>8, <1>9

(* A call ends with an error: the refresh armed now was allowed for. *)
LEMMA CoveredFailed ==
  ASSUME Scheduled, Prompt, Types, Clock, News, BeatArmed, StartInv, AllCovered,
         NEW c \in Calls, RefreshFailed(c)
  PROVE  AllCovered'
<1> USE DEF Types
<1> DEFINE m == IF call[c].at = "skipped" THEN NoMeta ELSE meta
<1>1. /\ UNCHANGED <<now, serverKey, expiry, key, meta, lost, isRunning, manual, unsaved,
                     expectedRotation, wsEventReceived, event>>
      /\ refreshAt' = IF ReArmed(c, FALSE) THEN ArmRefresh(m) ELSE refreshAt
      /\ beatAt' = IF call[c].src = "start" THEN now + Heartbeat ELSE beatAt
      /\ started' = (started \/ call[c].src = "start")
  BY DEF RefreshFailed, Unbound, Schedule, serverVars, keyVars
<1> SUFFICES ASSUME Calm PROVE ArmedCovered' /\ \A d \in Calls : CallCovered(d)'
  BY <1>1 DEF AllCovered, Calm, Orderly
<1>2. /\ Share \in Nat /\ Share' = Share /\ Delay \in Nat /\ Wait \in Nat /\ Delay >= Wait
      /\ now \in Nat /\ key \in 0..serverKey /\ Latency \in Nat
  BY <1>1, ShareFacts, SameDelays, DelayFacts, ServerFacts DEF Clock
<1>3. OthersKept(c) /\ call'[c] = Idle
  BY ResumeCalls DEF Resumes
<1>4. call[c].at \in {"failed", "skipped"}
  BY DEF RefreshFailed, AllCovered, CallCovered
<1>5. Beating => Beating'
  <2> SUFFICES ASSUME Beating PROVE Beating'
    OBVIOUS
  <2>1. call[c].src # "start"
    BY <1>4 DEF StartInv, Active, Beating
  <2>2. beatAt' = beatAt /\ (started' <=> started)
    BY <1>1, <2>1
  <2>3. \A d \in Calls : Hopeful(d) => Hopeful(d)' /\ call'[d].since = call[d].since
    BY <1>3, <1>4 DEF Hopeful, OthersKept
  <2>4. started' = started
    BY <2>2 DEF Beating, TypeOK, FlagTypes, RefreshFailed, Schedule
  <2>5. QED
    BY <1>1, <1>2, <2>2, <2>3, <2>4, BeatingKept
<1>6. CallCovered(c)'
  BY <1>3, IdleFacts DEF CallCovered, Chained
<1>7. ASSUME NEW d \in Calls \ {c} PROVE CallCovered(d)'
  BY <1>1, <1>3, <1>5, <1>7, IdleFacts, CallStays, SkippingKept DEF OthersKept
<1>8. CASE ~ReArmed(c, FALSE)
  BY <1>1, <1>5, <1>6, <1>7, <1>8, ArmedStays
<1>9. CASE ReArmed(c, FALSE)
  <2> DEFINE s == call[c].since
  <2>1. Covered(s + 3 * Latency + Delay + Share)
    BY <1>4, <1>9 DEF ReArmed, AllCovered, CallCovered, Chained
  <2>2. refreshAt' = NextRefresh(m)
    BY <1>1, <1>9 DEF ArmRefresh, Calm
  <2>3. s \in Nat /\ now <= s + Latency
    BY <1>4, CallFields DEF Clock, OnTime
  <2> HIDE DEF s
  <2>4. CASE key = serverKey \/ Beating
    BY <1>1, <1>5, <1>6, <1>7, <2>4 DEF ArmedCovered, Covered, Lasts
  <2>5. CASE key # serverKey /\ ~Beating
    <3>1. m \in Meta /\ Known(m) /\ Announced(m) /\ Past(m)
      BY <2>5, NoMetaKnown DEF Clock, News, Calm, TypeOK, KeyTypes, Announced, Past, NoMeta
    <3>0. m.next = None => Delay = Slow
      BY DEF Delay, Skipping
    <3> HIDE DEF m
    <3>2. NextRefresh(m) \in Nat /\ NextRefresh(m) <= now + Delay
      BY <1>2, <3>0, <3>1, NextSoon DEF Announced
    <3>3. /\ refreshAt' + 2 * Latency + Share \in Int /\ s + 3 * Latency + Delay + Share \in Int
          /\ refreshAt' + 2 * Latency + Share <= s + 3 * Latency + Delay + Share
      BY <1>2, <2>2, <2>3, <3>2
    <3>4. Lasts(key, s + 3 * Latency + Delay + Share)
      BY <2>1, <2>5 DEF Covered
    <3>5. \A t \in Int : t <= s + 3 * Latency + Delay + Share => Lasts(key, t)
      BY <1>2, <3>3, <3>4, LastsEarlier
    <3>6. Lasts(key, refreshAt' + 2 * Latency + Share)
      BY <3>3, <3>5
    <3>7. ArmedCovered'
      BY <1>1, <1>2, <3>6 DEF ArmedCovered, Covered, Lasts
    <3>8. QED
      BY <1>6, <1>7, <3>7
  <2>6. QED
    BY <2>4, <2>5
<1>10. QED
  BY <1>8, <1>9

(* The inductive invariant of short grace periods. *)
SoonInv == /\ DelayInv /\ StartInv /\ Clock /\ Starting /\ LinkInv
           /\ Expiring /\ News /\ LossNoted /\ OnlyStart /\ BeatArmed /\ RefreshSoon /\ AllCovered

LEMMA CoveredStep ==
  ASSUME Scheduled, Prompt, Types, RenewalNeverStops, SoonInv, [Next]_vars
  PROVE  AllCovered'
<1> USE DEF Types, SoonInv
<1>1. CASE Background \/ Stop
  BY <1>1, CoveredRotate, CoveredQuiet DEF Background
<1>2. ASSUME NEW c \in Calls, Answer(c) \/ Lose(c) PROVE AllCovered'
  BY <1>2, CoveredAnswer, CoveredLose
<1>3. ASSUME NEW c \in Calls, Resumes(c) PROVE AllCovered'
  <2>1. CASE Refreshed(c) \/ RefreshFailed(c)
    BY <2>1, CoveredRefreshed, CoveredFailed
  <2>2. CASE ~(Refreshed(c) \/ RefreshFailed(c))
    <3>1. ~Calm'
      BY <1>3, <2>2, OrderlyResume DEF Calm, Orderly
    <3>2. QED
      BY <3>1 DEF AllCovered
  <2>3. QED
    BY <2>1, <2>2
<1>4. ASSUME NEW c \in Calls, Begins(c) PROVE AllCovered'
  BY <1>4, CoveredBegin
<1>5. QED
  BY <1>1, <1>2, <1>3, <1>4, StepCases

LEMMA InitSoon ==
  ASSUME Scheduled, Prompt, Init
  PROVE  SoonInv
<1>1. PICK c \in Calls : call = [d \in Calls |-> IF d = c THEN Sent("start") ELSE Idle]
  BY DEF Init
<1>2. /\ now = 0 /\ lost = 0 /\ nextRotation = Period /\ refreshAt = None /\ key = 0
      /\ serverKey = 0 /\ ~started /\ isRunning /\ graceAt = None /\ beatAt = None
      /\ link = "down" /\ ~event /\ currentKey = key /\ currentKey # None /\ ~unnoticed
  BY Constants DEF Init
<1>3. /\ Sent("start").at = "sent" /\ Sent("start").src = "start" /\ Sent("start").since = 0
      /\ Sent("start").key = 0 /\ Sent("start").meta = NoMeta
      /\ Idle.at = "idle" /\ Idle.meta = NoMeta
  BY <1>2 DEF Sent, Idle
<1>4. Period \in Nat /\ Latency \in Nat /\ MaxLost \in Nat
  BY Constants, TicksAssumption
<1>5. meta = NoMeta \/ meta = [next |-> Period, grace |-> None]
  BY <1>2 DEF Init
<1>6. Known(meta) /\ Known(NoMeta) /\ Announced(meta)
  BY <1>2, <1>4, <1>5, NoMetaKnown DEF Known, Announced, NoMeta
<1>7. Clock
  BY <1>1, <1>2, <1>3, <1>4, <1>6 DEF Clock, OnTime
<1>8. Starting
  BY <1>1, <1>3 DEF Starting, Active
<1>9. DelayInv /\ StartInv /\ LinkInv
  BY <1>2, InitCalls DEF StartInv, LinkInv, LinkUsesKey, Active
<1>10. Expiring /\ BeatArmed /\ RefreshSoon
  BY <1>2 DEF Expiring, BeatArmed, RefreshSoon
<1>11. News
  BY <1>1, <1>2, <1>3, <1>6 DEF News, Heard, OldNews
<1>12. LossNoted
  BY <1>1, <1>3 DEF LossNoted
<1>13. OnlyStart
  BY <1>1, <1>2, <1>3 DEF OnlyStart
<1>14. AllCovered
  BY <1>1, <1>2, <1>3 DEF AllCovered, ArmedCovered, CallCovered, Covered, Chained, Lasts
<1>15. QED
  BY <1>7, <1>8, <1>9, <1>10, <1>11, <1>12, <1>13, <1>14 DEF SoonInv

LEMMA SoonInvHolds ==
  ASSUME Scheduled, Prompt
  PROVE  Spec => []SoonInv
<1>1. Init => SoonInv
  BY InitSoon
<1>2. Types /\ RenewalNeverStops /\ SoonInv /\ [Next]_vars => SoonInv'
  <2> SUFFICES ASSUME Types, RenewalNeverStops, SoonInv, [Next]_vars PROVE SoonInv'
    OBVIOUS
  <2> USE DEF Types
  <2>1. DelayInv' /\ StartInv' /\ Clock' /\ Starting' /\ LinkInv'
    BY DelayStep, StartStep, ClockStep, StartingStep, LinkStep DEF SoonInv
  <2>2. Expiring' /\ News' /\ LossNoted' /\ OnlyStart' /\ BeatArmed'
    BY ExpiringStep, NewsStep, LossNotedStep, OnlyStartStep, BeatArmedStep DEF SoonInv
  <2>3. RefreshSoon' /\ AllCovered'
    BY RefreshSoonStep, CoveredStep DEF SoonInv
  <2>4. QED
    BY <2>1, <2>2, <2>3 DEF SoonInv
<1>3. QED
  BY <1>1, <1>2, TypesHold, RenewalHolds, PTL DEF Spec

(* KeyStaysValid for grace periods shorter than the rotation period, until an operator rotates the
   key or a new key cannot be saved: with the refreshes the schedule arms and the heartbeat the
   agent always asks in time, although every rotation event may be lost, and although an answer
   that is taken late can bring back a key that was replaced and make the agent forget the event
   that told it so.  A period of 24 hours with a grace period of 5 minutes meets Prompt if no bind
   is lost: the heartbeat comes every 60 seconds and a bind ends within 30. *)
THEOREM KeyHolds ==
  ASSUME Scheduled, Prompt
  PROVE  Spec => [](Orderly => KeyStaysValid)
<1>1. Types /\ RenewalNeverStops /\ SoonInv => (Orderly => KeyStaysValid)
  <2> SUFFICES ASSUME Types, RenewalNeverStops, SoonInv, Calm PROVE Valid(key)
    BY DEF KeyStaysValid, Calm
  <2>1. Lasts(key, now + Latency)
    BY NowLasts DEF Types, SoonInv
  <2>2. now + Latency \in Int /\ now <= now + Latency /\ key \in 0..serverKey
    BY ServerFacts DEF Types
  <2>3. QED
    BY <2>1, <2>2, LastsValid DEF Types
<1>2. QED
  BY <1>1, SoonInvHolds, TypesHold, RenewalHolds, PTL

(* The same for the requests: the vault refuses no bind of a running service, so neither the
   recovery from 4001 nor the flag of a stale key is ever needed, under the same conditions. *)
THEOREM NoRefusal ==
  ASSUME Scheduled, Prompt
  PROVE  Spec => [](isRunning /\ Orderly => \A c \in Calls : call[c].at # "refused")
<1>1. SoonInv => (isRunning /\ Orderly => \A c \in Calls : call[c].at # "refused")
  BY DEF SoonInv, AllCovered, CallCovered, Calm
<1>2. QED
  BY <1>1, SoonInvHolds, PTL
=============================================================================
