---------------------------- MODULE ApiKey_proofs ----------------------------
(***************************************************************************)
(* Proofs about the credentials of an agent without a managed key, for     *)
(* every life of a key, every threshold and every number of keys, faults,  *)
(* restarts and revocations.                                               *)
(***************************************************************************)
EXTENDS ApiKey, TLAPS

(* What runs in which state of the daemon: checks and claims only in one that is up, the
   registration on the command line only without one. *)
Running ==
  /\ daemon # "up" => check = Resting /\ claim = Resting /\ ~renewed
  /\ req.op = "bootstrap" => daemon = "down" /\ req.at # "idle"
  /\ check.reply # None => check.at = "rotate"
  /\ claim.reply # None => claim.at = "sent"

(* The environment has the key of the unit until the daemon stores one; then both have it. *)
Environment ==
  /\ ~renewed => env = unit
  /\ renewed => env = stored /\ stored # None

(* No day passes while a new key is on its way to the agent. *)
Fresh == check.reply # None \/ claim.reply # None => days = Life

(* The key the vault accepts is stored or on its way, or its loss has been noted. *)
Reach == lost \/ valid \in {None, stored, check.reply, claim.reply}

(* A stored key that is to be renewed: the days since it was due, of which the failed and
   the missed checks and today's check account for one each. *)
Due     == valid # None /\ stored = valid /\ ~managed /\ unit = None /\ days <= Threshold
Span(d) == IF d > 0 THEN Threshold - d + 1 ELSE Threshold
Account == faults + idle + stops
Today   == IF days > 0 /\ check.at # "idle" THEN 1 ELSE 0
Counted ==
  Due => /\ check.at # "idle" => check.key = valid
         /\ Span(days) <= Account + Today

(* Each key adds at most its life to the days that were counted as idle. *)
Idled == idle + days <= (issued + 1) * Life

IInv == TypeOK /\ Running /\ Environment /\ Fresh /\ Reach /\ Counted /\ Idled
-----------------------------------------------------------------------------
(* The parts of the type invariant. *)
Optional  == Keys \cup {None}
VaultType ==
  /\ auth \in {"key", "password", "token"} /\ valid \in Optional /\ issued \in Keys
  /\ days \in 0..Life /\ token \in {"unused", "spent"} /\ offer \in {"none", "open", "spent"}
  /\ session \in 0..MaxSession
FileType  ==
  /\ stored \in Optional /\ unit \in Optional /\ env \in Optional
  /\ pending \in BOOLEAN /\ managed \in BOOLEAN /\ lost \in BOOLEAN /\ renewed \in BOOLEAN
  /\ daemon \in {"down", "exchange", "up"}
WorkType  ==
  /\ check \in [at : {"idle", "status", "rotate"}, key : Optional, reply : Optional]
  /\ claim \in [at : {"idle", "sent"}, key : {None}, reply : Optional]
LinkType  ==
  /\ state \in [on : BOOLEAN, agentId : BOOLEAN, offered : BOOLEAN]
  /\ link \in [at : {"off", "down", "up", "degraded"}, key : Optional]
  /\ link.at = "up" => state.agentId
ReqType   ==
  /\ req \in [at : {"idle", "login", "send", "sleep"}, op : {"poll", "bootstrap"},
              key : Optional, gen : 0..MaxSession \cup {None}, attempt : 0..(MaxRetries - 1)]
  /\ cached \in [gen : 0..MaxSession \cup {None}, live : BOOLEAN] /\ refused \in BOOLEAN
CountType == faults \in 0..MaxFaults /\ stops \in 0..MaxStops /\ revokes \in 0..MaxRevokes
IdleType  == idle \in 0..(MaxKey + 1) * Life

LEMMA TypeParts ==
  TypeOK <=> /\ VaultType /\ FileType /\ WorkType /\ LinkType /\ ReqType /\ CountType /\ IdleType
BY DEF TypeOK, VaultType, FileType, WorkType, LinkType, ReqType, CountType, IdleType, Optional

LEMMA ConstantFacts ==
  /\ Life \in Nat /\ Threshold \in Nat /\ 1 <= Threshold /\ Threshold < Life
  /\ MaxKey \in Nat /\ MaxSession \in Nat /\ MaxFaults \in Nat /\ MaxStops \in Nat /\ MaxRevokes \in Nat
  /\ MaxRetries \in Nat /\ 1 <= MaxRetries
  /\ Keys \subseteq Nat /\ 0 \in Keys /\ None \notin Keys /\ None \in Optional /\ Keys \subseteq Optional
BY DaysAssumption, BoundAssumption, NoneAssumption DEF Keys, Optional

LEMMA IssueFacts ==
  ASSUME VaultType, Issue
  PROVE  /\ issued' = issued + 1 /\ issued' \in Keys /\ valid' = issued' /\ valid' # None
         /\ days' = Life /\ days' \in 0..Life
BY ConstantFacts DEF VaultType, Issue, Keys

LEMMA FaultFacts ==
  ASSUME CountType, Fault
  PROVE  faults' = faults + 1 /\ faults' \in 0..MaxFaults
BY ConstantFacts DEF CountType, Fault
-----------------------------------------------------------------------------
(* Which operations change which part of the state. *)
Issues == Issue \/ UNCHANGED <<valid, issued, days>>

LEMMA VaultFrame ==
  ASSUME Next
  PROVE  \/ Issues /\ token' \in {token, "spent"} /\ offer' \in {offer, "spent"} /\ UNCHANGED <<auth, session>>
         \/ Day \/ Revoke \/ Offer \/ DropSessions
<1> USE DEF vaultVars, Issues
<1>1. CASE Registration
  BY <1>1 DEF Registration, StartDaemon, ExchangeAnswered, ExchangeFails, DaemonEnds
<1>2. CASE Renewal
  BY <1>2 DEF Renewal, StatusAnswered, CheckFails, VaultRotates, RotateAnswered, RotateFails
<1>3. CASE Degraded
  BY <1>3 DEF Degraded, LinkUp, LinkDegraded, LinkDrops, OfferArrives, ClaimReprovisionToken, VaultClaims,
              ClaimAnswered, Reconnect, ClaimFails
<1>4. CASE Requests
  BY <1>4 DEF Requests, Request, LoginAnswered, LoginFails, PollAnswered, BootstrapAnswered, AttemptFails,
              Retry, TokenExpires
<1>5. QED
  BY <1>1, <1>2, <1>3, <1>4 DEF Next

LEMMA WorkFrame ==
  ASSUME Next
  PROVE  \/ UNCHANGED <<check, claim>>
         \/ StartDaemon \/ ExchangeAnswered \/ DaemonEnds \/ Renewal
         \/ ClaimReprovisionToken \/ VaultClaims \/ ClaimAnswered \/ ClaimFails
<1>1. CASE Registration
  BY <1>1 DEF Registration, ExchangeFails
<1>2. CASE Degraded
  BY <1>2 DEF Degraded, Revoke, Offer, LinkUp, LinkDegraded, LinkDrops, OfferArrives, Reconnect
<1>3. CASE Requests
  BY <1>3 DEF Requests, Request, LoginAnswered, LoginFails, PollAnswered, BootstrapAnswered, AttemptFails,
              Retry, TokenExpires, DropSessions
<1>4. QED
  BY <1>1, <1>2, <1>3 DEF Next

LEMMA LinkFrame ==
  ASSUME Next
  PROVE  \/ UNCHANGED <<state, link>>
         \/ StartDaemon \/ ExchangeAnswered \/ DaemonEnds
         \/ LinkUp \/ LinkDegraded \/ LinkDrops \/ OfferArrives \/ ClaimAnswered \/ Reconnect
<1>1. CASE Registration
  BY <1>1 DEF Registration, ExchangeFails
<1>2. CASE Renewal
  BY <1>2 DEF Renewal, Day, StatusAnswered, CheckFails, VaultRotates, RotateAnswered, RotateFails
<1>3. CASE Degraded
  BY <1>3 DEF Degraded, Revoke, Offer, ClaimReprovisionToken, VaultClaims, ClaimFails
<1>4. CASE Requests
  BY <1>4 DEF Requests, Request, LoginAnswered, LoginFails, PollAnswered, BootstrapAnswered, AttemptFails,
              Retry, TokenExpires, DropSessions
<1>5. QED
  BY <1>1, <1>2, <1>3, <1>4 DEF Next

LEMMA ReqFrame ==
  ASSUME Next
  PROVE  UNCHANGED reqVars \/ DaemonEnds \/ Requests
<1>1. CASE Registration
  BY <1>1 DEF Registration, StartDaemon, ExchangeAnswered, ExchangeFails
<1>2. CASE Renewal
  BY <1>2 DEF Renewal, Day, StatusAnswered, CheckFails, VaultRotates, RotateAnswered, RotateFails
<1>3. CASE Degraded
  BY <1>3 DEF Degraded, Revoke, Offer, LinkUp, LinkDegraded, LinkDrops, OfferArrives, ClaimReprovisionToken,
              VaultClaims, ClaimAnswered, Reconnect, ClaimFails
<1>4. QED
  BY <1>1, <1>2, <1>3 DEF Next

(* The operations that change nothing of the keys, or only count a fault. *)
Aside ==
  /\ UNCHANGED <<auth, valid, issued, days, fileVars, unit, env, daemon, check, claim, renewed, lost, idle, stops>>
  /\ faults' = faults \/ Fault

LEMMA CoreFrame ==
  ASSUME Next
  PROVE  \/ Aside \/ Registration \/ Renewal
         \/ Revoke \/ ClaimReprovisionToken \/ VaultClaims \/ ClaimAnswered \/ ClaimFails
         \/ BootstrapAnswered \/ AttemptFails
<1> USE DEF vaultVars, keyVars, ghosts, bounds, reqVars
<1>1. CASE Degraded
  BY <1>1 DEF Degraded, Offer, LinkUp, LinkDegraded, LinkDrops, OfferArrives, Reconnect, Aside
<1>2. CASE Requests
  BY <1>2 DEF Requests, Request, LoginAnswered, LoginFails, PollAnswered, Retry, TokenExpires, DropSessions, Aside
<1>3. QED
  BY <1>1, <1>2 DEF Next
-----------------------------------------------------------------------------
(* Each part of the type invariant is kept. *)
LEMMA VaultTypes ==
  ASSUME TypeOK, Next
  PROVE  VaultType'
<1> VaultType /\ CountType
  BY TypeParts
<1>1. CASE Issues /\ token' \in {token, "spent"} /\ offer' \in {offer, "spent"} /\ UNCHANGED <<auth, session>>
  <2>1. valid' \in Optional /\ issued' \in Keys /\ days' \in 0..Life
    <3>1. CASE Issue
      BY <3>1, IssueFacts, ConstantFacts
    <3>2. CASE UNCHANGED <<valid, issued, days>>
      BY <3>2 DEF VaultType
    <3>3. QED
      BY <1>1, <3>1, <3>2 DEF Issues
  <2>2. QED
    BY <1>1, <2>1 DEF VaultType
<1>2. CASE Day
  BY <1>2, ConstantFacts DEF Day, VaultType
<1>3. CASE Revoke \/ Offer
  BY <1>3, ConstantFacts DEF Revoke, Offer, VaultType
<1>4. CASE DropSessions
  BY <1>4, ConstantFacts DEF DropSessions, VaultType
<1>5. QED
  BY <1>1, <1>2, <1>3, <1>4, VaultFrame

LEMMA UpdateTypes ==
  ASSUME FileType, NEW k \in Keys, UpdateApiKey(k)
  PROVE  stored' = k /\ env' = k /\ renewed' = TRUE /\ k \in Optional /\ lost' \in BOOLEAN
BY ConstantFacts DEF FileType, UpdateApiKey

LEMMA FileTypes ==
  ASSUME TypeOK, Next
  PROVE  FileType'
<1> FileType /\ VaultType /\ WorkType /\ ReqType
  BY TypeParts
<1> USE DEF fileVars, keyVars, ghosts
<1>1. CASE Aside
  BY <1>1 DEF Aside, FileType
<1>2. CASE StartDaemon
  BY <1>2 DEF StartDaemon, StartServices, FileType
<1>3. CASE ExchangeAnswered
  <2>1. issued' \in Optional
    BY <1>3, IssueFacts, ConstantFacts DEF ExchangeAnswered
  <2>2. QED
    BY <1>3, <2>1 DEF ExchangeAnswered, StartServices, FileType
<1>4. CASE ExchangeFails
  <2>1. lost' \in BOOLEAN
    BY <1>4 DEF ExchangeFails, FileType
  <2>2. QED
    BY <1>4, <2>1 DEF ExchangeFails, FileType
<1>5. CASE DaemonEnds
  <2>1. lost' \in BOOLEAN
    BY <1>5 DEF DaemonEnds, FileType
  <2>2. QED
    BY <1>5, <2>1 DEF DaemonEnds, FileType
<1>6. CASE Day \/ StatusAnswered \/ CheckFails \/ VaultRotates \/ Revoke \/ ClaimReprovisionToken \/ VaultClaims
  BY <1>6 DEF Day, StatusAnswered, CheckFails, VaultRotates, Revoke, ClaimReprovisionToken, VaultClaims, FileType
<1>7. CASE RotateFails \/ ClaimFails
  <2>1. lost' \in BOOLEAN
    BY <1>7 DEF RotateFails, ClaimFails, FileType
  <2>2. QED
    BY <1>7, <2>1 DEF RotateFails, ClaimFails, FileType
<1>8. CASE RotateAnswered
  <2>1. check.reply \in Keys
    BY <1>8 DEF RotateAnswered, WorkType, Optional
  <2>2. QED
    BY <1>8, <2>1, UpdateTypes DEF RotateAnswered, FileType
<1>9. CASE ClaimAnswered
  <2>1. claim.reply \in Keys
    BY <1>9 DEF ClaimAnswered, WorkType, Optional
  <2>2. QED
    BY <1>9, <2>1, UpdateTypes DEF ClaimAnswered, FileType
<1>10. CASE BootstrapAnswered
  <2>1. stored' \in Optional /\ managed' \in BOOLEAN
    BY <1>10, IssueFacts, ConstantFacts DEF BootstrapAnswered, FileType
  <2>2. QED
    BY <1>10, <2>1 DEF BootstrapAnswered, FileType
<1>11. CASE AttemptFails
  <2>1. lost' \in BOOLEAN
    BY <1>11 DEF AttemptFails, FileType
  <2>2. QED
    BY <1>11, <2>1 DEF AttemptFails, FileType
<1>12. QED
  BY <1>1, <1>2, <1>3, <1>4, <1>5, <1>6, <1>7, <1>8, <1>9, <1>10, <1>11, CoreFrame DEF Registration, Renewal

Checks == [at : {"idle", "status", "rotate"}, key : Optional, reply : Optional]
Claims == [at : {"idle", "sent"}, key : {None}, reply : Optional]

LEMMA StartType ==
  ASSUME StartApiKeyRenewal, env \in Optional, stored' \in Optional
  PROVE  /\ check' \in Checks /\ check'.reply = None
         /\ check'.at # "idle" => check'.key = IF env # None THEN env ELSE stored'
BY ConstantFacts DEF StartApiKeyRenewal, Resting, Checks

LEMMA WorkTypes ==
  ASSUME TypeOK, Next
  PROVE  WorkType'
<1>0. /\ check \in Checks /\ claim \in Claims /\ VaultType /\ FileType /\ FileType' /\ ApiKey \in Optional
      /\ env \in Optional /\ stored' \in Optional
  BY TypeParts, FileTypes DEF WorkType, Checks, Claims, FileType, ApiKey
<1>1. SUFFICES check' \in Checks /\ claim' \in Claims
  BY DEF WorkType, Checks, Claims
<1>2. Resting \in Checks /\ Resting \in Claims /\ None \in Optional
  BY ConstantFacts DEF Resting, Checks, Claims
<1>3. CASE StartDaemon \/ ExchangeAnswered
  <2>1. check' = check \/ StartApiKeyRenewal
    BY <1>3 DEF StartDaemon, ExchangeAnswered, StartServices
  <2>2. claim' = claim
    BY <1>3 DEF StartDaemon, ExchangeAnswered
  <2>3. QED
    BY <1>0, <2>1, <2>2, StartType
<1>4. CASE DaemonEnds
  BY <1>2, <1>4 DEF DaemonEnds
<1>5. CASE Day \/ StatusAnswered
  <2>1. \A at \in {"status", "rotate"} : [at |-> at, key |-> ApiKey, reply |-> None] \in Checks
    BY <1>0, <1>2 DEF Checks
  <2>2. QED
    BY <1>0, <1>2, <1>5, <2>1 DEF Day, StatusAnswered
<1>6. CASE CheckFails \/ RotateAnswered \/ RotateFails
  BY <1>0, <1>2, <1>6 DEF CheckFails, RotateAnswered, RotateFails
<1>7. CASE VaultRotates
  <2>1. check' = Resting \/ (Issue /\ check' = [check EXCEPT !.reply = issued'])
    BY <1>7 DEF VaultRotates
  <2>2. claim' = claim
    BY <1>7 DEF VaultRotates
  <2>3. Issue => issued' \in Optional
    BY <1>0, IssueFacts, ConstantFacts
  <2>4. QED
    BY <1>0, <1>2, <2>1, <2>2, <2>3 DEF Checks
<1>8. CASE ClaimReprovisionToken
  BY <1>0, <1>2, <1>8 DEF ClaimReprovisionToken, Claims
<1>9. CASE VaultClaims
  <2>1. claim' = Resting \/ (Issue /\ claim' = [claim EXCEPT !.reply = issued'])
    BY <1>9 DEF VaultClaims
  <2>2. check' = check
    BY <1>9 DEF VaultClaims
  <2>3. Issue => issued' \in Optional
    BY <1>0, IssueFacts, ConstantFacts
  <2>4. QED
    BY <1>0, <1>2, <2>1, <2>2, <2>3 DEF Claims
<1>10. CASE ClaimAnswered \/ ClaimFails
  BY <1>0, <1>2, <1>10 DEF ClaimAnswered, ClaimFails
<1>11. QED
  BY <1>0, <1>3, <1>4, <1>5, <1>6, <1>7, <1>8, <1>9, <1>10, WorkFrame DEF Renewal

LEMMA LinkTypes ==
  ASSUME TypeOK, Next
  PROVE  LinkType'
<1> DEFINE States == [on : BOOLEAN, agentId : BOOLEAN, offered : BOOLEAN]
           Links  == [at : {"off", "down", "up", "degraded"}, key : Optional]
<1>0. /\ state \in States /\ link \in Links /\ (link.at = "up" => state.agentId)
      /\ ApiKey \in Optional
  BY TypeParts DEF LinkType, FileType, ApiKey
<1>1. SUFFICES state' \in States /\ link' \in Links /\ (link'.at = "up" => state'.agentId)
  BY DEF LinkType
<1>2. /\ Healthy \in States
      /\ Offline \in Links /\ Offline.at = "down" /\ Closed \in Links /\ Closed.at = "off"
  BY ConstantFacts DEF Healthy, Offline, Closed
<1>3. CASE StartDaemon \/ ExchangeAnswered \/ LinkDrops \/ Reconnect
  <2>1. state' = state /\ link' \in {link, Offline}
    BY <1>3 DEF StartDaemon, ExchangeAnswered, StartServices, LinkDrops, Reconnect
  <2>2. QED
    BY <1>0, <1>2, <2>1
<1>4. CASE DaemonEnds \/ ClaimAnswered
  BY <1>2, <1>4 DEF DaemonEnds, ClaimAnswered
<1>5. CASE LinkUp
  <2>1. state' = [state EXCEPT !.agentId = TRUE] /\ link' = [at |-> "up", key |-> ApiKey]
    BY <1>5 DEF LinkUp
  <2>2. state' \in States /\ state'.agentId
    BY <1>0, <2>1
  <2>3. QED
    BY <1>0, <2>1, <2>2
<1>6. CASE LinkDegraded
  <2>1. PICK named \in BOOLEAN : state' = [state EXCEPT !.on = TRUE, !.agentId = named]
    BY <1>6 DEF LinkDegraded
  <2>2. state' \in States
    BY <1>0, <2>1
  <2>3. link' = [at |-> "degraded", key |-> ApiKey]
    BY <1>6 DEF LinkDegraded
  <2>4. QED
    BY <1>0, <2>2, <2>3
<1>7. CASE OfferArrives
  <2>1. state' = [state EXCEPT !.offered = TRUE] /\ link' = link /\ link.at = "degraded"
    BY <1>7 DEF OfferArrives
  <2>2. state' \in States
    BY <1>0, <2>1
  <2>3. QED
    BY <1>0, <2>1, <2>2
<1>8. QED
  BY <1>0, <1>3, <1>4, <1>5, <1>6, <1>7, LinkFrame

Calls == [at : {"idle", "login", "send", "sleep"}, op : {"poll", "bootstrap"},
          key : Optional, gen : 0..MaxSession \cup {None}, attempt : 0..(MaxRetries - 1)]

LEMMA AuthenticateType ==
  ASSUME TypeOK, NEW op \in {"poll", "bootstrap"}
  PROVE  Authenticate(op) \in Calls /\ (op = "poll" => Authenticate(op).op = "poll")
<1>1. ApiKey \in Optional /\ cached.gen \in 0..MaxSession \cup {None}
  BY TypeParts DEF FileType, ReqType, ApiKey
<1>2. NoCall = [at |-> "idle", op |-> "poll", key |-> None, gen |-> None, attempt |-> 0]
  BY DEF NoCall
<1>3. 0 \in 0..(MaxRetries - 1) /\ None \in Optional
  BY ConstantFacts
<1>4. CASE op = "bootstrap"
  <2>1. Authenticate(op) = [NoCall EXCEPT !.at = "send", !.op = op]
    BY <1>4 DEF Authenticate
  <2>2. QED
    BY <1>2, <1>3, <1>4, <2>1 DEF Calls
<1>5. CASE op = "poll"
  <2>1. Authenticate(op) \in {[NoCall EXCEPT !.at = "send", !.key = ApiKey],
                              [NoCall EXCEPT !.at = "send", !.gen = cached.gen], [NoCall EXCEPT !.at = "login"]}
    BY <1>5 DEF Authenticate
  <2>2. QED
    BY <1>1, <1>2, <1>3, <1>5, <2>1 DEF Calls
<1>6. QED
  BY <1>4, <1>5

LEMMA ReqTypes ==
  ASSUME TypeOK, Next
  PROVE  ReqType'
<1> DEFINE Caches == [gen : 0..MaxSession \cup {None}, live : BOOLEAN]
<1>0. /\ req \in Calls /\ cached \in Caches /\ refused \in BOOLEAN
      /\ session \in 0..MaxSession /\ MaxRetries \in Nat
  BY TypeParts, ConstantFacts DEF ReqType, VaultType, Calls
<1>1. SUFFICES req' \in Calls /\ cached' \in Caches /\ refused' \in BOOLEAN
  BY DEF ReqType, Calls
<1>2. /\ NoCall \in Calls /\ NoToken \in Caches
  BY ConstantFacts DEF NoCall, NoToken, Calls
<1>3. CASE UNCHANGED reqVars
  BY <1>0, <1>3 DEF reqVars
<1>4. CASE DaemonEnds
  BY <1>0, <1>2, <1>4 DEF DaemonEnds
<1>5. CASE Request
  <2>1. cached' = cached /\ refused' = refused
    BY <1>5 DEF Request
  <2>2. req' \in Calls
    BY <1>5, AuthenticateType DEF Request
  <2>3. QED
    BY <1>0, <2>1, <2>2
<1>6. CASE LoginAnswered
  <2>1. /\ cached' = [gen |-> session, live |-> TRUE] /\ refused' = refused
        /\ req' = [req EXCEPT !.at = "send", !.gen = session]
    BY <1>6 DEF LoginAnswered
  <2>2. req' \in Calls
    BY <1>0, <2>1 DEF Calls
  <2>3. QED
    BY <1>0, <2>1, <2>2
<1>7. CASE LoginFails
  <2>1. req' = NoCall /\ refused' = FALSE /\ cached' = cached
    BY <1>7 DEF LoginFails
  <2>2. QED
    BY <1>0, <1>2, <2>1
<1>8. CASE PollAnswered \/ BootstrapAnswered
  <2>1. req' = NoCall /\ cached' = cached
    BY <1>8 DEF PollAnswered, BootstrapAnswered
  <2>2. refused' \in BOOLEAN
    BY <1>8 DEF PollAnswered, BootstrapAnswered
  <2>3. QED
    BY <1>0, <1>2, <2>1, <2>2
<1>9. CASE AttemptFails
  <2>1. CASE req.attempt + 1 < MaxRetries
    <3>1. req' = [req EXCEPT !.at = "sleep", !.attempt = req.attempt + 1] /\ refused' = refused /\ cached' = cached
      BY <1>0, <1>9, <2>1 DEF AttemptFails, Calls
    <3>2. req.attempt + 1 \in 0..(MaxRetries - 1)
      BY <1>0, <2>1 DEF Calls
    <3>3. req' \in Calls
      BY <1>0, <3>1, <3>2 DEF Calls
    <3>4. QED
      BY <1>0, <3>1, <3>3
  <2>2. CASE ~(req.attempt + 1 < MaxRetries)
    <3>1. req' = NoCall /\ refused' = FALSE /\ cached' = cached
      BY <1>9, <2>2 DEF AttemptFails
    <3>2. QED
      BY <1>0, <1>2, <3>1
  <2>3. QED
    BY <2>1, <2>2
<1>10. CASE Retry
  <2>1. req' = [req EXCEPT !.at = "send"] /\ cached' = cached /\ refused' = refused
    BY <1>10 DEF Retry
  <2>2. req' \in Calls
    BY <1>0, <2>1 DEF Calls
  <2>3. QED
    BY <1>0, <2>1, <2>2
<1>11. CASE TokenExpires
  <2>1. cached' = [cached EXCEPT !.live = FALSE] /\ UNCHANGED <<req, refused>>
    BY <1>11 DEF TokenExpires
  <2>2. cached' \in Caches
    BY <1>0, <2>1
  <2>3. QED
    BY <1>0, <2>1, <2>2
<1>12. CASE DropSessions
  BY <1>0, <1>12 DEF DropSessions, reqVars
<1>13. QED
  BY <1>3, <1>4, <1>5, <1>6, <1>7, <1>8, <1>9, <1>10, <1>11, <1>12, ReqFrame DEF Requests

(* What an operation uses up of the bounds, and which days it counts. *)
LEMMA CountFrame ==
  ASSUME Next
  PROVE  /\ \/ UNCHANGED bounds
            \/ Fault /\ UNCHANGED <<stops, revokes>>
            \/ stops < MaxStops /\ stops' = stops + 1 /\ UNCHANGED <<faults, revokes>>
            \/ revokes < MaxRevokes /\ revokes' = revokes + 1 /\ UNCHANGED <<faults, stops>>
         /\ idle' = idle \/ Day
<1> USE DEF bounds, ghosts
<1>1. CASE Registration
  BY <1>1 DEF Registration, StartDaemon, ExchangeAnswered, ExchangeFails, DaemonEnds
<1>2. CASE Renewal
  BY <1>2 DEF Renewal, Day, StatusAnswered, CheckFails, VaultRotates, RotateAnswered, RotateFails
<1>3. CASE Degraded
  BY <1>3 DEF Degraded, Revoke, Offer, LinkUp, LinkDegraded, LinkDrops, OfferArrives, ClaimReprovisionToken,
              VaultClaims, ClaimAnswered, Reconnect, ClaimFails
<1>4. CASE Requests
  BY <1>4 DEF Requests, Request, LoginAnswered, LoginFails, PollAnswered, BootstrapAnswered, AttemptFails,
              Retry, TokenExpires, DropSessions
<1>5. QED
  BY <1>1, <1>2, <1>3, <1>4 DEF Next

LEMMA CountTypes ==
  ASSUME TypeOK, Next
  PROVE  /\ CountType' /\ faults' >= faults /\ stops' >= stops
         /\ {faults, stops, faults', stops'} \subseteq Nat
<1>1. CountType
  BY TypeParts
<1>2. CASE UNCHANGED bounds
  BY <1>1, <1>2, ConstantFacts DEF CountType, bounds
<1>3. CASE Fault /\ UNCHANGED <<stops, revokes>>
  BY <1>1, <1>3, FaultFacts, ConstantFacts DEF CountType
<1>4. CASE stops < MaxStops /\ stops' = stops + 1 /\ UNCHANGED <<faults, revokes>>
  BY <1>1, <1>4, ConstantFacts DEF CountType
<1>5. CASE revokes < MaxRevokes /\ revokes' = revokes + 1 /\ UNCHANGED <<faults, stops>>
  BY <1>1, <1>5, ConstantFacts DEF CountType
<1>6. QED
  BY <1>2, <1>3, <1>4, <1>5, CountFrame

(* The lives of n keys. *)
LEMMA Lives ==
  ASSUME NEW n \in Nat
  PROVE  (n + 1) * Life \in Nat /\ (n + 2) * Life = (n + 1) * Life + Life
BY ConstantFacts

LEMMA LivesGrow ==
  ASSUME NEW n \in 0..MaxKey
  PROVE  (n + 1) * Life <= (MaxKey + 1) * Life
BY ConstantFacts

LEMMA Between ==
  ASSUME NEW a \in Int, NEW b \in Int, NEW c \in Int, a <= b, b <= c
  PROVE  a <= c
OBVIOUS

LEMMA Within ==
  ASSUME NEW a \in Nat, NEW b \in Nat, NEW c \in Int, a + b <= c
  PROVE  a <= c
OBVIOUS

LEMMA OneDay ==
  ASSUME NEW a \in Nat, NEW b \in Int, NEW c \in Int, a + b <= c
  PROVE  a + (b - 1) <= c /\ (a + 1) + (b - 1) <= c
OBVIOUS

LEMMA IdleNat == IdleType => idle \in Nat
<1>1. (MaxKey + 1) * Life \in Nat
  BY Lives, ConstantFacts
<1>2. QED
  BY <1>1 DEF IdleType

LEMMA VaultIdled ==
  ASSUME TypeOK, Idled, Next
  PROVE  Idled'
<1>0. VaultType
  BY TypeParts
<1>1. issued \in Nat /\ days \in Nat /\ Life \in Nat
  BY <1>0, ConstantFacts DEF VaultType
<1> idle \in Nat
  BY TypeParts, IdleNat
<1>2. idle + days <= (issued + 1) * Life /\ (issued + 1) * Life \in Nat
  BY <1>1, Lives DEF Idled
<1>3. CASE Day
  <2>1. idle' \in {idle, idle + 1} /\ days' = days - 1 /\ issued' = issued
    BY <1>3 DEF Day
  <2>2. idle + (days - 1) <= (issued + 1) * Life /\ (idle + 1) + (days - 1) <= (issued + 1) * Life
    BY <1>1, <1>2, OneDay
  <2>3. QED
    BY <2>1, <2>2 DEF Idled
<1>4. CASE Issue /\ idle' = idle
  <2>1. issued' = issued + 1 /\ days' = Life
    BY <1>0, <1>4, IssueFacts
  <2>2. (issued + 2) * Life = (issued + 1) * Life + Life /\ (issued + 1) + 1 = issued + 2
    BY <1>1, Lives
  <2>3. idle + Life <= (issued + 2) * Life
    BY <1>1, <1>2, <2>2
  <2>4. QED
    BY <1>4, <2>1, <2>2, <2>3 DEF Idled
<1>5. CASE UNCHANGED <<issued, days, idle>>
  BY <1>2, <1>5 DEF Idled
<1>6. CASE Revoke \/ Offer \/ DropSessions
  <2>1. UNCHANGED <<issued, days, idle>>
    BY <1>6 DEF Revoke, Offer, DropSessions, ghosts
  <2>2. QED
    BY <1>5, <2>1
<1>7. QED
  BY <1>3, <1>4, <1>5, <1>6, VaultFrame, CountFrame DEF Issues

LEMMA IdleTypes ==
  ASSUME TypeOK, Idled, Next
  PROVE  IdleType'
<1>1. idle' \in Nat
  <2>1. idle \in Nat
    BY TypeParts, IdleNat
  <2>2. idle' \in {idle, idle + 1}
    BY CountFrame DEF Day
  <2>3. QED
    BY <2>1, <2>2
<1>2. issued' \in 0..MaxKey /\ days' \in Nat /\ idle' + days' <= (issued' + 1) * Life
  BY VaultTypes, VaultIdled, ConstantFacts DEF VaultType, Idled, Keys
<1>3. (issued' + 1) * Life <= (MaxKey + 1) * Life
  BY <1>2, LivesGrow
<1>4. (issued' + 1) * Life \in Nat /\ (MaxKey + 1) * Life \in Nat
  <2>1. issued' \in Nat /\ MaxKey \in Nat
    BY <1>2, ConstantFacts
  <2>2. QED
    BY <2>1, Lives
<1>5. idle' <= (issued' + 1) * Life
  BY <1>1, <1>2, <1>4, Within
<1>6. idle' <= (MaxKey + 1) * Life
  BY <1>1, <1>3, <1>4, <1>5, Between
<1>7. QED
  BY <1>1, <1>4, <1>6 DEF IdleType

LEMMA TypeStep ==
  ASSUME TypeOK, Idled, Next
  PROVE  TypeOK'
<1>1. VaultType' /\ FileType' /\ WorkType' /\ LinkType' /\ ReqType' /\ CountType' /\ IdleType'
  BY VaultTypes, FileTypes, WorkTypes, LinkTypes, ReqTypes, CountTypes, IdleTypes
<1>2. QED
  BY <1>1 DEF TypeOK, VaultType, FileType, WorkType, LinkType, ReqType, CountType, IdleType, Optional
-----------------------------------------------------------------------------
(* Who works in which state of the daemon. *)
LEMMA RunningStep ==
  ASSUME TypeOK, Running, Next
  PROVE  Running'
<1> USE DEF fileVars, keyVars, ghosts, vaultVars
<1>0. /\ Resting.at = "idle" /\ Resting.reply = None
      /\ check \in Checks /\ claim \in Claims /\ stored \in Optional /\ env \in Optional /\ VaultType
  BY TypeParts DEF Resting, WorkType, FileType, Checks, Claims
<1> DEFINE Working == /\ daemon' # "up" => check' = Resting /\ claim' = Resting /\ ~renewed'
                      /\ check'.reply # None => check'.at = "rotate"
                      /\ claim'.reply # None => claim'.at = "sent"
           Calling == req'.op = "bootstrap" => daemon' = "down" /\ req'.at # "idle"
<1>1. SUFFICES Working /\ Calling
  BY DEF Running
<1>2. Working
  <2>1. CASE Aside \/ Revoke \/ BootstrapAnswered \/ AttemptFails
    BY <2>1 DEF Aside, Revoke, BootstrapAnswered, AttemptFails, Running
  <2>2. CASE StartDaemon
    <3>1. daemon = "down" /\ claim' = claim /\ renewed' = renewed
      BY <2>2 DEF StartDaemon
    <3>2. \/ daemon' = "exchange" /\ check' = check
          \/ daemon' = "up" /\ StartApiKeyRenewal /\ stored' = stored
      BY <2>2 DEF StartDaemon, StartServices
    <3>3. QED
      BY <1>0, <3>1, <3>2, StartType DEF Running
  <2>3. CASE ExchangeAnswered
    <3>1. daemon' = "up" /\ StartApiKeyRenewal /\ claim' = claim /\ stored' = issued' /\ Issue
      BY <2>3 DEF ExchangeAnswered, StartServices
    <3>2. check'.reply = None
      BY <1>0, <3>1, StartType, IssueFacts, ConstantFacts
    <3>3. QED
      BY <3>1, <3>2 DEF Running
  <2>4. CASE ExchangeFails \/ DaemonEnds
    BY <1>0, <2>4 DEF ExchangeFails, DaemonEnds, Running
  <2>5. CASE Day \/ StatusAnswered
    BY <1>0, <2>5 DEF Day, StatusAnswered, Renewing, Running
  <2>6. CASE CheckFails \/ RotateFails
    BY <1>0, <2>6 DEF CheckFails, RotateFails, Running
  <2>7. CASE RotateAnswered
    BY <1>0, <2>7 DEF RotateAnswered, Running
  <2>8. CASE VaultRotates
    <3>1. check.at = "rotate" /\ UNCHANGED <<daemon, claim, renewed>>
      BY <2>8 DEF VaultRotates
    <3>2. check' = Resting \/ check' = [check EXCEPT !.reply = issued']
      BY <2>8 DEF VaultRotates
    <3>3. check'.at = "rotate" \/ check' = Resting
      BY <1>0, <3>1, <3>2 DEF Checks
    <3>4. QED
      BY <1>0, <3>1, <3>3 DEF Running
  <2>9. CASE VaultClaims
    <3>1. claim.at = "sent" /\ UNCHANGED <<daemon, check, renewed>>
      BY <2>9 DEF VaultClaims
    <3>2. claim' = Resting \/ claim' = [claim EXCEPT !.reply = issued']
      BY <2>9 DEF VaultClaims
    <3>3. claim'.at = "sent" \/ claim' = Resting
      BY <1>0, <3>1, <3>2 DEF Claims
    <3>4. QED
      BY <1>0, <3>1, <3>3 DEF Running
  <2>10. CASE ClaimReprovisionToken \/ ClaimAnswered \/ ClaimFails
    BY <1>0, <2>10 DEF ClaimReprovisionToken, ClaimAnswered, ClaimFails, Running
  <2>11. QED
    BY <2>1, <2>2, <2>3, <2>4, <2>5, <2>6, <2>7, <2>8, <2>9, <2>10, CoreFrame DEF Registration, Renewal
<1>3. Calling
  <2>1. NoCall.op = "poll"
    BY DEF NoCall
  <2>2. CASE Registration
    BY <2>1, <2>2 DEF Registration, StartDaemon, ExchangeAnswered, ExchangeFails, DaemonEnds, Running, reqVars
  <2>3. CASE Renewal
    BY <2>3 DEF Renewal, Day, StatusAnswered, CheckFails, VaultRotates, RotateAnswered, RotateFails, Running, reqVars
  <2>4. CASE Degraded
    BY <2>4 DEF Degraded, Revoke, Offer, LinkUp, LinkDegraded, LinkDrops, OfferArrives, ClaimReprovisionToken,
                VaultClaims, ClaimAnswered, Reconnect, ClaimFails, Running, reqVars
  <2>5. CASE Request
    <3>1. CASE daemon = "up" /\ req' = Authenticate("poll")
      BY <3>1, AuthenticateType
    <3>2. CASE daemon = "down" /\ req' = Authenticate("bootstrap")
      <4>1. Authenticate("bootstrap") = [NoCall EXCEPT !.at = "send", !.op = "bootstrap"]
        BY DEF Authenticate
      <4>2. Authenticate("bootstrap").at = "send"
        BY <4>1 DEF NoCall
      <4>3. QED
        BY <2>5, <3>2, <4>2 DEF Request
    <3>3. QED
      BY <2>5, <3>1, <3>2 DEF Request
  <2>6. CASE Requests /\ ~Request
    <3>1. daemon' = daemon
      BY <2>6 DEF Requests, LoginAnswered, LoginFails, PollAnswered, BootstrapAnswered, AttemptFails, Retry,
                  TokenExpires, DropSessions
    <3>2. \/ req' = NoCall \/ req' = req
          \/ req' = [req EXCEPT !.at = "send", !.gen = session] \/ req' = [req EXCEPT !.at = "send"]
          \/ req' = [req EXCEPT !.at = "sleep", !.attempt = req.attempt + 1]
      BY <2>6 DEF Requests, LoginAnswered, LoginFails, PollAnswered, BootstrapAnswered, AttemptFails, Retry,
                  TokenExpires, DropSessions, reqVars
    <3>3. req \in Calls
      BY TypeParts DEF ReqType, Calls
    <3>4. req' = NoCall \/ (req'.op = req.op /\ (req'.at # "idle" \/ req'.at = req.at))
      BY <3>2, <3>3 DEF Calls
    <3>5. QED
      BY <2>1, <3>1, <3>4 DEF Running
  <2>7. QED
    BY <2>2, <2>3, <2>4, <2>5, <2>6 DEF Next
<1>4. QED
  BY <1>2, <1>3

(* The file and the environment hold the same key once the daemon has stored one. *)
LEMMA EnvironmentStep ==
  ASSUME TypeOK, Running, Environment, Next
  PROVE  Environment'
<1> USE DEF fileVars, keyVars, ghosts
<1>1. CASE UNCHANGED <<stored, env, renewed, unit>>
  BY <1>1 DEF Environment
<1>2. CASE Aside \/ StartDaemon \/ ExchangeFails \/ Day \/ StatusAnswered \/ CheckFails \/ VaultRotates
             \/ RotateFails \/ Revoke \/ ClaimReprovisionToken \/ VaultClaims \/ ClaimFails \/ AttemptFails
  <2>1. UNCHANGED <<stored, env, renewed, unit>>
    BY <1>2 DEF Aside, StartDaemon, StartServices, ExchangeFails, Day, StatusAnswered, CheckFails, VaultRotates,
                RotateFails, Revoke, ClaimReprovisionToken, VaultClaims, ClaimFails, AttemptFails
  <2>2. QED
    BY <1>1, <2>1
<1>3. CASE ExchangeAnswered \/ BootstrapAnswered
  <2>1. daemon # "up" /\ UNCHANGED <<env, renewed, unit>>
    BY <1>3 DEF ExchangeAnswered, BootstrapAnswered, Running
  <2>2. QED
    BY <2>1 DEF Running, Environment
<1>4. CASE RotateAnswered \/ ClaimAnswered
  BY <1>4 DEF RotateAnswered, ClaimAnswered, UpdateApiKey, Environment
<1>5. CASE DaemonEnds
  BY <1>5 DEF DaemonEnds, Environment
<1>6. QED
  BY <1>2, <1>3, <1>4, <1>5, CoreFrame DEF Registration, Renewal

LEMMA FreshStep ==
  ASSUME TypeOK, Running, Fresh, Next
  PROVE  Fresh'
<1> USE DEF fileVars, keyVars, ghosts, vaultVars
<1>0. VaultType /\ check \in Checks /\ claim \in Claims /\ stored \in Optional /\ env \in Optional
      /\ Resting.reply = None
  BY TypeParts DEF WorkType, FileType, Checks, Claims, Resting
<1>1. CASE Issue
  BY <1>0, <1>1, IssueFacts DEF Fresh
<1>2. CASE ~Issue /\ days' = days
  <2>1. SUFFICES check'.reply \in {None, check.reply} /\ claim'.reply \in {None, claim.reply}
    BY <1>2 DEF Fresh
  <2>2. CASE UNCHANGED <<check, claim>>
    BY <2>2
  <2>3. CASE StartDaemon
    <3>1. (check' = check \/ StartApiKeyRenewal) /\ claim' = claim /\ stored' = stored
      BY <2>3 DEF StartDaemon, StartServices
    <3>2. QED
      BY <1>0, <3>1, StartType
  <2>4. CASE ExchangeAnswered
    BY <1>2, <2>4 DEF ExchangeAnswered
  <2>5. CASE VaultRotates \/ VaultClaims
    BY <1>0, <1>2, <2>5 DEF VaultRotates, VaultClaims
  <2>6. CASE DaemonEnds \/ Day \/ StatusAnswered \/ CheckFails \/ RotateAnswered \/ RotateFails
             \/ ClaimReprovisionToken \/ ClaimAnswered \/ ClaimFails
    BY <1>0, <2>6 DEF DaemonEnds, Day, StatusAnswered, CheckFails, RotateAnswered, RotateFails,
                      ClaimReprovisionToken, ClaimAnswered, ClaimFails
  <2>7. QED
    BY <2>2, <2>3, <2>4, <2>5, <2>6, WorkFrame DEF Renewal
<1>3. CASE Day
  <2>1. check.reply = None /\ claim.reply = None
    BY <1>3 DEF Day, Running
  <2>2. check'.reply = None /\ claim'.reply = None
    BY <1>3, <2>1 DEF Day
  <2>3. QED
    BY <2>2 DEF Fresh
<1>4. CASE Revoke \/ Offer \/ DropSessions
  BY <1>4 DEF Revoke, Offer, DropSessions, Fresh, reqVars
<1>5. QED
  BY <1>1, <1>2, <1>3, <1>4, VaultFrame DEF Issues

(* A key of the vault goes from the request to the file, or its loss is noted. *)
LEMMA ReachStep ==
  ASSUME TypeOK, Running, Reach, Next
  PROVE  Reach'
<1> USE DEF fileVars, keyVars, ghosts, vaultVars
<1>0. /\ VaultType /\ check \in Checks /\ claim \in Claims /\ lost \in BOOLEAN
      /\ Resting.at = "idle" /\ Resting.reply = None
  BY TypeParts DEF WorkType, FileType, Checks, Claims, Resting
<1>1. CASE Aside \/ ClaimReprovisionToken \/ Revoke
  <2>1. CASE Aside
    BY <2>1 DEF Aside, Reach
  <2>2. CASE ClaimReprovisionToken
    BY <1>0, <2>2 DEF ClaimReprovisionToken, Reach, Running
  <2>3. CASE Revoke
    BY <2>3 DEF Revoke, Reach
  <2>4. QED
    BY <1>1, <2>1, <2>2, <2>3
<1>2. CASE StartDaemon
  <2>1. check.reply = None /\ UNCHANGED <<valid, stored, claim, lost>>
    BY <1>0, <1>2 DEF StartDaemon, Running
  <2>2. QED
    BY <2>1 DEF Reach
<1>3. CASE ExchangeAnswered \/ (BootstrapAnswered /\ token = "unused")
  <2>1. Issue /\ stored' = issued'
    BY <1>3 DEF ExchangeAnswered, BootstrapAnswered
  <2>2. QED
    BY <1>0, <2>1, IssueFacts DEF Reach
<1>4. CASE ExchangeFails \/ AttemptFails
  <2>1. lost' \/ UNCHANGED <<valid, stored, check, claim, lost>>
    BY <1>4 DEF ExchangeFails, AttemptFails
  <2>2. QED
    BY <2>1 DEF Reach
<1>5. CASE BootstrapAnswered /\ token # "unused"
  BY <1>5 DEF BootstrapAnswered, Reach
<1>6. CASE DaemonEnds
  <2>1. \/ lost'
        \/ valid \notin {check.reply, claim.reply} \ {None} /\ ~lost /\ UNCHANGED <<valid, stored>>
    BY <1>0, <1>6 DEF DaemonEnds
  <2>2. QED
    BY <2>1 DEF Reach
<1>7. CASE Day \/ StatusAnswered \/ CheckFails
  <2>1. check.reply = None /\ UNCHANGED <<valid, stored, claim, lost>>
    BY <1>0, <1>7 DEF Day, StatusAnswered, CheckFails, Running
  <2>2. QED
    BY <2>1 DEF Reach
<1>8. CASE VaultRotates
  <2>1. CASE Issue /\ check' = [check EXCEPT !.reply = issued']
    BY <1>0, <2>1, IssueFacts DEF Reach, Checks
  <2>2. CASE check' = Resting /\ UNCHANGED <<issued, valid, days>>
    BY <1>8, <2>2 DEF VaultRotates, Reach
  <2>3. QED
    BY <1>8, <2>1, <2>2 DEF VaultRotates
<1>9. CASE VaultClaims
  <2>1. CASE Issue /\ claim' = [claim EXCEPT !.reply = issued']
    BY <1>0, <2>1, IssueFacts DEF Reach, Claims
  <2>2. CASE claim' = Resting /\ UNCHANGED <<issued, valid, days>>
    BY <1>9, <2>2 DEF VaultClaims, Reach
  <2>3. QED
    BY <1>9, <2>1, <2>2 DEF VaultClaims
<1>10. CASE RotateAnswered
  <2>1. /\ stored' = check.reply /\ UNCHANGED <<valid, claim>>
        /\ lost' = (lost \/ (stored = valid /\ valid # None /\ check.reply # valid))
    BY <1>10 DEF RotateAnswered, UpdateApiKey
  <2>2. QED
    BY <1>0, <2>1 DEF Reach
<1>11. CASE ClaimAnswered
  <2>1. /\ stored' = claim.reply /\ UNCHANGED <<valid, check>>
        /\ lost' = (lost \/ (stored = valid /\ valid # None /\ claim.reply # valid))
    BY <1>11 DEF ClaimAnswered, UpdateApiKey
  <2>2. QED
    BY <1>0, <2>1 DEF Reach
<1>12. CASE RotateFails
  <2>1. UNCHANGED <<valid, stored, claim>> /\ lost' = (lost \/ check.reply = valid)
    BY <1>12 DEF RotateFails
  <2>2. QED
    BY <1>0, <2>1 DEF Reach
<1>13. CASE ClaimFails
  <2>1. UNCHANGED <<valid, stored, check>> /\ lost' = (lost \/ claim.reply # None)
    BY <1>13 DEF ClaimFails
  <2>2. QED
    BY <1>0, <2>1 DEF Reach
<1>14. QED
  BY <1>1, <1>2, <1>3, <1>4, <1>5, <1>6, <1>7, <1>8, <1>9, <1>10, <1>11, <1>12, <1>13, CoreFrame
     DEF Registration, Renewal
-----------------------------------------------------------------------------
(* The days of a key and what accounts for them. *)
LEMMA SpanFacts ==
  /\ \A d \in 0..Life : Span(d) \in Int
  /\ Span(0) = Span(1)
  /\ \A d \in 2..Life : d - 1 = Threshold => Span(d - 1) = 1
  /\ \A d \in 2..Threshold : Span(d - 1) = Span(d) + 1
BY ConstantFacts DEF Span

LEMMA SumFacts ==
  \A f, i, s, f2, i2, s2 \in Nat :
    /\ f + i + s \in Nat
    /\ f2 >= f /\ i2 >= i /\ s2 >= s => f2 + i2 + s2 >= f + i + s
    /\ f2 = f + 1 /\ i2 >= i /\ s2 >= s => f2 + i2 + s2 >= f + i + s + 1
    /\ f2 >= f /\ i2 = i + 1 /\ s2 >= s => f2 + i2 + s2 >= f + i + s + 1
    /\ f2 >= f /\ i2 >= i /\ s2 = s + 1 => f2 + i2 + s2 >= f + i + s + 1
OBVIOUS

LEMMA AccountGrows ==
  ASSUME TypeOK, Idled, Next
  PROVE  /\ Account \in Nat /\ Account' \in Nat /\ Account' >= Account
         /\ (Fault \/ stops' = stops + 1 \/ idle' = idle + 1) => Account' >= Account + 1
<1>1. {faults, idle, stops, faults', idle', stops'} \subseteq Nat
  <2>1. idle \in Nat /\ idle' \in Nat
    <3>1. idle \in Nat
      BY TypeParts, IdleNat
    <3>2. idle' \in {idle, idle + 1}
      BY CountFrame DEF Day
    <3>3. QED
      BY <3>1, <3>2
  <2>2. QED
    BY <2>1, CountTypes
<1>2. faults' >= faults /\ stops' >= stops /\ idle' >= idle
  <2>1. idle' \in {idle, idle + 1}
    BY CountFrame DEF Day
  <2>2. QED
    BY <1>1, <2>1, CountTypes
<1>3. Fault => faults' = faults + 1
  BY DEF Fault
<1>4. QED
  BY <1>1, <1>2, <1>3, SumFacts DEF Account

(* The key a daemon works with, when the one in the file is due. *)
LEMMA DueKey ==
  ASSUME TypeOK, Environment, Due
  PROVE  ApiKey = valid /\ ApiKey # None /\ env \in {None, valid} /\ stored = valid
BY DEF Due, Environment, ApiKey

LEMMA TodayFacts ==
  ASSUME VaultType
  PROVE  Today \in {0, 1} /\ (days = 0 \/ check.at = "idle" => Today = 0)
BY ConstantFacts DEF Today, VaultType

(* Without a new key and on the same day, today's check stays or is paid for. *)
LEMMA CountedKept ==
  ASSUME TypeOK, Idled, Counted, Next,
         UNCHANGED <<valid, days, stored, managed, unit>>,
         Due => (check'.at # "idle" => check'.key = valid),
         Due => (Today' >= Today \/ Fault \/ stops' = stops + 1)
  PROVE  Counted'
<1>1. SUFFICES ASSUME Due PROVE Span(days) <= Account' + Today'
  BY DEF Counted, Due
<1>2. Span(days) <= Account + Today
  BY <1>1 DEF Counted
<1>3. /\ Today \in {0, 1} /\ Today' \in {0, 1} /\ Span(days) \in Int
      /\ Account \in Nat /\ Account' \in Nat
  BY TypeParts, VaultTypes, TodayFacts, SpanFacts, AccountGrows DEF VaultType, Today
<1>4. /\ Account' >= Account
      /\ Today' >= Today \/ Account' >= Account + 1
  BY <1>1, AccountGrows
<1>5. \A a, a2 \in Nat, t, t2 \in {0, 1}, s \in Int :
        s <= a + t /\ a2 >= a /\ (t2 >= t \/ a2 >= a + 1) => s <= a2 + t2
  OBVIOUS
<1>6. QED
  BY <1>2, <1>3, <1>4, <1>5

(* A new key is not due, nor is one on its way. *)
LEMMA NotDue ==
  ASSUME VaultType, Issue \/ valid' = None \/ (days = Life /\ days' = days)
  PROVE  Counted'
<1>1. ~Due'
  BY IssueFacts, ConstantFacts DEF Due, VaultType
<1>2. QED
  BY <1>1 DEF Counted

(* A day of a key that is due costs a check, or is counted as idle. *)
LEMMA CountedDay ==
  ASSUME TypeOK, Running, Environment, Idled, Counted, Day
  PROVE  Counted'
<1>0. Next /\ VaultType /\ Life \in Nat /\ Threshold \in Nat /\ 1 <= Threshold
  BY TypeParts, ConstantFacts DEF Next, Renewal
<1>1. /\ days \in 1..Life /\ days' = days - 1 /\ check.at = "idle"
      /\ UNCHANGED <<valid, stored, managed, unit, env>>
  BY <1>0, ConstantFacts DEF Day, VaultType, fileVars
<1>2. SUFFICES ASSUME Due'
               PROVE  /\ check'.at # "idle" => check'.key = valid
                      /\ Span(days - 1) <= Account' + Today'
  BY <1>1 DEF Counted
<1>3. valid # None /\ stored = valid /\ ~managed /\ unit = None /\ days - 1 <= Threshold
  BY <1>1, <1>2 DEF Due
<1>4. ApiKey = valid
  BY <1>3 DEF Environment, ApiKey
<1>5. check'.at # "idle" => check'.key = valid
  BY <1>1, <1>4 DEF Day
<1>6. /\ Account \in Nat /\ Account' \in Nat /\ Account' >= Account
      /\ idle' = idle + 1 => Account' >= Account + 1
      /\ Today' \in {0, 1}
  BY <1>0, AccountGrows, VaultTypes, TodayFacts DEF Today
<1>7. days <= Threshold => Span(days) <= Account
  <2>1. ASSUME days <= Threshold PROVE Span(days) <= Account + Today
    BY <1>3, <2>1 DEF Due, Counted
  <2>2. Today = 0 /\ Span(days) \in Int
    BY <1>0, <1>1, TodayFacts, SpanFacts
  <2>3. QED
    BY <1>6, <2>1, <2>2
<1>8. CASE days = 1
  <2>1. Span(days - 1) = Span(days) /\ Span(days) <= Account /\ Span(days) \in Int
    BY <1>0, <1>7, <1>8, SpanFacts
  <2>2. QED
    BY <1>5, <1>6, <2>1
<1>9. CASE days > 1
  <2>1. days - 1 \in 1..Threshold /\ days \in 2..Life
    BY <1>1, <1>3, <1>9, <1>0
  <2>2. Span(days - 1) <= Account + 1 /\ Span(days - 1) \in Int
    <3>1. CASE days - 1 = Threshold
      BY <1>6, <2>1, <3>1, SpanFacts
    <3>2. CASE days - 1 < Threshold
      <4>1. days \in 2..Threshold /\ days \in 0..Life
        BY <1>0, <2>1, <3>2
      <4>2. Span(days - 1) = Span(days) + 1 /\ Span(days) <= Account /\ Span(days) \in Int
        BY <1>7, <4>1, SpanFacts
      <4>3. QED
        BY <1>6, <4>2
    <3>3. QED
      BY <1>0, <2>1, <3>1, <3>2
  <2> \A a, a2 \in Nat, t \in {0, 1} : a2 >= a + 1 \/ (a2 >= a /\ t = 1) => a2 + t >= a + 1
    OBVIOUS
  <2>3. Account' + Today' >= Account + 1
    <3>1. CASE Renewing
      <4>1. check'.at = "status" /\ days' > 0
        BY <1>1, <2>1, <3>1 DEF Day
      <4>2. Today' = 1
        BY <4>1 DEF Today
      <4>3. QED
        BY <1>6, <4>2
    <3>2. CASE ~Renewing
      <4>1. idle' = idle + 1
        BY <1>1, <2>1, <3>2 DEF Day
      <4>2. QED
        BY <1>6, <4>1
    <3>3. QED
      BY <3>1, <3>2
  <2>4. \A s \in Int, a, a2 \in Nat, t \in {0, 1} : s <= a + 1 /\ a2 + t >= a + 1 => s <= a2 + t
    OBVIOUS
  <2>5. QED
    BY <1>5, <1>6, <2>2, <2>3, <2>4
<1>10. QED
  BY <1>1, <1>8, <1>9

LEMMA CountedStep ==
  ASSUME TypeOK, Running, Environment, Fresh, Idled, Counted, Next
  PROVE  Counted'
<1> USE DEF fileVars, keyVars, ghosts, vaultVars
<1>0. /\ VaultType /\ check \in Checks /\ claim \in Claims /\ stored \in Optional /\ env \in Optional
      /\ Today \in {0, 1} /\ Today' \in {0, 1} /\ Resting.at = "idle"
  BY TypeParts, VaultTypes, TodayFacts DEF WorkType, FileType, Checks, Claims, Resting, Today
<1>1. CASE Issue
  BY <1>0, <1>1, NotDue
<1>2. CASE UNCHANGED <<valid, days, stored, managed, unit, check>>
  <2>1. Today' = Today
    BY <1>2 DEF Today
  <2>2. QED
    BY <1>0, <1>2, <2>1, CountedKept DEF Counted
<1>3. CASE Aside \/ ClaimReprovisionToken \/ ClaimFails
  BY <1>2, <1>3 DEF Aside, ClaimReprovisionToken, ClaimFails
<1>4. CASE ExchangeFails \/ AttemptFails \/ BootstrapAnswered \/ VaultClaims
  BY <1>1, <1>2, <1>4 DEF ExchangeFails, AttemptFails, BootstrapAnswered, VaultClaims
<1>5. CASE StartDaemon
  <2>1. daemon = "down" /\ UNCHANGED <<valid, days, stored, managed, unit, env>>
    BY <1>5 DEF StartDaemon
  <2>2. Today = 0
    BY <1>0, <2>1, TodayFacts DEF Running
  <2>3. check' = Resting \/ StartApiKeyRenewal
    BY <1>5, <2>1 DEF StartDaemon, StartServices, Running
  <2>4. Due => (check'.at # "idle" => check'.key = valid)
    BY <1>0, <2>1, <2>3, StartType, DueKey
  <2>5. QED
    BY <1>0, <2>1, <2>2, <2>4, CountedKept
<1>6. CASE ExchangeAnswered
  BY <1>1, <1>6 DEF ExchangeAnswered
<1>7. CASE DaemonEnds /\ ~Issue
  <2>1. UNCHANGED <<valid, days, stored, managed, unit>> /\ check' = Resting /\ stops' = stops + 1
    BY <1>7 DEF DaemonEnds
  <2>2. QED
    BY <1>0, <2>1, CountedKept
<1>8. CASE Day
  BY <1>8, CountedDay
<1>9. CASE StatusAnswered
  <2>1. /\ UNCHANGED <<valid, days, stored, managed, unit>> /\ check.at = "status"
        /\ check' = IF Accepts(check.key) /\ days <= Threshold /\ ApiKey # None
                    THEN [at |-> "rotate", key |-> ApiKey, reply |-> None] ELSE Resting
    BY <1>9 DEF StatusAnswered
  <2>2. Due => (check'.at # "idle" => check'.key = valid)
    BY <1>0, <2>1, DueKey
  <2>3. ASSUME Due PROVE Today' >= Today
    <3>1. CASE days > 0
      <4>1. check.key = valid /\ Accepts(check.key) /\ days <= Threshold /\ ApiKey # None
        BY <2>1, <2>3, <3>1, DueKey DEF Counted, Due, Accepts
      <4>2. check'.at = "rotate"
        BY <2>1, <4>1
      <4>3. Today' = 1
        BY <2>1, <3>1, <4>2 DEF Today
      <4>4. QED
        BY <1>0, <4>3
    <3>2. CASE ~(days > 0)
      <4>1. Today = 0
        BY <3>2 DEF Today
      <4>2. QED
        BY <1>0, <4>1
    <3>3. QED
      BY <3>1, <3>2
  <2>4. QED
    BY <2>1, <2>2, <2>3, CountedKept
<1>10. CASE CheckFails
  <2>1. UNCHANGED <<valid, days, stored, managed, unit>> /\ check' = Resting /\ Fault
    BY <1>10 DEF CheckFails
  <2>2. QED
    BY <1>0, <2>1, CountedKept
<1>11. CASE VaultRotates /\ ~Issue
  <2>1. UNCHANGED <<valid, days, stored, managed, unit>> /\ check' = Resting
        /\ ~Accepts(check.key) /\ check.at = "rotate"
    BY <1>11 DEF VaultRotates
  <2>2. ASSUME Due PROVE Today = 0
    <3>1. check.key = valid /\ valid # None
      BY <2>1, <2>2 DEF Counted, Due
    <3>2. ~(days > 0)
      BY <2>1, <3>1 DEF Accepts
    <3>3. QED
      BY <3>2 DEF Today
  <2>3. QED
    BY <1>0, <2>1, <2>2, CountedKept
<1>12. CASE RotateAnswered \/ RotateFails \/ ClaimAnswered
  <2>1. days = Life /\ days' = days
    BY <1>12 DEF RotateAnswered, RotateFails, ClaimAnswered, Fresh
  <2>2. QED
    BY <1>0, <2>1, NotDue
<1>13. CASE Revoke
  BY <1>0, <1>13, NotDue DEF Revoke
<1>14. QED
  BY <1>1, <1>3, <1>4, <1>5, <1>6, <1>7, <1>8, <1>9, <1>10, <1>11, <1>12, <1>13, CoreFrame
     DEF Registration, Renewal
-----------------------------------------------------------------------------
LEMMA InitIInv == Init => IInv
<1> SUFFICES ASSUME Init PROVE IInv
  OBVIOUS
<1>1. VaultType
  BY ConstantFacts DEF Init, VaultType
<1>2. FileType
  <2>1. valid \in Optional /\ unit \in Optional
    BY ConstantFacts DEF Init
  <2>2. managed \in BOOLEAN /\ lost \in BOOLEAN /\ renewed \in BOOLEAN
    BY DEF Init
  <2>3. pending \in BOOLEAN
    BY DEF Init
  <2>4. QED
    BY <2>1, <2>2, <2>3 DEF Init, FileType
<1>3. WorkType /\ LinkType
  <2>1. state = Healthy /\ link = Closed /\ check = Resting /\ claim = Resting
    BY DEF Init
  <2>2. QED
    BY <2>1, ConstantFacts DEF WorkType, LinkType, Healthy, Closed, Resting
<1>4. ReqType
  <2>1. req = NoCall /\ cached = NoToken /\ refused = FALSE
    BY DEF Init
  <2>2. refused \in BOOLEAN
    BY <2>1
  <2>3. QED
    BY <2>1, <2>2, ConstantFacts DEF ReqType, NoCall, NoToken
<1>5. CountType /\ IdleType /\ Idled
  <2>1. (MaxKey + 1) * Life \in Nat /\ (0 + 1) * Life = Life
    BY Lives, ConstantFacts
  <2>2. idle = 0 /\ issued = 0 /\ days = Life /\ faults = 0 /\ stops = 0 /\ revokes = 0
    BY DEF Init
  <2>3. QED
    BY <2>1, <2>2, ConstantFacts DEF CountType, IdleType, Idled
<1>6. Running /\ Environment /\ Fresh
  BY DEF Init, Running, Environment, Fresh, Resting, NoCall
<1>7. Reach /\ Counted
  BY ConstantFacts DEF Init, Reach, Counted, Due
<1>8. QED
  BY <1>1, <1>2, <1>3, <1>4, <1>5, <1>6, <1>7, TypeParts DEF IInv

LEMMA IInvStep == IInv /\ [Next]_vars => IInv'
<1> SUFFICES ASSUME IInv, [Next]_vars PROVE IInv'
  OBVIOUS
<1>1. CASE Next
  BY <1>1, TypeStep, RunningStep, EnvironmentStep, FreshStep, ReachStep, CountedStep, VaultIdled DEF IInv
<1>2. CASE UNCHANGED vars
  <2>1. UNCHANGED <<auth, valid, issued, days, token, offer, session, stored, pending, managed, unit, env, daemon,
                    check, claim, state, link, req, cached, refused, lost, renewed, idle, faults, stops, revokes>>
    BY <1>2 DEF vars, vaultVars, fileVars, reqVars, bounds
  <2>2. TypeOK'
    BY <2>1 DEF IInv, TypeOK
  <2>3. Running' /\ Environment' /\ Fresh' /\ Reach'
    BY <2>1 DEF IInv, Running, Environment, Fresh, Reach
  <2>4. Counted' /\ Idled'
    BY <2>1 DEF IInv, Counted, Due, Account, Today, Idled
  <2>5. QED
    BY <2>2, <2>3, <2>4 DEF IInv
<1>3. QED
  BY <1>1, <1>2

(* The inductive invariant of the credentials. *)
THEOREM InvHolds == Spec => []IInv
<1>1. Init => IInv
  BY InitIInv
<1>2. IInv /\ [Next]_vars => IInv'
  BY IInvStep
<1>3. QED
  BY <1>1, <1>2, PTL DEF Spec

(* Keys, requests and counters have their types, and the agent id is known on a registered
   connection (setAgentId). *)
THEOREM TypeCorrect == Spec => []TypeOK
<1>1. IInv => TypeOK
  BY DEF IInv
<1>2. QED
  BY <1>1, InvHolds, PTL

(* The agent has or gets the key the vault accepts, unless an answer was lost, could not be
   saved, died with the process or was overwritten; and it uses the key it has stored
   (updateApiKey), however registrations, renewals, claims, revocations and ends of the
   daemon follow each other. *)
THEOREM KeyReachable == Spec => []KeyWithinReach
<1>1. IInv => KeyWithinReach
  BY DEF IInv, Reach, Environment, ApiKey, KeyWithinReach
<1>2. QED
  BY <1>1, InvHolds, PTL

(* A key in the file expires only after as many failed or missed checks as the threshold has
   days, for every life of a key and every threshold below it (checkAndRenewApiKey). *)
THEOREM ExpiryExplained == Spec => []ExpiresOnlyByFaults
<1>1. ASSUME IInv PROVE ExpiresOnlyByFaults
  <2>1. SUFFICES ASSUME valid # None, days = 0, stored = valid, ~managed, unit = None
                 PROVE  faults + idle + stops >= Threshold
    BY DEF ExpiresOnlyByFaults
  <2>2. Due /\ Today = 0 /\ Span(days) = Threshold
    BY <2>1, ConstantFacts DEF Due, Today, Span
  <2>3. Threshold <= Account + 0
    BY <1>1, <2>2 DEF IInv, Counted
  <2>4. Account \in Nat
    <3>1. idle \in Nat /\ faults \in Nat /\ stops \in Nat
      BY <1>1, TypeParts, IdleNat, ConstantFacts DEF IInv, CountType
    <3>2. QED
      BY <3>1 DEF Account
  <2>5. QED
    BY <2>3, <2>4, ConstantFacts DEF Account
<1>2. QED
  BY <1>1, InvHolds, PTL
=============================================================================
