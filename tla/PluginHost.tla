----------------------------- MODULE PluginHost -----------------------------
(***************************************************************************)
(* plugins/loader.ts: the plugins of an agent are loaded, initialized,     *)
(* started and stopped one after the other, receive events, and are asked  *)
(* for their health.  A hook is a promise of foreign code: it may resolve, *)
(* reject, or outlast the timeout and end later, or never.  The daemon     *)
(* (lib/websocket.ts) starts and stops the host, dispatches the events and *)
(* serves the health checks; all of them overlap at their awaits.          *)
(***************************************************************************)
EXTENDS Naturals, Sequences, FiniteSets

CONSTANTS
  Plugins,    \* configured plugins
  Order,      \* the order of the configuration
  Dispatches, \* bound: events dispatched at the same time
  MaxEvents   \* bound: events

ASSUME OrderAssumption ==
  /\ Order \in Seq(Plugins) /\ Len(Order) = Cardinality(Plugins)
  /\ {Order[i] : i \in DOMAIN Order} = Plugins
ASSUME EventAssumption == MaxEvents \in Nat

N == Len(Order)
Hooks == {"onInit", "onStart", "onStop"}

VARIABLES
  status,     \* LoadedPlugin.status, "absent" before and without a load
  hook,       \* how the promise of a lifecycle hook stands; "late" has timed out and runs on
  calls,      \* history: how often a hook was called
  phase,      \* what the daemon has the host do
  at,         \* the plugin the loop of that phase is at
  isStarted,  \* isStarted
  dispatch,   \* running calls of dispatchEvent()
  events,     \* events dispatched so far
  seen,       \* history: the newest event whose handler a plugin was called with
  disorder,   \* history: plugins called with an older event than one they had seen
  checkable,  \* plugins that implement healthCheck
  health,     \* a running call of collectHealthStatus(): the plugin it is at
  recovered,  \* history: plugins a health check has set to running
  unheard     \* history: plugins called with an event although they were not started

hookVars  == <<status, hook, calls>>
loopVars  == <<phase, at, isStarted>>
eventVars == <<dispatch, events, seen, disorder, unheard>>
pluginVars == <<hookVars, loopVars, eventVars, checkable, health, recovered>>

Free   == [event |-> 0, at |-> 0]
Phases == {"load", "init", "up", "start", "ready", "stop", "stopped"}

(* startPlugins() and initializePlugins() walk in order, stopPlugins() in reverse. *)
Current == IF phase = "stop" THEN Order[N + 1 - at] ELSE Order[at]

(* What a phase calls, on plugins of which status, and what becomes of them. *)
HookOf   == [init |-> "onInit", start |-> "onStart", stop |-> "onStop"]
Wanted   == [init |-> "loaded", start |-> "initialized", stop |-> "running"]
Reached  == [init |-> "initialized", start |-> "running", stop |-> "stopped"]
Refused  == [init |-> "error", start |-> "error", stop |-> "stopped"]

Walking   == phase \in DOMAIN HookOf /\ at <= N
Awaiting  == Walking /\ hook[Current][HookOf[phase]] = "pending"
-----------------------------------------------------------------------------
PluginsInit ==
  /\ status = [p \in Plugins |-> "absent"] /\ hook = [p \in Plugins |-> [h \in Hooks |-> "none"]]
  /\ calls = [p \in Plugins |-> [h \in Hooks |-> 0]]
  /\ phase = "load" /\ at = 1 /\ isStarted = FALSE
  /\ dispatch = [d \in Dispatches |-> Free] /\ events = 0
  /\ seen = [p \in Plugins |-> 0] /\ disorder = {} /\ unheard = {}
  /\ checkable \in SUBSET Plugins /\ health = 0 /\ recovered = {}

(* loadPlugin(): the import or the validation fails, or a plugin of that name is there
   already; loadPlugins() goes on with the next. *)
LoadPlugin ==
  /\ phase = "load" /\ at <= N
  /\ \E loaded \in {"loaded", "absent"} : status' = [status EXCEPT ![Order[at]] = loaded]
  /\ at' = at + 1
  /\ UNCHANGED <<hook, calls, phase, isStarted, eventVars, checkable, health, recovered>>
PluginsLoaded ==
  /\ phase = "load" /\ at > N /\ phase' = "init" /\ at' = 1
  /\ UNCHANGED <<hookVars, isStarted, eventVars, checkable, health, recovered>>

(* The loop calls the hook of a plugin in the status it wants, and awaits it; a plugin
   without the hook is one whose hook resolves at once. *)
CallHook ==
  /\ Walking /\ ~Awaiting /\ status[Current] = Wanted[phase]
  /\ hook' = [hook EXCEPT ![Current][HookOf[phase]] = "pending"]
  /\ calls' = [calls EXCEPT ![Current][HookOf[phase]] = @ + 1]
  /\ UNCHANGED <<status, loopVars, eventVars, checkable, health, recovered>>
SkipPlugin ==
  /\ Walking /\ ~Awaiting /\ status[Current] # Wanted[phase]
  /\ at' = at + 1
  /\ UNCHANGED <<hookVars, phase, isStarted, eventVars, checkable, health, recovered>>

(* The promise wins the race of withTimeout(), or the timer does. *)
HookEnds(outcome) ==
  /\ Awaiting
  /\ hook' = [hook EXCEPT ![Current][HookOf[phase]] = outcome]
  /\ status' = [status EXCEPT ![Current] = IF outcome = "done" THEN Reached[phase] ELSE Refused[phase]]
  /\ at' = at + 1
  /\ UNCHANGED <<calls, phase, isStarted, eventVars, checkable, health, recovered>>
HookSettles == HookEnds("done") \/ HookEnds("failed")

(* Mutant: a stop waits for its plugin. *)
HookTimesOut_NotStop == phase # "stop" /\ HookEnds("late")

HookTimesOut == HookEnds("late")

(* A hook that was given up ends on its own; nobody listens. *)
LateHookEnds ==
  /\ \E p \in Plugins, h \in Hooks :
       hook[p][h] = "late" /\ hook' = [hook EXCEPT ![p][h] = "ended"]
  /\ UNCHANGED <<status, calls, loopVars, eventVars, checkable, health, recovered>>

(* The end of a loop; between the phases the daemon starts its servers and connects. *)
PhaseEnds ==
  /\ phase \in DOMAIN HookOf /\ at > N
  /\ phase' = [init |-> "up", start |-> "ready", stop |-> "stopped"][phase]
  /\ isStarted' = (phase = "start")
  /\ UNCHANGED <<hookVars, at, eventVars, checkable, health, recovered>>
StartPlugins ==
  /\ phase = "up" /\ ~isStarted /\ phase' = "start" /\ at' = 1
  /\ UNCHANGED <<hookVars, isStarted, eventVars, checkable, health, recovered>>
StopPlugins ==
  /\ phase = "ready" /\ isStarted /\ phase' = "stop" /\ at' = 1
  /\ UNCHANGED <<hookVars, isStarted, eventVars, checkable, health, recovered>>
-----------------------------------------------------------------------------
(* Mutant: the status is not asked for. *)
NextRunning_Any(i) ==
  LET later == {j \in i..N : status[Order[j]] # "absent"}
  IN  IF later = {} THEN 0 ELSE CHOOSE j \in later : \A k \in later : j <= k

(* dispatchEvent() runs to its first await at once: the event goes to the first running
   plugin from i on, or to none. *)
NextRunning(i) ==
  LET later == {j \in i..N : status[Order[j]] = "running"}
  IN  IF later = {} THEN 0 ELSE CHOOSE j \in later : \A k \in later : j <= k

Deliver(d, e, i) ==
  LET j == NextRunning(i)
      p == Order[j]
  IN  IF j = 0
      THEN dispatch' = [dispatch EXCEPT ![d] = Free] /\ UNCHANGED <<seen, disorder, unheard>>
      ELSE /\ dispatch' = [dispatch EXCEPT ![d] = [event |-> e, at |-> j]]
           /\ seen' = [seen EXCEPT ![p] = IF e > @ THEN e ELSE @]
           /\ disorder' = IF e < seen[p] THEN disorder \cup {p} ELSE disorder
           /\ unheard' = IF hook[p]["onStart"] # "done" \/ hook[p]["onStop"] \notin {"none", "pending"}
                         THEN unheard \cup {p} ELSE unheard

(* A deployment, a rotation, the child process: events of several sources overlap. *)
DispatchEvent(d) ==
  /\ phase \in {"up", "start", "ready", "stop", "stopped"}
  /\ dispatch[d] = Free /\ events < MaxEvents /\ events' = events + 1
  /\ Deliver(d, events', 1)
  /\ UNCHANGED <<hookVars, loopVars, checkable, health, recovered>>

(* The handler ends, or the timeout gives it up: the next plugin's turn. *)
HandlerEnds(d) ==
  /\ dispatch[d] # Free
  /\ Deliver(d, dispatch[d].event, dispatch[d].at + 1)
  /\ UNCHANGED <<hookVars, loopVars, events, checkable, health, recovered>>

(* GET /health: collectHealthStatus() walks over the plugins, and awaits the check of each
   that has one, whatever its status. *)
NextCheckable(i) ==
  LET later == {j \in i..N : Order[j] \in checkable /\ status[Order[j]] # "absent"}
  IN  IF later = {} THEN 0 ELSE CHOOSE j \in later : \A k \in later : j <= k
CollectHealthStatus ==
  /\ phase \in {"up", "start", "ready", "stop", "stopped"} /\ health = 0
  /\ health' = NextCheckable(1) /\ health' # 0
  /\ UNCHANGED <<hookVars, loopVars, eventVars, checkable, recovered>>

(* Mutant: a healthy plugin runs. *)
HealthAnswered_Any ==
  /\ health # 0 /\ health' = NextCheckable(health + 1)
  /\ status' = [status EXCEPT ![Order[health]] = "running"]
  /\ recovered' = recovered \cup (IF status[Order[health]] = "error" THEN {Order[health]} ELSE {})
  /\ UNCHANGED <<hook, calls, loopVars, eventVars, checkable>>

(* A healthy answer makes a running plugin of one in error, any other answer leaves it. *)
HealthAnswered ==
  /\ health # 0 /\ health' = NextCheckable(health + 1)
  /\ \/ UNCHANGED <<status, recovered>>
     \/ /\ status[Order[health]] = "error"
        /\ status' = [status EXCEPT ![Order[health]] = "running"]
        /\ recovered' = recovered \cup {Order[health]}
  /\ UNCHANGED <<hook, calls, loopVars, eventVars, checkable>>
-----------------------------------------------------------------------------
Lifecycle ==
  \/ LoadPlugin \/ PluginsLoaded \/ CallHook \/ SkipPlugin \/ HookSettles \/ HookTimesOut
  \/ LateHookEnds \/ PhaseEnds \/ StartPlugins \/ StopPlugins
PluginsNext ==
  \/ Lifecycle
  \/ \E d \in Dispatches : DispatchEvent(d) \/ HandlerEnds(d)
  \/ CollectHealthStatus \/ HealthAnswered

(* The loops go on and timers fire; a hook need not settle, a health check need not
   answer, nobody has to dispatch, ask or stop. *)
PluginsFairness ==
  /\ WF_pluginVars(LoadPlugin) /\ WF_pluginVars(PluginsLoaded)
  /\ WF_pluginVars(CallHook) /\ WF_pluginVars(SkipPlugin)
  /\ WF_pluginVars(HookTimesOut) /\ WF_pluginVars(PhaseEnds)
  /\ WF_pluginVars(StartPlugins)
  /\ \A d \in Dispatches : WF_pluginVars(HandlerEnds(d))

PluginsSpec == PluginsInit /\ [][PluginsNext]_pluginVars /\ PluginsFairness
-----------------------------------------------------------------------------
Called(p, h) == calls[p][h] > 0

(* Every variable has its type, and the host is started between the end of startPlugins()
   and the end of stopPlugins(). *)
PluginsTypeOK ==
  /\ status \in [Plugins -> {"absent", "loaded", "initialized", "running", "stopped", "error"}]
  /\ hook \in [Plugins -> [Hooks -> {"none", "pending", "late", "done", "failed", "ended"}]]
  /\ calls \in [Plugins -> [Hooks -> 0..1]]
  /\ phase \in Phases /\ at \in 1..(N + 1) /\ isStarted = (phase \in {"ready", "stop"})
  /\ dispatch \in [Dispatches -> [event : 0..MaxEvents, at : 0..N]]
  /\ events \in 0..MaxEvents /\ seen \in [Plugins -> 0..MaxEvents]
  /\ {disorder, checkable, recovered, unheard} \subseteq SUBSET Plugins /\ health \in 0..N

(* A plugin is taken through its hooks in order: it is started after its onInit resolved
   in time, and it is stopped only if its onStart did, or a health check has called it
   healthy since (loader.ts:557). *)
HooksInOrder ==
  \A p \in Plugins :
    /\ Called(p, "onStart") => hook[p]["onInit"] = "done"
    /\ Called(p, "onStop") => hook[p]["onStart"] = "done" \/ p \in recovered

(* When stopPlugins() has ended, every plugin that was started in time was told to stop,
   and none is running, but one a health check has called healthy after its turn. *)
StartedIsStopped ==
  phase = "stopped" =>
    \A p \in Plugins :
      /\ hook[p]["onStart"] = "done" => Called(p, "onStop")
      /\ status[p] = "running" => p \in recovered /\ ~Called(p, "onStop")

(* No handler is called of a plugin that has not been started or has been stopped, unless
   a health check has called it healthy. *)
EventsReachStarted == unheard \subseteq recovered

(* The first plugin of the configuration sees the events in their order; a plugin behind
   a slow one may see a later event first. *)
FirstSeesInOrder == Order[1] \notin disorder

(* No hook, however long it takes, keeps the daemon from starting or from ending
   (loader.ts:139). *)
HostProgresses == /\ (phase = "load") ~> (phase = "ready")
                  /\ (phase = "stop") ~> (phase = "stopped")
=============================================================================
