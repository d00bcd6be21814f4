---------------------------- MODULE RuntimeFacade ----------------------------
(***************************************************************************)
(* api/runtime.c: an application thread that starts, stops and queries the *)
(* runtime, and runs controller cycles, all through the facade, while it   *)
(* creates pairs and their tasks tear them down.  The facade keeps its own *)
(* copy of the configuration, beside the controller's.                     *)
(***************************************************************************)
EXTENDS Offloader

CONSTANTS Configs,      \* configurations the application passes to a start
          MaxEvents     \* bound: no cycle is begun after so many events

VARIABLES facade,       \* g_runtime_state
          request,      \* locals of the facade call in progress
          events        \* counters of g_offloader_state

facadeVars == <<controlVars, facade, request, events>>

-----------------------------------------------------------------------------
(* edge_runtime_config_t.  complete: the control period is not 0 and both  *)
(* host labels are given; policy "default" is NULL.                        *)

Config == [enabled   : BOOLEAN,
           mode      : {"perTask", "batch"},
           scheduler : Schedulers \cup {"CUSTOM", "unknown"},
           policy    : AllPolicies,
           complete  : BOOLEAN]

ASSUME FacadeAssumption ==
    /\ Control \in Callers
    /\ Configs \subseteq Config
    /\ MaxEvents \in Nat

\* edge_runtime_config_init
DefaultConfig == [enabled |-> TRUE, mode |-> "perTask", scheduler |-> "FP",
                  policy |-> "default", complete |-> TRUE]

\* edge_runtime_start_local_first: a label may be given and empty.
LocalFirst(complete) == [DefaultConfig EXCEPT !.complete = complete]

IsValidConfig(c) == c.enabled => c.complete /\ c.scheduler # "unknown"

\* runtime_policy_or_default
WithPolicy(c) ==
    [c EXCEPT !.policy = IF @ = "default" THEN DefaultPolicy(c.scheduler) ELSE @]

\* runtime_effective_policy
EffectivePolicy ==
    WithPolicy(IF facade.configured THEN facade.config ELSE DefaultConfig).policy

Facade == [configured : BOOLEAN, running : BOOLEAN, config : Config]

\* Static storage: everything 0, so no label, FP and a NULL policy.
NoFacade ==
    [configured |-> FALSE, running |-> FALSE,
     config |-> [enabled |-> FALSE, mode |-> "perTask", scheduler |-> "FP",
                 policy |-> "default", complete |-> FALSE]]

\* at, monitored and candidates are the progress of edge_runtime_status.
Request == [pc         : {"none", "start", "count", "scan", "lookup", "report"},
            config     : Config,
            at         : Indices,
            monitored  : 0..MaxTasks,
            candidates : 0..MaxTasks]

NoRequest == [pc |-> "none", config |-> NoFacade.config, at |-> 0,
              monitored |-> 0, candidates |-> 0]

\* total_events and route_change_events are sums of these three.
NoEvents == [LOCAL |-> 0, REMOTE |-> 0, failure |-> 0]

TotalEvents == events.LOCAL + events.REMOTE + events.failure

\* The application thread is between two calls.
Free ==
    /\ request.pc = "none"
    /\ At("idle")

-----------------------------------------------------------------------------
(* Starting and stopping.                                                  *)

\* The application restarts the runtime when its pairs are gone: task_manager_init
\* frees the records of pairs that are left and does nothing about their tasks.
Tidy == LiveTasks = {} /\ inUse = {}

\* A running runtime ignores the call, and an invalid configuration is refused:
\* nothing changes.  Otherwise task_manager_init follows, as in InitStore.
StartManager(config) ==
    /\ Free /\ Tidy
    /\ ~facade.running
    /\ IsValidConfig(WithPolicy(config))
    /\ ResetStore(Control)
    /\ request' = [NoRequest EXCEPT !.pc = "start", !.config = WithPolicy(config)]
    /\ entryRoute' = [i \in Indices |-> NoRoute]
    /\ UNCHANGED <<recordLabel, offloaderVars, cycle, facade, events>>

Start ==
    \/ StartManager(DefaultConfig)
    \/ \E complete \in BOOLEAN : StartManager(LocalFirst(complete))
    \/ \E config \in Configs : StartManager(config)

\* Mutant: the policy override is handed on before it is resolved.
StartControllerAsFP ==
    /\ request.pc = "start" /\ ControlIsFree
    /\ LET config == request.config
       IN  /\ IF config.enabled
              THEN Initialize(config.complete, config.mode, "default", "FP")
              ELSE Shutdown
           /\ facade' = [configured |-> TRUE, running |-> TRUE, config |-> config]
    /\ events' = NoEvents
    /\ request' = NoRequest
    /\ UNCHANGED <<vars, routeVars, cycle>>

\* The rest of edge_runtime_start.
StartController ==
    /\ request.pc = "start" /\ ControlIsFree
    /\ LET config == request.config
       IN  /\ IF config.enabled
              THEN Initialize(config.complete, config.mode, config.policy,
                              config.scheduler)
              ELSE Shutdown
           /\ facade' = [configured |-> TRUE, running |-> TRUE, config |-> config]
    /\ events' = NoEvents
    /\ request' = NoRequest
    /\ UNCHANGED <<vars, routeVars, cycle>>

Stop ==
    /\ Free
    /\ facade.configured \/ facade.running
    /\ Shutdown
    /\ facade' = [facade EXCEPT !.running = FALSE]
    /\ events' = NoEvents
    /\ UNCHANGED <<vars, routeVars, cycle, request>>

-----------------------------------------------------------------------------
(* Controller cycles.                                                      *)

\* edge_runtime_run_once, and edge_offloader_run_for_task_index called directly.
RunOnce ==
    /\ Free /\ TotalEvents < MaxEvents
    /\ \/ facade.running /\ facade.config.enabled /\ BeginCycle
       \/ \E i \in Indices : BeginIndex(i)
    /\ UNCHANGED <<facade, request, events>>

\* The step of the cycle being taken records an event: applying a candidate
\* does, and so does every failure but that of a single candidate without a
\* runtime.
RecordsEvent ==
    \/ cycle.pc = "site"
    \/ /\ cycle.pc \in DecisionPcs /\ cycle'.pc = "idle"
       /\ cycle.pc = "applyFind" => InBatch

\* A setter that fails in a batch is recorded by edge_offloader_apply_result and
\* again by the loop over the results.
FailureEvents == IF InBatch /\ cycle.pc \in {"labelRecord", "site"} THEN 2 ELSE 1

\* Mutant: the test of the route is the wrong way round.
CountEventsSwapped ==
    events' = IF ~RecordsEvent THEN events
              ELSE IF lastEvent'.type = "route"
              THEN [events EXCEPT ![IF lastEvent'.route = "REMOTE" THEN "LOCAL"
                                    ELSE "REMOTE"] = @ + 1]
              ELSE [events EXCEPT !.failure = @ + FailureEvents]

\* offloader_observability_record
CountEvents ==
    events' = IF ~RecordsEvent THEN events
              ELSE IF lastEvent'.type = "route"
              THEN [events EXCEPT ![lastEvent'.route] = @ + 1]
              ELSE [events EXCEPT !.failure = @ + FailureEvents]

Cycling ==
    /\ CycleStep
    /\ CountEvents
    /\ UNCHANGED <<facade, request>>

-----------------------------------------------------------------------------
(* edge_runtime_status, which edge_runtime_diagnostics calls first.        *)

QueryStatus ==
    /\ Free
    /\ request' = [NoRequest EXCEPT !.pc = "count"]
    /\ UNCHANGED <<controlVars, facade, events>>

\* Candidates are collected by a controller that runs, from index 0.
Scans == facade.running /\ facade.config.enabled

\* Mutant: one index too many is scanned.
ScanNextTooFar(r) ==
    request' = IF r.at \in Indices
               THEN [r EXCEPT !.pc = "scan", !.at = @ + 1]
               ELSE [r EXCEPT !.pc = "report"]

\* Mutant: the entries are counted after the candidates.
ScanNextThenCount(r) ==
    request' = IF r.at + 1 \in Indices
               THEN [r EXCEPT !.pc = "scan", !.at = @ + 1]
               ELSE [r EXCEPT !.pc = "report", !.monitored = Cardinality(Active)]

ScanNext(r) ==
    request' = IF r.at + 1 \in Indices
               THEN [r EXCEPT !.pc = "scan", !.at = @ + 1]
               ELSE [r EXCEPT !.pc = "report"]

\* get_num_monitored_tasks
CountMonitored ==
    /\ request.pc = "count"
    /\ request' = [request EXCEPT !.pc = IF Scans THEN "scan" ELSE "report",
                                  !.monitored = Cardinality(Active)]
    /\ UNCHANGED <<controlVars, facade, events>>

\* edge_offloader_collect_candidates(NULL, 0): the snapshot of an entry, then
\* the runtime it belongs to.
ScanEntry ==
    /\ request.pc = "scan"
    /\ IF request.at \in Active /\ entryRoute[request.at].client
       THEN request' = [request EXCEPT !.pc = "lookup"]
       ELSE ScanNext(request)
    /\ UNCHANGED <<controlVars, facade, events>>

LookUpRuntime ==
    /\ request.pc = "lookup"
    /\ ScanNext(IF \E s \in Slots : FoundByIndex(s, request.at)
                THEN [request EXCEPT !.candidates = @ + 1]
                ELSE request)
    /\ UNCHANGED <<controlVars, facade, events>>

ReportStatus ==
    /\ request.pc = "report"
    /\ request' = NoRequest
    /\ UNCHANGED <<controlVars, facade, events>>

-----------------------------------------------------------------------------
FacadeInit ==
    /\ ControlInit
    /\ facade = NoFacade
    /\ request = NoRequest
    /\ events = NoEvents

\* The application begins no other call while it is inside one of the facade.
TaskManagerStep(t) ==
    /\ t = Control /\ Idle(t) => Free
    /\ ManagerStep(t)
    /\ UNCHANGED <<facade, request, events>>

FacadeNext ==
    \/ \E t \in Threads : TaskManagerStep(t)
    \/ Start \/ StartController \/ Stop
    \/ RunOnce \/ Cycling
    \/ QueryStatus \/ CountMonitored \/ ScanEntry \/ LookUpRuntime \/ ReportStatus

FacadeSpec == FacadeInit /\ [][FacadeNext]_facadeVars

-----------------------------------------------------------------------------
(* Properties.                                                             *)

FacadeTypeOK ==
    /\ facade \in Facade
    /\ request \in Request
    /\ events \in [{"LOCAL", "REMOTE", "failure"} -> 0..(MaxEvents + MaxTasks)]

\* What the facade believes and what the controller does are the same: the
\* controller is set up exactly while an enabled runtime runs, in the mode and
\* with the policy that edge_runtime_status reports, whatever starts and stops
\* came before (the two copies of the configuration never drift apart).
ControllerFollowsRuntime ==
    IF facade.running /\ facade.config.enabled
    THEN /\ offloader.initialized /\ offloader.ready
         /\ offloader.mode = facade.config.mode
         /\ offloader.policy = EffectivePolicy
    ELSE offloader = NoOffloader

\* Every pair whose host a running runtime has decided is in its diagnostics:
\* no more clients are routed to a host than route events to it were counted
\* since the start, across stops, restarts and refused or repeated starts.
RoutedTo(route) == {i \in Active : entryRoute[i].label = route /\ ~Applying(i)}

DiagnosticsCountRoutes ==
    facade.running =>
        \A route \in Routes :
            Cardinality({i \in RoutedTo(route) : entryRoute[i].client})
                <= events[route]

\* A status never reports more client candidates than monitored tasks, although
\* the two are counted one after the other while tasks tear their pairs down.
CandidatesAreMonitored ==
    request.pc = "report" => request.candidates <= request.monitored
=============================================================================
