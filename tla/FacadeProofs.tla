----------------------------- MODULE FacadeProofs -----------------------------
(***************************************************************************)
(* For every number of threads, entries and slots, every policy and every  *)
(* set of configurations: the facade disturbs neither the task manager nor *)
(* the controller, its copy of the configuration and the controller's      *)
(* never drift apart, the diagnostics count every route in force, and what *)
(* the controller promises of routes outlives a restart.                   *)
(***************************************************************************)
EXTENDS RuntimeFacade, OffloaderProofs

-----------------------------------------------------------------------------
(* A status query in progress.                                             *)

RequestSteps ==
    QueryStatus \/ CountMonitored \/ ScanEntry \/ LookUpRuntime \/ ReportStatus

\* At most one candidate is counted for each index already scanned.
RequestInv ==
    /\ request \in Request
    /\ request.pc = "count" => request.at = 0 /\ request.candidates = 0
    /\ request.pc \in {"scan", "lookup"} => request.candidates <= request.at

LEMMA NoRequestOK == NoRequest \in Request
<1>1. NoFacade.config \in Config
  BY DEF NoFacade, Config, Schedulers, AllPolicies
<1> QED
  BY <1>1, ConfigAssumption DEF NoRequest, Request, Indices

LEMMA MonitoredFit == Cardinality(Active) \in 0..MaxTasks
<1>1. IsFiniteSet(Indices) /\ Cardinality(Indices) = MaxTasks
  BY FS_Interval, ConfigAssumption DEF Indices
<1>2. Active \subseteq Indices
  BY DEF Active
<1> QED
  BY <1>1, <1>2, FS_Subset, ActiveFinite, ConfigAssumption

LEMMA ScanNextKeeps ==
  ASSUME NEW r \in Request, r.candidates <= r.at + 1, ScanNext(r)
  PROVE  RequestInv' /\ request'.pc \in {"scan", "report"}
<1>1. CASE r.at + 1 \in Indices
  <2>1. request' = [r EXCEPT !.pc = "scan", !.at = @ + 1]
    BY <1>1 DEF ScanNext
  <2> QED
    BY <1>1, <2>1, ConfigAssumption DEF RequestInv, Request, Indices
<1>2. CASE r.at + 1 \notin Indices
  BY <1>2 DEF ScanNext, RequestInv, Request
<1> QED
  BY <1>1, <1>2

LEMMA RequestStepKeeps ==
  ASSUME RequestInv, RequestSteps
  PROVE  RequestInv'
<1>0. request \in Request
  BY DEF RequestInv
<1>1. CASE QueryStatus
  BY <1>1, NoRequestOK DEF QueryStatus, RequestInv, Request, NoRequest
<1>2. CASE CountMonitored
  <2>1. request' = [request EXCEPT !.pc = IF Scans THEN "scan" ELSE "report",
                                   !.monitored = Cardinality(Active)]
    BY <1>2 DEF CountMonitored
  <2>2. /\ request'.pc \in {"scan", "report"} /\ request'.monitored = Cardinality(Active)
        /\ request'.at = 0 /\ request'.candidates = 0
    BY <1>2, <2>1 DEF CountMonitored, RequestInv, Request
  <2>3. request' \in Request
    BY <1>0, <2>1, MonitoredFit, Zenon DEF Request
  <2> QED
    BY <2>2, <2>3 DEF RequestInv
<1>3. CASE ScanEntry
  <2>1. request.candidates <= request.at + 1
    BY <1>3, ConfigAssumption DEF ScanEntry, RequestInv, Request, Indices
  <2> QED
    BY <1>0, <1>3, <2>1, ScanNextKeeps DEF ScanEntry, RequestInv, Request
<1>4. CASE LookUpRuntime
  <2> DEFINE r == IF \E s \in Slots : FoundByIndex(s, request.at)
                  THEN [request EXCEPT !.candidates = @ + 1]
                  ELSE request
  <2>0. /\ request \in Request /\ request.candidates <= request.at
        /\ request.candidates \in Nat /\ request.candidates + 1 \in 0..MaxTasks
        /\ request.at \in Nat
    BY <1>4, ConfigAssumption DEF LookUpRuntime, RequestInv, Request, Indices
  <2>1. r \in Request /\ r.candidates <= r.at + 1
    BY <2>0 DEF Request
  <2>2. ScanNext(r)
    BY <1>4 DEF LookUpRuntime
  <2> QED
    BY <2>1, <2>2, ScanNextKeeps
<1>5. CASE ReportStatus
  BY <1>5, NoRequestOK DEF ReportStatus, RequestInv, NoRequest
<1> QED
  BY <1>1, <1>2, <1>3, <1>4, <1>5 DEF RequestSteps

\* A status query changes nothing but its own progress, and begins between two
\* calls of the controller.
LEMMA RequestStepFrames ==
  ASSUME RequestInv, RequestSteps
  PROVE  /\ UNCHANGED <<controlVars, facade, events>>
         /\ request'.pc # "start" /\ request.pc # "start"
         /\ request.pc = "none" => cycle.pc = "idle"
<1> USE DEF ScanNext, RequestInv, Request
<1>1. CASE QueryStatus
  BY <1>1, NoRequestOK DEF QueryStatus, Free, At
<1>2. CASE CountMonitored \/ ScanEntry \/ LookUpRuntime \/ ReportStatus
  BY <1>2, NoRequestOK
  DEF CountMonitored, ScanEntry, LookUpRuntime, ReportStatus, NoRequest
<1> QED
  BY <1>1, <1>2 DEF RequestSteps

-----------------------------------------------------------------------------
(* Steps of the controller.                                                *)

\* A step of a cycle leaves the controller's configuration alone.
LEMMA CycleStepFrames ==
  ASSUME BeginRun \/ CycleStep
  PROVE  UNCHANGED <<vars, offloader>>
<1>1. UNCHANGED vars
  BY ControlStepFrames
<1>2. UNCHANGED offloader
  BY DEF BeginRun, BeginCycle, BeginIndex, StartRun, CycleStep, TakeSnapshot,
     FindRuntime, ReadPairId, EvaluateCandidate, RejectPlan, MiscountPlan,
     AcceptPlan, CheckResult, CheckPairId, FindTarget, LabelEntry, LabelRecord,
     SetSite, offloaderVars
<1> QED
  BY <1>1, <1>2

LEMMA CycleStepRuns ==
  ASSUME CycleStep
  PROVE  cycle.pc # "idle"
BY DEF CycleStep, TakeSnapshot, FindRuntime, ReadPairId, EvaluateCandidate,
   RejectPlan, MiscountPlan, AcceptPlan, CheckResult, CheckPairId, FindTarget,
   LabelEntry, LabelRecord, SetSite, At

-----------------------------------------------------------------------------
(* The two copies of the configuration.                                    *)

\* What edge_runtime_start hands on is valid and its policy is resolved; it is
\* handed on before anything runs.
StartInv ==
    request.pc = "start" =>
        /\ request.config \in Config
        /\ IsValidConfig(request.config)
        /\ request.config.policy # "default"
        /\ ~facade.running

\* Only a configured runtime runs, and its policy is resolved.
ResolvedInv ==
    /\ facade \in Facade
    /\ facade.running => facade.configured
    /\ facade.configured => facade.config.policy # "default"

\* A cycle is only in progress while an enabled runtime runs, and no call of
\* the facade is.
ExclusionInv ==
    cycle.pc # "idle" =>
        /\ request.pc = "none"
        /\ facade.running /\ facade.config.enabled

CopiesInv == StartInv /\ ResolvedInv /\ ExclusionInv /\ ControllerFollowsRuntime

LEMMA WithPolicyResolves ==
  ASSUME NEW c \in Config
  PROVE  /\ WithPolicy(c) \in Config
         /\ WithPolicy(c).policy # "default"
         /\ WithPolicy(c).enabled = c.enabled
BY DEF WithPolicy, Config, DefaultPolicy, AllPolicies

LEMMA StartConfigs ==
  ASSUME Start
  PROVE  \E c \in Config : StartManager(c)
<1>1. DefaultConfig \in Config
  BY DEF DefaultConfig, Config, Schedulers, AllPolicies
<1>2. \A complete \in BOOLEAN : LocalFirst(complete) \in Config
  BY <1>1 DEF LocalFirst, Config
<1> QED
  BY <1>1, <1>2, FacadeAssumption DEF Start

\* Resolving a policy that is resolved changes nothing.
LEMMA ResolvedStays ==
  ASSUME NEW c \in Config, c.policy # "default"
  PROVE  WithPolicy(c).policy = c.policy
BY DEF WithPolicy, Config

LEMMA CopiesFramed ==
  ASSUME CopiesInv, UNCHANGED <<offloader, facade>>,
         request'.pc = "start" => UNCHANGED request,
         cycle'.pc # "idle" =>
            /\ request'.pc = "none"
            /\ facade.running /\ facade.config.enabled
  PROVE  CopiesInv'
BY DEF CopiesInv, StartInv, ResolvedInv, ExclusionInv, ControllerFollowsRuntime,
   EffectivePolicy

LEMMA StartKeepsCopies ==
  ASSUME CopiesInv, Start
  PROVE  CopiesInv'
<1>1. PICK c \in Config : StartManager(c)
  BY StartConfigs
<1>2. request' = [NoRequest EXCEPT !.pc = "start", !.config = WithPolicy(c)]
  BY <1>1 DEF StartManager
<1>3. request'.pc = "start" /\ request'.config = WithPolicy(c)
  BY <1>2 DEF NoRequest
<1>4. StartInv'
  BY <1>1, <1>3, WithPolicyResolves DEF StartManager, StartInv
<1>5. UNCHANGED <<offloader, facade, cycle>> /\ cycle.pc = "idle"
  BY <1>1 DEF StartManager, offloaderVars, Free, At
<1> QED
  BY <1>4, <1>5
  DEF CopiesInv, ResolvedInv, ExclusionInv, ControllerFollowsRuntime, EffectivePolicy

LEMMA StartControllerKeepsCopies ==
  ASSUME CopiesInv, StartController
  PROVE  CopiesInv'
<1> DEFINE c == request.config
<1>1. /\ c \in Config /\ c.policy # "default"
      /\ c.enabled => c.complete
      /\ cycle.pc = "idle"
  BY DEF CopiesInv, StartController, StartInv, ExclusionInv, IsValidConfig
<1>2. /\ facade' = [configured |-> TRUE, running |-> TRUE, config |-> c]
      /\ request'.pc = "none" /\ UNCHANGED cycle
  BY DEF StartController, NoRequest
<1>3. EffectivePolicy' = c.policy
  BY <1>1, <1>2, ResolvedStays DEF EffectivePolicy
<1>4. ControllerFollowsRuntime'
  <2>1. CASE c.enabled
    <3>1. offloader' = Configured(c.complete, c.mode, c.policy, c.scheduler)
      BY <2>1 DEF StartController, Initialize
    <3> QED
      BY <1>1, <1>2, <1>3, <2>1, <3>1 DEF ControllerFollowsRuntime, Configured
  <2>2. CASE ~c.enabled
    BY <1>2, <2>2 DEF StartController, Shutdown, ControllerFollowsRuntime
  <2> QED
    BY <2>1, <2>2
<1>5. ResolvedInv'
  BY <1>1, <1>2 DEF ResolvedInv, Facade
<1> QED
  BY <1>1, <1>2, <1>4, <1>5 DEF CopiesInv, StartInv, ExclusionInv

LEMMA StopKeepsCopies ==
  ASSUME CopiesInv, Stop
  PROVE  CopiesInv'
<1>1. /\ facade' = [facade EXCEPT !.running = FALSE]
      /\ offloader' = NoOffloader
      /\ UNCHANGED <<cycle, request>> /\ cycle.pc = "idle" /\ request.pc = "none"
  BY DEF Stop, Shutdown, Free, At
<1>2. /\ facade' \in Facade /\ facade'.running = FALSE
      /\ facade'.configured = facade.configured /\ facade'.config = facade.config
  BY <1>1 DEF CopiesInv, ResolvedInv, Facade
<1> QED
  BY <1>1, <1>2
  DEF CopiesInv, StartInv, ResolvedInv, ExclusionInv, ControllerFollowsRuntime

\* A cycle begins only with a controller that is ready.
LEMMA RunOnceKeepsCopies ==
  ASSUME CopiesInv, RunOnce
  PROVE  CopiesInv'
<1>1. BeginRun /\ UNCHANGED <<facade, request>> /\ request.pc = "none"
  BY DEF RunOnce, BeginRun, Free
<1>2. offloader.ready /\ UNCHANGED offloader
  BY <1>1, CycleStepFrames DEF BeginRun, BeginCycle, BeginIndex, StartRun
<1>3. facade.running /\ facade.config.enabled
  BY <1>2 DEF CopiesInv, ControllerFollowsRuntime, NoOffloader
<1> QED
  BY <1>1, <1>2, <1>3, CopiesFramed

LEMMA CyclingKeepsCopies ==
  ASSUME CopiesInv, Cycling
  PROVE  CopiesInv'
<1>1. cycle.pc # "idle" /\ UNCHANGED <<offloader, facade, request>>
  BY CycleStepFrames, CycleStepRuns DEF Cycling
<1> QED
  BY <1>1, CopiesFramed DEF CopiesInv, ExclusionInv

LEMMA RequestKeepsCopies ==
  ASSUME RequestInv, CopiesInv, RequestSteps
  PROVE  CopiesInv'
<1>1. UNCHANGED <<offloader, facade, cycle>>
  BY RequestStepFrames DEF controlVars, offloaderVars
<1>2. cycle.pc = "idle"
  BY RequestStepFrames DEF CopiesInv, ExclusionInv
<1> QED
  BY <1>1, <1>2, RequestStepFrames, CopiesFramed

LEMMA RequestNext == RequestInv /\ CopiesInv /\ [FacadeNext]_facadeVars => RequestInv'
<1> SUFFICES ASSUME RequestInv, CopiesInv, [FacadeNext]_facadeVars PROVE RequestInv'
  OBVIOUS
<1>1. CASE UNCHANGED request
  BY <1>1 DEF RequestInv
<1>2. CASE Start
  <2>1. PICK c \in Config : StartManager(c)
    BY <1>2, StartConfigs
  <2>2. WithPolicy(c) \in Config
    BY WithPolicyResolves
  <2> QED
    BY <2>1, <2>2, NoRequestOK DEF StartManager, RequestInv, Request
<1>3. CASE StartController
  BY <1>3, NoRequestOK DEF StartController, RequestInv, NoRequest
<1> QED
  BY <1>1, <1>2, <1>3, RequestStepKeeps
  DEF FacadeNext, RequestSteps, TaskManagerStep, Stop, RunOnce, Cycling, facadeVars

LEMMA CopiesNext == RequestInv /\ CopiesInv /\ [FacadeNext]_facadeVars => CopiesInv'
<1> SUFFICES ASSUME RequestInv, CopiesInv, [FacadeNext]_facadeVars PROVE CopiesInv'
  OBVIOUS
<1>1. CASE UNCHANGED facadeVars
  BY <1>1, CopiesFramed DEF facadeVars, controlVars, offloaderVars, CopiesInv, ExclusionInv
<1>2. ASSUME NEW t \in Threads, TaskManagerStep(t) PROVE CopiesInv'
  BY <1>2, CopiesFramed
  DEF TaskManagerStep, ManagerStep, offloaderVars, CopiesInv, ExclusionInv
<1> QED
  BY <1>1, <1>2, StartKeepsCopies, StartControllerKeepsCopies, StopKeepsCopies,
     RunOnceKeepsCopies, CyclingKeepsCopies, RequestKeepsCopies
  DEF FacadeNext, RequestSteps

LEMMA CopiesInit == FacadeInit => RequestInv /\ CopiesInv
BY NoRequestOK
DEF RequestInv, FacadeInit, ControlInit, CopiesInv, StartInv, ResolvedInv,
   ExclusionInv, ControllerFollowsRuntime, NoFacade, NoRequest, NoCycle, NoOffloader, Facade,
   Config, Schedulers, AllPolicies

\* What the facade reports and what the controller does never drift apart,
\* whatever configurations the application starts the runtime with, in whatever
\* order it starts and stops it, and whatever happens to the pairs.
THEOREM CopiesAgree == FacadeSpec => []ControllerFollowsRuntime
<1>1. CopiesInv => ControllerFollowsRuntime
  BY DEF CopiesInv
<1> QED
  BY <1>1, CopiesInit, RequestNext, CopiesNext, PTL DEF FacadeSpec

-----------------------------------------------------------------------------
(* The facade over the task manager and the controller: their invariants   *)
(* hold under it.                                                          *)

\* The controller's locals are reset when a call returns.
RestInv == cycle.pc = "idle" => cycle = NoCycle

LEMMA InitializedType ==
  ASSUME NEW c \in Config, c.policy # "default"
  PROVE  Configured(c.complete, c.mode, c.policy, c.scheduler) \in Offloader
BY DEF Config, Configured, Offloader

\* A start or a stop changes the controller's configuration while it rests.
LEMMA RestingKeepsCycle ==
  ASSUME RestInv, cycle.pc = "idle", UNCHANGED cycle
  PROVE  CycleInv'
BY NoCycleOK DEF RestInv

LEMMA StartKeepsControl ==
  ASSUME IInv, ControlInv, Start
  PROVE  IInv' /\ ControlInv'
<1>1. PICK c \in Config : StartManager(c)
  BY StartConfigs
<1>2. ResetStore(Control) /\ Control \in Threads
  BY <1>1, FacadeAssumption DEF StartManager, Threads
<1>3. IInv'
  BY <1>2, ResetStoreKeeps
<1>4. /\ entryRoute' = [i \in Indices |-> NoRoute]
      /\ UNCHANGED <<recordLabel, offloaderVars, cycle>>
  BY <1>1 DEF StartManager
<1>5. RouteInv'
  BY <1>2, <1>4, NoRouteType DEF ControlInv, RouteInv, NoRouteWithoutPair, ResetStore
<1>6. StateInv' /\ CycleInv'
  BY <1>4 DEF ControlInv, StateInv, CycleInv, Buffered, Validated, Unwritten,
     HasRoute, InBatch, offloaderVars
<1> QED
  BY <1>3, <1>5, <1>6 DEF ControlInv

\* What frames the task manager and the routes keeps their invariants.
LEMMA ControlFramed ==
  ASSUME IInv, ControlInv, UNCHANGED <<vars, routeVars>>
  PROVE  IInv' /\ RouteInv'
<1>1. IInv'
  BY NextKeeps
<1> QED
  BY <1>1 DEF ControlInv, RouteInv, NoRouteWithoutPair, Active, vars, registryVars,
     monitorVars, routeVars

LEMMA StartControllerKeepsControl ==
  ASSUME IInv, ControlInv, CopiesInv, RestInv, StartController
  PROVE  IInv' /\ ControlInv'
<1>1. /\ request.config \in Config /\ request.config.policy # "default"
      /\ cycle.pc = "idle"
  BY DEF CopiesInv, StartInv, ExclusionInv, StartController
<1>2. UNCHANGED <<vars, routeVars, cycle>>
  BY DEF StartController
<1>3. StateInv'
  <2>1. NoOffloader \in Offloader
    BY DEF NoOffloader, Offloader, AllPolicies
  <2> QED
    BY <1>1, <2>1, InitializedType, NoEventType
    DEF StartController, Initialize, Shutdown, StateInv
<1> QED
  BY <1>1, <1>2, <1>3, RestingKeepsCycle, ControlFramed DEF ControlInv

LEMMA StopKeepsControl ==
  ASSUME IInv, ControlInv, RestInv, Stop
  PROVE  IInv' /\ ControlInv'
<1>1. UNCHANGED <<vars, routeVars, cycle>> /\ cycle.pc = "idle"
  BY DEF Stop, Free, At
<1>2. StateInv'
  BY NoEventType DEF Stop, Shutdown, StateInv, NoOffloader, Offloader, AllPolicies
<1> QED
  BY <1>1, <1>2, RestingKeepsCycle, ControlFramed DEF ControlInv

LEMMA FacadeKeepsControl ==
  ASSUME IInv, ControlInv, RequestInv, CopiesInv, RestInv, [FacadeNext]_facadeVars
  PROVE  IInv' /\ ControlInv'
<1>1. CASE [ControlNext]_controlVars
  BY <1>1, ControlNextIsNext, NextKeeps, ControlNextKeeps
<1>2. CASE RequestSteps
  BY <1>1, <1>2, RequestStepFrames
<1>3. CASE RunOnce
  BY <1>1, <1>3 DEF RunOnce, BeginRun, ControlNext
<1>4. CASE Cycling
  BY <1>1, <1>4 DEF Cycling, ControlNext
<1>5. ASSUME NEW t \in Threads, TaskManagerStep(t) PROVE IInv' /\ ControlInv'
  BY <1>1, <1>5 DEF TaskManagerStep, ControlNext
<1>6. CASE UNCHANGED facadeVars
  BY <1>1, <1>6 DEF facadeVars
<1> QED
  BY <1>2, <1>3, <1>4, <1>5, <1>6, StartKeepsControl, StartControllerKeepsControl,
     StopKeepsControl
  DEF FacadeNext, RequestSteps

\* A step of a cycle that does not return goes on.
LEMMA ScanOnRests ==
  ASSUME cycle \in Cycle, NEW candidates, ScanOn(candidates)
  PROVE  RestInv'
BY DEF ScanOn, ReturnFromCycle, RestInv, Cycle

LEMMA CycleStepRests ==
  ASSUME cycle \in Cycle, CycleStep
  PROVE  RestInv'
<1> USE DEF FailWith, FailSilently, ReturnFromCycle, RestInv
<1>1. CASE TakeSnapshot \/ FindRuntime \/ ReadPairId
  BY <1>1, ScanOnRests DEF TakeSnapshot, FindRuntime, ReadPairId, Cycle
<1>2. CASE EvaluateCandidate \/ RejectPlan \/ MiscountPlan \/ AcceptPlan
  BY <1>2 DEF EvaluateCandidate, RejectPlan, MiscountPlan, AcceptPlan, Cycle
<1>3. CASE CheckResult \/ CheckPairId
  BY <1>3 DEF CheckResult, CheckPairId, Cycle
<1>4. CASE FindTarget \/ LabelEntry \/ LabelRecord \/ SetSite
  BY <1>4 DEF FindTarget, LabelEntry, LabelRecord, SetSite, ApplyTo, ApplyNext, Cycle
<1> QED
  BY <1>1, <1>2, <1>3, <1>4 DEF CycleStep

LEMMA FacadeRests ==
  ASSUME ControlInv, RequestInv, RestInv, [FacadeNext]_facadeVars
  PROVE  RestInv'
<1>1. CASE UNCHANGED cycle
  BY <1>1 DEF RestInv
<1>2. CASE RequestSteps
  BY <1>1, <1>2, RequestStepFrames DEF controlVars
<1>3. CASE RunOnce
  <2>1. PICK run \in {"once", "index"}, i \in Indices : StartRun(run, i)
    BY <1>3, ConfigAssumption DEF RunOnce, BeginCycle, BeginIndex, Indices
  <2>2. cycle'.pc = "snapshot"
    BY <2>1 DEF StartRun, NoCycle
  <2> QED
    BY <2>2 DEF RestInv
<1>4. CASE Cycling
  BY <1>4, CycleStepRests DEF Cycling, ControlInv, CycleInv
<1>5. CASE Start
  BY <1>1, <1>5, StartConfigs DEF StartManager
<1> QED
  BY <1>1, <1>2, <1>3, <1>4, <1>5
  DEF FacadeNext, RequestSteps, TaskManagerStep, ManagerStep, StartController, Stop,
      facadeVars, controlVars

BaseInv == IInv /\ ControlInv /\ RequestInv /\ CopiesInv /\ RestInv

\* The invariant of the facade over the controller over the task manager.
THEOREM BaseInvariantHolds == FacadeSpec => []BaseInv
<1>1. FacadeInit => BaseInv
  BY InitEstablishes, ControlInitEstablishes, CopiesInit
  DEF FacadeInit, ControlInit, BaseInv, RestInv
<1>2. BaseInv /\ [FacadeNext]_facadeVars => BaseInv'
  BY FacadeKeepsControl, FacadeRests, RequestNext, CopiesNext DEF BaseInv
<1> QED
  BY <1>1, <1>2, PTL DEF FacadeSpec

-----------------------------------------------------------------------------
(* The facade implements the controller.                                   *)

\* An application may restart the task manager, and the controller is given
\* any mode and policy.
AllConfigurations ==
    /\ "init" \in Ops
    /\ CycleModes = {"perTask", "batch"}
    /\ Policies = AllPolicies

LEMMA StartIsRestart ==
  ASSUME AllConfigurations, BaseInv, Start
  PROVE  ControlNext
<1>1. PICK c \in Config : StartManager(c)
  BY StartConfigs
<1>2. /\ ResetStore(Control) /\ Idle(Control) /\ cycle.pc = "idle" /\ inUse = {}
      /\ entryRoute' = [i \in Indices |-> NoRoute]
      /\ UNCHANGED <<recordLabel, offloaderVars, cycle>>
  BY <1>1, FacadeAssumption DEF StartManager, Free, At, ControlIsFree, Tidy
<1>3. Begin(Control)
  BY <1>2, FacadeAssumption DEF AllConfigurations, Begin, InitStore, MayCall
<1>4. RoutesFollow(Control)
  <2>1. \A i \in Indices : ~monitor'[i].is_active
    BY <1>2 DEF ResetStore, ClearStore, ZeroEntry
  <2>2. recordLabel' = [s \in Slots |-> "none"]
    BY <1>2 DEF BaseInv, ControlInv, RouteInv, NoRouteWithoutPair
  <2>3. inUse' = {}
    BY <1>2 DEF ResetStore
  <2> QED
    BY <1>2, <2>1, <2>2, <2>3, OffloaderAssumption DEF RoutesFollow
<1> QED
  BY <1>2, <1>3, <1>4, FacadeAssumption DEF ControlNext, ManagerStep, Threads

LEMMA StartControllerIsConfiguration ==
  ASSUME AllConfigurations, BaseInv, StartController
  PROVE  ControlNext
<1> DEFINE c == request.config
<1>1. /\ c \in Config /\ c.policy # "default" /\ IsValidConfig(c)
      /\ cycle = NoCycle
  BY DEF BaseInv, CopiesInv, StartInv, ExclusionInv, RestInv, StartController
<1>2. At("idle") /\ cycle' = NoCycle /\ UNCHANGED <<vars, routeVars>>
  BY <1>1 DEF StartController, At, NoCycle
<1>3. CASE c.enabled
  <2> DEFINE scheduler == IF c.scheduler \in Schedulers THEN c.scheduler ELSE "FP"
  <2>1. /\ c.complete \in BOOLEAN /\ c.mode \in CycleModes /\ c.policy \in Policies
        /\ scheduler \in Schedulers
    BY <1>1 DEF AllConfigurations, Config, Schedulers
  <2>2. Initialize(c.complete, c.mode, c.policy, c.scheduler)
    BY <1>3 DEF StartController
  <2>3. Initialize(c.complete, c.mode, c.policy, scheduler)
    BY <1>1, <2>2 DEF Initialize, Configured
  <2> HIDE DEF scheduler, c
  <2> QED
    BY <1>2, <2>1, <2>3 DEF ControlNext, InitializeOffloader
<1>4. CASE ~c.enabled
  BY <1>2, <1>4 DEF StartController, ControlNext, ShutdownOffloader
<1> QED
  BY <1>3, <1>4

\* Every step of the facade is one of the controller or the task manager, or
\* changes neither.
LEMMA FacadeNextIsControlNext ==
  ASSUME AllConfigurations, BaseInv, [FacadeNext]_facadeVars
  PROVE  [ControlNext]_controlVars
<1>1. CASE Stop
  <2>1. cycle = NoCycle /\ At("idle") /\ UNCHANGED cycle
    BY <1>1 DEF Stop, Free, At, BaseInv, RestInv
  <2> QED
    BY <1>1, <2>1 DEF Stop, ControlNext, ShutdownOffloader
<1>2. CASE RequestSteps
  BY <1>2, RequestStepFrames DEF BaseInv
<1>3. ASSUME NEW t \in Threads, TaskManagerStep(t) PROVE ControlNext
  BY <1>3 DEF TaskManagerStep, ControlNext
<1>4. CASE RunOnce \/ Cycling
  BY <1>4 DEF RunOnce, Cycling, BeginRun, ControlNext
<1> QED
  BY <1>1, <1>2, <1>3, <1>4, StartIsRestart, StartControllerIsConfiguration
  DEF FacadeNext, RequestSteps, facadeVars

\* The facade implements the controller over the task manager: starting and
\* stopping through it does nothing a direct use of the two could not do.
THEOREM FacadeImplementsController ==
  ASSUME AllConfigurations
  PROVE  FacadeSpec => ControlSpec
<1>1. BaseInv /\ [FacadeNext]_facadeVars => [ControlNext]_controlVars
  BY FacadeNextIsControlNext
<1>2. FacadeInit => ControlInit
  BY DEF FacadeInit
<1> QED
  BY <1>1, <1>2, BaseInvariantHolds, PTL DEF FacadeSpec, ControlSpec

-----------------------------------------------------------------------------
(* The diagnostics.                                                        *)

RoutedClients(route) == {i \in RoutedTo(route) : entryRoute[i].client}

CurrentLabel == entryRoute[Current.task_index].label

\* A start finds no routes; what is being applied is not yet in force, or it is
\* the label just written; and there is an event for every route in force.
CountInv ==
    /\ events \in [Routes \cup {"failure"} -> Nat]
    /\ request.pc = "start" => \A i \in Indices : entryRoute[i].label \notin Routes
    /\ Writing /\ CurrentLabel \in Routes => CurrentLabel = Current.route
    /\ cycle.pc = "labelRecord" /\ ~cycle.updated => CurrentLabel \notin Routes
    /\ facade.running =>
          \A route \in Routes : Cardinality(RoutedClients(route)) <= events[route]

LEMMA RoutedFinite ==
  ASSUME NEW route
  PROVE  IsFiniteSet(RoutedClients(route)) /\ Cardinality(RoutedClients(route)) \in Nat
<1>1. RoutedClients(route) \subseteq Active
  BY DEF RoutedClients, RoutedTo
<1> QED
  BY <1>1, ActiveFinite, FS_Subset, FS_CardinalityType

\* Fewer clients are routed, and no event is forgotten.
LEMMA FewerRouted ==
  ASSUME CountInv, NEW route \in Routes, facade.running,
         RoutedClients(route)' \subseteq RoutedClients(route),
         events'[route] \in Nat, events'[route] >= events[route]
  PROVE  Cardinality(RoutedClients(route)') <= events'[route]
<1>1. Cardinality(RoutedClients(route)') <= Cardinality(RoutedClients(route))
  BY RoutedFinite, FS_Subset
<1>2. Cardinality(RoutedClients(route)') \in Nat
  BY RoutedFinite, FS_Subset, FS_CardinalityType
<1>3. Cardinality(RoutedClients(route)) <= events[route] /\ events[route] \in Nat
  BY DEF CountInv
<1> QED
  BY <1>1, <1>2, <1>3, RoutedFinite

\* One more client is routed, and one more event counted.
LEMMA OneMoreRouted ==
  ASSUME CountInv, NEW route \in Routes, facade.running, NEW i,
         RoutedClients(route)' \subseteq RoutedClients(route) \cup {i},
         events'[route] = events[route] + 1
  PROVE  Cardinality(RoutedClients(route)') <= events'[route]
<1> DEFINE S == RoutedClients(route)
           T == S \cup {i}
<1>1. IsFiniteSet(S) /\ Cardinality(S) \in Nat
  BY RoutedFinite
<1>2. IsFiniteSet(T) /\ Cardinality(T) \in Nat /\ Cardinality(T) <= Cardinality(S) + 1
  <2>1. CASE i \in S
    <3>1. T = S
      BY <2>1
    <3> HIDE DEF S, T
    <3> QED
      BY <1>1, <3>1
  <2>2. CASE i \notin S
    <3> HIDE DEF S
    <3> QED
      BY <1>1, <2>2, FS_AddElement
  <2> QED
    BY <2>1, <2>2
<1>3. Cardinality(RoutedClients(route)') <= Cardinality(T)
  BY <1>2, FS_Subset
<1>4. Cardinality(RoutedClients(route)') \in Nat
  BY <1>2, FS_Subset, FS_CardinalityType
<1>5. Cardinality(S) <= events[route] /\ events[route] \in Nat
  BY DEF CountInv
<1> HIDE DEF S, T
<1> QED
  BY <1>1, <1>2, <1>3, <1>4, <1>5

\* Labels of pairs that go are cleared, and pairs that come are unrouted.
LEMMA ManagerRoutesNothing ==
  ASSUME NEW t \in Threads, RoutesFollow(t), NEW i \in Indices,
         entryRoute'[i].label \in Routes
  PROVE  i \in Active /\ entryRoute'[i] = entryRoute[i]
BY DEF RoutesFollow, NoRoute, RecordedRoute, Routes, Active

LEMMA ManagerKeepsCount ==
  ASSUME CountInv, CycleInv, NEW t \in Threads, TaskManagerStep(t)
  PROVE  CountInv'
<1>1. /\ RoutesFollow(t) /\ UNCHANGED <<offloaderVars, cycle, facade, request, events>>
  BY DEF TaskManagerStep, ManagerStep
<1>2. \A i \in Indices : entryRoute'[i].label \in Routes =>
          i \in Active /\ entryRoute'[i] = entryRoute[i]
  BY <1>1, ManagerRoutesNothing
<1>3. Writing => Current.task_index \in Indices
  BY CurrentOK DEF Writing, DecisionPcs, Candidate
<1>4. \A route \in Routes : RoutedClients(route)' \subseteq RoutedClients(route)
  BY <1>1, <1>2 DEF RoutedClients, RoutedTo, Applying, Current, Active
<1>5. /\ Writing' = Writing /\ Current' = Current
  BY <1>1 DEF Writing, Current
<1>6. Writing /\ CurrentLabel' \in Routes => CurrentLabel' = CurrentLabel
  BY <1>2, <1>3, <1>5 DEF CurrentLabel
<1>7. \A route \in Routes : facade.running => Cardinality(RoutedClients(route)') <= events'[route]
  BY <1>1, <1>4, FewerRouted DEF CountInv
<1> QED
  BY <1>1, <1>2, <1>5, <1>6, <1>7 DEF CountInv, Writing

\* An event adds to one of the counters.
LEMMA EventsGrow ==
  ASSUME CountInv, lastEvent' \in Event, CountEvents
  PROVE  /\ events' \in [Routes \cup {"failure"} -> Nat]
         /\ \A route \in Routes : events'[route] >= events[route]
<1>1. /\ lastEvent'.route \in Routes /\ "failure" \notin Routes
      /\ FailureEvents \in Nat
  BY DEF Event, Routes, FailureEvents
<1> QED
  BY <1>1 DEF CountInv, CountEvents

\* A step that writes no entry and begins no application.
LEMMA QuietStepKeepsCount ==
  ASSUME CountInv, UNCHANGED <<entryRoute, monitor, facade, request>>,
         ~Writing, ~Writing',
         events' \in [Routes \cup {"failure"} -> Nat],
         \A route \in Routes : events'[route] >= events[route]
  PROVE  CountInv'
<1>1. \A route \in Routes : RoutedClients(route)' \subseteq RoutedClients(route)
  BY DEF RoutedClients, RoutedTo, Applying, Active, Writing
<1>2. \A route \in Routes : facade.running => Cardinality(RoutedClients(route)') <= events'[route]
  BY <1>1, FewerRouted
<1> QED
  BY <1>2 DEF CountInv, Writing

\* The label in the entry is written: the client is no longer counted as routed.
LEMMA LabelEntryKeepsCount ==
  ASSUME BaseInv, CountInv, LabelEntry,
         UNCHANGED <<monitor, facade, request>>,
         events' \in [Routes \cup {"failure"} -> Nat],
         \A route \in Routes : events'[route] >= events[route]
  PROVE  CountInv'
<1> DEFINE k == Current.task_index
<1>1. /\ cycle \in Cycle /\ cycle.pc = "labelEntry"
      /\ k \in Indices /\ Current.route \in Routes
      /\ entryRoute \in [Indices -> EntryRoute]
  BY CurrentOK
  DEF BaseInv, ControlInv, CycleInv, Validated, ApplyPcs, DecisionPcs, Current,
      HasRoute, Candidate, LabelEntry, At, RouteInv
<1>2. /\ cycle'.pc = "labelRecord" /\ Current' = Current
      /\ k \in Active => cycle'.updated
  BY <1>1 DEF LabelEntry, ApplyTo, Cycle, Current
<1>3. request.pc # "start"
  BY <1>1 DEF BaseInv, CopiesInv, ExclusionInv
<1>4. /\ k \in Active => entryRoute'[k].label = Current.route
      /\ k \notin Active => entryRoute'[k] = NoRoute
      /\ \A i \in Indices \ {k} : entryRoute'[i] = entryRoute[i]
  BY <1>1 DEF LabelEntry, BaseInv, ControlInv, RouteInv, NoRouteWithoutPair, EntryRoute
<1>5. \A i \in Indices : Applying(i)' <=> i = k
  BY <1>2 DEF Applying
<1>6. \A i \in Indices : ~Applying(i)
  BY <1>1 DEF Applying
<1>7. Active' = Active
  BY DEF Active
<1>8. \A route \in Routes : RoutedClients(route)' \subseteq RoutedClients(route)
  <2> SUFFICES ASSUME NEW route \in Routes, NEW i \in RoutedClients(route)'
               PROVE  i \in RoutedClients(route)
    OBVIOUS
  <2>1. /\ i \in Active /\ i \in Indices /\ i # k
        /\ entryRoute'[i].label = route /\ entryRoute'[i].client
    BY <1>5, <1>7 DEF RoutedClients, RoutedTo, Active
  <2> QED
    BY <1>4, <1>6, <2>1 DEF RoutedClients, RoutedTo
<1>9. \A route \in Routes : facade.running => Cardinality(RoutedClients(route)') <= events'[route]
  BY <1>8, FewerRouted
<1>10. CurrentLabel' = entryRoute'[k].label
  BY <1>2 DEF CurrentLabel
<1>11. NoRoute.label \notin Routes
  BY DEF NoRoute, Routes
<1> HIDE DEF k
<1> QED
  BY <1>2, <1>3, <1>4, <1>9, <1>10, <1>11 DEF CountInv, Writing

\* The label in the record is written; if there is none left to write to, and
\* there was no entry either, nothing was routed.
LEMMA LabelRecordKeepsCount ==
  ASSUME BaseInv, CountInv, LabelRecord,
         UNCHANGED <<monitor, facade, request>>,
         events' \in [Routes \cup {"failure"} -> Nat],
         \A route \in Routes : events'[route] >= events[route]
  PROVE  CountInv'
<1>1. /\ cycle \in Cycle /\ cycle.pc = "labelRecord" /\ UNCHANGED entryRoute
  BY DEF BaseInv, ControlInv, CycleInv, LabelRecord, At
<1>2. Active' = Active
  BY DEF Active
<1>3. CASE cycle'.pc = "site" /\ Current' = Current
  <2>1. \A i \in Indices : Applying(i)' <=> Applying(i)
    BY <1>1, <1>3 DEF Applying
  <2>2. \A route \in Routes : RoutedClients(route)' \subseteq RoutedClients(route)
    BY <1>1, <1>2, <2>1 DEF RoutedClients, RoutedTo, Active
  <2>3. \A route \in Routes :
           facade.running => Cardinality(RoutedClients(route)') <= events'[route]
    BY <2>2, FewerRouted
  <2> QED
    BY <1>1, <1>3, <2>3 DEF CountInv, Writing, CurrentLabel
<1>4. CASE cycle'.pc = "idle" /\ ~cycle.updated
  <2>1. CurrentLabel \notin Routes
    BY <1>1, <1>4 DEF CountInv
  <2>2. \A route \in Routes : RoutedClients(route)' \subseteq RoutedClients(route)
    <3> SUFFICES ASSUME NEW route \in Routes, NEW i \in RoutedClients(route)'
                 PROVE  i \in RoutedClients(route)
      OBVIOUS
    <3>1. i \in Active /\ entryRoute[i].label = route /\ entryRoute[i].client
      BY <1>1, <1>2 DEF RoutedClients, RoutedTo
    <3>2. ~Applying(i)
      BY <2>1, <3>1 DEF Applying, CurrentLabel
    <3> QED
      BY <3>1, <3>2 DEF RoutedClients, RoutedTo
  <2>3. \A route \in Routes :
           facade.running => Cardinality(RoutedClients(route)') <= events'[route]
    BY <2>2, FewerRouted
  <2> QED
    BY <1>1, <1>4, <2>3 DEF CountInv, Writing
<1> QED
  BY <1>1, <1>3, <1>4, ReturnDoesNotWrite DEF LabelRecord, FailWith, Cycle, Current

\* The site is written and the route reported: it is in force, and counted.
LEMMA SetSiteKeepsCount ==
  ASSUME BaseInv, CountInv, SetSite, CountEvents, lastEvent' \in Event,
         UNCHANGED <<monitor, facade, request>>
  PROVE  CountInv'
<1> DEFINE k == Current.task_index
<1>1. /\ cycle \in Cycle /\ cycle.pc = "site" /\ k \in Indices /\ Current.route \in Routes
      /\ entryRoute \in [Indices -> EntryRoute]
  BY CurrentOK
  DEF BaseInv, ControlInv, CycleInv, Validated, ApplyPcs, DecisionPcs, Current,
      HasRoute, Candidate, SetSite, At, RouteInv
<1>2. ~Writing'
  BY <1>1, ReturnDoesNotWrite DEF SetSite, ApplyNext, FailWith, Writing, Cycle
<1>3. request.pc # "start"
  BY <1>1 DEF BaseInv, CopiesInv, ExclusionInv
<1>4. Active' = Active
  BY DEF Active
<1>5. \A i \in Indices : /\ entryRoute'[i].label = entryRoute[i].label
                         /\ entryRoute'[i].client = entryRoute[i].client
  BY <1>1 DEF SetSite, EntryRoute
<1>6. \A i \in Indices : ~Applying(i)'
  BY <1>2 DEF Applying, Writing
<1>7. \A i \in Indices \ {k} : ~Applying(i)
  BY DEF Applying
<1>8. \A route \in Routes : RoutedClients(route)' \subseteq RoutedClients(route) \cup {k}
  <2> SUFFICES ASSUME NEW route \in Routes, NEW i \in RoutedClients(route)', i # k
               PROVE  i \in RoutedClients(route)
    OBVIOUS
  <2> QED
    BY <1>4, <1>5, <1>7 DEF RoutedClients, RoutedTo, Active
<1>9. /\ events' \in [Routes \cup {"failure"} -> Nat]
      /\ \A route \in Routes : events'[route] >= events[route]
  BY EventsGrow
<1>10. ASSUME NEW route \in Routes, facade.running
       PROVE  Cardinality(RoutedClients(route)') <= events'[route]
  <2>1. CASE k \in RoutedClients(route)'
    <3>1. k \in Active /\ CurrentLabel = route
      BY <1>1, <1>4, <1>5, <2>1 DEF RoutedClients, RoutedTo, CurrentLabel
    <3>2. route = Current.route
      BY <1>1, <3>1 DEF CountInv, Writing
    <3>3. lastEvent'.type = "route" /\ lastEvent'.route = route
      BY <3>1, <3>2 DEF SetSite, RecordRoute
    <3>4. RecordsEvent
      BY <1>1 DEF RecordsEvent
    <3>5. events' = [events EXCEPT ![route] = @ + 1]
      BY <3>3, <3>4 DEF CountEvents
    <3>6. events'[route] = events[route] + 1
      BY <3>5 DEF CountInv
    <3> HIDE DEF k
    <3> QED
      BY <1>8, <1>10, <3>6, OneMoreRouted
  <2>2. CASE k \notin RoutedClients(route)'
    <3>1. RoutedClients(route)' \subseteq RoutedClients(route)
      BY <1>8, <2>2
    <3> QED
      BY <1>9, <1>10, <3>1, FewerRouted
  <2> QED
    BY <2>1, <2>2
<1> QED
  BY <1>2, <1>3, <1>9, <1>10 DEF CountInv, Writing

LEMMA CyclingKeepsCount ==
  ASSUME BaseInv, BaseInv', CountInv, Cycling
  PROVE  CountInv'
<1>1. /\ CycleStep /\ CountEvents /\ UNCHANGED <<facade, request>>
      /\ cycle \in Cycle /\ lastEvent' \in Event
  BY DEF Cycling, BaseInv, ControlInv, CycleInv, StateInv
<1>2. UNCHANGED monitor
  BY <1>1, CycleStepFrames DEF vars, monitorVars
<1>3. /\ events' \in [Routes \cup {"failure"} -> Nat]
      /\ \A route \in Routes : events'[route] >= events[route]
  BY <1>1, EventsGrow
<1>4. CASE QuietSteps
  BY <1>1, <1>2, <1>3, <1>4, QuietStepsAreQuiet, QuietStepKeepsCount
<1> QED
  BY <1>1, <1>2, <1>3, <1>4, LabelEntryKeepsCount, LabelRecordKeepsCount,
     SetSiteKeepsCount
  DEF CycleStep, QuietSteps

\* A start begins with an empty store, and ends with counters at 0 and no route.
LEMMA StartKeepsCount ==
  ASSUME CountInv, Start
  PROVE  CountInv'
<1>1. PICK c \in Config : StartManager(c)
  BY StartConfigs
<1>2. /\ cycle.pc = "idle" /\ UNCHANGED <<cycle, facade, events>> /\ ~facade.running
      /\ entryRoute' = [i \in Indices |-> NoRoute]
  BY <1>1 DEF StartManager, Free, At
<1> QED
  BY <1>2 DEF CountInv, Writing, NoRoute, Routes

LEMMA StartControllerKeepsCount ==
  ASSUME BaseInv, CountInv, StartController
  PROVE  CountInv'
<1>1. /\ request.pc = "start" /\ request'.pc = "none"
      /\ UNCHANGED <<vars, routeVars, cycle>> /\ events' = NoEvents
      /\ cycle.pc = "idle"
  BY DEF StartController, NoRequest, BaseInv, CopiesInv, ExclusionInv
<1>2. events' \in [Routes \cup {"failure"} -> Nat] /\ \A route \in Routes : events'[route] = 0
  BY <1>1 DEF NoEvents, Routes
<1>3. \A route \in Routes : RoutedClients(route)' = {}
  BY <1>1 DEF CountInv, RoutedClients, RoutedTo, Active, routeVars, vars, monitorVars
<1>4. \A route \in Routes : Cardinality(RoutedClients(route)') = 0
  BY <1>3, FS_EmptySet
<1> QED
  BY <1>1, <1>2, <1>4 DEF CountInv, Writing

LEMMA StopKeepsCount ==
  ASSUME CopiesInv, CountInv, Stop
  PROVE  CountInv'
<1>1. /\ events' = NoEvents
      /\ UNCHANGED <<vars, routeVars, cycle, request>>
      /\ cycle.pc = "idle" /\ request.pc = "none"
  BY DEF Stop, Free, At
<1>2. ~facade'.running
  BY DEF Stop, CopiesInv, ResolvedInv, Facade
<1> QED
  BY <1>1, <1>2 DEF CountInv, Writing, NoEvents, Routes

LEMMA CountNext == BaseInv /\ BaseInv' /\ CountInv /\ [FacadeNext]_facadeVars => CountInv'
<1> SUFFICES ASSUME BaseInv, BaseInv', CountInv, [FacadeNext]_facadeVars PROVE CountInv'
  OBVIOUS
<1>1. ASSUME UNCHANGED <<controlVars, facade, events>>,
             request'.pc = "start" => UNCHANGED request
      PROVE  CountInv'
  BY <1>1 DEF CountInv, RoutedClients, RoutedTo, Applying, Active, Writing, CurrentLabel,
     Current, controlVars, vars, routeVars, monitorVars
<1>2. CASE UNCHANGED facadeVars
  BY <1>1, <1>2 DEF facadeVars
<1>3. CASE RequestSteps
  BY <1>1, <1>3, RequestStepFrames DEF BaseInv
<1>4. CASE RunOnce
  <2>1. PICK run \in {"once", "index"}, i \in Indices : StartRun(run, i)
    BY <1>4, ConfigAssumption DEF RunOnce, BeginCycle, BeginIndex, Indices
  <2>2. /\ cycle.pc = "idle" /\ cycle'.pc = "snapshot" /\ UNCHANGED <<vars, routeVars>>
        /\ UNCHANGED <<facade, request, events>>
    BY <1>4, <2>1 DEF RunOnce, StartRun, NoCycle, At
  <2>3. /\ events' \in [Routes \cup {"failure"} -> Nat]
        /\ \A route \in Routes : events'[route] >= events[route]
    BY <2>2 DEF CountInv
  <2> QED
    BY <2>2, <2>3, QuietStepKeepsCount DEF Writing, routeVars, vars, monitorVars
<1>5. ASSUME NEW t \in Threads, TaskManagerStep(t) PROVE CountInv'
  BY <1>5, ManagerKeepsCount DEF BaseInv, ControlInv
<1> QED
  BY <1>2, <1>3, <1>4, <1>5, CyclingKeepsCount, StartKeepsCount,
     StartControllerKeepsCount, StopKeepsCount
  DEF FacadeNext, RequestSteps, BaseInv

LEMMA CountInit == FacadeInit => CountInv
BY DEF FacadeInit, ControlInit, CountInv, NoEvents, NoRequest, NoFacade, NoCycle,
   Writing, Routes

\* The diagnostics never show fewer route events than there are routes in force,
\* for any number of clients and threads and any sequence of starts, stops,
\* cycles and teardowns.
THEOREM DiagnosticsAreComplete == FacadeSpec => []DiagnosticsCountRoutes
<1>1. CountInv => DiagnosticsCountRoutes
  BY DEF CountInv, DiagnosticsCountRoutes, RoutedClients
<1> QED
  BY <1>1, BaseInvariantHolds, CountInit, CountNext, PTL DEF FacadeSpec

-----------------------------------------------------------------------------
(* What the controller promises, through the facade.                       *)

LEMMA FacadeSteps ==
  ASSUME RequestInv, [FacadeNext]_facadeVars
  PROVE  \/ [ControlNext]_controlVars
         \/ Start \/ StartController \/ Stop
BY RequestStepFrames
DEF FacadeNext, RequestSteps, TaskManagerStep, RunOnce, Cycling, ControlNext, BeginRun,
    facadeVars

\* A start leaves no entry active, while the controller rests.
LEMMA StartClears ==
  ASSUME Start
  PROVE  /\ Active' = {} /\ UNCHANGED <<lastEvent, cycle>> /\ cycle.pc = "idle"
         /\ entryRoute' = [i \in Indices |-> NoRoute]
<1>1. PICK c \in Config : StartManager(c)
  BY StartConfigs
<1> QED
  BY <1>1
  DEF StartManager, ResetStore, ClearStore, ZeroEntry, Active, offloaderVars, Free, At

LEMMA FacadeKeepsReport == BaseInv /\ ReportInv /\ [FacadeNext]_facadeVars => ReportInv'
<1> SUFFICES ASSUME BaseInv, ReportInv, [FacadeNext]_facadeVars PROVE ReportInv'
  OBVIOUS
<1>1. CASE [ControlNext]_controlVars
  BY <1>1, ControlNextKeepsReport DEF BaseInv
<1>2. CASE Start
  BY <1>2, StartClears DEF ReportInv, LabelWritten, ReportedRouteHolds, Writing
<1>3. CASE StartController \/ Stop
  BY <1>3, ConfigurationKeepsReport
  DEF StartController, Initialize, Stop, Shutdown, Free, At, BaseInv, CopiesInv,
      ExclusionInv
<1> QED
  BY <1>1, <1>2, <1>3, FacadeSteps DEF BaseInv

\* The route that the diagnostics report last is the route in force, across
\* stops and starts too.
THEOREM DiagnosticsHold == FacadeSpec => []ReportedRouteHolds
<1>1. FacadeInit => ReportInv
  BY DEF FacadeInit, ControlInit, ReportInv, LabelWritten, ReportedRouteHolds, Writing,
         NoCycle, NoEvent
<1>2. ReportInv => ReportedRouteHolds
  BY DEF ReportInv
<1> QED
  BY <1>1, <1>2, BaseInvariantHolds, FacadeKeepsReport, PTL DEF FacadeSpec

LEMMA FacadeKeepsAdvice ==
  ASSUME SoleCaller, BuiltInDecides
  PROVE  BaseInv /\ AdviceInv /\ [FacadeNext]_facadeVars => AdviceInv'
<1> SUFFICES ASSUME BaseInv, AdviceInv, [FacadeNext]_facadeVars PROVE AdviceInv'
  OBVIOUS
<1>1. CASE [ControlNext]_controlVars
  BY <1>1, ControlNextKeepsAdvice DEF BaseInv
<1>2. CASE Start
  BY <1>2, StartClears DEF AdviceInv
<1>3. CASE StartController \/ Stop
  BY <1>3, RestKeepsAdvice
  DEF StartController, Stop, Free, At, BaseInv, CopiesInv, ExclusionInv
<1> QED
  BY <1>1, <1>2, <1>3, FacadeSteps DEF BaseInv

\* The built-in policies fail closed, each on what it reads, whatever
\* configuration the runtime was started with.
THEOREM PoliciesFailClosed ==
  ASSUME SoleCaller, BuiltInDecides
  PROVE  FacadeSpec => MalformedIsNeverRouted
<1> DEFINE A == \A i \in Active \cap Active' :
                   entryRoute[i].client /\ Malformed(i) => StaysUnrouted(i)
<1>1. FacadeInit => AdviceInv
  BY DEF FacadeInit, ControlInit, AdviceInv, NoCycle
<1>2. BaseInv /\ AdviceInv /\ [FacadeNext]_facadeVars => [A]_controlVars
  <2> SUFFICES ASSUME BaseInv, AdviceInv, [FacadeNext]_facadeVars PROVE [A]_controlVars
    OBVIOUS
  <2>1. CASE [ControlNext]_controlVars
    BY <2>1, ControlNextSparesUnfit DEF BaseInv, ControlInv, Unfit
  <2>2. CASE Start
    BY <2>2, StartClears
  <2>3. CASE StartController \/ Stop
    BY <2>3 DEF StartController, Stop, routeVars, StaysUnrouted
  <2> QED
    BY <2>1, <2>2, <2>3, FacadeSteps DEF BaseInv
<1> QED
  BY <1>1, <1>2, BaseInvariantHolds, FacadeKeepsAdvice, PTL
  DEF FacadeSpec, MalformedIsNeverRouted

-----------------------------------------------------------------------------
(* The status.                                                             *)

From(n) == {i \in Active : i >= n}

\* The thread that asks for the status is in no other call; the entries still
\* to be scanned and the candidates already counted were all active when the
\* entries were counted.
StatusInv ==
    /\ request.pc \in {"count", "scan", "lookup", "report"} => Idle(Control)
    /\ request.pc = "scan" =>
          request.candidates + Cardinality(From(request.at)) <= request.monitored
    /\ request.pc = "lookup" =>
          request.candidates + 1 + Cardinality(From(request.at + 1)) <= request.monitored
    /\ CandidatesAreMonitored

LEMMA FromFinite ==
  ASSUME NEW n
  PROVE  IsFiniteSet(From(n)) /\ Cardinality(From(n)) \in Nat
<1>1. From(n) \subseteq Active
  BY DEF From
<1> QED
  BY <1>1, ActiveFinite, FS_Subset, FS_CardinalityType

\* One entry is scanned.
LEMMA OneScanned ==
  ASSUME NEW n \in Nat
  PROVE  /\ Cardinality(From(n + 1)) <= Cardinality(From(n))
         /\ n \in Active => Cardinality(From(n)) = Cardinality(From(n + 1)) + 1
<1>1. From(n + 1) \subseteq From(n)
  BY ConfigAssumption DEF From, Active, Indices
<1>2. Cardinality(From(n + 1)) <= Cardinality(From(n))
  BY <1>1, FromFinite, FS_Subset
<1>3. ASSUME n \in Active PROVE Cardinality(From(n)) = Cardinality(From(n + 1)) + 1
  <2>1. From(n) = From(n + 1) \cup {n} /\ n \notin From(n + 1)
    BY <1>3, ConfigAssumption DEF From, Active, Indices
  <2> QED
    BY <2>1, FromFinite, FS_AddElement
<1> QED
  BY <1>2, <1>3

\* The scan goes on, or ends with what it has counted.
LEMMA ScanNextMonitors ==
  ASSUME NEW r \in Request, ScanNext(r), UNCHANGED monitor,
         Idle(Control)',
         r.candidates + Cardinality(From(r.at + 1)) <= r.monitored
  PROVE  StatusInv'
<1>1. From(r.at + 1)' = From(r.at + 1) /\ Cardinality(From(r.at + 1)) \in Nat
  BY FromFinite DEF From, Active
<1>2. CASE r.at + 1 \in Indices
  <2>1. request' = [r EXCEPT !.pc = "scan", !.at = @ + 1]
    BY <1>2 DEF ScanNext
  <2>2. /\ request'.pc = "scan" /\ request'.at = r.at + 1
        /\ request'.candidates = r.candidates /\ request'.monitored = r.monitored
    BY <2>1 DEF Request
  <2>3. From(request.at)' = From(r.at + 1)
    BY <1>1, <2>2 DEF From
  <2> QED
    BY <2>2, <2>3 DEF StatusInv, CandidatesAreMonitored
<1>3. CASE r.at + 1 \notin Indices
  <2>1. request' = [r EXCEPT !.pc = "report"]
    BY <1>3 DEF ScanNext
  <2>2. /\ request'.pc = "report"
        /\ request'.candidates = r.candidates /\ request'.monitored = r.monitored
    BY <2>1 DEF Request
  <2>3. r.candidates \in Nat /\ r.monitored \in Nat
    BY ConfigAssumption DEF Request
  <2> QED
    BY <1>1, <2>2, <2>3 DEF StatusInv, CandidatesAreMonitored
<1> QED
  BY <1>2, <1>3

LEMMA RequestStepMonitors ==
  ASSUME RequestInv, StatusInv, RequestSteps
  PROVE  StatusInv'
<1>0. request \in Request /\ request.candidates \in Nat /\ request.monitored \in Nat
      /\ request.at \in Nat
  BY ConfigAssumption DEF RequestInv, Request, Indices
<1>1. UNCHANGED <<monitor, call>>
  BY RequestStepFrames DEF controlVars, vars, monitorVars
<1>2. CASE QueryStatus
  <2>1. request'.pc = "count" /\ Idle(Control)
    BY <1>2, FacadeAssumption
    DEF QueryStatus, NoRequest, Free, At, ControlIsFree
  <2> QED
    BY <1>1, <2>1 DEF StatusInv, CandidatesAreMonitored, Idle
<1>3. CASE CountMonitored
  <2>1. request' = [request EXCEPT !.pc = IF Scans THEN "scan" ELSE "report",
                                   !.monitored = Cardinality(Active)]
    BY <1>3 DEF CountMonitored
  <2>2. /\ request'.pc \in {"scan", "report"} /\ request'.monitored = Cardinality(Active)
        /\ request'.at = 0 /\ request'.candidates = 0
    BY <1>3, <2>1 DEF CountMonitored, RequestInv, Request
  <2>3. From(0) = Active /\ From(request.at)' = From(0)
    BY <1>1, <2>2, ConfigAssumption DEF From, Active, Indices
  <2>4. Cardinality(From(0)) \in Nat
    BY FromFinite
  <2>5. Idle(Control)'
    BY <1>1, <1>3 DEF CountMonitored, StatusInv, Idle
  <2> QED
    BY <2>2, <2>3, <2>4, <2>5 DEF StatusInv, CandidatesAreMonitored
<1>4. CASE ScanEntry
  <2>0. request.pc = "scan" /\ Idle(Control)'
    BY <1>1, <1>4 DEF ScanEntry, StatusInv, Idle
  <2>1. request.candidates + Cardinality(From(request.at)) <= request.monitored
    BY <2>0 DEF StatusInv
  <2>2. /\ Cardinality(From(request.at)) \in Nat
        /\ Cardinality(From(request.at + 1)) \in Nat
    BY FromFinite
  <2>3. CASE request.at \in Active /\ entryRoute[request.at].client
    <3>1. request' = [request EXCEPT !.pc = "lookup"]
      BY <1>4, <2>3 DEF ScanEntry
    <3>2. /\ request'.pc = "lookup" /\ request'.at = request.at
          /\ request'.candidates = request.candidates
          /\ request'.monitored = request.monitored
      BY <1>0, <3>1 DEF Request
    <3>3. From(request.at + 1)' = From(request.at + 1)
      BY <1>1, <3>2 DEF From, Active
    <3>4. Cardinality(From(request.at)) = Cardinality(From(request.at + 1)) + 1
      BY <1>0, <2>3, OneScanned
    <3> QED
      BY <1>0, <2>0, <2>1, <2>2, <3>2, <3>3, <3>4 DEF StatusInv, CandidatesAreMonitored
  <2>4. CASE ScanNext(request)
    <3>1. Cardinality(From(request.at + 1)) <= Cardinality(From(request.at))
      BY <1>0, OneScanned
    <3>2. request.candidates + Cardinality(From(request.at + 1)) <= request.monitored
      BY <1>0, <2>1, <2>2, <3>1
    <3> QED
      BY <1>0, <1>1, <2>0, <2>4, <3>2, ScanNextMonitors
  <2> QED
    BY <1>4, <2>3, <2>4 DEF ScanEntry
<1>5. CASE LookUpRuntime
  <2> DEFINE r == IF \E s \in Slots : FoundByIndex(s, request.at)
                  THEN [request EXCEPT !.candidates = @ + 1]
                  ELSE request
  <2>0. request.pc = "lookup" /\ Idle(Control)'
    BY <1>1, <1>5 DEF LookUpRuntime, StatusInv, Idle
  <2>1. /\ request.candidates + 1 + Cardinality(From(request.at + 1)) <= request.monitored
        /\ Cardinality(From(request.at + 1)) \in Nat
    BY <2>0, FromFinite DEF StatusInv
  <2>2. request.candidates + 1 \in 0..MaxTasks
    BY <1>0, <2>1, ConfigAssumption DEF Request
  <2>3. /\ r \in Request /\ r.at = request.at /\ r.monitored = request.monitored
        /\ r.candidates \in {request.candidates, request.candidates + 1}
    BY <1>0, <2>2 DEF Request
  <2>4. ScanNext(r)
    BY <1>5 DEF LookUpRuntime
  <2> HIDE DEF r
  <2>5. r.candidates + Cardinality(From(r.at + 1)) <= r.monitored
    BY <1>0, <2>1, <2>3
  <2> QED
    BY <1>1, <2>0, <2>3, <2>4, <2>5, ScanNextMonitors
<1>6. CASE ReportStatus
  BY <1>6 DEF ReportStatus, StatusInv, CandidatesAreMonitored, NoRequest
<1> QED
  BY <1>2, <1>3, <1>4, <1>5, <1>6 DEF RequestSteps

\* While the thread asks, entries only go.
LEMMA ManagerKeepsStatus ==
  ASSUME SoleCaller, IInv, RequestInv, StatusInv, NEW t \in Threads, TaskManagerStep(t)
  PROVE  StatusInv'
<1>1. /\ Begin(t) \/ Continue(t)
      /\ UNCHANGED request
  BY DEF TaskManagerStep, ManagerStep
<1>2. CASE request.pc \in {"count", "scan", "lookup", "report"}
  <2>1. Idle(Control) /\ Control \in Threads
    BY <1>2, FacadeAssumption DEF StatusInv, Threads
  <2>2. t # Control
    BY <1>2, <2>1 DEF TaskManagerStep, Free
  <2>3. Idle(Control)'
    BY <1>1, <2>1, <2>2, CallsElsewhere DEF Idle, IdleCall
  <2>4. Active' \subseteq Active
    BY <1>1, <2>2, NoneCreatedMeanwhile
  <2>5. /\ request.candidates \in Nat /\ request.monitored \in Nat
    BY ConfigAssumption DEF RequestInv, Request
  <2>6. From(request.at)' = {i \in Active' : i >= request.at}
    BY <1>1 DEF From
  <2>7. From(request.at + 1)' = {i \in Active' : i >= request.at + 1}
    BY <1>1 DEF From
  <2>8. /\ Cardinality(From(request.at)') <= Cardinality(From(request.at))
        /\ Cardinality(From(request.at)') \in Nat
        /\ Cardinality(From(request.at)) \in Nat
        /\ Cardinality(From(request.at + 1)') <= Cardinality(From(request.at + 1))
        /\ Cardinality(From(request.at + 1)') \in Nat
        /\ Cardinality(From(request.at + 1)) \in Nat
    <3>1. \A x : {i \in Active' : i >= x} \subseteq From(x)
      BY <2>4 DEF From
    <3>2. \A x : /\ Cardinality({i \in Active' : i >= x}) <= Cardinality(From(x))
                 /\ Cardinality({i \in Active' : i >= x}) \in Nat
                 /\ Cardinality(From(x)) \in Nat
      BY <3>1, FromFinite, FS_Subset, FS_CardinalityType
    <3> QED
      BY <2>6, <2>7, <3>2
  <2> QED
    BY <1>1, <2>3, <2>5, <2>8 DEF StatusInv, CandidatesAreMonitored
<1>3. CASE request.pc \notin {"count", "scan", "lookup", "report"}
  BY <1>1, <1>3 DEF StatusInv, CandidatesAreMonitored
<1> QED
  BY <1>2, <1>3

LEMMA StatusNext ==
  ASSUME SoleCaller
  PROVE  BaseInv /\ StatusInv /\ [FacadeNext]_facadeVars => StatusInv'
<1> SUFFICES ASSUME BaseInv, StatusInv, [FacadeNext]_facadeVars PROVE StatusInv'
  OBVIOUS
<1>1. ASSUME UNCHANGED <<vars, request>> PROVE StatusInv'
  BY <1>1 DEF StatusInv, CandidatesAreMonitored, From, Active, Idle, vars, monitorVars
<1>2. CASE UNCHANGED facadeVars
  BY <1>1, <1>2 DEF facadeVars, controlVars
<1>3. ASSUME request'.pc \in {"none", "start"} PROVE StatusInv'
  BY <1>3 DEF StatusInv, CandidatesAreMonitored
<1>4. CASE Start
  <2>1. PICK c \in Config : StartManager(c)
    BY <1>4, StartConfigs
  <2>2. request'.pc = "start"
    BY <2>1 DEF StartManager, NoRequest
  <2> QED
    BY <1>3, <2>2
<1>5. CASE StartController
  BY <1>3, <1>5 DEF StartController, NoRequest
<1>6. CASE Stop
  BY <1>1, <1>6 DEF Stop
<1>7. CASE RunOnce \/ Cycling
  BY <1>1, <1>7, CycleStepFrames DEF RunOnce, Cycling, BeginRun
<1>8. ASSUME NEW t \in Threads, TaskManagerStep(t) PROVE StatusInv'
  BY <1>8, ManagerKeepsStatus DEF BaseInv
<1> QED
  BY <1>2, <1>4, <1>5, <1>6, <1>7, <1>8, RequestStepMonitors
  DEF FacadeNext, RequestSteps, BaseInv

\* A status reports no more candidates than monitored tasks, however many pairs
\* are torn down between the count of the entries and the end of the scan.
THEOREM StatusIsConsistent ==
  ASSUME SoleCaller
  PROVE  FacadeSpec => []CandidatesAreMonitored
<1>1. FacadeInit => StatusInv
  BY DEF FacadeInit, StatusInv, CandidatesAreMonitored, NoRequest
<1>2. StatusInv => CandidatesAreMonitored
  BY DEF StatusInv
<1> QED
  BY <1>1, <1>2, BaseInvariantHolds, StatusNext, PTL DEF FacadeSpec

-----------------------------------------------------------------------------
(* The counters.                                                           *)

\* What a step adds to the counters.
Recorded ==
    IF ~RecordsEvent THEN 0 ELSE IF lastEvent'.type = "route" THEN 1 ELSE FailureEvents

\* While a batch is decided nothing is recorded; a candidate that is done with
\* has recorded one event, and the end of the call may record two.
TotalInv ==
    /\ events \in [{"LOCAL", "REMOTE", "failure"} -> Nat]
    /\ TotalEvents <= MaxEvents + MaxTasks
    /\ cycle.pc \in CollectionPcs \cup {"plan"} => TotalEvents < MaxEvents
    /\ InBatch /\ cycle.pc \in {"check", "checkId"} => TotalEvents < MaxEvents
    /\ cycle.pc \in DecisionPcs => TotalEvents + 1 < MaxEvents + cycle.at

\* An event adds to one of the counters, as much as it is recorded.
LEMMA EventsCounted ==
  ASSUME TotalInv, lastEvent' \in Event, CountEvents
  PROVE  /\ events' \in [{"LOCAL", "REMOTE", "failure"} -> Nat]
         /\ TotalEvents' = TotalEvents + Recorded
         /\ TotalEvents \in Nat /\ Recorded \in 0..2
<1>1. /\ events.LOCAL \in Nat /\ events.REMOTE \in Nat /\ events.failure \in Nat
      /\ TotalEvents \in Nat
  BY DEF TotalInv, TotalEvents
<1>2. Recorded \in 0..2 /\ FailureEvents \in {1, 2}
  BY DEF Recorded, FailureEvents
<1>3. CASE ~RecordsEvent
  BY <1>1, <1>3 DEF CountEvents, TotalInv, TotalEvents, Recorded
<1>4. ASSUME NEW kind \in {"LOCAL", "REMOTE", "failure"},
             events' = [events EXCEPT ![kind] = @ + Recorded]
      PROVE  /\ events' \in [{"LOCAL", "REMOTE", "failure"} -> Nat]
             /\ TotalEvents' = TotalEvents + Recorded
  <2>1. events \in [{"LOCAL", "REMOTE", "failure"} -> Nat]
    BY DEF TotalInv
  <2>2. /\ events' \in [{"LOCAL", "REMOTE", "failure"} -> Nat]
        /\ events'[kind] = events[kind] + Recorded
        /\ \A k \in {"LOCAL", "REMOTE", "failure"} \ {kind} : events'[k] = events[k]
    BY <1>2, <1>4, <2>1
  <2> QED
    BY <1>1, <1>2, <2>2 DEF TotalEvents
<1>5. CASE RecordsEvent
  <2>1. lastEvent'.route \in {"LOCAL", "REMOTE"}
    BY DEF Event, Routes
  <2>2. CASE lastEvent'.type = "route"
    <3>1. Recorded = 1
      BY <1>5, <2>2 DEF Recorded
    <3>2. events' = [events EXCEPT ![lastEvent'.route] = @ + Recorded]
      BY <1>5, <2>2, <3>1 DEF CountEvents
    <3> QED
      BY <1>1, <1>2, <1>4, <2>1, <3>2
  <2>3. CASE lastEvent'.type # "route"
    <3>1. Recorded = FailureEvents
      BY <1>5, <2>3 DEF Recorded
    <3>2. events' = [events EXCEPT !["failure"] = @ + Recorded]
      BY <1>5, <2>3, <3>1 DEF CountEvents
    <3> QED
      BY <1>1, <1>2, <1>4, <3>2
  <2> QED
    BY <2>2, <2>3
<1> QED
  BY <1>1, <1>2, <1>3, <1>4, <1>5

LEMMA CyclingCounts ==
  ASSUME ControlInv, ControlInv', TotalInv, Cycling
  PROVE  TotalInv'
<1>0. /\ CycleStep /\ CountEvents /\ UNCHANGED offloader
      /\ cycle \in Cycle /\ cycle' \in Cycle /\ lastEvent' \in Event
  BY CycleStepFrames DEF Cycling, ControlInv, CycleInv, StateInv
<1>1. /\ events' \in [{"LOCAL", "REMOTE", "failure"} -> Nat]
      /\ TotalEvents' = TotalEvents + Recorded
      /\ TotalEvents \in Nat /\ Recorded \in 0..2
  BY <1>0, EventsCounted
<1>2. /\ cycle.at \in Nat /\ cycle.at <= MaxTasks /\ cycle'.at \in Nat
      /\ cycle'.pc \in DecisionPcs => 1 <= cycle'.at
      /\ cycle.pc \in DecisionPcs => 1 <= cycle.at
  BY ConfigAssumption, <1>0 DEF Cycle, ControlInv, CycleInv, Buffered
<1>3. /\ MaxEvents \in Nat /\ MaxTasks \in Nat
  BY FacadeAssumption, ConfigAssumption
<1>4. CASE cycle.pc \in CollectionPcs
  <2>1. Recorded = 0
    BY <1>4 DEF Recorded, RecordsEvent, CollectionPcs, DecisionPcs
  <2>2. TotalEvents < MaxEvents
    BY <1>4 DEF TotalInv
  <2> QED
    BY <1>1, <1>2, <1>3, <2>1, <2>2 DEF TotalInv
\* The call ends, or goes on deciding.
<1>5. ASSUME cycle.pc \in DecisionPcs, cycle'.pc = "idle" PROVE TotalInv'
  <2>1. TotalEvents + 1 < MaxEvents + cycle.at
    BY <1>5 DEF TotalInv
  <2>2. TotalEvents' <= MaxEvents + MaxTasks
    BY <1>1, <1>2, <1>3, <2>1
  <2> QED
    BY <1>1, <1>5, <2>2 DEF TotalInv, CollectionPcs, DecisionPcs
<1>6. ASSUME cycle.pc \in DecisionPcs, cycle'.pc \in DecisionPcs \ {"plan"},
             cycle'.run = cycle.run,
             \/ /\ cycle.pc = "plan" \/ (InBatch /\ cycle.pc \in {"check", "checkId"})
                /\ Recorded = 0
             \/ /\ InBatch => cycle'.pc \notin {"check", "checkId"}
                /\ cycle'.at >= cycle.at + Recorded
      PROVE  TotalInv'
  <2>1. TotalEvents + 1 < MaxEvents + cycle.at
    BY <1>6 DEF TotalInv
  <2>2. TotalEvents' <= MaxEvents + MaxTasks
    BY <1>1, <1>2, <1>3, <2>1
  <2>3. cycle'.pc \notin CollectionPcs \cup {"plan"} /\ InBatch' = InBatch
    BY <1>0, <1>6 DEF CollectionPcs, DecisionPcs, InBatch
  <2>4. CASE /\ cycle.pc = "plan" \/ (InBatch /\ cycle.pc \in {"check", "checkId"})
             /\ Recorded = 0
    <3>1. TotalEvents' < MaxEvents
      BY <1>1, <2>4 DEF TotalInv
    <3>2. TotalEvents' + 1 < MaxEvents + cycle'.at
      BY <1>1, <1>2, <1>3, <1>6, <3>1
    <3> QED
      BY <1>1, <2>2, <2>3, <3>1, <3>2 DEF TotalInv
  <2>5. CASE /\ InBatch => cycle'.pc \notin {"check", "checkId"}
             /\ cycle'.at >= cycle.at + Recorded
    <3>1. TotalEvents' + 1 < MaxEvents + cycle'.at
      BY <1>1, <1>2, <1>3, <2>1, <2>5
    <3> QED
      BY <1>1, <2>2, <2>3, <2>5, <3>1 DEF TotalInv
  <2> QED
    BY <1>6, <2>4, <2>5
<1>7. CASE EvaluateCandidate
  <2>1. /\ cycle.pc = "evaluate" /\ ~InBatch
        /\ cycle' = NoCycle \/ /\ cycle'.pc = "check" /\ cycle'.at = cycle.at
                               /\ cycle'.run = cycle.run
    BY <1>0, <1>7
    DEF EvaluateCandidate, At, FailWith, ReturnFromCycle, Cycle, ControlInv, CycleInv,
        Unwritten
  <2>2. cycle'.pc = "check" => Recorded = 0
    BY <2>1 DEF Recorded, RecordsEvent
  <2>3. CASE cycle' = NoCycle
    BY <1>5, <2>1, <2>3 DEF NoCycle, DecisionPcs
  <2> QED
    BY <1>2, <1>6, <2>1, <2>2, <2>3 DEF DecisionPcs
<1>8. CASE RejectPlan \/ MiscountPlan
  <2>1. cycle.pc = "plan" /\ cycle'.pc = "idle"
    BY <1>8 DEF RejectPlan, MiscountPlan, At, FailWith, ReturnFromCycle, NoCycle
  <2> QED
    BY <1>5, <2>1 DEF DecisionPcs
<1>9. CASE AcceptPlan
  <2>1. cycle.pc = "plan" /\ cycle'.pc = "check" /\ cycle'.run = cycle.run
    BY <1>0, <1>9 DEF AcceptPlan, At, Cycle
  <2>2. Recorded = 0
    BY <2>1 DEF Recorded, RecordsEvent
  <2> QED
    BY <1>6, <2>1, <2>2 DEF DecisionPcs
<1>10. CASE CheckResult
  <2>1. /\ cycle.pc = "check"
        /\ cycle' = NoCycle \/ /\ cycle'.pc = "checkId" /\ cycle'.at = cycle.at
                               /\ cycle'.run = cycle.run
    BY <1>0, <1>10 DEF CheckResult, At, FailWith, ReturnFromCycle, Cycle
  <2>2. cycle'.pc = "checkId" => Recorded = 0
    BY <2>1 DEF Recorded, RecordsEvent
  <2> QED
    BY <1>2, <1>5, <1>6, <2>1, <2>2 DEF NoCycle, DecisionPcs
<1>11. CASE CheckPairId
  <2>1. /\ cycle.pc = "checkId"
        /\ \/ cycle' = NoCycle
           \/ /\ cycle'.pc \in {"check", "applyFind"} /\ cycle'.run = cycle.run
              /\ ~InBatch => cycle'.at = cycle.at
    BY <1>0, <1>11 DEF CheckPairId, At, FailWith, ReturnFromCycle, Cycle
  <2>2. cycle'.pc \in {"check", "applyFind"} => Recorded = 0
    BY <2>1 DEF Recorded, RecordsEvent
  <2> QED
    BY <1>2, <1>5, <1>6, <2>1, <2>2 DEF NoCycle, DecisionPcs
<1>12. CASE FindTarget \/ LabelEntry \/ LabelRecord
  <2>1. /\ cycle.pc \in {"applyFind", "labelEntry", "labelRecord"}
        /\ \/ cycle' = NoCycle
           \/ /\ cycle'.pc \in {"labelEntry", "labelRecord", "site"}
              /\ cycle'.at = cycle.at /\ cycle'.run = cycle.run
    BY <1>0, <1>12
    DEF FindTarget, LabelEntry, LabelRecord, At, ApplyTo, FailWith, FailSilently,
        ReturnFromCycle, Cycle
  <2>2. cycle'.pc \in {"labelEntry", "labelRecord", "site"} => Recorded = 0
    BY <2>1 DEF Recorded, RecordsEvent
  <2> QED
    BY <1>2, <1>5, <1>6, <2>1, <2>2 DEF NoCycle, DecisionPcs
<1>13. CASE SetSite
  <2>1. /\ cycle.pc = "site"
        /\ \/ cycle' = NoCycle
           \/ /\ cycle'.pc \in {"applyFind", "evaluate"}
              /\ cycle'.at = cycle.at + 1 /\ cycle'.run = cycle.run
    BY <1>0, <1>13 DEF SetSite, At, ApplyNext, FailWith, ReturnFromCycle, Cycle
  <2>2. cycle' # NoCycle => lastEvent'.type = "route"
    BY <1>13 DEF SetSite, FailWith, ReturnFromCycle, RecordRoute
  <2>3. cycle'.pc \in {"applyFind", "evaluate"} => Recorded = 1
    BY <2>1, <2>2 DEF Recorded, RecordsEvent, NoCycle
  <2> QED
    BY <1>2, <1>5, <1>6, <2>1, <2>3 DEF NoCycle, DecisionPcs
<1> QED
  BY <1>0, <1>4, <1>7, <1>8, <1>9, <1>10, <1>11, <1>12, <1>13
  DEF CycleStep, TakeSnapshot, FindRuntime, ReadPairId, At, CollectionPcs

LEMMA TotalNext == BaseInv /\ BaseInv' /\ TotalInv /\ [FacadeNext]_facadeVars => TotalInv'
<1> SUFFICES ASSUME BaseInv, BaseInv', TotalInv, [FacadeNext]_facadeVars PROVE TotalInv'
  OBVIOUS
<1>1. ASSUME UNCHANGED <<events, cycle, offloader>> PROVE TotalInv'
  BY <1>1 DEF TotalInv, TotalEvents, InBatch
<1>2. CASE UNCHANGED facadeVars
  BY <1>1, <1>2 DEF facadeVars, controlVars, offloaderVars
<1>3. CASE RequestSteps
  BY <1>1, <1>3, RequestStepFrames DEF BaseInv, controlVars, offloaderVars
<1>4. ASSUME NEW t \in Threads, TaskManagerStep(t) PROVE TotalInv'
  BY <1>1, <1>4 DEF TaskManagerStep, ManagerStep, offloaderVars
<1>5. CASE Start
  BY <1>1, <1>5, StartConfigs DEF StartManager, offloaderVars
<1>6. CASE StartController \/ Stop
  <2>1. events' = NoEvents /\ cycle'.pc = "idle"
    BY <1>6 DEF StartController, Stop, Free, At, BaseInv, CopiesInv, ExclusionInv
  <2> QED
    BY <2>1, FacadeAssumption, ConfigAssumption
    DEF TotalInv, TotalEvents, NoEvents, CollectionPcs, DecisionPcs
<1>7. CASE RunOnce
  <2>1. PICK run \in {"once", "index"}, i \in Indices : StartRun(run, i)
    BY <1>7, ConfigAssumption DEF RunOnce, BeginCycle, BeginIndex, Indices
  <2>2. /\ cycle'.pc = "snapshot" /\ UNCHANGED events /\ TotalEvents < MaxEvents
    BY <1>7, <2>1 DEF RunOnce, StartRun, NoCycle
  <2> QED
    BY <2>2 DEF TotalInv, TotalEvents, CollectionPcs, DecisionPcs
<1> QED
  BY <1>2, <1>3, <1>4, <1>5, <1>6, <1>7, CyclingCounts
  DEF FacadeNext, RequestSteps, BaseInv

\* The counters of the diagnostics are bounded by the cycles begun: a cycle
\* records at most one event for each monitor entry, and one more.
THEOREM FacadeTypesHold == FacadeSpec => []FacadeTypeOK
<1>1. FacadeInit => TotalInv
  BY FacadeAssumption, ConfigAssumption
  DEF FacadeInit, ControlInit, TotalInv, TotalEvents, NoEvents, NoCycle, CollectionPcs,
      DecisionPcs
<1>2. BaseInv /\ TotalInv => FacadeTypeOK
  <2> SUFFICES ASSUME BaseInv, TotalInv PROVE FacadeTypeOK
    OBVIOUS
  <2>1. facade \in Facade /\ request \in Request
    BY DEF BaseInv, CopiesInv, ResolvedInv, RequestInv
  <2>2. \A kind \in {"LOCAL", "REMOTE", "failure"} :
           events[kind] \in 0..(MaxEvents + MaxTasks)
    BY FacadeAssumption, ConfigAssumption DEF TotalInv, TotalEvents
  <2> QED
    BY <2>1, <2>2 DEF FacadeTypeOK, TotalInv
<1> QED
  BY <1>1, <1>2, BaseInvariantHolds, TotalNext, PTL DEF FacadeSpec

-----------------------------------------------------------------------------
(* Pairs across a restart.                                                 *)

\* Between the two stores of task_manager_init.
Restarting == call[Control].pc = "initRegistry"

\* Nothing is left of the pairs, and the controller rests.
Cleared ==
    /\ inUse = {} /\ liveQueues = {} /\ LiveTasks = {} /\ Active = {}
    /\ \A t \in Threads \ {Control} : call[t] = IdleCall
    /\ OwnersOnly => \A c \in Callers : pointers[c] = {}
    /\ cycle = NoCycle

\* The pairs are owned and their routes agree, but for the restart, which finds
\* none of them left.
RestartInv == IF Restarting THEN Cleared ELSE OwnInv /\ ApartInv /\ PairInv

\* A task inside edge_task_pair_destroy is held by itself, so it is alive.
LEMMA DeadIsIdle ==
  ASSUME IInv, OwnInv, NEW h \in TaskHandles, h \notin LiveTasks
  PROVE  call[h] = IdleCall
<1>1. h \in Threads /\ h \notin Callers
  BY ManagerAssumption DEF Threads
<1>2. call[h] \in Call /\ Shape(h, call[h])
  BY <1>1, Typed DEF OwnInv, CallsShaped
<1>3. call[h].pc \notin CreatePcs \cup RollbackPcs
  BY <1>1 DEF IInv, CallInv, WellShaped
<1>4. call[h].pc \notin DestroyPcs
  <2> SUFFICES ASSUME call[h].pc \in DestroyPcs PROVE FALSE
    OBVIOUS
  <2> DEFINE recs == [x \in Slots |-> RecordTasks(Records[x])]
             locs == [u \in Threads |-> CallTasks(call[u])]
  <2>1. h \in {call[h].got.HandlerClient, call[h].got.HandlerServer}
    BY <1>2 DEF Shape, DestroyShape
  <2>2. /\ <<"thread", h, 2>> \in Places /\ <<"thread", h, 3>> \in Places
        /\ Content(recs, locs, <<"thread", h, 2>>) = call[h].got.HandlerClient
        /\ Content(recs, locs, <<"thread", h, 3>>) = call[h].got.HandlerServer
    BY <1>1 DEF Places, Content, CallTasks
  <2>3. HeldOnce(recs, locs, LiveTasks, NoHandle)
    BY DEF OwnInv, TasksHeld
  <2> HIDE DEF recs, locs
  <2> QED
    BY <2>1, <2>2, <2>3, Typed DEF HeldOnce
<1> QED
  BY <1>2, <1>3, <1>4 DEF Shape, Call

\* Without a record in use and without a call nothing is held, so no queue is left.
LEMMA NoQueueIsLeft ==
  ASSUME OwnInv, inUse = {}, \A t \in Threads : call[t] = IdleCall
  PROVE  liveQueues = {}
<1> DEFINE recs == [x \in Slots |-> RecordQueues(Records[x])]
           locs == [u \in Threads |-> CallQueues(call[u])]
<1>1. HeldOnce(recs, locs, liveQueues, NoHandle)
  BY DEF OwnInv, QueuesHeld
<1>2. \A p \in Places : Content(recs, locs, p) = NoHandle
  <2> SUFFICES ASSUME NEW p \in Places PROVE Content(recs, locs, p) = NoHandle
    OBVIOUS
  <2>1. CASE p \in {"slot"} \X Slots \X (1..2)
    <3>1. p[1] = "slot" /\ p[2] \in Slots /\ p[3] \in {1, 2}
      BY <2>1
    <3>2. recs[p[2]] = <<NoHandle, NoHandle>>
      BY <3>1, Blank DEF Records, RecordOf, RecordQueues, IsEmpty
    <3> HIDE DEF recs, locs
    <3> QED
      BY <3>1, <3>2 DEF Content
  <2>2. CASE p \in {"thread"} \X Threads \X (1..3)
    <3>1. p[1] = "thread" /\ p[2] \in Threads /\ p[3] \in {1, 2, 3}
      BY <2>2
    <3>2. locs[p[2]] = <<NoHandle, NoHandle, NoHandle>>
      BY <3>1, Blank DEF CallQueues, IsEmpty
    <3> HIDE DEF recs, locs
    <3> QED
      BY <3>1, <3>2 DEF Content
  <2> QED
    BY <2>1, <2>2 DEF Places
<1> HIDE DEF recs, locs
<1> QED
  BY <1>1, <1>2 DEF HeldOnce

\* When the application restarts the runtime, nothing is left of its pairs.
LEMMA TidyIsCleared ==
  ASSUME SoleCaller, IInv, OwnInv, ApartInv, Tidy, Idle(Control)
  PROVE  /\ liveQueues = {}
         /\ \A t \in Threads : call[t] = IdleCall
         /\ OwnersOnly => \A c \in Callers : pointers[c] = {}
<1>1. inUse = {} /\ LiveTasks = {}
  BY DEF Tidy
<1>2. call[Control] = IdleCall
  BY FacadeAssumption DEF OwnInv, CallsShaped, Shape, Idle, Threads
<1>3. \A t \in Threads : call[t] = IdleCall
  BY <1>1, <1>2, DeadIsIdle DEF SoleCaller, Threads
<1>4. liveQueues = {}
  BY <1>1, <1>3, NoQueueIsLeft
<1>5. ASSUME OwnersOnly, NEW c \in Callers PROVE pointers[c] = {}
  <2>1. pointers[c] \subseteq Slots
    BY DEF IInv, KernelInv
  <2> QED
    BY <1>1, <1>5, <2>1 DEF ApartInv, PointersOwn
<1> QED
  BY <1>3, <1>4, <1>5

LEMMA StartRestarts ==
  ASSUME SoleCaller, BaseInv, RestartInv, Start
  PROVE  RestartInv'
<1>1. PICK c \in Config : StartManager(c)
  BY StartConfigs
<1>2. Idle(Control) /\ Tidy /\ ResetStore(Control) /\ cycle = NoCycle /\ UNCHANGED cycle
  BY <1>1, FacadeAssumption DEF StartManager, Free, At, ControlIsFree, BaseInv, RestInv
<1>3. OwnInv /\ ApartInv
  BY <1>2 DEF RestartInv, Restarting, Idle
<1>4. /\ liveQueues = {}
      /\ \A t \in Threads : call[t] = IdleCall
      /\ OwnersOnly => \A d \in Callers : pointers[d] = {}
  BY <1>2, <1>3, TidyIsCleared DEF BaseInv
<1>5. /\ call'[Control].pc = "initRegistry"
      /\ \A t \in Threads \ {Control} : call'[t] = call[t]
  <2>1. call \in [Threads -> Call] /\ Control \in Threads
    BY Typed, FacadeAssumption DEF BaseInv, Threads
  <2> QED
    BY <1>2, <2>1 DEF ResetStore, Goto, Call
<1>6. Active' = {} /\ UNCHANGED <<inUse, liveQueues, LiveTasks, pointers>>
  BY <1>2, <1>1, StartClears DEF ResetStore, kernelVars, LiveTasks
<1> QED
  BY <1>2, <1>4, <1>5, <1>6 DEF RestartInv, Restarting, Cleared, Tidy

-----------------------------------------------------------------------------
(* The end of a restart.                                                   *)

\* Who goes on with a call is at work, or in the middle of task_manager_init.
LEMMA WhoGoesOn ==
  ASSUME NEW t \in Threads, Continue(t)
  PROVE  InitChunks(t) \/ call[t].pc \in WorkingPcs \cup DestroyPcs
<1>1. CASE Create(t)
  <2>1. CASE LoseRace(t)
    BY <2>1 DEF LoseRace, WorkingPcs, CreatePcs
  <2>2. CASE LinkEntry(t) \/ LinkPeerEntry(t)
    BY <2>2 DEF LinkEntry, LinkPeerEntry, WorkingPcs, CreatePcs
  <2>3. CASE RecordTask(t) \/ StoreHandle(t) \/ StoreIndex(t) \/ FindEntry(t)
    BY <2>3 DEF RecordTask, StoreHandle, StoreIndex, FindEntry, WorkingPcs, CreatePcs
  <2>4. CASE SpawnTask(t)
    BY <2>4 DEF SpawnTask, WorkingPcs, CreatePcs
  <2>5. CASE InitRuntime(t) \/ AssignPairId(t) \/ CreationStepFails(t)
             \/ \E q \in QueueHandles : CreateQueue(t, q)
    BY <2>5, ManagerAssumption
    DEF InitRuntime, AssignPairId, CreationStepFails, Exhausted, CreateQueue, WorkingPcs,
        CreatePcs
  <2> QED
    BY <1>1, <2>1, <2>2, <2>3, <2>4, <2>5 DEF Create
<1>2. CASE Rollback(t)
  BY <1>2 DEF Rollback, MarkCleaning, UndoTask, UndoQueue, UndoMonitor, UndoSlot,
     WorkingPcs, RollbackPcs
<1>3. CASE Teardown(t)
  BY <1>3 DEF Teardown, DestroyFound, DropTask, DropQueue, DropMonitor, Retire,
     ReleaseSlot, DropSelf, DestroyPcs
<1> QED
  BY <1>1, <1>2, <1>3 DEF Continue

\* In the middle of task_manager_init there is one step to take.
LEMMA RestartGoesOn ==
  ASSUME NEW t \in Threads, call[t].pc = "initRegistry", Begin(t) \/ Continue(t)
  PROVE  InitChunks(t)
<1>1. ~Begin(t)
  BY DEF Begin, Reserve, Destroy, DestroySelf, LookupForDestroy, RemoveMonitoredTask,
     ReleasePointer, InitStore, MayCall, Idle
<1> QED
  BY <1>1, WhoGoesOn DEF WorkingPcs, CreatePcs, RollbackPcs, DestroyPcs

\* Nobody else does anything meanwhile: the tasks are gone.
LEMMA NobodyElseBegins ==
  ASSUME SoleCaller, Cleared, NEW t \in Threads, t # Control
  PROVE  ~Begin(t) /\ ~Continue(t)
<1>1. Idle(t) /\ t \notin Callers /\ t \notin LiveTasks
  BY Blank DEF Cleared, Idle, SoleCaller
<1>2. ~Begin(t)
  BY <1>1 DEF Begin, Reserve, Destroy, DestroySelf, LookupForDestroy, RemoveMonitoredTask,
     ReleasePointer, InitStore, MayCall
<1> QED
  BY <1>1, <1>2, WhoGoesOn
  DEF Idle, InitChunks, WorkingPcs, CreatePcs, RollbackPcs, DestroyPcs

\* The second store of task_manager_init leaves the registry as empty as it was.
LEMMA RegistryCleared ==
  ASSUME SoleCaller, IInv, Cleared, InitChunks(Control)
  PROVE  /\ NothingOwned'
         /\ call' = [t \in Threads |-> IdleCall]
         /\ UNCHANGED pointers
<1>1. call \in [Threads -> Call] /\ Control \in Threads
  BY Typed, FacadeAssumption DEF Threads
<1>2. call' = [call EXCEPT ![Control] = IdleCall]
  BY DEF InitChunks, Return
<1>3. call' = [t \in Threads |-> IdleCall]
  BY <1>1, <1>2 DEF Cleared
<1>4. inUse' = {} /\ UNCHANGED <<liveQueues, LiveTasks, Active, pointers>>
  BY DEF InitChunks, ClearRegistry, kernelVars, monitorVars, LiveTasks, Active
<1> QED
  BY <1>3, <1>4 DEF NothingOwned, Cleared

\* So the pairs to come are owned and kept apart.
LEMMA RestartEnds ==
  ASSUME SoleCaller, IInv, Cleared, InitChunks(Control), UNCHANGED cycle,
         (NothingOwned => OwnInv)',
         (inUse = {} /\ Active = {} /\ call = [t \in Threads |-> IdleCall]
            /\ cycle = NoCycle => PairInv)'
  PROVE  RestartInv'
<1>1. /\ NothingOwned' /\ call' = [t \in Threads |-> IdleCall]
      /\ UNCHANGED pointers /\ cycle' = NoCycle
  BY RegistryCleared DEF Cleared
<1>2. OwnInv' /\ PairInv'
  BY <1>1 DEF NothingOwned
<1>3. /\ \A t \in Threads : call'[t] = IdleCall
      /\ Callers \subseteq Threads /\ TaskHandles \subseteq Threads
      /\ OwnersOnly => \A c \in Callers : pointers'[c] = {}
  BY <1>1 DEF Threads, Cleared
<1>4. ApartInv'
  BY <1>3, Blank DEF ApartInv, Idle, DestroyPcs, PointersOwn
<1>5. ~Restarting'
  BY <1>3, FacadeAssumption, Blank DEF Restarting
<1> QED
  BY <1>2, <1>4, <1>5 DEF RestartInv

-----------------------------------------------------------------------------
(* Every step.                                                             *)

\* What changes neither pairs nor the program counter of the controller.
LEMMA RestKeepsRestart ==
  ASSUME IInv, RestartInv, UNCHANGED <<vars, routeVars>>, cycle.pc = "idle",
         cycle' = cycle, cycle.candidates = <<>>
  PROVE  RestartInv'
<1>1. UNCHANGED <<inUse, liveQueues, LiveTasks, Active, call, pointers>>
  BY DEF vars, registryVars, monitorVars, kernelVars, LiveTasks, Active
<1>2. CASE Restarting
  BY <1>1, <1>2 DEF RestartInv, Restarting, Cleared
<1>3. CASE ~Restarting
  <2>1. OwnInv /\ ApartInv /\ PairInv
    BY <1>3 DEF RestartInv
  <2>2. OwnInv'
    BY <2>1, StutterOwns
  <2>3. ApartInv'
    BY <1>1, <2>1 DEF ApartInv, PointersOwn, Idle
  <2>4. UNCHANGED Records
    BY <1>1 DEF Records, RecordOf, vars, registryVars
  <2>5. PairInv'
    BY <1>1, <2>1, <2>4, RestKeepsPairs
  <2> QED
    BY <1>1, <1>3, <2>2, <2>3, <2>5 DEF RestartInv, Restarting
<1> QED
  BY <1>2, <1>3

LEMMA ControlKeepsRestart ==
  ASSUME SoleCaller, CallersKeepApart, BaseInv, BaseInv', RestartInv,
         [ControlNext]_controlVars,
         EntriesNamed \/ Restarting, (OwnInv => EntriesNamed)', (NothingOwned => OwnInv)',
         (inUse = {} /\ Active = {} /\ call = [t \in Threads |-> IdleCall]
            /\ cycle = NoCycle => PairInv)'
  PROVE  RestartInv'
<1>1. Ops \cap ForeignOps = {}
  BY DEF CallersKeepApart, OwnersOnly, TasksOnly, OneCallerOnly, ForeignOps
<1>2. CASE ~Restarting
  <2>1. IInv /\ IInv' /\ ControlInv /\ OwnInv /\ ApartInv /\ PairInv /\ EntriesNamed
    BY <1>2 DEF BaseInv, RestartInv
  <2>2. [Next]_vars
    BY ControlNextIsNext
  <2>3. OwnInv' /\ ApartInv'
    BY <1>1, <2>1, <2>2, DisciplinesSuffice, NextOwns, NextApart
  <2>4. PairInv'
    BY <2>1, <2>3, ControlNextKeepsPairs
  <2>5. ~Restarting'
    BY <2>3, FacadeAssumption DEF OwnInv, CallsShaped, Shape, Restarting, Threads
  <2> QED
    BY <2>3, <2>4, <2>5 DEF RestartInv
<1>3. CASE Restarting
  <2>1. Cleared /\ cycle = NoCycle /\ IInv
    BY <1>3 DEF RestartInv, Cleared, BaseInv
  <2>2. ASSUME NEW t \in Threads, ManagerStep(t) PROVE RestartInv'
    <3>1. (Begin(t) \/ Continue(t)) /\ UNCHANGED cycle
      BY <2>2 DEF ManagerStep
    <3>2. t = Control
      BY <2>1, <3>1, NobodyElseBegins
    <3>3. InitChunks(Control)
      BY <1>3, <3>1, <3>2, RestartGoesOn DEF Restarting
    <3> QED
      BY <2>1, <3>1, <3>3, RestartEnds
  <2>3. ~BeginRun /\ ~CycleStep
    BY <1>3, ControlIsIdle DEF Restarting, Idle
  <2>4. CASE InitializeOffloader \/ ShutdownOffloader \/ UNCHANGED controlVars
    <3>1. UNCHANGED <<vars, routeVars, cycle>>
      BY <2>4, ControlStepFrames, <2>1
      DEF InitializeOffloader, ShutdownOffloader, controlVars
    <3> QED
      BY <2>1, <3>1, RestKeepsRestart DEF NoCycle
  <2> QED
    BY <2>2, <2>3, <2>4 DEF ControlNext
<1> QED
  BY <1>2, <1>3

LEMMA RestartNext ==
  ASSUME SoleCaller, CallersKeepApart
  PROVE  /\ BaseInv /\ BaseInv' /\ RestartInv /\ [FacadeNext]_facadeVars
         /\ (IInv /\ OwnInv => EntriesNamed) /\ (IInv /\ OwnInv => EntriesNamed)'
         /\ (NothingOwned => OwnInv)'
         /\ (inUse = {} /\ Active = {} /\ call = [t \in Threads |-> IdleCall]
               /\ cycle = NoCycle => PairInv)'
         => RestartInv'
<1> SUFFICES ASSUME BaseInv, BaseInv', RestartInv, [FacadeNext]_facadeVars,
                    IInv /\ OwnInv => EntriesNamed, (IInv /\ OwnInv => EntriesNamed)',
                    (NothingOwned => OwnInv)',
                    (inUse = {} /\ Active = {} /\ call = [t \in Threads |-> IdleCall]
                       /\ cycle = NoCycle => PairInv)'
             PROVE  RestartInv'
  OBVIOUS
<1>1. CASE [ControlNext]_controlVars
  <2>1. EntriesNamed \/ Restarting
    BY DEF BaseInv, RestartInv
  <2>2. (OwnInv => EntriesNamed)'
    BY DEF BaseInv
  <2> QED
    BY <1>1, <2>1, <2>2, ControlKeepsRestart
<1>2. CASE StartController \/ Stop
  <2>1. UNCHANGED <<vars, routeVars, cycle>> /\ cycle = NoCycle
    BY <1>2 DEF StartController, Stop, Free, At, BaseInv, CopiesInv, ExclusionInv, RestInv
  <2> QED
    BY <2>1, RestKeepsRestart DEF NoCycle, BaseInv
<1> QED
  BY <1>1, <1>2, StartRestarts, FacadeSteps DEF BaseInv

LEMMA RestartInit == FacadeInit => RestartInv
<1> SUFFICES ASSUME FacadeInit PROVE RestartInv
  OBVIOUS
<1>1. Init /\ cycle = NoCycle
  BY DEF FacadeInit, ControlInit
<1>2. OwnInv /\ ApartInv
  BY <1>1, InitOwns, InitApart
<1>3. inUse = {} /\ Active = {} /\ call = [t \in Threads |-> IdleCall]
  BY <1>1 DEF Init, InitRegistry, InitMonitor, ZeroEntry, Active
<1>4. PairInv
  BY <1>1, <1>3, NoPairsAgree
<1>5. ~Restarting
  BY <1>3, FacadeAssumption, Blank DEF Restarting, Threads
<1> QED
  BY <1>2, <1>4, <1>5 DEF RestartInv

\* However often the application stops and restarts the runtime, the host label
\* of a client and the label of its pair are the same and the execution site
\* follows: a restart finds nothing left of the pairs before it, and the pairs
\* after it are owned as those before it were.
THEOREM RoutesHoldThroughRestarts ==
  ASSUME SoleCaller, CallersKeepApart
  PROVE  FacadeSpec => []RoutesAgree
<1>1. [](IInv /\ OwnInv => EntriesNamed)
  BY EntriesAreNamed, PTL
<1>2. [](NothingOwned => OwnInv)
  BY NothingOwns, PTL
<1>3. [](inUse = {} /\ Active = {} /\ call = [t \in Threads |-> IdleCall]
           /\ cycle = NoCycle => PairInv)
  BY NoPairsAgree, PTL
<1>4. BaseInv /\ RestartInv => RoutesAgree
  <2>1. Restarting /\ Cleared => RoutesAgree
    BY DEF Cleared, RoutesAgree
  <2> QED
    BY <2>1, PairsAgree DEF BaseInv, RestartInv
<1> QED
  BY <1>1, <1>2, <1>3, <1>4, RestartInit, RestartNext, BaseInvariantHolds, PTL
  DEF FacadeSpec
=============================================================================
