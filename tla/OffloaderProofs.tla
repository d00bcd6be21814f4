--------------------------- MODULE OffloaderProofs ---------------------------
(***************************************************************************)
(* For every number of threads, entries and slots and for every policy:    *)
(* the controller takes no step the task manager does not know, never      *)
(* leaves a route where there is no pair, keeps its vector of candidates   *)
(* within bounds and unapplied until all of it is validated; and what it   *)
(* stores of a route, in three places one after the other, agrees.         *)
(***************************************************************************)
EXTENDS Offloader, OwnershipProofs

\* A step of the controller changes nothing the task manager keeps.
LEMMA ControlStepFrames ==
  ASSUME BeginRun \/ CycleStep \/ InitializeOffloader \/ ShutdownOffloader
  PROVE  UNCHANGED vars
BY DEF BeginRun, BeginCycle, BeginIndex, StartRun, CycleStep, TakeSnapshot,
   FindRuntime, ReadPairId, EvaluateCandidate, RejectPlan, MiscountPlan,
   AcceptPlan, CheckResult, CheckPairId, FindTarget, LabelEntry, LabelRecord,
   SetSite, InitializeOffloader, ShutdownOffloader

LEMMA ControlNextIsNext == [ControlNext]_controlVars => [Next]_vars
<1>1. CASE UNCHANGED controlVars
  BY <1>1 DEF controlVars
<1>2. ASSUME NEW t \in Threads, ManagerStep(t) PROVE Next
  BY <1>2 DEF ManagerStep, Next
<1> QED
  BY <1>1, <1>2, ControlStepFrames DEF ControlNext

\* With the controller running, the task manager goes through no behaviour it
\* would not go through alone: every theorem about Spec holds of ControlSpec.
THEOREM ManagerIsUndisturbed == ControlSpec => Spec
  BY ControlNextIsNext, PTL DEF ControlSpec, Spec, ControlInit

-----------------------------------------------------------------------------
(* The inductive invariant of the controller.                              *)

\* What entries and records keep of a route.
RouteInv ==
    /\ entryRoute \in [Indices -> EntryRoute]
    /\ recordLabel \in [Slots -> Labels]
    /\ NoRouteWithoutPair

StateInv == offloader \in Offloader /\ lastEvent \in Event

\* The candidates fit the array of CONFIG_EA_MAX_TASKS: the scan has found at
\* most one for each index it has passed.
Buffered ==
    /\ cycle.pc \in CollectionPcs =>
          cycle.at \in Indices /\ Len(cycle.candidates) <= cycle.at
    /\ Len(cycle.candidates) <= MaxTasks
    /\ cycle.pc \in DecisionPcs => cycle.at \in DOMAIN cycle.candidates
    /\ cycle.pc = "plan" => cycle.at = 1
    /\ cycle.pc \in {"readId", "checkId"} => cycle.slot \in Slots

ApplyPcs == {"applyFind", "labelEntry", "labelRecord", "site"}

HasRoute(k) == cycle.candidates[k].route \in Routes

\* Only routes are applied; a batch is applied once all of it is validated.
Validated ==
    /\ cycle.pc \in {"checkId"} \cup ApplyPcs => HasRoute(cycle.at)
    /\ InBatch /\ cycle.pc \in {"check", "checkId"} =>
          \A k \in DOMAIN cycle.candidates : k < cycle.at => HasRoute(k)
    /\ InBatch /\ cycle.pc \in ApplyPcs =>
          \A k \in DOMAIN cycle.candidates : HasRoute(k)

\* Until then nothing has been written.
Unwritten ==
    InBatch =>
        /\ cycle.pc # "evaluate"
        /\ cycle.pc \notin ApplyPcs => ~cycle.wrote

CycleInv == cycle \in Cycle /\ Buffered /\ Validated /\ Unwritten

ControlInv == RouteInv /\ StateInv /\ CycleInv

-----------------------------------------------------------------------------
(* Routes.                                                                 *)

LEMMA NoRouteType == NoRoute \in EntryRoute
BY PolicyAssumption DEF NoRoute, NoDemand, EntryRoute, Demand, Labels, Routes, Uint

LEMMA RecordedRouteType ==
  ASSUME NEW t \in Threads, NEW demand \in Demands
  PROVE  RecordedRoute(t, demand) \in EntryRoute
<1> DEFINE client == call[t].kind # "local" /\ call[t].seg = "client"
<1>1. client \in BOOLEAN
  OBVIOUS
<1>2. (IF client THEN demand ELSE NoDemand) \in Demand
  BY OffloaderAssumption, PolicyAssumption DEF Uint, NoDemand, Demand
<1>3. (IF call[t].kind = "remote" THEN "REMOTE" ELSE "LOCAL") \in Routes
  BY DEF Routes
<1> HIDE DEF client
<1> QED
  BY <1>1, <1>2, <1>3 DEF RecordedRoute, EntryRoute, Labels, client

\* A step of the task manager clears the routes of what it gives up.
LEMMA ManagerKeepsRoutes ==
  ASSUME RouteInv, NEW t \in Threads, RoutesFollow(t)
  PROVE  RouteInv'
<1>1. PICK demand \in Demands : entryRoute' = [i \in Indices |->
              IF ~monitor'[i].is_active THEN NoRoute
              ELSE IF monitor[i].is_active THEN entryRoute[i]
              ELSE RecordedRoute(t, demand)]
  BY DEF RoutesFollow
<1>2. recordLabel' = [s \in Slots |->
           IF s \notin inUse' \/ s \notin inUse THEN "none"
           ELSE IF call[t].pc = "init" /\ call[t].slot = s THEN "own"
           ELSE recordLabel[s]]
  BY DEF RoutesFollow
<1>3. entryRoute' \in [Indices -> EntryRoute]
  BY <1>1, NoRouteType, RecordedRouteType DEF RouteInv
<1>4. recordLabel' \in [Slots -> Labels]
  BY <1>2 DEF RouteInv, Labels
<1>5. NoRouteWithoutPair'
  BY <1>1, <1>2 DEF NoRouteWithoutPair, Active
<1> QED
  BY <1>3, <1>4, <1>5 DEF RouteInv

\* The controller writes to active entries and to records in use only.
LEMMA ControlKeepsRoutes ==
  ASSUME RouteInv, CycleInv,
         BeginRun \/ CycleStep \/ InitializeOffloader \/ ShutdownOffloader
  PROVE  RouteInv'
<1> USE DEF At
<1>1. UNCHANGED vars
  BY ControlStepFrames
<1>2. UNCHANGED <<monitor, inUse>>
  BY <1>1 DEF vars, monitorVars, registryVars
<1>3. cycle.pc \in ApplyPcs => Current \in Candidate /\ Current.route \in Routes
  BY DEF CycleInv, Cycle, Buffered, Validated, ApplyPcs, DecisionPcs, Current, HasRoute
<1>4. CASE UNCHANGED routeVars
  BY <1>2, <1>4 DEF routeVars, RouteInv, NoRouteWithoutPair, Active
<1>5. CASE LabelEntry
  <2>1. CASE Current.task_index \in Active
    BY <1>2, <1>3, <1>5, <2>1
    DEF LabelEntry, RouteInv, NoRouteWithoutPair, Active, EntryRoute, Labels, ApplyPcs
  <2>2. CASE Current.task_index \notin Active
    BY <1>4, <1>5, <2>2 DEF LabelEntry, routeVars
  <2> QED
    BY <2>1, <2>2
<1>6. CASE LabelRecord
  <2>1. ASSUME NEW s \in Slots, Found(s),
               recordLabel' = [recordLabel EXCEPT ![s] = Current.route]
        PROVE  RouteInv'
    <3>1. s \in inUse
      BY <2>1 DEF Found, FoundByIndex, Answers, InUseAndOwned
    <3> QED
      BY <1>2, <1>3, <1>6, <2>1, <3>1
      DEF LabelRecord, RouteInv, NoRouteWithoutPair, Active, Labels, ApplyPcs
  <2>2. CASE UNCHANGED recordLabel
    BY <1>4, <1>6, <2>2 DEF LabelRecord, routeVars
  <2> QED
    BY <1>6, <2>1, <2>2 DEF LabelRecord
<1>7. CASE SetSite
  <2>1. CASE Current.task_index \in Active
    BY <1>2, <1>3, <1>7, <2>1
    DEF SetSite, RouteInv, NoRouteWithoutPair, Active, EntryRoute, ApplyPcs
  <2>2. CASE Current.task_index \notin Active
    BY <1>4, <1>7, <2>2 DEF SetSite, routeVars
  <2> QED
    BY <2>1, <2>2
<1> QED
  BY <1>4, <1>5, <1>6, <1>7
  DEF BeginRun, BeginCycle, BeginIndex, StartRun, CycleStep, TakeSnapshot,
      FindRuntime, ReadPairId, EvaluateCandidate, RejectPlan, MiscountPlan,
      AcceptPlan, CheckResult, CheckPairId, FindTarget, InitializeOffloader,
      ShutdownOffloader

-----------------------------------------------------------------------------
(* The state of the controller.                                            *)

LEMMA NoEventType ==
  /\ NoEvent \in Event
  /\ \A type \in EventTypes : [NoEvent EXCEPT !.type = type] \in Event
BY DEF NoEvent, Event, EventTypes, Routes, MaybeIndex

\* The policies answer with a verdict.
LEMMA AdviceType ==
  ASSUME NEW demand \in Demand, NEW latency \in Uint
  PROVE  Advice(demand, latency) \in Verdicts
BY DEF Advice, Evaluate, FpEvaluate, RmEvaluate, RouteAt, Verdicts, Routes

LEMMA AnswerType ==
  ASSUME NEW c \in Candidate
  PROVE  Answer(c) \subseteq Verdicts
BY OffloaderAssumption DEF Answer, Candidate, Verdicts, Routes

LEMMA ConfiguredType ==
  ASSUME NEW ready \in BOOLEAN, NEW mode \in CycleModes, NEW policy \in Policies,
         NEW scheduler \in Schedulers
  PROVE  Configured(ready, mode, policy, scheduler) \in Offloader
BY OffloaderAssumption DEF Configured, DefaultPolicy, Offloader, AllPolicies

LEMMA ControlKeepsState ==
  ASSUME StateInv, CycleInv,
         BeginRun \/ CycleStep \/ InitializeOffloader \/ ShutdownOffloader
  PROVE  StateInv'
<1>1. CASE UNCHANGED offloaderVars
  BY <1>1 DEF offloaderVars, StateInv
<1>2. ASSUME UNCHANGED offloader, NEW type \in EventTypes, FailWith(type)
      PROVE  StateInv'
  BY <1>2, NoEventType DEF StateInv, FailWith, RecordFailure
<1>3. CASE SetSite
  <2>1. CASE Current.task_index \in Active
    <3>1. Current \in Candidate /\ Current.route \in Routes
      BY <1>3 DEF SetSite, At, CycleInv, Cycle, Buffered, Validated, ApplyPcs,
                  DecisionPcs, Current, HasRoute
    <3> QED
      BY <1>3, <2>1, <3>1
      DEF SetSite, StateInv, RecordRoute, Event, EventTypes, Candidate, MaybeIndex
  <2>2. CASE Current.task_index \notin Active
    BY <1>2, <1>3, <2>2 DEF SetSite, EventTypes
  <2> QED
    BY <2>1, <2>2
<1>4. CASE InitializeOffloader
  BY <1>4, ConfiguredType, NoEventType
  DEF InitializeOffloader, Initialize, StateInv
<1>5. CASE ShutdownOffloader
  BY <1>5, NoEventType
  DEF ShutdownOffloader, Shutdown, NoOffloader, Offloader, AllPolicies, StateInv
<1> QED
  BY <1>1, <1>2, <1>3, <1>4, <1>5
  DEF BeginRun, BeginCycle, BeginIndex, StartRun, CycleStep, TakeSnapshot,
      FindRuntime, ReadPairId, EvaluateCandidate, RejectPlan, MiscountPlan,
      AcceptPlan, CheckResult, CheckPairId, FindTarget, FailSilently,
      LabelEntry, LabelRecord, offloaderVars, EventTypes

-----------------------------------------------------------------------------
(* The cycle.                                                              *)

\* The controller at rest.
LEMMA NoCycleOK ==
  ASSUME cycle' = NoCycle
  PROVE  CycleInv'
<1>1. NoCycle \in Cycle
  BY ConfigAssumption DEF NoCycle, Cycle, Verdicts
<1> QED
  BY <1>1, ConfigAssumption
  DEF CycleInv, Buffered, Validated, Unwritten, NoCycle, CollectionPcs,
      DecisionPcs, ApplyPcs

\* The scan goes on from a vector that grew by one candidate at most.
LEMMA ScanOnKeeps ==
  ASSUME CycleInv, cycle.pc \in CollectionPcs, UNCHANGED offloader,
         NEW candidates \in Seq(Candidate), Len(candidates) <= cycle.at + 1,
         ScanOn(candidates)
  PROVE  CycleInv'
<1>0. /\ cycle \in Cycle /\ cycle.at \in Indices
      /\ InBatch => ~cycle.wrote
      /\ Len(candidates) \in Nat
  BY DEF CycleInv, Buffered, Unwritten, CollectionPcs, ApplyPcs
<1>1. CASE cycle.run = "once" /\ cycle.at + 1 \in Indices
  <2>1. cycle' = [cycle EXCEPT !.pc = "snapshot", !.at = @ + 1, !.slot = NoSlot,
                       !.route = "reject", !.candidates = candidates]
    BY <1>1 DEF ScanOn
  <2>2. cycle' \in Cycle
    <3>1. cycle.at + 1 \in 0..MaxTasks
      BY <1>1, ConfigAssumption DEF Indices
    <3>2. "reject" \in Verdicts /\ "snapshot" \in CollectionPcs
      BY DEF Verdicts, CollectionPcs
    <3> QED
      BY <1>0, <2>1, <3>1, <3>2, Zenon DEF Cycle
  <2>3. /\ cycle'.pc = "snapshot" /\ cycle'.at = cycle.at + 1
        /\ cycle'.candidates = candidates /\ cycle'.wrote = cycle.wrote
        /\ InBatch' = InBatch
    BY <1>0, <2>1 DEF Cycle, InBatch
  <2> QED
    BY <1>0, <1>1, <2>2, <2>3, ConfigAssumption
    DEF CycleInv, Buffered, Validated, Unwritten, CollectionPcs, DecisionPcs,
        ApplyPcs, Indices
<1>2. CASE ~(cycle.run = "once" /\ cycle.at + 1 \in Indices) /\ candidates = <<>>
  BY <1>2, NoCycleOK DEF ScanOn, ReturnFromCycle
<1>3. CASE ~(cycle.run = "once" /\ cycle.at + 1 \in Indices) /\ candidates # <<>>
  <2>1. cycle' = [cycle EXCEPT !.pc = IF InBatch THEN "plan" ELSE "evaluate",
                       !.at = 1, !.slot = NoSlot, !.route = "reject",
                       !.candidates = candidates]
    BY <1>3 DEF ScanOn
  <2>2. cycle' \in Cycle
    <3>1. 1 \in 0..MaxTasks
      BY ConfigAssumption
    <3>2. /\ "reject" \in Verdicts
          /\ (IF InBatch THEN "plan" ELSE "evaluate") \in DecisionPcs
      BY DEF Verdicts, DecisionPcs
    <3> QED
      BY <1>0, <2>1, <3>1, <3>2, Zenon DEF Cycle
  <2>3. /\ cycle'.pc = (IF InBatch THEN "plan" ELSE "evaluate") /\ cycle'.at = 1
        /\ cycle'.candidates = candidates /\ cycle'.wrote = cycle.wrote
        /\ InBatch' = InBatch
    BY <1>0, <2>1 DEF Cycle, InBatch
  <2>4. 1 \in DOMAIN candidates
    BY <1>3
  <2>5. Len(candidates) <= MaxTasks
    BY <1>0, ConfigAssumption DEF Indices
  <2> QED
    BY <1>0, <2>2, <2>3, <2>4, <2>5
    DEF CycleInv, Buffered, Validated, Unwritten, CollectionPcs, DecisionPcs, ApplyPcs
<1> QED
  BY <1>1, <1>2, <1>3

\* A call begins at an index, with nothing collected and nothing written.
LEMMA StartRunKeeps ==
  ASSUME NEW run \in {"once", "index"}, NEW i \in Indices, StartRun(run, i)
  PROVE  CycleInv'
<1>1. cycle' = [NoCycle EXCEPT !.pc = "snapshot", !.run = run, !.at = i]
  BY DEF StartRun
<1>2. NoCycle \in Cycle
  BY ConfigAssumption DEF NoCycle, Cycle, Verdicts
<1>3. i \in 0..MaxTasks
  BY ConfigAssumption DEF Indices
<1>4. cycle' \in Cycle
  BY <1>1, <1>2, <1>3, Zenon DEF Cycle, CollectionPcs
<1>5. /\ cycle'.pc = "snapshot" /\ cycle'.at = i
      /\ cycle'.candidates = <<>> /\ cycle'.wrote = FALSE
  BY <1>1, <1>2 DEF NoCycle, Cycle
<1> QED
  BY <1>4, <1>5, ConfigAssumption
  DEF CycleInv, Buffered, Validated, Unwritten, CollectionPcs, DecisionPcs,
      ApplyPcs, Indices

LEMMA CollectionKeeps ==
  ASSUME IInv, RouteInv, CycleInv, TakeSnapshot \/ FindRuntime \/ ReadPairId
  PROVE  CycleInv'
<1>a. cycle.pc \in CollectionPcs /\ UNCHANGED offloader
  BY DEF TakeSnapshot, FindRuntime, ReadPairId, At, offloaderVars, CollectionPcs
<1>b. cycle.candidates \in Seq(Candidate)
  BY DEF CycleInv, Cycle
<1>0. /\ cycle \in Cycle /\ UNCHANGED offloader
      /\ cycle.pc \in CollectionPcs /\ cycle.at \in Indices
      /\ cycle.candidates \in Seq(Candidate) /\ Len(cycle.candidates) <= cycle.at
      /\ Len(cycle.candidates) \in Nat /\ cycle.at \in Nat
  BY <1>a, <1>b, ConfigAssumption DEF CycleInv, Buffered, Indices
<1>1. CASE ScanOn(cycle.candidates)
  BY <1>0, <1>1, ScanOnKeeps
<1>2. CASE TakeSnapshot
  <2>1. CASE ~(cycle.at \in Active /\ entryRoute[cycle.at].client)
    BY <1>1, <1>2, <2>1 DEF TakeSnapshot
  <2>2. CASE cycle.at \in Active /\ entryRoute[cycle.at].client
    <3>1. PICK latency \in Latencies : cycle' = [cycle EXCEPT !.pc = "find",
                   !.route = Advice(entryRoute[cycle.at].demand, latency)]
      BY <1>2, <2>2 DEF TakeSnapshot
    <3>2. Advice(entryRoute[cycle.at].demand, latency) \in Verdicts
      BY <1>0, AdviceType, OffloaderAssumption DEF RouteInv, EntryRoute
    <3>3. cycle' \in Cycle
      BY <1>0, <3>1, <3>2, Zenon DEF Cycle, CollectionPcs
    <3>4. /\ cycle'.pc = "find" /\ cycle'.at = cycle.at
          /\ cycle'.candidates = cycle.candidates /\ cycle'.wrote = cycle.wrote
          /\ InBatch' = InBatch
      BY <1>0, <3>1 DEF Cycle, InBatch
    <3> QED
      BY <1>0, <3>3, <3>4
      DEF CycleInv, Buffered, Validated, Unwritten, CollectionPcs, DecisionPcs, ApplyPcs
  <2> QED
    BY <2>1, <2>2
<1>3. CASE FindRuntime
  <2>1. ASSUME NEW s \in Slots, cycle' = [cycle EXCEPT !.pc = "readId", !.slot = s]
        PROVE  CycleInv'
    <3>1. cycle' \in Cycle
      BY <1>0, <2>1, Zenon DEF Cycle, CollectionPcs
    <3>2. /\ cycle'.pc = "readId" /\ cycle'.at = cycle.at /\ cycle'.slot = s
          /\ cycle'.candidates = cycle.candidates /\ cycle'.wrote = cycle.wrote
          /\ InBatch' = InBatch
      BY <1>0, <2>1 DEF Cycle, InBatch
    <3> QED
      BY <1>0, <3>1, <3>2
      DEF CycleInv, Buffered, Validated, Unwritten, CollectionPcs, DecisionPcs, ApplyPcs
  <2> QED
    BY <1>1, <1>3, <2>1 DEF FindRuntime
<1>4. CASE ReadPairId
  <2> DEFINE c == [task_index |-> cycle.at,
                   pair_id    |-> runtime[cycle.slot].pair_id,
                   route      |-> cycle.route]
  <2>1. cycle.slot \in Slots /\ cycle.route \in Verdicts
    BY <1>0, <1>4 DEF ReadPairId, At, CycleInv, Buffered, Cycle
  <2>2. runtime[cycle.slot].pair_id \in 0..MaxPairId
    BY <2>1 DEF IInv, RegistryInv, RegistryTypeOK, Runtime
  <2>3. c \in Candidate
    BY <1>0, <2>1, <2>2 DEF Candidate
  <2> HIDE DEF c
  <2>4. /\ Append(cycle.candidates, c) \in Seq(Candidate)
        /\ Len(Append(cycle.candidates, c)) <= cycle.at + 1
    BY <1>0, <2>3
  <2>5. ScanOn(Append(cycle.candidates, c))
    BY <1>4 DEF ReadPairId, c
  <2> QED
    BY <1>0, <2>4, <2>5, ScanOnKeeps
<1> QED
  BY <1>2, <1>3, <1>4

\* The candidate at the position reached, once the vector is collected.
LEMMA CurrentOK ==
  ASSUME CycleInv, cycle.pc \in DecisionPcs
  PROVE  /\ cycle.candidates \in Seq(Candidate)
         /\ Len(cycle.candidates) \in Nat
         /\ DOMAIN cycle.candidates = 1..Len(cycle.candidates)
         /\ cycle.at \in 1..Len(cycle.candidates)
         /\ Current \in Candidate
<1>1. cycle.candidates \in Seq(Candidate)
  BY DEF CycleInv, Cycle
<1>2. cycle.at \in DOMAIN cycle.candidates
  BY DEF CycleInv, Buffered
<1> QED
  BY <1>1, <1>2 DEF Current

LEMMA EvaluateKeeps ==
  ASSUME CycleInv, EvaluateCandidate
  PROVE  CycleInv'
<1>1. cycle.pc = "evaluate" /\ cycle \in Cycle /\ UNCHANGED offloader /\ ~InBatch
  BY DEF EvaluateCandidate, At, CycleInv, Unwritten
<1>2. CASE cycle' = NoCycle
  BY <1>2, NoCycleOK
<1>3. ASSUME NEW verdict \in Answer(Current),
             cycle' = [cycle EXCEPT !.pc = "check",
                               !.candidates[cycle.at].route = verdict]
      PROVE  CycleInv'
  <2> DEFINE c == [Current EXCEPT !.route = verdict]
             candidates == [cycle.candidates EXCEPT ![cycle.at] = c]
  <2>1. /\ cycle.candidates \in Seq(Candidate)
        /\ Len(cycle.candidates) \in Nat
        /\ DOMAIN cycle.candidates = 1..Len(cycle.candidates)
        /\ cycle.at \in 1..Len(cycle.candidates)
        /\ Current \in Candidate
    BY <1>1, CurrentOK DEF DecisionPcs
  <2>2. c \in Candidate
    BY <2>1, AnswerType DEF Candidate
  <2>3. candidates \in Seq(Candidate) /\ Len(candidates) = Len(cycle.candidates)
    <3> HIDE DEF c
    <3> QED
      BY <2>1, <2>2
  <2>4. cycle' = [cycle EXCEPT !.pc = "check", !.candidates = candidates]
    BY <1>3 DEF Current
  <2> HIDE DEF candidates
  <2>5. cycle' \in Cycle
    BY <1>1, <2>3, <2>4, Zenon DEF Cycle, DecisionPcs
  <2>6. /\ cycle'.pc = "check" /\ cycle'.at = cycle.at
        /\ cycle'.candidates = candidates /\ ~InBatch'
    BY <1>1, <2>4 DEF Cycle, InBatch
  <2> QED
    BY <1>1, <2>1, <2>3, <2>5, <2>6
    DEF CycleInv, Buffered, Validated, Unwritten, CollectionPcs, DecisionPcs, ApplyPcs
<1> QED
  BY <1>2, <1>3 DEF EvaluateCandidate, FailWith, ReturnFromCycle

LEMMA AcceptPlanKeeps ==
  ASSUME CycleInv, AcceptPlan
  PROVE  CycleInv'
<1>1. /\ cycle.pc = "plan" /\ cycle \in Cycle /\ UNCHANGED offloader
      /\ cycle.at = 1
      /\ InBatch => ~cycle.wrote
  BY DEF AcceptPlan, At, CycleInv, Buffered, Unwritten, ApplyPcs, offloaderVars
<1>2. PICK plan \in [DOMAIN cycle.candidates -> Verdicts \ {"reject", "custom"}] :
         cycle' = [cycle EXCEPT !.pc = "check", !.candidates =
                [k \in DOMAIN plan |-> [@[k] EXCEPT !.route = plan[k]]]]
  BY DEF AcceptPlan
<1> DEFINE planned == [k \in DOMAIN plan |-> [cycle.candidates[k] EXCEPT !.route = plan[k]]]
<1>3. /\ cycle.candidates \in Seq(Candidate)
      /\ Len(cycle.candidates) \in Nat
      /\ DOMAIN cycle.candidates = 1..Len(cycle.candidates)
      /\ cycle.at \in 1..Len(cycle.candidates)
  BY <1>1, CurrentOK DEF DecisionPcs
<1>4. ASSUME NEW k \in DOMAIN plan
      PROVE  [cycle.candidates[k] EXCEPT !.route = plan[k]] \in Candidate
  <2>1. cycle.candidates[k] \in Candidate /\ plan[k] \in Verdicts
    BY <1>2, <1>3
  <2> QED
    BY <2>1 DEF Candidate
<1>5. planned \in [1..Len(cycle.candidates) -> Candidate]
  BY <1>2, <1>3, <1>4
<1>6. planned \in Seq(Candidate) /\ Len(planned) = Len(cycle.candidates)
  <2> HIDE DEF planned
  <2> QED
    BY <1>3, <1>5
<1>7. cycle' = [cycle EXCEPT !.pc = "check", !.candidates = planned]
  BY <1>2
<1> HIDE DEF planned
<1>8. cycle' \in Cycle
  BY <1>1, <1>6, <1>7, Zenon DEF Cycle, DecisionPcs
<1>9. /\ cycle'.pc = "check" /\ cycle'.at = 1 /\ cycle'.candidates = planned
      /\ cycle'.wrote = cycle.wrote /\ InBatch' = InBatch
  BY <1>1, <1>7 DEF Cycle, InBatch
<1> QED
  BY <1>1, <1>3, <1>6, <1>8, <1>9
  DEF CycleInv, Buffered, Validated, Unwritten, CollectionPcs, DecisionPcs, ApplyPcs

LEMMA CheckKeeps ==
  ASSUME CycleInv, CheckResult \/ CheckPairId
  PROVE  CycleInv'
<1>1. cycle.pc \in {"check", "checkId"} /\ cycle \in Cycle /\ UNCHANGED offloader
  BY DEF CheckResult, CheckPairId, At, CycleInv
<1>2. /\ cycle.candidates \in Seq(Candidate)
      /\ Len(cycle.candidates) \in Nat
      /\ DOMAIN cycle.candidates = 1..Len(cycle.candidates)
      /\ cycle.at \in 1..Len(cycle.candidates)
  BY <1>1, CurrentOK DEF DecisionPcs
<1>3. CASE cycle' = NoCycle
  BY <1>3, NoCycleOK
<1>4. CASE CheckResult /\ cycle' # NoCycle
  <2>1. PICK s \in Slots : cycle' = [cycle EXCEPT !.pc = "checkId", !.slot = s]
    BY <1>4 DEF CheckResult, FailWith, ReturnFromCycle
  <2>2. cycle.pc = "check" /\ HasRoute(cycle.at)
    BY <1>4 DEF CheckResult, At, FailWith, ReturnFromCycle, Current, HasRoute
  <2>3. cycle' \in Cycle
    BY <1>1, <2>1, Zenon DEF Cycle, DecisionPcs
  <2>4. /\ cycle'.pc = "checkId" /\ cycle'.at = cycle.at /\ cycle'.slot = s
        /\ cycle'.candidates = cycle.candidates /\ cycle'.wrote = cycle.wrote
        /\ InBatch' = InBatch
    BY <1>1, <2>1 DEF Cycle, InBatch
  <2> QED
    BY <1>2, <2>2, <2>3, <2>4
    DEF CycleInv, Buffered, Validated, Unwritten, CollectionPcs, DecisionPcs,
        ApplyPcs, HasRoute
<1>5. CASE CheckPairId /\ cycle' # NoCycle
  <2>1. cycle.pc = "checkId" /\ HasRoute(cycle.at)
    BY <1>5 DEF CheckPairId, At, CycleInv, Validated
  <2>2. CASE InBatch /\ cycle.at < Len(cycle.candidates)
    <3>1. cycle' = [cycle EXCEPT !.pc = "check", !.slot = NoSlot, !.at = @ + 1]
      BY <1>5, <2>2 DEF CheckPairId, FailWith, ReturnFromCycle
    <3>2. cycle.at + 1 \in 0..MaxTasks
      BY <1>2, <2>2, ConfigAssumption DEF CycleInv, Buffered
    <3>3. cycle' \in Cycle
      BY <1>1, <3>1, <3>2, Zenon DEF Cycle, DecisionPcs
    <3>4. /\ cycle'.pc = "check" /\ cycle'.at = cycle.at + 1
          /\ cycle'.candidates = cycle.candidates /\ cycle'.wrote = cycle.wrote
          /\ InBatch' = InBatch
      BY <1>1, <3>1 DEF Cycle, InBatch
    <3> QED
      BY <1>2, <2>1, <2>2, <3>3, <3>4
      DEF CycleInv, Buffered, Validated, Unwritten, CollectionPcs, DecisionPcs,
          ApplyPcs, HasRoute
  <2>3. CASE ~(InBatch /\ cycle.at < Len(cycle.candidates))
    <3> DEFINE first == IF InBatch THEN 1 ELSE cycle.at
    <3>1. cycle' = [cycle EXCEPT !.pc = "applyFind", !.slot = NoSlot, !.at = first]
      BY <1>1, <1>5, <2>3 DEF CheckPairId, FailWith, ReturnFromCycle, Cycle
    <3>2. first \in 1..Len(cycle.candidates) /\ first \in 0..MaxTasks
      BY <1>2, ConfigAssumption DEF CycleInv, Buffered
    <3>3. /\ InBatch => \A k \in DOMAIN cycle.candidates : HasRoute(k)
          /\ HasRoute(first)
      BY <1>2, <2>1, <2>3 DEF CycleInv, Validated
    <3> HIDE DEF first
    <3>4. cycle' \in Cycle
      BY <1>1, <3>1, <3>2, Zenon DEF Cycle, DecisionPcs
    <3>5. /\ cycle'.pc = "applyFind" /\ cycle'.at = first
          /\ cycle'.candidates = cycle.candidates
          /\ InBatch' = InBatch
      BY <1>1, <3>1 DEF Cycle, InBatch
    <3> QED
      BY <1>2, <3>2, <3>3, <3>4, <3>5
      DEF CycleInv, Buffered, Validated, Unwritten, CollectionPcs, DecisionPcs,
          ApplyPcs, HasRoute
  <2> QED
    BY <2>2, <2>3
<1> QED
  BY <1>3, <1>4, <1>5

\* The controller goes on applying the candidate it has reached.
LEMMA ApplyOn ==
  ASSUME CycleInv, cycle.pc \in ApplyPcs, UNCHANGED offloader,
         cycle' \in Cycle, cycle'.pc \in ApplyPcs, cycle'.at = cycle.at,
         cycle'.candidates = cycle.candidates, cycle'.run = cycle.run
  PROVE  CycleInv'
<1>1. InBatch' = InBatch
  BY DEF InBatch
<1> QED
  BY <1>1
  DEF CycleInv, Buffered, Validated, Unwritten, CollectionPcs, DecisionPcs,
      ApplyPcs, HasRoute

LEMMA ApplyNextKeeps ==
  ASSUME CycleInv, cycle.pc = "site", UNCHANGED offloader, ApplyNext
  PROVE  CycleInv'
<1>1. cycle \in Cycle
  BY DEF CycleInv
<1>2. /\ Len(cycle.candidates) \in Nat
      /\ DOMAIN cycle.candidates = 1..Len(cycle.candidates)
      /\ cycle.at \in 1..Len(cycle.candidates)
  BY CurrentOK DEF DecisionPcs
<1>3. CASE ~(cycle.at < Len(cycle.candidates))
  BY <1>3, NoCycleOK DEF ApplyNext, ReturnFromCycle
<1>4. CASE cycle.at < Len(cycle.candidates)
  <2>1. cycle' = [cycle EXCEPT !.at = @ + 1, !.wrote = TRUE,
                      !.pc = IF InBatch THEN "applyFind" ELSE "evaluate"]
    BY <1>4 DEF ApplyNext
  <2>2. /\ cycle.at + 1 \in 0..MaxTasks
        /\ cycle.at + 1 \in 1..Len(cycle.candidates)
    BY <1>2, <1>4, ConfigAssumption DEF CycleInv, Buffered
  <2>3. (IF InBatch THEN "applyFind" ELSE "evaluate") \in DecisionPcs
    BY DEF DecisionPcs
  <2>4. cycle' \in Cycle
    BY <1>1, <2>1, <2>2, <2>3, Zenon DEF Cycle
  <2>5. /\ cycle'.pc = (IF InBatch THEN "applyFind" ELSE "evaluate")
        /\ cycle'.at = cycle.at + 1 /\ cycle'.candidates = cycle.candidates
        /\ InBatch' = InBatch
    BY <1>1, <2>1 DEF Cycle, InBatch
  <2>6. InBatch => \A k \in DOMAIN cycle.candidates : HasRoute(k)
    BY DEF CycleInv, Validated, ApplyPcs
  <2> QED
    BY <1>2, <2>2, <2>4, <2>5, <2>6
    DEF CycleInv, Buffered, Validated, Unwritten, CollectionPcs, DecisionPcs,
        ApplyPcs, HasRoute
<1> QED
  BY <1>3, <1>4

LEMMA ApplyKeeps ==
  ASSUME CycleInv, FindTarget \/ LabelEntry \/ LabelRecord \/ SetSite
  PROVE  CycleInv'
<1>1. cycle.pc \in ApplyPcs /\ cycle \in Cycle /\ UNCHANGED offloader
  BY DEF FindTarget, LabelEntry, LabelRecord, SetSite, At, ApplyPcs, CycleInv,
         offloaderVars
<1>2. CASE cycle' = NoCycle
  BY <1>2, NoCycleOK
<1>3. ASSUME NEW pc \in ApplyPcs, NEW updated \in BOOLEAN, NEW wrote \in BOOLEAN,
             cycle' = [cycle EXCEPT !.pc = pc, !.updated = updated, !.wrote = wrote]
      PROVE  CycleInv'
  <2>1. cycle' \in Cycle
    BY <1>1, <1>3, Zenon DEF Cycle, ApplyPcs, DecisionPcs
  <2>2. /\ cycle'.pc = pc /\ cycle'.at = cycle.at
        /\ cycle'.candidates = cycle.candidates /\ cycle'.run = cycle.run
    BY <1>1, <1>3 DEF Cycle
  <2> QED
    BY <1>1, <2>1, <2>2, ApplyOn
<1>4. ASSUME NEW pc \in ApplyPcs, NEW updated \in BOOLEAN,
             cycle' = [cycle EXCEPT !.pc = pc] \/
                cycle' = [cycle EXCEPT !.pc = pc, !.updated = updated]
      PROVE  CycleInv'
  <2>1. cycle' \in Cycle
    BY <1>1, <1>4, Zenon DEF Cycle, ApplyPcs, DecisionPcs
  <2>2. /\ cycle'.pc = pc /\ cycle'.at = cycle.at
        /\ cycle'.candidates = cycle.candidates /\ cycle'.run = cycle.run
    BY <1>1, <1>4 DEF Cycle
  <2> QED
    BY <1>1, <2>1, <2>2, ApplyOn
<1>5. CASE FindTarget
  BY <1>2, <1>4, <1>5
  DEF FindTarget, ApplyTo, FailWith, FailSilently, ReturnFromCycle, ApplyPcs
<1>6. CASE LabelEntry
  BY <1>3, <1>4, <1>6 DEF LabelEntry, ApplyTo, ApplyPcs
<1>7. CASE LabelRecord
  BY <1>2, <1>3, <1>4, <1>7
  DEF LabelRecord, FailWith, ReturnFromCycle, ApplyPcs
<1>8. CASE SetSite
  BY <1>1, <1>2, <1>8, ApplyNextKeeps DEF SetSite, At, FailWith, ReturnFromCycle
<1> QED
  BY <1>5, <1>6, <1>7, <1>8

LEMMA ControlKeepsCycle ==
  ASSUME IInv, RouteInv, CycleInv,
         BeginRun \/ CycleStep \/ InitializeOffloader \/ ShutdownOffloader
  PROVE  CycleInv'
<1>1. CASE BeginRun
  <2>1. 0 \in Indices
    BY ConfigAssumption DEF Indices
  <2> QED
    BY <1>1, <2>1, StartRunKeeps DEF BeginRun, BeginCycle, BeginIndex
<1>2. CASE RejectPlan \/ MiscountPlan \/ InitializeOffloader \/ ShutdownOffloader
  BY <1>2, NoCycleOK
  DEF RejectPlan, MiscountPlan, FailWith, ReturnFromCycle, InitializeOffloader,
      ShutdownOffloader
<1> QED
  BY <1>1, <1>2, CollectionKeeps, EvaluateKeeps, AcceptPlanKeeps, CheckKeeps,
     ApplyKeeps
  DEF CycleStep

-----------------------------------------------------------------------------
LEMMA ControlInitEstablishes == ControlInit => ControlInv
<1> SUFFICES ASSUME ControlInit PROVE ControlInv
  OBVIOUS
<1>1. RouteInv
  BY NoRouteType DEF ControlInit, RouteInv, NoRouteWithoutPair, Labels
<1>2. StateInv
  BY NoEventType DEF ControlInit, StateInv, NoOffloader, Offloader, AllPolicies
<1>3. NoCycle \in Cycle
  BY ConfigAssumption DEF NoCycle, Cycle, Verdicts
<1>4. CycleInv
  BY <1>3, ConfigAssumption
  DEF ControlInit, CycleInv, Buffered, Validated, Unwritten, NoCycle,
      CollectionPcs, DecisionPcs, ApplyPcs
<1> QED
  BY <1>1, <1>2, <1>4 DEF ControlInv

LEMMA ControlNextKeeps == IInv /\ ControlInv /\ [ControlNext]_controlVars => ControlInv'
<1> SUFFICES ASSUME IInv, ControlInv, [ControlNext]_controlVars PROVE ControlInv'
  OBVIOUS
<1>1. UNCHANGED <<offloaderVars, cycle>> => (StateInv /\ CycleInv)'
  BY DEF ControlInv, StateInv, CycleInv, Buffered, Validated, Unwritten, HasRoute,
      InBatch, offloaderVars
<1>2. CASE UNCHANGED controlVars
  BY <1>2, <1>1
  DEF ControlInv, RouteInv, NoRouteWithoutPair, Active, controlVars, vars,
      registryVars, monitorVars, routeVars
<1>3. ASSUME NEW t \in Threads, ManagerStep(t) PROVE ControlInv'
  BY <1>3, <1>1, ManagerKeepsRoutes DEF ManagerStep, ControlInv
<1>4. CASE BeginRun \/ CycleStep \/ InitializeOffloader \/ ShutdownOffloader
  BY <1>4, ControlKeepsRoutes, ControlKeepsState, ControlKeepsCycle DEF ControlInv
<1> QED
  BY <1>2, <1>3, <1>4 DEF ControlNext

\* The invariant of the controller, beside that of the task manager.
THEOREM ControlInvariantHolds == ControlSpec => [](IInv /\ ControlInv)
  BY ManagerIsUndisturbed, InvariantHolds, ControlInitEstablishes,
     ControlNextKeeps, PTL
  DEF ControlSpec

\* The array of candidates never overflows and is never read past its end, and
\* only routes are stored in entries and records, for every policy and mode.
THEOREM ControlTypesHold == ControlSpec => []ControlTypeOK
<1>1. ControlInv => ControlTypeOK
  BY DEF ControlInv, RouteInv, StateInv, CycleInv, Buffered, ControlTypeOK
<1> QED
  BY <1>1, ControlInvariantHolds, PTL

\* No route is left on a free slot or an inactive entry, however the pairs come
\* and go between the five critical sections of an application.
THEOREM RoutesNeedPairs == ControlSpec => []NoRouteWithoutPair
<1>1. ControlInv => NoRouteWithoutPair
  BY DEF ControlInv, RouteInv
<1> QED
  BY <1>1, ControlInvariantHolds, PTL

\* A batch that is rejected or found invalid leaves every route as it was.
THEOREM RejectionIsClean == ControlSpec => RejectedBatchChangesNothing
<1> DEFINE A == CycleReturns /\ cycle.run = "once" /\ offloader.mode = "batch"
                  /\ lastEvent'.type \in {"rejected", "invalid"} => ~cycle.wrote
<1>1. ControlInv /\ [ControlNext]_controlVars => A
  <2> SUFFICES ASSUME ControlInv, ControlNext, CycleReturns, cycle.run = "once",
                      offloader.mode = "batch",
                      lastEvent'.type \in {"rejected", "invalid"}, cycle.wrote
               PROVE  FALSE
    BY DEF CycleReturns, controlVars
  <2>1. InBatch /\ cycle \in Cycle /\ cycle.pc \in ApplyPcs
    BY DEF InBatch, ControlInv, CycleInv, Unwritten
  <2>2. FindTarget \/ LabelEntry \/ LabelRecord \/ SetSite
    BY <2>1
    DEF ControlNext, CycleReturns, ManagerStep, BeginRun, BeginCycle, BeginIndex,
        StartRun, CycleStep, TakeSnapshot, FindRuntime, ReadPairId,
        EvaluateCandidate, RejectPlan, MiscountPlan, AcceptPlan, CheckResult,
        CheckPairId, InitializeOffloader, ShutdownOffloader, At, ApplyPcs
  <2>3. \A pc \in ApplyPcs : ~ApplyTo(pc)
    BY <2>1 DEF ApplyTo, CycleReturns, Cycle, ApplyPcs
  <2>4. ~FailWith("failed")
    BY DEF FailWith, RecordFailure, NoEvent
  <2>5. CASE FindTarget
    BY <2>1, <2>3, <2>4, <2>5 DEF FindTarget, ApplyPcs
  <2>6. CASE LabelEntry
    BY <2>1, <2>3, <2>6 DEF LabelEntry, CycleReturns, Cycle, ApplyPcs
  <2>7. CASE LabelRecord
    BY <2>1, <2>4, <2>7 DEF LabelRecord, CycleReturns, Cycle
  <2>8. CASE SetSite
    BY <2>4, <2>8 DEF SetSite, RecordRoute
  <2> QED
    BY <2>2, <2>5, <2>6, <2>7, <2>8
<1> QED
  BY <1>1, ControlInvariantHolds, PTL DEF ControlSpec, RejectedBatchChangesNothing

-----------------------------------------------------------------------------
(* What the routes rest on: who creates, and which entries come and go.    *)

NewPcs == {"queue1", "queue2", "pairId", "find", "spawn"}

\* A creation keeps to its slot from the reservation on, and stores the first
\* indices before anything else.
LEMMA BuilderSteps ==
  ASSUME IInv, NEW t \in Threads, Begin(t) \/ Continue(t),
         call'[t].pc \in WorkingPcs \ {"init"}
  PROVE  /\ call[t].pc \in WorkingPcs
         /\ call'[t].slot = call[t].slot
         /\ call'[t].pc \in NewPcs /\ call'[t].seg = "client" =>
               call[t].pc = "init" \/ (call[t].pc \in NewPcs /\ call[t].seg = "client")
<1> DEFINE c == call[t]
           d == call'[t]
<1>1. call \in [Threads -> Call] /\ c \in Call
  BY Typed
<1>2. ASSUME d.pc \in {"idle", "init", "initRegistry"} \cup DestroyPcs PROVE FALSE
  BY <1>2 DEF WorkingPcs, CreatePcs, RollbackPcs, DestroyPcs
<1>3. IdleCall.pc = "idle"
  BY DEF IdleCall
<1>4. CASE Begin(t)
  <2>1. ASSUME Reserve(t) PROVE FALSE
    BY <1>2, <2>1, Reserves
  <2>2. ASSUME NEW s, NEW mode, TakeRuntime(t, s, mode) PROVE FALSE
    BY <1>2, <2>2, Takes DEF DestroyPcs
  <2>3. ASSUME NEW i \in Indices, NEW mode \in Modes, LookupForDestroy(t, i, mode)
        PROVE  FALSE
    <3>1. PICK s \in Slots : call' = [call EXCEPT ![t] =
              [IdleCall EXCEPT !.pc = "take", !.slot = s, !.mode = mode]]
      BY <2>3 DEF LookupForDestroy
    <3>2. d = [IdleCall EXCEPT !.pc = "take", !.slot = s, !.mode = mode]
      BY <1>1, <3>1
    <3> QED
      BY <1>2, <3>2 DEF IdleCall, DestroyPcs
  <2>4. ASSUME InitStore(t) PROVE FALSE
    <3>1. d.pc = "initRegistry"
      BY <1>1, <2>4 DEF InitStore, ResetStore, Goto, Call
    <3> QED
      BY <1>2, <3>1
  <2>5. CASE UNCHANGED call
    BY <2>5 DEF NewPcs
  <2> QED
    BY <1>4, <2>1, <2>2, <2>3, <2>4, <2>5
    DEF Begin, Destroy, DestroySelf, RemoveMonitoredTask, ReleasePointer
<1>5. CASE Create(t)
  <2>1. ASSUME c.pc \in CreatePcs, d.slot = c.slot,
               d.pc \in NewPcs => \/ c.pc \in NewPcs \cup {"init"} /\ d.seg = c.seg
                                  \/ d.seg = "server"
        PROVE  /\ c.pc \in WorkingPcs /\ d.slot = c.slot
               /\ d.pc \in NewPcs /\ d.seg = "client" =>
                     c.pc = "init" \/ (c.pc \in NewPcs /\ c.seg = "client")
    <3> HIDE DEF c, d
    <3> QED
      BY <2>1 DEF WorkingPcs
  <2>2. CASE LoseRace(t)
    <3>1. t \in Callers /\ call[t].task \in TaskHandles \cup {NoHandle}
      BY <1>1, <2>2, BuiltOK DEF LoseRace, CreatePcs, Call
    <3>2. call[t].task # t
      BY <3>1, ManagerAssumption
    <3>3. /\ c.pc \in CreatePcs /\ d.slot = c.slot
          /\ d.pc \notin NewPcs
      BY <1>1, <2>2, <3>2 DEF LoseRace, Call, CreatePcs, NewPcs
    <3> QED
      BY <2>1, <3>3
  <2>3. ASSUME Complete(t) PROVE FALSE
    <3>1. d.pc = "idle"
      BY <1>1, <1>3, <2>3 DEF Complete, Return
    <3> QED
      BY <1>2, <3>1
  <2>4. CASE LinkEntry(t)
    <3>1. ~Complete(t)
      BY <2>3
    <3>2. /\ c.pc = "link" /\ d.slot = c.slot
          /\ d.pc = "linkPeer" \/ d.seg = "server"
      BY <1>1, <2>4, <3>1 DEF LinkEntry, Call
    <3> QED
      BY <2>1, <3>2 DEF CreatePcs, NewPcs
  <2>5. ~LinkPeerEntry(t)
    BY <2>3 DEF LinkPeerEntry
  <2>6. CASE RecordTask(t) \/ StoreHandle(t) \/ StoreIndex(t)
    <3>1. c.pc \in CreatePcs /\ d.slot = c.slot /\ d.pc \notin NewPcs
      BY <1>1, <2>6
      DEF RecordTask, StoreHandle, StoreIndex, Goto, Call, CreatePcs, NewPcs
    <3> QED
      BY <2>1, <3>1
  <2>7. CASE FindEntry(t) \/ SpawnTask(t)
    <3>1. c.pc \in NewPcs /\ d.slot = c.slot /\ d.seg = c.seg
      BY <1>1, <2>7 DEF FindEntry, SpawnTask, Call, NewPcs
    <3> QED
      BY <2>1, <3>1 DEF CreatePcs, NewPcs
  <2>8. CASE InitRuntime(t) \/ AssignPairId(t)
             \/ \E q \in QueueHandles : CreateQueue(t, q)
    <3>1. CASE InitRuntime(t)
      BY <1>1, <2>1, <3>1 DEF InitRuntime, Goto, Call, NewPcs, CreatePcs
    <3>2. CASE AssignPairId(t)
      BY <1>1, <2>1, <3>2 DEF AssignPairId, Goto, Call, NewPcs, CreatePcs
    <3>3. ASSUME NEW q \in QueueHandles, CreateQueue(t, q)
          PROVE  c.pc \in NewPcs /\ d.slot = c.slot /\ d.seg = c.seg
      BY <1>1, <3>3 DEF CreateQueue, Goto, Call, NewPcs
    <3> QED
      BY <2>1, <2>8, <3>1, <3>2, <3>3 DEF CreatePcs, NewPcs
  <2>9. CASE CreationStepFails(t)
    <3>1. c.pc \in NewPcs
      BY <2>9, ManagerAssumption DEF CreationStepFails, Exhausted, NewPcs
    <3>2. d.slot = c.slot /\ d.seg = c.seg
      BY <1>1, <2>9 DEF CreationStepFails, Goto, Call
    <3> QED
      BY <2>1, <3>1, <3>2 DEF CreatePcs, NewPcs
  <2> QED
    BY <1>5, <2>2, <2>4, <2>5, <2>6, <2>7, <2>8, <2>9 DEF Create
<1>6. CASE Rollback(t)
  <2>1. ASSUME Return(t) PROVE FALSE
    <3>1. d.pc = "idle"
      BY <1>1, <1>3, <2>1 DEF Return
    <3> QED
      BY <1>2, <3>1
  <2>2. c.pc \in RollbackPcs
    BY <1>6
    DEF Rollback, MarkCleaning, UndoTask, UndoQueue, UndoMonitor, UndoSlot, RollbackPcs
  <2>3. ~UndoSlot(t)
    BY <2>1 DEF UndoSlot
  <2>4. d.slot = c.slot /\ d.pc \notin NewPcs
    <3>1. CASE UndoTask(t)
      <4>1. \E pc \in {"undoClient", "undoQueue1"} : d = [call[t] EXCEPT !.pc = pc]
        BY <3>1 DEF UndoTask
      <4> QED
        BY <1>1, <4>1 DEF Call, NewPcs
    <3>2. CASE MarkCleaning(t) \/ UndoQueue(t) \/ UndoMonitor(t)
      BY <1>1, <3>2 DEF MarkCleaning, UndoQueue, UndoMonitor, Goto, Call, NewPcs
    <3> QED
      BY <1>6, <2>3, <3>1, <3>2 DEF Rollback
  <2>5. c.pc \in WorkingPcs
    BY <2>2, Zenon DEF WorkingPcs
  <2> QED
    BY <2>4, <2>5, Zenon
<1>7. CASE Teardown(t)
  <2>1. ~DestroyFound(t)
    BY <1>2, Takes DEF DestroyFound, DestroyPcs
  <2>2. ASSUME DropTask(t) PROVE FALSE
    <3>1. \E pc \in {"idle", "dropServer", "dropMonitor", "dropQueue1"} : d.pc = pc
      <4> DEFINE client == c.pc = "dropClient"
                 h == IF client THEN c.got.HandlerClient ELSE c.got.HandlerServer
                 left == IF h = t THEN h ELSE NoHandle
                 next == IF client
                         THEN IF c.full THEN "dropServer" ELSE "dropMonitor"
                         ELSE "dropQueue1"
                 got == IF client
                        THEN [c.got EXCEPT !.HandlerClient = left]
                        ELSE [c.got EXCEPT !.HandlerServer = left]
      <4>1. d = [c EXCEPT !.pc = next, !.got = got]
        BY <1>1, <2>2, Zenon DEF DropTask
      <4>2. next \in {"dropServer", "dropMonitor", "dropQueue1"}
        OBVIOUS
      <4> HIDE DEF next, got, c, d
      <4> QED
        BY <1>1, <4>1, <4>2 DEF Call
    <3> QED
      BY <1>2, <3>1 DEF DestroyPcs
  <2>3. ASSUME DropQueue(t) \/ DropMonitor(t) PROVE FALSE
    <3>1. d.pc \in {"dropQueue2", "dropMonitor", "retire", "dropSelf"}
      BY <1>1, <2>3 DEF DropQueue, DropMonitor, Call
    <3> QED
      BY <1>2, <3>1 DEF DestroyPcs
  <2>4. ASSUME Retire(t) \/ ReleaseSlot(t) \/ DropSelf(t) \/ InitChunks(t) PROVE FALSE
    <3>1. d.pc \in {"release", "dropSelf", "idle"}
      BY <1>1, <1>3, <2>4 DEF Retire, ReleaseSlot, DropSelf, InitChunks, Goto, Return, Call
    <3> QED
      BY <1>2, <3>1 DEF DestroyPcs
  <2> QED
    BY <1>7, <2>1, <2>2, <2>3, <2>4 DEF Teardown
<1> QED
  BY <1>4, <1>5, <1>6, <1>7 DEF Continue

\* Only a creation makes an entry active.
LEMMA OthersActivateNothing ==
  ASSUME IInv, NEW t \in Threads, Begin(t) \/ Continue(t), call[t].pc # "record"
  PROVE  Active' \subseteq Active
<1>1. MonitorTypeOK
  BY DEF IInv, MonitorInv
<1>2. ASSUME NEW S, ClearEntries(S) PROVE Active' \subseteq Active
  BY <1>2 DEF ClearEntries, Active, ZeroEntry
<1>3. ASSUME ClearStore PROVE Active' \subseteq Active
  BY <1>3 DEF ClearStore, Active, ZeroEntry
<1>4. ASSUME NEW i, NEW id, NEW peer, UpdateLinkage(i, id, peer)
      PROVE  Active' \subseteq Active
  BY <1>1, <1>4 DEF UpdateLinkage, MonitorTypeOK, Entry, Active, monitorVars
<1>5. CASE UNCHANGED monitorVars
  BY <1>5 DEF monitorVars, Active
<1>6. CASE Begin(t)
  BY <1>2, <1>3, <1>5, <1>6
  DEF Begin, Reserve, Destroy, DestroySelf, TakeRuntime, LookupForDestroy,
      RemoveMonitoredTask, ReleasePointer, InitStore, ResetStore
<1>7. CASE Create(t)
  <2>1. ~RecordTask(t)
    BY DEF RecordTask
  <2>2. CASE LinkEntry(t)
    BY <1>4, <2>2 DEF LinkEntry
  <2>3. CASE LinkPeerEntry(t)
    BY <1>4, <2>3 DEF LinkPeerEntry
  <2> QED
    BY <1>5, <1>7, <2>1, <2>2, <2>3
    DEF Create, InitRuntime, AssignPairId, CreationStepFails, CreateQueue, FindEntry,
        SpawnTask, LoseRace, StoreHandle, StoreIndex
<1>8. CASE Rollback(t)
  BY <1>2, <1>5, <1>8
  DEF Rollback, MarkCleaning, UndoTask, UndoQueue, UndoMonitor, UndoSlot
<1>9. CASE Teardown(t)
  BY <1>2, <1>5, <1>9
  DEF Teardown, DestroyFound, TakeRuntime, DropTask, DropQueue, DropMonitor, Retire,
      ReleaseSlot, DropSelf, InitChunks
<1> QED
  BY <1>6, <1>7, <1>8, <1>9 DEF Continue

-----------------------------------------------------------------------------
(* The record of a pair under construction.                                *)

LEMMA ManagerKeepsUnrouted ==
  ASSUME IInv, IInv', OwnInv, OwnInv', NewRecordIsUnrouted,
         NEW t \in Threads, ManagerStep(t)
  PROVE  NewRecordIsUnrouted'
<1>1. Begin(t) \/ Continue(t)
  BY DEF ManagerStep
<1>2. ASSUME NEW u \in Threads, call[u].pc \in WorkingPcs PROVE call[u].slot \in inUse
  BY <1>2 DEF OwnInv, OneEngaged, Engaged, Works
<1>3. ASSUME NEW u \in Threads, call'[u].pc \in WorkingPcs PROVE call'[u].slot \in inUse'
  BY <1>3 DEF OwnInv, OneEngaged, Engaged, Works
<1>4. \A s \in inUse \cap inUse' :
         recordLabel'[s] = IF call[t].pc = "init" /\ call[t].slot = s THEN "own"
                           ELSE recordLabel[s]
  BY Typed DEF ManagerStep, RoutesFollow
<1>5. NewPcs \subseteq WorkingPcs \ {"init"} /\ "idle" \notin NewPcs
  BY DEF NewPcs, WorkingPcs, CreatePcs
<1>6. ASSUME NEW u \in Threads, call'[u].pc \in NewPcs, call'[u].seg = "client"
      PROVE  recordLabel'[call'[u].slot] = "own"
  <2>1. call'[u].slot \in inUse'
    BY <1>3, <1>5, <1>6
  <2>2. CASE u = t
    <3>1. /\ call[t].pc \in WorkingPcs /\ call'[t].slot = call[t].slot
          /\ call[t].pc = "init" \/ (call[t].pc \in NewPcs /\ call[t].seg = "client")
      BY <1>1, <1>5, <1>6, <2>2, BuilderSteps
    <3>2. call[t].pc = "init" \/ recordLabel[call[t].slot] = "own"
      BY <3>1 DEF NewRecordIsUnrouted, NewPcs
    <3> QED
      BY <1>2, <1>4, <2>1, <2>2, <3>1, <3>2
  <2>3. CASE u # t
    <3>1. call'[u] = call[u]
      BY <1>1, <1>5, <1>6, <2>3, CallsElsewhere DEF IdleCall
    <3>2. call[u].slot \in inUse /\ recordLabel[call[u].slot] = "own"
      BY <1>2, <1>5, <1>6, <3>1 DEF NewRecordIsUnrouted, NewPcs
    <3> QED
      BY <1>4, <2>1, <3>1, <3>2
  <2> QED
    BY <2>2, <2>3
<1> QED
  BY <1>6 DEF NewRecordIsUnrouted, NewPcs

\* A record without indices is not found by any index.
LEMMA NewRecordIsNotFound ==
  ASSUME IInv, OwnInv, NEW t \in Threads, call[t].pc \in NewPcs,
         call[t].seg = "client", NEW i
  PROVE  ~FoundByIndex(call[t].slot, i)
<1> DEFINE r == runtime[call[t].slot]
<1>1. /\ Works(call[t]) /\ ~Unindexed(call[t]) /\ call[t].pc \in CreatePcs
      /\ call[t].pc \notin {"index", "link", "linkPeer"}
  BY DEF NewPcs, Works, WorkingPcs, CreatePcs, Unindexed
<1>2. Records[call[t].slot] = r /\ WorkRecord(call[t], r)
  BY <1>1, WorkerKnows
<1>3. r.client_index = NoIndex /\ r.server_index = NoIndex
  BY <1>1, <1>2 DEF WorkRecord, CreateRecord, SegIndex
<1> QED
  BY <1>3, ConfigAssumption DEF FoundByIndex, Answers, NoIndex

LEMMA ControlKeepsUnrouted ==
  ASSUME IInv, OwnInv, RouteInv, NewRecordIsUnrouted,
         BeginRun \/ CycleStep \/ InitializeOffloader \/ ShutdownOffloader
  PROVE  NewRecordIsUnrouted'
<1>1. UNCHANGED call
  BY ControlStepFrames DEF vars
<1>2. CASE UNCHANGED recordLabel
  BY <1>1, <1>2 DEF NewRecordIsUnrouted
<1>3. ASSUME NEW s \in Slots, Found(s),
             recordLabel' = [recordLabel EXCEPT ![s] = Current.route]
      PROVE  NewRecordIsUnrouted'
  <2>1. \A t \in Threads : call[t].pc \in NewPcs /\ call[t].seg = "client" => call[t].slot # s
    BY <1>3, NewRecordIsNotFound DEF Found
  <2> QED
    BY <1>1, <1>3, <2>1 DEF NewRecordIsUnrouted, NewPcs, RouteInv
<1> QED
  BY <1>2, <1>3
  DEF BeginRun, BeginCycle, BeginIndex, StartRun, CycleStep, TakeSnapshot,
      FindRuntime, ReadPairId, EvaluateCandidate, RejectPlan, MiscountPlan,
      AcceptPlan, CheckResult, CheckPairId, FindTarget, LabelEntry, LabelRecord,
      SetSite, InitializeOffloader, ShutdownOffloader, routeVars

\* A route decided for a pair that is gone is never stored in the record of the
\* pair that is being built in its slot, although the controller looks the
\* runtime up by an index, unlocked, after the decision.
THEOREM NewRecordsAreUnrouted ==
  ASSUME CallersKeepApart
  PROVE  ControlSpec => []NewRecordIsUnrouted
<1>1. ControlInit => NewRecordIsUnrouted
  BY DEF ControlInit, Init, IdleCall, NewRecordIsUnrouted
<1>2. /\ IInv /\ IInv' /\ OwnInv /\ OwnInv' /\ ControlInv /\ NewRecordIsUnrouted
      /\ [ControlNext]_controlVars
      => NewRecordIsUnrouted'
  <2> SUFFICES ASSUME IInv, IInv', OwnInv, OwnInv', ControlInv, NewRecordIsUnrouted,
                      [ControlNext]_controlVars
               PROVE  NewRecordIsUnrouted'
    OBVIOUS
  <2>1. CASE UNCHANGED controlVars
    BY <2>1 DEF controlVars, vars, routeVars, NewRecordIsUnrouted
  <2> QED
    BY <2>1, ManagerKeepsUnrouted, ControlKeepsUnrouted DEF ControlNext, ControlInv
<1> QED
  BY <1>1, <1>2, ControlInvariantHolds, ManagerIsUndisturbed, PairsAreOwned, PTL
  DEF ControlSpec

-----------------------------------------------------------------------------
(* The route reported last.                                                *)

Writing == cycle.pc \in {"labelRecord", "site"}

\* The label just written is still there, unless there is a new pair.
LabelWritten ==
    Writing /\ Current.task_index \in Active =>
        entryRoute[Current.task_index].label \in {"own", Current.route}

ReportInv == LabelWritten /\ ReportedRouteHolds

LEMMA ManagerKeepsReport ==
  ASSUME RouteInv, ReportInv, NEW t \in Threads, ManagerStep(t)
  PROVE  ReportInv'
<1>1. \A i \in Active' : (i \in Active /\ entryRoute'[i] = entryRoute[i])
                            \/ entryRoute'[i].label = "own"
  BY DEF ManagerStep, RoutesFollow, RecordedRoute, Active
<1>2. UNCHANGED <<lastEvent, cycle>>
  BY DEF ManagerStep, offloaderVars
<1>3. LabelWritten'
  BY <1>1, <1>2 DEF ReportInv, LabelWritten, Writing, Current
<1>4. ReportedRouteHolds'
  BY <1>1, <1>2 DEF ReportInv, ReportedRouteHolds, Applying, Current
<1> QED
  BY <1>3, <1>4 DEF ReportInv

\* What writes no label and reports nothing, or a failure, away from an
\* application.
LEMMA QuietKeepsReport ==
  ASSUME ReportInv, UNCHANGED <<entryRoute, monitor>>, ~Writing, ~Writing',
         UNCHANGED lastEvent \/ lastEvent'.type # "route"
  PROVE  ReportInv'
BY DEF ReportInv, LabelWritten, ReportedRouteHolds, Applying, Writing, Active

\* A failure ends the application and reports no route.
LEMMA FailureKeepsReport ==
  ASSUME NEW type \in EventTypes \ {"route"}, FailWith(type)
  PROVE  ReportInv'
<1>1. lastEvent'.type # "route" /\ cycle' = NoCycle
  BY DEF FailWith, RecordFailure, ReturnFromCycle, NoEvent
<1> QED
  BY <1>1 DEF ReportInv, LabelWritten, ReportedRouteHolds, Writing, NoCycle

LEMMA ReturnDoesNotWrite == ReturnFromCycle => cycle'.pc = "idle" /\ ~Writing'
BY DEF ReturnFromCycle, NoCycle, Writing

LEMMA ScanOnDoesNotWrite ==
  ASSUME cycle \in Cycle, NEW candidates, ScanOn(candidates)
  PROVE  ~Writing'
BY ReturnDoesNotWrite DEF ScanOn, Writing, Cycle

\* The steps of a cycle that neither write nor report a route.
QuietSteps ==
    \/ TakeSnapshot \/ FindRuntime \/ ReadPairId
    \/ EvaluateCandidate \/ RejectPlan \/ MiscountPlan \/ AcceptPlan
    \/ CheckResult \/ CheckPairId \/ FindTarget

LEMMA QuietStepsAreQuiet ==
  ASSUME cycle \in Cycle, QuietSteps
  PROVE  UNCHANGED entryRoute /\ ~Writing /\ ~Writing'
<1> USE ReturnDoesNotWrite DEF Writing, At, FailWith, FailSilently, routeVars
<1>1. CASE TakeSnapshot \/ FindRuntime \/ ReadPairId
  BY <1>1, ScanOnDoesNotWrite DEF TakeSnapshot, FindRuntime, ReadPairId, Cycle
<1>2. CASE EvaluateCandidate \/ RejectPlan \/ MiscountPlan \/ AcceptPlan
  BY <1>2 DEF EvaluateCandidate, RejectPlan, MiscountPlan, AcceptPlan, Cycle
<1>3. CASE CheckResult \/ CheckPairId
  BY <1>3 DEF CheckResult, CheckPairId, Cycle
<1>4. CASE FindTarget
  BY <1>4 DEF FindTarget, ApplyTo, Cycle
<1> QED
  BY <1>1, <1>2, <1>3, <1>4 DEF QuietSteps

LEMMA QuietStepsReportNothing ==
  ASSUME QuietSteps
  PROVE  UNCHANGED lastEvent \/ lastEvent'.type # "route"
BY DEF QuietSteps, TakeSnapshot, FindRuntime, ReadPairId, EvaluateCandidate,
   RejectPlan, MiscountPlan, AcceptPlan, CheckResult, CheckPairId, FindTarget,
   FailWith, FailSilently, RecordFailure, NoEvent, offloaderVars

LEMMA LabelEntryKeepsReport ==
  ASSUME RouteInv, CycleInv, ReportInv, LabelEntry, UNCHANGED monitor
  PROVE  ReportInv'
<1> DEFINE k == Current.task_index
<1>1. /\ cycle \in Cycle /\ cycle.pc = "labelEntry"
      /\ k \in Indices /\ entryRoute \in [Indices -> EntryRoute]
  BY CurrentOK DEF CycleInv, DecisionPcs, Candidate, LabelEntry, At, RouteInv
<1>2. cycle'.pc = "labelRecord" /\ Current' = Current /\ UNCHANGED lastEvent
  BY <1>1 DEF LabelEntry, ApplyTo, Cycle, Current, offloaderVars
<1>3. /\ k \in Active => entryRoute'[k].label = Current.route
      /\ \A i \in Indices \ {k} : entryRoute'[i] = entryRoute[i]
  BY <1>1 DEF LabelEntry, EntryRoute
<1>4. Active' = Active
  BY DEF Active
<1>5. LabelWritten'
  BY <1>2, <1>3, <1>4 DEF LabelWritten
<1>6. ReportedRouteHolds'
  <2> SUFFICES ASSUME lastEvent.type = "route", lastEvent.task_index \in Active,
                      ~Applying(lastEvent.task_index)'
               PROVE  \/ entryRoute'[lastEvent.task_index].label = "own"
                      \/ /\ entryRoute'[lastEvent.task_index].label = lastEvent.route
                         /\ entryRoute'[lastEvent.task_index].exec_site = lastEvent.route
    BY <1>2, <1>4 DEF ReportedRouteHolds
  <2>1. lastEvent.task_index # k
    BY <1>2 DEF Applying
  <2>2. ~Applying(lastEvent.task_index)
    BY <1>1 DEF Applying
  <2> QED
    BY <1>3, <2>1, <2>2 DEF ReportInv, ReportedRouteHolds, Active
<1> QED
  BY <1>5, <1>6 DEF ReportInv

LEMMA LabelRecordKeepsReport ==
  ASSUME CycleInv, ReportInv, LabelRecord, UNCHANGED monitor
  PROVE  ReportInv'
<1>1. /\ cycle \in Cycle /\ cycle.pc = "labelRecord" /\ UNCHANGED entryRoute
  BY DEF CycleInv, LabelRecord, At
<1>2. Active' = Active
  BY DEF Active
<1>3. CASE cycle'.pc = "site" /\ Current' = Current /\ UNCHANGED lastEvent
  BY <1>1, <1>2, <1>3
  DEF ReportInv, LabelWritten, ReportedRouteHolds, Applying, Writing
<1> QED
  BY <1>1, <1>3, FailureKeepsReport DEF LabelRecord, Cycle, Current, EventTypes

LEMMA SetSiteKeepsReport ==
  ASSUME RouteInv, CycleInv, ReportInv, SetSite, UNCHANGED monitor
  PROVE  ReportInv'
<1> DEFINE k == Current.task_index
<1>1. /\ cycle \in Cycle /\ cycle.pc = "site"
      /\ k \in Indices /\ entryRoute \in [Indices -> EntryRoute]
  BY CurrentOK DEF CycleInv, DecisionPcs, Candidate, SetSite, At, RouteInv
<1>2. CASE k \in Active
  <2>1. /\ entryRoute' = [entryRoute EXCEPT ![k].exec_site = Current.route]
        /\ lastEvent'.task_index = k /\ lastEvent'.route = Current.route
    BY <1>2 DEF SetSite, RecordRoute
  <2>2. /\ entryRoute'[k].label = entryRoute[k].label
        /\ entryRoute'[k].exec_site = Current.route
    BY <1>1, <2>1 DEF EntryRoute
  <2>3. entryRoute[k].label \in {"own", Current.route}
    BY <1>1, <1>2 DEF ReportInv, LabelWritten, Writing
  <2>4. ~Writing'
    BY <1>1, <1>2, ReturnDoesNotWrite DEF SetSite, ApplyNext, Writing, Cycle
  <2> HIDE DEF k
  <2> QED
    BY <2>1, <2>2, <2>3, <2>4 DEF ReportInv, LabelWritten, ReportedRouteHolds
<1>3. CASE k \notin Active
  BY <1>3, FailureKeepsReport DEF SetSite, EventTypes
<1> QED
  BY <1>2, <1>3

LEMMA CycleStepKeepsReport ==
  ASSUME RouteInv, CycleInv, ReportInv, CycleStep
  PROVE  ReportInv'
<1>1. UNCHANGED monitor /\ cycle \in Cycle
  BY ControlStepFrames DEF vars, monitorVars, CycleInv
<1>2. CASE QuietSteps
  BY <1>1, <1>2, QuietStepsAreQuiet, QuietStepsReportNothing, QuietKeepsReport
<1> QED
  BY <1>1, <1>2, LabelEntryKeepsReport, LabelRecordKeepsReport, SetSiteKeepsReport
  DEF CycleStep, QuietSteps

LEMMA BeginRunKeepsReport ==
  ASSUME ReportInv, BeginRun
  PROVE  ReportInv'
<1>1. /\ UNCHANGED <<entryRoute, monitor, lastEvent>>
      /\ cycle.pc = "idle" /\ cycle'.pc = "snapshot"
  BY DEF BeginRun, BeginCycle, BeginIndex, StartRun, At, NoCycle, vars, monitorVars,
         routeVars, offloaderVars
<1> QED
  BY <1>1, QuietKeepsReport DEF Writing

\* A new configuration has reported nothing.
LEMMA ConfigurationKeepsReport ==
  ASSUME cycle'.pc = "idle", lastEvent' = NoEvent
  PROVE  ReportInv'
BY DEF ReportInv, LabelWritten, ReportedRouteHolds, Writing, NoEvent

LEMMA ControlNextKeepsReport ==
  ControlInv /\ ReportInv /\ [ControlNext]_controlVars => ReportInv'
<1> SUFFICES ASSUME ControlInv, ReportInv, [ControlNext]_controlVars PROVE ReportInv'
  OBVIOUS
<1>1. CASE UNCHANGED controlVars
  BY <1>1
  DEF controlVars, vars, monitorVars, routeVars, offloaderVars, ReportInv,
      LabelWritten, ReportedRouteHolds, Applying, Writing, Current, Active
<1>2. CASE InitializeOffloader \/ ShutdownOffloader
  BY <1>2, ConfigurationKeepsReport
  DEF InitializeOffloader, Initialize, ShutdownOffloader, Shutdown, NoCycle
<1> QED
  BY <1>1, <1>2, ManagerKeepsReport, CycleStepKeepsReport, BeginRunKeepsReport
  DEF ControlNext, ControlInv

\* The route that observability reports last is the route in force, for any
\* number of threads that create and destroy pairs in the course of the cycle.
THEOREM ReportsHold == ControlSpec => []ReportedRouteHolds
<1>1. ControlInit => ReportInv
  BY DEF ControlInit, ReportInv, LabelWritten, ReportedRouteHolds, Writing, NoCycle,
         NoEvent
<1>2. ReportInv => ReportedRouteHolds
  BY DEF ReportInv
<1> QED
  BY <1>1, <1>2, ControlInvariantHolds, ControlNextKeepsReport, PTL DEF ControlSpec

-----------------------------------------------------------------------------
(* The clients a built-in policy must not route.                           *)

\* One application thread creates every pair and runs the controller: between
\* two of its steps the tasks may tear pairs down, and nothing is created.
SoleCaller == Callers = {Control}

\* The policies of the application route nothing: the built-in ones decide.
BuiltInDecides == Opinions \cap Routes = {}

Unfit(i) == i \in Active /\ entryRoute[i].client /\ Malformed(i)

\* What is advised and decided for a malformed client is no route.
AdviceInv ==
    /\ cycle.pc \in {"find", "readId"} /\ Unfit(cycle.at) =>
          cycle.route \notin Routes
    /\ cycle.pc # "idle" =>
          \A k \in DOMAIN cycle.candidates :
              Unfit(cycle.candidates[k].task_index) => ~HasRoute(k)

\* Nothing is created while the controller runs.
LEMMA NoneCreatedMeanwhile ==
  ASSUME SoleCaller, IInv, NEW t \in Threads, Begin(t) \/ Continue(t),
         t # Control \/ Idle(t)
  PROVE  Active' \subseteq Active
<1>1. CASE call[t].pc = "record"
  BY <1>1, BuiltOK DEF SoleCaller, CreatePcs, Idle
<1> QED
  BY <1>1, OthersActivateNothing

LEMMA ManagerKeepsAdvice ==
  ASSUME SoleCaller, IInv, AdviceInv, NEW t \in Threads, ManagerStep(t)
  PROVE  AdviceInv'
<1>1. UNCHANGED <<cycle, offloader>>
  BY DEF ManagerStep, offloaderVars
<1>2. CASE cycle.pc = "idle"
  BY <1>1, <1>2 DEF AdviceInv
<1>3. CASE cycle.pc # "idle"
  <2>1. Active' \subseteq Active
    BY <1>3, NoneCreatedMeanwhile DEF ManagerStep
  <2>2. \A i \in Active' : entryRoute'[i] = entryRoute[i]
    BY <2>1 DEF ManagerStep, RoutesFollow, Active
  <2>3. \A i : Unfit(i)' => Unfit(i)
    BY <1>1, <2>1, <2>2 DEF Unfit, Malformed
  <2> QED
    BY <1>1, <2>3 DEF AdviceInv, HasRoute
<1> QED
  BY <1>2, <1>3

\* A built-in policy rejects a client without what it reads.
LEMMA UnfitIsRejected ==
  ASSUME NEW i \in Active, Unfit(i), NEW latency \in Latencies
  PROVE  Advice(entryRoute[i].demand, latency) \notin Routes
BY DEF Unfit, Malformed, Advice, Evaluate, FpEvaluate, RmEvaluate, Routes

\* The controller at rest.
LEMMA RestAdvises ==
  ASSUME cycle' = NoCycle
  PROVE  AdviceInv'
BY DEF AdviceInv, NoCycle

LEMMA ScanOnAdvises ==
  ASSUME cycle \in Cycle, NEW candidates, ScanOn(candidates),
         UNCHANGED <<entryRoute, monitor, offloader>>,
         \A k \in DOMAIN candidates :
             Unfit(candidates[k].task_index) => candidates[k].route \notin Routes
  PROVE  AdviceInv'
<1>1. Active' = Active
  BY DEF Active
<1>2. CASE cycle' = NoCycle
  BY <1>2, RestAdvises
<1>3. CASE cycle'.candidates = candidates /\ cycle'.pc \notin {"find", "readId"}
  BY <1>1, <1>3 DEF AdviceInv, Unfit, Malformed, HasRoute
<1> QED
  BY <1>2, <1>3 DEF ScanOn, ReturnFromCycle, Cycle

LEMMA CollectionAdvises ==
  ASSUME IInv, RouteInv, CycleInv, AdviceInv,
         TakeSnapshot \/ FindRuntime \/ ReadPairId
  PROVE  AdviceInv'
<1>1. /\ UNCHANGED <<entryRoute, monitor, offloader>> /\ Active' = Active
      /\ cycle \in Cycle /\ cycle.candidates \in Seq(Candidate)
  BY DEF TakeSnapshot, FindRuntime, ReadPairId, vars, monitorVars, routeVars,
         offloaderVars, Active, CycleInv, Cycle
<1>2. cycle.pc # "idle" /\ cycle.at \in Indices
  BY DEF TakeSnapshot, FindRuntime, ReadPairId, At, CycleInv, Buffered, CollectionPcs
<1>3. CASE ScanOn(cycle.candidates)
  BY <1>1, <1>2, <1>3, ScanOnAdvises DEF AdviceInv, HasRoute
<1>4. CASE TakeSnapshot
  <2>1. CASE cycle.at \in Active /\ entryRoute[cycle.at].client
    <3>1. PICK latency \in Latencies : cycle' = [cycle EXCEPT !.pc = "find",
                   !.route = Advice(entryRoute[cycle.at].demand, latency)]
      BY <1>4, <2>1 DEF TakeSnapshot
    <3>2. /\ cycle'.pc = "find" /\ cycle'.at = cycle.at
          /\ cycle'.candidates = cycle.candidates
          /\ cycle'.route = Advice(entryRoute[cycle.at].demand, latency)
      BY <1>1, <3>1 DEF Cycle
    <3>3. Unfit(cycle.at) => cycle'.route \notin Routes
      BY <2>1, <3>2, UnfitIsRejected
    <3> QED
      BY <1>1, <1>2, <3>2, <3>3 DEF AdviceInv, Unfit, Malformed, HasRoute
  <2> QED
    BY <1>3, <1>4, <2>1 DEF TakeSnapshot
<1>5. CASE FindRuntime
  <2>1. ASSUME NEW s \in Slots, cycle' = [cycle EXCEPT !.pc = "readId", !.slot = s]
        PROVE  AdviceInv'
    <3>1. /\ cycle'.pc = "readId" /\ cycle'.at = cycle.at
          /\ cycle'.candidates = cycle.candidates /\ cycle'.route = cycle.route
      BY <1>1, <2>1 DEF Cycle
    <3>2. cycle.pc = "find"
      BY <1>5 DEF FindRuntime, At
    <3> QED
      BY <1>1, <1>2, <3>1, <3>2 DEF AdviceInv, Unfit, Malformed, HasRoute
  <2> QED
    BY <1>3, <1>5, <2>1 DEF FindRuntime
<1>6. CASE ReadPairId
  <2> DEFINE c == [task_index |-> cycle.at, pair_id |-> runtime[cycle.slot].pair_id,
                   route |-> cycle.route]
             candidates == Append(cycle.candidates, c)
  <2>1. ScanOn(candidates) /\ cycle.pc = "readId"
    BY <1>6 DEF ReadPairId, At
  <2>2. Unfit(c.task_index) => c.route \notin Routes
    BY <2>1 DEF AdviceInv
  <2> HIDE DEF c
  <2>3. \A k \in DOMAIN candidates :
           candidates[k] = c \/ (k \in DOMAIN cycle.candidates
                                   /\ candidates[k] = cycle.candidates[k])
    BY <1>1
  <2>4. \A k \in DOMAIN candidates :
           Unfit(candidates[k].task_index) => candidates[k].route \notin Routes
    BY <1>2, <2>2, <2>3 DEF AdviceInv, HasRoute
  <2> HIDE DEF candidates
  <2> QED
    BY <1>1, <2>1, <2>4, ScanOnAdvises
<1> QED
  BY <1>4, <1>5, <1>6

\* What the policy makes of a candidate is a route only if it was one before.
LEMMA DecisionAdvises ==
  ASSUME BuiltInDecides, CycleInv, AdviceInv, EvaluateCandidate \/ AcceptPlan
  PROVE  AdviceInv'
<1>1. /\ UNCHANGED <<entryRoute, monitor, offloader>> /\ Active' = Active
      /\ cycle \in Cycle /\ cycle.pc \in DecisionPcs /\ cycle.pc # "idle"
  BY DEF EvaluateCandidate, AcceptPlan, At, vars, monitorVars, routeVars,
         offloaderVars, Active, CycleInv, DecisionPcs
<1>2. /\ cycle.candidates \in Seq(Candidate)
      /\ DOMAIN cycle.candidates = 1..Len(cycle.candidates)
      /\ \A k \in DOMAIN cycle.candidates : cycle.candidates[k] \in Candidate
  BY <1>1, CurrentOK
<1>3. \A c \in Candidate : \A verdict \in Answer(c) : verdict \in Routes => c.route \in Routes
  BY DEF Answer, BuiltInDecides
<1>4. ASSUME cycle'.pc = "check",
             DOMAIN cycle'.candidates = DOMAIN cycle.candidates,
             \A k \in DOMAIN cycle.candidates :
                /\ cycle'.candidates[k].task_index = cycle.candidates[k].task_index
                /\ cycle'.candidates[k].route \in Routes => HasRoute(k)
      PROVE  AdviceInv'
  BY <1>1, <1>4 DEF AdviceInv, Unfit, Malformed, HasRoute
<1>5. CASE EvaluateCandidate
  <2>1. CASE cycle' = NoCycle
    BY <2>1, RestAdvises
  <2>2. ASSUME NEW verdict \in Answer(Current),
               cycle' = [cycle EXCEPT !.pc = "check",
                               !.candidates[cycle.at].route = verdict]
        PROVE  AdviceInv'
    <3>1. cycle.at \in DOMAIN cycle.candidates /\ Current \in Candidate
      BY <1>1, <1>2, CurrentOK
    <3>2. /\ cycle'.pc = "check"
          /\ cycle'.candidates =
                [cycle.candidates EXCEPT ![cycle.at] = [@ EXCEPT !.route = verdict]]
      BY <1>1, <2>2 DEF Cycle
    <3>3. [Current EXCEPT !.route = verdict].task_index = Current.task_index
      BY <3>1 DEF Candidate
    <3>4. [Current EXCEPT !.route = verdict].route = verdict
      BY <3>1 DEF Candidate
    <3> DEFINE c == [Current EXCEPT !.route = verdict]
    <3>5. cycle'.candidates = [cycle.candidates EXCEPT ![cycle.at] = c]
      BY <3>2 DEF Current
    <3> HIDE DEF c
    <3>6. \A k \in DOMAIN cycle.candidates :
             cycle'.candidates[k] = IF k = cycle.at THEN c ELSE cycle.candidates[k]
      BY <1>2, <3>1, <3>5
    <3>7. DOMAIN cycle'.candidates = DOMAIN cycle.candidates
      BY <1>2, <3>1, <3>5
    <3> QED
      BY <1>3, <1>4, <2>2, <3>1, <3>2, <3>3, <3>4, <3>6, <3>7 DEF HasRoute, Current, c
  <2> QED
    BY <1>5, <2>1, <2>2 DEF EvaluateCandidate, FailWith, ReturnFromCycle
<1>6. CASE AcceptPlan
  <2>1. PICK plan \in [DOMAIN cycle.candidates -> Verdicts \ {"reject", "custom"}] :
           /\ \A k \in DOMAIN plan : plan[k] \in Answer(cycle.candidates[k])
           /\ cycle' = [cycle EXCEPT !.pc = "check", !.candidates =
                [k \in DOMAIN plan |-> [@[k] EXCEPT !.route = plan[k]]]]
    BY <1>6 DEF AcceptPlan
  <2>2. /\ cycle'.pc = "check"
        /\ cycle'.candidates =
              [k \in DOMAIN cycle.candidates |->
                  [cycle.candidates[k] EXCEPT !.route = plan[k]]]
    BY <1>1, <2>1 DEF Cycle
  <2>3. \A k \in DOMAIN cycle.candidates :
           /\ cycle'.candidates[k].task_index = cycle.candidates[k].task_index
           /\ cycle'.candidates[k].route = plan[k]
    BY <1>2, <2>2 DEF Candidate
  <2>4. \A k \in DOMAIN cycle.candidates : plan[k] \in Routes => HasRoute(k)
    BY <1>2, <1>3, <2>1 DEF HasRoute
  <2> QED
    BY <1>4, <2>2, <2>3, <2>4
<1> QED
  BY <1>5, <1>6

\* What writes no label and leaves the candidates alone, or ends the call.
LEMMA QuietAdvises ==
  ASSUME AdviceInv, cycle.pc # "idle",
         Active' = Active, UNCHANGED offloader,
         \A i \in Active : /\ entryRoute'[i].client = entryRoute[i].client
                           /\ entryRoute'[i].demand = entryRoute[i].demand,
         cycle' = NoCycle \/ /\ cycle'.candidates = cycle.candidates
                             /\ cycle'.pc \notin {"find", "readId"}
  PROVE  AdviceInv'
<1>1. \A i : Unfit(i)' <=> Unfit(i)
  BY DEF Unfit, Malformed
<1>2. CASE cycle' = NoCycle
  BY <1>2, RestAdvises
<1>3. CASE cycle'.candidates = cycle.candidates /\ cycle'.pc \notin {"find", "readId"}
  BY <1>1, <1>3 DEF AdviceInv, HasRoute
<1> QED
  BY <1>2, <1>3

\* A step writes nothing of an entry but the label and the site.
LEMMA EntriesStayClients ==
  ASSUME RouteInv, CycleInv, CycleStep
  PROVE  /\ Active' = Active /\ UNCHANGED offloader
         /\ \A i \in Indices : /\ entryRoute'[i].client = entryRoute[i].client
                               /\ entryRoute'[i].demand = entryRoute[i].demand
<1>1. Active' = Active
  BY ControlStepFrames DEF vars, monitorVars, Active
<1>2. CASE LabelEntry
  BY <1>1, <1>2, CurrentOK
  DEF LabelEntry, RouteInv, EntryRoute, At, DecisionPcs, Candidate, offloaderVars
<1>3. CASE SetSite
  BY <1>1, <1>3, CurrentOK
  DEF SetSite, RouteInv, EntryRoute, At, DecisionPcs, Candidate
<1> QED
  BY <1>1, <1>2, <1>3
  DEF CycleStep, TakeSnapshot, FindRuntime, ReadPairId, EvaluateCandidate,
      RejectPlan, MiscountPlan, AcceptPlan, CheckResult, CheckPairId, FindTarget,
      LabelRecord, routeVars, offloaderVars

LEMMA CycleStepAdvises ==
  ASSUME BuiltInDecides, IInv, RouteInv, CycleInv, AdviceInv, CycleStep
  PROVE  AdviceInv'
<1>1. /\ Active' = Active /\ UNCHANGED offloader /\ cycle \in Cycle
      /\ \A i \in Active : /\ entryRoute'[i].client = entryRoute[i].client
                           /\ entryRoute'[i].demand = entryRoute[i].demand
  BY EntriesStayClients DEF Active, CycleInv
<1>2. CASE RejectPlan \/ MiscountPlan
  BY <1>2, RestAdvises DEF RejectPlan, MiscountPlan, FailWith, ReturnFromCycle
<1>3. CASE CheckResult \/ CheckPairId
  BY <1>1, <1>3, QuietAdvises
  DEF CheckResult, CheckPairId, At, FailWith, ReturnFromCycle, Cycle
<1>4. CASE FindTarget \/ LabelEntry \/ LabelRecord \/ SetSite
  BY <1>1, <1>4, QuietAdvises
  DEF FindTarget, LabelEntry, LabelRecord, SetSite, At, ApplyTo, ApplyNext, FailWith,
      FailSilently, ReturnFromCycle, Cycle
<1> QED
  BY <1>2, <1>3, <1>4, CollectionAdvises, DecisionAdvises DEF CycleStep

\* A step of the controller leaves what the policy would refuse where it is.
LEMMA CycleStepSparesUnfit ==
  ASSUME RouteInv, CycleInv, AdviceInv, CycleStep, NEW i \in Active, Unfit(i)
  PROVE  StaysUnrouted(i)
<1>1. i \in Indices
  BY DEF Active
<1>2. ASSUME cycle.pc \in {"labelEntry", "site"} PROVE Current.task_index # i
  <2>1. HasRoute(cycle.at) /\ cycle.at \in DOMAIN cycle.candidates
    BY <1>2 DEF CycleInv, Validated, Buffered, ApplyPcs, DecisionPcs
  <2> QED
    BY <1>2, <2>1 DEF AdviceInv, Current
<1>3. CASE LabelEntry
  BY <1>1, <1>2, <1>3 DEF LabelEntry, At, RouteInv, StaysUnrouted
<1>4. CASE SetSite
  BY <1>1, <1>2, <1>4 DEF SetSite, At, RouteInv, StaysUnrouted
<1> QED
  BY <1>3, <1>4
  DEF CycleStep, TakeSnapshot, FindRuntime, ReadPairId, EvaluateCandidate,
      RejectPlan, MiscountPlan, AcceptPlan, CheckResult, CheckPairId, FindTarget,
      LabelRecord, routeVars, StaysUnrouted

LEMMA BeginRunKeepsAdvice ==
  ASSUME AdviceInv, BeginRun
  PROVE  AdviceInv'
<1>1. /\ UNCHANGED <<entryRoute, monitor>>
      /\ cycle'.pc = "snapshot" /\ cycle'.candidates = <<>>
  BY DEF BeginRun, BeginCycle, BeginIndex, StartRun, NoCycle, vars, monitorVars, routeVars
<1> QED
  BY <1>1 DEF AdviceInv

LEMMA RestKeepsAdvice ==
  ASSUME cycle'.pc = "idle"
  PROVE  AdviceInv'
BY DEF AdviceInv

LEMMA ControlNextKeepsAdvice ==
  ASSUME SoleCaller, BuiltInDecides
  PROVE  IInv /\ ControlInv /\ AdviceInv /\ [ControlNext]_controlVars => AdviceInv'
<1> SUFFICES ASSUME IInv, ControlInv, AdviceInv, [ControlNext]_controlVars
             PROVE  AdviceInv'
  OBVIOUS
<1>1. CASE UNCHANGED controlVars
  BY <1>1
  DEF controlVars, vars, monitorVars, routeVars, offloaderVars, AdviceInv, Unfit,
      Malformed, HasRoute, Active
<1>2. CASE InitializeOffloader \/ ShutdownOffloader
  BY <1>2, RestKeepsAdvice
  DEF InitializeOffloader, ShutdownOffloader, NoCycle
<1> QED
  BY <1>1, <1>2, ManagerKeepsAdvice, CycleStepAdvises, BeginRunKeepsAdvice
  DEF ControlNext, ControlInv

\* Neither the task manager nor the controller moves such a client.
LEMMA ControlNextSparesUnfit ==
  ASSUME RouteInv, CycleInv, AdviceInv, [ControlNext]_controlVars,
         NEW i \in Active \cap Active', Unfit(i)
  PROVE  StaysUnrouted(i)
<1>1. CASE CycleStep
  BY <1>1, CycleStepSparesUnfit
<1>2. CASE UNCHANGED entryRoute
  BY <1>2 DEF StaysUnrouted
<1>3. ASSUME NEW t \in Threads, ManagerStep(t) PROVE StaysUnrouted(i)
  BY <1>3 DEF ManagerStep, RoutesFollow, Active, StaysUnrouted
<1> QED
  BY <1>1, <1>2, <1>3
  DEF ControlNext, BeginRun, BeginCycle, BeginIndex, StartRun, InitializeOffloader,
      ShutdownOffloader, controlVars, routeVars

\* Where the built-in policies decide, fixed priority never moves a client
\* without a WCET and rate monotonic none without a period, although the advice
\* is taken on one snapshot and applied by index several critical sections
\* later: that holds as long as no other thread can have created another pair
\* under the index meanwhile.
THEOREM MalformedStayUnrouted ==
  ASSUME SoleCaller, BuiltInDecides
  PROVE  ControlSpec => MalformedIsNeverRouted
<1> DEFINE A == \A i \in Active \cap Active' :
                   entryRoute[i].client /\ Malformed(i) => StaysUnrouted(i)
<1>1. ControlInit => AdviceInv
  BY DEF ControlInit, AdviceInv, NoCycle
<1>2. ControlInv /\ AdviceInv /\ [ControlNext]_controlVars => A
  BY ControlNextSparesUnfit DEF ControlInv, Unfit
<1> QED
  BY <1>1, <1>2, ControlInvariantHolds, ControlNextKeepsAdvice, PTL
  DEF ControlSpec, MalformedIsNeverRouted

-----------------------------------------------------------------------------
(* The indices a record names, as one thread takes a step.                 *)

\* No step ends the call of an application thread but its own.
LEMMA CallersGoOn ==
  ASSUME IInv, NEW t \in Threads, Begin(t) \/ Continue(t), NEW u \in Callers \ {t}
  PROVE  call'[u] = call[u]
<1>1. call \in [Threads -> Call] /\ u \in Threads \ {t} /\ u \notin TaskHandles
      /\ u # NoHandle
  BY Typed, ManagerAssumption DEF Threads
<1>2. CASE LoseRace(t)
  <2>1. call[t].task \in TaskHandles \cup {NoHandle}
    BY <1>1 DEF Call
  <2> QED
    BY <1>1, <1>2, <2>1 DEF LoseRace
<1>3. CASE UndoTask(t)
  <2>1. Built(t) \in Runtime
    BY <1>3, BuiltOK DEF UndoTask
  <2> QED
    BY <1>1, <1>3, <2>1 DEF UndoTask, Runtime
<1>4. CASE DropTask(t)
  <2>1. call[t].got \in Runtime
    BY <1>1 DEF Call
  <2> QED
    BY <1>1, <1>4, <2>1 DEF DropTask, Runtime
<1>5. ASSUME NEW s, NEW mode, TakeRuntime(t, s, mode) PROVE call'[u] = call[u]
  BY <1>1, <1>5 DEF TakeRuntime, Return
<1>6. CASE Begin(t)
  BY <1>1, <1>5, <1>6
  DEF Begin, Reserve, Destroy, DestroySelf, LookupForDestroy, RemoveMonitoredTask,
      ReleasePointer, InitStore, ResetStore, Goto
<1>7. CASE Create(t)
  BY <1>1, <1>2, <1>7
  DEF Create, InitRuntime, AssignPairId, CreationStepFails, CreateQueue, FindEntry,
      SpawnTask, RecordTask, StoreHandle, StoreIndex, LinkEntry, LinkPeerEntry,
      Complete, Goto, Return
<1>8. CASE Rollback(t)
  BY <1>1, <1>3, <1>8
  DEF Rollback, MarkCleaning, UndoQueue, UndoMonitor, UndoSlot, Goto, Return
<1>9. CASE Teardown(t)
  BY <1>1, <1>4, <1>5, <1>9
  DEF Teardown, DestroyFound, DropQueue, DropMonitor, Retire, ReleaseSlot, DropSelf,
      InitChunks, Goto, Return
<1> QED
  BY <1>6, <1>7, <1>8, <1>9 DEF Continue

\* The creator stores the index of an entry it has recorded.
Indexes(t, s, seg) == call[t].pc = "index" /\ call[t].slot = s /\ call[t].seg = seg

\* What the step of thread t makes of the indices in the record of slot s.
IndexFollows(t, s) ==
    /\ \/ runtime'[s].client_index \in {runtime[s].client_index, NoIndex}
       \/ Indexes(t, s, "client") /\ runtime'[s].client_index = call[t].idx
    /\ \/ runtime'[s].server_index \in {runtime[s].server_index, NoIndex}
       \/ Indexes(t, s, "server") /\ runtime'[s].server_index = call[t].idx

LEMMA IndicesFollow ==
  ASSUME IInv, NEW t \in Threads, Begin(t) \/ Continue(t), NEW s \in inUse \cap inUse'
  PROVE  IndexFollows(t, s)
<1>1. /\ s \in Slots /\ runtime \in [Slots -> Runtime] /\ runtime[s] \in Runtime
      /\ call \in [Threads -> Call]
  BY Typed DEF IInv, RegistryInv, RegistryTypeOK
<1>2. CASE runtime'[s] = runtime[s]
  BY <1>2 DEF IndexFollows
<1>3. ASSUME NEW x, ReleaseRuntime(x) PROVE runtime'[s] = runtime[s]
  BY <1>1, <1>3 DEF ReleaseRuntime, registryVars
<1>4. ASSUME NEW x, NEW state, MarkRuntime(x, state) PROVE IndexFollows(t, s)
  <2>1. CASE runtime' = [runtime EXCEPT ![x].lifecycle_state = state]
    BY <1>1, <2>1 DEF Runtime, IndexFollows
  <2> QED
    BY <1>2, <1>4, <2>1 DEF MarkRuntime
<1>5. ASSUME NEW x, NEW mode, TakeRuntime(t, x, mode) PROVE IndexFollows(t, s)
  <2>1. CASE TakePair(x)
    <3>1. runtime'[s] = runtime[s] \/ (runtime'[s].client_index = NoIndex
                                        /\ runtime'[s].server_index = NoIndex)
      BY <1>1, <2>1 DEF TakePair, ZeroRuntime
    <3> QED
      BY <3>1 DEF IndexFollows
  <2>2. CASE TakeClient(x)
    BY <1>1, <2>2 DEF TakeClient, Runtime, IndexFollows
  <2> QED
    BY <1>2, <1>5, <2>1, <2>2 DEF TakeRuntime, registryVars
<1>6. CASE UNCHANGED runtime
  BY <1>2, <1>6
<1>7. CASE Begin(t)
  <2>1. CASE Reserve(t)
    <3>1. PICK x \in Slots : ReserveRuntime(x)
      BY <2>1 DEF Reserve
    <3> QED
      BY <1>2, <3>1, ReserveFresh DEF IInv
  <2> QED
    BY <1>2, <1>3, <1>5, <1>6, <1>7, <2>1
    DEF Begin, Destroy, DestroySelf, LookupForDestroy, RemoveMonitoredTask,
        ReleasePointer, InitStore, ResetStore, registryVars
<1>8. CASE Create(t)
  <2>1. Built(t) \in Runtime /\ call[t].slot \in Slots
    BY <1>8, BuiltOK, ManagerAssumption
    DEF Create, InitRuntime, AssignPairId, CreationStepFails, Exhausted, CreateQueue,
        FindEntry, SpawnTask, RecordTask, LoseRace, StoreHandle, StoreIndex, LinkEntry,
        LinkPeerEntry
  <2>2. s # call[t].slot \/ runtime[s] = Built(t)
    BY DEF Built
  <2>3. CASE InitRuntime(t)
    BY <1>1, <2>1, <2>2, <2>3 DEF InitRuntime, Store, WriteRuntime, Runtime, IndexFollows
  <2>4. CASE AssignPairId(t)
    BY <1>1, <2>4 DEF AssignPairId, AssignNextPairId, Runtime, IndexFollows
  <2>5. ASSUME NEW q \in QueueHandles, CreateQueue(t, q) PROVE IndexFollows(t, s)
    BY <1>1, <2>1, <2>2, <2>5 DEF CreateQueue, Store, WriteRuntime, Runtime, IndexFollows
  <2>6. CASE StoreHandle(t)
    BY <1>1, <2>1, <2>2, <2>6 DEF StoreHandle, Store, WriteRuntime, Runtime, IndexFollows
  <2>7. CASE StoreIndex(t)
    <3>1. call[t].seg \in {"client", "server"}
      BY <1>1 DEF Call
    <3> QED
      BY <1>1, <2>1, <2>2, <2>7, <3>1
      DEF StoreIndex, Store, WriteRuntime, Runtime, IndexFollows, Indexes
  <2> QED
    BY <1>6, <1>8, <2>3, <2>4, <2>5, <2>6, <2>7
    DEF Create, CreationStepFails, FindEntry, SpawnTask, RecordTask, LoseRace, LinkEntry,
        LinkPeerEntry, registryVars
<1>9. CASE Rollback(t)
  <2>1. Built(t) \in Runtime /\ call[t].slot \in Slots
    BY <1>9, BuiltOK
    DEF Rollback, MarkCleaning, UndoTask, UndoQueue, UndoMonitor, UndoSlot
  <2>2. s # call[t].slot \/ runtime[s] = Built(t)
    BY DEF Built
  <2>3. CASE UndoTask(t)
    BY <1>1, <2>1, <2>2, <2>3 DEF UndoTask, Store, WriteRuntime, Runtime, IndexFollows
  <2>4. CASE UndoQueue(t)
    BY <1>1, <2>1, <2>2, <2>4 DEF UndoQueue, Store, WriteRuntime, Runtime, IndexFollows
  <2> QED
    BY <1>2, <1>3, <1>4, <1>6, <1>9, <2>3, <2>4
    DEF Rollback, MarkCleaning, UndoMonitor, UndoSlot, registryVars
<1>10. CASE Teardown(t)
  BY <1>2, <1>3, <1>4, <1>5, <1>6, <1>10
  DEF Teardown, DestroyFound, DropTask, DropQueue, DropMonitor, Retire, ReleaseSlot,
      DropSelf, InitChunks, ClearRegistry, registryVars
<1> QED
  BY <1>7, <1>8, <1>9, <1>10 DEF Continue

\* A slot comes into use by a reservation.
LEMMA SlotsFollow ==
  ASSUME IInv, NEW t \in Threads, Begin(t) \/ Continue(t), NEW s \in inUse' \ inUse
  PROVE  call'[t].pc = "init" /\ call'[t].slot = s
<1>1. ASSUME NEW x, ReleaseRuntime(x) PROVE FALSE
  BY <1>1 DEF ReleaseRuntime, registryVars
<1>2. ASSUME NEW x, NEW mode, TakeRuntime(t, x, mode) PROVE FALSE
  BY <1>2, Takes
<1>3. ASSUME UNCHANGED inUse PROVE FALSE
  BY <1>3
<1>4. CASE Begin(t)
  BY <1>1, <1>2, <1>3, <1>4, Reserves
  DEF Begin, Destroy, DestroySelf, LookupForDestroy, RemoveMonitoredTask,
      ReleasePointer, InitStore, ResetStore, registryVars
<1>5. ASSUME Create(t) PROVE FALSE
  BY <1>3, <1>5
  DEF Create, InitRuntime, AssignPairId, AssignNextPairId, CreateQueue,
      CreationStepFails, FindEntry, SpawnTask, RecordTask, LoseRace, StoreHandle,
      StoreIndex, Store, WriteRuntime, LinkEntry, LinkPeerEntry, registryVars
<1>6. ASSUME Rollback(t) PROVE FALSE
  BY <1>1, <1>3, <1>6
  DEF Rollback, MarkCleaning, MarkRuntime, UndoTask, UndoQueue, UndoMonitor, UndoSlot,
      Store, WriteRuntime, registryVars
<1>7. ASSUME Teardown(t) PROVE FALSE
  BY <1>1, <1>2, <1>3, <1>7
  DEF Teardown, DestroyFound, DropTask, DropQueue, DropMonitor, Retire, MarkRuntime,
      ReleaseSlot, DropSelf, InitChunks, ClearRegistry, registryVars
<1> QED
  BY <1>4, <1>5, <1>6, <1>7 DEF Continue

\* The record of slot s names the entry of a client or of a server.
HasEntry(s) ==
    Records[s].client_index # NoIndex \/ Records[s].server_index # NoIndex

\* Where a record names an entry after a step, it did so before, or the creator
\* has just stored the index.
LEMMA RecordsFollow ==
  ASSUME IInv, IInv', NEW t \in Threads, Begin(t) \/ Continue(t), NEW s \in Slots, HasEntry(s)'
  PROVE  /\ s \in inUse \cap inUse'
         /\ ~(call[t].pc = "init" /\ call[t].slot = s)
         /\ \/ Records'[s].client_index \in {Records[s].client_index, NoIndex}
            \/ Indexes(t, s, "client") /\ Records'[s].client_index = call[t].idx
         /\ \/ Records'[s].server_index \in {Records[s].server_index, NoIndex}
            \/ Indexes(t, s, "server") /\ Records'[s].server_index = call[t].idx
<1>1. /\ s \in inUse' /\ \A u \in Threads : call'[u].slot = s => ~Unindexed(call'[u])
      /\ Records'[s] = runtime'[s]
  <2>1. RecordOf(s)' = Records'[s]
    BY DEF Records
  <2>2. Nothing.client_index = NoIndex /\ Nothing.server_index = NoIndex
    BY Blank DEF IsEmpty
  <2>3. runtime'[s] \in Runtime
    BY DEF IInv, RegistryInv, RegistryTypeOK
  <2>4. /\ WithoutIndices(runtime'[s]).client_index = NoIndex
        /\ WithoutIndices(runtime'[s]).server_index = NoIndex
    BY <2>3 DEF WithoutIndices, Runtime
  <2> QED
    BY <2>1, <2>2, <2>4 DEF RecordOf, HasEntry
<1>2. s \in inUse
  BY <1>1, SlotsFollow DEF Unindexed
<1>3. ASSUME call[t].slot = s, Unindexed(call[t]) PROVE FALSE
  <2>1. ~Begin(t)
    BY <1>3
    DEF Unindexed, Begin, Reserve, Destroy, DestroySelf, LookupForDestroy,
        RemoveMonitoredTask, ReleasePointer, InitStore, MayCall, Idle
  <2>2. InitRuntime(t) \/ UndoSlot(t)
    BY <1>3, <2>1, ManagerAssumption
    DEF Unindexed, Continue, Create, Rollback, Teardown, InitRuntime, AssignPairId,
        CreationStepFails, Exhausted, CreateQueue, FindEntry, SpawnTask, RecordTask,
        LoseRace, StoreHandle, StoreIndex, LinkEntry, LinkPeerEntry, MarkCleaning,
        UndoTask, UndoQueue, UndoMonitor, UndoSlot, DestroyFound, DropTask, DropQueue,
        DropMonitor, Retire, ReleaseSlot, DropSelf, InitChunks
  <2>3. CASE InitRuntime(t)
    <3>1. Built(t) \in Runtime /\ runtime \in [Slots -> Runtime]
      BY <1>3, BuiltOK DEF Unindexed, IInv, RegistryInv, RegistryTypeOK
    <3>2. runtime'[s].client_index = NoIndex /\ runtime'[s].server_index = NoIndex
      BY <1>3, <2>3, <3>1 DEF InitRuntime, Store, WriteRuntime, Runtime
    <3> QED
      BY <1>1, <3>2 DEF HasEntry
  <2>4. CASE UndoSlot(t)
    <3>1. InUseAndOwned(s)
      BY <1>2 DEF InUseAndOwned, IInv, RegistryInv, FreeListPartition
    <3> QED
      BY <1>1, <1>3, <2>4, <3>1 DEF UndoSlot, ReleaseRuntime
  <2> QED
    BY <2>2, <2>3, <2>4
<1>4. ASSUME NEW u \in Threads, call[u].slot = s, Unindexed(call[u]) PROVE FALSE
  <2>1. u # t
    BY <1>3, <1>4
  <2>2. u \in Callers
    BY <1>4, BuiltOK DEF Unindexed, CreatePcs, RollbackPcs
  <2> QED
    BY <1>1, <1>4, <2>1, <2>2, CallersGoOn
<1>5. Records[s] = runtime[s]
  BY <1>2, <1>4 DEF Records, RecordOf
<1>6. IndexFollows(t, s)
  BY <1>1, <1>2, IndicesFollow
<1> QED
  BY <1>1, <1>2, <1>3, <1>5, <1>6 DEF IndexFollows, Unindexed

-----------------------------------------------------------------------------
(* Whose entry is whose.                                                   *)

\* A record names active entries, each of them alone.
LEMMA EntriesOfRecords ==
  ASSUME IInv, OwnInv, NEW s \in Slots
  PROVE  /\ Records[s].client_index # NoIndex => Records[s].client_index \in Active
         /\ Records[s].server_index # NoIndex => Records[s].server_index \in Active
         /\ \A r \in Slots : Records[s].client_index # NoIndex =>
               /\ Records[r].client_index = Records[s].client_index => r = s
               /\ Records[r].server_index # Records[s].client_index
<1> DEFINE recs == [x \in Slots |-> RecordEntries(Records[x])]
           locs == [u \in Threads |-> CallEntries(call[u])]
<1>1. HeldOnce(recs, locs, Active, NoIndex)
  BY DEF OwnInv, EntriesHeld
<1>2. \A x \in Slots : /\ <<"slot", x, 1>> \in Places /\ <<"slot", x, 2>> \in Places
                       /\ Content(recs, locs, <<"slot", x, 1>>) = Records[x].client_index
                       /\ Content(recs, locs, <<"slot", x, 2>>) = Records[x].server_index
  BY DEF Places, Content, RecordEntries
<1> HIDE DEF recs, locs
<1>3. /\ Records[s].client_index # NoIndex => Records[s].client_index \in Active
      /\ Records[s].server_index # NoIndex => Records[s].server_index \in Active
  BY <1>1, <1>2 DEF HeldOnce
<1>4. ASSUME NEW r \in Slots, Records[s].client_index # NoIndex
      PROVE  /\ Records[r].client_index = Records[s].client_index => r = s
             /\ Records[r].server_index # Records[s].client_index
  <2>1. recs[s][1] = Records[s].client_index /\ recs[r][1] = Records[r].client_index
        /\ recs[r][2] = Records[r].server_index
    BY DEF recs, RecordEntries
  <2>2. 1 \in 1..2 /\ 2 \in 1..2 /\ 1 # 2
    OBVIOUS
  <2> QED
    BY <1>1, <1>4, <2>1, <2>2, SlotsApart
<1> QED
  BY <1>3, <1>4

\* So is the entry of a task that its creator has not stored in the record yet.
LEMMA EntriesOfCalls ==
  ASSUME IInv, OwnInv, NEW t \in Threads, call[t].pc \in {"handle", "index"}
  PROVE  call[t].idx \in Active
<1> DEFINE recs == [x \in Slots |-> RecordEntries(Records[x])]
           locs == [u \in Threads |-> CallEntries(call[u])]
<1>1. HeldOnce(recs, locs, Active, NoIndex)
  BY DEF OwnInv, EntriesHeld
<1>2. /\ <<"thread", t, 1>> \in Places
      /\ Content(recs, locs, <<"thread", t, 1>>) = call[t].idx
  BY DEF Places, Content, CallEntries
<1> HIDE DEF recs, locs
<1>3. call[t].idx # NoIndex
  <2>1. Shape(t, call[t]) /\ call[t].pc \in WorkingPcs
    BY DEF OwnInv, CallsShaped, WorkingPcs, CreatePcs
  <2> QED
    BY <2>1, Typed DEF Shape, CreateShape
<1> QED
  BY <1>1, <1>2, <1>3 DEF HeldOnce

-----------------------------------------------------------------------------
(* The route of a pair is kept twice, in its record and in the entry of its *)
(* client.                                                                  *)

HasClient(s) == Records[s].client_index # NoIndex

\* The route that the entry with index i and the record of slot s agree on.
InForce(i, s) ==
    /\ entryRoute[i].label = recordLabel[s]
    /\ entryRoute[i].label # "own" => entryRoute[i].exec_site = entryRoute[i].label

\* They agree, or the controller has stored the new label in the entry, and then
\* in the record, and has the site left to store.
PairRouted(s) ==
    LET i == Records[s].client_index
    IN  IF ~Applying(i) THEN InForce(i, s)
        ELSE /\ entryRoute[i].label = Current.route
             /\ cycle.pc = "site" => recordLabel[s] = Current.route

PairsRouted == \A s \in Slots : HasClient(s) => PairRouted(s)

\* No candidate is the entry of a server.
ClientIfActive(i) == i \in Active => entryRoute[i].client

ServersApart ==
    \A s \in Slots : Records[s].server_index # NoIndex =>
        ~entryRoute[Records[s].server_index].client

CandidatesAreClients ==
    /\ cycle.pc \in {"find", "readId"} => ClientIfActive(cycle.at)
    /\ cycle.pc # "idle" => \A k \in DOMAIN cycle.candidates :
          ClientIfActive(cycle.candidates[k].task_index)

\* An entry not yet stored in the record, and a record still being filled, have
\* the label of the pair.
EntryIsOwn(c) ==
    c.pc \in {"handle", "index"} =>
        /\ entryRoute[c.idx].label = "own"
        /\ c.seg = "server" => ~entryRoute[c.idx].client

RecordIsOwn(c) == c.pc \in WorkingPcs \ {"init"} => recordLabel[c.slot] = "own"

NewOwn == \A t \in Threads : EntryIsOwn(call[t]) /\ RecordIsOwn(call[t])

PairInv == PairsRouted /\ ServersApart /\ CandidatesAreClients /\ NewOwn

-----------------------------------------------------------------------------
(* What the entries named by records and creators are, for the next state too. *)

EntriesNamed ==
    /\ \A s \in Slots :
          /\ Records[s].client_index # NoIndex => Records[s].client_index \in Active
          /\ Records[s].server_index # NoIndex => Records[s].server_index \in Active
    /\ \A t \in Threads : call[t].pc \in {"handle", "index"} => call[t].idx \in Active

LEMMA EntriesAreNamed == IInv /\ OwnInv => EntriesNamed
  BY EntriesOfRecords, EntriesOfCalls DEF EntriesNamed

\* How a creator comes by an entry.
LEMMA EntrySteps ==
  ASSUME IInv, NEW t \in Threads, Begin(t) \/ Continue(t),
         call'[t].pc \in {"handle", "index"}
  PROVE  /\ call'[t].idx = call[t].idx /\ call'[t].seg = call[t].seg
         /\ \/ call'[t].pc = "handle" /\ call[t].pc = "record" /\ call[t].idx \notin Active
            \/ call'[t].pc = "index" /\ call[t].pc = "handle"
<1>1. call \in [Threads -> Call] /\ call[t] \in Call
  BY Typed
<1>2. call[t].pc \in WorkingPcs
  BY BuilderSteps DEF WorkingPcs, CreatePcs
<1>3. ~Begin(t)
  BY <1>2
  DEF Begin, Reserve, Destroy, DestroySelf, LookupForDestroy, RemoveMonitoredTask,
      ReleasePointer, InitStore, MayCall, Idle, WorkingPcs, CreatePcs, RollbackPcs
<1>4. ~Return(t)
  BY <1>1 DEF Return, IdleCall
<1>5. ASSUME NEW pc, Goto(t, pc), pc \notin {"handle", "index"} PROVE FALSE
  <2>1. call'[t] = [call[t] EXCEPT !.pc = pc]
    BY <1>1, <1>5 DEF Goto
  <2> QED
    BY <1>1, <1>5, <2>1 DEF Call
<1>6. CASE RecordTask(t)
  <2>1. call[t].idx \notin Active /\ Goto(t, "handle")
    BY <1>5, <1>6 DEF RecordTask
  <2>2. call'[t] = [call[t] EXCEPT !.pc = "handle"]
    BY <1>1, <2>1 DEF Goto
  <2> QED
    BY <1>1, <1>6, <2>1, <2>2 DEF RecordTask, Call
<1>7. CASE StoreHandle(t)
  <2>1. call'[t] = [call[t] EXCEPT !.pc = "index", !.task = NoHandle]
    BY <1>1, <1>7 DEF StoreHandle
  <2> QED
    BY <1>1, <1>7, <2>1 DEF StoreHandle, Call
<1>8. CASE Create(t)
  <2>1. ASSUME InitRuntime(t) \/ AssignPairId(t) \/ CreationStepFails(t)
                  \/ \E q \in QueueHandles : CreateQueue(t, q)
        PROVE  FALSE
    BY <1>5, <2>1 DEF InitRuntime, AssignPairId, CreationStepFails, CreateQueue
  <2>2. ASSUME FindEntry(t) \/ SpawnTask(t) \/ LoseRace(t) PROVE FALSE
    <3>1. CASE FindEntry(t)
      BY <1>1, <3>1 DEF FindEntry, Call
    <3>2. CASE SpawnTask(t)
      BY <1>1, <3>2 DEF SpawnTask, Call
    <3>3. CASE LoseRace(t)
      BY <1>1, <3>3 DEF LoseRace, Call
    <3> QED
      BY <2>2, <3>1, <3>2, <3>3
  <2>3. ASSUME StoreIndex(t) \/ LinkEntry(t) \/ LinkPeerEntry(t) PROVE FALSE
    BY <1>1, <1>4, <2>3 DEF StoreIndex, LinkEntry, LinkPeerEntry, Complete, Call
  <2> QED
    BY <1>6, <1>7, <1>8, <2>1, <2>2, <2>3 DEF Create
<1>9. ASSUME Rollback(t) PROVE FALSE
  <2>1. ASSUME UndoTask(t) PROVE FALSE
    BY <1>1, <2>1 DEF UndoTask, Call
  <2> QED
    BY <1>1, <1>4, <1>5, <1>9, <2>1
    DEF Rollback, MarkCleaning, UndoQueue, UndoMonitor, UndoSlot
<1>10. ~Teardown(t)
  BY <1>2
  DEF Teardown, DestroyFound, DropTask, DropQueue, DropMonitor, Retire, ReleaseSlot,
      DropSelf, InitChunks, WorkingPcs, CreatePcs, RollbackPcs
<1> QED
  BY <1>3, <1>8, <1>9, <1>10 DEF Continue

-----------------------------------------------------------------------------
(* A step of the task manager.                                             *)

\* Entries and records that are in use before and after keep their routes.
LEMMA RoutesStay ==
  ASSUME IInv, NEW t \in Threads, ManagerStep(t)
  PROVE  /\ \A i \in Active \cap Active' : entryRoute'[i] = entryRoute[i]
         /\ \A s \in inUse \cap inUse' : ~(call[t].pc = "init" /\ call[t].slot = s) =>
               recordLabel'[s] = recordLabel[s]
         /\ UNCHANGED cycle
         /\ \A i : Applying(i)' = Applying(i)
         /\ Current' = Current
<1>1. UNCHANGED cycle
  BY DEF ManagerStep
<1> QED
  BY <1>1, Typed DEF ManagerStep, RoutesFollow, Active, Applying, Current

\* A creator works while the controller is at rest.
LEMMA CreatorsRest ==
  ASSUME SoleCaller, IInv, NEW t \in Threads, ManagerStep(t), call[t].pc \in CreatePcs
  PROVE  cycle.pc = "idle"
<1>1. t = Control
  BY BuiltOK DEF SoleCaller, CreatePcs
<1> QED
  BY <1>1 DEF ManagerStep

LEMMA ManagerKeepsPairsRouted ==
  ASSUME SoleCaller, IInv, IInv', EntriesNamed, EntriesNamed', PairInv,
         NEW t \in Threads, ManagerStep(t)
  PROVE  PairsRouted' /\ ServersApart'
<1>1. Begin(t) \/ Continue(t)
  BY DEF ManagerStep
<1>2. ASSUME NEW s \in Slots, HasEntry(s)'
      PROVE  /\ s \in inUse \cap inUse'
             /\ ~(call[t].pc = "init" /\ call[t].slot = s)
             /\ \/ Records'[s].client_index \in {Records[s].client_index, NoIndex}
                \/ Indexes(t, s, "client") /\ Records'[s].client_index = call[t].idx
             /\ \/ Records'[s].server_index \in {Records[s].server_index, NoIndex}
                \/ Indexes(t, s, "server") /\ Records'[s].server_index = call[t].idx
  BY <1>1, <1>2, RecordsFollow
<1>3. ASSUME call[t].pc = "index"
      PROVE  /\ cycle.pc = "idle"
             /\ EntryIsOwn(call[t]) /\ RecordIsOwn(call[t])
             /\ call[t].idx \in Active
  BY <1>3, CreatorsRest DEF CreatePcs, PairInv, NewOwn, EntriesNamed
<1>4. ASSUME NEW s \in Slots, HasClient(s)' PROVE PairRouted(s)'
  <2> DEFINE i == Records'[s].client_index
  <2>1. i # NoIndex /\ i \in Active' /\ HasEntry(s)'
    BY <1>4 DEF HasClient, HasEntry, EntriesNamed
  <2>2. /\ s \in inUse \cap inUse'
        /\ ~(call[t].pc = "init" /\ call[t].slot = s)
        /\ i = Records[s].client_index \/ (Indexes(t, s, "client") /\ i = call[t].idx)
    BY <1>2, <2>1
  <2>3. recordLabel'[s] = recordLabel[s]
    BY <2>2, RoutesStay
  <2>4. CASE i = Records[s].client_index
    <3>1. i \in Active /\ PairRouted(s)
      BY <1>4, <2>1, <2>4 DEF PairInv, PairsRouted, HasClient, EntriesNamed
    <3>2. entryRoute'[i] = entryRoute[i]
      BY <2>1, <3>1, RoutesStay
    <3> QED
      BY <2>3, <2>4, <3>1, <3>2, RoutesStay DEF PairRouted, InForce
  <2>5. CASE Indexes(t, s, "client") /\ i = call[t].idx
    <3>1. cycle.pc = "idle" /\ i \in Active /\ entryRoute[i].label = "own"
      BY <1>3, <2>5 DEF Indexes, EntryIsOwn
    <3>2. recordLabel[s] = "own"
      BY <1>3, <2>5 DEF Indexes, RecordIsOwn, WorkingPcs, CreatePcs
    <3>3. entryRoute'[i] = entryRoute[i]
      BY <2>1, <3>1, RoutesStay
    <3>4. \A x : ~Applying(x)'
      BY <3>1, RoutesStay DEF Applying
    <3> QED
      BY <2>3, <3>1, <3>2, <3>3, <3>4 DEF PairRouted, InForce
  <2> QED
    BY <2>2, <2>4, <2>5
<1>5. ASSUME NEW s \in Slots, Records'[s].server_index # NoIndex
      PROVE  ~entryRoute'[Records'[s].server_index].client
  <2> DEFINE i == Records'[s].server_index
  <2>1. i \in Active' /\ HasEntry(s)'
    BY <1>5 DEF HasEntry, EntriesNamed
  <2>2. i = Records[s].server_index \/ (Indexes(t, s, "server") /\ i = call[t].idx)
    BY <1>2, <1>5, <2>1
  <2>3. i \in Active /\ ~entryRoute[i].client
    BY <1>3, <1>5, <2>2 DEF Indexes, EntryIsOwn, PairInv, ServersApart, EntriesNamed
  <2> QED
    BY <2>1, <2>3, RoutesStay
<1> QED
  BY <1>4, <1>5 DEF PairsRouted, ServersApart

LEMMA ManagerKeepsCandidates ==
  ASSUME SoleCaller, IInv, CandidatesAreClients, NEW t \in Threads, ManagerStep(t)
  PROVE  CandidatesAreClients'
<1>1. UNCHANGED cycle
  BY DEF ManagerStep
<1>2. CASE cycle.pc = "idle"
  BY <1>1, <1>2 DEF CandidatesAreClients
<1>3. CASE cycle.pc # "idle"
  <2>1. Active' \subseteq Active
    BY <1>3, NoneCreatedMeanwhile DEF ManagerStep
  <2>2. \A i : ClientIfActive(i) => ClientIfActive(i)'
    BY <2>1, RoutesStay DEF ClientIfActive
  <2> QED
    BY <1>1, <2>2 DEF CandidatesAreClients
<1> QED
  BY <1>2, <1>3

LEMMA ManagerKeepsNewOwn ==
  ASSUME IInv, IInv', OwnInv, OwnInv', EntriesNamed, EntriesNamed', NewOwn,
         NEW t \in Threads, ManagerStep(t)
  PROVE  NewOwn'
<1>1. Begin(t) \/ Continue(t)
  BY DEF ManagerStep
<1>2. ASSUME NEW u \in Threads, call[u].pc \in WorkingPcs PROVE call[u].slot \in inUse
  BY <1>2 DEF OwnInv, OneEngaged, Engaged, Works
<1>3. ASSUME NEW u \in Threads, call'[u].pc \in WorkingPcs PROVE call'[u].slot \in inUse'
  BY <1>3 DEF OwnInv, OneEngaged, Engaged, Works
<1>4. \A s \in inUse \cap inUse' :
         recordLabel'[s] = IF call[t].pc = "init" /\ call[t].slot = s THEN "own"
                           ELSE recordLabel[s]
  BY Typed DEF ManagerStep, RoutesFollow
<1>5. ASSUME NEW u \in Threads \ {t}, call'[u].pc \in WorkingPcs PROVE call'[u] = call[u]
  BY <1>1, <1>5, CallsElsewhere DEF IdleCall, WorkingPcs, CreatePcs, RollbackPcs
<1>6. ASSUME NEW u \in Threads, call'[u].pc \in WorkingPcs \ {"init"}
      PROVE  recordLabel'[call'[u].slot] = "own"
  <2>1. call'[u].slot \in inUse'
    BY <1>3, <1>6
  <2>2. CASE u = t
    <3>1. call[t].pc \in WorkingPcs /\ call'[t].slot = call[t].slot
      BY <1>1, <1>6, <2>2, BuilderSteps
    <3>2. call[t].pc = "init" \/ recordLabel[call[t].slot] = "own"
      BY <3>1 DEF NewOwn, RecordIsOwn
    <3> QED
      BY <1>2, <1>4, <2>1, <2>2, <3>1, <3>2
  <2>3. CASE u # t
    <3>1. call'[u] = call[u]
      BY <1>5, <1>6, <2>3
    <3>2. call[u].slot \in inUse /\ recordLabel[call[u].slot] = "own"
      BY <1>2, <1>6, <3>1 DEF NewOwn, RecordIsOwn
    <3> QED
      BY <1>4, <2>1, <3>1, <3>2
  <2> QED
    BY <2>2, <2>3
<1>7. ASSUME NEW u \in Threads, call'[u].pc \in {"handle", "index"}
      PROVE  /\ entryRoute'[call'[u].idx].label = "own"
             /\ call'[u].seg = "server" => ~entryRoute'[call'[u].idx].client
  <2> DEFINE i == call'[u].idx
  <2>1. i \in Active'
    BY <1>7 DEF EntriesNamed
  <2>2. ASSUME call[u].pc \in {"handle", "index"}, i = call[u].idx, call'[u].seg = call[u].seg
        PROVE  /\ entryRoute'[i].label = "own"
               /\ call'[u].seg = "server" => ~entryRoute'[i].client
    <3>1. i \in Active /\ EntryIsOwn(call[u])
      BY <2>2 DEF EntriesNamed, NewOwn
    <3> QED
      BY <2>1, <2>2, <3>1, RoutesStay DEF EntryIsOwn
  <2>3. CASE u # t
    BY <1>5, <1>7, <2>2, <2>3 DEF WorkingPcs, CreatePcs
  <2>4. CASE u = t /\ call'[t].pc = "handle"
    <3>1. i = call[t].idx /\ call'[t].seg = call[t].seg /\ i \notin Active
      BY <1>1, <2>4, EntrySteps
    <3>2. PICK demand \in Demands : entryRoute'[i] = RecordedRoute(t, demand)
      BY <2>1, <3>1 DEF ManagerStep, RoutesFollow, Active
    <3>3. RecordedRoute(t, demand).label = "own"
      BY DEF RecordedRoute
    <3>4. call[t].seg = "server" => RecordedRoute(t, demand).client = FALSE
      BY DEF RecordedRoute
    <3> QED
      BY <2>4, <3>1, <3>2, <3>3, <3>4
  <2>5. CASE u = t /\ call'[t].pc = "index"
    <3>1. i = call[t].idx /\ call'[t].seg = call[t].seg /\ call[t].pc = "handle"
      BY <1>1, <2>5, EntrySteps
    <3> QED
      BY <2>2, <2>5, <3>1
  <2> QED
    BY <1>7, <2>3, <2>4, <2>5
<1> QED
  BY <1>6, <1>7 DEF NewOwn, EntryIsOwn, RecordIsOwn

LEMMA ManagerKeepsPairs ==
  ASSUME SoleCaller, IInv, IInv', OwnInv, OwnInv', EntriesNamed, EntriesNamed', PairInv,
         NEW t \in Threads, ManagerStep(t)
  PROVE  PairInv'
BY ManagerKeepsPairsRouted, ManagerKeepsCandidates, ManagerKeepsNewOwn DEF PairInv

-----------------------------------------------------------------------------
(* A step of the controller.                                               *)

\* While the only application thread is inside the controller no pair is being
\* created, and every record says what it holds.
LEMMA NoneBeingCreated ==
  ASSUME SoleCaller, IInv, Idle(Control)
  PROVE  /\ \A t \in Threads : call[t].pc \notin WorkingPcs
         /\ \A s \in inUse : Records[s] = runtime[s]
<1>1. \A t \in Threads : call[t].pc \notin WorkingPcs
  BY BuiltOK DEF SoleCaller, Idle, WorkingPcs, CreatePcs, RollbackPcs
<1> QED
  BY <1>1, Typed DEF Records, RecordOf, Unindexed, WorkingPcs, CreatePcs, RollbackPcs

LEMMA ControlIsIdle ==
  ASSUME SoleCaller, CycleStep \/ BeginRun
  PROVE  Idle(Control)
BY DEF SoleCaller, CycleStep, BeginRun, BeginCycle, BeginIndex, StartRun, At, ControlIsFree,
   TakeSnapshot, FindRuntime, ReadPairId, EvaluateCandidate, RejectPlan, MiscountPlan,
   AcceptPlan, CheckResult, CheckPairId, FindTarget, LabelEntry, LabelRecord, SetSite

\* The runtime of a client is found by the index of its entry.
LEMMA ClientIsFound ==
  ASSUME SoleCaller, IInv, OwnInv, Idle(Control), NEW s \in Slots, HasClient(s)
  PROVE  FoundByIndex(s, Records[s].client_index)
<1> DEFINE i == Records[s].client_index
<1>1. s \in inUse
  <2>1. Nothing.client_index = NoIndex
    BY DEF Nothing, ZeroRuntime
  <2> QED
    BY <2>1 DEF HasClient, Records, RecordOf
<1>2. Records[s] = runtime[s] /\ InUseAndOwned(s)
  BY <1>1, NoneBeingCreated DEF IInv, RegistryInv, FreeListPartition, InUseAndOwned
<1>3. runtime[s].lifecycle_state = "READY"
  <2> SUFFICES ASSUME Records[s].lifecycle_state # "READY" PROVE FALSE
    BY <1>2
  <2>1. PICK t \in Threads : Works(call[t]) /\ call[t].slot = s
    BY DEF OwnInv, MarkedIsWorked
  <2>2. WorkRecord(call[t], Records[s]) /\ call[t].pc \in DestroyPcs
    BY <2>1, NoneBeingCreated DEF OwnInv, WorkShaped, Works
  <2> QED
    BY <2>2 DEF WorkRecord, IsEmpty, HasClient
<1>4. i \in Indices
  BY EntriesOfRecords DEF HasClient, Active
<1>5. i >= 0
  BY <1>4, ConfigAssumption DEF Indices
<1>6. ASSUME NEW r \in Slots, Answers(r, i) PROVE r = s
  <2>1. Records[r] = runtime[r]
    BY <1>6, NoneBeingCreated DEF Answers, InUseAndOwned
  <2> QED
    BY <1>6, <2>1, EntriesOfRecords DEF Answers, HasClient
<1>7. ~ScannedBefore(s, s)
  BY DEF ScannedBefore, Slots
<1> QED
  BY <1>2, <1>3, <1>5, <1>6, <1>7 DEF FoundByIndex, Answers

\* Only the runtime of a client is found by the index of a candidate.
LEMMA FoundIsClient ==
  ASSUME SoleCaller, IInv, OwnInv, ServersApart, Idle(Control),
         NEW s \in Slots, NEW i \in Indices, FoundByIndex(s, i), ClientIfActive(i)
  PROVE  Records[s].client_index = i
<1>1. Records[s] = runtime[s]
  BY NoneBeingCreated DEF FoundByIndex, Answers, InUseAndOwned
<1>2. i # NoIndex
  BY Typed
<1> SUFFICES ASSUME Records[s].server_index = i PROVE FALSE
  BY <1>1 DEF FoundByIndex, Answers
<1>3. i \in Active
  BY <1>2, EntriesOfRecords
<1> QED
  BY <1>2, <1>3 DEF ServersApart, ClientIfActive

LEMMA RecordsStay ==
  ASSUME BeginRun \/ CycleStep \/ InitializeOffloader \/ ShutdownOffloader
  PROVE  UNCHANGED <<Records, Active, call, inUse>>
BY ControlStepFrames
DEF vars, registryVars, monitorVars, Records, RecordOf, Unindexed, WithoutIndices, Active

\* A pair whose route a step does not write.
LEMMA QuietKeepsRouted ==
  ASSUME PairsRouted, UNCHANGED <<Records, entryRoute, recordLabel>>,
         ~Writing, ~Writing'
  PROVE  PairsRouted'
<1>1. \A i : ~Applying(i) /\ ~Applying(i)'
  BY DEF Applying, Writing
<1> QED
  BY <1>1 DEF PairsRouted, HasClient, PairRouted, InForce

\* The candidate that is being applied.
LEMMA CurrentApplies ==
  ASSUME CycleInv, CandidatesAreClients, cycle.pc \in ApplyPcs
  PROVE  /\ Current.task_index \in Indices /\ ClientIfActive(Current.task_index)
         /\ cycle \in Cycle
         /\ \A i : Applying(i) <=> Writing /\ i = Current.task_index
<1>1. cycle.pc \in DecisionPcs /\ cycle.pc # "idle"
  BY DEF ApplyPcs, DecisionPcs
<1>2. Current \in Candidate /\ cycle.at \in DOMAIN cycle.candidates
  BY <1>1, CurrentOK DEF CycleInv, Buffered
<1> QED
  BY <1>1, <1>2 DEF Candidate, CandidatesAreClients, Current, CycleInv, Applying, Writing

LEMMA LabelEntryKeepsRouted ==
  ASSUME IInv, OwnInv, RouteInv, CycleInv, PairInv, LabelEntry, UNCHANGED Records
  PROVE  PairsRouted'
<1> DEFINE k == Current.task_index
<1>1. cycle.pc = "labelEntry" /\ k \in Indices /\ cycle \in Cycle
  BY CurrentApplies DEF LabelEntry, At, ApplyPcs, PairInv
<1>2. cycle'.pc = "labelRecord" /\ Current' = Current /\ UNCHANGED recordLabel
  BY <1>1 DEF LabelEntry, ApplyTo, Cycle, Current
<1>3. /\ k \in Active => entryRoute'[k].label = Current.route
      /\ \A i \in Indices \ {k} : entryRoute'[i] = entryRoute[i]
  BY <1>1 DEF LabelEntry, RouteInv, EntryRoute
<1>4. \A i : ~Applying(i) /\ (Applying(i)' <=> i = k)
  BY <1>1, <1>2 DEF Applying
<1>5. ASSUME NEW s \in Slots, HasClient(s) PROVE PairRouted(s)'
  <2>1. Records[s].client_index \in Active /\ Active \subseteq Indices /\ PairRouted(s)
    BY <1>5, EntriesOfRecords DEF HasClient, Active, PairInv, PairsRouted
  <2> QED
    BY <1>2, <1>3, <1>4, <2>1 DEF PairRouted, InForce
<1> QED
  BY <1>5 DEF PairsRouted, HasClient

LEMMA LabelRecordKeepsRouted ==
  ASSUME SoleCaller, IInv, OwnInv, RouteInv, CycleInv, PairInv, LabelRecord,
         Idle(Control), UNCHANGED Records
  PROVE  PairsRouted'
<1> DEFINE k == Current.task_index
<1>1. /\ cycle.pc = "labelRecord" /\ k \in Indices /\ cycle \in Cycle /\ ClientIfActive(k)
      /\ \A i : Applying(i) <=> i = k
  BY CurrentApplies DEF LabelRecord, At, ApplyPcs, PairInv, Writing
<1>2. UNCHANGED entryRoute
  BY DEF LabelRecord
<1>3. ASSUME NEW s \in Slots, HasClient(s), ~Found(s), UNCHANGED recordLabel
      PROVE  PairRouted(s)'
  <2>1. Records[s].client_index # k /\ PairRouted(s)
    BY <1>3, ClientIsFound DEF Found, PairInv, PairsRouted
  <2>2. cycle'.pc = "idle" \/ Current' = Current
    <3>1. \/ cycle' = NoCycle
          \/ cycle' = [cycle EXCEPT !.pc = "site", !.updated = FALSE]
          \/ cycle' = [cycle EXCEPT !.pc = "site", !.updated = FALSE, !.wrote = TRUE]
      BY DEF LabelRecord, FailWith, ReturnFromCycle
    <3>2. cycle \in Cycle
      BY <1>1
    <3>3. cycle' = NoCycle \/ UNCHANGED <<cycle.at, cycle.candidates>>
      BY <3>1, <3>2 DEF Cycle
    <3> QED
      BY <3>3 DEF NoCycle, Current
  <2>3. \A i : Applying(i)' => i = k
    BY <2>2 DEF Applying
  <2> QED
    BY <1>1, <1>2, <1>3, <2>1, <2>3 DEF PairRouted, InForce
<1>4. ASSUME NEW x \in Slots, Found(x),
             recordLabel' = [recordLabel EXCEPT ![x] = Current.route],
             cycle' = [cycle EXCEPT !.pc = "site", !.updated = FALSE, !.wrote = TRUE]
      PROVE  PairsRouted'
  <2>1. Records[x].client_index = k
    BY <1>1, <1>4, FoundIsClient DEF Found, PairInv
  <2>2. cycle'.pc = "site" /\ Current' = Current
    BY <1>1, <1>4 DEF Cycle, Current
  <2>3. \A i : Applying(i)' <=> i = k
    BY <2>2 DEF Applying
  <2>4. recordLabel'[x] = Current.route /\ \A s \in Slots \ {x} : recordLabel'[s] = recordLabel[s]
    BY <1>4 DEF RouteInv
  <2>5. ASSUME NEW s \in Slots, HasClient(s) PROVE PairRouted(s)'
    <3>1. PairRouted(s)
      BY <2>5 DEF PairInv, PairsRouted
    <3>2. Records[s].client_index = k => s = x
      BY <1>4, <2>1, <2>5, EntriesOfRecords DEF HasClient
    <3> HIDE DEF k
    <3> QED
      BY <1>1, <1>2, <2>1, <2>2, <2>3, <2>4, <3>1, <3>2 DEF PairRouted, InForce
  <2> QED
    BY <2>5 DEF PairsRouted, HasClient
<1>5. CASE NothingFound /\ UNCHANGED recordLabel
  BY <1>3, <1>5 DEF NothingFound, PairsRouted, HasClient
<1> QED
  BY <1>4, <1>5 DEF LabelRecord

LEMMA SetSiteKeepsRouted ==
  ASSUME IInv, OwnInv, RouteInv, CycleInv, PairInv, SetSite, UNCHANGED Records
  PROVE  PairsRouted'
<1> DEFINE k == Current.task_index
<1>1. /\ cycle.pc = "site" /\ k \in Indices /\ cycle \in Cycle
      /\ \A i : Applying(i) <=> i = k
  BY CurrentApplies DEF SetSite, At, ApplyPcs, PairInv, Writing
<1>2. UNCHANGED recordLabel
  BY DEF SetSite
<1>3. /\ k \in Active => /\ entryRoute'[k].label = entryRoute[k].label
                         /\ entryRoute'[k].exec_site = Current.route
      /\ \A i \in Indices \ {k} : entryRoute'[i] = entryRoute[i]
  BY <1>1 DEF SetSite, RouteInv, EntryRoute
<1>4. \A i : ~Applying(i)'
  <2>1. ~Writing'
    BY <1>1, ReturnDoesNotWrite DEF SetSite, ApplyNext, FailWith, Writing, Cycle
  <2> QED
    BY <2>1 DEF Applying, Writing
<1>5. ASSUME NEW s \in Slots, HasClient(s) PROVE PairRouted(s)'
  <2>1. Records[s].client_index \in Active /\ Active \subseteq Indices /\ PairRouted(s)
    BY <1>5, EntriesOfRecords DEF HasClient, Active, PairInv, PairsRouted
  <2> HIDE DEF k
  <2> QED
    BY <1>1, <1>2, <1>3, <1>4, <2>1 DEF PairRouted, InForce, k
<1> QED
  BY <1>5 DEF PairsRouted, HasClient

LEMMA CycleStepKeepsRouted ==
  ASSUME SoleCaller, IInv, OwnInv, RouteInv, CycleInv, PairInv, CycleStep
  PROVE  PairsRouted' /\ ServersApart' /\ NewOwn'
<1>1. /\ UNCHANGED <<Records, Active, call>> /\ Idle(Control) /\ cycle \in Cycle
      /\ PairsRouted
  BY RecordsStay, ControlIsIdle DEF CycleInv, PairInv
<1>2. ASSUME QuietSteps PROVE PairsRouted'
  <2>1. UNCHANGED recordLabel
    BY <1>2
    DEF QuietSteps, TakeSnapshot, FindRuntime, ReadPairId, EvaluateCandidate, RejectPlan,
        MiscountPlan, AcceptPlan, CheckResult, CheckPairId, FindTarget, routeVars
  <2>2. UNCHANGED entryRoute /\ ~Writing /\ ~Writing'
    BY <1>1, <1>2, QuietStepsAreQuiet
  <2>3. Records' = Records
    BY <1>1
  <2> QED
    BY <1>1, <2>1, <2>2, <2>3, QuietKeepsRouted
<1>3. PairsRouted'
  BY <1>1, <1>2, LabelEntryKeepsRouted, LabelRecordKeepsRouted, SetSiteKeepsRouted
  DEF CycleStep, QuietSteps
<1>4. ServersApart'
  <2>1. ASSUME NEW s \in Slots, Records[s].server_index # NoIndex
        PROVE  Records[s].server_index \in Indices
    BY <2>1, EntriesOfRecords DEF Active
  <2> QED
    BY <1>1, <2>1, EntriesStayClients DEF PairInv, ServersApart
<1>5. NewOwn'
  BY <1>1, NoneBeingCreated
  DEF NewOwn, EntryIsOwn, RecordIsOwn, WorkingPcs, CreatePcs, RollbackPcs
<1> QED
  BY <1>3, <1>4, <1>5

\* The candidates are clients when they are collected, and decided on.
LEMMA ScanOnKeepsClients ==
  ASSUME cycle \in Cycle, NEW candidates, ScanOn(candidates),
         UNCHANGED <<entryRoute, Active>>,
         \A k \in DOMAIN candidates : ClientIfActive(candidates[k].task_index)
  PROVE  CandidatesAreClients'
<1>1. CASE cycle' = NoCycle
  BY <1>1 DEF CandidatesAreClients, NoCycle
<1>2. CASE cycle'.candidates = candidates /\ cycle'.pc \notin {"find", "readId"}
  BY <1>2 DEF CandidatesAreClients, ClientIfActive
<1> QED
  BY <1>1, <1>2 DEF ScanOn, ReturnFromCycle, Cycle

\* What leaves the indices of the candidates alone, or ends the call.
LEMMA QuietKeepsClients ==
  ASSUME CandidatesAreClients, cycle.pc # "idle", Active' = Active,
         \A i \in Active : entryRoute'[i].client = entryRoute[i].client,
         \/ cycle' = NoCycle
         \/ /\ cycle'.pc \notin {"find", "readId"}
            /\ DOMAIN cycle'.candidates = DOMAIN cycle.candidates
            /\ \A k \in DOMAIN cycle.candidates :
                  cycle'.candidates[k].task_index = cycle.candidates[k].task_index
  PROVE  CandidatesAreClients'
<1>1. \A i : ClientIfActive(i) => ClientIfActive(i)'
  BY DEF ClientIfActive
<1>2. CASE cycle' = NoCycle
  BY <1>2 DEF CandidatesAreClients, NoCycle
<1> QED
  BY <1>1, <1>2 DEF CandidatesAreClients

LEMMA CollectionKeepsClients ==
  ASSUME CycleInv, CandidatesAreClients, UNCHANGED <<entryRoute, Active>>,
         TakeSnapshot \/ FindRuntime \/ ReadPairId
  PROVE  CandidatesAreClients'
<1>1. cycle \in Cycle /\ cycle.candidates \in Seq(Candidate) /\ cycle.pc # "idle"
  BY DEF TakeSnapshot, FindRuntime, ReadPairId, At, CycleInv, Cycle
<1>2. CASE ScanOn(cycle.candidates)
  BY <1>1, <1>2, ScanOnKeepsClients DEF CandidatesAreClients
<1>3. ASSUME cycle'.pc \in {"find", "readId"}, cycle'.at = cycle.at,
             cycle'.candidates = cycle.candidates, ClientIfActive(cycle.at)
      PROVE  CandidatesAreClients'
  BY <1>1, <1>3 DEF CandidatesAreClients, ClientIfActive
<1>4. CASE TakeSnapshot
  <2>1. ASSUME cycle.at \in Active /\ entryRoute[cycle.at].client,
               NEW latency \in Latencies, cycle' = [cycle EXCEPT !.pc = "find",
                   !.route = Advice(entryRoute[cycle.at].demand, latency)]
        PROVE  CandidatesAreClients'
    BY <1>1, <1>3, <2>1 DEF Cycle, ClientIfActive
  <2> QED
    BY <1>2, <1>4, <2>1 DEF TakeSnapshot
<1>5. CASE FindRuntime
  <2>1. ASSUME NEW s \in Slots, cycle' = [cycle EXCEPT !.pc = "readId", !.slot = s]
        PROVE  CandidatesAreClients'
    <3>1. cycle.pc = "find"
      BY <1>5 DEF FindRuntime, At
    <3> QED
      BY <1>1, <1>3, <2>1, <3>1 DEF Cycle, CandidatesAreClients
  <2> QED
    BY <1>2, <1>5, <2>1 DEF FindRuntime
<1>6. CASE ReadPairId
  <2> DEFINE c == [task_index |-> cycle.at, pair_id |-> runtime[cycle.slot].pair_id,
                   route |-> cycle.route]
             candidates == Append(cycle.candidates, c)
  <2>1. ScanOn(candidates) /\ cycle.pc = "readId"
    BY <1>6 DEF ReadPairId, At
  <2>2. ClientIfActive(c.task_index)
    BY <2>1 DEF CandidatesAreClients
  <2> HIDE DEF c
  <2>3. \A k \in DOMAIN candidates :
           candidates[k] = c \/ (k \in DOMAIN cycle.candidates
                                   /\ candidates[k] = cycle.candidates[k])
    BY <1>1
  <2>4. \A k \in DOMAIN candidates : ClientIfActive(candidates[k].task_index)
    BY <1>1, <2>2, <2>3 DEF CandidatesAreClients
  <2> HIDE DEF candidates
  <2> QED
    BY <1>1, <2>1, <2>4, ScanOnKeepsClients
<1> QED
  BY <1>4, <1>5, <1>6

LEMMA DecisionKeepsClients ==
  ASSUME CycleInv, CandidatesAreClients, UNCHANGED <<entryRoute, Active>>,
         EvaluateCandidate \/ AcceptPlan
  PROVE  CandidatesAreClients'
<1>1. cycle \in Cycle /\ cycle.pc \in DecisionPcs /\ cycle.pc # "idle"
  BY DEF EvaluateCandidate, AcceptPlan, At, CycleInv, DecisionPcs
<1>2. /\ cycle.candidates \in Seq(Candidate)
      /\ DOMAIN cycle.candidates = 1..Len(cycle.candidates)
      /\ \A k \in DOMAIN cycle.candidates : cycle.candidates[k] \in Candidate
      /\ cycle.at \in DOMAIN cycle.candidates
  BY <1>1, CurrentOK
<1>3. CASE EvaluateCandidate
  <2>1. ASSUME NEW verdict, cycle' = [cycle EXCEPT !.pc = "check",
                               !.candidates[cycle.at].route = verdict]
        PROVE  CandidatesAreClients'
    <3> DEFINE c == [cycle.candidates[cycle.at] EXCEPT !.route = verdict]
    <3>1. /\ cycle'.pc = "check"
          /\ cycle'.candidates = [cycle.candidates EXCEPT ![cycle.at] = c]
      BY <1>1, <2>1 DEF Cycle
    <3>2. c.task_index = cycle.candidates[cycle.at].task_index
      BY <1>2 DEF Candidate
    <3> HIDE DEF c
    <3>3. /\ DOMAIN cycle'.candidates = DOMAIN cycle.candidates
          /\ \A k \in DOMAIN cycle.candidates :
                cycle'.candidates[k] = IF k = cycle.at THEN c ELSE cycle.candidates[k]
      BY <1>2, <3>1
    <3> QED
      BY <1>1, <3>1, <3>2, <3>3, QuietKeepsClients
  <2> QED
    BY <1>1, <1>3, <2>1, QuietKeepsClients DEF EvaluateCandidate, FailWith, ReturnFromCycle
<1>4. CASE AcceptPlan
  <2>1. PICK plan \in [DOMAIN cycle.candidates -> Verdicts \ {"reject", "custom"}] :
           cycle' = [cycle EXCEPT !.pc = "check", !.candidates =
                [k \in DOMAIN plan |-> [@[k] EXCEPT !.route = plan[k]]]]
    BY <1>4 DEF AcceptPlan
  <2>2. /\ cycle'.pc = "check"
        /\ cycle'.candidates =
              [k \in DOMAIN cycle.candidates |->
                  [cycle.candidates[k] EXCEPT !.route = plan[k]]]
    BY <1>1, <2>1 DEF Cycle
  <2>3. \A k \in DOMAIN cycle.candidates :
           cycle'.candidates[k].task_index = cycle.candidates[k].task_index
    BY <1>2, <2>2 DEF Candidate
  <2> QED
    BY <1>1, <2>2, <2>3, QuietKeepsClients
<1> QED
  BY <1>3, <1>4

LEMMA CycleStepKeepsClients ==
  ASSUME RouteInv, CycleInv, CandidatesAreClients, CycleStep
  PROVE  CandidatesAreClients'
<1>1. /\ Active' = Active /\ cycle \in Cycle
      /\ \A i \in Active : entryRoute'[i].client = entryRoute[i].client
  BY EntriesStayClients DEF Active, CycleInv
<1>2. CASE RejectPlan \/ MiscountPlan
  BY <1>2 DEF RejectPlan, MiscountPlan, FailWith, ReturnFromCycle, CandidatesAreClients, NoCycle
<1>3. CASE CheckResult \/ CheckPairId
  BY <1>1, <1>3, QuietKeepsClients
  DEF CheckResult, CheckPairId, At, FailWith, ReturnFromCycle, Cycle
<1>4. CASE FindTarget \/ LabelEntry \/ LabelRecord \/ SetSite
  BY <1>1, <1>4, QuietKeepsClients
  DEF FindTarget, LabelEntry, LabelRecord, SetSite, At, ApplyTo, ApplyNext, FailWith,
      FailSilently, ReturnFromCycle, Cycle
<1>5. CASE TakeSnapshot \/ FindRuntime \/ ReadPairId
  BY <1>1, <1>5, CollectionKeepsClients DEF TakeSnapshot, FindRuntime, ReadPairId, routeVars
<1>6. CASE EvaluateCandidate \/ AcceptPlan
  BY <1>1, <1>6, DecisionKeepsClients DEF EvaluateCandidate, AcceptPlan, routeVars
<1> QED
  BY <1>2, <1>3, <1>4, <1>5, <1>6 DEF CycleStep

LEMMA RestKeepsPairs ==
  ASSUME PairInv, UNCHANGED <<Records, Active, call, routeVars>>,
         cycle.pc = "idle", cycle'.pc \in {"idle", "snapshot"}, cycle'.candidates = <<>>
  PROVE  PairInv'
<1>1. PairsRouted'
  BY QuietKeepsRouted DEF PairInv, Writing, routeVars
<1>2. ServersApart' /\ NewOwn'
  BY DEF PairInv, ServersApart, NewOwn, EntryIsOwn, RecordIsOwn, routeVars
<1>3. CandidatesAreClients'
  BY DEF CandidatesAreClients
<1> QED
  BY <1>1, <1>2, <1>3 DEF PairInv

LEMMA ControlNextKeepsPairs ==
  ASSUME SoleCaller
  PROVE  /\ IInv /\ IInv' /\ OwnInv /\ OwnInv' /\ EntriesNamed /\ EntriesNamed'
         /\ ControlInv /\ PairInv /\ [ControlNext]_controlVars
         => PairInv'
<1> SUFFICES ASSUME IInv, IInv', OwnInv, OwnInv', EntriesNamed, EntriesNamed',
                    ControlInv, PairInv, [ControlNext]_controlVars
             PROVE  PairInv'
  OBVIOUS
<1>1. CASE UNCHANGED controlVars
  BY <1>1
  DEF controlVars, vars, registryVars, monitorVars, routeVars, PairInv, PairsRouted,
      HasClient, PairRouted, InForce, Applying, Current, ServersApart, NewOwn, EntryIsOwn,
      RecordIsOwn, CandidatesAreClients, ClientIfActive, Active, Records, RecordOf,
      Unindexed, WithoutIndices
<1>2. CASE BeginRun \/ InitializeOffloader \/ ShutdownOffloader
  <2>1. /\ cycle.pc = "idle" /\ cycle'.pc \in {"idle", "snapshot"}
        /\ cycle'.candidates = <<>> /\ UNCHANGED routeVars
    <3>1. ASSUME NEW run, NEW i, StartRun(run, i)
          PROVE  /\ cycle.pc = "idle" /\ cycle'.pc = "snapshot"
                 /\ cycle'.candidates = <<>> /\ UNCHANGED routeVars
      BY <3>1 DEF StartRun, At, NoCycle
    <3>2. CASE InitializeOffloader \/ ShutdownOffloader
      BY <3>2 DEF InitializeOffloader, ShutdownOffloader, At, NoCycle
    <3> QED
      BY <1>2, <3>1, <3>2 DEF BeginRun, BeginCycle, BeginIndex
  <2> QED
    BY <1>2, <2>1, RecordsStay, RestKeepsPairs
<1>3. CASE CycleStep
  BY <1>3, CycleStepKeepsRouted, CycleStepKeepsClients DEF ControlInv, PairInv
<1>4. ASSUME NEW t \in Threads, ManagerStep(t) PROVE PairInv'
  BY <1>4, ManagerKeepsPairs
<1> QED
  BY <1>1, <1>2, <1>3, <1>4 DEF ControlNext

\* Nothing is routed while there is no pair.
LEMMA NoPairsAgree ==
  inUse = {} /\ Active = {} /\ call = [t \in Threads |-> IdleCall] /\ cycle = NoCycle
    => PairInv
<1> SUFFICES ASSUME inUse = {}, call = [t \in Threads |-> IdleCall], cycle = NoCycle
             PROVE  PairInv
  OBVIOUS
<1>1. \A s \in Slots : Records[s].client_index = NoIndex /\ Records[s].server_index = NoIndex
  BY DEF Records, RecordOf, Nothing, ZeroRuntime
<1>2. \A t \in Threads : call[t].pc = "idle"
  BY DEF IdleCall
<1> QED
  BY <1>1, <1>2
  DEF PairInv, PairsRouted, HasClient, ServersApart, CandidatesAreClients, NoCycle, NewOwn,
      EntryIsOwn, RecordIsOwn, WorkingPcs, CreatePcs, RollbackPcs

LEMMA PairsAgree == IInv /\ OwnInv /\ PairInv => RoutesAgree
<1> SUFFICES ASSUME IInv, PairInv, NEW s \in inUse, Settled(s),
                    runtime[s].client_index # NoIndex
             PROVE  ~Applying(runtime[s].client_index) => InForce(runtime[s].client_index, s)
  BY DEF RoutesAgree, InForce
<1>1. s \in Slots /\ Records[s] = runtime[s]
  BY Typed DEF Settled, Records, RecordOf
<1> QED
  BY <1>1 DEF PairInv, PairsRouted, HasClient, PairRouted

\* The host label in a client's entry and the label in the record of its pair are
\* the same, and the execution site follows, although three critical sections
\* store them and look the pair up by an index each time: that takes callers that
\* tear a pair down one at a time, and the one application thread inside the
\* controller, or index 0 finds a record that is reserved and still zero.
THEOREM RoutesStayTogether ==
  ASSUME SoleCaller, CallersKeepApart
  PROVE  ControlSpec => []RoutesAgree
<1>1. ControlInit => PairInv
  BY NoPairsAgree DEF ControlInit, Init, InitRegistry, InitMonitor, ZeroEntry, Active
<1>2. [](IInv /\ OwnInv => EntriesNamed)
  BY EntriesAreNamed, PTL
<1> QED
  BY <1>1, <1>2, ControlNextKeepsPairs, PairsAgree, ControlInvariantHolds,
     ManagerIsUndisturbed, PairsAreOwned, PTL DEF ControlSpec
=============================================================================
