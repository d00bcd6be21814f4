------------------------------ MODULE Offloader ------------------------------
(***************************************************************************)
(* core/offloader.c over the task manager.  One thread runs the controller *)
(* while other threads create and destroy pairs.  A step is one critical   *)
(* section of the task manager, one unlocked read of a runtime record, or  *)
(* the local work up to the next one.  The controller thread is one of the *)
(* application threads, which then does one thing at a time, or a thread   *)
(* of its own.                                                             *)
(***************************************************************************)
EXTENDS TaskManager, OffloaderPolicy

CONSTANTS Control,      \* the thread that runs the controller
          CycleModes,   \* configured modes: subset of {"perTask", "batch"}
          Policies,     \* configured policies: subset of AllPolicies
          Opinions,     \* what a policy of the application may answer
          Demands,      \* WCET and period the clients are created with
          Latencies     \* OE2EL values their tasks report

AllPolicies == {"fp", "rm", "default", "custom", "noPlan"}

\* A period of 0 is refused by edge_task_spec_is_valid, not by a creation.
Demand == [WCET : Uint, period : Uint]

ASSUME OffloaderAssumption ==
    /\ Control \notin TaskHandles
    /\ CycleModes \subseteq {"perTask", "batch"}
    /\ Policies \subseteq AllPolicies
    /\ Opinions \subseteq Routes \cup {"reject", "invalid"}
    /\ Demands \subseteq Demand /\ Demands # {}
    /\ Latencies \subseteq Uint

VARIABLES entryRoute,   \* host label and execution site of each monitor entry
          recordLabel,  \* local_host_label of the runtime record in each slot
          offloader,    \* g_offloader_state: configuration and policy
          lastEvent,    \* g_offloader_state.last_event
          cycle         \* locals of the controller call in progress

routeVars == <<entryRoute, recordLabel>>
offloaderVars == <<offloader, lastEvent>>
controlVars == <<vars, routeVars, offloaderVars, cycle>>

-----------------------------------------------------------------------------
(* What an entry and a record keep of a route.  "own" is the label a pair  *)
(* was created with; the configured labels are named after their routes.   *)

Labels == Routes \cup {"none", "own"}

EntryRoute == [label : Labels, exec_site : Routes, client : BOOLEAN, demand : Demand]

\* Cleared bytes: no name, so not a client, and LOCAL_EXECUTION.
NoDemand == [WCET |-> 0, period |-> 0]

NoRoute == [label |-> "none", exec_site |-> "LOCAL", client |-> FALSE,
            demand |-> NoDemand]

\* record_monitor_from_task.  The names of pairs are taken to leave room for the
\* "-cl-" of a client's entry and to hold none of their own, which is_client_task
\* would find in every entry of the pair (see NamesThatFit in
\* ExchangeProofs).  The WCET and period of other entries are then never read.
RecordedRoute(t, demand) ==
    LET client == call[t].kind # "local" /\ call[t].seg = "client"
    IN  [label     |-> "own",
         exec_site |-> IF call[t].kind = "remote" THEN "REMOTE" ELSE "LOCAL",
         client    |-> client,
         demand    |-> IF client THEN demand ELSE NoDemand]

\* What a step of the task manager by t does to labels and sites: recording
\* and clearing an entry writes all of it, reserving and releasing a slot
\* clears the record, and the creator stores the label with the first indices.
RoutesFollow(t) ==
    /\ \E demand \in Demands :
          entryRoute' = [i \in Indices |->
              IF ~monitor'[i].is_active THEN NoRoute
              ELSE IF monitor[i].is_active THEN entryRoute[i]
              ELSE RecordedRoute(t, demand)]
    /\ recordLabel' = [s \in Slots |->
           IF s \notin inUse' \/ s \notin inUse THEN "none"
           ELSE IF call[t].pc = "init" /\ call[t].slot = s THEN "own"
           ELSE recordLabel[s]]

-----------------------------------------------------------------------------
(* The controller's state.  ready stands for offloader_config_ready: it is *)
(* enabled, with a period and two labels.                                  *)

Offloader == [initialized : BOOLEAN,
              ready       : BOOLEAN,
              mode        : {"perTask", "batch"},
              policy      : AllPolicies]

\* memset(&g_offloader_state, 0, ...)
NoOffloader == [initialized |-> FALSE, ready |-> FALSE,
                mode |-> "perTask", policy |-> "noPlan"]

\* edge_offloader_init: a NULL policy is resolved from the scheduler.
Configured(ready, mode, policy, scheduler) ==
    [initialized |-> TRUE, ready |-> ready, mode |-> mode,
     policy |-> IF policy = "default" THEN DefaultPolicy(scheduler) ELSE policy]

EventTypes == {"none", "route", "rejected", "invalid", "failed"}

Event == [type : EventTypes, task_index : MaybeIndex, route : Routes]

NoEvent == [type |-> "none", task_index |-> NoIndex, route |-> "LOCAL"]

\* offloader_record_route_event, and offloader_record_failure_event, of which
\* only the type is kept.
RecordRoute(index, route) ==
    lastEvent' = [type |-> "route", task_index |-> index, route |-> route]

RecordFailure(type) == lastEvent' = [NoEvent EXCEPT !.type = type]

\* edge_offloader_candidate_t; route is what the policy makes of it, "reject"
\* or "invalid" (another index, a route that is none) included.
Verdicts == Routes \cup {"reject", "invalid", "custom"}
Candidate == [task_index : Indices, pair_id : 0..MaxPairId, route : Verdicts]

CollectionPcs == {"snapshot", "find", "readId"}
DecisionPcs == {"evaluate", "plan", "check", "checkId", "applyFind",
                "labelEntry", "labelRecord", "site"}

\* at is the index scanned, later the position in candidates; slot the runtime
\* found, route the advice on the snapshot taken, updated the local of
\* edge_task_pair_set_local_host_label_by_index; wrote says whether the call
\* has written to a record.
Cycle == [pc         : {"idle"} \cup CollectionPcs \cup DecisionPcs,
          run        : {"once", "index"},
          at         : 0..MaxTasks,
          candidates : Seq(Candidate),
          slot       : Slots \cup {NoSlot},
          route      : Verdicts,
          updated    : BOOLEAN,
          wrote      : BOOLEAN]

NoCycle == [pc |-> "idle", run |-> "once", at |-> 0, candidates |-> <<>>,
            slot |-> NoSlot, route |-> "reject", updated |-> FALSE,
            wrote |-> FALSE]

\* Mutant: the configured mode is ignored.
NeverInBatch == FALSE

InBatch == cycle.run = "once" /\ offloader.mode = "batch"

\* The candidate being checked or applied.
Current == cycle.candidates[cycle.at]
Found(s) == FoundByIndex(s, Current.task_index)
NothingFound == \A s \in Slots : ~Found(s)

\* A controller that is an application thread is inside one call at a time.
ControlIsFree == Control \in Callers => Idle(Control)

At(pc) ==
    /\ cycle.pc = pc
    /\ ControlIsFree

\* The call returns; it fails with an event, or without.
ReturnFromCycle == cycle' = NoCycle

FailWith(type) == RecordFailure(type) /\ ReturnFromCycle

FailSilently == ReturnFromCycle /\ UNCHANGED lastEvent

-----------------------------------------------------------------------------
(* Collection of candidates.                                               *)

StartRun(run, i) ==
    /\ At("idle")
    /\ offloader.ready
    /\ run = "once" /\ offloader.mode = "batch" => offloader.policy # "noPlan"
    /\ cycle' = [NoCycle EXCEPT !.pc = "snapshot", !.run = run, !.at = i]
    /\ UNCHANGED <<vars, routeVars, offloaderVars>>

\* edge_offloader_run_once scans every index, from 0.
BeginCycle == StartRun("once", 0)

\* edge_offloader_run_for_task_index
BeginIndex(i) == StartRun("index", i)

\* The scan goes on with the next index; at its end the policy is asked.
ScanOn(candidates) ==
    IF cycle.run = "once" /\ cycle.at + 1 \in Indices
    THEN cycle' = [cycle EXCEPT !.pc = "snapshot", !.at = @ + 1, !.slot = NoSlot,
                       !.route = "reject", !.candidates = candidates]
    ELSE IF candidates = <<>>
    THEN ReturnFromCycle
    ELSE cycle' = [cycle EXCEPT !.pc = IF InBatch THEN "plan" ELSE "evaluate",
                       !.at = 1, !.slot = NoSlot, !.route = "reject",
                       !.candidates = candidates]

\* The policies are pure: what a built-in one will say is known from here on.
Advice(demand, latency) ==
    IF offloader.policy \in {"custom", "noPlan"} THEN "custom"
    ELSE Evaluate(offloader.policy,
                  [WCET |-> demand.WCET, period |-> demand.period, OE2EL |-> latency])

\* get_task_snapshot_by_index and is_client_task
TakeSnapshot ==
    /\ At("snapshot")
    /\ IF cycle.at \in Active /\ entryRoute[cycle.at].client
       THEN \E latency \in Latencies :
               cycle' = [cycle EXCEPT !.pc = "find",
                   !.route = Advice(entryRoute[cycle.at].demand, latency)]
       ELSE ScanOn(cycle.candidates)
    /\ UNCHANGED <<vars, routeVars, offloaderVars>>

FindRuntime ==
    /\ At("find")
    /\ \/ \E s \in Slots :
             /\ FoundByIndex(s, cycle.at)
             /\ cycle' = [cycle EXCEPT !.pc = "readId", !.slot = s]
       \/ /\ \A s \in Slots : ~FoundByIndex(s, cycle.at)
          /\ ScanOn(cycle.candidates)
    /\ UNCHANGED <<vars, routeVars, offloaderVars>>

\* edge_task_pair_id reads the record with no lock held.
ReadPairId ==
    /\ At("readId")
    /\ ScanOn(Append(cycle.candidates,
                     [task_index |-> cycle.at,
                      pair_id    |-> runtime[cycle.slot].pair_id,
                      route      |-> cycle.route]))
    /\ UNCHANGED <<vars, routeVars, offloaderVars>>

-----------------------------------------------------------------------------
(* Decision.                                                               *)

Answer(c) == IF c.route = "custom" THEN Opinions ELSE {c.route}

\* The policy is asked about one candidate at a time.
EvaluateCandidate ==
    /\ At("evaluate")
    /\ \E verdict \in Answer(Current) :
          IF verdict = "reject"
          THEN FailWith("rejected")
          ELSE /\ cycle' = [cycle EXCEPT !.pc = "check",
                               !.candidates[cycle.at].route = verdict]
               /\ UNCHANGED lastEvent
    /\ UNCHANGED <<vars, routeVars, offloader>>

RejectPlan ==
    /\ At("plan")
    /\ \E k \in DOMAIN cycle.candidates : "reject" \in Answer(cycle.candidates[k])
    /\ FailWith("rejected")
    /\ UNCHANGED <<vars, routeVars, offloader>>

\* planned_count differs from the number of candidates.
MiscountPlan ==
    /\ At("plan")
    /\ offloader.policy = "custom"
    /\ FailWith("invalid")
    /\ UNCHANGED <<vars, routeVars, offloader>>

AcceptPlan ==
    /\ At("plan")
    /\ \E plan \in [DOMAIN cycle.candidates -> Verdicts \ {"reject", "custom"}] :
          /\ \A k \in DOMAIN plan : plan[k] \in Answer(cycle.candidates[k])
          /\ cycle' = [cycle EXCEPT !.pc = "check", !.candidates =
                [k \in DOMAIN plan |-> [@[k] EXCEPT !.route = plan[k]]]]
    /\ UNCHANGED <<vars, routeVars, offloaderVars>>

-----------------------------------------------------------------------------
(* Validation: offloader_result_is_valid for one candidate,                *)
(* offloader_normalize_batch_results for all of them.                      *)

CheckResult ==
    /\ At("check")
    /\ \/ /\ Current.route \in Routes
          /\ \E s \in Slots :
                /\ Found(s)
                /\ cycle' = [cycle EXCEPT !.pc = "checkId", !.slot = s]
          /\ UNCHANGED lastEvent
       \/ /\ Current.route \notin Routes \/ NothingFound
          /\ FailWith("invalid")
    /\ UNCHANGED <<vars, routeVars, offloader>>

CheckPairId ==
    /\ At("checkId")
    /\ IF runtime[cycle.slot].pair_id # Current.pair_id
       THEN FailWith("invalid")
       ELSE /\ cycle' = IF InBatch /\ cycle.at < Len(cycle.candidates)
                        THEN [cycle EXCEPT !.pc = "check", !.slot = NoSlot,
                                           !.at = @ + 1]
                        ELSE [cycle EXCEPT !.pc = "applyFind", !.slot = NoSlot,
                                           !.at = IF InBatch THEN 1 ELSE @]
            /\ UNCHANGED lastEvent
    /\ UNCHANGED <<vars, routeVars, offloader>>

-----------------------------------------------------------------------------
(* edge_offloader_apply_result.  It looks the runtime up once more, by the *)
(* index alone, and each of the two setters looks the index up again.      *)

ApplyTo(pc) == cycle' = [cycle EXCEPT !.pc = pc]

\* Without a runtime nothing is recorded, except by the batch loop.
FindTarget ==
    /\ At("applyFind")
    /\ IF NothingFound
       THEN IF InBatch THEN FailWith("failed") ELSE FailSilently
       ELSE ApplyTo("labelEntry") /\ UNCHANGED lastEvent
    /\ UNCHANGED <<vars, routeVars, offloader>>

\* Mutant: the label is written whether the entry is active or not.
LabelEntryUnchecked ==
    /\ At("labelEntry")
    /\ entryRoute' = [entryRoute EXCEPT ![Current.task_index].label = Current.route]
    /\ cycle' = [cycle EXCEPT !.pc = "labelRecord", !.updated = TRUE, !.wrote = TRUE]
    /\ UNCHANGED <<vars, recordLabel, offloaderVars>>

\* edge_task_pair_set_local_host_label_by_index, first critical section
LabelEntry ==
    /\ At("labelEntry")
    /\ IF Current.task_index \in Active
       THEN /\ entryRoute' = [entryRoute EXCEPT ![Current.task_index].label =
                                 Current.route]
            /\ cycle' = [cycle EXCEPT !.pc = "labelRecord", !.updated = TRUE,
                                      !.wrote = TRUE]
       ELSE ApplyTo("labelRecord") /\ UNCHANGED entryRoute
    /\ UNCHANGED <<vars, recordLabel, offloaderVars>>

\* Mutant: the record keeps its label.
LabelRecordNever ==
    /\ At("labelRecord")
    /\ cycle' = [cycle EXCEPT !.pc = "site", !.updated = FALSE]
    /\ UNCHANGED <<vars, routeVars, offloaderVars>>

\* ... and second; it fails only if neither critical section found anything.
LabelRecord ==
    /\ At("labelRecord")
    /\ \/ \E s \in Slots :
             /\ Found(s)
             /\ recordLabel' = [recordLabel EXCEPT ![s] = Current.route]
             /\ cycle' = [cycle EXCEPT !.pc = "site", !.updated = FALSE,
                                       !.wrote = TRUE]
             /\ UNCHANGED lastEvent
       \/ /\ NothingFound
          /\ IF cycle.updated
             THEN /\ cycle' = [cycle EXCEPT !.pc = "site", !.updated = FALSE]
                  /\ UNCHANGED lastEvent
             ELSE FailWith("failed")
          /\ UNCHANGED recordLabel
    /\ UNCHANGED <<vars, entryRoute, offloader>>

\* Mutant: the loop goes one past the last candidate.
ApplyNextTooFar ==
    cycle' = [cycle EXCEPT !.at = @ + 1, !.wrote = TRUE,
                 !.pc = IF InBatch THEN "applyFind" ELSE "evaluate"]

\* After a success: the next candidate, or the end of the call.
ApplyNext ==
    IF cycle.at < Len(cycle.candidates)
    THEN cycle' = [cycle EXCEPT !.at = @ + 1, !.wrote = TRUE,
                      !.pc = IF InBatch THEN "applyFind" ELSE "evaluate"]
    ELSE ReturnFromCycle

\* Mutant: the event is recorded, the site is not.
SetSiteNever ==
    /\ At("site")
    /\ RecordRoute(Current.task_index, Current.route)
    /\ ApplyNext
    /\ UNCHANGED <<vars, routeVars, offloader>>

\* edge_task_pair_set_exec_site_by_index, and the event of the route
SetSite ==
    /\ At("site")
    /\ IF Current.task_index \in Active
       THEN /\ entryRoute' = [entryRoute EXCEPT ![Current.task_index].exec_site =
                                 Current.route]
            /\ RecordRoute(Current.task_index, Current.route)
            /\ ApplyNext
       ELSE FailWith("failed") /\ UNCHANGED entryRoute
    /\ UNCHANGED <<vars, recordLabel, offloader>>

-----------------------------------------------------------------------------
(* edge_offloader_init and edge_offloader_shutdown.                        *)

Schedulers == {"FP", "RM", "EDF"}

Initialize(ready, mode, policy, scheduler) ==
    /\ offloader' = Configured(ready, mode, policy, scheduler)
    /\ lastEvent' = NoEvent

Shutdown ==
    /\ offloader' = NoOffloader
    /\ lastEvent' = NoEvent

\* Called directly, between two calls of the controller.
InitializeOffloader ==
    /\ At("idle")
    /\ \E ready \in BOOLEAN, mode \in CycleModes, policy \in Policies,
          scheduler \in Schedulers : Initialize(ready, mode, policy, scheduler)
    /\ cycle' = NoCycle
    /\ UNCHANGED <<vars, routeVars>>

ShutdownOffloader ==
    /\ At("idle")
    /\ Shutdown
    /\ cycle' = NoCycle
    /\ UNCHANGED <<vars, routeVars>>

-----------------------------------------------------------------------------
ControlInit ==
    /\ Init
    /\ entryRoute = [i \in Indices |-> NoRoute]
    /\ recordLabel = [s \in Slots |-> "none"]
    /\ offloader = NoOffloader
    /\ lastEvent = NoEvent
    /\ cycle = NoCycle

\* A step of the task manager.  A thread busy with the controller takes none.
ManagerStep(t) ==
    /\ t = Control => cycle.pc = "idle"
    /\ Begin(t) \/ Continue(t)
    /\ RoutesFollow(t)
    /\ UNCHANGED <<offloaderVars, cycle>>

BeginRun == BeginCycle \/ \E i \in Indices : BeginIndex(i)

CycleStep ==
    \/ TakeSnapshot \/ FindRuntime \/ ReadPairId
    \/ EvaluateCandidate \/ RejectPlan \/ MiscountPlan \/ AcceptPlan
    \/ CheckResult \/ CheckPairId
    \/ FindTarget \/ LabelEntry \/ LabelRecord \/ SetSite

ControlNext ==
    \/ \E t \in Threads : ManagerStep(t)
    \/ BeginRun
    \/ CycleStep
    \/ InitializeOffloader
    \/ ShutdownOffloader

ControlSpec == ControlInit /\ [][ControlNext]_controlVars

-----------------------------------------------------------------------------
(* Properties.                                                             *)

ControlTypeOK ==
    /\ entryRoute \in [Indices -> EntryRoute]
    /\ recordLabel \in [Slots -> Labels]
    /\ offloader \in Offloader
    /\ lastEvent \in Event
    /\ cycle \in Cycle
    /\ cycle.pc \in DecisionPcs => cycle.at \in DOMAIN cycle.candidates

\* The controller never leaves a route where there is no pair: a slot that is
\* free has no label and an entry that is inactive no label and no site, so
\* nothing decided for a pair that is gone is there when the next one comes
\* (offloader_apply_result against edge_task_pair_destroy and error_cleanup).
NoRouteWithoutPair ==
    /\ \A s \in Slots \ inUse : recordLabel[s] = "none"
    /\ \A i \in Indices \ Active : entryRoute[i] = NoRoute

\* The record of a pair whose client is not yet known by its index still has
\* the label it was created with, whatever the controller is about to write to
\* that index for an earlier pair.
NewRecordIsUnrouted ==
    \A t \in Threads :
        call[t].pc \in {"queue1", "queue2", "pairId", "find", "spawn"} /\ call[t].seg = "client"
            => recordLabel[call[t].slot] = "own"

CycleReturns == cycle.pc # "idle" /\ cycle'.pc = "idle"

\* A batch cycle whose plan is rejected or found invalid has changed nothing
\* (Offloader.md, "If the policy rejects a plan, the controller leaves runtime
\* state unchanged"), however the pairs change between plan and validation.
RejectedBatchChangesNothing ==
    [][CycleReturns /\ cycle.run = "once" /\ offloader.mode = "batch"
           /\ lastEvent'.type \in {"rejected", "invalid"} => ~cycle.wrote]_controlVars

\* The controller is about to write to index i, or is in the middle of it.
Applying(i) ==
    /\ cycle.pc \in {"labelRecord", "site"}
    /\ Current.task_index = i

\* The host label in the entry of a built pair's client and in its record are
\* the same, and the execution site is that of the label (task_manager.h,
\* "Update the local host label for a monitored task and its runtime record"),
\* whenever the controller is not writing to that index.
RoutesAgree ==
    \A s \in inUse : Settled(s) /\ runtime[s].client_index # NoIndex =>
        LET client == entryRoute[runtime[s].client_index]
        IN  client.client /\ ~Applying(runtime[s].client_index) =>
              /\ client.label = recordLabel[s]
              /\ client.label # "own" => client.exec_site = client.label

\* The last route reported is the route in force, until the pair is gone or
\* the controller writes to the index again (edge_offloader_observability).
ReportedRouteHolds ==
    lastEvent.type = "route" =>
        LET i == lastEvent.task_index
        IN  i \in Active /\ ~Applying(i) =>
              \/ entryRoute[i].label = "own"
              \/ /\ entryRoute[i].label = lastEvent.route
                 /\ entryRoute[i].exec_site = lastEvent.route

\* What the policy in force needs and client i does not have.
Malformed(i) ==
    \/ offloader.policy = "fp" /\ entryRoute[i].demand.WCET = 0
    \/ offloader.policy = "rm" /\ entryRoute[i].demand.period = 0

\* Each built-in policy fails closed on what it reads itself (Offloader.md, "The
\* built-in policies fail closed on malformed snapshots"): fixed priority never
\* moves a client without a WCET, rate monotonic none without a period, although
\* the other would, and the client may have a route of the other's.
StaysUnrouted(i) ==
    /\ entryRoute'[i].label = entryRoute[i].label
    /\ entryRoute'[i].exec_site = entryRoute[i].exec_site

MalformedIsNeverRouted ==
    [][\A i \in Active \cap Active' :
           entryRoute[i].client /\ Malformed(i) => StaysUnrouted(i)]_controlVars
=============================================================================
