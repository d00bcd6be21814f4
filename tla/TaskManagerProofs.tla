-------------------------- MODULE TaskManagerProofs --------------------------
(***************************************************************************)
(* For every number of threads, tasks, queues and slots, and for every set *)
(* of calls: the registry's slots stay partitioned into free and held      *)
(* ones, and the count of monitored tasks stays exact.                     *)
(***************************************************************************)
EXTENDS TaskManager, StoreProofs

\* What the locals c of thread t must be for its next step to make sense: past
\* the reservation or the lookup the slot is a slot, an entry about to be
\* recorded is an entry, a task about to be disowned is a task, and the thread
\* that builds a pair is an application thread, so never that task.
WellShaped(t, c) ==
    /\ c.pc \notin {"idle", "initRegistry"} => c.slot \in Slots
    /\ c.pc \in {"spawn", "record"} => c.idx \in Indices
    /\ c.pc \in {"record", "lose"} => c.task \in TaskHandles
    /\ c.pc \in CreatePcs \cup RollbackPcs => t \in Callers

CallInv ==
    /\ call \in [Threads -> Call]
    /\ \A t \in Threads : WellShaped(t, call[t])

KernelInv ==
    /\ tasks \in [TaskHandles -> Task]
    /\ liveQueues \subseteq QueueHandles
    /\ pointers \in [Callers -> SUBSET Slots]

\* The inductive invariant.
IInv == RegistryInv /\ MonitorInv /\ CallInv /\ KernelInv

-----------------------------------------------------------------------------
(* Calls.                                                                  *)

\* The record left when no call is under way.
LEMMA IdleCallOK ==
  /\ IdleCall \in Call
  /\ Nothing \in Runtime
  /\ \A t : WellShaped(t, IdleCall)
<1>1. Nothing \in Runtime
  BY ZeroRuntimeType DEF Nothing, Runtime, MaybeIndex
<1>2. IdleCall \in Call
  BY <1>1 DEF IdleCall, Call, AllKinds, MaybeIndex, Modes
<1> QED
  BY <1>1, <1>2 DEF IdleCall, WellShaped, CreatePcs, RollbackPcs

\* A step that gives one thread new locals.
LEMMA CallStep ==
  ASSUME CallInv, NEW t \in Threads, NEW c \in Call, WellShaped(t, c),
         call' = [call EXCEPT ![t] = c]
  PROVE  CallInv'
  BY DEF CallInv, WellShaped

\* Every program counter of a call that may be moved on to with the slot kept.
PlainPcs == (CreatePcs \cup RollbackPcs \cup DestroyPcs)
               \ {"spawn", "record", "lose"}

\* A call that moves on with its slot known.
LEMMA GotoStep ==
  ASSUME CallInv, NEW t \in Threads, NEW pc \in PlainPcs,
         call[t].slot \in Slots, Goto(t, pc),
         call[t].pc \in CreatePcs \cup RollbackPcs \/ pc \in DestroyPcs
  PROVE  CallInv'
<1> DEFINE c == [call[t] EXCEPT !.pc = pc]
<1>1. call[t] \in Call
  BY DEF CallInv
<1>2. c \in Call
  BY <1>1 DEF Call, PlainPcs
<1>3. c.pc = pc /\ c.slot = call[t].slot
  BY <1>1 DEF Call
<1>4. WellShaped(t, c)
  BY <1>3 DEF CallInv, WellShaped, PlainPcs, CreatePcs, RollbackPcs, DestroyPcs
<1>5. call' = [call EXCEPT ![t] = c]
  BY DEF Goto
<1> HIDE DEF c
<1> QED
  BY <1>2, <1>4, <1>5, CallStep

\* A call that returns.
LEMMA ReturnStep ==
  ASSUME CallInv, NEW t \in Threads, Return(t)
  PROVE  CallInv'
  BY IdleCallOK, CallStep DEF Return

\* The record a thread inside a call works on is a runtime.
LEMMA BuiltOK ==
  ASSUME IInv, NEW t \in Threads, call[t].pc \notin {"idle", "initRegistry"}
  PROVE  /\ call[t] \in Call
         /\ call[t].slot \in Slots
         /\ Built(t) \in Runtime
         /\ call[t].pc \in CreatePcs \cup RollbackPcs => t \in Callers
  BY DEF IInv, CallInv, WellShaped, RegistryInv, RegistryTypeOK, Built
-----------------------------------------------------------------------------
(* CreateEATaskPinnedToCoreEx.                                             *)

\* The reservation gives the call the slot it works on from then on.
LEMMA ReserveKeeps ==
  ASSUME IInv, NEW t \in Threads, Reserve(t)
  PROVE  IInv'
<1>1. PICK kind \in Kinds, s \in Slots :
         /\ ReserveRuntime(s)
         /\ call' = [call EXCEPT ![t] = [IdleCall EXCEPT !.pc = "init",
                                             !.kind = kind, !.slot = s]]
  BY DEF Reserve
<1> DEFINE c == [IdleCall EXCEPT !.pc = "init", !.kind = kind, !.slot = s]
<1>2. c \in Call /\ WellShaped(t, c)
  <2>1. kind \in AllKinds /\ t \in Callers
    BY ManagerAssumption DEF Reserve, MayCall
  <2> QED
    BY <2>1, <1>1, IdleCallOK, RegistryInvReserve
    DEF IInv, Call, WellShaped, CreatePcs, RollbackPcs
<1>3. CallInv'
  <2> HIDE DEF c
  <2> QED
    BY <1>1, <1>2, CallStep DEF IInv, c
<1>4. RegistryInv'
  BY <1>1, RegistryInvReserve DEF IInv
<1>5. MonitorInv'
  BY MonitorInvFramed DEF IInv, Reserve
<1>6. KernelInv'
  BY DEF IInv, KernelInv, Reserve, kernelVars
<1> QED
  BY <1>3, <1>4, <1>5, <1>6 DEF IInv

\* Storing -1 in both indices.
LEMMA InitRuntimeKeeps ==
  ASSUME IInv, NEW t \in Threads, InitRuntime(t)
  PROVE  IInv'
<1>1. call[t] \in Call /\ call[t].slot \in Slots /\ Built(t) \in Runtime
  BY BuiltOK DEF InitRuntime
<1>2. [Built(t) EXCEPT !.client_index = NoIndex, !.server_index = NoIndex] \in Runtime
  BY <1>1 DEF Runtime, MaybeIndex
<1>3. RegistryInv'
  BY <1>2, RegistryInvWrite DEF IInv, InitRuntime, Store
<1>4. CallInv'
  BY <1>1, GotoStep DEF IInv, InitRuntime, PlainPcs, CreatePcs
<1>5. MonitorInv'
  BY MonitorInvFramed DEF IInv, InitRuntime
<1>6. KernelInv'
  BY DEF IInv, KernelInv, InitRuntime, kernelVars
<1> QED
  BY <1>3, <1>4, <1>5, <1>6 DEF IInv

\* Creating either queue.
LEMMA CreateQueueKeeps ==
  ASSUME IInv, NEW t \in Threads, NEW q \in QueueHandles, CreateQueue(t, q)
  PROVE  IInv'
<1>1. call[t] \in Call /\ call[t].slot \in Slots /\ Built(t) \in Runtime
  BY BuiltOK DEF CreateQueue
<1>2. /\ [Built(t) EXCEPT !.queue_client_server = q] \in Runtime
      /\ [Built(t) EXCEPT !.queue_server_client = q] \in Runtime
  BY <1>1 DEF Runtime
<1>3. RegistryInv'
  BY <1>2, RegistryInvWrite DEF IInv, CreateQueue, Store
<1>4. CallInv'
  BY <1>1, GotoStep DEF IInv, CreateQueue, PlainPcs, CreatePcs
<1>5. MonitorInv'
  BY MonitorInvFramed DEF IInv, CreateQueue
<1>6. KernelInv'
  BY DEF IInv, KernelInv, CreateQueue
<1> QED
  BY <1>3, <1>4, <1>5, <1>6 DEF IInv

\* Taking a pair identifier.
LEMMA AssignPairIdKeeps ==
  ASSUME IInv, NEW t \in Threads, AssignPairId(t)
  PROVE  IInv'
<1>1. call[t].slot \in Slots
  BY BuiltOK DEF AssignPairId
<1>2. RegistryInv'
  BY RegistryInvAssign DEF IInv, AssignPairId
<1>3. CallInv'
  BY <1>1, GotoStep DEF IInv, AssignPairId, PlainPcs, CreatePcs
<1>4. MonitorInv'
  BY MonitorInvFramed DEF IInv, AssignPairId
<1>5. KernelInv'
  BY DEF IInv, KernelInv, AssignPairId, kernelVars
<1> QED
  BY <1>2, <1>3, <1>4, <1>5 DEF IInv

\* A step that cannot be made.
LEMMA CreationStepFailsKeeps ==
  ASSUME IInv, NEW t \in Threads, CreationStepFails(t)
  PROVE  IInv'
<1>1. call[t].pc \in {"queue1", "queue2", "find", "spawn"}
  BY ManagerAssumption DEF CreationStepFails, Exhausted
<1>2. call[t].slot \in Slots
  BY <1>1, BuiltOK
<1>3. CallInv'
  BY <1>1, <1>2, GotoStep
  DEF IInv, CreationStepFails, PlainPcs, CreatePcs, RollbackPcs
<1>4. RegistryInv'
  BY RegistryInvFramed DEF IInv, CreationStepFails
<1>5. MonitorInv'
  BY MonitorInvFramed DEF IInv, CreationStepFails
<1>6. KernelInv'
  BY DEF IInv, KernelInv, CreationStepFails, kernelVars
<1> QED
  BY <1>3, <1>4, <1>5, <1>6 DEF IInv

\* Picking an entry.
LEMMA FindEntryKeeps ==
  ASSUME IInv, NEW t \in Threads, FindEntry(t)
  PROVE  IInv'
<1>1. call[t] \in Call /\ call[t].slot \in Slots /\ t \in Callers
  BY BuiltOK DEF FindEntry, CreatePcs
<1>2. PICK i \in Indices : call' = [call EXCEPT ![t].pc = "spawn", ![t].idx = i]
  BY DEF FindEntry
<1> DEFINE c == [call[t] EXCEPT !.pc = "spawn", !.idx = i]
<1>3. c \in Call /\ WellShaped(t, c)
  BY <1>1 DEF FindEntry, Call, WellShaped, CreatePcs, RollbackPcs, MaybeIndex
<1>4. call' = [call EXCEPT ![t] = c]
  BY <1>1, <1>2 DEF IInv, CallInv, Call
<1>5. CallInv'
  <2> HIDE DEF c
  <2> QED
    BY <1>3, <1>4, CallStep DEF IInv
<1>6. RegistryInv'
  BY RegistryInvFramed DEF IInv, FindEntry
<1>7. MonitorInv'
  BY MonitorInvFramed DEF IInv, FindEntry
<1>8. KernelInv'
  BY DEF IInv, KernelInv, FindEntry, kernelVars
<1> QED
  BY <1>5, <1>6, <1>7, <1>8 DEF IInv

\* Starting the task of a segment.
LEMMA SpawnTaskKeeps ==
  ASSUME IInv, NEW t \in Threads, SpawnTask(t)
  PROVE  IInv'
<1>1. /\ call[t] \in Call /\ call[t].slot \in Slots /\ Built(t) \in Runtime
      /\ call[t].idx \in Indices /\ t \in Callers
  BY BuiltOK DEF SpawnTask, IInv, CallInv, WellShaped, CreatePcs
<1>2. PICK h \in TaskHandles :
        /\ tasks' = [tasks EXCEPT ![h] =
              [alive |-> TRUE, pvParameters |-> call[t].slot,
               queues |-> {Built(t).queue_client_server,
                           Built(t).queue_server_client} \ {NoHandle}]]
        /\ call' = [call EXCEPT ![t].pc = "record", ![t].task = h]
  BY DEF SpawnTask
<1> DEFINE c == [call[t] EXCEPT !.pc = "record", !.task = h]
<1>3. c \in Call /\ WellShaped(t, c)
  BY <1>1 DEF Call, WellShaped, CreatePcs, RollbackPcs
<1>4. call' = [call EXCEPT ![t] = c]
  BY <1>1, <1>2 DEF IInv, CallInv, Call
<1>5. CallInv'
  <2> HIDE DEF c
  <2> QED
    BY <1>3, <1>4, CallStep DEF IInv
<1>6. RegistryInv'
  BY RegistryInvFramed DEF IInv, SpawnTask
<1>7. MonitorInv'
  BY MonitorInvFramed DEF IInv, SpawnTask
<1>8. KernelInv'
  <2>1. {Built(t).queue_client_server, Built(t).queue_server_client} \ {NoHandle}
           \in SUBSET QueueHandles
    BY <1>1 DEF Runtime
  <2> QED
    BY <1>1, <1>2, <2>1 DEF IInv, KernelInv, SpawnTask, Task
<1> QED
  BY <1>5, <1>6, <1>7, <1>8 DEF IInv
\* Recording the task in the entry, or finding the entry taken.
LEMMA RecordTaskKeeps ==
  ASSUME IInv, NEW t \in Threads, RecordTask(t)
  PROVE  IInv'
<1>1. /\ call[t] \in Call /\ call[t].slot \in Slots /\ Built(t) \in Runtime
      /\ call[t].idx \in Indices /\ call[t].task \in TaskHandles /\ t \in Callers
  BY BuiltOK DEF RecordTask, IInv, CallInv, WellShaped, CreatePcs
<1>2. RegistryInv' /\ KernelInv'
  BY RegistryInvFramed DEF IInv, KernelInv, RecordTask, kernelVars
<1>3. CASE call[t].idx \in Active
  <2> DEFINE c == [call[t] EXCEPT !.pc = "lose"]
  <2>1. c \in Call /\ WellShaped(t, c)
    BY <1>1 DEF Call, WellShaped, CreatePcs
  <2>2. call' = [call EXCEPT ![t] = c]
    BY <1>3 DEF RecordTask, Goto
  <2>3. CallInv'
    <3> HIDE DEF c
    <3> QED
      BY <2>1, <2>2, CallStep DEF IInv
  <2>4. MonitorInv'
    BY <1>3, MonitorInvFramed DEF IInv, RecordTask
  <2> QED
    BY <1>2, <2>3, <2>4 DEF IInv
<1>4. CASE call[t].idx \notin Active
  <2>1. RecordMonitor(call[t].idx, Built(t).pair_id, PeerOf(t)) /\ Goto(t, "handle")
    BY <1>4 DEF RecordTask
  <2>2. Built(t).pair_id \in 0..MaxPairId
    BY <1>1 DEF Runtime
  <2>3. PeerOf(t) \in Indices \cup {NoIndex}
    <3>1. /\ Built(t).client_index \in Indices \cup {NoIndex}
          /\ Built(t).server_index \in Indices \cup {NoIndex}
      BY <1>1 DEF Runtime, MaybeIndex
    <3> QED
      BY <3>1 DEF PeerOf
  <2>4. MonitorInv'
    BY <1>1, <1>4, <2>1, <2>2, <2>3, MonitorInvRecord DEF IInv
  <2>5. CallInv'
    BY <1>1, <2>1, GotoStep DEF IInv, RecordTask, PlainPcs, CreatePcs
  <2> QED
    BY <1>2, <2>4, <2>5 DEF IInv
<1> QED
  BY <1>3, <1>4

\* Deleting the task that lost the race for its entry.
LEMMA LoseRaceKeeps ==
  ASSUME IInv, NEW t \in Threads, LoseRace(t)
  PROVE  IInv'
<1> DEFINE h == call[t].task
           c == [call[t] EXCEPT !.pc = "markCleaning", !.task = NoHandle, !.idx = NoIndex]
<1>1. /\ call[t] \in Call /\ call[t].slot \in Slots
      /\ h \in TaskHandles /\ t \in Callers
  BY BuiltOK DEF LoseRace, IInv, CallInv, WellShaped, CreatePcs
<1>2. h # t /\ h \in Threads
  BY <1>1, ManagerAssumption DEF Threads
<1>3. c \in Call /\ WellShaped(t, c)
  BY <1>1 DEF Call, WellShaped, RollbackPcs, CreatePcs, MaybeIndex
<1>4. call' = [[call EXCEPT ![h] = IdleCall] EXCEPT ![t] = c]
  BY <1>1, <1>2 DEF LoseRace, IInv, CallInv
<1> HIDE DEF c, h
<1>5. CallInv'
  BY <1>2, <1>3, <1>4, IdleCallOK DEF IInv, CallInv
<1>6. RegistryInv' /\ MonitorInv'
  BY RegistryInvFramed, MonitorInvFramed DEF IInv, LoseRace
<1>7. DeadTask \in Task
  BY DEF DeadTask, Task
<1>8. KernelInv'
  BY <1>7 DEF IInv, KernelInv, LoseRace
<1> QED
  BY <1>5, <1>6, <1>8 DEF IInv

\* Storing the handle of the segment's task.
LEMMA StoreHandleKeeps ==
  ASSUME IInv, NEW t \in Threads, StoreHandle(t)
  PROVE  IInv'
<1> DEFINE c == [call[t] EXCEPT !.pc = "index", !.task = NoHandle]
<1>1. /\ call[t] \in Call /\ call[t].slot \in Slots /\ Built(t) \in Runtime
      /\ t \in Callers
  BY BuiltOK DEF StoreHandle, CreatePcs
<1>2. /\ [Built(t) EXCEPT !.HandlerClient = call[t].task] \in Runtime
      /\ [Built(t) EXCEPT !.HandlerServer = call[t].task] \in Runtime
  BY <1>1 DEF Call, Runtime
<1>3. RegistryInv'
  BY <1>2, RegistryInvWrite DEF IInv, StoreHandle, Store
<1>4. c \in Call /\ WellShaped(t, c)
  BY <1>1 DEF Call, WellShaped, CreatePcs
<1>5. call' = [call EXCEPT ![t] = c]
  BY <1>1 DEF StoreHandle, IInv, CallInv
<1>6. CallInv'
  <2> HIDE DEF c
  <2> QED
    BY <1>4, <1>5, CallStep DEF IInv
<1>7. MonitorInv' /\ KernelInv'
  BY MonitorInvFramed DEF IInv, KernelInv, StoreHandle, kernelVars
<1> QED
  BY <1>3, <1>6, <1>7 DEF IInv

\* Storing the index of the segment's entry.
LEMMA StoreIndexKeeps ==
  ASSUME IInv, NEW t \in Threads, StoreIndex(t)
  PROVE  IInv'
<1> DEFINE i == IF call[t].seg = "client" THEN call[t].idx ELSE NoIndex
           c == [call[t] EXCEPT !.pc = "link", !.idx = i]
<1>1. /\ call[t] \in Call /\ call[t].slot \in Slots /\ Built(t) \in Runtime
      /\ t \in Callers
  BY BuiltOK DEF StoreIndex, CreatePcs
<1>2. /\ [Built(t) EXCEPT !.client_index = call[t].idx] \in Runtime
      /\ [Built(t) EXCEPT !.server_index = call[t].idx] \in Runtime
      /\ i \in MaybeIndex
  BY <1>1 DEF Call, Runtime, MaybeIndex
<1>3. RegistryInv'
  BY <1>2, RegistryInvWrite DEF IInv, StoreIndex, Store
<1>4. call' = [call EXCEPT ![t] = c]
  BY <1>1 DEF StoreIndex, IInv, CallInv, Call
<1>5. c \in Call /\ WellShaped(t, c)
  <2> HIDE DEF i
  <2> QED
    BY <1>1, <1>2 DEF Call, WellShaped, CreatePcs
<1>6. CallInv'
  <2> HIDE DEF c
  <2> QED
    BY <1>4, <1>5, CallStep DEF IInv
<1>7. MonitorInv' /\ KernelInv'
  BY MonitorInvFramed DEF IInv, KernelInv, StoreIndex, kernelVars
<1> QED
  BY <1>3, <1>6, <1>7 DEF IInv

\* The creation returns, its pointer kept or not.
LEMMA CompleteStep ==
  ASSUME CallInv, KernelInv, NEW t \in Threads, call[t].slot \in Slots,
         Complete(t), UNCHANGED kernelVars
  PROVE  CallInv' /\ KernelInv'
<1>1. CallInv'
  BY ReturnStep DEF Complete
<1>2. pointers' \in [Callers -> SUBSET Slots]
  BY DEF KernelInv, Complete
<1> QED
  BY <1>1, <1>2 DEF KernelInv, kernelVars

\* Linking the entry of the segment just recorded.
LEMMA LinkEntryKeeps ==
  ASSUME IInv, NEW t \in Threads, LinkEntry(t)
  PROVE  IInv'
<1>1. /\ call[t] \in Call /\ call[t].slot \in Slots /\ Built(t) \in Runtime
      /\ t \in Callers
  BY BuiltOK DEF LinkEntry, CreatePcs
<1>2. /\ Built(t).pair_id \in 0..MaxPairId
      /\ Built(t).server_index \in Indices \cup {NoIndex}
      /\ NoIndex \in Indices \cup {NoIndex}
  BY <1>1 DEF Runtime, MaybeIndex
<1>3. MonitorInv'
  BY <1>2, MonitorInvLink DEF IInv, LinkEntry
<1>4. RegistryInv'
  BY RegistryInvFramed DEF IInv, LinkEntry
<1>5. CASE call[t].seg = "client" /\ call[t].kind # "paired"
  <2>1. Complete(t) /\ UNCHANGED kernelVars
    BY <1>5 DEF LinkEntry
  <2> QED
    BY <1>1, <1>3, <1>4, <2>1, CompleteStep DEF IInv
<1>6. CASE ~(call[t].seg = "client" /\ call[t].kind # "paired")
  <2> DEFINE c == IF call[t].seg = "server"
                  THEN [call[t] EXCEPT !.pc = "linkPeer"]
                  ELSE [call[t] EXCEPT !.pc = "find", !.seg = "server", !.idx = NoIndex]
  <2>1. c \in Call /\ WellShaped(t, c)
    BY <1>1 DEF Call, WellShaped, CreatePcs, MaybeIndex
  <2>2. call' = [call EXCEPT ![t] = c]
    BY <1>1, <1>6 DEF LinkEntry, IInv, CallInv
  <2>3. CallInv'
    <3> HIDE DEF c
    <3> QED
      BY <2>1, <2>2, CallStep DEF IInv
  <2>4. KernelInv'
    BY <1>6 DEF IInv, KernelInv, LinkEntry, kernelVars
  <2> QED
    BY <1>3, <1>4, <2>3, <2>4 DEF IInv
<1> QED
  BY <1>5, <1>6

\* Linking the server's entry once the client's is linked.
LEMMA LinkPeerEntryKeeps ==
  ASSUME IInv, NEW t \in Threads, LinkPeerEntry(t)
  PROVE  IInv'
<1>1. call[t].slot \in Slots /\ Built(t) \in Runtime
  BY BuiltOK DEF LinkPeerEntry
<1>2. /\ Built(t).pair_id \in 0..MaxPairId
      /\ Built(t).client_index \in Indices \cup {NoIndex}
  BY <1>1 DEF Runtime, MaybeIndex
<1>3. MonitorInv'
  BY <1>2, MonitorInvLink DEF IInv, LinkPeerEntry
<1>4. RegistryInv'
  BY RegistryInvFramed DEF IInv, LinkPeerEntry
<1>5. CallInv' /\ KernelInv'
  BY <1>1, CompleteStep DEF IInv, LinkPeerEntry
<1> QED
  BY <1>3, <1>4, <1>5 DEF IInv
-----------------------------------------------------------------------------
(* error_cleanup.                                                          *)

\* Marking the slot, deleting a task or a queue, clearing the entries and
\* releasing the slot.
LEMMA RollbackKeeps ==
  ASSUME IInv, NEW t \in Threads, Rollback(t)
  PROVE  IInv'
<1>1. CASE MarkCleaning(t)
  <2>1. call[t].slot \in Slots
    BY <1>1, BuiltOK DEF MarkCleaning
  <2>2. CallInv'
    BY <1>1, <2>1, GotoStep DEF IInv, MarkCleaning, PlainPcs, RollbackPcs
  <2>3. RegistryInv'
    BY <1>1, RegistryInvMark DEF IInv, MarkCleaning, Lifecycle
  <2>4. MonitorInv' /\ KernelInv'
    BY <1>1, MonitorInvFramed DEF IInv, KernelInv, MarkCleaning, kernelVars
  <2> QED
    BY <2>2, <2>3, <2>4 DEF IInv
<1>2. CASE UndoTask(t)
  <2> DEFINE h == IF call[t].pc = "undoServer" THEN Built(t).HandlerServer
                  ELSE Built(t).HandlerClient
             next == IF call[t].pc = "undoServer" THEN "undoClient" ELSE "undoQueue1"
             c == [call[t] EXCEPT !.pc = next]
  <2>1. /\ call[t] \in Call /\ call[t].slot \in Slots /\ Built(t) \in Runtime
        /\ t \in Callers
    BY <1>2, BuiltOK DEF UndoTask, RollbackPcs
  <2>2. /\ [Built(t) EXCEPT !.HandlerServer = NoHandle] \in Runtime
        /\ [Built(t) EXCEPT !.HandlerClient = NoHandle] \in Runtime
    BY <2>1 DEF Runtime
  <2>3. RegistryInv'
    BY <1>2, <2>2, RegistryInvWrite DEF IInv, UndoTask, Store
  <2>4. c \in Call /\ WellShaped(t, c)
    BY <2>1 DEF Call, WellShaped, RollbackPcs
  <2>5. call' = [x \in Threads |-> IF x = t THEN c
                                   ELSE IF x = h THEN IdleCall ELSE call[x]]
    BY <1>2 DEF UndoTask
  <2>6. tasks' = [x \in TaskHandles |-> IF x = h THEN DeadTask ELSE tasks[x]]
    BY <1>2 DEF UndoTask
  <2> HIDE DEF c, h
  <2>7. CallInv'
    BY <2>4, <2>5, IdleCallOK DEF IInv, CallInv
  <2>8. DeadTask \in Task
    BY DEF DeadTask, Task
  <2>9. KernelInv'
    BY <1>2, <2>6, <2>8 DEF IInv, KernelInv, UndoTask
  <2>10. MonitorInv'
    BY <1>2, MonitorInvFramed DEF IInv, UndoTask
  <2> QED
    BY <2>3, <2>7, <2>9, <2>10 DEF IInv
<1>3. CASE UndoQueue(t)
  <2>1. call[t].slot \in Slots /\ Built(t) \in Runtime
    BY <1>3, BuiltOK DEF UndoQueue
  <2>2. /\ [Built(t) EXCEPT !.queue_client_server = NoHandle] \in Runtime
        /\ [Built(t) EXCEPT !.queue_server_client = NoHandle] \in Runtime
    BY <2>1 DEF Runtime
  <2>3. RegistryInv'
    BY <1>3, <2>2, RegistryInvWrite DEF IInv, UndoQueue, Store
  <2>4. CallInv'
    BY <1>3, <2>1, GotoStep DEF IInv, UndoQueue, PlainPcs, RollbackPcs
  <2>5. MonitorInv' /\ KernelInv'
    BY <1>3, MonitorInvFramed DEF IInv, KernelInv, UndoQueue
  <2> QED
    BY <2>3, <2>4, <2>5 DEF IInv
<1>4. CASE UndoMonitor(t)
  <2>1. call[t].slot \in Slots
    BY <1>4, BuiltOK DEF UndoMonitor
  <2>2. CallInv'
    BY <1>4, <2>1, GotoStep DEF IInv, UndoMonitor, PlainPcs, RollbackPcs
  <2>3. MonitorInv'
    BY <1>4, MonitorInvClear DEF IInv, UndoMonitor
  <2>4. RegistryInv' /\ KernelInv'
    BY <1>4, RegistryInvFramed DEF IInv, KernelInv, UndoMonitor, kernelVars
  <2> QED
    BY <2>2, <2>3, <2>4 DEF IInv
<1>5. CASE UndoSlot(t)
  <2>1. call[t].slot \in Slots
    BY <1>5, BuiltOK DEF UndoSlot
  <2>2. RegistryInv'
    BY <1>5, <2>1, RegistryInvRelease DEF IInv, UndoSlot
  <2>3. CallInv'
    BY <1>5, ReturnStep DEF IInv, UndoSlot
  <2>4. MonitorInv' /\ KernelInv'
    BY <1>5, MonitorInvFramed DEF IInv, KernelInv, UndoSlot, kernelVars
  <2> QED
    BY <2>2, <2>3, <2>4 DEF IInv
<1> QED
  BY <1>1, <1>2, <1>3, <1>4, <1>5 DEF Rollback

-----------------------------------------------------------------------------
(* edge_task_pair_destroy and the other calls.                             *)

\* The critical section of a destroy, on any slot and in either mode.
LEMMA TakeRuntimeKeeps ==
  ASSUME IInv, NEW t \in Threads, NEW s, NEW mode, TakeRuntime(t, s, mode)
  PROVE  RegistryInv' /\ MonitorInv' /\ CallInv' /\ UNCHANGED kernelVars
<1>1. MonitorInv' /\ UNCHANGED kernelVars
  BY MonitorInvFramed DEF IInv, TakeRuntime
<1>2. CASE ~InUseAndOwned(s) \/ runtime[s].lifecycle_state = "CLEANING"
  <2>1. Return(t) /\ UNCHANGED registryVars
    BY <1>2 DEF TakeRuntime
  <2> QED
    BY <1>1, <2>1, ReturnStep, RegistryInvFramed DEF IInv
<1>3. CASE ~(~InUseAndOwned(s) \/ runtime[s].lifecycle_state = "CLEANING")
  <2> DEFINE r == runtime[s]
             full == FullTeardown(s, mode)
             got == IF full THEN [r EXCEPT !.pair_id = 0]
                    ELSE [Nothing EXCEPT !.HandlerClient = r.HandlerClient,
                                         !.client_index = r.client_index]
             c == [IdleCall EXCEPT !.pc = "dropClient", !.slot = s,
                                   !.full = full, !.got = got]
  <2>1. s \in Slots /\ r \in Runtime
    BY <1>3 DEF InUseAndOwned, IInv, RegistryInv, RegistryTypeOK
  <2>2. full \in BOOLEAN
    BY DEF FullTeardown
  <2>3. got \in Runtime
    <3>1. [r EXCEPT !.pair_id = 0] \in Runtime
      BY <2>1, ConfigAssumption DEF Runtime
    <3>2. [Nothing EXCEPT !.HandlerClient = r.HandlerClient,
                          !.client_index = r.client_index] \in Runtime
      BY <2>1, IdleCallOK DEF Runtime
    <3> QED
      BY <3>1, <3>2
  <2>4. call' = [call EXCEPT ![t] = c] /\ IF full THEN TakePair(s) ELSE TakeClient(s)
    BY <1>3 DEF TakeRuntime
  <2>5. c \in Call /\ WellShaped(t, c)
    <3> HIDE DEF r, full, got
    <3>1. /\ c \in Call
          /\ c.pc = "dropClient" /\ c.slot = s
      BY <2>1, <2>2, <2>3, IdleCallOK DEF Call, DestroyPcs
    <3> QED
      BY <2>1, <3>1 DEF WellShaped, CreatePcs, RollbackPcs
  <2>6. CallInv'
    <3> HIDE DEF c
    <3> QED
      BY <2>4, <2>5, CallStep DEF IInv
  <2>7. RegistryInv'
    BY <2>4, RegistryInvTake DEF IInv
  <2> QED
    BY <1>1, <2>6, <2>7
<1> QED
  BY <1>2, <1>3

\* A destroy by pointer, the pointer released long ago or not.
LEMMA DestroyKeeps ==
  ASSUME IInv, NEW t \in Threads, NEW s \in Slots, NEW mode \in Modes,
         Destroy(t, s, mode)
  PROVE  IInv'
<1>1. RegistryInv' /\ MonitorInv' /\ CallInv' /\ UNCHANGED kernelVars
  BY TakeRuntimeKeeps DEF Destroy
<1>2. pointers' \in [Callers -> SUBSET Slots]
  BY DEF Destroy, IInv, KernelInv
<1> QED
  BY <1>1, <1>2 DEF IInv, KernelInv, kernelVars

\* A task that tears down its own pair.
LEMMA DestroySelfKeeps ==
  ASSUME IInv, NEW t \in Threads, NEW mode \in Modes, DestroySelf(t, mode)
  PROVE  IInv'
<1>1. TakeRuntime(t, tasks[t].pvParameters, mode) /\ UNCHANGED pointers
  BY DEF DestroySelf
<1>2. RegistryInv' /\ MonitorInv' /\ CallInv' /\ UNCHANGED kernelVars
  BY <1>1, TakeRuntimeKeeps
<1> QED
  BY <1>1, <1>2 DEF IInv, KernelInv, kernelVars

\* The lookup of a destroy by index.
LEMMA LookupForDestroyKeeps ==
  ASSUME IInv, NEW t \in Threads, NEW i \in Indices, NEW mode \in Modes,
         LookupForDestroy(t, i, mode)
  PROVE  IInv'
<1>1. PICK s \in Slots : call' = [call EXCEPT ![t] =
              [IdleCall EXCEPT !.pc = "take", !.slot = s, !.mode = mode]]
  BY DEF LookupForDestroy
<1> DEFINE c == [IdleCall EXCEPT !.pc = "take", !.slot = s, !.mode = mode]
<1>2. c \in Call /\ WellShaped(t, c)
  BY ZenonT(60), IdleCallOK DEF Call, WellShaped, DestroyPcs, CreatePcs, RollbackPcs
<1>3. CallInv'
  <2>1. call' = [call EXCEPT ![t] = c]
    BY <1>1
  <2> HIDE DEF c
  <2> QED
    BY <1>2, <2>1, CallStep DEF IInv
<1>4. RegistryInv' /\ MonitorInv' /\ KernelInv'
  BY RegistryInvFramed, MonitorInvFramed
  DEF IInv, KernelInv, LookupForDestroy, kernelVars
<1> QED
  BY <1>3, <1>4 DEF IInv
\* Taking the runtime the lookup found, whatever became of it since.
LEMMA DestroyFoundKeeps ==
  ASSUME IInv, NEW t \in Threads, DestroyFound(t)
  PROVE  IInv'
<1>1. RegistryInv' /\ MonitorInv' /\ CallInv' /\ UNCHANGED kernelVars
  BY TakeRuntimeKeeps DEF DestroyFound
<1>2. pointers' \in [Callers -> SUBSET Slots]
  BY DEF DestroyFound, IInv, KernelInv
<1> QED
  BY <1>1, <1>2 DEF IInv, KernelInv, kernelVars

\* Deleting a task taken out of the record.
LEMMA DropTaskKeeps ==
  ASSUME IInv, NEW t \in Threads, DropTask(t)
  PROVE  IInv'
<1> DEFINE client == call[t].pc = "dropClient"
           h == IF client THEN call[t].got.HandlerClient
                ELSE call[t].got.HandlerServer
           next == IF client
                   THEN IF call[t].full THEN "dropServer" ELSE "dropMonitor"
                   ELSE "dropQueue1"
           left == IF h = t THEN h ELSE NoHandle
           got == IF client THEN [call[t].got EXCEPT !.HandlerClient = left]
                  ELSE [call[t].got EXCEPT !.HandlerServer = left]
           c == [call[t] EXCEPT !.pc = next, !.got = got]
<1>1. call[t] \in Call /\ call[t].slot \in Slots
  BY BuiltOK DEF DropTask
<1>2. call[t].got \in Runtime
  BY <1>1 DEF Call
<1>3. left \in TaskHandles \cup {NoHandle}
  BY <1>2 DEF Runtime
<1>4. got \in Runtime
  <2> HIDE DEF left
  <2> QED
    BY <1>2, <1>3 DEF Runtime
<1>5. next \in DestroyPcs
  BY DEF DestroyPcs
<1>6. c \in Call /\ WellShaped(t, c)
  <2> HIDE DEF got, next
  <2>1. c \in Call /\ c.pc = next /\ c.slot = call[t].slot
    BY <1>1, <1>4, <1>5 DEF Call
  <2> QED
    BY <1>1, <1>5, <2>1 DEF WellShaped, DestroyPcs, CreatePcs, RollbackPcs
<1>7. call' = [x \in Threads |-> IF x = t THEN c
                                 ELSE IF x = h THEN IdleCall ELSE call[x]]
  BY <1>1 DEF DropTask, Call
<1>8. /\ tasks' = [x \in TaskHandles |->
                      IF x = h /\ x # t THEN DeadTask ELSE tasks[x]]
      /\ UNCHANGED <<registryVars, monitorVars, liveQueues, pointers>>
  BY DEF DropTask
<1> HIDE DEF c, h
<1>9. CallInv'
  BY <1>6, <1>7, IdleCallOK DEF IInv, CallInv
<1>10. DeadTask \in Task
  BY DEF DeadTask, Task
<1>11. KernelInv'
  BY <1>8, <1>10 DEF IInv, KernelInv
<1>12. RegistryInv' /\ MonitorInv'
  BY <1>8, RegistryInvFramed, MonitorInvFramed DEF IInv
<1> QED
  BY <1>9, <1>11, <1>12 DEF IInv

\* Deleting either queue taken out of the record.
LEMMA DropQueueKeeps ==
  ASSUME IInv, NEW t \in Threads, DropQueue(t)
  PROVE  IInv'
<1> DEFINE c1 == [call[t] EXCEPT !.pc = "dropQueue2",
                     !.got = [call[t].got EXCEPT !.queue_client_server = NoHandle]]
           c2 == [call[t] EXCEPT !.pc = "dropMonitor",
                     !.got = [call[t].got EXCEPT !.queue_server_client = NoHandle]]
<1>1. call[t] \in Call /\ call[t].slot \in Slots /\ call[t].got \in Runtime
  BY BuiltOK DEF DropQueue, Call
<1>2. /\ [call[t].got EXCEPT !.queue_client_server = NoHandle] \in Runtime
      /\ [call[t].got EXCEPT !.queue_server_client = NoHandle] \in Runtime
  BY <1>1 DEF Runtime
<1>3. c1 \in Call /\ c1.pc = "dropQueue2" /\ c1.slot = call[t].slot
  BY <1>1, <1>2 DEF Call, DestroyPcs
<1>4. c2 \in Call /\ c2.pc = "dropMonitor" /\ c2.slot = call[t].slot
  BY <1>1, <1>2 DEF Call, DestroyPcs
<1>5. \/ call' = [call EXCEPT ![t] = c1]
      \/ call' = [call EXCEPT ![t] = c2]
  BY <1>1 DEF DropQueue, IInv, CallInv, Call, Runtime
<1>6. CallInv'
  <2> HIDE DEF c1, c2
  <2>1. WellShaped(t, c1) /\ WellShaped(t, c2)
    BY <1>1, <1>3, <1>4 DEF WellShaped, CreatePcs, RollbackPcs
  <2> QED
    BY <1>3, <1>4, <1>5, <2>1, CallStep DEF IInv
<1>7. RegistryInv' /\ MonitorInv' /\ KernelInv'
  BY RegistryInvFramed, MonitorInvFramed DEF IInv, KernelInv, DropQueue
<1> QED
  BY <1>6, <1>7 DEF IInv

\* Clearing the entries taken out of the record.
LEMMA DropMonitorKeeps ==
  ASSUME IInv, NEW t \in Threads, DropMonitor(t)
  PROVE  IInv'
<1> DEFINE pc == IF call[t].full THEN "retire" ELSE "dropSelf"
           got == [call[t].got EXCEPT !.client_index = NoIndex,
                                      !.server_index = NoIndex]
           c == [call[t] EXCEPT !.pc = pc, !.got = got]
<1>1. call[t] \in Call /\ call[t].slot \in Slots /\ call[t].got \in Runtime
  BY BuiltOK DEF DropMonitor, Call
<1>2. got \in Runtime
  BY <1>1 DEF Runtime, MaybeIndex
<1>3. pc \in {"retire", "dropSelf"}
  OBVIOUS
<1>4. call' = [call EXCEPT ![t] = c]
  BY ZenonT(60), <1>1 DEF DropMonitor, IInv, CallInv, Call, Runtime
<1>5. c \in Call /\ c.pc = pc /\ c.slot = call[t].slot
  <2> HIDE DEF pc, got
  <2> QED
    BY <1>1, <1>2, <1>3 DEF Call, DestroyPcs
<1>6. CallInv'
  <2> HIDE DEF c, pc
  <2>1. WellShaped(t, c)
    BY <1>1, <1>3, <1>5 DEF WellShaped, CreatePcs, RollbackPcs
  <2> QED
    BY <1>4, <1>5, <2>1, CallStep DEF IInv
<1>7. MonitorInv'
  BY MonitorInvClear DEF IInv, DropMonitor
<1>8. RegistryInv' /\ KernelInv'
  BY RegistryInvFramed DEF IInv, KernelInv, DropMonitor, kernelVars
<1> QED
  BY <1>6, <1>7, <1>8 DEF IInv

\* What ends a destroy, and the second critical section of task_manager_init.
LEMMA TeardownKeeps ==
  ASSUME IInv, NEW t \in Threads, Teardown(t)
  PROVE  IInv'
<1>1. CASE Retire(t)
  <2>1. call[t].slot \in Slots
    BY <1>1, BuiltOK DEF Retire
  <2>2. CallInv'
    BY <1>1, <2>1, GotoStep DEF IInv, Retire, PlainPcs, DestroyPcs
  <2>3. RegistryInv'
    BY <1>1, RegistryInvMark DEF IInv, Retire, Lifecycle
  <2>4. MonitorInv' /\ KernelInv'
    BY <1>1, MonitorInvFramed DEF IInv, KernelInv, Retire, kernelVars
  <2> QED
    BY <2>2, <2>3, <2>4 DEF IInv
<1>2. CASE ReleaseSlot(t)
  <2>1. call[t].slot \in Slots
    BY <1>2, BuiltOK DEF ReleaseSlot
  <2>2. CallInv'
    BY <1>2, <2>1, GotoStep DEF IInv, ReleaseSlot, PlainPcs, DestroyPcs
  <2>3. RegistryInv'
    BY <1>2, <2>1, RegistryInvRelease DEF IInv, ReleaseSlot
  <2>4. MonitorInv' /\ KernelInv'
    BY <1>2, MonitorInvFramed DEF IInv, KernelInv, ReleaseSlot, kernelVars
  <2> QED
    BY <2>2, <2>3, <2>4 DEF IInv
<1>3. CASE DropSelf(t)
  <2>1. DeadTask \in Task
    BY DEF DeadTask, Task
  <2>2. KernelInv'
    BY <1>3, <2>1 DEF IInv, KernelInv, DropSelf
  <2>3. CallInv'
    BY <1>3, ReturnStep DEF IInv, DropSelf
  <2>4. RegistryInv' /\ MonitorInv'
    BY <1>3, RegistryInvFramed, MonitorInvFramed DEF IInv, DropSelf
  <2> QED
    BY <2>2, <2>3, <2>4 DEF IInv
<1>4. CASE InitChunks(t)
  <2>1. RegistryInv'
    BY <1>4, RegistryInvClear DEF IInv, InitChunks
  <2>2. CallInv'
    BY <1>4, ReturnStep DEF IInv, InitChunks
  <2>3. MonitorInv' /\ KernelInv'
    BY <1>4, MonitorInvFramed DEF IInv, KernelInv, InitChunks, kernelVars
  <2> QED
    BY <2>1, <2>2, <2>3 DEF IInv
<1> QED
  BY <1>1, <1>2, <1>3, <1>4, DestroyFoundKeeps, DropTaskKeeps, DropQueueKeeps,
     DropMonitorKeeps
  DEF Teardown

\* The first critical section of a restart, whatever the state.
LEMMA ResetStoreKeeps ==
  ASSUME IInv, NEW t \in Threads, ResetStore(t)
  PROVE  IInv'
<1> DEFINE c == [call[t] EXCEPT !.pc = "initRegistry"]
<1>1. call[t] \in Call
  BY DEF IInv, CallInv
<1>2. c \in Call /\ WellShaped(t, c)
  BY <1>1 DEF Call, WellShaped, CreatePcs, RollbackPcs
<1>3. call' = [call EXCEPT ![t] = c]
  BY DEF ResetStore, Goto
<1>4. CallInv'
  <2> HIDE DEF c
  <2> QED
    BY <1>2, <1>3, CallStep DEF IInv
<1>5. MonitorInv'
  BY MonitorInvReset DEF ResetStore
<1>6. RegistryInv'
  <2>1. RegistryTypeOK'
    BY ConfigAssumption DEF ResetStore, IInv, RegistryInv, RegistryTypeOK
  <2> QED
    BY <2>1, PartitionFramed DEF ResetStore, IInv, RegistryInv, PoolUnchanged
<1>7. KernelInv'
  BY DEF IInv, KernelInv, ResetStore, kernelVars
<1> QED
  BY <1>4, <1>5, <1>6, <1>7 DEF IInv

\* Removing an entry, releasing a pointer and the first critical section of
\* task_manager_init: what a caller may do at any time.
LEMMA OtherCallsKeep ==
  ASSUME IInv, NEW t \in Threads,
         \/ \E i \in Indices : RemoveMonitoredTask(t, i)
         \/ \E s \in Slots : ReleasePointer(t, s)
         \/ InitStore(t)
  PROVE  IInv'
<1>1. CASE \E i \in Indices : RemoveMonitoredTask(t, i)
  <2>1. MonitorInv'
    BY <1>1, MonitorInvClear DEF IInv, RemoveMonitoredTask
  <2>2. RegistryInv' /\ CallInv' /\ KernelInv'
    BY <1>1, RegistryInvFramed
    DEF IInv, CallInv, WellShaped, KernelInv, RemoveMonitoredTask, kernelVars
  <2> QED
    BY <2>1, <2>2 DEF IInv
<1>2. CASE \E s \in Slots : ReleasePointer(t, s)
  <2>1. RegistryInv'
    BY <1>2, RegistryInvRelease DEF IInv, ReleasePointer
  <2>2. MonitorInv' /\ CallInv' /\ KernelInv'
    BY <1>2, MonitorInvFramed
    DEF IInv, CallInv, WellShaped, KernelInv, ReleasePointer, kernelVars
  <2> QED
    BY <2>1, <2>2 DEF IInv
<1>3. CASE InitStore(t)
  BY <1>3, ResetStoreKeeps DEF InitStore
<1> QED
  BY <1>1, <1>2, <1>3

-----------------------------------------------------------------------------
(* The theorems of the specification.                                      *)

\* The state the firmware boots in.
LEMMA InitEstablishes == Init => IInv
<1>1. SUFFICES ASSUME Init PROVE IInv
  OBVIOUS
<1>2. RegistryInv /\ MonitorInv
  BY <1>1, RegistryInvInit, MonitorInvInit DEF Init
<1>3. CallInv
  BY <1>1, IdleCallOK DEF Init, CallInv
<1>4. KernelInv
  BY <1>1 DEF Init, KernelInv, DeadTask, Task
<1> QED
  BY <1>2, <1>3, <1>4 DEF IInv

\* No step of any thread, in any order, leaves the invariant.
LEMMA NextKeeps == IInv /\ [Next]_vars => IInv'
<1>1. SUFFICES ASSUME IInv, [Next]_vars PROVE IInv'
  OBVIOUS
<1>2. CASE UNCHANGED vars
  BY <1>1, <1>2, RegistryInvFramed, MonitorInvFramed
  DEF vars, IInv, CallInv, WellShaped, KernelInv, kernelVars
<1>3. ASSUME NEW t \in Threads, Begin(t) PROVE IInv'
  BY <1>1, <1>3, ReserveKeeps, DestroyKeeps, DestroySelfKeeps,
     LookupForDestroyKeeps, OtherCallsKeep
  DEF Begin
<1>4. ASSUME NEW t \in Threads, Create(t) PROVE IInv'
  BY <1>1, <1>4, InitRuntimeKeeps, CreateQueueKeeps, AssignPairIdKeeps,
     CreationStepFailsKeeps, FindEntryKeeps, SpawnTaskKeeps, RecordTaskKeeps,
     LoseRaceKeeps, StoreHandleKeeps, StoreIndexKeeps, LinkEntryKeeps,
     LinkPeerEntryKeeps
  DEF Create
<1>5. ASSUME NEW t \in Threads, Rollback(t) \/ Teardown(t) PROVE IInv'
  BY <1>1, <1>5, RollbackKeeps, TeardownKeeps
<1> QED
  BY <1>1, <1>2, <1>3, <1>4, <1>5 DEF Next, Continue

\* The invariant holds in every reachable state.
THEOREM InvariantHolds == Spec => []IInv
  BY InitEstablishes, NextKeeps, PTL DEF Spec

\* Every variable keeps its type: no interleaving of creations, destroys,
\* removals and restarts stores an index, handle or pair identifier out of
\* range in a record, an entry or the locals of a call.
THEOREM TypesHold == Spec => []TypeOK
<1>1. IInv => TypeOK
  BY DEF IInv, RegistryInv, MonitorInv, CallInv, KernelInv, TypeOK
<1> QED
  BY <1>1, InvariantHolds, PTL

\* reserve_pair_runtime and release_pair_runtime_impl neither lose a slot nor
\* hand one out twice, whichever calls race, fail, repeat or use a released
\* pointer, and for every chunk size and number of chunks.
THEOREM SlotsArePartitioned == Spec => []FreeListPartition
<1>1. IInv => FreeListPartition
  BY DEF IInv, RegistryInv
<1> QED
  BY <1>1, InvariantHolds, PTL

\* numMonitoredTasks counts the active entries exactly, whichever calls race,
\* and for every size of the table; the check that stops the counter at 0 in
\* clear_monitor_slot is never needed.
THEOREM CountIsExact == Spec => []CountMatchesActive
<1>1. IInv => CountMatchesActive
  BY DEF IInv, MonitorInv
<1> QED
  BY <1>1, InvariantHolds, PTL
=============================================================================
