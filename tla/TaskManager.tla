----------------------------- MODULE TaskManager -----------------------------
(***************************************************************************)
(* core/task_manager.c as its concurrent callers see it.  Application      *)
(* threads create pairs and tear them down; the edge tasks they create may *)
(* tear down their own pair.  One action is one critical section, one call *)
(* to the kernel, or one store made with no lock held, so every            *)
(* interleaving the two mutexes allow is explored.                         *)
(***************************************************************************)
EXTENDS RuntimeRegistry, MonitorStore

CONSTANTS Callers,   \* application threads
          Kinds,     \* kinds of pair they create
          Ops,       \* API calls the threads make
          Faults     \* creation steps that may fail with resources to spare

AllKinds == {"local",    \* AppType LOCAL: one task
             "paired",   \* LOCAL_EXECUTION: client and server task
             "remote"}   \* REMOTE_EXECUTION: client task, no server task

AllOps == {"create",          \* CreateEATaskPinnedToCoreEx
           "destroyOwn",      \* edge_task_pair_destroy on a pair of the caller's
           "destroyStale",    \* ... on any pointer, released ones too
           "destroyIndex",    \* edge_task_pair_destroy_by_task_index, any index
           "destroyOwnIndex", \* ... on the index of a pair of the caller's
           "destroySelf",     \* an edge task on its own pair, once it is built
           "remove",          \* remove_monitored_task_by_index
           "release",         \* edge_task_pair_runtime_release
           "init"}            \* task_manager_init

ASSUME ManagerAssumption ==
    /\ Kinds \subseteq AllKinds
    /\ Ops \subseteq AllOps
    /\ Faults \subseteq {"queue1", "queue2", "find", "spawn"}
    /\ Callers \cap (TaskHandles \cup {NoHandle}) = {}

VARIABLES tasks,      \* the kernel's task table
          liveQueues, \* the queues that exist
          call,       \* the call each thread is executing
          pointers    \* the runtime pointers each application thread holds

kernelVars == <<tasks, liveQueues>>
vars == <<registryVars, monitorVars, kernelVars, call, pointers>>

Threads == Callers \cup TaskHandles
Modes == {"CLIENT_ONLY", "PAIR"}

-----------------------------------------------------------------------------
(* The kernel (port/port_rtos_freertos.c): an object is created under a    *)
(* handle not in use, the lowest one, so a freed handle is soon recycled.  *)

Task == [alive : BOOLEAN, pvParameters : Slots \cup {NoSlot}, queues : SUBSET QueueHandles]

DeadTask == [alive |-> FALSE, pvParameters |-> NoSlot, queues |-> {}]

LiveTasks == {h \in TaskHandles : tasks[h].alive}

Allocates(h, all, live) ==
    /\ h \in all \ live
    /\ \A g \in all \ live : h <= g

-----------------------------------------------------------------------------
(* The locals of a call in progress.  In a creation, kind, seg, slot, idx  *)
(* and task are the pair's kind, the segment whose task is being created,  *)
(* edgeRuntime, slotIndex and localTaskHandle.  In a destroy, slot and     *)
(* mode are the arguments, full is full_teardown and got is what the       *)
(* critical section copied out.  A local is reset once it is dead.         *)

CreatePcs == {"init", "queue1", "queue2", "pairId", "find", "spawn", "record",
              "lose", "handle", "index", "link", "linkPeer"}
RollbackPcs == {"markCleaning", "undoServer", "undoClient", "undoQueue1",
                "undoQueue2", "undoMonitor", "undoSlot"}
DestroyPcs == {"take", "dropClient", "dropServer", "dropQueue1", "dropQueue2",
               "dropMonitor", "retire", "release", "dropSelf"}

Call == [pc   : {"idle", "initRegistry"} \cup CreatePcs \cup RollbackPcs \cup DestroyPcs,
         kind : AllKinds,
         seg  : {"client", "server"},
         slot : Slots \cup {NoSlot},
         idx  : MaybeIndex,
         task : TaskHandles \cup {NoHandle},
         mode : Modes,
         full : BOOLEAN,
         got  : Runtime]

\* Nothing copied out of a record.
Nothing == [ZeroRuntime EXCEPT !.client_index = NoIndex, !.server_index = NoIndex]

IdleCall == [pc   |-> "idle",   kind |-> "local",  seg  |-> "client",
             slot |-> NoSlot,   idx  |-> NoIndex,  task |-> NoHandle,
             mode |-> "PAIR",   full |-> FALSE,    got  |-> Nothing]

Idle(t) == call[t].pc = "idle"

MayCall(t, op) ==
    /\ Idle(t)
    /\ op \in Ops
    /\ t \in Callers

Goto(t, pc) == call' = [call EXCEPT ![t].pc = pc]
Return(t) == call' = [call EXCEPT ![t] = IdleCall]

\* The record thread t is building, and a store into it.
Built(t) == runtime[call[t].slot]
Store(t, r) == WriteRuntime(call[t].slot, r)

-----------------------------------------------------------------------------
(* CreateEATaskPinnedToCoreEx                                              *)

Reserve(t) ==
    /\ MayCall(t, "create")
    /\ \E kind \in Kinds, s \in Slots :
          /\ ReserveRuntime(s)
          /\ call' = [call EXCEPT ![t] = [IdleCall EXCEPT !.pc = "init",
                                              !.kind = kind, !.slot = s]]
    /\ UNCHANGED <<monitorVars, kernelVars, pointers>>

\* Mutant: the indices are left 0.
InitRuntimeZero(t) ==
    /\ call[t].pc = "init"
    /\ Goto(t, "queue1")
    /\ UNCHANGED <<registryVars, monitorVars, kernelVars, pointers>>

InitRuntime(t) ==
    /\ call[t].pc = "init"
    /\ Store(t, [Built(t) EXCEPT !.client_index = NoIndex,
                                 !.server_index = NoIndex])
    /\ Goto(t, "queue1")
    /\ UNCHANGED <<monitorVars, kernelVars, pointers>>

CreateQueue(t, q) ==
    /\ Allocates(q, QueueHandles, liveQueues)
    /\ liveQueues' = liveQueues \cup {q}
    /\ \/ /\ call[t].pc = "queue1"
          /\ Store(t, [Built(t) EXCEPT !.queue_client_server = q])
          /\ Goto(t, "queue2")
       \/ /\ call[t].pc = "queue2"
          /\ Store(t, [Built(t) EXCEPT !.queue_server_client = q])
          /\ Goto(t, "pairId")
    /\ UNCHANGED <<monitorVars, tasks, pointers>>

AssignPairId(t) ==
    /\ call[t].pc = "pairId"
    /\ AssignNextPairId(call[t].slot)
    /\ Goto(t, "find")
    /\ UNCHANGED <<monitorVars, kernelVars, pointers>>

\* The kernel or the monitor store has nothing left for the step.
Exhausted(pc) ==
    \/ pc \in {"queue1", "queue2"} /\ QueueHandles \subseteq liveQueues
    \/ pc = "find" /\ Indices \subseteq Active
    \/ pc = "spawn" /\ TaskHandles \subseteq LiveTasks

\* A queue, an entry or a task that cannot be had, or the test hook, sends the
\* creation to error_cleanup.
CreationStepFails(t) ==
    /\ call[t].pc \in Faults \/ Exhausted(call[t].pc)
    /\ Goto(t, "markCleaning")
    /\ UNCHANGED <<registryVars, monitorVars, kernelVars, pointers>>

\* _CreateTaskPinnedToCore_: pick an entry, create the task with no lock held,
\* then take the lock again and see whether the entry is still free.
FindEntry(t) ==
    /\ call[t].pc = "find"
    /\ \E i \in Indices :
          /\ FirstInactive(i)
          /\ call' = [call EXCEPT ![t].pc = "spawn", ![t].idx = i]
    /\ UNCHANGED <<registryVars, monitorVars, kernelVars, pointers>>

\* The queues of a task are those its runtime names when it starts.
SpawnTask(t) ==
    /\ call[t].pc = "spawn"
    /\ \E h \in TaskHandles :
          /\ Allocates(h, TaskHandles, LiveTasks)
          /\ tasks' = [tasks EXCEPT ![h] =
                [alive |-> TRUE, pvParameters |-> call[t].slot,
                 queues |-> {Built(t).queue_client_server,
                             Built(t).queue_server_client} \ {NoHandle}]]
          /\ call' = [call EXCEPT ![t].pc = "record", ![t].task = h]
    /\ UNCHANGED <<registryVars, monitorVars, liveQueues, pointers>>

\* peer_index as the call of record_monitor_from_task computes it.
PeerOf(t) ==
    CASE call[t].kind = "local"  -> NoIndex
      [] call[t].seg  = "client" -> Built(t).server_index
      [] OTHER                   -> Built(t).client_index

\* Mutant: the entry is not verified again.
RecordTaskUnverified(t) ==
    /\ call[t].pc = "record"
    /\ RecordMonitor(call[t].idx, Built(t).pair_id, PeerOf(t))
    /\ Goto(t, "handle")
    /\ UNCHANGED <<registryVars, kernelVars, pointers>>

RecordTask(t) ==
    /\ call[t].pc = "record"
    /\ IF call[t].idx \in Active
       THEN /\ Goto(t, "lose")
            /\ UNCHANGED monitorVars
       ELSE /\ RecordMonitor(call[t].idx, Built(t).pair_id, PeerOf(t))
            /\ Goto(t, "handle")
    /\ UNCHANGED <<registryVars, kernelVars, pointers>>

\* Mutant: the loser of the race forgets its task.
LoseRaceKeepingTask(t) ==
    /\ call[t].pc = "lose"
    /\ call' = [call EXCEPT ![t].pc = "markCleaning", ![t].task = NoHandle,
                            ![t].idx = NoIndex]
    /\ UNCHANGED <<registryVars, monitorVars, kernelVars, pointers>>

\* The loser of the race for an entry deletes the task it created.
LoseRace(t) ==
    /\ call[t].pc = "lose"
    /\ tasks' = [tasks EXCEPT ![call[t].task] = DeadTask]
    /\ call' = [call EXCEPT ![call[t].task] = IdleCall,
                            ![t].pc = "markCleaning", ![t].task = NoHandle,
                            ![t].idx = NoIndex]
    /\ UNCHANGED <<registryVars, monitorVars, liveQueues, pointers>>

\* *outTaskHandle = localTaskHandle
StoreHandle(t) ==
    /\ call[t].pc = "handle"
    /\ Store(t, IF call[t].seg = "client"
                THEN [Built(t) EXCEPT !.HandlerClient = call[t].task]
                ELSE [Built(t) EXCEPT !.HandlerServer = call[t].task])
    /\ call' = [call EXCEPT ![t].pc = "index", ![t].task = NoHandle]
    /\ UNCHANGED <<monitorVars, kernelVars, pointers>>

StoreIndex(t) ==
    /\ call[t].pc = "index"
    /\ Store(t, IF call[t].seg = "client"
                THEN [Built(t) EXCEPT !.client_index = call[t].idx]
                ELSE [Built(t) EXCEPT !.server_index = call[t].idx])
    /\ call' = [call EXCEPT ![t].pc = "link",
                            ![t].idx = IF call[t].seg = "client" THEN @ ELSE NoIndex]
    /\ UNCHANGED <<monitorVars, kernelVars, pointers>>

\* The creation returns; a caller that tears its own pairs down keeps track.
Complete(t) ==
    /\ Return(t)
    /\ pointers' = IF Ops \cap {"destroyOwn", "destroyOwnIndex"} = {} THEN pointers
                   ELSE [pointers EXCEPT ![t] = @ \cup {call[t].slot}]

\* After the client task's entry is linked, a paired creation starts over for
\* the server task; the server's linkage is written to both entries.
LinkEntry(t) ==
    /\ call[t].pc = "link"
    /\ IF call[t].seg = "client"
       THEN UpdateLinkage(call[t].idx, Built(t).pair_id,
                IF call[t].kind = "local" THEN NoIndex ELSE Built(t).server_index)
       ELSE UpdateLinkage(Built(t).client_index, Built(t).pair_id,
                          Built(t).server_index)
    /\ IF call[t].seg = "client" /\ call[t].kind # "paired"
       THEN Complete(t)
       ELSE /\ call' = IF call[t].seg = "server"
                       THEN [call EXCEPT ![t].pc = "linkPeer"]
                       ELSE [call EXCEPT ![t].pc = "find", ![t].seg = "server",
                                         ![t].idx = NoIndex]
            /\ UNCHANGED pointers
    /\ UNCHANGED <<registryVars, kernelVars>>

\* Mutant: the server's entry is left unlinked after the client's is linked.
LinkPeerEntryTwice(t) ==
    /\ call[t].pc = "linkPeer"
    /\ UpdateLinkage(Built(t).client_index, Built(t).pair_id,
                     Built(t).client_index)
    /\ Complete(t)
    /\ UNCHANGED <<registryVars, kernelVars>>

LinkPeerEntry(t) ==
    /\ call[t].pc = "linkPeer"
    /\ UpdateLinkage(Built(t).server_index, Built(t).pair_id,
                     Built(t).client_index)
    /\ Complete(t)
    /\ UNCHANGED <<registryVars, kernelVars>>

-----------------------------------------------------------------------------
(* error_cleanup: every handle is read from the record at the time it is   *)
(* deleted, unlike in a destroy.                                           *)

MarkCleaning(t) ==
    /\ call[t].pc = "markCleaning"
    /\ MarkRuntime(call[t].slot, "CLEANING")
    /\ Goto(t, "undoServer")
    /\ UNCHANGED <<monitorVars, kernelVars, pointers>>

\* Mutant: error_cleanup forgets the client task.
UndoServerOnly(t) ==
    /\ call[t].pc \in {"undoServer", "undoClient"}
    /\ Goto(t, IF call[t].pc = "undoServer" THEN "undoClient" ELSE "undoQueue1")
    /\ UNCHANGED <<registryVars, monitorVars, kernelVars, pointers>>

\* Deleting a task ends whatever call it was in the middle of.
UndoTask(t) ==
    LET h == IF call[t].pc = "undoServer" THEN Built(t).HandlerServer
             ELSE Built(t).HandlerClient
        next == IF call[t].pc = "undoServer" THEN "undoClient" ELSE "undoQueue1"
    IN  /\ call[t].pc \in {"undoServer", "undoClient"}
        /\ tasks' = [x \in TaskHandles |-> IF x = h THEN DeadTask ELSE tasks[x]]
        /\ call' = [x \in Threads |-> IF x = t THEN [call[t] EXCEPT !.pc = next]
                                      ELSE IF x = h THEN IdleCall ELSE call[x]]
        /\ Store(t, IF call[t].pc = "undoServer"
                    THEN [Built(t) EXCEPT !.HandlerServer = NoHandle]
                    ELSE [Built(t) EXCEPT !.HandlerClient = NoHandle])
        /\ UNCHANGED <<monitorVars, liveQueues, pointers>>

\* Mutant: error_cleanup forgets the reply queue.
UndoOneQueue(t) ==
    /\ \/ /\ call[t].pc = "undoQueue1"
          /\ liveQueues' = liveQueues \ {Built(t).queue_client_server}
          /\ Store(t, [Built(t) EXCEPT !.queue_client_server = NoHandle])
          /\ Goto(t, "undoQueue2")
       \/ /\ call[t].pc = "undoQueue2"
          /\ Goto(t, "undoMonitor")
          /\ UNCHANGED <<registryVars, liveQueues>>
    /\ UNCHANGED <<monitorVars, tasks, pointers>>

UndoQueue(t) ==
    /\ \/ /\ call[t].pc = "undoQueue1"
          /\ liveQueues' = liveQueues \ {Built(t).queue_client_server}
          /\ Store(t, [Built(t) EXCEPT !.queue_client_server = NoHandle])
          /\ Goto(t, "undoQueue2")
       \/ /\ call[t].pc = "undoQueue2"
          /\ liveQueues' = liveQueues \ {Built(t).queue_server_client}
          /\ Store(t, [Built(t) EXCEPT !.queue_server_client = NoHandle])
          /\ Goto(t, "undoMonitor")
    /\ UNCHANGED <<monitorVars, tasks, pointers>>

\* Mutant: error_cleanup clears the server's entry only.
UndoServerMonitor(t) ==
    /\ call[t].pc = "undoMonitor"
    /\ ClearEntries({Built(t).server_index})
    /\ Goto(t, "undoSlot")
    /\ UNCHANGED <<registryVars, kernelVars, pointers>>

UndoMonitor(t) ==
    /\ call[t].pc = "undoMonitor"
    /\ ClearEntries({Built(t).client_index, Built(t).server_index})
    /\ Goto(t, "undoSlot")
    /\ UNCHANGED <<registryVars, kernelVars, pointers>>

UndoSlot(t) ==
    /\ call[t].pc = "undoSlot"
    /\ ReleaseRuntime(call[t].slot)
    /\ Return(t)
    /\ UNCHANGED <<monitorVars, kernelVars, pointers>>

-----------------------------------------------------------------------------
(* edge_task_pair_destroy                                                  *)

\* Mutant: a slot being cleaned is taken again.
TakeRuntimeTwice(t, s, mode) ==
    LET full == FullTeardown(s, mode)
    IN  /\ IF ~InUseAndOwned(s)
           THEN Return(t) /\ UNCHANGED registryVars
           ELSE /\ call' = [call EXCEPT ![t] = [IdleCall EXCEPT
                       !.pc = "dropClient", !.slot = s, !.full = full,
                       !.got = IF full THEN [runtime[s] EXCEPT !.pair_id = 0]
                               ELSE [Nothing EXCEPT
                                        !.HandlerClient = runtime[s].HandlerClient,
                                        !.client_index = runtime[s].client_index]]]
                /\ IF full THEN TakePair(s) ELSE TakeClient(s)
        /\ UNCHANGED <<monitorVars, kernelVars>>

\* The critical section.  A slot not held, or being cleaned, is left alone.
TakeRuntime(t, s, mode) ==
    LET r    == runtime[s]
        full == FullTeardown(s, mode)
    IN  /\ IF ~InUseAndOwned(s) \/ r.lifecycle_state = "CLEANING"
           THEN Return(t) /\ UNCHANGED registryVars
           ELSE /\ call' = [call EXCEPT ![t] = [IdleCall EXCEPT
                       !.pc = "dropClient", !.slot = s, !.full = full,
                       !.got = IF full THEN [r EXCEPT !.pair_id = 0]
                               ELSE [Nothing EXCEPT
                                        !.HandlerClient = r.HandlerClient,
                                        !.client_index = r.client_index]]]
                /\ IF full THEN TakePair(s) ELSE TakeClient(s)
        /\ UNCHANGED <<monitorVars, kernelVars>>

\* An application thread forgets the pointer of a pair it tears down entirely.
Destroy(t, s, mode) ==
    /\ \/ MayCall(t, "destroyOwn") /\ s \in pointers[t]
       \/ MayCall(t, "destroyStale")
    /\ TakeRuntime(t, s, mode)
    /\ pointers' = [pointers EXCEPT ![t] =
                       IF FullTeardown(s, mode) THEN @ \ {s} ELSE @]

\* No creation of the pair is under way: its task was told it may finish.
\* Either task may take the pair down; only the client task retires alone.
DestroySelf(t, mode) ==
    LET s == tasks[t].pvParameters
    IN  /\ "destroySelf" \in Ops
        /\ t \in LiveTasks
        /\ Idle(t)
        /\ \A c \in Callers : call[c].slot = s =>
                                call[c].pc \notin CreatePcs \cup RollbackPcs
        /\ mode = "PAIR" \/ t = runtime[s].HandlerClient
        /\ TakeRuntime(t, s, mode)
        /\ UNCHANGED pointers

\* edge_task_pair_destroy_by_task_index: the lookup and the destroy are two
\* critical sections.  An index that finds nothing ends the call at once.
LookupForDestroy(t, i, mode) ==
    /\ \/ MayCall(t, "destroyIndex")
       \/ MayCall(t, "destroyOwnIndex") /\ \E s \in pointers[t] :
              i \in {runtime[s].client_index, runtime[s].server_index}
    /\ \E s \in Slots :
          /\ FoundByIndex(s, i)
          /\ call' = [call EXCEPT ![t] = [IdleCall EXCEPT !.pc = "take",
                                             !.slot = s, !.mode = mode]]
    /\ UNCHANGED <<registryVars, monitorVars, kernelVars, pointers>>

DestroyFound(t) ==
    /\ call[t].pc = "take"
    /\ TakeRuntime(t, call[t].slot, call[t].mode)
    /\ pointers' = IF t \in Callers /\ FullTeardown(call[t].slot, call[t].mode)
                   THEN [pointers EXCEPT ![t] = @ \ {call[t].slot}] ELSE pointers

\* Mutant: the calling task deletes itself where it deletes the others.
DropTaskSelfToo(t) ==
    LET client == call[t].pc = "dropClient"
        h == IF client THEN call[t].got.HandlerClient
             ELSE call[t].got.HandlerServer
        next == IF client
                THEN IF call[t].full THEN "dropServer" ELSE "dropMonitor"
                ELSE "dropQueue1"
    IN  /\ call[t].pc \in {"dropClient", "dropServer"}
        /\ tasks' = [x \in TaskHandles |-> IF x = h THEN DeadTask ELSE tasks[x]]
        /\ call' = [x \in Threads |->
              IF x = h THEN IdleCall
              ELSE IF x = t
              THEN [call[t] EXCEPT !.pc = next,
                       !.got = IF client
                               THEN [@ EXCEPT !.HandlerClient = NoHandle]
                               ELSE [@ EXCEPT !.HandlerServer = NoHandle]]
              ELSE call[x]]
        /\ UNCHANGED <<registryVars, monitorVars, liveQueues, pointers>>

\* Mutant: a destroy goes from the client task to the queues.
DropClientOnly(t) ==
    LET h == call[t].got.HandlerClient
    IN  /\ call[t].pc = "dropClient"
        /\ tasks' = [x \in TaskHandles |->
                        IF x = h /\ x # t THEN DeadTask ELSE tasks[x]]
        /\ call' = [x \in Threads |->
              IF x = t
              THEN [call[t] EXCEPT
                       !.pc = IF call[t].full THEN "dropQueue1" ELSE "dropMonitor",
                       !.got.HandlerClient = IF h = t THEN h ELSE NoHandle]
              ELSE IF x = h THEN IdleCall ELSE call[x]]
        /\ UNCHANGED <<registryVars, monitorVars, liveQueues, pointers>>

\* The taken handles are deleted outside the lock, the calling task's own
\* handle excepted.
DropTask(t) ==
    LET client == call[t].pc = "dropClient"
        h == IF client THEN call[t].got.HandlerClient
             ELSE call[t].got.HandlerServer
        next == IF client
                THEN IF call[t].full THEN "dropServer" ELSE "dropMonitor"
                ELSE "dropQueue1"
        left == IF h = t THEN h ELSE NoHandle
    IN  /\ call[t].pc \in {"dropClient", "dropServer"}
        /\ tasks' = [x \in TaskHandles |->
                        IF x = h /\ x # t THEN DeadTask ELSE tasks[x]]
        /\ call' = [x \in Threads |->
              IF x = t
              THEN [call[t] EXCEPT !.pc = next,
                       !.got = IF client
                               THEN [@ EXCEPT !.HandlerClient = left]
                               ELSE [@ EXCEPT !.HandlerServer = left]]
              ELSE IF x = h THEN IdleCall ELSE call[x]]
        /\ UNCHANGED <<registryVars, monitorVars, liveQueues, pointers>>

\* Mutant: a destroy forgets the reply queue.
DropOneQueue(t) ==
    /\ \/ /\ call[t].pc = "dropQueue1"
          /\ liveQueues' = liveQueues \ {call[t].got.queue_client_server}
          /\ call' = [call EXCEPT ![t].pc = "dropQueue2",
                                  ![t].got.queue_client_server = NoHandle]
       \/ /\ call[t].pc = "dropQueue2"
          /\ call' = [call EXCEPT ![t].pc = "dropMonitor",
                                  ![t].got.queue_server_client = NoHandle]
          /\ UNCHANGED liveQueues
    /\ UNCHANGED <<registryVars, monitorVars, tasks, pointers>>

DropQueue(t) ==
    /\ \/ /\ call[t].pc = "dropQueue1"
          /\ liveQueues' = liveQueues \ {call[t].got.queue_client_server}
          /\ call' = [call EXCEPT ![t].pc = "dropQueue2",
                                  ![t].got.queue_client_server = NoHandle]
       \/ /\ call[t].pc = "dropQueue2"
          /\ liveQueues' = liveQueues \ {call[t].got.queue_server_client}
          /\ call' = [call EXCEPT ![t].pc = "dropMonitor",
                                  ![t].got.queue_server_client = NoHandle]
    /\ UNCHANGED <<registryVars, monitorVars, tasks, pointers>>

DropMonitor(t) ==
    /\ call[t].pc = "dropMonitor"
    /\ ClearEntries({call[t].got.client_index, call[t].got.server_index})
    /\ call' = [call EXCEPT ![t].pc = IF call[t].full THEN "retire" ELSE "dropSelf",
                            ![t].got.client_index = NoIndex,
                            ![t].got.server_index = NoIndex]
    /\ UNCHANGED <<registryVars, kernelVars, pointers>>

Retire(t) ==
    /\ call[t].pc = "retire"
    /\ MarkRuntime(call[t].slot, "RETIRED")
    /\ Goto(t, "release")
    /\ UNCHANGED <<monitorVars, kernelVars, pointers>>

ReleaseSlot(t) ==
    /\ call[t].pc = "release"
    /\ ReleaseRuntime(call[t].slot)
    /\ Goto(t, "dropSelf")
    /\ UNCHANGED <<monitorVars, kernelVars, pointers>>

\* Mutant: a task that tore down its own pair goes on running.
DropSelfNever(t) ==
    /\ call[t].pc = "dropSelf"
    /\ Return(t)
    /\ UNCHANGED <<registryVars, monitorVars, kernelVars, pointers>>

\* A task that tore down its own pair deletes itself last of all.
DropSelf(t) ==
    /\ call[t].pc = "dropSelf"
    /\ tasks' = [x \in TaskHandles |->
           IF x = t /\ x \in {call[t].got.HandlerClient, call[t].got.HandlerServer}
           THEN DeadTask ELSE tasks[x]]
    /\ Return(t)
    /\ UNCHANGED <<registryVars, monitorVars, liveQueues, pointers>>

-----------------------------------------------------------------------------
(* The other calls that change state.                                      *)

RemoveMonitoredTask(t, i) ==
    /\ MayCall(t, "remove")
    /\ i \in Active
    /\ ClearEntries({i})
    /\ UNCHANGED <<registryVars, kernelVars, call, pointers>>

ReleasePointer(t, s) ==
    /\ MayCall(t, "release")
    /\ ReleaseRuntime(s)
    /\ UNCHANGED <<monitorVars, kernelVars, call, pointers>>

\* task_manager_init: the store under one mutex, then the registry under the
\* other.  Nothing is done about tasks and queues that exist.
ResetStore(t) ==
    /\ ClearStore
    /\ nextPairId' = 1
    /\ Goto(t, "initRegistry")
    /\ UNCHANGED <<chunks, freeList, inUse, runtime, kernelVars, pointers>>

InitStore(t) == MayCall(t, "init") /\ ResetStore(t)

InitChunks(t) ==
    /\ call[t].pc = "initRegistry"
    /\ ClearRegistry
    /\ Return(t)
    /\ UNCHANGED <<monitorVars, kernelVars, pointers>>

-----------------------------------------------------------------------------
Init ==
    /\ InitRegistry
    /\ InitMonitor
    /\ tasks = [h \in TaskHandles |-> DeadTask]
    /\ liveQueues = {}
    /\ call = [t \in Threads |-> IdleCall]
    /\ pointers = [c \in Callers |-> {}]

\* A thread starts a call.
Begin(t) ==
    \/ Reserve(t)
    \/ \E s \in Slots, mode \in Modes : Destroy(t, s, mode)
    \/ \E mode \in Modes : DestroySelf(t, mode)
    \/ \E i \in Indices, mode \in Modes : LookupForDestroy(t, i, mode)
    \/ \E i \in Indices : RemoveMonitoredTask(t, i)
    \/ \E s \in Slots : ReleasePointer(t, s)
    \/ InitStore(t)

\* A thread goes on with its call.
Create(t) ==
    \/ InitRuntime(t) \/ AssignPairId(t) \/ CreationStepFails(t)
    \/ \E q \in QueueHandles : CreateQueue(t, q)
    \/ FindEntry(t) \/ SpawnTask(t) \/ RecordTask(t) \/ LoseRace(t)
    \/ StoreHandle(t) \/ StoreIndex(t) \/ LinkEntry(t) \/ LinkPeerEntry(t)

Rollback(t) ==
    \/ MarkCleaning(t) \/ UndoTask(t) \/ UndoQueue(t)
    \/ UndoMonitor(t) \/ UndoSlot(t)

Teardown(t) ==
    \/ DestroyFound(t) \/ DropTask(t) \/ DropQueue(t) \/ DropMonitor(t)
    \/ Retire(t) \/ ReleaseSlot(t) \/ DropSelf(t) \/ InitChunks(t)

Continue(t) == Create(t) \/ Rollback(t) \/ Teardown(t)

Next == \E t \in Threads : Begin(t) \/ Continue(t)

Spec == Init /\ [][Next]_vars

\* Neither mutex is held across a blocking call and the scheduler is
\* preemptive, so a thread inside a call is run until the call returns.
FairSpec == Spec /\ \A t \in Threads : WF_vars(Continue(t))

-----------------------------------------------------------------------------
(* Properties.                                                             *)

TypeOK ==
    /\ RegistryTypeOK
    /\ MonitorTypeOK
    /\ tasks \in [TaskHandles -> Task]
    /\ liveQueues \subseteq QueueHandles
    /\ call \in [Threads -> Call]
    /\ pointers \in [Callers -> SUBSET Slots]

\* Where an OS task, an OS queue or a monitor entry is held: in the record of
\* a slot in use, or in the locals of a thread inside a call.
TaskHolders(h) ==
    {<<"HandlerClient", s>> : s \in {s \in inUse : runtime[s].HandlerClient = h}}
    \cup {<<"HandlerServer", s>> : s \in {s \in inUse : runtime[s].HandlerServer = h}}
    \cup {<<"task", t>> : t \in {t \in Threads : call[t].task = h}}
    \cup {<<"client", t>> : t \in {t \in Threads : call[t].got.HandlerClient = h}}
    \cup {<<"server", t>> : t \in {t \in Threads : call[t].got.HandlerServer = h}}

QueueHolders(q) ==
    {<<"cs", s>> : s \in {s \in inUse : runtime[s].queue_client_server = q}}
    \cup {<<"sc", s>> : s \in {s \in inUse : runtime[s].queue_server_client = q}}
    \cup {<<"gotcs", t>> : t \in {t \in Threads : call[t].got.queue_client_server = q}}
    \cup {<<"gotsc", t>> : t \in {t \in Threads : call[t].got.queue_server_client = q}}

\* The indices in a record mean nothing before InitRuntime stores -1 and after
\* a roll-back has cleared the entries.
Indexed == {s \in inUse : \A t \in Threads :
               call[t].slot = s => call[t].pc \notin {"init", "undoSlot"}}

EntryHolders(i) ==
    {<<"client_index", s>> : s \in {s \in Indexed : runtime[s].client_index = i}}
    \cup {<<"server_index", s>> : s \in {s \in Indexed : runtime[s].server_index = i}}
    \cup {<<"idx", t>> : t \in {t \in Threads :
              call[t].pc \in {"handle", "index"} /\ call[t].idx = i}}
    \cup {<<"client", t>> : t \in {t \in Threads : call[t].got.client_index = i}}
    \cup {<<"server", t>> : t \in {t \in Threads : call[t].got.server_index = i}}

\* Every task the manager started is held in exactly one place, and a deleted
\* one nowhere: creation, roll-back and destroy neither leak a task nor delete
\* one twice (docs: "deletion must release queues, task handles, monitor
\* entries, and runtime slots without leaking stale state").
TasksHaveOneHolder ==
    \A h \in TaskHandles :
        Cardinality(TaskHolders(h)) = IF h \in LiveTasks THEN 1 ELSE 0

\* The same of the two queues of every pair.
QueuesHaveOneHolder ==
    \A q \in QueueHandles :
        Cardinality(QueueHolders(q)) = IF q \in liveQueues THEN 1 ELSE 0

\* The same of monitor entries: no two pairs share an entry, no active entry
\* is orphaned, and no record names an entry that was cleared, although the
\* entry is chosen and recorded in two separate critical sections.
EntriesHaveOneHolder ==
    \A i \in Indices :
        Cardinality(EntryHolders(i)) = IF i \in Active THEN 1 ELSE 0

\* A task still running application code never finds its queues deleted:
\* error_cleanup and edge_task_pair_destroy delete tasks before queues.
NoTaskOutlivesItsQueues ==
    \A h \in LiveTasks : Idle(h) => tasks[h].queues \subseteq liveQueues

\* t is building, rolling back or tearing down the whole of a pair.
WorksOn(t) ==
    \/ call[t].pc \in CreatePcs \cup RollbackPcs
    \/ call[t].full /\ call[t].pc \in DestroyPcs \ {"dropSelf"}

\* While a thread builds or tears down a pair the slot stays its own: nobody
\* else builds or tears down in it and nobody frees it.
SlotHasOneWorker ==
    \A t \in Threads : WorksOn(t) =>
        /\ call[t].slot \in inUse
        /\ \A u \in Threads : WorksOn(u) /\ call[u].slot = call[t].slot => u = t

\* s holds a pair and no thread is at work on it.
Settled(s) ==
    /\ s \in inUse
    /\ runtime[s].lifecycle_state = "READY"
    /\ \A t \in Threads : call[t].slot # s

\* Once a pair is built, its record and its two monitor entries name each
\* other, whatever was created or torn down meanwhile in other slots.
LinkageAgrees ==
    \A s \in inUse : Settled(s) /\ runtime[s].client_index # NoIndex =>
        LET client == monitor[runtime[s].client_index]
            server == monitor[runtime[s].server_index]
        IN  /\ client.pair_id = runtime[s].pair_id
            /\ client.peer_index = runtime[s].server_index
            /\ runtime[s].server_index # NoIndex =>
                  /\ server.pair_id = runtime[s].pair_id
                  /\ server.peer_index = runtime[s].client_index

\* A thread building a pair keeps its slot until it gives the slot up
\* (test_task_lifecycle.c:807, "stale destroy should be harmless").
BuilderKeepsSlot ==
    \A t \in Threads : call[t].pc \in CreatePcs \cup RollbackPcs =>
        call[t].slot \in inUse

\* A slot marked CLEANING goes back to the free list: the thread that marked
\* it is never stopped half way, not even when it is a task of the pair.
CleanedSlotIsReleased ==
    \A s \in Slots :
        s \in inUse /\ runtime[s].lifecycle_state = "CLEANING" ~> s \notin inUse

-----------------------------------------------------------------------------
(* What a pair is to everybody but the thread at work on it.               *)

\* The record in slot s once it is built and until it is taken.
Shown(s) ==
    IF s \in inUse /\ \A t \in Threads : call[t].slot = s => ~WorksOn(t)
    THEN runtime[s] ELSE Nothing

\* One half of a pair, as far as the kernel and the monitor store have it.
HalfOf(h, i) == [task |-> {h} \cap LiveTasks, entry |-> {i} \cap Active]

PairIn(s) ==
    LET r == Shown(s)
    IN  [client |-> HalfOf(r.HandlerClient, r.client_index),
         server |-> HalfOf(r.HandlerServer, r.server_index),
         queues |-> {r.queue_client_server, r.queue_server_client} \cap liveQueues]

Table == INSTANCE PairTable WITH pairs <- [s \in Slots |-> PairIn(s)]

\* However many critical sections a creation or a destroy takes, and whoever runs
\* between them: once nobody is in the middle of it, a pair is whole and made of
\* nothing another pair has; from then on "client-only cleanup removes the
\* client/local task and its monitor entry" (System_Architecture.md:183) and
\* changes nothing else, and a pair cleanup leaves nothing of it.
KeepsTable == Table!TableSpec
=============================================================================
