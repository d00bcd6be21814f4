----------------------------- MODULE Ownership ------------------------------
(***************************************************************************)
(* Who owns what in core/task_manager.c: the inductive invariant behind    *)
(* the one-holder properties of TaskManager, and the disciplines of the    *)
(* application threads under which it holds.  The code protects single     *)
(* accesses with its two mutexes; that a pair is torn down by one thread   *)
(* at a time is left to its callers.                                       *)
(***************************************************************************)
EXTENDS TaskManager

-----------------------------------------------------------------------------
(* Places.  A task, a queue or a monitor entry is held in one of two       *)
(* fields of the record of a slot or in one of three locals of a thread.   *)

Places == ({"slot"} \X Slots \X (1..2)) \cup ({"thread"} \X Threads \X (1..3))

\* What is held in place p; records and locals are functions to tuples.
Content(records, locals, p) ==
    IF p[1] = "slot" THEN records[p[2]][p[3]] ELSE locals[p[2]][p[3]]

\* Everything alive is held in one place, and nothing else is held.
HeldOnce(records, locals, live, none) ==
    /\ none \notin live
    /\ \A p \in Places : \/ Content(records, locals, p) = none
                         \/ Content(records, locals, p) \in live
    /\ \A p, q \in Places :
          /\ Content(records, locals, p) = Content(records, locals, q)
          /\ Content(records, locals, p) # none
          => p = q
    /\ \A x \in live : \E p \in Places : Content(records, locals, p) = x

\* What a record and the locals of a call hold between them.
Contents(r, c, none) == {r[1], r[2], c[1], c[2], c[3]} \ {none}

\* No two of those places hold the same.
Apart(r, c, none) ==
    /\ r[1] # none => r[1] \notin {r[2], c[1], c[2], c[3]}
    /\ r[2] # none => r[2] \notin {c[1], c[2], c[3]}
    /\ c[1] # none => c[1] \notin {c[2], c[3]}
    /\ c[2] # none => c[2] # c[3]

-----------------------------------------------------------------------------
(* What the records hold.  The two indices of a record count from the time *)
(* they are set to -1 until a roll-back has cleared their entries.         *)

Unindexed(c) == c.pc \in {"init", "undoSlot"}

WithoutIndices(r) == [r EXCEPT !.client_index = NoIndex, !.server_index = NoIndex]

RecordOf(s) ==
    IF s \notin inUse THEN Nothing
    ELSE IF \E t \in Threads : call[t].slot = s /\ Unindexed(call[t])
    THEN WithoutIndices(runtime[s])
    ELSE runtime[s]

Records == [s \in Slots |-> RecordOf(s)]

RecordTasks(r) == <<r.HandlerClient, r.HandlerServer>>
RecordQueues(r) == <<r.queue_client_server, r.queue_server_client>>
RecordEntries(r) == <<r.client_index, r.server_index>>

CallTasks(c) == <<c.task, c.got.HandlerClient, c.got.HandlerServer>>
CallQueues(c) ==
    <<NoHandle, c.got.queue_client_server, c.got.queue_server_client>>
CallEntries(c) ==
    <<IF c.pc \in {"handle", "index"} THEN c.idx ELSE NoIndex,
      c.got.client_index, c.got.server_index>>

TasksHeld ==
    HeldOnce([s \in Slots |-> RecordTasks(Records[s])],
             [t \in Threads |-> CallTasks(call[t])], LiveTasks, NoHandle)

QueuesHeld ==
    HeldOnce([s \in Slots |-> RecordQueues(Records[s])],
             [t \in Threads |-> CallQueues(call[t])], liveQueues, NoHandle)

EntriesHeld ==
    HeldOnce([s \in Slots |-> RecordEntries(Records[s])],
             [t \in Threads |-> CallEntries(call[t])], Active, NoIndex)

-----------------------------------------------------------------------------
(* Where a call stands.                                                    *)

WorkingPcs == CreatePcs \cup RollbackPcs

\* WorksOn, of the locals c.
Works(c) ==
    \/ c.pc \in WorkingPcs
    \/ c.full /\ c.pc \in DestroyPcs \ {"dropSelf"}

\* The call c of thread t relies on its slot: it works on the whole pair, or an
\* application thread takes the client half down.  (A task that takes itself
\* out of its pair relies on nothing but itself.)
Engaged(t, c) ==
    \/ Works(c)
    \/ t \in Callers /\ c.pc \in DestroyPcs \ {"take", "dropSelf"}

SegHandler(r, seg) == IF seg = "client" THEN r.HandlerClient ELSE r.HandlerServer
SegIndex(r, seg) == IF seg = "client" THEN r.client_index ELSE r.server_index

\* The locals of a creation.
CreateShape(c) ==
    /\ c.got = Nothing
    /\ ~c.full
    /\ c.pc \in {"record", "lose", "handle"} \/ c.task = NoHandle
    /\ c.pc \in {"handle", "index"} => c.idx \in Indices
    /\ c.pc \in {"init", "queue1", "queue2", "pairId"} => c.seg = "client"
    /\ c.pc = "linkPeer" => c.seg = "server"

\* The locals of a destroy: what was taken goes in the order of the program
\* counter, the calling task last.
DestroyShape(t, c) ==
    /\ c.task = NoHandle
    /\ c.pc = "take" => c.got = Nothing /\ ~c.full
    /\ t \in TaskHandles =>
          /\ c.pc # "take"
          /\ t \in {c.got.HandlerClient, c.got.HandlerServer}
    /\ ~c.full =>
          /\ c.got.HandlerServer = NoHandle
          /\ c.got.queue_client_server = NoHandle
          /\ c.got.queue_server_client = NoHandle
          /\ c.got.server_index = NoIndex
          /\ c.pc \in {"take", "dropClient", "dropMonitor", "dropSelf"}
    /\ c.pc # "dropClient" => c.got.HandlerClient \in {NoHandle, t}
    /\ c.pc \notin {"dropClient", "dropServer"} => c.got.HandlerServer \in {NoHandle, t}
    /\ c.pc \notin {"dropClient", "dropServer", "dropQueue1"} =>
          c.got.queue_client_server = NoHandle
    /\ c.pc \notin {"dropClient", "dropServer", "dropQueue1", "dropQueue2"} =>
          c.got.queue_server_client = NoHandle
    /\ c.pc \in {"retire", "release", "dropSelf"} =>
          c.got.client_index = NoIndex /\ c.got.server_index = NoIndex

Shape(t, c) ==
    /\ c.pc # "initRegistry"
    /\ c.pc = "idle" => c = IdleCall
    /\ c.pc \in WorkingPcs => CreateShape(c)
    /\ c.pc \in DestroyPcs => DestroyShape(t, c)

\* A record from which everything has been taken.
IsEmpty(r) ==
    /\ r.HandlerClient = NoHandle /\ r.HandlerServer = NoHandle
    /\ r.queue_client_server = NoHandle /\ r.queue_server_client = NoHandle
    /\ r.client_index = NoIndex /\ r.server_index = NoIndex

\* The record while it is filled: what the code has not come to is not there.
CreateRecord(c, r) ==
    /\ r.lifecycle_state = "READY"
    /\ c.seg = "client" => r.HandlerServer = NoHandle /\ r.server_index = NoIndex
    /\ c.pc \notin {"index", "link", "linkPeer"} => SegHandler(r, c.seg) = NoHandle
    /\ c.pc \notin {"link", "linkPeer"} => SegIndex(r, c.seg) = NoIndex
    /\ c.pc \in {"init", "queue1"} => r.queue_client_server = NoHandle
    /\ c.pc \in {"init", "queue1", "queue2"} => r.queue_server_client = NoHandle
    /\ c.pc = "link" /\ c.seg = "client" => c.idx = r.client_index

\* The record while error_cleanup empties it.
RollbackRecord(c, r) ==
    /\ r.lifecycle_state = IF c.pc = "markCleaning" THEN "READY" ELSE "CLEANING"
    /\ c.pc \notin {"markCleaning", "undoServer"} => r.HandlerServer = NoHandle
    /\ c.pc \in {"undoQueue1", "undoQueue2", "undoMonitor", "undoSlot"} =>
          r.HandlerClient = NoHandle
    /\ c.pc \in {"undoQueue2", "undoMonitor", "undoSlot"} =>
          r.queue_client_server = NoHandle
    /\ c.pc \in {"undoMonitor", "undoSlot"} => r.queue_server_client = NoHandle

\* The record r of the slot that the call c works on.
WorkRecord(c, r) ==
    /\ c.pc \in CreatePcs => CreateRecord(c, r)
    /\ c.pc \in RollbackPcs => RollbackRecord(c, r)
    /\ c.pc \in DestroyPcs =>
          /\ IsEmpty(r)
          /\ r.lifecycle_state = IF c.pc = "release" THEN "RETIRED" ELSE "CLEANING"

CallsShaped == \A t \in Threads : Shape(t, call[t])

WorkShaped ==
    \A t \in Threads : Works(call[t]) => WorkRecord(call[t], Records[call[t].slot])

OneEngaged ==
    \A t \in Threads : Engaged(t, call[t]) =>
        /\ call[t].slot \in inUse
        /\ \A u \in Threads :
              Engaged(u, call[u]) /\ call[u].slot = call[t].slot => u = t

\* A slot is marked by the thread that works on it.
MarkedIsWorked ==
    \A s \in Slots : Records[s].lifecycle_state # "READY" =>
        \E t \in Threads : Works(call[t]) /\ call[t].slot = s

-----------------------------------------------------------------------------
(* The tasks and the queues they use.                                      *)

QueuesOf(r) == {r.queue_client_server, r.queue_server_client}

\* In the task table tt, task h was started for slot s and uses none but the
\* queues in record r.
Uses(tt, h, s, r) == tt[h].pvParameters = s /\ tt[h].queues \subseteq QueuesOf(r)

\* A task is held together with its queues, or is at work on itself.
RecordFeeds(tt, s, r) ==
    \A h \in {r.HandlerClient, r.HandlerServer} \ {NoHandle} : Uses(tt, h, s, r)

CallFeeds(tt, t, c, r) ==
    /\ c.task # NoHandle => Uses(tt, c.task, c.slot, r)
    /\ \A h \in {c.got.HandlerClient, c.got.HandlerServer} \ {NoHandle, t} :
          Uses(tt, h, c.slot, IF c.full THEN c.got ELSE r)

TasksFed ==
    /\ \A s \in Slots : RecordFeeds(tasks, s, Records[s])
    /\ \A t \in Threads : call[t].slot \in Slots =>
          CallFeeds(tasks, t, call[t], Records[call[t].slot])

-----------------------------------------------------------------------------
(* The entries of a pair.                                                  *)

\* In the store mm, the client's entry names the pair and the server's entry.
HalfLinked(mm, r) ==
    r.client_index # NoIndex =>
        /\ mm[r.client_index].pair_id = r.pair_id
        /\ mm[r.client_index].peer_index = r.server_index

Linked(mm, r) ==
    /\ HalfLinked(mm, r)
    /\ r.client_index # NoIndex /\ r.server_index # NoIndex =>
          /\ mm[r.server_index].pair_id = r.pair_id
          /\ mm[r.server_index].peer_index = r.client_index

PairsLinked ==
    /\ \A s \in Slots : (\A t \in Threads : Works(call[t]) => call[t].slot # s)
                           => Linked(monitor, Records[s])
    /\ \A t \in Threads : call[t].pc = "linkPeer" =>
          HalfLinked(monitor, Records[call[t].slot])

-----------------------------------------------------------------------------
\* The inductive invariant.
OwnInv ==
    /\ CallsShaped /\ WorkShaped /\ OneEngaged /\ MarkedIsWorked
    /\ TasksHeld /\ QueuesHeld /\ EntriesHeld
    /\ TasksFed /\ PairsLinked

\* No other thread is engaged on slot s.
Alone(t, s) ==
    \A u \in Threads \ {t} : Engaged(u, call[u]) => call[u].slot # s

\* Thread t may take slot s: nobody else is at work on the pair, and a task that
\* takes its own pair is still in the record and takes itself.
MayTake(t, s, mode) ==
    /\ Alone(t, s)
    /\ t \in TaskHandles =>
          \/ t = runtime[s].HandlerClient
          \/ FullTeardown(s, mode) /\ t = runtime[s].HandlerServer

\* Thread t is about to enter the critical section of edge_task_pair_destroy.
AboutToTake(t, s, mode) ==
    \/ MayCall(t, "destroyOwn") /\ s \in pointers[t]
    \/ MayCall(t, "destroyStale")
    \/ /\ "destroySelf" \in Ops
       /\ t \in LiveTasks
       /\ Idle(t)
       /\ s = tasks[t].pvParameters
       /\ \A c \in Callers : call[c].slot = s => call[c].pc \notin WorkingPcs
       /\ mode = "PAIR" \/ t = runtime[s].HandlerClient
    \/ call[t].pc = "take" /\ s = call[t].slot /\ mode = call[t].mode

\* Whoever takes a pair takes it undisturbed.
TakesUndisturbed ==
    \A t \in Threads, s \in Slots, mode \in Modes :
        /\ AboutToTake(t, s, mode)
        /\ InUseAndOwned(s)
        /\ runtime[s].lifecycle_state # "CLEANING"
        => MayTake(t, s, mode)

\* The pairs an application thread holds are complete, and its own.
PointersOwn ==
    \A c \in Callers : \A s \in pointers[c] :
        /\ s \in inUse
        /\ \A d \in Callers \ {c} : s \notin pointers[d]
        /\ \A t \in Threads :
              /\ Works(call[t]) => call[t].slot # s
              /\ Engaged(t, call[t]) /\ call[t].slot = s => t = c

OwnersOnly == Ops \subseteq {"create", "destroyOwn"}
TasksOnly == Ops \subseteq {"create", "destroySelf"}
OneCallerOnly ==
    /\ Ops \subseteq {"create", "destroyOwn", "destroyStale", "destroyIndex",
                      "destroyOwnIndex"}
    /\ \A c, d \in Callers : c = d

CallersKeepApart == OwnersOnly \/ TasksOnly \/ OneCallerOnly

ApartInv ==
    /\ OwnersOnly \/ OneCallerOnly => \A h \in TaskHandles : Idle(h)
    /\ TasksOnly => \A c \in Callers : call[c].pc \notin DestroyPcs
    /\ OwnersOnly => PointersOwn
    /\ OwnersOnly \/ TasksOnly => \A t \in Threads : call[t].pc # "take"
=============================================================================
