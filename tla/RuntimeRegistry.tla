--------------------------- MODULE RuntimeRegistry ---------------------------
(***************************************************************************)
(* The pool of pair runtimes of core/task_manager.c: chunks of slots taken *)
(* from the heap, a LIFO free list threaded through the slots, the         *)
(* lifecycle mark of each runtime and the pair-identifier counter.  Every  *)
(* action below is one critical section of runtimeRegistryMux, to be       *)
(* conjoined with the step of the calling thread by TaskManager.           *)
(*                                                                         *)
(* A slot <<c, i>> is slots[i] of the c-th chunk allocated.                *)
(***************************************************************************)
EXTENDS EAConfig, Sequences

CONSTANTS ChunkSize,      \* EDGE_TASK_RUNTIME_CHUNK_SIZE
          MaxChunks       \* bound: chunks the heap has room for

ASSUME RegistryAssumption ==
    /\ ChunkSize \in Nat \ {0}
    /\ MaxChunks \in Nat \ {0}

VARIABLES chunks,         \* number of chunks linked from runtimeChunks
          freeList,       \* runtimeFreeList, head first
          inUse,          \* the slots whose in_use flag is set
          runtime,        \* the runtime record in each slot
          nextPairId

registryVars == <<chunks, freeList, inUse, runtime, nextPairId>>

-----------------------------------------------------------------------------
Slots == (1..MaxChunks) \X (1..ChunkSize)
NoSlot == <<0, 0>>
MaybeIndex == Indices \cup {NoIndex}

Lifecycle == {"READY", "CLEANING", "RETIRED"}

Runtime == [lifecycle_state     : Lifecycle,
            client_index        : MaybeIndex,
            server_index        : MaybeIndex,
            HandlerClient       : TaskHandles \cup {NoHandle},
            HandlerServer       : TaskHandles \cup {NoHandle},
            queue_client_server : QueueHandles \cup {NoHandle},
            queue_server_client : QueueHandles \cup {NoHandle},
            pair_id             : 0..MaxPairId]

\* What memset(&slot->runtime, 0, ...) leaves: READY, and both indices 0.
ZeroRuntime == [lifecycle_state     |-> "READY",
                client_index        |-> 0,
                server_index        |-> 0,
                HandlerClient       |-> NoHandle,
                HandlerServer       |-> NoHandle,
                queue_client_server |-> NoHandle,
                queue_server_client |-> NoHandle,
                pair_id             |-> 0]

\* runtime_registry_slot_owned: the slot lies in a chunk still linked.
OwnedSlots == (1..chunks) \X (1..ChunkSize)

InUseAndOwned(s) == s \in OwnedSlots /\ s \in inUse

\* Mutant: a destroy is total only when both halves are asked for.
FullTeardownAsAsked(s, mode) == mode = "PAIR"

\* A destroy that asks for both halves, or finds no server half, is total.
FullTeardown(s, mode) ==
    \/ mode = "PAIR"
    \/ runtime[s].HandlerServer = NoHandle /\ runtime[s].server_index < 0

-----------------------------------------------------------------------------
(* Lookup: newest chunk first, ascending inside it; READY slots only.      *)

ScannedBefore(r, s) == r[1] > s[1] \/ (r[1] = s[1] /\ r[2] < s[2])

Answers(s, i) ==
    /\ InUseAndOwned(s)
    /\ runtime[s].lifecycle_state = "READY"
    /\ i \in {runtime[s].client_index, runtime[s].server_index}

\* runtime_from_task_index_locked(i) returns the runtime in slot s.
FoundByIndex(s, i) ==
    /\ i >= 0
    /\ Answers(s, i)
    /\ \A r \in Slots : Answers(r, i) => ~ScannedBefore(r, s)

-----------------------------------------------------------------------------
(* Critical sections.                                                      *)

\* runtime_registry_expand pushes the new slots one by one, so the last is
\* the head.
NewChunk == [i \in 1..ChunkSize |-> <<chunks + 1, ChunkSize + 1 - i>>]

\* Mutant: the reserved slot is not popped.
ReserveRuntimeWithoutPop(s) ==
    LET grow == freeList = <<>>
        free == IF grow THEN NewChunk ELSE freeList
    IN  /\ grow => chunks < MaxChunks
        /\ s = Head(free)
        /\ freeList' = free
        /\ chunks' = IF grow THEN chunks + 1 ELSE chunks
        /\ inUse' = inUse \cup {s}
        /\ runtime' = [runtime EXCEPT ![s] = ZeroRuntime]
        /\ UNCHANGED nextPairId

\* The expansion fails when the heap has no room for a chunk; then
\* reserve_pair_runtime returns NULL and changes nothing.
ReserveRuntime(s) ==
    LET grow == freeList = <<>>
        free == IF grow THEN NewChunk ELSE freeList
    IN  /\ grow => chunks < MaxChunks
        /\ s = Head(free)
        /\ freeList' = Tail(free)
        /\ chunks' = IF grow THEN chunks + 1 ELSE chunks
        /\ inUse' = inUse \cup {s}
        /\ runtime' = [r \in Slots |->
                          IF r = s \/ (grow /\ r[1] = chunks + 1)
                          THEN ZeroRuntime ELSE runtime[r]]
        /\ UNCHANGED nextPairId

\* Mutant: the in_use test is dropped.
ReleaseRuntimeUnchecked(s) ==
    /\ inUse' = inUse \ {s}
    /\ runtime' = [runtime EXCEPT ![s] = ZeroRuntime]
    /\ freeList' = <<s>> \o freeList
    /\ UNCHANGED <<chunks, nextPairId>>

\* Releasing a slot that is not held, or no longer linked, has no effect.
ReleaseRuntime(s) ==
    IF InUseAndOwned(s)
    THEN /\ inUse' = inUse \ {s}
         /\ runtime' = [runtime EXCEPT ![s] = ZeroRuntime]
         /\ freeList' = <<s>> \o freeList
         /\ UNCHANGED <<chunks, nextPairId>>
    ELSE UNCHANGED registryVars

\* runtime_mark_cleaning and runtime_mark_retired.
MarkRuntime(s, state) ==
    /\ runtime' = IF InUseAndOwned(s)
                  THEN [runtime EXCEPT ![s].lifecycle_state = state]
                  ELSE runtime
    /\ UNCHANGED <<chunks, freeList, inUse, nextPairId>>

\* The critical section of edge_task_pair_destroy, once the slot is known to
\* be held and not CLEANING: what the caller takes out of the record.
TakePair(s) ==
    /\ runtime' = [runtime EXCEPT ![s] =
           [ZeroRuntime EXCEPT !.lifecycle_state = "CLEANING",
                               !.client_index = NoIndex,
                               !.server_index = NoIndex,
                               !.pair_id = runtime[s].pair_id]]
    /\ UNCHANGED <<chunks, freeList, inUse, nextPairId>>

\* Mutant: the index of the client stays in the record.
TakeClientKeepingIndex(s) ==
    /\ runtime' = [runtime EXCEPT ![s].HandlerClient = NoHandle]
    /\ UNCHANGED <<chunks, freeList, inUse, nextPairId>>

TakeClient(s) ==
    /\ runtime' = [runtime EXCEPT ![s].HandlerClient = NoHandle,
                                  ![s].client_index = NoIndex]
    /\ UNCHANGED <<chunks, freeList, inUse, nextPairId>>

\* A store into the record made with no lock held.
WriteRuntime(s, r) ==
    /\ runtime' = [runtime EXCEPT ![s] = r]
    /\ UNCHANGED <<chunks, freeList, inUse, nextPairId>>

\* Mutant: the counter does not wrap.
IncrementedForever(n) == n + 1

\* next_pair_id_locked, and the store of its result: the counter skips 0.
Incremented(n) == IF n = MaxPairId THEN 0 ELSE n + 1

AssignNextPairId(s) ==
    LET after == IF Incremented(nextPairId) = 0 THEN 1
                 ELSE Incremented(nextPairId)
    IN  /\ runtime' = [runtime EXCEPT ![s].pair_id =
                          IF nextPairId = 0 THEN after ELSE nextPairId]
        /\ nextPairId' = IF nextPairId = 0 THEN Incremented(after) ELSE after
        /\ UNCHANGED <<chunks, freeList, inUse>>

\* runtime_registry_clear_locked frees every chunk; the bytes stay.
ClearRegistry ==
    /\ chunks' = 0
    /\ freeList' = <<>>
    /\ inUse' = {}
    /\ UNCHANGED <<runtime, nextPairId>>

InitRegistry ==
    /\ chunks = 0
    /\ freeList = <<>>
    /\ inUse = {}
    /\ runtime = [s \in Slots |-> ZeroRuntime]
    /\ nextPairId = 1

-----------------------------------------------------------------------------
RegistryTypeOK ==
    /\ chunks \in 0..MaxChunks
    /\ freeList \in Seq(Slots)
    /\ inUse \subseteq Slots
    /\ runtime \in [Slots -> Runtime]
    /\ nextPairId \in 1..MaxPairId

FreeSlots == {freeList[k] : k \in 1..Len(freeList)}

\* Every slot of every linked chunk is either held or on the free list, never
\* both, and the free list holds no slot twice: no sequence of reservations,
\* roll-backs, racing or repeated destroys and direct releases loses a slot
\* or gives one to two pairs (reserve_pair_runtime, release_pair_runtime_impl).
FreeListPartition ==
    /\ FreeSlots \cap inUse = {}
    /\ FreeSlots \cup inUse = OwnedSlots
    /\ \A j, k \in 1..Len(freeList) : freeList[j] = freeList[k] => j = k
=============================================================================
