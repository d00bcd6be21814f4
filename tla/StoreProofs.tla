----------------------------- MODULE StoreProofs -----------------------------
(***************************************************************************)
(* What each critical section of the registry and of the monitor store     *)
(* preserves, for every size of the pool and of the table.                 *)
(***************************************************************************)
EXTENDS RuntimeRegistry, MonitorStore, FiniteSetTheorems, TLAPS

-----------------------------------------------------------------------------
(* The registry.                                                           *)

\* The runtime memset to zero is a runtime: READY, and both indices 0.
LEMMA ZeroRuntimeType == ZeroRuntime \in Runtime
  BY RegistryAssumption, ConfigAssumption
  DEF ZeroRuntime, Runtime, Lifecycle, MaybeIndex, Indices, NoIndex, NoHandle

\* A reservation hands out a slot of the pool and leaves a well-typed registry.
LEMMA ReserveType ==
  ASSUME RegistryTypeOK, NEW s, ReserveRuntime(s)
  PROVE  RegistryTypeOK' /\ s \in Slots
<1> DEFINE free == IF freeList = <<>> THEN NewChunk ELSE freeList
<1>1. NewChunk # <<>> /\ (chunks < MaxChunks => NewChunk \in Seq(Slots))
  <2>1. /\ NewChunk \in Seq((1..(chunks + 1)) \X (1..ChunkSize))
        /\ Len(NewChunk) = ChunkSize
    BY RegistryAssumption DEF NewChunk, RegistryTypeOK
  <2>2. NewChunk # <<>>
    BY <2>1, RegistryAssumption
  <2>3. chunks < MaxChunks =>
           (1..(chunks + 1)) \X (1..ChunkSize) \subseteq Slots
    BY RegistryAssumption DEF RegistryTypeOK, Slots
  <2> QED
    BY <2>1, <2>2, <2>3
<1>2. free \in Seq(Slots) /\ free # <<>>
  BY <1>1 DEF RegistryTypeOK, ReserveRuntime
<1>3. s = Head(free) /\ freeList' = Tail(free)
  BY DEF ReserveRuntime
<1>4. s \in Slots /\ freeList' \in Seq(Slots)
  BY <1>2, <1>3
<1>5. runtime' \in [Slots -> Runtime]
  BY ZeroRuntimeType DEF RegistryTypeOK, ReserveRuntime
<1>6. chunks' \in 0..MaxChunks
  BY RegistryAssumption DEF RegistryTypeOK, ReserveRuntime
<1> QED
  BY <1>4, <1>5, <1>6 DEF RegistryTypeOK, ReserveRuntime

\* release_pair_runtime_impl leaves a well-typed registry.
LEMMA ReleaseType ==
  ASSUME RegistryTypeOK, NEW s \in Slots, ReleaseRuntime(s)
  PROVE  RegistryTypeOK'
<1>1. CASE InUseAndOwned(s)
  <2>1. freeList' \in Seq(Slots)
    BY <1>1 DEF RegistryTypeOK, ReleaseRuntime
  <2> QED
    BY <1>1, <2>1, ZeroRuntimeType DEF RegistryTypeOK, ReleaseRuntime
<1>2. CASE ~InUseAndOwned(s)
  BY <1>2 DEF RegistryTypeOK, ReleaseRuntime, registryVars
<1> QED
  BY <1>1, <1>2

\* runtime_mark_cleaning and runtime_mark_retired leave a well-typed registry.
LEMMA MarkType ==
  ASSUME RegistryTypeOK, NEW s, NEW state \in Lifecycle, MarkRuntime(s, state)
  PROVE  RegistryTypeOK'
  BY ZenonT(60) DEF RegistryTypeOK, MarkRuntime, Runtime

\* The critical section of edge_task_pair_destroy leaves a well-typed registry.
LEMMA TakeType ==
  ASSUME RegistryTypeOK, NEW s, TakePair(s) \/ TakeClient(s)
  PROVE  RegistryTypeOK'
<1> NoIndex \in MaybeIndex /\ NoHandle \in TaskHandles \cup {NoHandle}
  BY DEF MaybeIndex
<1>1. CASE TakePair(s)
  BY <1>1, ZeroRuntimeType DEF RegistryTypeOK, TakePair, Runtime, Lifecycle, ZeroRuntime
<1>2. CASE TakeClient(s)
  <2>1. CASE s \in Slots
    <3>1. runtime[s] \in Runtime
      BY <2>1 DEF RegistryTypeOK
    <3>2. runtime' = [runtime EXCEPT ![s] =
             [runtime[s] EXCEPT !.HandlerClient = NoHandle, !.client_index = NoIndex]]
      BY <1>2, <2>1 DEF TakeClient, RegistryTypeOK, Runtime
    <3>3. [runtime[s] EXCEPT !.HandlerClient = NoHandle, !.client_index = NoIndex]
             \in Runtime
      BY <3>1 DEF Runtime
    <3> QED
      BY <1>2, <3>2, <3>3 DEF RegistryTypeOK, TakeClient
  <2>2. CASE s \notin Slots
    BY <1>2, <2>2 DEF RegistryTypeOK, TakeClient
  <2> QED
    BY <2>1, <2>2
<1> QED
  BY <1>1, <1>2

\* A store of a runtime made with no lock held leaves a well-typed registry.
LEMMA WriteType ==
  ASSUME RegistryTypeOK, NEW s, NEW r \in Runtime, WriteRuntime(s, r)
  PROVE  RegistryTypeOK'
  BY DEF RegistryTypeOK, WriteRuntime

\* The identifier handed out is never 0: the counter never is.
LEMMA AssignType ==
  ASSUME RegistryTypeOK, NEW s, AssignNextPairId(s)
  PROVE  RegistryTypeOK'
<1>1. nextPairId \in 1..MaxPairId /\ nextPairId \in 0..MaxPairId
  BY DEF RegistryTypeOK
<1>2. nextPairId' \in 1..MaxPairId
  BY <1>1, ConfigAssumption DEF AssignNextPairId, Incremented
<1>3. runtime' = [runtime EXCEPT ![s].pair_id = nextPairId]
  <2>1. nextPairId # 0
    BY <1>1, ConfigAssumption
  <2> QED
    BY <2>1, Zenon DEF AssignNextPairId
<1>4. runtime' \in [Slots -> Runtime]
  <2>1. ASSUME NEW r \in Runtime PROVE [r EXCEPT !.pair_id = nextPairId] \in Runtime
    BY <1>1 DEF Runtime
  <2> QED
    BY <1>3, <2>1 DEF RegistryTypeOK
<1> QED
  BY <1>2, <1>4 DEF RegistryTypeOK, AssignNextPairId

-----------------------------------------------------------------------------
(* The partition of the pool into free and held slots.                     *)

\* Only three critical sections change the pool.
PoolUnchanged == UNCHANGED <<chunks, freeList, inUse>>

\* A step that changes no chunk, free list or in_use flag keeps the partition.
LEMMA PartitionFramed ==
  ASSUME FreeListPartition, PoolUnchanged
  PROVE  FreeListPartition'
  BY DEF FreeListPartition, PoolUnchanged, FreeSlots, OwnedSlots

\* A reservation moves the head of the list, or of a new chunk, to the slots
\* held.
LEMMA ReservePartition ==
  ASSUME RegistryTypeOK, FreeListPartition, NEW s, ReserveRuntime(s)
  PROVE  FreeListPartition'
<1>1. CASE freeList # <<>>
  <2>1. /\ freeList \in Seq(Slots) /\ Len(freeList) \in Nat /\ Len(freeList) > 0
        /\ s = freeList[1]
        /\ freeList' = Tail(freeList)
        /\ inUse' = inUse \cup {s}
        /\ chunks' = chunks
    BY <1>1 DEF RegistryTypeOK, ReserveRuntime
  <2>2. /\ Len(freeList') = Len(freeList) - 1
        /\ \A k \in 1..Len(freeList') : freeList'[k] = freeList[k + 1]
    BY <2>1
  <2>3. FreeSlots' = FreeSlots \ {s}
    <3>1. ASSUME NEW x \in FreeSlots' PROVE x \in FreeSlots \ {s}
      <4>1. PICK k \in 1..Len(freeList') : x = freeList'[k]
        BY <3>1 DEF FreeSlots
      <4>2. k + 1 \in 1..Len(freeList) /\ x = freeList[k + 1] /\ k + 1 # 1
        BY <4>1, <2>1, <2>2
      <4>3. freeList[k + 1] # freeList[1]
        BY <4>2, <2>1 DEF FreeListPartition
      <4> QED
        BY <4>2, <4>3, <2>1 DEF FreeSlots
    <3>2. ASSUME NEW x \in FreeSlots, x # s PROVE x \in FreeSlots'
      <4>1. PICK k \in 1..Len(freeList) : x = freeList[k]
        BY <3>2 DEF FreeSlots
      <4>2. k - 1 \in 1..Len(freeList') /\ freeList'[k - 1] = x
        BY <4>1, <3>2, <2>1, <2>2
      <4> QED
        BY <4>2 DEF FreeSlots
    <3> QED
      BY <3>1, <3>2
  <2>4. s \in FreeSlots
    BY <2>1 DEF FreeSlots
  <2>5. \A j, k \in 1..Len(freeList') : freeList'[j] = freeList'[k] => j = k
    <3>1. SUFFICES ASSUME NEW j \in 1..Len(freeList'), NEW k \in 1..Len(freeList'),
                          freeList'[j] = freeList'[k]
                   PROVE  j = k
      OBVIOUS
    <3>2. j + 1 \in 1..Len(freeList) /\ k + 1 \in 1..Len(freeList)
      BY <2>1, <2>2
    <3>3. freeList[j + 1] = freeList[k + 1]
      BY <3>1, <2>2
    <3>4. j + 1 = k + 1
      BY <3>2, <3>3 DEF FreeListPartition
    <3> QED
      BY <3>4
  <2>6. OwnedSlots' = OwnedSlots
    BY <2>1 DEF OwnedSlots
  <2> QED
    BY <2>1, <2>3, <2>4, <2>5, <2>6 DEF FreeListPartition
<1>2. CASE freeList = <<>>
  <2>1. /\ s = Head(NewChunk)
        /\ freeList' = Tail(NewChunk)
        /\ inUse' = inUse \cup {s}
        /\ chunks' = chunks + 1
        /\ chunks \in Nat
    BY <1>2, RegistryAssumption DEF RegistryTypeOK, ReserveRuntime
  <2>2. FreeSlots = {} /\ inUse = OwnedSlots
    BY <1>2 DEF FreeListPartition, FreeSlots
  <2>3. /\ NewChunk \in Seq((1..(chunks + 1)) \X (1..ChunkSize))
        /\ Len(NewChunk) = ChunkSize
        /\ \A k \in 1..ChunkSize : NewChunk[k] = <<chunks + 1, ChunkSize + 1 - k>>
    BY <2>1, RegistryAssumption DEF NewChunk
  <2>4. /\ s = <<chunks + 1, ChunkSize>>
        /\ Len(freeList') = ChunkSize - 1
        /\ \A k \in 1..(ChunkSize - 1) :
              freeList'[k] = <<chunks + 1, ChunkSize - k>>
    <3>1. NewChunk # <<>> /\ Len(NewChunk) \in Nat
      BY <2>3, RegistryAssumption
    <3>2. /\ Head(NewChunk) = NewChunk[1]
          /\ Len(Tail(NewChunk)) = ChunkSize - 1
          /\ \A k \in 1..(ChunkSize - 1) : Tail(NewChunk)[k] = NewChunk[k + 1]
      BY <2>3, <3>1, RegistryAssumption
    <3>3. NewChunk[1] = <<chunks + 1, ChunkSize>>
      <4>1. 1 \in 1..ChunkSize /\ ChunkSize + 1 - 1 = ChunkSize
        BY RegistryAssumption
      <4> QED
        BY <4>1, <2>3
    <3>4. ASSUME NEW k \in 1..(ChunkSize - 1)
          PROVE  NewChunk[k + 1] = <<chunks + 1, ChunkSize - k>>
      <4>1. k + 1 \in 1..ChunkSize /\ ChunkSize + 1 - (k + 1) = ChunkSize - k
        BY RegistryAssumption
      <4> QED
        BY <4>1, <2>3
    <3> QED
      BY <2>1, <3>2, <3>3, <3>4
  <2>5. FreeSlots' = {chunks + 1} \X (1..(ChunkSize - 1))
    <3>1. ASSUME NEW x \in FreeSlots' PROVE x \in {chunks + 1} \X (1..(ChunkSize - 1))
      BY <3>1, <2>4, RegistryAssumption DEF FreeSlots
    <3>2. ASSUME NEW i \in 1..(ChunkSize - 1) PROVE <<chunks + 1, i>> \in FreeSlots'
      <4>1. ChunkSize - i \in 1..(ChunkSize - 1) /\ ChunkSize - (ChunkSize - i) = i
        BY RegistryAssumption
      <4> QED
        BY <4>1, <2>4 DEF FreeSlots
    <3> QED
      BY <3>1, <3>2
  <2>6. OwnedSlots' = OwnedSlots \cup ({chunks + 1} \X (1..ChunkSize))
    BY <2>1 DEF OwnedSlots
  <2>7. 1..ChunkSize = (1..(ChunkSize - 1)) \cup {ChunkSize}
    BY RegistryAssumption
  <2>8. \A j, k \in 1..Len(freeList') : freeList'[j] = freeList'[k] => j = k
    BY <2>4, RegistryAssumption
  <2>9. FreeSlots' \cap inUse' = {}
    BY <2>1, <2>2, <2>4, <2>5, RegistryAssumption DEF OwnedSlots
  <2>10. FreeSlots' \cup inUse' = OwnedSlots'
    BY <2>1, <2>2, <2>4, <2>5, <2>6, <2>7
  <2> QED
    BY <2>8, <2>9, <2>10 DEF FreeListPartition
<1> QED
  BY <1>1, <1>2

\* A release pushes the slot only when it was held, so never twice.
LEMMA ReleasePartition ==
  ASSUME RegistryTypeOK, FreeListPartition, NEW s \in Slots, ReleaseRuntime(s)
  PROVE  FreeListPartition'
<1>1. CASE ~InUseAndOwned(s)
  BY <1>1, PartitionFramed DEF ReleaseRuntime, registryVars, PoolUnchanged
<1>2. CASE InUseAndOwned(s)
  <2>1. /\ freeList \in Seq(Slots)
        /\ freeList' = <<s>> \o freeList
        /\ inUse' = inUse \ {s}
        /\ chunks' = chunks
        /\ s \in inUse
    BY <1>2 DEF ReleaseRuntime, RegistryTypeOK, InUseAndOwned
  <2>2. /\ Len(freeList) \in Nat
        /\ Len(freeList') = Len(freeList) + 1
        /\ freeList'[1] = s
        /\ \A k \in 1..Len(freeList) : freeList'[k + 1] = freeList[k]
    BY <2>1
  <2>3. FreeSlots' = FreeSlots \cup {s}
    <3>1. ASSUME NEW x \in FreeSlots' PROVE x \in FreeSlots \cup {s}
      <4>1. PICK k \in 1..Len(freeList') : x = freeList'[k]
        BY <3>1 DEF FreeSlots
      <4>2. CASE k = 1
        BY <4>1, <4>2, <2>2
      <4>3. CASE k # 1
        <5>1. k - 1 \in 1..Len(freeList) /\ (k - 1) + 1 = k
          BY <4>1, <4>3, <2>2
        <5> QED
          BY <5>1, <4>1, <2>2 DEF FreeSlots
      <4> QED
        BY <4>2, <4>3
    <3>2. ASSUME NEW x \in FreeSlots PROVE x \in FreeSlots'
      <4>1. PICK k \in 1..Len(freeList) : x = freeList[k]
        BY <3>2 DEF FreeSlots
      <4>2. k + 1 \in 1..Len(freeList') /\ freeList'[k + 1] = x
        BY <4>1, <2>2
      <4> QED
        BY <4>2 DEF FreeSlots
    <3>3. s \in FreeSlots'
      BY <2>2 DEF FreeSlots
    <3> QED
      BY <3>1, <3>2, <3>3
  <2>4. s \notin FreeSlots
    BY <2>1 DEF FreeListPartition
  <2>5. \A j, k \in 1..Len(freeList') : freeList'[j] = freeList'[k] => j = k
    <3>1. SUFFICES ASSUME NEW j \in 1..Len(freeList'), NEW k \in 1..Len(freeList'),
                          freeList'[j] = freeList'[k], j # k
                   PROVE  FALSE
      OBVIOUS
    <3>2. ASSUME NEW m \in 1..Len(freeList'), m # 1
          PROVE  /\ m - 1 \in 1..Len(freeList)
                 /\ freeList'[m] = freeList[m - 1]
                 /\ freeList'[m] \in FreeSlots
      <4>1. m - 1 \in 1..Len(freeList) /\ (m - 1) + 1 = m
        BY <3>2, <2>2
      <4> QED
        BY <4>1, <2>2 DEF FreeSlots
    <3>3. CASE j = 1 \/ k = 1
      BY <3>1, <3>2, <3>3, <2>2, <2>4
    <3>4. CASE j # 1 /\ k # 1
      <4>1. freeList[j - 1] = freeList[k - 1] /\ j - 1 # k - 1
        BY <3>1, <3>2, <3>4, <2>2
      <4> QED
        BY <4>1, <3>2, <3>4 DEF FreeListPartition
    <3> QED
      BY <3>3, <3>4
  <2>6. OwnedSlots' = OwnedSlots
    BY <2>1 DEF OwnedSlots
  <2> QED
    BY <2>1, <2>3, <2>4, <2>5, <2>6 DEF FreeListPartition
<1> QED
  BY <1>1, <1>2

\* Freeing every chunk leaves the empty pool, which is partitioned.
LEMMA ClearPartition ==
  ASSUME ClearRegistry
  PROVE  FreeListPartition'
  BY DEF ClearRegistry, FreeListPartition, FreeSlots, OwnedSlots
-----------------------------------------------------------------------------
(* Both together: what every critical section of the registry preserves.   *)

RegistryInv == RegistryTypeOK /\ FreeListPartition

\* The empty pool task_manager.c starts with.
LEMMA RegistryInvInit == InitRegistry => RegistryInv
<1>1. SUFFICES ASSUME InitRegistry PROVE RegistryInv
  OBVIOUS
<1>2. RegistryTypeOK
  BY <1>1, ZeroRuntimeType, RegistryAssumption, ConfigAssumption
  DEF InitRegistry, RegistryTypeOK
<1>3. FreeListPartition
  BY <1>1 DEF InitRegistry, FreeListPartition, FreeSlots, OwnedSlots
<1> QED
  BY <1>2, <1>3 DEF RegistryInv

\* A step that leaves the registry alone.
LEMMA RegistryInvFramed ==
  ASSUME RegistryInv, UNCHANGED registryVars
  PROVE  RegistryInv'
  BY PartitionFramed
  DEF RegistryInv, registryVars, RegistryTypeOK, PoolUnchanged

\* reserve_pair_runtime.
LEMMA RegistryInvReserve ==
  ASSUME RegistryInv, NEW s, ReserveRuntime(s)
  PROVE  RegistryInv' /\ s \in Slots
  BY ReserveType, ReservePartition DEF RegistryInv

\* release_pair_runtime_impl.
LEMMA RegistryInvRelease ==
  ASSUME RegistryInv, NEW s \in Slots, ReleaseRuntime(s)
  PROVE  RegistryInv'
  BY ReleaseType, ReleasePartition DEF RegistryInv

\* runtime_mark_cleaning and runtime_mark_retired.
LEMMA RegistryInvMark ==
  ASSUME RegistryInv, NEW s, NEW state \in Lifecycle, MarkRuntime(s, state)
  PROVE  RegistryInv'
  BY MarkType, PartitionFramed DEF RegistryInv, MarkRuntime, PoolUnchanged

\* The critical section of edge_task_pair_destroy.
LEMMA RegistryInvTake ==
  ASSUME RegistryInv, NEW s, TakePair(s) \/ TakeClient(s)
  PROVE  RegistryInv'
  BY TakeType, PartitionFramed DEF RegistryInv, TakePair, TakeClient, PoolUnchanged

\* A store into the record with no lock held.
LEMMA RegistryInvWrite ==
  ASSUME RegistryInv, NEW s, NEW r \in Runtime, WriteRuntime(s, r)
  PROVE  RegistryInv'
  BY WriteType, PartitionFramed DEF RegistryInv, WriteRuntime, PoolUnchanged

\* next_pair_id_locked.
LEMMA RegistryInvAssign ==
  ASSUME RegistryInv, NEW s, AssignNextPairId(s)
  PROVE  RegistryInv'
  BY AssignType, PartitionFramed DEF RegistryInv, AssignNextPairId, PoolUnchanged

\* runtime_registry_clear_locked, the chunks being freed under live tasks or not.
LEMMA RegistryInvClear ==
  ASSUME RegistryInv, ClearRegistry
  PROVE  RegistryInv'
<1>1. RegistryTypeOK'
  BY RegistryAssumption DEF RegistryInv, RegistryTypeOK, ClearRegistry
<1> QED
  BY <1>1, ClearPartition DEF RegistryInv

-----------------------------------------------------------------------------
(* The monitor store.                                                      *)

\* The entry clear_monitor_slot leaves is an entry.
LEMMA ZeroEntryType == ZeroEntry \in Entry
  BY ConfigAssumption DEF ZeroEntry, Entry, Indices

\* record_monitor_from_task leaves a well-typed table.
LEMMA RecordMonitorType ==
  ASSUME MonitorTypeOK, NEW i \in Indices, NEW id \in 0..MaxPairId,
         NEW peer \in Indices \cup {NoIndex}, RecordMonitor(i, id, peer)
  PROVE  MonitorTypeOK'
  BY DEF MonitorTypeOK, RecordMonitor, Entry

\* update_monitor_linkage_by_index leaves a well-typed table and the same
\* entries active.
LEMMA UpdateLinkageType ==
  ASSUME MonitorTypeOK, NEW i, NEW id \in 0..MaxPairId,
         NEW peer \in Indices \cup {NoIndex}, UpdateLinkage(i, id, peer)
  PROVE  MonitorTypeOK' /\ Active' = Active
<1>1. CASE i \in Indices
  <2> DEFINE e == [monitor[i] EXCEPT !.pair_id = id, !.peer_index = peer]
  <2>1. monitor[i] \in Entry
    BY <1>1 DEF MonitorTypeOK
  <2>2. e \in Entry /\ e.is_active = monitor[i].is_active
    BY <2>1 DEF Entry
  <2>3. monitor' = [monitor EXCEPT ![i] = e]
    BY <1>1, <2>1 DEF UpdateLinkage, MonitorTypeOK, Entry
  <2> HIDE DEF e
  <2>4. monitor' \in [Indices -> Entry]
    BY <2>2, <2>3 DEF MonitorTypeOK
  <2>5. \A j \in Indices : monitor'[j].is_active = monitor[j].is_active
    BY <2>2, <2>3 DEF MonitorTypeOK
  <2> QED
    BY <2>4, <2>5 DEF MonitorTypeOK, UpdateLinkage, Active
<1>2. CASE i \notin Indices
  BY <1>2 DEF MonitorTypeOK, UpdateLinkage, Active
<1> QED
  BY <1>1, <1>2

\* The set of active entries is finite and the counter can count it.
LEMMA ActiveFinite ==
  /\ IsFiniteSet(Active)
  /\ Cardinality(Active) \in Nat
<1>1. IsFiniteSet(Indices)
  BY FS_Interval, ConfigAssumption DEF Indices
<1>2. Active \in SUBSET Indices
  BY DEF Active
<1>3. IsFiniteSet(Active)
  BY <1>1, <1>2, FS_Subset
<1> QED
  BY <1>3, FS_CardinalityType

\* clear_monitor_slot on any indices leaves a well-typed table.
LEMMA ClearEntriesType ==
  ASSUME MonitorTypeOK, NEW S, ClearEntries(S)
  PROVE  MonitorTypeOK'
<1> DEFINE counted == Cardinality(S \cap Active)
<1>1. counted \in Nat
  BY ActiveFinite, FS_Intersection, FS_CardinalityType
<1>2. numMonitoredTasks' = IF counted <= numMonitoredTasks
                           THEN numMonitoredTasks - counted ELSE 0
  BY DEF ClearEntries
<1> HIDE DEF counted
<1>3. numMonitoredTasks' \in Nat
  BY <1>1, <1>2 DEF MonitorTypeOK
<1>4. monitor' \in [Indices -> Entry]
  BY ZeroEntryType DEF MonitorTypeOK, ClearEntries
<1> QED
  BY <1>3, <1>4 DEF MonitorTypeOK

\* The first critical section of task_manager_init leaves a well-typed table
\* and a count that agrees with it.
LEMMA ClearStoreEmpties ==
  ASSUME ClearStore
  PROVE  MonitorTypeOK' /\ CountMatchesActive'
<1>1. monitor' \in [Indices -> Entry] /\ numMonitoredTasks' = 0
  BY ZeroEntryType DEF ClearStore
<1>2. Active' = {}
  BY DEF ClearStore, ZeroEntry, Active
<1> QED
  BY <1>1, <1>2, FS_EmptySet DEF MonitorTypeOK, CountMatchesActive

-----------------------------------------------------------------------------
(* The counter and the number of active entries.                           *)

\* Recording counts one more entry, provided the entry was verified free.
LEMMA RecordMonitorCounts ==
  ASSUME MonitorTypeOK, CountMatchesActive, NEW i \in Indices \ Active,
         NEW id, NEW peer, RecordMonitor(i, id, peer)
  PROVE  CountMatchesActive'
<1>1. Active' = Active \cup {i}
  BY DEF MonitorTypeOK, RecordMonitor, Active
<1>2. Cardinality(Active \cup {i}) = Cardinality(Active) + 1
  BY ActiveFinite, FS_AddElement
<1> QED
  BY <1>1, <1>2 DEF CountMatchesActive, RecordMonitor

\* Clearing counts off exactly the entries that stop being active: the two
\* indices of a pair may be equal, negative or already cleared by another
\* thread.
LEMMA ClearEntriesCounts ==
  ASSUME MonitorTypeOK, CountMatchesActive, NEW S, ClearEntries(S)
  PROVE  CountMatchesActive'
<1> DEFINE gone == S \cap Active
           kept == Active \ S
<1>1. Active' = kept
  BY DEF MonitorTypeOK, ClearEntries, Active, ZeroEntry
<1>2. /\ IsFiniteSet(gone) /\ IsFiniteSet(kept)
      /\ Cardinality(gone) \in Nat /\ Cardinality(kept) \in Nat
  <2>1. gone \in SUBSET Active /\ kept \in SUBSET Active
    OBVIOUS
  <2> QED
    BY <2>1, ActiveFinite, FS_Subset, FS_CardinalityType
<1>3. Cardinality(Active) = Cardinality(gone) + Cardinality(kept)
  <2>1. Active = gone \cup kept /\ gone \cap kept = {}
    OBVIOUS
  <2> HIDE DEF gone, kept
  <2>2. Cardinality(gone \cup kept)
           = Cardinality(gone) + Cardinality(kept) - Cardinality(gone \cap kept)
    BY <1>2, FS_Union
  <2>3. Cardinality(gone \cap kept) = 0
    BY <2>1, FS_EmptySet
  <2> QED
    BY <1>2, <2>1, <2>2, <2>3
<1>4. numMonitoredTasks' = IF Cardinality(gone) <= numMonitoredTasks
                           THEN numMonitoredTasks - Cardinality(gone) ELSE 0
  BY DEF ClearEntries
<1> HIDE DEF gone, kept
<1>5. numMonitoredTasks = Cardinality(Active)
  BY DEF CountMatchesActive
<1>6. numMonitoredTasks' = Cardinality(kept)
  BY <1>2, <1>3, <1>4, <1>5
<1> QED
  BY <1>1, <1>6 DEF CountMatchesActive

\* A step that leaves the active entries and the counter alone keeps them in
\* agreement.
LEMMA CountFramed ==
  ASSUME CountMatchesActive, Active' = Active, UNCHANGED numMonitoredTasks
  PROVE  CountMatchesActive'
  BY DEF CountMatchesActive

-----------------------------------------------------------------------------
(* Both together: what every critical section of the store preserves.      *)

MonitorInv == MonitorTypeOK /\ CountMatchesActive

\* The zeroed arrays the store starts with.
LEMMA MonitorInvInit == InitMonitor => MonitorInv
<1>1. SUFFICES ASSUME InitMonitor PROVE MonitorInv
  OBVIOUS
<1>2. MonitorTypeOK
  BY <1>1, ZeroEntryType DEF InitMonitor, MonitorTypeOK
<1>3. Active = {} /\ numMonitoredTasks = 0
  BY <1>1 DEF InitMonitor, Active, ZeroEntry
<1> QED
  BY <1>2, <1>3, FS_EmptySet DEF MonitorInv, CountMatchesActive

\* A step that leaves the store alone.
LEMMA MonitorInvFramed ==
  ASSUME MonitorInv, UNCHANGED monitorVars
  PROVE  MonitorInv'
<1>1. Active' = Active /\ UNCHANGED numMonitoredTasks
  BY DEF monitorVars, Active
<1> QED
  BY <1>1, CountFramed DEF MonitorInv, MonitorTypeOK, monitorVars

\* record_monitor_from_task on an entry verified free.
LEMMA MonitorInvRecord ==
  ASSUME MonitorInv, NEW i \in Indices \ Active, NEW id \in 0..MaxPairId,
         NEW peer \in Indices \cup {NoIndex}, RecordMonitor(i, id, peer)
  PROVE  MonitorInv'
  BY RecordMonitorType, RecordMonitorCounts DEF MonitorInv

\* update_monitor_linkage_by_index.
LEMMA MonitorInvLink ==
  ASSUME MonitorInv, NEW i, NEW id \in 0..MaxPairId,
         NEW peer \in Indices \cup {NoIndex}, UpdateLinkage(i, id, peer)
  PROVE  MonitorInv'
<1>1. MonitorTypeOK' /\ Active' = Active
  BY UpdateLinkageType DEF MonitorInv
<1> QED
  BY <1>1, CountFramed DEF MonitorInv, UpdateLinkage

\* clear_monitor_slot on the indices of a pair, or on any others.
LEMMA MonitorInvClear ==
  ASSUME MonitorInv, NEW S, ClearEntries(S)
  PROVE  MonitorInv'
  BY ClearEntriesType, ClearEntriesCounts DEF MonitorInv

\* The first critical section of task_manager_init.
LEMMA MonitorInvReset ==
  ASSUME ClearStore
  PROVE  MonitorInv'
  BY ClearStoreEmpties DEF MonitorInv
==============================================================================
