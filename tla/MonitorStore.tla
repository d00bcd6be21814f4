---------------------------- MODULE MonitorStore ----------------------------
(***************************************************************************)
(* The table of monitored tasks of core/task_manager.c.  The hot and the   *)
(* cold array are always written together under monitoredTasksMux, so one  *)
(* entry stands for both; of its fields the linkage is kept, the metrics   *)
(* are not.  Each action is one critical section of monitoredTasksMux.     *)
(***************************************************************************)
EXTENDS EAConfig, FiniteSets

VARIABLES monitor,             \* monitoredTaskHot and monitoredTaskCold
          numMonitoredTasks

monitorVars == <<monitor, numMonitoredTasks>>

Entry == [is_active  : BOOLEAN,
          pair_id    : 0..MaxPairId,
          peer_index : Indices \cup {NoIndex}]

ZeroEntry == [is_active |-> FALSE, pair_id |-> 0, peer_index |-> 0]

Active == {i \in Indices : monitor[i].is_active}

-----------------------------------------------------------------------------
\* The scan of _CreateTaskPinnedToCore_ for the first inactive entry.
FirstInactive(i) ==
    /\ i \in Indices \ Active
    /\ \A j \in Indices \ Active : i <= j

\* record_monitor_from_task under the re-verified lock.
RecordMonitor(i, pairId, peer) ==
    /\ monitor' = [monitor EXCEPT ![i] = [is_active  |-> TRUE,
                                          pair_id    |-> pairId,
                                          peer_index |-> peer]]
    /\ numMonitoredTasks' = numMonitoredTasks + 1

\* update_monitor_linkage_by_index; a negative index is out of range as size_t.
UpdateLinkage(i, pairId, peer) ==
    /\ monitor' = IF i \in Indices
                  THEN [monitor EXCEPT ![i].pair_id = pairId,
                                       ![i].peer_index = peer]
                  ELSE monitor
    /\ UNCHANGED numMonitoredTasks

\* Mutant: inactive entries are counted off too.
ClearEntriesUnchecked(indices) ==
    LET counted == Cardinality(indices \cap Indices)
    IN  /\ monitor' = [i \in Indices |->
                          IF i \in indices THEN ZeroEntry ELSE monitor[i]]
        /\ numMonitoredTasks' = IF counted <= numMonitoredTasks
                                THEN numMonitoredTasks - counted ELSE 0

\* clear_monitor_slot on each of the indices: only entries that were active
\* are counted off, and the counter stops at 0.
ClearEntries(indices) ==
    LET counted == Cardinality(indices \cap Active)
    IN  /\ monitor' = [i \in Indices |->
                          IF i \in indices THEN ZeroEntry ELSE monitor[i]]
        /\ numMonitoredTasks' = IF counted <= numMonitoredTasks
                                THEN numMonitoredTasks - counted ELSE 0

\* The first critical section of task_manager_init.
ClearStore ==
    /\ monitor' = [i \in Indices |-> ZeroEntry]
    /\ numMonitoredTasks' = 0

InitMonitor ==
    /\ monitor = [i \in Indices |-> ZeroEntry]
    /\ numMonitoredTasks = 0

-----------------------------------------------------------------------------
MonitorTypeOK ==
    /\ monitor \in [Indices -> Entry]
    /\ numMonitoredTasks \in Nat

\* The store counts its entries twice over: numMonitoredTasks is kept up to date
\* by recording and clearing (only clear_monitor_slot reads it back, to stop the
\* decrement at 0), while get_num_monitored_tasks counts the active entries anew.
\* The internal counter never drifts from what the query returns, whatever the
\* order of creations, roll-backs, removals and restarts.
CountMatchesActive == numMonitoredTasks = Cardinality(Active)
=============================================================================
