------------------------------ MODULE EAConfig ------------------------------
(***************************************************************************)
(* Compile-time limits of the framework and the values shared by the pair  *)
(* registry and the monitor store.                                         *)
(***************************************************************************)
EXTENDS Integers

CONSTANTS MaxTasks,       \* CONFIG_EA_MAX_TASKS
          MaxPairId,      \* largest value of the uint32_t pair identifier
          TaskHandles,    \* bound: OS task handles the kernel can hand out
          QueueHandles    \* bound: OS queue handles the kernel can hand out

ASSUME ConfigAssumption ==
    /\ MaxTasks \in Nat \ {0}
    /\ MaxPairId \in Nat \ {0}
    /\ TaskHandles \subseteq Nat \ {0}
    /\ QueueHandles \subseteq Nat \ {0}

NoHandle == 0
NoIndex == -1
Indices == 0..(MaxTasks - 1)
=============================================================================
