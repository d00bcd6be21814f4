--------------------------- MODULE OffloaderPolicy ---------------------------
(***************************************************************************)
(* The built-in routing policies of core/offloader_policy_simple.c and     *)
(* core/offloader_policy_rm.c: pure functions from the snapshot of a       *)
(* client to a route, in the arithmetic of uint32_t.                       *)
(***************************************************************************)
EXTENDS Integers

CONSTANT UintSize       \* number of values of a uint32_t

ASSUME PolicyAssumption == UintSize \in Nat \ {0}

Uint == 0..(UintSize - 1)

Routes == {"LOCAL", "REMOTE"}

\* task_snapshot_t: what the policies read of it.
Snapshot == [WCET : Uint, period : Uint, OE2EL : Uint]

RouteAt(latency, threshold) == IF latency >= threshold THEN "REMOTE" ELSE "LOCAL"

FpThreshold(s) == (s.WCET + s.WCET \div 4) % UintSize

\* Mutant: a snapshot without a WCET is routed like any other.
FpEvaluateAlways(s) == RouteAt(s.OE2EL, FpThreshold(s))

\* Fixed priority: remote once the latency exceeds the WCET by a quarter.
FpEvaluate(s) ==
    IF s.WCET = 0 THEN "reject" ELSE RouteAt(s.OE2EL, FpThreshold(s))

\* Rate monotonic: remote once the latency reaches the period.
RmEvaluate(s) ==
    IF s.period = 0 THEN "reject" ELSE RouteAt(s.OE2EL, s.period)

Evaluate(policy, s) == IF policy = "rm" THEN RmEvaluate(s) ELSE FpEvaluate(s)

\* edge_offloader_policy_default_for_scheduler
DefaultPolicy(scheduler) == IF scheduler = "RM" THEN "rm" ELSE "fp"
=============================================================================
