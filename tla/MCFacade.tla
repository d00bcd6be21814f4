------------------------------- MODULE MCFacade -------------------------------
(***************************************************************************)
(* The instance of RuntimeFacade for TLC: one application thread, which    *)
(* runs the controller, and the tasks it creates.                          *)
(***************************************************************************)
EXTENDS RuntimeFacade

CONSTANT app

Applications == {app}

\* A client that only rate monotonic routes, and one that only fixed priority does.
SomeDemands == {[WCET |-> 0, period |-> 8], [WCET |-> 8, period |-> 0]}

\* Of every way to configure the runtime: batch mode, rate monotonic, without
\* the controller, a scheduler that does not exist, and a policy without a plan.
SomeConfigs ==
    {[DefaultConfig EXCEPT !.mode = "batch", !.scheduler = "RM"],
     [DefaultConfig EXCEPT !.enabled = FALSE, !.complete = FALSE],
     [DefaultConfig EXCEPT !.scheduler = "unknown"],
     [DefaultConfig EXCEPT !.mode = "batch", !.scheduler = "CUSTOM",
                           !.policy = "noPlan"]}
===============================================================================
