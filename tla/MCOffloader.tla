----------------------------- MODULE MCOffloader -----------------------------
(***************************************************************************)
(* Instances of Offloader for TLC: one application thread, and the         *)
(* controller in that thread or in one of its own.                         *)
(***************************************************************************)
EXTENDS Offloader

CONSTANTS app, controller

Applications == {app}

OneDemand == {[WCET |-> 8, period |-> 8]}
=============================================================================
