---------------------------- MODULE MCTaskManager ----------------------------
(***************************************************************************)
(* Small instances of TaskManager for TLC.                                 *)
(***************************************************************************)
EXTENDS Ownership, TLC

CONSTANTS c1, c2

OneCaller == {c1}
TwoCallers == {c1, c2}

\* Application threads are interchangeable: no action tells them apart.
CallerSymmetry == Permutations({c1, c2})
=============================================================================
