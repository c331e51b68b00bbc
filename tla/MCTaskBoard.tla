---------------------------- MODULE MCTaskBoard ----------------------------
(* Instantiates TaskBoard for TLC: one primary and one secondary queue,   *)
(* two tasks against a cap of one so that admission is both granted and   *)
(* refused, and one or two threads calling tboard_kill.                   *)
EXTENDS TaskBoard

CONSTANTS t1, t2, c1, c2

MCTasks == {t1, t2}
OneCaller == {c1}
TwoCallers == {c1, c2}
=============================================================================
