---------------------------- MODULE MCTimerWheel ----------------------------
(* Small instances of TimerWheel for TLC.  One time unit stands for a      *)
(* microsecond; the widths are scaled down so that a wrap of long falls    *)
(* inside the modelled time where that is the question.                    *)
EXTENDS TimerWheel, TLC

CONSTANTS w1, w2, s1, id1, e1, e2, e3

MCWorkers == {w1, w2}
OneWorker == {w1}

\* e1 opens a real-time slot, e2 closes it, e3 is a remote-call timeout.
MCInfo ==
    (e1 :> [kind |-> "RT_SCHEDULE", arg |-> s1, delay |-> 2]) @@
    (e2 :> [kind |-> "RT_CLOSE", arg |-> s1, delay |-> 2]) @@
    (e3 :> [kind |-> "REXEC_TIMEOUT", arg |-> id1, delay |-> 2])
SlotAndTimeout == {e1, e2, e3}
\* A slot close three microseconds ahead.
CloseInfo == e2 :> [kind |-> "RT_CLOSE", arg |-> s1, delay |-> 3]
CloseOnly == {e2}

=============================================================================
