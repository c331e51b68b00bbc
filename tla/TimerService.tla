---------------------------- MODULE TimerService ----------------------------
(***************************************************************************)
(* What the timer wheel promises its users (spec 4.2), one entry per       *)
(* event:                                                                  *)
(*                                                                         *)
(*   idle -> scheduled -> handed                                           *)
(*                    \-> cancelled      (remote-call timeouts only)       *)
(*                                                                         *)
(* An event is scheduled for now + its delay and is handed to a worker     *)
(* exactly once, never before its deadline less the early-fire allowance   *)
(* of its kind.  Deleting a remote-call timeout by id cancels it while it  *)
(* is still scheduled; the delete may report it not found only once it is *)
(* already due (it may be on its way to a worker) or handed out.  Every    *)
(* scheduled event is eventually handed out or cancelled.                  *)
(***************************************************************************)
EXTENDS Integers

CONSTANTS
    Events,     \* the events callers schedule
    Info,       \* Info[e]: e's kind, argument and delay
    MaxTime,    \* the last microsecond of the behaviour
    Early       \* the early-fire allowance of slot openings

\* Spec 4.2: real-time and synchronous slot openings may fire early.
Allowance(kind) == IF kind \in {"RT_SCHEDULE", "SY_SCHEDULE"} THEN Early ELSE 0

\* The remote-call timeouts that a delete by id addresses.
TimeoutsFor(id) == {e \in Events : Info[e].kind = "REXEC_TIMEOUT" /\ Info[e].arg = id}
Ids == {Info[e].arg : e \in {x \in Events : Info[x].kind = "REXEC_TIMEOUT"}}

VARIABLES
    now,      \* the monotonic clock
    ev,       \* ev[e]: where event e is in its life
    due,      \* due[e]: the deadline e was scheduled for
    delRes    \* delRes[id]: what the delete of id reported

vars == <<now, ev, due, delRes>>

TypeOK ==
    /\ now \in 0 .. MaxTime
    /\ ev \in [Events -> {"idle", "scheduled", "handed", "cancelled"}]
    /\ due \in [Events -> 0 .. MaxTime]
    /\ delRes \in [Ids -> {"none", "removed", "not_found"}]

Init ==
    /\ now = 0
    /\ ev = [e \in Events |-> "idle"]
    /\ due = [e \in Events |-> 0]
    /\ delRes = [i \in Ids |-> "none"]

\* Event e may be handed out from this instant on.
IsDue(e) == now >= due[e] - Allowance(Info[e].kind)

Tick ==
    /\ now < MaxTime
    /\ now' = now + 1
    /\ UNCHANGED <<ev, due, delRes>>

Schedule(e) ==
    /\ ev[e] = "idle"
    /\ now + Info[e].delay <= MaxTime
    /\ ev' = [ev EXCEPT ![e] = "scheduled"]
    /\ due' = [due EXCEPT ![e] = now + Info[e].delay]
    /\ UNCHANGED <<now, delRes>>

Hand(e) ==
    /\ ev[e] = "scheduled"
    /\ IsDue(e)
    /\ ev' = [ev EXCEPT ![e] = "handed"]
    /\ UNCHANGED <<now, due, delRes>>

\* The delete of id, once, after one of its timeouts was scheduled.
Delete(id) ==
    /\ delRes[id] = "none"
    /\ \E e \in TimeoutsFor(id) : ev[e] # "idle"
    /\ \/ \E e \in TimeoutsFor(id) :
             /\ ev[e] = "scheduled"
             /\ ev' = [ev EXCEPT ![e] = "cancelled"]
             /\ delRes' = [delRes EXCEPT ![id] = "removed"]
       \/ /\ \A e \in TimeoutsFor(id) : ev[e] = "scheduled" => IsDue(e)
          /\ delRes' = [delRes EXCEPT ![id] = "not_found"]
          /\ UNCHANGED ev
    /\ UNCHANGED <<now, due>>

Next ==
    \/ Tick
    \/ \E e \in Events : Schedule(e) \/ Hand(e)
    \/ \E id \in Ids : Delete(id)

(* Time passes, and a due event does not wait forever for a worker.        *)
Fairness == WF_vars(Tick) /\ \A e \in Events : WF_vars(Hand(e))

Spec == Init /\ [][Next]_vars /\ Fairness

=============================================================================
