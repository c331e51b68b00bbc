----------------------------- MODULE RemoteCall -----------------------------
(***************************************************************************)
(* What a remote call promises its parent (spec 4.5), one record per call: *)
(*                                                                         *)
(*   sent -> {acked, nak, timed_out, failed} -> completed                  *)
(*                                                                         *)
(* A transition happens only on its trigger: the remote side sent the      *)
(* reply of that kind for the call, or the call's own rexec_timeout timer  *)
(* fired.  Terminal states are final.  Every issued call eventually ends,  *)
(* because its timer fires while it is pending.                            *)
(***************************************************************************)
EXTENDS FiniteSets

CONSTANTS Calls

ReplyKinds == {"REXEC-ACK", "REXEC-NAK", "REXEC-RES", "REXEC-ERR"}
Terminal == {"completed", "nak", "failed", "timed_out"}
Open == {"sent", "acked"}

VARIABLES
    rc,        \* rc[c]: the state of call c's record
    replies,   \* replies[c]: the reply kinds the remote side has sent for c
    fired      \* the calls whose own timer has fired

vars == <<rc, replies, fired>>

TypeOK ==
    /\ rc \in [Calls -> {"unissued"} \cup Open \cup Terminal]
    /\ replies \in [Calls -> SUBSET ReplyKinds]
    /\ fired \subseteq Calls

Init ==
    /\ rc = [c \in Calls |-> "unissued"]
    /\ replies = [c \in Calls |-> {}]
    /\ fired = {}

\* The parent issues call c and arms its timer.
Issue(c) ==
    /\ rc[c] = "unissued"
    /\ rc' = [rc EXCEPT ![c] = "sent"]
    /\ UNCHANGED <<replies, fired>>

\* The remote side sends a reply of kind k for an issued call.
Respond(c, k) ==
    /\ rc[c] # "unissued"
    /\ k \notin replies[c]
    /\ replies' = [replies EXCEPT ![c] = @ \cup {k}]
    /\ UNCHANGED <<rc, fired>>

\* The call's timer fires while the call is open.
TimerFire(c) ==
    /\ rc[c] \in Open
    /\ c \notin fired
    /\ fired' = fired \cup {c}
    /\ UNCHANGED <<rc, replies>>

\* Record c moves from one of the states in from to state to.
Move(c, from, to) ==
    /\ rc[c] \in from
    /\ rc' = [rc EXCEPT ![c] = to]
    /\ UNCHANGED <<replies, fired>>

Ack(c)      == "REXEC-ACK" \in replies[c] /\ Move(c, {"sent"}, "acked")
Nak(c)      == "REXEC-NAK" \in replies[c] /\ Move(c, {"sent"}, "nak")
Complete(c) == "REXEC-RES" \in replies[c] /\ Move(c, Open, "completed")
Fail(c)     == "REXEC-ERR" \in replies[c] /\ Move(c, Open, "failed")
TimeOut(c)  == c \in fired /\ Move(c, Open, "timed_out")

Next ==
    \E c \in Calls :
        \/ Issue(c)
        \/ \E k \in ReplyKinds : Respond(c, k)
        \/ TimerFire(c)
        \/ Ack(c) \/ Nak(c) \/ Complete(c) \/ Fail(c) \/ TimeOut(c)

(* The timer of an open call fires, and a fired timer ends the call unless *)
(* a reply ends it first.                                                  *)
Fairness == \A c \in Calls : WF_vars(TimerFire(c)) /\ WF_vars(TimeOut(c))

Spec == Init /\ [][Next]_vars /\ Fairness

=============================================================================
