------------------------------- MODULE Bridge -------------------------------
(***************************************************************************)
(* The JAM background thread of src/lib/jamlib/jamworker.c and the parties *)
(* it connects:                                                            *)
(*  - one MQTT callback thread per enabled tier (jwork_msg_arrived), which *)
(*    pushes decoded commands onto that tier's in-queue;                   *)
(*  - the background thread (jwork_processor), which drains the global     *)
(*    out-queue, the device/fog/cloud in-queues and the activities'        *)
(*    out-queues;                                                          *)
(*  - the activities that issue remote calls and consume replies from      *)
(*    their in-queue, and the timer that posts TIMEOUT into it (tcallback);*)
(*    the activity code and the timer library are not under src/ and      *)
(*    follow the remote-call state machine of spec 4.5;                    *)
(*  - peers on each tier, which answer published requests and send        *)
(*    requests of their own.                                               *)
(* A command is a record; its text fields are abstracted to the outcome of *)
(* the checks the bridge makes on them (signature, condition, quorum,      *)
(* run-table lookup).                                                      *)
(***************************************************************************)
EXTENDS Naturals, Sequences, FiniteSets

CONSTANTS
    Enabled,      \* the tiers whose MQTT client is enabled (mqttenabled[i])
    Acts,         \* the activity threads (athreads[], prespawned)
    Calls,        \* remote-call ids (actid) the activities issue
    CallsOf,      \* CallsOf[a]: the calls activity a issues, in order
    PeerKinds,    \* PeerKinds[t]: the replies the tier-t peer may send
    Requests,     \* requests peers send to this node
    RequestTiers, \* the tiers on whose broker peers publish requests
    GlobalCmds,   \* commands the main thread puts on the global out-queue
    Quorums,      \* the values runtable_insert_synctask may be given
    Fragile,      \* the tiers whose broker connection may drop
    Announces,    \* whether the device broker sends /admin/announce/all
    NoCall        \* an activity with no call

Tiers == {"device", "fog", "cloud"}
ReplyKinds == {"REXEC-ACK", "REXEC-NAK", "REXEC-RES", "REXEC-ERR"}
RequestKinds == {"REXEC-SYN", "REXEC-ASY", "REXEC-ASY-CBK"}
Terminal == {"completed", "nak", "failed", "timed_out"}

ASSUME /\ Enabled \subseteq Tiers
       /\ CallsOf \in [Acts -> Seq(Calls)]
       /\ PeerKinds \in [Tiers -> SUBSET ReplyKinds]
       /\ NoCall \notin Calls
       /\ RequestTiers \subseteq Tiers
       /\ Fragile \subseteq Enabled
       /\ Announces \in BOOLEAN

\* A command as the bridge sees it once command_from_data has decoded it.
Cmd(topic, kind, id) ==
    [topic |-> topic, kind |-> kind, id |-> id,
     args |-> TRUE, cond |-> TRUE, sync |-> FALSE, found |-> TRUE]
Replies == {Cmd("reply", k, c) : k \in ReplyKinds, c \in Calls}
Timeouts == {Cmd("timer", "TIMEOUT", c) : c \in Calls}
Announce == Cmd("announce", "ANNOUNCE", NoCall)
Msgs == Replies \cup Requests \cup Timeouts \cup {Announce}

VARIABLES
    wire,       \* wire[t]: messages the tier-t broker is delivering to us
    inq,        \* inq[t]: deviceinq, foginq, cloudinq
    gout,       \* the global out-queue (atable->globaloutq)
    gsent,      \* global commands the main thread has enqueued
    outq,       \* outq[a]: activity a's out-queue
    pub,        \* pub[t]: request ids published on tier t
    answers,    \* answers[t]: the <<kind, actid>> replies the tier-t peer sent
    announced,  \* an /admin/announce/all message was sent
    reqSent,    \* requests the peers have sent
    inbox,      \* inbox[a]: activity a's in-queue (athr->inq)
    act,        \* act[a]: activity a's current call and its state
    next,       \* next[a]: how many calls activity a has issued
    timers,     \* armed activity timers <<a, actid>>
    firing,     \* timers taken by the timer thread, callback not yet run
    expired,    \* calls whose own timer expired
    outcome,    \* outcome[c]: how call c ended
    processed,  \* requests the device processor has handled
    globalinq,  \* requests scheduled on atable->globalinq
    synctable,  \* requests waiting in the sync table, with their quorum
    replyOut,   \* NAK/ERR replies published on /mach/func/reply
    lost        \* tiers whose MQTT connection was lost (jwork_connect_lost ran)

vars == <<wire, inq, gout, gsent, outq, pub, answers, announced, reqSent, inbox,
          act, next, timers, firing, expired, outcome, processed, globalinq,
          synctable, replyOut, lost>>

ActStates == {"idle", "sent", "acked"} \cup Terminal

TypeOK ==
    /\ wire \in [Tiers -> Seq(Msgs)]
    /\ inq \in [Tiers -> Seq(Replies \cup Requests)]
    /\ gout \in Seq(GlobalCmds)
    /\ gsent \subseteq GlobalCmds
    /\ outq \in [Acts -> Seq(Calls)]
    /\ pub \in [Tiers -> SUBSET (Calls \cup {g.id : g \in GlobalCmds})]
    /\ answers \in [Tiers -> SUBSET (ReplyKinds \X Calls)]
    /\ announced \in BOOLEAN
    /\ reqSent \subseteq Requests
    /\ inbox \in [Acts -> Seq(Msgs)]
    /\ act \in [Acts -> [call : Calls \cup {NoCall}, st : ActStates]]
    /\ next \in [Acts -> Nat]
    /\ timers \subseteq Acts \X Calls
    /\ firing \subseteq Acts \X Calls
    /\ expired \subseteq Calls
    /\ outcome \in [Calls -> Terminal \cup {"none"}]
    /\ processed \subseteq Requests
    /\ globalinq \subseteq Requests
    /\ synctable \subseteq Requests \X Quorums
    /\ replyOut \subseteq {[kind |-> k, id |-> i] :
                            k \in {"REXEC-NAK", "REXEC-ERR"},
                            i \in {r.id : r \in Requests}}
    /\ lost \subseteq Fragile

-----------------------------------------------------------------------------
(* jwork_bgthread's setup: callbacks and subscriptions on every enabled   *)
(* tier, nothing queued yet.                                               *)
Init ==
    /\ wire = [t \in Tiers |-> <<>>]
    /\ inq = [t \in Tiers |-> <<>>]
    /\ gout = <<>>
    /\ gsent = {}
    /\ outq = [a \in Acts |-> <<>>]
    /\ pub = [t \in Tiers |-> {}]
    /\ answers = [t \in Tiers |-> {}]
    /\ announced = FALSE
    /\ reqSent = {}
    /\ inbox = [a \in Acts |-> <<>>]
    /\ act = [a \in Acts |-> [call |-> NoCall, st |-> "idle"]]
    /\ next = [a \in Acts |-> 0]
    /\ timers = {}
    /\ firing = {}
    /\ expired = {}
    /\ outcome = [c \in Calls |-> "none"]
    /\ processed = {}
    /\ globalinq = {}
    /\ synctable = {}
    /\ replyOut = {}
    /\ lost = {}

\* jwork_set_subscriptions / jwork_set_callbacks: only enabled tiers
\* subscribe and get a message-arrived callback.
Subscribed(t) == t \in Enabled

\* The tier's MQTT client is still connected: jwork_connect_lost only prints,
\* so a lost connection is never re-established or re-subscribed; the
\* client delivers nothing more and mqtt_publish on it sends nothing.
Connected(t) == t \notin lost

\* jwork_check_args: the activity's registered callback accepts the args.
CheckArgs(m) == m.args

\* activity_id2indx: the activity thread whose current actid is id.
Owners(id) == {a \in Acts : act[a].call = id}

\* jwork_send_error: publish REXEC-ERR for the command and free it.
SendError(m) ==
    replyOut' = IF Connected("device") THEN replyOut \cup {[kind |-> "REXEC-ERR", id |-> m.id]}
                ELSE replyOut

\* Mutant: the NAK is never published.
SendNakUnpublished(m) == UNCHANGED replyOut

\* jwork_send_nak: publish REXEC-NAK for the command and free it.
SendNak(m) ==
    replyOut' = IF Connected("device") THEN replyOut \cup {[kind |-> "REXEC-NAK", id |-> m.id]}
                ELSE replyOut

\* jwork_send_nak called with js->cstate->mqttserv[0] where a jamstate_t *
\* is expected: js->cstate is read out of the MQTT client handle.  The
\* reply goes out through whatever that yields, or not at all.
SendNakWrongHandle(m) ==
    \E delivered \in BOOLEAN :
        replyOut' = IF delivered THEN replyOut \cup {[kind |-> "REXEC-NAK", id |-> m.id]}
                    ELSE replyOut

-----------------------------------------------------------------------------
\* Mutant: the announcement branch is dropped and every topic is queued.
MsgArrivedAnyTopic(t) ==
    /\ Subscribed(t) /\ Connected(t)
    /\ wire[t] # <<>>
    /\ wire' = [wire EXCEPT ![t] = Tail(@)]
    /\ inq' = [inq EXCEPT ![t] = Append(@, Head(wire[t]))]
    /\ UNCHANGED <<gout, gsent, outq, pub, answers, announced, reqSent, inbox, act,
                   next, timers, firing, expired, outcome, processed,
                   globalinq, synctable, replyOut, lost>>

(* The MQTT client thread of tier t (jwork_msg_arrived): announcements are *)
(* ignored, reply- and request-topic messages are decoded and queued on    *)
(* the tier's in-queue.                                                    *)
MsgArrived(t) ==
    /\ Subscribed(t) /\ Connected(t)
    /\ wire[t] # <<>>
    /\ LET m == Head(wire[t]) IN
       /\ wire' = [wire EXCEPT ![t] = Tail(@)]
       /\ inq' = IF m.topic \in {"reply", "request"}
                 THEN [inq EXCEPT ![t] = Append(@, m)]
                 ELSE inq
    /\ UNCHANGED <<gout, gsent, outq, pub, answers, announced, reqSent, inbox, act,
                   next, timers, firing, expired, outcome, processed,
                   globalinq, synctable, replyOut, lost>>

-----------------------------------------------------------------------------
(* The background thread: jwork_processor serves each readable queue.     *)

\* jwork_process_globaloutq: LOCAL commands are dropped, the others are
\* published on /level/func/request of every enabled tier.
ProcessGlobalOutq ==
    /\ gout # <<>>
    /\ LET g == Head(gout) IN
       /\ gout' = Tail(gout)
       /\ pub' = IF g.local THEN pub
                 ELSE [t \in Tiers |-> IF Subscribed(t) /\ Connected(t) THEN pub[t] \cup {g.id}
                                       ELSE pub[t]]
    /\ UNCHANGED <<wire, inq, gsent, outq, answers, announced, reqSent, inbox, act,
                   next, timers, firing, expired, outcome, processed,
                   globalinq, synctable, replyOut, lost>>

\* jwork_process_actoutq: relay the activity's request to every enabled tier.
ProcessActOutq(a) ==
    /\ outq[a] # <<>>
    /\ outq' = [outq EXCEPT ![a] = Tail(@)]
    /\ pub' = [t \in Tiers |-> IF Subscribed(t) /\ Connected(t) THEN pub[t] \cup {Head(outq[a])}
                               ELSE pub[t]]
    /\ UNCHANGED <<wire, inq, gout, gsent, answers, announced, reqSent, inbox, act,
                   next, timers, firing, expired, outcome, processed,
                   globalinq, synctable, replyOut, lost>>

\* Route a reply to the activity whose actid it carries; with no such
\* activity the command is neither queued nor freed.
RouteReply(m) ==
    /\ inbox' = [a \in Acts |-> IF a \in Owners(m.id) THEN Append(inbox[a], m)
                                ELSE inbox[a]]
    /\ UNCHANGED <<processed, globalinq, synctable, replyOut>>

\* The request branches of jwork_process_device.
HandleRequest(m) ==
    /\ processed' = processed \cup {m}
    /\ UNCHANGED inbox
    /\ CASE m.kind = "REXEC-SYN" ->
              IF ~CheckArgs(m)
              THEN SendError(m) /\ UNCHANGED <<globalinq, synctable>>
              ELSE IF ~m.cond
              THEN SendNak(m) /\ UNCHANGED <<globalinq, synctable>>
              ELSE IF m.sync
              THEN /\ \E q \in Quorums : synctable' = synctable \cup {<<m, q>>}
                   /\ UNCHANGED <<globalinq, replyOut>>
              ELSE IF synctable = {}
              THEN globalinq' = globalinq \cup {m} /\ UNCHANGED <<synctable, replyOut>>
              \* quorum is read uninitialised here
              ELSE /\ \E q \in Quorums : synctable' = synctable \cup {<<m, q>>}
                   /\ UNCHANGED <<globalinq, replyOut>>
         [] m.kind = "REXEC-ASY" ->
              IF ~CheckArgs(m)
              THEN SendError(m) /\ UNCHANGED <<globalinq, synctable>>
              ELSE IF m.cond
              THEN globalinq' = globalinq \cup {m} /\ UNCHANGED <<synctable, replyOut>>
              ELSE SendNakWrongHandle(m) /\ UNCHANGED <<globalinq, synctable>>
         [] m.kind = "REXEC-ASY-CBK" ->
              IF m.found /\ m.cond
              THEN globalinq' = globalinq \cup {m} /\ UNCHANGED <<synctable, replyOut>>
              ELSE IF m.found
              THEN SendNakWrongHandle(m) /\ UNCHANGED <<globalinq, synctable>>
              ELSE UNCHANGED <<globalinq, synctable, replyOut>>

\* jwork_process_device: one command from the device in-queue.  ACK, NAK
\* and RES are routed to their activity; anything else is freed.
ProcessDevice ==
    /\ inq["device"] # <<>>
    /\ LET m == Head(inq["device"]) IN
       /\ inq' = [inq EXCEPT !["device"] = Tail(@)]
       /\ CASE m.kind \in RequestKinds -> HandleRequest(m)
            [] m.kind \in {"REXEC-ACK", "REXEC-NAK", "REXEC-RES"} -> RouteReply(m)
            [] OTHER -> UNCHANGED <<inbox, processed, globalinq, synctable, replyOut>>
    /\ UNCHANGED <<wire, gout, gsent, outq, pub, answers, announced, reqSent, act,
                   next, timers, firing, expired, outcome, lost>>

\* jwork_process_fog (and, identically, jwork_process_cloud): only ACK and
\* NAK are routed; everything else, REXEC-RES included, is freed.
ProcessUpperTier(t) ==
    /\ inq[t] # <<>>
    /\ LET m == Head(inq[t]) IN
       /\ inq' = [inq EXCEPT ![t] = Tail(@)]
       /\ IF m.kind \in {"REXEC-ACK", "REXEC-NAK"}
          THEN RouteReply(m)
          ELSE UNCHANGED <<inbox, processed, globalinq, synctable, replyOut>>
    /\ UNCHANGED <<wire, gout, gsent, outq, pub, answers, announced, reqSent, act,
                   next, timers, firing, expired, outcome, lost>>

ProcessFog == ProcessUpperTier("fog")

ProcessCloud == ProcessUpperTier("cloud")

-----------------------------------------------------------------------------
(* Activity timers.                                                        *)

\* jam_set_timer: activity_getbyid looks the activity up by actid.  If it
\* is found a timer event is armed for it; if not, the function prints an
\* error and arms nothing.  activity_getbyid is not under src/, so either
\* outcome is possible.
SetTimer(a, c) ==
    \/ timers' = timers \cup {<<a, c>>}
    \/ UNCHANGED timers

ClearTimer(c) == timers' = {e \in timers : e[2] # c}

\* The timer thread takes an expired event off its list (timer library).
TimerExpire(e) ==
    /\ e \in timers
    /\ timers' = timers \ {e}
    /\ firing' = firing \cup {e}
    /\ expired' = expired \cup {e[2]}
    /\ UNCHANGED <<wire, inq, gout, gsent, outq, pub, answers, announced, reqSent,
                   inbox, act, next, outcome, processed, globalinq, synctable,
                   replyOut, lost>>

\* Mutant: command_new gets its string arguments out of order, so the
\* TIMEOUT carries no actid the activity recognises.
TimerCallbackNoActid(e) ==
    /\ e \in firing
    /\ firing' = firing \ {e}
    /\ inbox' = [inbox EXCEPT ![e[1]] = Append(@, Cmd("timer", "TIMEOUT", NoCall))]
    /\ UNCHANGED <<wire, inq, gout, gsent, outq, pub, answers, announced, reqSent,
                   act, next, timers, expired, outcome, processed, globalinq,
                   synctable, replyOut, lost>>

\* tcallback: a TIMEOUT command carrying athr->actid, read now, is pushed
\* onto the activity's in-queue.
TimerCallback(e) ==
    /\ e \in firing
    /\ firing' = firing \ {e}
    /\ inbox' = [inbox EXCEPT ![e[1]] =
                    Append(@, Cmd("timer", "TIMEOUT", act[e[1]].call))]
    /\ UNCHANGED <<wire, inq, gout, gsent, outq, pub, answers, announced, reqSent,
                   act, next, timers, expired, outcome, processed, globalinq,
                   synctable, replyOut, lost>>

-----------------------------------------------------------------------------
(* Activities (spec 4.5): issue a call, then consume the in-queue.        *)

\* An idle or finished activity takes its next call id, queues the request
\* on its out-queue and arms its timer.
Issue(a) ==
    /\ act[a].st \in {"idle"} \cup Terminal
    /\ next[a] < Len(CallsOf[a])
    /\ LET c == CallsOf[a][next[a] + 1] IN
       /\ act' = [act EXCEPT ![a] = [call |-> c, st |-> "sent"]]
       /\ next' = [next EXCEPT ![a] = @ + 1]
       /\ outq' = [outq EXCEPT ![a] = Append(@, c)]
       /\ SetTimer(a, c)
    /\ UNCHANGED <<wire, inq, gout, gsent, pub, answers, announced, reqSent, inbox,
                   firing, expired, outcome, processed, globalinq, synctable,
                   replyOut, lost>>

\* The state a reply or TIMEOUT moves a pending call to (spec 4.5): ACK and
\* NAK only from sent; a message with no transition leaves the state as is.
Step(st, kind) ==
    CASE kind = "REXEC-ACK" /\ st = "sent" -> "acked"
      [] kind = "REXEC-NAK" /\ st = "sent" -> "nak"
      [] kind = "REXEC-RES"               -> "completed"
      [] kind = "REXEC-ERR"               -> "failed"
      [] kind = "TIMEOUT"                 -> "timed_out"
      [] OTHER                            -> st

\* Take the head of the in-queue.  A message for the pending call moves it
\* on (first terminal message wins, and its timer is cleared); anything
\* else is discarded.
Consume(a) ==
    /\ inbox[a] # <<>>
    /\ LET m == Head(inbox[a])
           c == act[a].call
           live == m.id = c /\ act[a].st \in {"sent", "acked"}
           st == IF live THEN Step(act[a].st, m.kind) ELSE act[a].st
       IN
       /\ inbox' = [inbox EXCEPT ![a] = Tail(@)]
       /\ act' = [act EXCEPT ![a].st = st]
       /\ IF live /\ st \in Terminal
          THEN /\ outcome' = [outcome EXCEPT ![c] = st]
               /\ ClearTimer(c)
          ELSE UNCHANGED <<outcome, timers>>
    /\ UNCHANGED <<wire, inq, gout, gsent, outq, pub, answers, announced, reqSent,
                   next, firing, expired, processed, globalinq, synctable,
                   replyOut, lost>>

\* The main thread queues a command on the global out-queue.
MainSend(g) ==
    /\ g \notin gsent
    /\ gsent' = gsent \cup {g}
    /\ gout' = Append(gout, g)
    /\ UNCHANGED <<wire, inq, outq, pub, answers, announced, reqSent, inbox, act,
                   next, timers, firing, expired, outcome, processed,
                   globalinq, synctable, replyOut, lost>>

-----------------------------------------------------------------------------
(* Peers.                                                                  *)

\* The tier-t peer answers call c, which it received: ACK first, then RES;
\* or NAK or ERR instead.
PeerReply(t, c, k) ==
    /\ c \in pub[t]
    /\ k \in PeerKinds[t]
    /\ ~\E j \in ReplyKinds \ {"REXEC-ACK"} : <<j, c>> \in answers[t]
    /\ k = "REXEC-ACK" => <<k, c>> \notin answers[t]
    /\ answers' = [answers EXCEPT ![t] = @ \cup {<<k, c>>}]
    /\ wire' = [wire EXCEPT ![t] = Append(@, Cmd("reply", k, c))]
    /\ UNCHANGED <<inq, gout, gsent, outq, pub, announced, reqSent, inbox, act,
                   next, timers, firing, expired, outcome, processed,
                   globalinq, synctable, replyOut, lost>>

\* A peer publishes a request on /mach/func/request of tier t's broker, or
\* the broker sends an announcement.
PeerRequest(t, r) ==
    /\ r \notin reqSent
    /\ reqSent' = reqSent \cup {r}
    /\ wire' = [wire EXCEPT ![t] = Append(@, r)]
    /\ UNCHANGED <<inq, gout, gsent, outq, pub, answers, announced, inbox, act,
                   next, timers, firing, expired, outcome, processed,
                   globalinq, synctable, replyOut, lost>>

PeerAnnounce ==
    /\ Announces /\ ~announced
    /\ announced' = TRUE
    /\ wire' = [wire EXCEPT !["device"] = Append(@, Announce)]
    /\ UNCHANGED <<inq, gout, gsent, outq, pub, answers, reqSent, inbox, act,
                   next, timers, firing, expired, outcome, processed,
                   globalinq, synctable, replyOut, lost>>

\* The broker connection of tier t drops; the client calls jwork_connect_lost,
\* which prints the cause and returns.
ConnectionLost(t) ==
    /\ t \in Fragile \ lost
    /\ lost' = lost \cup {t}
    /\ UNCHANGED <<wire, inq, gout, gsent, outq, pub, answers, announced, reqSent,
                   inbox, act, next, timers, firing, expired, outcome, processed,
                   globalinq, synctable, replyOut>>

-----------------------------------------------------------------------------
\* jwork_assemble_fds: the poller watches the global out-queue, all three
\* tier in-queues (enabled or not) and the out-queue of every activity.
PollFds == {gout} \cup {inq[t] : t \in Tiers} \cup {outq[a] : a \in Acts}

\* jwork_bgthread's loop: nn_poll times out after a second with a count of
\* zero and the loop goes round again; jwork_processor runs only once some
\* watched queue is readable.
Readable == \E q \in PollFds : q # <<>>

\* jwork_processor: the readable queues are served one command at a time.
BridgeThread ==
    /\ Readable
    /\ \/ ProcessGlobalOutq
       \/ ProcessDevice
       \/ ProcessFog
       \/ ProcessCloud
       \/ \E a \in Acts : ProcessActOutq(a)

Environment ==
    \/ \E g \in GlobalCmds : MainSend(g)
    \/ \E t \in Tiers, c \in Calls, k \in ReplyKinds : PeerReply(t, c, k)
    \/ \E t \in RequestTiers, r \in Requests : PeerRequest(t, r)
    \/ PeerAnnounce
    \/ \E t \in Fragile : ConnectionLost(t)
    \/ \E a \in Acts : Issue(a)

\* Nothing left to do: every call issued and finished, every queue empty.
Quiescent ==
    /\ \A a \in Acts : next[a] = Len(CallsOf[a]) /\ act[a].st \notin {"sent", "acked"}
    /\ UNCHANGED vars

Next ==
    \/ \E t \in Tiers : MsgArrived(t)
    \/ BridgeThread
    \/ \E e \in Acts \X Calls : TimerExpire(e) \/ TimerCallback(e)
    \/ \E a \in Acts : Consume(a)
    \/ Environment
    \/ Quiescent

(* The MQTT threads, the background thread, the timer thread and the      *)
(* activity threads keep running; peers and the application need not act. *)
Fairness ==
    /\ \A t \in Tiers : WF_vars(MsgArrived(t))
    /\ WF_vars(BridgeThread)
    /\ \A e \in Acts \X Calls : WF_vars(TimerExpire(e)) /\ WF_vars(TimerCallback(e))
    /\ \A a \in Acts : WF_vars(Consume(a))

Spec == Init /\ [][Next]_vars /\ Fairness

-----------------------------------------------------------------------------
(* Properties.                                                             *)

Pending(a) == act[a].st \in {"sent", "acked"}

(* A reply (ACK, NAK, RES or ERR) that the background thread takes off any *)
(* tier's in-queue while the call it answers is pending at an activity is  *)
(* put on that activity's in-queue (spec 4.8: the bridge resolves actid to *)
(* the pending record and enqueues the reply for its parent).  The step    *)
(* is the per-tier processor's: jwork_process_device, _fog or _cloud.      *)
ReplyRouted ==
    [][\A t \in Tiers, a \in Acts :
         LET m == Head(inq[t]) IN
         (/\ inq[t] # <<>>
          /\ inq'[t] = Tail(inq[t])
          /\ m.kind \in ReplyKinds
          /\ act[a].call = m.id
          /\ Pending(a))
         => inbox'[a] = Append(inbox[a], m)]_vars

(***************************************************************************)
(* Refinement: the calls as the activities see them implement the remote- *)
(* call state machine of spec 4.5.  A call's record is its outcome once   *)
(* the activity has recorded one, else the state of the activity whose    *)
(* current call it is; the replies the remote side sent are those of the  *)
(* peers on every tier; the call's timer has fired when its own timer     *)
(* expired.                                                               *)
(***************************************************************************)
CallState(c) ==
    CASE outcome[c] # "none"       -> outcome[c]
      [] \E a \in Acts : act[a].call = c
                                   -> act[CHOOSE a \in Acts : act[a].call = c].st
      [] OTHER                     -> "unissued"

RC == INSTANCE RemoteCall WITH
        rc <- [c \in Calls |-> CallState(c)],
        replies <- [c \in Calls |-> {k \in ReplyKinds : \E t \in Tiers : <<k, c>> \in answers[t]}],
        fired <- expired

(* The safety part of RemoteCall holds of the bridge, its activities and  *)
(* their timers: an activity moves a call only on a reply a peer sent for *)
(* that call or on that call's own timer (jam_set_timer, tcallback), a    *)
(* timer fires only while its call is open (jam_clear_timer retracts it), *)
(* and a terminal state is never left.  RemoteCall's liveness is not      *)
(* claimed: when jam_set_timer finds no activity, no timer is armed.      *)
RemoteCallSafety == RC!Init /\ [][RC!Next]_RC!vars

(* A call whose timer jam_set_timer did arm ends, whatever the peers and   *)
(* the broker connections do: the timer thread takes the event, tcallback *)
(* posts a TIMEOUT with the activity's actid, and the activity, which     *)
(* cannot move on before the call ends, consumes it.                      *)
ArmedCallEnds ==
    \A a \in Acts : \A i \in DOMAIN CallsOf[a] :
        LET c == CallsOf[a][i] IN <<a, c>> \in timers ~> outcome[c] # "none"

\* A request is scheduled (global in-queue or sync table) or answered.
Handled(r) ==
    \/ r \in globalinq
    \/ \E q \in Quorums : <<r, q>> \in synctable
    \/ \E k \in {"REXEC-NAK", "REXEC-ERR"} : [kind |-> k, id |-> r.id] \in replyOut

(* Every request a peer sends to this node is eventually scheduled or      *)
(* answered with NAK or ERR (spec 4.8 and 7: a refused request is answered *)
(* to its originator), whichever broker it arrives through: the MQTT       *)
(* callback queues it and the background thread's processors handle it.   *)
RequestHandled == \A r \in Requests : r \in reqSent ~> Handled(r)

=============================================================================
