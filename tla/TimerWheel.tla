----------------------------- MODULE TimerWheel -----------------------------
(***************************************************************************)
(* The timer-wheel wrapper of src/lib/cside/src/twheel-utils.c and the     *)
(* threads that use it.                                                    *)
(*  - Callers add events (twheel_add_event) at an absolute time computed   *)
(*    from getcurtime(), and the reply path deletes a remote-call timeout  *)
(*    by id (twheel_delete_timeout).                                       *)
(*  - Worker threads advance the wheel opportunistically (spec 4.7, C8):   *)
(*    twheel_update_to_now, then twheel_get_next, whose timeouts_expired   *)
(*    test is made without twmutex, then the event's callback.             *)
(* The wheel itself (libtimeout: timeouts_add/update/expired/get/next/del) *)
(* is not under src/; it is modelled by its contract: an entry is pending  *)
(* until the wheel's time reaches its expiry, then expired until a get     *)
(* hands it out; a PENDING iterator sees only pending entries.             *)
(* Times are in microseconds.  getcurtime returns a long of LongBits bits; *)
(* the wheel's timeout_t has TimeoutBits bits.                             *)
(***************************************************************************)
EXTENDS Integers, FiniteSets

CONSTANTS
    Workers,      \* threads that advance the wheel and run callbacks
    Events,       \* events the callers add
    Info,         \* Info[e]: e's kind, callback argument and delay
    MaxTime,      \* the last microsecond the model runs to
    Early,        \* EARLY_TIME_FOR_RT = EARLY_TIME_FOR_SY
    LongBits,     \* width of long (getcurtime, tval, atval)
    TimeoutBits,  \* width of timeout_t
    None          \* no event

Kinds == {"INSTALL_SCHEDULE", "RT_SCHEDULE", "RT_CLOSE", "SY_SCHEDULE",
          "BEGIN_JSLEEP", "REXEC_TIMEOUT"}

ASSUME /\ Events \subseteq DOMAIN Info
       /\ \A e \in Events : Info[e].kind \in Kinds /\ Info[e].delay \in Nat
       /\ None \notin Events
       /\ Early \in Nat /\ MaxTime \in Nat
       /\ LongBits \in Nat \ {0} /\ TimeoutBits >= LongBits

\* Two's-complement value of x in a signed integer of the given width.
Signed(x, bits) ==
    LET r == x % (2 ^ bits) IN
    IF r >= 2 ^ (bits - 1) THEN r - 2 ^ bits ELSE r

\* x converted to an unsigned integer of the given width.
Unsigned(x, bits) == x % (2 ^ bits)

Ids == {Info[e].arg : e \in {x \in Events : Info[x].kind = "REXEC_TIMEOUT"}}
TimeoutVals == 0 .. (2 ^ TimeoutBits - 1)
EntryStates == {"unadded", "pending", "expired", "taken", "fired", "deleted"}
WorkerPCs == {"update", "check", "get"}

VARIABLES
    now,        \* the monotonic clock, in microseconds since boot
    wheelNow,   \* the wheel's current time (T->curtime)
    st,         \* st[e]: where event e's entry is
    at,         \* at[e]: the expiry its entry was added with
    addedAt,    \* addedAt[e]: the clock when the caller computed tval
    takenAt,    \* takenAt[e]: the clock when a get handed it out
    wpc,        \* wpc[w]: worker w's point in its loop, or the entry whose
                \* callback it is about to run
    delRes      \* delRes[id]: what twheel_delete_timeout(id) returned

vars == <<now, wheelNow, st, at, addedAt, takenAt, wpc, delRes>>

TypeOK ==
    /\ now \in 0 .. MaxTime
    /\ wheelNow \in TimeoutVals
    /\ st \in [Events -> EntryStates]
    /\ at \in [Events -> TimeoutVals]
    /\ addedAt \in [Events -> 0 .. MaxTime]
    /\ takenAt \in [Events -> 0 .. MaxTime]
    /\ wpc \in [Workers -> WorkerPCs \cup Events]
    /\ delRes \in [Ids -> {"none", "removed", "not_found"}]

Init ==
    /\ now = 0
    /\ wheelNow = 0
    /\ st = [e \in Events |-> "unadded"]
    /\ at = [e \in Events |-> 0]
    /\ addedAt = [e \in Events |-> 0]
    /\ takenAt = [e \in Events |-> 0]
    /\ wpc = [w \in Workers |-> "update"]
    /\ delRes = [i \in Ids |-> "none"]

-----------------------------------------------------------------------------
\* getcurtime: tv_sec * 1000000 + tv_nsec / 1000, computed in a long.
Getcurtime == Signed(now, LongBits)

\* The early-fire bias twheel_add_event applies to each kind (the bias for
\* TW_EVENT_INSTALL_SCHEDULE is commented out).
Bias(kind) == IF kind \in {"RT_SCHEDULE", "SY_SCHEDULE"} THEN Early ELSE 0

\* timeouts_update (libtimeout): every pending entry whose expiry the new
\* wheel time has reached moves to the expired list.
TimeoutsUpdate(t) ==
    /\ wheelNow' = t
    /\ st' = [e \in Events |-> IF st[e] = "pending" /\ at[e] <= t THEN "expired"
                               ELSE st[e]]

\* The clock advances.
Tick ==
    /\ now < MaxTime
    /\ now' = now + 1
    /\ UNCHANGED <<wheelNow, st, at, addedAt, takenAt, wpc, delRes>>

\* A caller adds event e with tval = getcurtime() + delay (a long), then
\* twheel_add_event: atval = tval less the kind's bias, and timeouts_add
\* with atval converted to timeout_t; an expiry the wheel has already
\* reached goes straight to the expired list.
AddEvent(e) ==
    /\ st[e] = "unadded"
    /\ now + Info[e].delay <= MaxTime
    /\ LET tval == Signed(Getcurtime + Info[e].delay, LongBits)
           atval == Signed(tval - Bias(Info[e].kind), LongBits)
           t == Unsigned(atval, TimeoutBits)
       IN /\ at' = [at EXCEPT ![e] = t]
          /\ st' = [st EXCEPT ![e] = IF t <= wheelNow THEN "expired" ELSE "pending"]
    /\ addedAt' = [addedAt EXCEPT ![e] = now]
    /\ UNCHANGED <<now, wheelNow, takenAt, wpc, delRes>>

\* Mutant: the delete reports the entry it found but never unlinks it.
DeleteTimeoutNoDel(id) ==
    /\ delRes[id] = "none"
    /\ \E e \in Events : Info[e].kind = "REXEC_TIMEOUT" /\ Info[e].arg = id /\ st[e] # "unadded"
    /\ delRes' = [delRes EXCEPT ![id] =
                    IF \E e \in Events : /\ st[e] = "pending"
                                         /\ Info[e].kind = "REXEC_TIMEOUT"
                                         /\ Info[e].arg = id
                    THEN "removed" ELSE "not_found"]
    /\ UNCHANGED <<now, wheelNow, st, at, addedAt, takenAt, wpc>>

\* twheel_delete_timeout: under twmutex, walk the PENDING entries for the
\* first REXEC timeout whose argument equals id and delete it.
DeleteTimeout(id) ==
    /\ delRes[id] = "none"
    /\ \E e \in Events : Info[e].kind = "REXEC_TIMEOUT" /\ Info[e].arg = id /\ st[e] # "unadded"
    /\ LET found == {e \in Events : /\ st[e] = "pending"
                                    /\ Info[e].kind = "REXEC_TIMEOUT"
                                    /\ Info[e].arg = id}
       IN IF found # {}
          THEN \E q \in found :
                  /\ st' = [st EXCEPT ![q] = "deleted"]
                  /\ delRes' = [delRes EXCEPT ![id] = "removed"]
          ELSE /\ delRes' = [delRes EXCEPT ![id] = "not_found"]
               /\ UNCHANGED st
    /\ UNCHANGED <<now, wheelNow, at, addedAt, takenAt, wpc>>

\* twheel_update_to_now: under twmutex, advance the wheel to getcurtime(),
\* converted to timeout_t.
UpdateToNow(w) ==
    /\ wpc[w] = "update"
    /\ TimeoutsUpdate(Unsigned(Getcurtime, TimeoutBits))
    /\ wpc' = [wpc EXCEPT ![w] = "check"]
    /\ UNCHANGED <<now, at, addedAt, takenAt, delRes>>

\* twheel_get_next, first half: timeouts_expired read without twmutex.
GetNextCheck(w) ==
    /\ wpc[w] = "check"
    /\ wpc' = [wpc EXCEPT ![w] = IF \E e \in Events : st[e] = "expired"
                                 THEN "get" ELSE "update"]
    /\ UNCHANGED <<now, wheelNow, st, at, addedAt, takenAt, delRes>>

\* Mutant: the worker goes on to run the callback of whatever
\* twheel_get_next returned, NULL included.
GetNextGetNoNullCheck(w) ==
    /\ wpc[w] = "get"
    /\ IF \E e \in Events : st[e] = "expired"
       THEN \E e \in {x \in Events : st[x] = "expired"} :
               /\ st' = [st EXCEPT ![e] = "taken"]
               /\ takenAt' = [takenAt EXCEPT ![e] = now]
               /\ wpc' = [wpc EXCEPT ![w] = e]
       ELSE /\ wpc' = [wpc EXCEPT ![w] = None]
            /\ UNCHANGED <<st, takenAt>>
    /\ UNCHANGED <<now, wheelNow, at, addedAt, delRes>>

\* twheel_get_next, second half: timeouts_get under twmutex hands out one
\* expired entry, or NULL if another thread took it meanwhile; the worker
\* keeps the entry it got to run its callback.
GetNextGet(w) ==
    /\ wpc[w] = "get"
    /\ IF \E e \in Events : st[e] = "expired"
       THEN \E e \in {x \in Events : st[x] = "expired"} :
               /\ st' = [st EXCEPT ![e] = "taken"]
               /\ takenAt' = [takenAt EXCEPT ![e] = now]
               /\ wpc' = [wpc EXCEPT ![w] = e]
       ELSE /\ wpc' = [wpc EXCEPT ![w] = "update"]
            /\ UNCHANGED <<st, takenAt>>
    /\ UNCHANGED <<now, wheelNow, at, addedAt, delRes>>

\* The worker runs the entry's callback (spec 4.2: the event's handler).
RunCallback(w) ==
    /\ wpc[w] \notin WorkerPCs
    /\ st' = [st EXCEPT ![wpc[w]] = "fired"]
    /\ wpc' = [wpc EXCEPT ![w] = "update"]
    /\ UNCHANGED <<now, wheelNow, at, addedAt, takenAt, delRes>>

Worker(w) == UpdateToNow(w) \/ GetNextCheck(w) \/ GetNextGet(w) \/ RunCallback(w)

Next ==
    \/ Tick
    \/ \E e \in Events : AddEvent(e)
    \/ \E i \in Ids : DeleteTimeout(i)
    \/ \E w \in Workers : Worker(w)

(* Time passes and the workers keep looping; callers need not add or       *)
(* delete anything.                                                         *)
Fairness == WF_vars(Tick) /\ \A w \in Workers : WF_vars(Worker(w))

Spec == Init /\ [][Next]_vars /\ Fairness

-----------------------------------------------------------------------------
(* Properties.                                                             *)

\* How early spec 4.2 lets each kind fire: slot openings (real-time and
\* synchronous) 1000 us early, everything else on time.
AllowedEarly(kind) == IF kind \in {"RT_SCHEDULE", "SY_SCHEDULE"} THEN Early ELSE 0

(* No event is handed to a worker before its deadline less the early-fire  *)
(* allowance spec 4.2 gives its kind: the times the callers compute with   *)
(* getcurtime, the bias twheel_add_event applies and the wheel time        *)
(* twheel_update_to_now sets must agree across every interleaving.         *)
NotEarly ==
    \A e \in Events :
        st[e] \in {"taken", "fired"} =>
            takenAt[e] >= addedAt[e] + Info[e].delay - AllowedEarly(Info[e].kind)

\* Where an entry's state puts its event in the life TimerService describes:
\* an entry on the pending or expired list is still scheduled; one a get
\* has handed out, run or not, is handed.
Phase(s) ==
    CASE s = "unadded"               -> "idle"
      [] s \in {"pending", "expired"} -> "scheduled"
      [] s \in {"taken", "fired"}     -> "handed"
      [] s = "deleted"               -> "cancelled"

TS == INSTANCE TimerService
        WITH ev <- [e \in Events |-> Phase(st[e])],
             due <- [e \in Events |-> IF st[e] = "unadded" THEN 0
                                      ELSE addedAt[e] + Info[e].delay]

(* The wrapper and its worker threads implement the promise of spec 4.2:  *)
(* every event added is handed to a worker exactly once and not before    *)
(* its deadline less its kind's allowance, twheel_delete_timeout cancels  *)
(* a timeout that is still pending and reports not_found only for one     *)
(* already due or handed out, and every scheduled event is eventually     *)
(* handed out or cancelled.                                               *)
TimerServiceSpec == TS!Spec

=============================================================================
