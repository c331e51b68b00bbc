----------------------------- MODULE TaskBoard -----------------------------
(***************************************************************************)
(* The task board of the C side (src/lib/cside/src/tboard.c): its          *)
(* lifecycle (tboard_create, tboard_start, tboard_kill, tboard_destroy),   *)
(* the concurrency counter (tboard_add_concurrent, tboard_deinc_concurrent)*)
(* and the executor threads that serve its queues.                         *)
(*                                                                         *)
(* Queue 0 is the primary queue (pqueue/pmutex/pcond), queues 1..S are the *)
(* secondaries (squeue/smutex/scond).  One executor thread serves each     *)
(* queue.  The executor body is not under src/; its loop is taken from the *)
(* spec (section 4.7).  Threads that call tboard_kill are the Callers; one *)
(* further thread calls tboard_destroy.                                    *)
(*                                                                         *)
(* A queue mutex is held across steps only by its executor (between taking *)
(* it and waiting/popping); every other holder takes and releases it in    *)
(* one step, so "qmutex[q] is free" is "executor q is not at check".  The  *)
(* exit mutex emutex is held across steps only by a kill caller.           *)
(***************************************************************************)
EXTENDS Naturals, Sequences, FiniteSets

CONSTANTS
    S,                \* number of secondary queues (tboard->sqs)
    MAX_SECONDARIES,  \* capacity of the secondary arrays
    MAX_TASKS,        \* cap enforced by tboard_add_concurrent
    Tasks,            \* tasks the application may submit
    Callers,          \* threads that call tboard_kill
    SpuriousWakeups,  \* may pthread_cond_wait return without a signal?
    NoTask            \* the executor resumes nothing

ASSUME /\ S \in 0..MAX_SECONDARIES
       /\ MAX_TASKS \in Nat \ {0}
       /\ Callers # {}
       /\ SpuriousWakeups \in BOOLEAN
       /\ NoTask \notin Tasks

Queues == 0..S

VARIABLES
    status,      \* tboard->status: 0 created, 1 started
    shutdown,    \* tboard->shutdown
    taskCount,   \* tboard->task_count
    queue,       \* queue[q]: the tasks in pqueue (q = 0) or squeue[q-1]
    tstate,      \* tstate[t]: where task t is in its life
    freed,       \* freed[t]: how many times task_destroy ran on t
    wpc,         \* wpc[q]: control point of the executor of queue q
    cur,         \* cur[q]: the task executor q is resuming
    signalled,   \* signalled[q]: a pthread_cond_signal reached waiter q
    cancelled,   \* cancelled[q]: pthread_cancel was requested for q
    kpc,         \* kpc[c]: control point of caller c in tboard_kill
    kq,          \* kq[c]: the queue index of tboard_kill's cancel loop
    kwoken,      \* kwoken[c]: the tcond broadcast reached caller c
    kret,        \* kret[c]: what tboard_kill returned to c
    dpc,         \* control point of tboard_destroy
    dq           \* the queue index of tboard_destroy's join loop

vars == <<status, shutdown, taskCount, queue, tstate, freed, wpc, cur,
          signalled, cancelled, kpc, kq, kwoken, kret, dpc, dq>>

TaskStates == {"unborn", "refused", "live", "running", "done"}
WorkerPCs  == {"init", "top", "check", "wait", "run", "exited", "joined"}
KillPCs    == {"idle", "locked", "cancel", "wait", "waiting", "relock", "unlock",
               "returned", "done"}
DestroyPCs == {"idle", "join", "bcast", "teardown", "free", "done"}

\* kill holds emutex from pthread_mutex_lock until pthread_cond_wait, and
\* again from the wake-up until pthread_mutex_unlock.
HoldsEmutex(c) == kpc[c] \in {"cancel", "wait", "unlock"}
EmutexFree == \A c \in Callers : ~HoldsEmutex(c)
\* A queue mutex is held across steps only by its own executor.
QmutexFree(q) == wpc[q] # "check"
\* tmutex is held by a caller from before tboard_kill until after it.
TmutexFree == \A c \in Callers : kpc[c] \in {"idle", "done"}
\* the steps of tboard_kill that touch the board's memory
InKill(c) == kpc[c] \in {"cancel", "wait", "waiting", "relock", "unlock"}

TypeOK ==
    /\ status \in {0, 1}
    /\ shutdown \in {0, 1}
    /\ taskCount \in 0..MAX_TASKS
    /\ queue \in [Queues -> Seq(Tasks)]
    /\ tstate \in [Tasks -> TaskStates]
    /\ freed \in [Tasks -> 0..2]
    /\ wpc \in [Queues -> WorkerPCs]
    /\ cur \in [Queues -> Tasks \cup {NoTask}]
    /\ signalled \in [Queues -> BOOLEAN]
    /\ cancelled \in [Queues -> BOOLEAN]
    /\ kpc \in [Callers -> KillPCs]
    /\ kq \in [Callers -> Queues]
    /\ kwoken \in [Callers -> BOOLEAN]
    /\ kret \in [Callers -> {"none", "false", "true"}]
    /\ dpc \in DestroyPCs
    /\ dq \in Queues

-----------------------------------------------------------------------------
(* tboard_create: every queue empty, status 0, shutdown 0, task_count 0.   *)
Init ==
    /\ status = 0
    /\ shutdown = 0
    /\ taskCount = 0
    /\ queue = [q \in Queues |-> <<>>]
    /\ tstate = [t \in Tasks |-> "unborn"]
    /\ freed = [t \in Tasks |-> 0]
    /\ wpc = [q \in Queues |-> "init"]
    /\ cur = [q \in Queues |-> NoTask]
    /\ signalled = [q \in Queues |-> FALSE]
    /\ cancelled = [q \in Queues |-> FALSE]
    /\ kpc = [c \in Callers |-> "idle"]
    /\ kq = [c \in Callers |-> 0]
    /\ kwoken = [c \in Callers |-> FALSE]
    /\ kret = [c \in Callers |-> "none"]
    /\ dpc = "idle"
    /\ dq = 0

(* tboard_start: only a created board is started; one executor per queue. *)
Start ==
    /\ status = 0
    /\ status' = 1
    /\ wpc' = [q \in Queues |-> "top"]
    /\ UNCHANGED <<shutdown, taskCount, queue, tstate, freed, cur, signalled,
                   cancelled, kpc, kq, kwoken, kret, dpc, dq>>

-----------------------------------------------------------------------------
(* Concurrency counter, always under cmutex.                               *)

\* Mutant: the cap test is off by one (<= instead of <).
AddConcurrentOffByOne(ok) ==
    IF taskCount <= MAX_TASKS
    THEN ok /\ taskCount' = taskCount + 1
    ELSE ~ok /\ UNCHANGED taskCount

\* Mutant: success is reported but the incremented count is not stored.
AddConcurrentNoStore(ok) ==
    IF taskCount < MAX_TASKS THEN ok /\ UNCHANGED taskCount
    ELSE ~ok /\ UNCHANGED taskCount

\* tboard_add_concurrent: increments only below the cap; 0 means refused.
AddConcurrent(ok) ==
    IF taskCount < MAX_TASKS
    THEN ok /\ taskCount' = taskCount + 1
    ELSE ~ok /\ UNCHANGED taskCount

\* tboard_deinc_concurrent
DecConcurrent == taskCount' = taskCount - 1

(* Task submission (create_task): admit the task through the counter, then *)
(* enqueue it on the chosen queue under its mutex and signal the executor. *)
(* The application submits only while the board's queues exist.            *)
CreateTask(t, q) ==
    /\ tstate[t] = "unborn"
    /\ dpc \in {"idle", "join"}
    /\ QmutexFree(q)
    /\ \E ok \in BOOLEAN :
         /\ AddConcurrent(ok)
         /\ IF ok
            THEN /\ tstate' = [tstate EXCEPT ![t] = "live"]
                 /\ queue' = [queue EXCEPT ![q] = Append(@, t)]
                 /\ signalled' = [signalled EXCEPT ![q] = (wpc[q] = "wait") \/ @]
            ELSE /\ tstate' = [tstate EXCEPT ![t] = "refused"]
                 /\ UNCHANGED <<queue, signalled>>
    /\ UNCHANGED <<status, shutdown, freed, wpc, cur, cancelled,
                   kpc, kq, kwoken, kret, dpc, dq>>

-----------------------------------------------------------------------------
(* The executor of queue q (spec 4.7).                                     *)

\* 1. take the queue mutex
ExecLock(q) ==
    /\ wpc[q] = "top"
    /\ wpc' = [wpc EXCEPT ![q] = "check"]
    /\ UNCHANGED <<status, shutdown, taskCount, queue, tstate, freed, cur,
                   signalled, cancelled, kpc, kq, kwoken, kret, dpc, dq>>

\* 2.-4. with the mutex held: wait while empty and not shut down; leave on
\* shutdown; otherwise pop the head and release the mutex.
ExecCheck(q) ==
    /\ wpc[q] = "check"
    /\ \/ /\ queue[q] = <<>> /\ shutdown = 0
          /\ wpc' = [wpc EXCEPT ![q] = "wait"]
          /\ signalled' = [signalled EXCEPT ![q] = FALSE]
          /\ UNCHANGED <<queue, cur, tstate>>
       \/ /\ shutdown = 1
          /\ wpc' = [wpc EXCEPT ![q] = "exited"]
          /\ UNCHANGED <<queue, cur, tstate, signalled>>
       \/ /\ queue[q] # <<>> /\ shutdown = 0
          /\ wpc' = [wpc EXCEPT ![q] = "run"]
          /\ cur' = [cur EXCEPT ![q] = Head(queue[q])]
          /\ tstate' = [tstate EXCEPT ![Head(queue[q])] = "running"]
          /\ queue' = [queue EXCEPT ![q] = Tail(@)]
          /\ UNCHANGED signalled
    /\ UNCHANGED <<status, shutdown, taskCount, freed, cancelled,
                   kpc, kq, kwoken, kret, dpc, dq>>

\* pthread_cond_wait returns (signalled, or spuriously where the platform
\* allows it) with the mutex taken again.
ExecWake(q) ==
    /\ wpc[q] = "wait"
    /\ signalled[q] \/ SpuriousWakeups
    /\ wpc' = [wpc EXCEPT ![q] = "check"]
    /\ signalled' = [signalled EXCEPT ![q] = FALSE]
    /\ UNCHANGED <<status, shutdown, taskCount, queue, tstate, freed, cur,
                   cancelled, kpc, kq, kwoken, kret, dpc, dq>>

\* pthread_cond_wait is a cancellation point: a cancelled waiter exits,
\* releasing the queue mutex on its way out.
ExecCancelled(q) ==
    /\ wpc[q] = "wait"
    /\ cancelled[q]
    /\ wpc' = [wpc EXCEPT ![q] = "exited"]
    /\ UNCHANGED <<status, shutdown, taskCount, queue, tstate, freed, cur,
                   signalled, cancelled, kpc, kq, kwoken, kret, dpc, dq>>

\* 5.-6. the coroutine yields: re-enqueue it on its own queue.
ExecYield(q) ==
    /\ wpc[q] = "run"
    /\ wpc' = [wpc EXCEPT ![q] = "top"]
    /\ queue' = [queue EXCEPT ![q] = Append(@, cur[q])]
    /\ tstate' = [tstate EXCEPT ![cur[q]] = "live"]
    /\ cur' = [cur EXCEPT ![q] = NoTask]
    /\ UNCHANGED <<status, shutdown, taskCount, freed, signalled, cancelled,
                   kpc, kq, kwoken, kret, dpc, dq>>

\* 7. the coroutine finishes: destroy the task, decrement the counter.
ExecComplete(q) ==
    /\ wpc[q] = "run"
    /\ wpc' = [wpc EXCEPT ![q] = "top"]
    /\ tstate' = [tstate EXCEPT ![cur[q]] = "done"]
    /\ freed' = [freed EXCEPT ![cur[q]] = @ + 1]
    /\ DecConcurrent
    /\ cur' = [cur EXCEPT ![q] = NoTask]
    /\ UNCHANGED <<status, shutdown, queue, signalled, cancelled,
                   kpc, kq, kwoken, kret, dpc, dq>>

-----------------------------------------------------------------------------
(* tboard_kill, run by caller c.  The caller follows the protocol stated *)
(* at tboard_destroy's lock of tmutex: it holds tmutex from before it     *)
(* calls tboard_kill until it has taken what it needs from the board.     *)

\* the application locks tmutex, then calls tboard_kill; nobody calls it on
\* a board that tboard_destroy has begun to take apart.
KillLockTmutex(c) ==
    /\ kpc[c] = "idle"
    /\ TmutexFree
    /\ dpc \in {"idle", "join", "bcast"}
    /\ kpc' = [kpc EXCEPT ![c] = "locked"]
    /\ UNCHANGED <<status, shutdown, taskCount, queue, tstate, freed, wpc, cur,
                   signalled, cancelled, kq, kwoken, kret, dpc, dq>>

\* status is read before anything is locked: a board not started is refused.
KillNotRunning(c) ==
    /\ kpc[c] = "locked"
    /\ status = 0
    /\ kpc' = [kpc EXCEPT ![c] = "returned"]
    /\ kret' = [kret EXCEPT ![c] = "false"]
    /\ UNCHANGED <<status, shutdown, taskCount, queue, tstate, freed, wpc, cur,
                   signalled, cancelled, kq, kwoken, dpc, dq>>

\* lock emutex, set shutdown.
KillBegin(c) ==
    /\ kpc[c] = "locked"
    /\ status = 1
    /\ EmutexFree
    /\ shutdown' = 1
    /\ kpc' = [kpc EXCEPT ![c] = "cancel"]
    /\ kq' = [kq EXCEPT ![c] = 0]
    /\ UNCHANGED <<status, taskCount, queue, tstate, freed, wpc, cur,
                   signalled, cancelled, kwoken, kret, dpc, dq>>

\* for queue kq[c]: lock its mutex, pthread_cancel its executor, signal its
\* condition variable, unlock.
KillCancel(c) ==
    LET q == kq[c] IN
    /\ kpc[c] = "cancel"
    /\ QmutexFree(q)
    /\ cancelled' = [cancelled EXCEPT ![q] = TRUE]
    /\ signalled' = [signalled EXCEPT ![q] = (wpc[q] = "wait") \/ @]
    /\ IF q < S
       THEN kq' = [kq EXCEPT ![c] = q + 1] /\ UNCHANGED kpc
       ELSE kpc' = [kpc EXCEPT ![c] = "wait"] /\ UNCHANGED kq
    /\ UNCHANGED <<status, shutdown, taskCount, queue, tstate, freed, wpc, cur,
                   kwoken, kret, dpc, dq>>

\* pthread_cond_wait(tcond, emutex): release emutex and block.
KillWait(c) ==
    /\ kpc[c] = "wait"
    /\ kpc' = [kpc EXCEPT ![c] = "waiting"]
    /\ kwoken' = [kwoken EXCEPT ![c] = FALSE]
    /\ UNCHANGED <<status, shutdown, taskCount, queue, tstate, freed, wpc, cur,
                   signalled, cancelled, kq, kret, dpc, dq>>

\* the wait ends once (no predicate is re-checked around it) ...
KillWake(c) ==
    /\ kpc[c] = "waiting"
    /\ kwoken[c] \/ SpuriousWakeups
    /\ kpc' = [kpc EXCEPT ![c] = "relock"]
    /\ UNCHANGED <<status, shutdown, taskCount, queue, tstate, freed, wpc, cur,
                   signalled, cancelled, kq, kwoken, kret, dpc, dq>>

\* ... and pthread_cond_wait takes emutex back before returning.
KillRelock(c) ==
    /\ kpc[c] = "relock"
    /\ EmutexFree
    /\ kpc' = [kpc EXCEPT ![c] = "unlock"]
    /\ UNCHANGED <<status, shutdown, taskCount, queue, tstate, freed, wpc, cur,
                   signalled, cancelled, kq, kwoken, kret, dpc, dq>>

\* unlock emutex and return true.
KillReturn(c) ==
    /\ kpc[c] = "unlock"
    /\ kpc' = [kpc EXCEPT ![c] = "returned"]
    /\ kret' = [kret EXCEPT ![c] = "true"]
    /\ UNCHANGED <<status, shutdown, taskCount, queue, tstate, freed, wpc, cur,
                   signalled, cancelled, kq, kwoken, dpc, dq>>

\* the application unlocks tmutex; after a refusal it may call kill again.
KillUnlockTmutex(c) ==
    /\ kpc[c] = "returned"
    /\ kpc' = [kpc EXCEPT ![c] = IF kret[c] = "true" THEN "done" ELSE "idle"]
    /\ UNCHANGED <<status, shutdown, taskCount, queue, tstate, freed, wpc, cur,
                   signalled, cancelled, kq, kwoken, kret, dpc, dq>>

-----------------------------------------------------------------------------
(* tboard_destroy, run by one thread of the application on a started      *)
(* board.                                                                  *)

DestroyBegin ==
    /\ dpc = "idle"
    /\ status = 1
    /\ dpc' = "join"
    /\ dq' = 0
    /\ UNCHANGED <<status, shutdown, taskCount, queue, tstate, freed, wpc, cur,
                   signalled, cancelled, kpc, kq, kwoken, kret>>

\* Mutant: the join loop stops one secondary short.
DestroyJoinStopsShort ==
    /\ dpc = "join"
    /\ wpc[dq] = "exited"
    /\ wpc' = [wpc EXCEPT ![dq] = "joined"]
    /\ IF dq < S - 1
       THEN dq' = dq + 1 /\ UNCHANGED dpc
       ELSE dpc' = "bcast" /\ UNCHANGED dq
    /\ UNCHANGED <<status, shutdown, taskCount, queue, tstate, freed, cur,
                   signalled, cancelled, kpc, kq, kwoken, kret>>

\* pthread_join the primary, then each secondary in turn.
DestroyJoin ==
    /\ dpc = "join"
    /\ wpc[dq] = "exited"
    /\ wpc' = [wpc EXCEPT ![dq] = "joined"]
    /\ IF dq < S
       THEN dq' = dq + 1 /\ UNCHANGED dpc
       ELSE dpc' = "bcast" /\ UNCHANGED dq
    /\ UNCHANGED <<status, shutdown, taskCount, queue, tstate, freed, cur,
                   signalled, cancelled, kpc, kq, kwoken, kret>>

\* Mutant: tcond is broadcast without taking emutex first.
DestroyBroadcastUnlocked ==
    /\ dpc = "bcast"
    /\ dpc' = "teardown"
    /\ kwoken' = [c \in Callers |-> kpc[c] = "waiting" \/ kwoken[c]]
    /\ UNCHANGED <<status, shutdown, taskCount, queue, tstate, freed, wpc, cur,
                   signalled, cancelled, kpc, kq, kret, dq>>

\* broadcast tcond under emutex: every caller blocked in kill wakes.
DestroyBroadcast ==
    /\ dpc = "bcast"
    /\ EmutexFree
    /\ dpc' = "teardown"
    /\ kwoken' = [c \in Callers |-> kpc[c] = "waiting" \/ kwoken[c]]
    /\ UNCHANGED <<status, shutdown, taskCount, queue, tstate, freed, wpc, cur,
                   signalled, cancelled, kpc, kq, kret, dq>>

\* Mutant: the teardown walks the secondary queues but not the primary.
DestroyTeardownSecondariesOnly ==
    LET left == {t \in Tasks : \E q \in 1..S :
                                 \E i \in 1..Len(queue[q]) : queue[q][i] = t}
    IN
    /\ dpc = "teardown"
    /\ TmutexFree
    /\ dpc' = "free"
    /\ freed' = [t \in Tasks |-> IF t \in left THEN freed[t] + 1 ELSE freed[t]]
    /\ tstate' = [t \in Tasks |-> IF t \in left THEN "done" ELSE tstate[t]]
    /\ queue' = [q \in Queues |-> <<>>]
    /\ UNCHANGED <<status, shutdown, taskCount, wpc, cur, signalled, cancelled,
                   kpc, kq, kwoken, kret, dq>>

\* under tmutex: destroy the queue mutexes and condvars and tcond, then
\* task_destroy every task left in the secondaries and the primary.
DestroyTeardown ==
    LET left == {t \in Tasks : \E q \in Queues :
                                 \E i \in 1..Len(queue[q]) : queue[q][i] = t}
    IN
    /\ dpc = "teardown"
    /\ TmutexFree
    /\ dpc' = "free"
    /\ freed' = [t \in Tasks |-> IF t \in left THEN freed[t] + 1 ELSE freed[t]]
    /\ tstate' = [t \in Tasks |-> IF t \in left THEN "done" ELSE tstate[t]]
    /\ queue' = [q \in Queues |-> <<>>]
    /\ UNCHANGED <<status, shutdown, taskCount, wpc, cur, signalled, cancelled,
                   kpc, kq, kwoken, kret, dq>>

\* free the executor arguments, the history and the registry, destroy
\* hmutex, tmutex, emutex and msg_mutex, and free the board.
DestroyFree ==
    /\ dpc = "free"
    /\ dpc' = "done"
    /\ UNCHANGED <<status, shutdown, taskCount, queue, tstate, freed, wpc, cur,
                   signalled, cancelled, kpc, kq, kwoken, kret, dq>>

\* Once the board is freed nothing of it is left to run.
Terminated ==
    /\ dpc = "done"
    /\ UNCHANGED vars

-----------------------------------------------------------------------------
Executor(q) ==
    \/ ExecLock(q) \/ ExecCheck(q) \/ ExecWake(q) \/ ExecCancelled(q)
    \/ ExecYield(q) \/ ExecComplete(q)

Kill(c) ==
    \/ KillNotRunning(c) \/ KillUnlockTmutex(c) \/ KillBegin(c) \/ KillCancel(c) \/ KillWait(c) \/ KillWake(c)
    \/ KillRelock(c) \/ KillReturn(c)

Destroy ==
    DestroyJoin \/ DestroyBroadcast \/ DestroyTeardown \/ DestroyFree

Next ==
    \/ Start
    \/ \E t \in Tasks, q \in Queues : CreateTask(t, q)
    \/ \E q \in Queues : Executor(q)
    \/ \E c \in Callers : KillLockTmutex(c) \/ Kill(c)
    \/ DestroyBegin \/ Destroy
    \/ Terminated

(* The executors, a caller that has entered tboard_kill and a thread that *)
(* has entered tboard_destroy are OS threads the scheduler keeps running; *)
(* the application's own calls (start, submit, kill, destroy) are not     *)
(* forced to happen.                                                      *)
Fairness ==
    /\ \A q \in Queues : WF_vars(Executor(q))
    /\ \A c \in Callers : WF_vars(Kill(c))
    /\ WF_vars(Destroy)

Spec == Init /\ [][Next]_vars /\ Fairness

-----------------------------------------------------------------------------
(* Properties                                                              *)

Admitted == {t \in Tasks : tstate[t] \in {"live", "running", "done"}}

(* Every task the counter admitted is destroyed at most once, and once    *)
(* tboard_destroy has freed the board each of them was destroyed exactly  *)
(* once: by the executor that finished it or by destroy's queue walk.     *)
TaskFreedExactlyOnce ==
    /\ \A t \in Tasks : freed[t] <= 1
    /\ dpc = "done" => \A t \in Admitted : freed[t] = 1

(* Until tboard_destroy starts freeing tasks, task_count is the number of *)
(* admitted tasks not yet destroyed (queued or being resumed).            *)
TaskCountMatchesLive ==
    dpc \in {"idle", "join", "bcast"} =>
        taskCount = Cardinality({t \in Tasks : tstate[t] \in {"live", "running"}})

(* tboard_kill returns true only once every executor thread has been      *)
(* joined, which is what its wait on tcond is for.                        *)
KillReturnsAfterJoin ==
    \A c \in Callers : kret[c] = "true" => \A q \in Queues : wpc[q] = "joined"

(* Once a caller is inside tboard_kill and tboard_destroy has been called,*)
(* both return: the tcond handshake under emutex loses no wake-up.        *)
KillAndDestroyComplete ==
    \A c \in Callers :
        (InKill(c) /\ dpc # "idle") ~> (kpc[c] = "done" /\ dpc = "done")

(* tboard_kill never applies pthread_cancel to an executor thread that    *)
(* tboard_destroy has already joined (its thread id is dead by then).     *)
NoCancelOfJoinedThread ==
    \A c \in Callers : kpc[c] = "cancel" => wpc[kq[c]] # "joined"

=============================================================================
