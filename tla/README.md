# JAMScript C side: TLA+ models of the task board, its shutdown, the remote-call bridge and the timer wheel

This directory holds TLA+ models of the C runtime in `src/`. TLC checks them.
The repository has five source files:

| file | what it is |
|------|------------|
| `src/lib/cside/src/tboard.c` | task board: create, start, kill, destroy, concurrency counter, function registry, logging |
| `src/lib/cside/src/twheel-utils.c` | timer-wheel wrapper: add event with early bias, delete a remote-call timeout by id, get next expired, advance to now |
| `src/lib/cside/src/args.c` | command-line parsing and validation |
| `src/lib/jamlib/jamworker.c` | JAM background ("bridge") thread: MQTT callbacks, per-tier inbound processing, outbound fan-out, NAK/ERR/RES replies, activity timers |
| `src/lib/cside-esp32/src/dummy_interface.h` | ESP32 stub declarations (no behaviour) |

The executor loop, task creation, the queue library, minicoro, the MQTT adapter, the
command codec and the activity code of jamlib are **not** under `src/`. Where a model
needs one of them, it follows `spec.md`, and the `map` of `PROJECT.json` marks that
definition `spec_modelled`.

## 1. Inventory

### Components, their state and operations

**Task board** (`tboard.c`, spec C7).
* State:
  * `status` (0 = created, 1 = started) and `shutdown`;
  * `task_count` under `cmutex`;
  * the primary queue `pqueue` with `pmutex`/`pcond`, and `sqs` secondary queues with `smutex[i]`/`scond[i]`;
  * the exit mutex `emutex` and its condvar `tcond`, the teardown mutex `tmutex`, `hmutex`;
  * `msg_mutex`/`msg_cond` and the queues `msg_sent`/`msg_recv`;
  * the registry, `task_table`, and the saved executor arguments.
* Operations:
  * `tboard_create` and `tboard_start`, which spawns one executor per queue;
  * `tboard_kill`: lock `emutex`, set `shutdown`, then for each queue lock its mutex, `pthread_cancel` its executor, signal its condvar and unlock; finally wait once on `tcond`;
  * `tboard_destroy`: join every executor, broadcast `tcond` under `emutex`, take `tmutex`, destroy the primitives, free the queued tasks and messages, free the board;
  * `tboard_add_concurrent` (capped at `MAX_TASKS`), `tboard_inc_concurrent`, `tboard_deinc_concurrent`, `tboard_get_concurrent`.

**Executor** (spec C8, not under `src/`). One thread per queue runs this loop:
1. lock the queue mutex;
2. wait on the condvar while the queue is empty and there is no shutdown;
3. exit on shutdown;
4. otherwise pop the head and resume its coroutine;
5. when the coroutine yields, re-enqueue the task; when it finishes, destroy the task and decrement the counter.

`pthread_cond_wait` is a cancellation point.

**Concurrent FIFO queue** (spec C1). A linked FIFO guarded by its board mutex.

**Timer wheel** (`twheel-utils.c`, spec C2).
* State: a `struct timeouts` under `twmutex`.
* `twheel_add_event` sets the callback by event kind. It moves RT and SY slot openings 1000 µs earlier; the schedule-install bias is commented out.
* `twheel_delete_timeout` deletes the first pending REXEC_TIMEOUT whose argument equals the id.
* `twheel_get_next` tests `timeouts_expired` without the mutex, then takes one entry under it.
* `twheel_update_to_now` advances the wheel to the monotonic clock.

**Function registry** (`tboard.c` 281-308, spec C3).
* A uthash table keyed by name, with no mutex.
* Register copies the name and signature. uthash does not check duplicates: a second registration of a name adds a second entry.
* Find returns one entry. Destroy frees every entry.

**Bridge (JAM worker)** (`jamworker.c`, spec C9).
* `jwork_msg_arrived` runs on the MQTT client's thread. It decodes reply- and request-topic messages into commands and pushes them onto that tier's in-queue (device, fog or cloud).
* The background thread polls every queue, then dispatches. The device processor handles:
  * `REXEC-SYN`: argument check, condition, quorum, then the sync table or the global in-queue;
  * `REXEC-ASY`: argument check, condition, global in-queue;
  * `REXEC-ASY-CBK`: run-table lookup, condition;
  * `REXEC-ACK`/`NAK`/`RES`: routed to the activity with that `actid`;
  * any other command is freed.
* The fog and cloud processors route only ACK and NAK and free everything else.
* The global out-queue and the activity out-queues are published to every enabled tier.
* `jwork_send_error`/`jwork_send_nak`/`jwork_send_results` publish replies.
* `jam_set_timer`/`jam_clear_timer`/`tcallback` put a `TIMEOUT` command into an activity's in-queue. `stcallback` puts a `SYNC_TIMEOUT` into the global in-queue.

**Remote-call state machine** (spec 4.5). `sent → acked → completed`. `timed_out`, `nak` and `failed` are the other terminal states. Each transition wakes the parent, and later replies are dropped. In this repository it lives in the activity code of jamlib, which is not under `src/`. The bridge's routing is under `src/`.

**Arguments** (`args.c`, spec C11). `process_args` runs `getopt` over `p:a:n:g:t:x:`, applies `atoi`, and validates appid, port, serial number and executor count.

**Not modelled.**
* minicoro coroutines: a resume is abstracted to its outcomes.
* History: only `history_destroy` is called from `src/`.
* Logging: output only.
* The ESP32 stub: declarations only.
* The function registry: no caller under `src/`, and its semantics are those of uthash, which is not in the repository (see plan item 5).
* `jwork_send_results`, `jam_set_sync_timer` and `stcallback`: nothing under `src/` calls them.
* `tboard_get_concurrent` and `tboard_inc_concurrent`: nothing under `src/` calls them, and the model's tasks are admitted only through `tboard_add_concurrent`. `tboard_inc_concurrent` has no cap test, which is listed as a hazard at `tboard.c:258`.
* The MQTT client and the command codec: external collaborators.

### How the components interact

* The application submits tasks into board queues, and the executors consume them. Threads share board state under per-queue mutexes and condvars.
* Shutdown is a three-party handshake:
  * the application holds `tmutex` around `tboard_kill`;
  * kill wakes and cancels the executors, then waits on `tcond`;
  * destroy joins the executors, broadcasts `tcond` and takes `tmutex`.
* Remote calls:
  * an activity's request goes from its out-queue through the bridge to every enabled MQTT tier;
  * replies come back on the MQTT threads into per-tier queues;
  * the bridge routes them into the activity's in-queue, where they race with the activity's `TIMEOUT` timer.

### Hard behaviours

* Several OS threads: the executors, the application threads calling kill and destroy, the bridge thread and the MQTT callback threads.
* Cancellation and condition waits with no predicate loop.
* Teardown racing threads that still hold references.
* Replies duplicated by the three-tier fan-out, lost (fog and cloud RES are freed), or reordered across tiers.
* Timeouts racing late replies.
* Uninitialised values (`quorum` at jamworker.c:396, `groupid` in args.c) and a wrong-typed argument (`jwork_send_nak(js->cstate->mqttserv[0], …)`).

### What makes each component correct

| component | correctness properties |
|-----------|------------------------|
| task board | every admitted task is destroyed exactly once; `task_count` equals the live tasks; kill returns only after every executor is joined; no thread touches the board after it is freed; kill and destroy both finish; no thread is cancelled after it was joined |
| timer wheel | no event fires before its (biased) time; every event fires exactly once unless deleted; a delete leaves no pending timeout for the id |
| registry (not modelled) | find returns the most recent registration; destroy frees every entry once |
| bridge / remote call | a pending call's parent sees exactly one terminal reply; a reply for a pending call is never dropped; a request is scheduled or answered (NAK/ERR), never silently dropped; no command is leaked |
| arguments | exactly the valid option lists are accepted |

## 2. Plan

The modules, in the order the project builds them (most important behaviour first):

1. **`TaskBoard`** (done, sitting 1): the lifecycle, the shutdown handshake, the executors and the counter. `MCTaskBoard` instantiates it.
2. **`Bridge`** (done, sitting 1): `jamworker.c` inbound routing per tier, outbound fan-out, and the reply helpers. It includes environment peers per tier that ACK, NAK or RES, and the activity timer (`tcallback`). Its runs are about duplicate and lost replies, leaks and answered requests.
3. **`RemoteCall`** (done, sitting 2): the abstract remote-call state machine of spec 4.5. `Bridge`, which includes the activity side from the spec, is shown to implement it with `INSTANCE … WITH` a refinement mapping. The check runs on the three-tier configuration, where replies fan in from every tier.
4. **`TimerWheel`** (done, sitting 1; refinement to `TimerService` in sitting 3): the `twheel-utils.c` operations over a bounded clock, shown to implement the abstract timer service of spec 4.2, with `delete_timeout` raced against `get_next`.
5. **`Registry`** (not modelled, decided in sitting 2): `tboard_register_func`, `tboard_find_func` and `destroy_func_registry` have no caller under `src/`. Their behaviour on duplicates, and the order in which lookup finds entries, belongs to uthash, which is not in the repository. A model would only restate uthash. The duplicate-name divergence from spec 6 ("duplicate names overwrite") is listed as a hazard at `tboard.c:287`.
6. **`Args`** (done, sitting 2): `process_args` as an operator over bounded argument lists, checked against a reference validity predicate from the spec's table.
7. Not planned: a composition of `TaskBoard` with parked remote tasks. `task_table` is only set to `NULL` (`tboard.c:81`). The code that parks a task on a remote call is not under `src/`.

## 3. Modules and runs so far

### `TaskBoard` (tboard.c + executor loop from spec 4.7)

**Constants**:
* `S` secondary queues and `MAX_TASKS`;
* `Tasks`, `Callers` (threads that call `tboard_kill`) and `NoTask` as model values;
* `SpuriousWakeups`: whether `pthread_cond_wait` may return without a signal, which POSIX allows.

**State**:

| variables | code state |
|-----------|------------|
| `status`, `shutdown`, `taskCount` | the board fields |
| `queue[q]` | the primary queue (q = 0) or the secondaries |
| `tstate[t]`, `freed[t]` | a task's life and how often `task_destroy` ran on it |
| `wpc`, `cur`, `signalled`, `cancelled` | each executor thread and the pending signal and cancel on it |
| `kpc`, `kq`, `kwoken`, `kret` | each kill caller: its control point, loop index, whether the broadcast reached it, and what kill returned |
| `dpc`, `dq` | the destroying thread and its join loop |

**Mutexes.** A mutex held only inside one atomic step needs no variable. A queue mutex is held across steps only by its own executor. `emutex` is held across steps only by a kill caller: from the lock to the wait, and from the re-lock to the unlock. `tmutex` is held by a caller from before kill until after it: this is the application's protocol, assumed from the comment at tboard.c:131-133 and spec 4.6.

**Actions**, one per step of the code:
* `Start`;
* `CreateTask`: admit through `AddConcurrent`, then enqueue and signal;
* the executor: `ExecLock`, `ExecCheck` (wait, exit or pop), `ExecWake`, `ExecCancelled`, `ExecYield`, `ExecComplete`;
* kill, from `KillLockTmutex` to `KillUnlockTmutex`: `KillNotRunning` (status 0), `KillBegin` (lock emutex, set shutdown), `KillCancel` (one queue per step), `KillWait`, `KillWake`, `KillRelock`, `KillReturn`;
* destroy: `DestroyBegin`, `DestroyJoin` (one thread per step), `DestroyBroadcast`, `DestroyTeardown`, `DestroyFree`.

**Fairness.** Weak fairness for each executor, for each caller already inside kill, and for destroy once called. These are OS threads that the scheduler keeps running. The application's own calls (start, submit, kill, destroy) are not forced.

**Bounds.**
* One primary and one secondary queue. Both kinds of queue exist, and destroy's loops are exercised.
* Two tasks against `MAX_TASKS = 1`. Admission is both granted and refused, and a task can be left queued at teardown.
* Two threads that may call `tboard_kill` in `board_shutdown`. Under the tmutex protocol they do not race inside `tboard_kill`: the first to take `tmutex` runs kill to its end, and by then destroy has broadcast, so the other never calls kill on this board (`KillLockTmutex` refuses a board destroy is taking apart). The second caller therefore only checks that either thread may be the one. The two violation runs use one caller.

Every interleaving of kill, destroy and the two executors is explored (about 44,000 states).

| run | cfg | expect | what it shows |
|-----|-----|--------|---------------|
| `board_shutdown` | `MCTaskBoard.cfg` | pass | `TaskFreedExactlyOnce`, `TaskCountMatchesLive`, `KillReturnsAfterJoin`, and `KillAndDestroyComplete` (the broadcast taken under emutex loses no wake-up) |
| `board_kill_spurious_wakeup` | `MCTaskBoardSpurious.cfg` | violation | `tboard_kill` waits on `tcond` once, without a predicate, so a spurious wake-up returns `true` before any executor is joined |
| `board_cancel_after_join` | `MCTaskBoardCancel.cfg` | violation | `shutdown` is set before the cancel loop. An executor that sees it exits by itself, destroy joins it, and kill then calls `pthread_cancel` on the joined thread id (undefined behaviour) |

**Assumptions.**
* The application follows the tmutex protocol stated in the comment at tboard.c:131-133 and in spec 4.6. That code is not under `src/`, so `KillLockTmutex` and `KillUnlockTmutex` are modelled from the spec. Under the protocol the teardown cannot overlap kill by construction, so no property is spent on it (hazard at tboard.c:203).
* Creation is atomic: admission, then enqueue under the queue mutex.
* Cancellation is acted on only inside the condvar wait, which is the spec's assumption for user code.

### `Bridge` (jamworker.c + activities and timer library from spec 4.5)

**Constants**:
* `Enabled`: the tiers whose MQTT client is enabled (`mqttenabled[i]`);
* `Acts`, `Calls` and `CallsOf`: the prespawned activity threads and the calls each one issues in turn. Reusing a thread for a second call is what the code does with its fixed `athreads[]` table;
* `PeerKinds[t]`: the replies the tier-t peer may send;
* `Requests`: requests peers send on the device tier. Each is a record holding the outcome of the checks the bridge makes (`jwork_check_args`, `jcond_evaluate_cond`, `jcond_synchronized`, `runtable_find`);
* `GlobalCmds`: LOCAL and remote commands of the main thread;
* `Quorums`: the values a sync-table insertion may carry;
* `Fragile`: the tiers whose broker connection may drop;
* `Announces`: whether the device broker sends `/admin/announce/all`.

**State**:

| variables | code state |
|-----------|------------|
| `wire[t]` | messages the tier-t broker has not yet delivered to the client thread |
| `inq[t]` | `deviceinq`, `foginq`, `cloudinq` |
| `gout`, `outq[a]` | `atable->globaloutq`, `athreads[a]->outq` |
| `pub[t]` | requests published on `/level/func/request` of tier t |
| `inbox[a]`, `act[a]` | `athreads[a]->inq`, the thread's `actid` and its call's state (spec 4.5) |
| `timers`, `firing` | armed `maintimer` events, and events the timer thread has taken but whose `tcallback` has not run |
| `globalinq`, `synctable`, `replyOut` | the global in-queue, the run table's sync tasks, the NAK/ERR replies published |
| `lost` | the tiers whose connection dropped (`jwork_connect_lost` ran) |
| `answers`, `expired`, `outcome`, `processed`, `reqSent`, `gsent`, `announced` | history: what peers sent, whose timer expired, how each call ended, which requests were handled, what the environment already sent |

**Actions**:
* `MsgArrived(t)`: the tier's MQTT thread drops announcements and queues reply- and request-topic commands;
* `BridgeThread`, one readable queue per step, guarded by `Readable`: the `jwork_bgthread` loop runs `jwork_processor` only when `nn_poll` over `PollFds` (the queues `jwork_assemble_fds` registers) reports one readable; a poll timeout is a stutter:
  * `ProcessGlobalOutq` and `ProcessActOutq(a)`: publish to every enabled tier; LOCAL commands are dropped;
  * `ProcessDevice`: `HandleRequest` for SYN/ASY/ASY-CBK, `RouteReply` for ACK/NAK/RES, free otherwise;
  * `ProcessFog`/`ProcessCloud`: route ACK/NAK, free the rest;
* `SetTimer` (`jam_set_timer`): `activity_getbyid` either finds the activity and a timer event is armed, or finds none, and the function prints an error and arms nothing. `activity_getbyid` is not under `src/`, so both outcomes are possible;
* `TimerExpire`, then `TimerCallback` (`tcallback`), as two steps of the timer thread;
* the activity: `Issue` (queue the request, `jam_set_timer`) and `Consume` (a message for the current call moves it by `Step`, spec 4.5's table: ACK and NAK only from `sent`; the first terminal message wins, then `jam_clear_timer`);
* the environment: `MainSend`, `PeerReply` (ACK then RES, or one of NAK/ERR/RES), `PeerRequest` (on a broker in `RequestTiers`), `PeerAnnounce` (when `Announces`), and `ConnectionLost(t)` for a tier in `Fragile`.

**Fault model: a lost broker connection.** `jwork_connect_lost` (jamworker.c 173-177) only prints the cause. Nothing in `src/` reconnects the client or subscribes again. `ConnectionLost(t)` may happen at any point, once per tier in `Fragile`, and `Connected(t)` then stays false for the life of the process. From then on the tier's MQTT thread delivers nothing, and publishes on it go nowhere. That covers the fan-out of `ProcessGlobalOutq`/`ProcessActOutq`, and on the device client the NAK and ERR replies of `SendNak`/`SendError`. Messages already in the bridge's own queues are still processed. The environment step is not forced (no fairness), so behaviours where the connection never drops are included.

The poll loop serves every readable queue in a fixed order each round. The model serves any non-empty queue next, which includes every order the loop produces.

**Undefined behaviour.** The ASY and ASY-CBK NAK paths pass `js->cstate->mqttserv[0]` as the `jamstate_t *`. `SendNakWrongHandle` chooses between a NAK that does go out and one that is lost. A crash is the other outcome the build can produce; it stops the bridge altogether.

**Fairness.** Weak fairness for each MQTT client thread, the background thread, the timer thread for each event, and each activity consuming its in-queue. These are threads that loop for the life of the process. Peers, the main thread and the activities' decision to issue a call are not forced.

**Bounds.**
* One activity thread.
* `bridge_calls` has one call, all three tiers, and the device connection may drop (`Fragile = {"device"}`). This covers fan-out, the fog/cloud processors, cross-tier reordering, and loss before, during and after the call (171,159 states, about three minutes). Announcements are off here: with them the run exceeds five minutes. They are exercised in `bridge_requests` and the violation runs, where `MsgArrived` drops them.
* Loss of the fog or cloud connection as well was checked by hand and behaves the same way (one call, 222 s for device and fog), but it does not fit the time limit with three tiers.
* `bridge_requests` has five requests, one down each SYN branch plus an accepted ASY-CBK, and one remote global command (74,160 states, about a minute). With a LOCAL command as well the run took over four minutes on this machine, too close to the limit. The LOCAL test in `ProcessGlobalOutq` (a one-line drop) is therefore not exercised by a passing run.
* Calls and requests are in separate runs because together they multiply the interleavings past the time limit. They share only the device queue, where they do not interact.
* The stale-timeout run gives the thread two calls.

| run | cfg | expect | what it shows |
|-----|-----|--------|---------------|
| `bridge_calls` | `MCBridge.cfg` | pass | `RemoteCallSafety`: the safety part of `RemoteCall` holds. An activity moves a call only on a reply a peer sent for it, or on its own timer. A timer fires only while its call is open (`jam_clear_timer` retracts it). A terminal state is final. `ArmedCallEnds`: a call whose timer was armed always ends, even if the device connection drops. `RemoteCall`'s own liveness (every call ends) is not claimed: when `jam_set_timer` finds no activity and the peers are silent or unreachable, the call waits forever. That rest state is why the cfg sets `CHECK_DEADLOCK FALSE`. `TypeOK` is checked in `bridge_requests`. |
| `bridge_requests` | `MCBridgeRequests.cfg` | pass | `RequestHandled` (liveness): every request sent on the device broker is eventually scheduled or answered. This covers every SYN branch and an accepted ASY-CBK, including the uninitialised-quorum insertion. |
| `bridge_replies_dropped` | `MCBridgeDropped.cfg` | violation | `ReplyRouted` (a reply the per-tier processor takes off an in-queue for a pending call is put on that activity's in-queue) fails with fog peers answering RES and device peers answering ERR: the fog processor frees a REXEC-RES for a pending call (the cloud processor does the same), and the device processor frees REXEC-ERR, so spec 4.5's `failed` state is unreachable |
| `bridge_requests_unanswered` | `MCBridgeAsyNak.cfg` | violation | `RequestHandled` fails for a refused REXEC-ASY on the device broker. TLC's trace: the peer sends it, the MQTT thread queues it, `ProcessDevice` takes the condition-false branch, and the NAK goes through the wrong handle and is lost (`replyOut` stays empty). With the fog broker in `RequestTiers` as well, the same property also fails for any request that arrives through fog, which `jwork_process_fog` frees (checked by hand, hazard at jamworker.c:104). |
| `bridge_stale_timeout` | `MCBridgeStaleTimeout.cfg` | violation | `RemoteCallSafety` fails: the timer thread takes c1's event, c1 completes, the thread issues c2, and `tcallback` posts TIMEOUT with c2's id: c2 ends `timed_out` although its own timer never expired |

**Assumptions.**
* The activity code (not under `src/`) discards a message whose actid is not its current call, and takes the first terminal message. This is the spec's remote-call state machine, and it is the most forgiving reading of that code: the stale-timeout run still fails under it.
* `activity_id2indx` returns the thread whose current actid matches.
* `bridge_requests` keeps every connection up (`Fragile = {}`): a request sent before the device connection drops, whose NAK is then published on a dead client, is never answered, so `RequestHandled` holds only while the connection lives.
* Peers send requests on the device broker (`RequestTiers`) in every run.

### `TimerWheel` (twheel-utils.c + libtimeout contract and executor loop from spec 4.2, 4.7)

**Constants.**
* `Workers`: the executor threads that service the wheel.
* `Events`, `Info`: each event is a model value with a kind, an argument (a slot, or a call id for `REXEC_TIMEOUT`) and a delay.
* `MaxTime`: the bound on the clock.
* `Early`: `EARLY_TIME_FOR_RT`, scaled to the model's time unit.
* `LongBits`, `TimeoutBits`: the widths of `long` (what `getcurtime` returns) and of `timeout_t` (the wheel's time).

The widths are scaled down with the clock so that a wrap of `long` happens inside the modelled time exactly when it would in the real program. `MCTimerWheel.cfg` uses 8 and 9 bits: `long` does not wrap within `MaxTime`, as on LP64, where it wraps after 292,000 years. `MCTimerWheel32.cfg` uses 4 and 6 bits with a clock that reaches the wrap, as a 32-bit `long` does after about 36 minutes.

**State.**

| variable | code |
|----------|------|
| `now` | `CLOCK_MONOTONIC` in microseconds |
| `wheelNow` | the wheel's current time (`timeouts_update`) |
| `st[e]` | where event `e` is: not yet added, on the pending wheel, on the expired list, taken by `get_next`, fired, or deleted |
| `at[e]` | the `timeout_t` expiry passed to `timeouts_add` |
| `addedAt[e]`, `takenAt[e]` | the times of the add and of the `get_next` that handed it out (history for `NotEarly`) |
| `wpc[w]` | where worker `w` is in its loop, or the event it is about to run |
| `delRes[id]` | what `twheel_delete_timeout` returned for `id` |

**Actions.**
* `AddEvent` is `twheel_add_event`: `getcurtime() + delay`, the kind's bias, conversion to `timeout_t`, and `timeouts_add`. An expiry at or below the wheel's time goes straight to the expired list, as libtimeout does.
* `DeleteTimeout` is `twheel_delete_timeout`. It walks the pending entries only (`TIMEOUTS_PENDING`) and deletes the first one whose argument is the id.
* `UpdateToNow` is `twheel_update_to_now`, which calls `timeouts_update` under the lock.
* `GetNextCheck` and `GetNextGet` are `twheel_get_next`: the unlocked `timeouts_expired` test, then the locked `timeouts_get`, which may return NULL if another worker took the entry in between.
* `RunCallback` is the executor running the event it got.
* `Tick` advances the clock.

**Fairness.** Weak fairness for `Tick` (the clock advances) and for each worker, which loops for the life of the process.

**Bounds.**
* Two workers, so the race between the unlocked test and the locked get occurs.
* Three events on one slot and one call id: an opening (biased early), a close (not biased), and a remote-call timeout that may be deleted at any time.
* Delays of 2 and `MaxTime` 4, so that adds, updates and deletes interleave before and after each expiry.
* `timerwheel_workers` reaches 137,167 distinct states.

| run | cfg | expect | what it shows |
|-----|-----|--------|---------------|
| `timerwheel_workers` | `MCTimerWheel.cfg` | pass | `TimerServiceSpec`: the wrapper and its workers implement `TimerService` (below). Each event is handed out once, never before its delay less the bias its kind allows. A delete returning true means the timeout never runs, and a delete returns false for a scheduled timeout only once it is due. Every added event is eventually handed out or cancelled. Also `TypeOK` |
| `timerwheel_32bit_long` | `MCTimerWheel32.cfg` | violation | with a 32-bit `long`, an RT_CLOSE added just before the wrap gets an expiry below the wheel's time and fires at once |

**Assumptions.**
* libtimeout is modelled by its contract, not its wheel layout: an entry is pending until the wheel's time reaches its expiry, then expired until `timeouts_get` hands it out.
* The executor loop (not under `src/`) calls `update_to_now`, then `get_next`, and runs whatever it gets.
* Memory is not modelled. The struct and the cloned id that a delete leaves behind are listed as a hazard.

**`TimerService` and the refinement.** `TimerService` is what spec 4.2 promises the wheel's users, per event: `idle`, then `scheduled` with a deadline `now + delay`, then either `handed` to a worker or, for a remote-call timeout, `cancelled` by a delete. `Hand(e)` is enabled only once `now >= due[e] - Allowance(kind)`. `Delete(id)` either cancels a scheduled timeout of that id and reports `removed`, or reports `not_found`, which it may only do when no timeout of that id is still scheduled and not yet due. Its fairness is weak fairness on `Tick` and on each `Hand(e)`: time passes, and a due event does not wait forever for a worker. `TimerService` has no run of its own; it is checked as the property of `timerwheel_workers`, where making `twheel_delete_timeout` report a removal without unlinking the entry (`DeleteTimeoutNoDel`) breaks it.

`TimerWheel` maps onto it with `TS == INSTANCE TimerService WITH ev <- [e |-> Phase(st[e])], due <- …`. An entry on the pending or the expired list is `scheduled`, a taken or fired one is `handed`, a deleted one `cancelled`. The deadline is `addedAt[e] + delay`. `now`, `delRes` and the constants map to themselves. `UpdateToNow`, `GetNextCheck`, `RunCallback` and a failed `GetNextGet` are stuttering steps of the abstract spec. A successful `GetNextGet` is `Hand`. The property replaces the three invariants the run checked before (never early, cancelled never fires, eventually resolved), which it implies. `NotEarly` is kept for `timerwheel_32bit_long`, where the violation is about the time an event is handed out.

### `Args` (args.c; getopt and atoi from libc)

`process_args` is sequential, so it is modelled as operators and one action. `Run` applies `ProcessArgs` to an argument vector that `Init` picks from `Argvs`.

**Data.**
* A token is a sequence of one-character strings. This lets `getopt` split `-p80` from `-p 80`, and `atoi` read digits, signs and spaces, as they really do.
* `int` has `IntBits` bits and `long` has `LongBits` bits. The check uses 8 and 12, and the port range is scaled to `[10, 99]`. `"300"` overflows `int` here as `"4294967376"` does with a 32-bit `int`.

**Operators.**

| operator | code |
|----------|------|
| `NextOpt` | one `getopt` call. GNU, `opterr = 0`: `--` ends options, `-c v` and `-cv` give `v`, an unknown option or a missing argument gives `?`, and other tokens are skipped. |
| `Atoi`, `Strtol` | `(int) strtol(s, NULL, 10)`: spaces, sign, digits; saturated at `LONG_MAX`, then truncated to `int` |
| `DefaultArgs` | the defaults; `groupid` is left indeterminate |
| `Apply` | the `switch` |
| `ParseLoop` | the `while (getopt …)` loop; `?` is `terminate_error(true, usage)`, which exits |
| `Passes`, `Checks`, `ProcessArgs` | the four `args_*_valid` tests in order, and the early `return NULL` |

**Reference definitions.**
* `GetoptPairs` and `LastText` give the pairs `getopt` yields and the text of an option's last occurrence.
* `SpecValid` is the CLI table of spec 6, over the mathematical value of well-formed decimal text.

**Bounds.** `args_parse` runs every vector of up to three tokens over 15 tokens: seven options, `--`, `-az`, `-p80`, and numbers, negative numbers, text, empty text and space-prefixed text. That is 3,616 vectors and 7,284 states. Three tokens are enough for an option, its separate value and a repeat.

| run | cfg | expect | what it shows |
|-----|-----|--------|---------------|
| `args_parse` | `MCArgs.cfg` | pass | `TypeOK` on every vector: `process_args` either exits with the usage message or returns a verdict on a well-formed block (a missing `appid = NULL` breaks it). It also drives every action for the coverage of the violation run below. |
| `args_invalid_accepted` | `MCArgsInvalid.cfg` | violation | `-a ""` is accepted, though the spec requires a non-empty application id; and `-az -p300` is accepted with port 44, because `atoi` wraps the value into the valid range |

**Assumptions.**
* `terminate_error(true, …)` exits; `terminate_error(false, …)` only prints. `utilities.c` is not under `src/`.
* `getopt` permutes non-option arguments (GNU, without `POSIXLY_CORRECT`).
* The error messages are output and are not modelled. Lines 70, 75 and 80 read `args->…` after `destroy_args(args)` has freed it; this use after free is listed as a hazard.

### `RemoteCall` (spec 4.5) and the refinement from `Bridge`

`RemoteCall` states what a remote call promises its parent. It keeps one record per call:
* `rc[c]`: unissued, sent, acked, or one of the terminal states;
* `replies[c]`: the reply kinds the remote side has sent;
* `fired`: the calls whose own timer has fired.

Its actions are `Issue`, `Respond` and `TimerFire`, and the five transitions `Ack`, `Nak`, `Complete`, `Fail` and `TimeOut`. Each transition needs its trigger, and terminal states are final. Weak fairness on `TimerFire` and `TimeOut` says every issued call ends. That is what the spec promises. The bridge keeps only the safety part and, for calls whose timer was armed, the end (see below). `RemoteCall` has no run of its own; it is checked as the property of a `Bridge` run.

The mapping is at the end of `Bridge.tla`:

| `RemoteCall` | `Bridge` |
|--------------|----------|
| `rc[c]` | `CallState(c)`: the outcome the activity recorded, else the state of the activity whose current call is `c`, else unissued |
| `replies[c]` | the kinds any tier's peer answered for `c` |
| `fired` | `expired`, the calls whose own timer the timer thread took |

`bridge_calls` checks `RemoteCallSafety == RC!Init /\ [][RC!Next]_RC!vars`, with the device connection liable to drop: 171,159 states. `RemoteCall`'s fairness (every issued call ends) does not hold of the code. `jam_set_timer` arms nothing when `activity_getbyid` misses, and a call with no timer and no reachable peer never ends. The bridge run therefore states the liveness it does have as `ArmedCallEnds`, which follows from the fairness of the timer thread and the activity. `bridge_stale_timeout` breaks the refinement: `tcallback` reads `athr->actid` after the activity has moved on to its next call, so that call is timed out by a timer that was not its own.
