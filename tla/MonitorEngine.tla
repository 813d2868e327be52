---------------------------- MODULE MonitorEngine ----------------------------
(***************************************************************************)
(* The monitoring engine's event loop (src/monitor/engine.cpp) with its    *)
(* timers (timer_manager.cpp), select() registrations (aio_manager.cpp),   *)
(* callbacks and their worker threads (callback_registry.cpp) and the      *)
(* wake-up pipe (wake_pipe.cpp).                                           *)
(*                                                                         *)
(* The control operations hold _control_mutex from end to end and do not   *)
(* depend on who calls them: an application thread, a callback on the loop *)
(* or a worker. Each is one step, possible at any time. A callback object  *)
(* is identified with the timer or AIO entry that owns it.                 *)
(*                                                                         *)
(* Instants of the steady clock are counted from the present: due[i] is    *)
(* how long it is to _next, negative once that has passed. A time that     *)
(* passes may fall between any two steps.                                  *)
(***************************************************************************)
EXTENDS Integers, Sequences, FiniteSets, SequencesExt

CONSTANTS
    Ids,        \* entries; an id is never used twice
    Kinds,      \* kinds of entries the application registers
    Delays,     \* delays of its timers
    IdleWait,   \* the select() timeout without a timer
    MaxLate     \* bound: a timer later than this counts as this late

AllKinds == {"aio", "aioWorker", "once", "recurring", "worker"}
AioKinds == {"aio", "aioWorker"}
Asynchronous == {"aioWorker", "worker"}
Recurring == {"recurring", "worker"}

ASSUME EngineAssumption ==
    /\ Kinds \subseteq AllKinds /\ Delays \subseteq Nat \ {0}
    /\ IdleWait \in Nat \ {0} /\ MaxLate \in Nat /\ \A d \in Delays : d <= MaxLate

VARIABLES
    phase,       \* _phase
    wake,        \* the pipe holds a byte
    kind,        \* id -> its kind, "none" before it is registered
    alive,       \* ids whose entry exists
    entries,     \* AioManager::_entries
    pendingRemove, \* ids remove_aio() accepted: _pending_remove
    timers,      \* TimerManager::_timers
    due,         \* id -> time until _next
    interval,    \* id -> _interval, 0 for a timer that fires once
    registry,    \* CallbackRegistry::_cbs
    worker,      \* id -> its worker thread: "none", "wait", "run" or "exited"
    pending,     \* callbacks with _pending
    cbStopping,  \* callbacks with _stopping
    lpc,         \* where run() is
    cur,         \* the entry whose callback run() is calling
    armed,       \* armed_entries of this round
    hot,         \* armed entries select() found readable
    ready,       \* ready_cbs still to be activated
    doomed,      \* callbacks whose workers are being stopped by this thread
    timeout,     \* the timeout of select(), and what is left of it
    lag          \* history: time from check() to select(), in this round

aioVars == <<entries, pendingRemove>>
timerVars == <<timers, due, interval>>
callbackVars == <<alive, kind, registry>>
workerVars == <<worker, pending, cbStopping>>
waitVars == <<timeout, lag>>
roundVars == <<cur, armed, hot, ready, doomed, waitVars>>
engineVars == <<phase, wake, aioVars, timerVars, callbackVars, workerVars, lpc, roundVars>>

NoId == "none"
Pipe == "pipe"     \* the wake-up pipe, the first entry

EngineInit ==
    /\ phase = "CREATED" /\ wake = FALSE
    /\ kind = [i \in Ids |-> "none"] /\ alive = {}
    /\ entries = <<>> /\ pendingRemove = {}
    /\ timers = <<>> /\ due = [i \in Ids |-> 0] /\ interval = [i \in Ids |-> 0]
    /\ registry = {} /\ worker = [i \in Ids |-> "none"] /\ pending = {} /\ cbStopping = {}
    /\ lpc = "none" /\ cur = NoId /\ armed = <<>> /\ hot = {} /\ ready = <<>>
    /\ doomed = {} /\ timeout = 0 /\ lag = 0

-----------------------------------------------------------------------------
(* Engine::init: the pipe is made and registered as the first AIO entry;    *)
(* any failure restores CREATED.                                            *)
init ==
    /\ phase = "CREATED" /\ phase' = "INITIALIZING"
    /\ UNCHANGED <<wake, aioVars, timerVars, callbackVars, workerVars, lpc, roundVars>>

InitEnds ==
    /\ phase = "INITIALIZING"
    /\ \/ phase' = "READY" /\ wake' = TRUE         \* AioManager::add wakes the loop
       \/ phase' = "CREATED" /\ UNCHANGED wake
    /\ UNCHANGED <<aioVars, timerVars, callbackVars, workerVars, lpc, roundVars>>

accepts_registration == phase \in {"READY", "RUNNING"}

(* What AioManager::add and TimerManager::add have in common. A failing     *)
(* wake-up write undoes the registration, so only success changes state.    *)
Register(i, k) ==
    /\ accepts_registration /\ kind[i] = "none"
    /\ kind' = [kind EXCEPT ![i] = k] /\ alive' = alive \cup {i}
    /\ registry' = registry \cup {i} /\ wake' = TRUE

add_aio(i, k) ==
    /\ k \in AioKinds /\ Register(i, k)
    /\ entries' = <<i>> \o entries
    /\ UNCHANGED <<phase, pendingRemove, timerVars, workerVars, lpc, roundVars>>

(* Variant: the entry is destroyed at once. *)
remove_aio_AtOnce(i) ==
    /\ accepts_registration /\ i \in Range(entries) \ pendingRemove
    /\ entries' = SelectSeq(entries, LAMBDA e : e # i) /\ alive' = alive \ {i}
    /\ registry' = registry \ {i} /\ wake' = TRUE
    /\ UNCHANGED <<phase, pendingRemove, kind, timerVars, workerVars, lpc, roundVars>>

(* Marks the entry; the loop retires it at the start of its next round.     *)
remove_aio(i) ==
    /\ accepts_registration /\ i \in Range(entries) \ pendingRemove
    /\ pendingRemove' = pendingRemove \cup {i} /\ wake' = TRUE
    /\ UNCHANGED <<phase, entries, timerVars, callbackVars, workerVars, lpc, roundVars>>

(* find_insert_position_locked: behind the entries that are not later.      *)
insert_position(t, s) ==
    1 + Cardinality({j \in 1 .. Len(s) : \A l \in 1 .. j : due[s[l]] <= t})

insert_sorted(i, t, s) == InsertAt(s, insert_position(t, s), i)

(* Variant: the loop is not woken for a new timer. *)
set_timer_NoWake(i, k, d) ==
    /\ k \notin AioKinds /\ accepts_registration /\ kind[i] = "none"
    /\ kind' = [kind EXCEPT ![i] = k] /\ alive' = alive \cup {i}
    /\ registry' = registry \cup {i}
    /\ timers' = insert_sorted(i, d, timers)
    /\ due' = [due EXCEPT ![i] = d]
    /\ interval' = [interval EXCEPT ![i] = IF k \in Recurring THEN d ELSE 0]
    /\ UNCHANGED <<phase, wake, aioVars, workerVars, lpc, roundVars>>

set_timer(i, k, d) ==
    /\ k \notin AioKinds /\ Register(i, k)
    /\ timers' = insert_sorted(i, d, timers)
    /\ due' = [due EXCEPT ![i] = d]
    /\ interval' = [interval EXCEPT ![i] = IF k \in Recurring THEN d ELSE 0]
    /\ UNCHANGED <<phase, aioVars, workerVars, lpc, roundVars>>

(* A failed write of the wake-up byte is ignored here.                      *)
stop ==
    /\ phase = "RUNNING" /\ phase' = "STOPPING" /\ wake' \in {wake, TRUE}
    /\ UNCHANGED <<aioVars, timerVars, callbackVars, workerVars, lpc, roundVars>>

run ==
    /\ phase = "READY" /\ phase' = "RUNNING" /\ lpc' = "loop"
    /\ UNCHANGED <<wake, aioVars, timerVars, callbackVars, workerVars, roundVars>>

-----------------------------------------------------------------------------
(* EnhancedCallback *)

(* activate(): a synchronous callback starts on the loop thread; a worker   *)
(* gets one pending activation, and is started when there is none yet       *)
(* (which may fail). after is where run() goes on.                          *)
activate(i, after) ==
    \/ /\ i \in cbStopping \/ (kind[i] \in Asynchronous /\ worker[i] = "none")
       /\ lpc' = after /\ UNCHANGED workerVars
    \/ /\ i \notin cbStopping /\ kind[i] \notin Asynchronous
       /\ lpc' = "callback" /\ UNCHANGED workerVars
    \/ /\ i \notin cbStopping /\ kind[i] \in Asynchronous
       /\ worker' = [worker EXCEPT ![i] = IF @ = "none" THEN "wait" ELSE @]
       /\ pending' = pending \cup {i} /\ lpc' = after /\ UNCHANGED cbStopping

(* Variant: the worker waits for an activation only. *)
WorkerTakes_IgnoresStop(i) ==
    /\ worker[i] = "wait" /\ i \in pending
    /\ worker' = [worker EXCEPT ![i] = "run"] /\ pending' = pending \ {i}
    /\ UNCHANGED <<phase, wake, aioVars, timerVars, callbackVars, cbStopping, lpc, roundVars>>

(* worker_loop: take the pending activation, or leave once stopping.        *)
WorkerTakes(i) ==
    /\ worker[i] = "wait" /\ (i \in pending \/ i \in cbStopping)
    /\ IF i \in cbStopping
       THEN worker' = [worker EXCEPT ![i] = "exited"] /\ UNCHANGED pending
       ELSE worker' = [worker EXCEPT ![i] = "run"] /\ pending' = pending \ {i}
    /\ UNCHANGED <<phase, wake, aioVars, timerVars, callbackVars, cbStopping, lpc, roundVars>>

WorkerReturns(i) ==
    /\ worker[i] = "run" /\ worker' = [worker EXCEPT ![i] = "wait"]
    /\ UNCHANGED <<phase, wake, aioVars, timerVars, callbackVars, pending, cbStopping, lpc,
                   roundVars>>

(* stop_worker of one callback after the other in doomed: set _stopping,    *)
(* then join. A callback already stopping is not waited for again.          *)
StopWorker(i) ==
    /\ i \in doomed \ cbStopping
    /\ \A j \in doomed \cap cbStopping : worker[j] \in {"none", "exited"}
    /\ cbStopping' = cbStopping \cup {i} /\ pending' = pending \ {i}
    /\ UNCHANGED worker

Joined == \A j \in doomed : j \in cbStopping /\ worker[j] \in {"none", "exited"}

-----------------------------------------------------------------------------
(* Engine::run *)

LoopTest ==
    /\ lpc = "loop" /\ lpc' = IF phase = "RUNNING" THEN "check" ELSE "leave"
    /\ UNCHANGED <<phase, wake, aioVars, timerVars, callbackVars, workerVars, roundVars>>

(* TimerManager::check, one turn of its loop: nothing is due and the wait   *)
(* is computed, or the first timer leaves the list and its callback starts. *)
CheckTimers ==
    /\ lpc = "check"
    /\ IF timers = <<>> \/ ~(due[Head(timers)] < 0)
       THEN /\ timeout' = IF timers = <<>> THEN IdleWait ELSE due[Head(timers)]
            /\ lpc' = "process" /\ UNCHANGED <<timers, cur, workerVars>>
       ELSE /\ timers' = Tail(timers) /\ cur' = Head(timers)
            /\ activate(Head(timers), "fired") /\ UNCHANGED timeout
    /\ UNCHANGED <<phase, wake, aioVars, due, interval, callbackVars, armed, hot, ready, doomed, lag>>

CallbackReturns ==
    /\ lpc = "callback" /\ lpc' = IF kind[cur] \in AioKinds THEN "dispatch" ELSE "fired"
    /\ UNCHANGED <<phase, wake, aioVars, timerVars, callbackVars, workerVars, roundVars>>

(* A recurring timer goes back into the list, its next instant counted from *)
(* the last; any other is unregistered and destroyed.                       *)
TimerFired ==
    /\ lpc = "fired" /\ lpc' = "check" /\ cur' = NoId
    /\ IF interval[cur] > 0
       THEN /\ due' = [due EXCEPT ![cur] = @ + interval[cur]]
            /\ timers' = insert_sorted(cur, due[cur] + interval[cur], timers)
            /\ UNCHANGED <<callbackVars>>
       ELSE /\ registry' = registry \ {cur} /\ alive' = alive \ {cur}
            /\ due' = [due EXCEPT ![cur] = 0] /\ UNCHANGED <<timers, kind>>
    /\ UNCHANGED <<phase, wake, aioVars, interval, workerVars, armed, hot, ready, doomed, waitVars>>

(* AioManager::process: the marked entries are taken out and unregistered,  *)
(* the others armed.                                                        *)
Arm ==
    /\ lpc = "process" /\ lpc' = "retire"
    /\ doomed' = Range(entries) \cap pendingRemove
    /\ armed' = SelectSeq(entries, LAMBDA e : e \notin pendingRemove)
    /\ entries' = armed'
    /\ registry' = registry \ doomed'
    /\ UNCHANGED <<phase, wake, pendingRemove, timerVars, alive, kind, workerVars,
                   cur, hot, ready, waitVars>>

(* The retired entries are destroyed, each with its worker.                 *)
Retire ==
    /\ lpc = "retire"
    /\ \/ /\ \E i \in doomed : StopWorker(i)
          /\ UNCHANGED <<alive, doomed, lpc>>
       \/ /\ Joined /\ alive' = alive \ doomed /\ doomed' = {} /\ lpc' = "select"
          /\ UNCHANGED workerVars
    /\ UNCHANGED <<phase, wake, aioVars, timerVars, kind, registry, cur, armed, hot, ready,
                   waitVars>>

(* select() ends. *)
EndSelect(to) == lpc = "select" /\ lpc' = to /\ timeout' = 0 /\ lag' = 0

(* With readable descriptors, by timeout, or by a signal or an error.       *)
SelectReady ==
    /\ EndSelect("collect")
    /\ \E fds \in SUBSET Range(armed) : hot' = fds \cup (IF wake THEN {Pipe} ELSE {})
    /\ hot' # {}
    /\ UNCHANGED <<phase, wake, aioVars, timerVars, callbackVars, workerVars, cur, armed, ready,
                   doomed>>

SelectTimeout ==
    /\ EndSelect("loop") /\ ~wake /\ timeout = 0 /\ armed' = <<>>
    /\ UNCHANGED <<phase, wake, aioVars, timerVars, callbackVars, workerVars, cur, hot, ready,
                   doomed>>

SelectInterrupted ==
    /\ \E to \in {"loop", "leave"} : EndSelect(to)
    /\ armed' = <<>>
    /\ UNCHANGED <<phase, wake, aioVars, timerVars, callbackVars, workerVars, cur, hot, ready,
                   doomed>>

(* The callbacks to activate, without entries marked meanwhile. The pipe's  *)
(* entry is the last of the list.                                           *)
Collect ==
    /\ lpc = "collect" /\ lpc' = "dispatch"
    /\ ready' = SelectSeq(Append(armed, Pipe), LAMBDA e : e \in hot \ pendingRemove)
    /\ hot' = {} /\ armed' = <<>>
    /\ UNCHANGED <<phase, wake, aioVars, timerVars, callbackVars, workerVars, cur, doomed,
                   waitVars>>

(* The next callback; that of the pipe drains it.                           *)
Dispatch ==
    /\ lpc = "dispatch"
    /\ \/ /\ ready = <<>> /\ lpc' = "loop" /\ cur' = NoId
          /\ UNCHANGED <<wake, ready, workerVars>>
       \/ /\ ready = <<Pipe>> /\ wake' = FALSE /\ ready' = <<>>
          /\ UNCHANGED <<cur, lpc, workerVars>>
       \/ /\ ready # <<>> /\ Head(ready) # Pipe
          /\ cur' = Head(ready) /\ ready' = Tail(ready)
          /\ activate(Head(ready), "dispatch") /\ UNCHANGED wake
    /\ UNCHANGED <<phase, aioVars, timerVars, callbackVars, armed, hot, doomed, waitVars>>

(* After the loop: STOPPING if select() failed, and the snapshot of         *)
(* stop_workers.                                                            *)
LeaveLoop ==
    /\ lpc = "leave" /\ phase' = "STOPPING" /\ lpc' = "stopWorkers"
    /\ doomed' = {i \in registry : kind[i] \in Asynchronous}
    /\ UNCHANGED <<wake, aioVars, timerVars, callbackVars, workerVars, cur, armed, hot,
                   ready, waitVars>>

stop_workers ==
    /\ lpc = "stopWorkers"
    /\ \/ (\E i \in doomed : StopWorker(i)) /\ UNCHANGED <<lpc, doomed>>
       \/ Joined /\ lpc' = "cleanup" /\ doomed' = {} /\ UNCHANGED workerVars
    /\ UNCHANGED <<phase, wake, aioVars, timerVars, callbackVars, cur, armed, hot, ready, waitVars>>

(* TimerManager::cleanup, AioManager::cleanup, the pipe, STOPPED.           *)
Cleanup ==
    /\ lpc = "cleanup" /\ lpc' = "none" /\ phase' = "STOPPED" /\ wake' = FALSE
    /\ timers' = <<>> /\ entries' = <<>>
    /\ alive' = alive \ (Range(timers) \cup Range(entries))
    /\ registry' = registry \ (Range(timers) \cup Range(entries))
    /\ due' = [i \in Ids |-> 0] /\ interval' = due'
    /\ UNCHANGED <<pendingRemove, kind, workerVars, roundVars>>

(* Time passes, for the timers that exist and for the wait in select().     *)
Tick ==
    /\ due' = [i \in Ids |-> IF i \in alive /\ kind[i] \notin AioKinds /\ due[i] > -MaxLate
                             THEN due[i] - 1 ELSE due[i]]
    /\ timeout' = IF lpc = "select" /\ timeout > 0 THEN timeout - 1 ELSE timeout
    /\ lag' = IF lpc \in {"process", "retire"} /\ lag < 2 * MaxLate THEN lag + 1 ELSE lag
    /\ UNCHANGED <<phase, wake, aioVars, timers, interval, callbackVars, workerVars, lpc, cur, armed,
                   hot, ready, doomed>>

LoopStep ==
    \/ LoopTest \/ CheckTimers \/ CallbackReturns \/ TimerFired \/ Arm \/ Retire
    \/ SelectReady \/ SelectTimeout \/ Collect \/ Dispatch
    \/ LeaveLoop \/ stop_workers \/ Cleanup

WorkerStep == \E i \in Ids : WorkerTakes(i) \/ WorkerReturns(i)

EngineNext ==
    \/ init \/ InitEnds \/ run \/ stop \/ LoopStep \/ WorkerStep \/ SelectInterrupted \/ Tick
    \/ \E i \in Ids :
          \/ \E k \in Kinds : add_aio(i, k) \/ \E d \in Delays : set_timer(i, k, d)
          \/ remove_aio(i)

(* The loop thread, the workers or the clock go on while one of them can,   *)
(* and callbacks return.                                                    *)
EngineRuns == LoopStep \/ WorkerStep \/ Tick

EngineSpec == EngineInit /\ [][EngineNext]_engineVars /\ WF_engineVars(EngineRuns)

-----------------------------------------------------------------------------

(* No raw pointer outlives its object: the registry, the armed entries of   *)
(* the round, the callbacks collected for activation, the one running on    *)
(* the loop and the object every worker thread works for all exist,         *)
(* whatever remove_aio does in the middle of a round.                       *)
NoDanglingCallback ==
    /\ registry \subseteq alive
    /\ Range(armed) \cup (Range(ready) \ {Pipe}) \cup (IF lpc \in {"callback", "fired"} THEN {cur} ELSE {})
          \subseteq alive
    /\ \A i \in Ids : worker[i] \in {"wait", "run"} => i \in alive

(* While run() waits in select() the wait ends when the first timer is due, *)
(* or the pipe holds a byte: a timer set from another thread between the    *)
(* check and the select() is not overslept. The timeout is relative, so it  *)
(* comes later by the time process() spent joining retired workers.         *)
TimerNotOverslept ==
    lpc = "select" /\ timers # <<>> =>
        wake \/ timeout = 0 \/ timeout <= due[Head(timers)] + lag

(* check() is at work, and a recurring timer may keep it there. *)
Checking ==
    lpc \in {"check", "callback", "fired"} /\ \E i \in alive : kind[i] \in Recurring

(* After stop() has been accepted, or select() has failed, run() returns,   *)
(* unless recurring timers come due as fast as check() serves them, which   *)
(* then loops for ever: it does not look at the phase.                      *)
StopCompletes == (phase = "STOPPING" ~> phase = "STOPPED") \/ <>[]Checking
=============================================================================
