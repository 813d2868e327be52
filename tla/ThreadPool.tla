----------------------------- MODULE ThreadPool -----------------------------
(***************************************************************************)
(* The bounded thread pool (src/common/base/tlss_thread_pool.cpp): worker  *)
(* threads, an execution queue, a queue of asynchronous submissions that   *)
(* wait for room until a deadline, a deadline thread, blocking submitters  *)
(* and stop().                                                             *)
(*                                                                         *)
(* Every critical section of _mutex is one step. The condition variables   *)
(* are the sets of threads asleep on them: a notification takes threads    *)
(* out of the set, so a missing one shows as a thread that sleeps on.      *)
(***************************************************************************)
EXTENDS Integers, Sequences, FiniteSets

CONSTANTS
    Workers,       \* worker threads start() may create
    Clients,       \* threads outside the pool that submit tasks
    Tasks,         \* tasks, each submitted at most once
    NoTask,
    MaxQueue,      \* _max_queue_size, 0 for no limit
    MaxWait,       \* _max_wait_queue_size
    MaxTime        \* bound: instants of the steady clock

ASSUME WorkersAssumption == IsFiniteSet(Workers) /\ IsFiniteSet(Clients) /\ Workers \cap Clients = {}
ASSUME NoTaskAssumption == NoTask \notin Tasks
ASSUME SizeAssumption == MaxQueue \in Nat /\ MaxWait \in Nat /\ MaxTime \in Nat

VARIABLES
    state,       \* _state
    queue,       \* _queue
    waiters,     \* _waiters: [task, deadline]
    now,         \* the steady clock
    wpc,         \* worker -> where it is
    wtask,       \* worker -> the task it has taken
    expired,     \* worker -> timeout callbacks it has to call
    cpc,         \* client -> where it is
    ctask,       \* client -> the task it submits or runs inline
    dpc,         \* the deadline thread
    duntil,      \* the instant its wait_until() ends
    dtask,       \* the waiter whose callback it is about to call
    fresh,       \* tasks not submitted yet
    accepted,    \* history: tasks some submission returned true for
    ran,         \* history: task -> times executed
    timedOut     \* history: task -> times its timeout callback was called

threadVars == <<wpc, wtask, expired>>
clientVars == <<cpc, ctask>>
deadlineVars == <<dpc, duntil, dtask>>
historyVars == <<fresh, accepted, ran, timedOut>>
vars == <<state, queue, waiters, now, threadVars, clientVars, deadlineVars, historyVars>>

Init ==
    /\ state = "created" /\ queue = <<>> /\ waiters = <<>> /\ now = 0
    /\ wpc = [w \in Workers |-> "none"] /\ wtask = [w \in Workers |-> NoTask]
    /\ expired = [w \in Workers |-> {}]
    /\ cpc = [c \in Clients |-> "idle"] /\ ctask = [c \in Clients |-> NoTask]
    /\ dpc = "none" /\ duntil = 0 /\ dtask = NoTask
    /\ fresh = Tasks /\ accepted = {}
    /\ ran = [t \in Tasks |-> 0] /\ timedOut = [t \in Tasks |-> 0]

IsFull == MaxQueue > 0 /\ Len(queue) >= MaxQueue

(* No thread was created: the zero-thread mode. *)
Inline == \A w \in Workers : wpc[w] = "none"

(* Threads asleep on the condition variables _not_empty and _not_full. *)
AsleepWorkers == {w \in Workers : wpc[w] = "asleep"}
AsleepClients == {c \in Clients : cpc[c] = "asleep"}

(* notify_one(): some sleeping thread, if there is one, will run again. *)
NotifyWorker ==
    \/ AsleepWorkers = {} /\ UNCHANGED wpc
    \/ \E w \in AsleepWorkers : wpc' = [wpc EXCEPT ![w] = "take"]

(* notify_all() *)
WakeAllWorkers == wpc' = [w \in Workers |-> IF wpc[w] = "asleep" THEN "take" ELSE wpc[w]]
WakeAllClients == cpc' = [c \in Clients |-> IF cpc[c] = "asleep" THEN "submit" ELSE cpc[c]]

(* Both sleeps of the deadline thread end on a notification. *)
NotifyDeadline ==
    /\ dpc' = IF dpc \in {"asleep", "timed"} THEN "check" ELSE dpc
    /\ UNCHANGED <<duntil, dtask>>

-----------------------------------------------------------------------------
(* start(), creating the threads ws: every thread has entered its function *)
(* when it returns. If a thread cannot be created the pool is stopped at   *)
(* once.                                                                   *)
Start(ws) ==
    /\ state = "created"
    /\ state' = "running"
    /\ wpc' = [w \in Workers |-> IF w \in ws THEN "take" ELSE "none"]
    /\ dpc' = IF ws # {} /\ MaxWait > 0 THEN "check" ELSE "none"
    /\ UNCHANGED <<queue, waiters, now, wtask, expired, clientVars, duntil, dtask, historyVars>>

StartFails ==
    /\ state = "created"
    /\ state' = "stopped"
    /\ UNCHANGED <<queue, waiters, now, threadVars, clientVars, deadlineVars, historyVars>>

-----------------------------------------------------------------------------
(* A worker: run_in_thread() and take().                                   *)

TakeSleep(w) ==
    /\ wpc[w] = "take" /\ queue = <<>> /\ state = "running"
    /\ wpc' = [wpc EXCEPT ![w] = "asleep"]
    /\ UNCHANGED <<state, queue, waiters, now, wtask, expired, clientVars, deadlineVars, historyVars>>

TakeExit(w) ==
    /\ wpc[w] = "take" /\ queue = <<>> /\ state # "running"
    /\ wpc' = [wpc EXCEPT ![w] = "exit"]
    /\ UNCHANGED <<state, queue, waiters, now, wtask, expired, clientVars, deadlineVars, historyVars>>

Live(p) == now < p.deadline

(* The refill loop of take() goes on while the queue has room and waiters  *)
(* are left. It takes the first n waiters; f lists, in order, the k of     *)
(* them that are before their deadline and enter the queue.                *)
Refill(n, k, f) ==
    /\ \A i, j \in 1..k : i < j => f[i] < f[j]
    /\ {f[i] : i \in 1..k} = {j \in 1..n : Live(waiters[j])}
    /\ LET room == MaxQueue - (Len(queue) - 1) IN
         /\ n > 0 => k < room \/ (k = room /\ Live(waiters[n]))
         /\ n < Len(waiters) => k = room

(* Variant: no notification when waiters were there to take the room. *)
NotifySubmitter_IfNoWaiters ==
    IF MaxQueue > 0 /\ waiters = <<>> /\ Len(queue') < MaxQueue /\ AsleepClients # {}
      THEN \E c \in AsleepClients : cpc' = [cpc EXCEPT ![c] = "submit"]
      ELSE UNCHANGED cpc

(* The end of take(): if room is left, notify_one() on _not_full. *)
NotifySubmitter ==
    IF MaxQueue > 0 /\ Len(queue') < MaxQueue /\ AsleepClients # {}
      THEN \E c \in AsleepClients : cpc' = [cpc EXCEPT ![c] = "submit"]
      ELSE UNCHANGED cpc

(* take() with a task in the queue. The waiters past their deadline are    *)
(* left for CallExpired.                                                   *)
TakeTask(w) ==
    /\ wpc[w] = "take" /\ queue # <<>>
    /\ \E n, k \in 0..Len(waiters) : \E f \in [1..k -> 1..n] :
         /\ Refill(n, k, f)
         /\ queue' = Tail(queue) \o [i \in 1..k |-> waiters[f[i]].task]
         /\ waiters' = SubSeq(waiters, n + 1, Len(waiters))
         /\ expired' = [expired EXCEPT ![w] =
                           {waiters[j].task : j \in {j \in 1..n : ~Live(waiters[j])}}]
    /\ wtask' = [wtask EXCEPT ![w] = Head(queue)]
    /\ wpc' = [wpc EXCEPT ![w] = "callbacks"]
    /\ NotifySubmitter
    /\ UNCHANGED <<state, now, ctask, deadlineVars, historyVars>>

(* After unlocking: the expired waiters' callbacks, then the task. *)
CallExpired(w) ==
    /\ wpc[w] = "callbacks"
    /\ timedOut' = [t \in Tasks |-> timedOut[t] + (IF t \in expired[w] THEN 1 ELSE 0)]
    /\ expired' = [expired EXCEPT ![w] = {}]
    /\ wpc' = [wpc EXCEPT ![w] = "exec"]
    /\ UNCHANGED <<state, queue, waiters, now, wtask, clientVars, deadlineVars, fresh, accepted, ran>>

FinishTask(w) ==
    /\ wpc[w] = "exec"
    /\ ran' = [ran EXCEPT ![wtask[w]] = @ + 1]
    /\ wpc' = [wpc EXCEPT ![w] = "take"] /\ wtask' = [wtask EXCEPT ![w] = NoTask]
    /\ UNCHANGED <<state, queue, waiters, now, expired, clientVars, deadlineVars, fresh, accepted,
                   timedOut>>

-----------------------------------------------------------------------------
(* Submissions. A thread that can call: an idle client, or a thread of the *)
(* pool from inside a task or a timeout callback.                          *)
CanCall ==
    \/ \E c \in Clients : cpc[c] = "idle"
    \/ \E w \in Workers : wpc[w] \in {"callbacks", "exec"}
    \/ dpc = "callback"

(* Variant: the notification is forgotten. *)
Put_NoNotify(t) ==
    /\ queue' = Append(queue, t) /\ accepted' = accepted \cup {t}
    /\ UNCHANGED wpc

Put(t) ==
    /\ queue' = Append(queue, t) /\ accepted' = accepted \cup {t}
    /\ NotifyWorker

(* A client calls run(). *)
CallRun(c, t) ==
    /\ cpc[c] = "idle" /\ t \in fresh
    /\ cpc' = [cpc EXCEPT ![c] = "submit"] /\ ctask' = [ctask EXCEPT ![c] = t]
    /\ fresh' = fresh \ {t}
    /\ UNCHANGED <<state, queue, waiters, now, threadVars, deadlineVars, accepted, ran, timedOut>>

ReturnFromRun(c) == cpc' = [cpc EXCEPT ![c] = "idle"] /\ ctask' = [ctask EXCEPT ![c] = NoTask]

(* run() holding the mutex, at first and after each wake-up: rejected when *)
(* not running, asleep on _not_full while the queue is full, else queued.  *)
RunRejected(c) ==
    /\ cpc[c] = "submit" /\ state # "running"
    /\ ReturnFromRun(c)
    /\ UNCHANGED <<state, queue, waiters, now, threadVars, deadlineVars, historyVars>>

RunSleeps(c) ==
    /\ cpc[c] = "submit" /\ state = "running" /\ ~Inline /\ IsFull
    /\ cpc' = [cpc EXCEPT ![c] = "asleep"]
    /\ UNCHANGED <<state, queue, waiters, now, threadVars, ctask, deadlineVars, historyVars>>

RunQueued(c) ==
    /\ cpc[c] = "submit" /\ state = "running" /\ ~Inline /\ ~IsFull
    /\ Put(ctask[c]) /\ ReturnFromRun(c)
    /\ UNCHANGED <<state, waiters, now, wtask, expired, deadlineVars, fresh, ran, timedOut>>

(* Zero-thread mode: the caller executes the task itself. *)
RunInline(c) ==
    /\ cpc[c] = "submit" /\ state = "running" /\ Inline
    /\ cpc' = [cpc EXCEPT ![c] = "inline"] /\ accepted' = accepted \cup {ctask[c]}
    /\ UNCHANGED <<state, queue, waiters, now, threadVars, ctask, deadlineVars, fresh, ran, timedOut>>

FinishInline(c) ==
    /\ cpc[c] = "inline"
    /\ ran' = [ran EXCEPT ![ctask[c]] = @ + 1]
    /\ ReturnFromRun(c)
    /\ UNCHANGED <<state, queue, waiters, now, threadVars, deadlineVars, fresh, accepted, timedOut>>

(* try_run(), and run() called from a task: never blocks. *)
TryRun(t) ==
    /\ CanCall /\ t \in fresh /\ ~Inline
    /\ fresh' = fresh \ {t}
    /\ IF state = "running" /\ ~IsFull
         THEN Put(t)
         ELSE UNCHANGED <<queue, accepted, wpc>>
    /\ UNCHANGED <<state, waiters, now, wtask, expired, clientVars, deadlineVars, ran, timedOut>>

(* Variant: a new waiter does not wake the deadline thread. *)
AddWaiter_NoNotify(t, deadline) ==
    /\ waiters' = Append(waiters, [task |-> t, deadline |-> deadline])
    /\ accepted' = accepted \cup {t}
    /\ UNCHANGED deadlineVars

AddWaiter(t, deadline) ==
    /\ waiters' = Append(waiters, [task |-> t, deadline |-> deadline])
    /\ accepted' = accepted \cup {t}
    /\ NotifyDeadline

(* submit_async() *)
SubmitAsync(t, deadline) ==
    /\ CanCall /\ t \in fresh
    /\ fresh' = fresh \ {t}
    /\ IF state # "running" \/ Inline \/ now >= deadline
         THEN UNCHANGED <<queue, waiters, accepted, wpc, deadlineVars>>
       ELSE IF ~IsFull
         THEN Put(t) /\ UNCHANGED <<waiters, deadlineVars>>
       ELSE IF Len(waiters) >= MaxWait
         THEN UNCHANGED <<queue, waiters, accepted, wpc, deadlineVars>>
         ELSE AddWaiter(t, deadline) /\ UNCHANGED <<queue, wpc>>
    /\ UNCHANGED <<state, now, wtask, expired, clientVars, ran, timedOut>>

-----------------------------------------------------------------------------
(* The deadline thread: deadline_loop().                                   *)

IsEarliest(i) ==
    /\ i \in 1..Len(waiters)
    /\ \A j \in 1..Len(waiters) : waiters[i].deadline <= waiters[j].deadline
    /\ \A j \in 1..(i - 1) : waiters[i].deadline < waiters[j].deadline

DeadlineSleeps ==
    /\ dpc = "check" /\ state = "running" /\ waiters = <<>>
    /\ dpc' = "asleep"
    /\ UNCHANGED <<state, queue, waiters, now, threadVars, clientVars, duntil, dtask, historyVars>>

DeadlineExits ==
    /\ dpc = "check" /\ state # "running"
    /\ dpc' = "exit"
    /\ UNCHANGED <<state, queue, waiters, now, threadVars, clientVars, duntil, dtask, historyVars>>

DeadlineWaits ==
    /\ dpc = "check" /\ state = "running"
    /\ \E i \in 1..Len(waiters) :
         /\ IsEarliest(i) /\ now < waiters[i].deadline
         /\ duntil' = waiters[i].deadline
    /\ dpc' = "timed"
    /\ UNCHANGED <<state, queue, waiters, now, threadVars, clientVars, dtask, historyVars>>

DeadlineWakes ==
    /\ dpc = "timed" /\ now >= duntil
    /\ dpc' = "check"
    /\ UNCHANGED <<state, queue, waiters, now, threadVars, clientVars, duntil, dtask, historyVars>>

(* Variant: the waiter is not erased. *)
DeadlineFires_Keeps ==
    /\ dpc = "check" /\ state = "running"
    /\ \E i \in 1..Len(waiters) :
         /\ IsEarliest(i) /\ now >= waiters[i].deadline
         /\ dtask' = waiters[i].task
    /\ dpc' = "callback"
    /\ UNCHANGED <<state, queue, waiters, now, threadVars, clientVars, duntil, historyVars>>

DeadlineFires ==
    /\ dpc = "check" /\ state = "running"
    /\ \E i \in 1..Len(waiters) :
         /\ IsEarliest(i) /\ now >= waiters[i].deadline
         /\ dtask' = waiters[i].task
         /\ waiters' = SubSeq(waiters, 1, i - 1) \o SubSeq(waiters, i + 1, Len(waiters))
    /\ dpc' = "callback"
    /\ UNCHANGED <<state, queue, now, threadVars, clientVars, duntil, historyVars>>

DeadlineCallback ==
    /\ dpc = "callback"
    /\ timedOut' = [timedOut EXCEPT ![dtask] = @ + 1]
    /\ dpc' = "check" /\ dtask' = NoTask
    /\ UNCHANGED <<state, queue, waiters, now, threadVars, clientVars, duntil, fresh, accepted, ran>>

Tick ==
    /\ now < MaxTime /\ now' = now + 1
    /\ UNCHANGED <<state, queue, waiters, threadVars, clientVars, deadlineVars, historyVars>>

-----------------------------------------------------------------------------
(* stop(): refuse new tasks, drop the waiters, wake everyone; then wait    *)
(* for the inline tasks, the workers and the deadline thread. An init      *)
(* callback that throws in a zero-thread pool has the effect of StopBegin. *)
(* Variant: blocked submitters are not woken. *)
StopBegin_NoWake ==
    /\ state \in {"created", "running"}
    /\ state' = "stopping" /\ waiters' = <<>>
    /\ WakeAllWorkers /\ NotifyDeadline
    /\ UNCHANGED <<queue, now, wtask, expired, cpc, ctask, historyVars>>

StopBegin ==
    /\ state \in {"created", "running"}
    /\ state' = "stopping" /\ waiters' = <<>>
    /\ WakeAllWorkers /\ WakeAllClients /\ NotifyDeadline
    /\ UNCHANGED <<queue, now, wtask, expired, ctask, historyVars>>

StopEnd ==
    /\ state = "stopping"
    /\ \A c \in Clients : cpc[c] # "inline"
    /\ \A w \in Workers : wpc[w] \in {"none", "exit"}
    /\ dpc \in {"none", "exit"}
    /\ state' = "stopped"
    /\ UNCHANGED <<queue, waiters, now, threadVars, clientVars, deadlineVars, historyVars>>

WorkerStep(w) ==
    TakeSleep(w) \/ TakeExit(w) \/ TakeTask(w) \/ CallExpired(w) \/ FinishTask(w)

ClientStep(c) ==
    RunRejected(c) \/ RunSleeps(c) \/ RunQueued(c) \/ RunInline(c) \/ FinishInline(c)

DeadlineStep ==
    \/ DeadlineSleeps \/ DeadlineExits \/ DeadlineWaits \/ DeadlineWakes \/ DeadlineFires
    \/ DeadlineCallback

Next ==
    \/ (\E ws \in SUBSET Workers : Start(ws)) \/ StartFails \/ StopBegin \/ StopEnd \/ Tick \/ DeadlineStep
    \/ \E w \in Workers : WorkerStep(w)
    \/ \E c \in Clients : ClientStep(c) \/ (\E t \in Tasks : CallRun(c, t))
    \/ \E t \in Tasks : TryRun(t) \/ (\E d \in 1..MaxTime : SubmitAsync(t, d))

Spec == Init /\ [][Next]_vars

(* Time passes and the deadline thread runs, but tasks may run for ever. *)
TimeStep == DeadlineStep \/ Tick

FairSpec == Spec /\ WF_vars(TimeStep)

(* Of the threads that can run one does, and tasks and callbacks return. *)
ThreadFairness ==
    WF_vars(\/ StopEnd \/ \E w \in Workers : WorkerStep(w)
            \/ \E c \in Clients : ClientStep(c))

-----------------------------------------------------------------------------
Waiter == [task : Tasks, deadline : 1..MaxTime]

QueueType ==
    /\ state \in {"created", "running", "stopping", "stopped"}
    /\ queue \in Seq(Tasks) /\ waiters \in Seq(Waiter) /\ now \in 0..MaxTime

WorkerType ==
    /\ wpc \in [Workers -> {"none", "take", "asleep", "callbacks", "exec", "exit"}]
    /\ wtask \in [Workers -> Tasks \cup {NoTask}] /\ expired \in [Workers -> SUBSET Tasks]

ClientType ==
    /\ cpc \in [Clients -> {"idle", "submit", "asleep", "inline"}]
    /\ ctask \in [Clients -> Tasks \cup {NoTask}]

DeadlineType ==
    /\ dpc \in {"none", "check", "asleep", "timed", "callback", "exit"}
    /\ duntil \in 0..MaxTime /\ dtask \in Tasks \cup {NoTask}

HistoryType ==
    /\ fresh \subseteq Tasks /\ accepted \subseteq Tasks
    /\ ran \in [Tasks -> Nat] /\ timedOut \in [Tasks -> Nat]

TypeOK == QueueType /\ WorkerType /\ ClientType /\ DeadlineType /\ HistoryType

(* Neither queue outgrows its configured size, whoever fills it: the       *)
(* refill of take() and a submitter that was waiting both add to _queue.   *)
Bounded ==
    /\ MaxQueue > 0 => Len(queue) <= MaxQueue
    /\ Len(waiters) <= MaxWait

(* A task is executed or timed out, once, and only if its submission       *)
(* returned true: take() and deadline_loop() never both claim a waiter.    *)
OneFate ==
    \A t \in Tasks :
        /\ ran[t] + timedOut[t] <= 1
        /\ ran[t] + timedOut[t] = 1 => t \in accepted

(* While a task is queued some worker is awake and will come back to       *)
(* take(), although the refill of take() notifies nobody; stop() finds no  *)
(* task left behind by workers that all exited.                            *)
NoStrandedTask ==
    queue # <<>> => \E w \in Workers : wpc[w] \in {"take", "callbacks", "exec"}

(* Submitters blocked in run() are owed the free places of the queue:      *)
(* while one sleeps, as many submitters are awake as the queue has places. *)
NoStrandedSubmitter ==
    AsleepClients # {} =>
        /\ state = "running"
        /\ MaxQueue - Len(queue) <= Cardinality({c \in Clients : cpc[c] = "submit"})

(* If tasks return, so does stop(): no worker, blocked submitter or        *)
(* deadline thread sleeps through it.                                      *)
StopReturns ==
    ThreadFairness =>
        (state = "stopping" ~> (state = "stopped" /\ \A c \in Clients : cpc[c] # "asleep"))

(* A waiter leaves the wait queue by its deadline even if every worker is  *)
(* busy for ever: submit_async() always wakes the deadline thread.         *)
WaiterResolved ==
    \A t \in Tasks :
        (\E i \in 1..Len(waiters) : waiters[i].task = t)
            ~> ~(\E i \in 1..Len(waiters) : waiters[i].task = t)
=============================================================================
