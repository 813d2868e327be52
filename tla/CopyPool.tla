------------------------------- MODULE CopyPool -------------------------------
(***************************************************************************)
(* The parallel memory copy (src/common/memory): the process-wide runtime, *)
(* built by the first call and never destroyed, its ParallelCopyPool, and  *)
(* the threads that call memcpy().  The bytes of a copy are 0..size-1; the *)
(* plan of a call is the list of workers its CPU gets, chosen freely among *)
(* Plans, or none.  Strategies that copy in the calling thread all go      *)
(* through the direct copy.                                                *)
(*                                                                         *)
(* A condition variable's wait is two steps, the predicate and the block,  *)
(* with its mutex held from the one to the other.                          *)
(***************************************************************************)
EXTENDS CopyPartition, Sequences, SequencesExt

CONSTANTS
    Callers,        \* threads that call memcpy()
    PoolSize,       \* number of pool workers
    Plans,          \* worker lists the plans of the CPUs name
    Requests,       \* <<misalignment, size>> of a call
    MaxCalls,       \* bound: calls of memcpy()
    MaxFailures,    \* bound: threads that cannot be created or pinned
    Nobody

CopyWorkers == 1..PoolSize

ASSUME CopyAssumption ==
    /\ Nobody \notin Callers
    /\ \A p \in Plans : p \in Seq(CopyWorkers) /\ IsInjective(p) /\ Len(p) >= 2

VARIABLES
    runtime,    \* "none", "starting" or "ready": the static of get_memory_runtime()
    pool,       \* the pool's counters and flags
    crew,       \* per worker, its thread and what it shares with the dispatcher
    pool_mutex, \* holder of ParallelCopyPool::mutex_
    busy,       \* MemoryRuntime::master_pool_busy_
    call,       \* per caller, the call it is in: where, on what, what is left to visit
    todo,       \* per caller, the bytes of its destination not yet written
    made,       \* calls made
    broken      \* threads that failed to start

copyVars == <<runtime, pool, crew, pool_mutex, busy, call, todo, made, broken>>

NoCopy == [caller |-> Nobody, from |-> 0, size |-> 0]

NewPool == [submitted |-> 0, completed |-> 0, expected |-> 0, in_flight |-> FALSE,
            waiting |-> FALSE, stopping |-> FALSE, ready |-> 0, failed |-> FALSE]

NewWorker == [at |-> "none", generation |-> 0, observed |-> 0, task |-> NoCopy,
              job |-> NoCopy, expected |-> 0]

Bytes(from, size) == IF size = 0 THEN {} ELSE from..(from + size - 1)

AllWorkers == [w \in CopyWorkers |-> w]

CopyInit ==
    /\ runtime = "none" /\ pool = NewPool /\ crew = [w \in CopyWorkers |-> NewWorker]
    /\ pool_mutex = Nobody /\ busy = FALSE
    /\ call = [c \in Callers |-> [at |-> "idle", misalignment |-> 0, size |-> 0,
                                  plan |-> <<>>, left |-> <<>>]]
    /\ todo = [c \in Callers |-> {}] /\ made = 0 /\ broken = 0

Goes(c, where) == call' = [call EXCEPT ![c].at = where]

Visits(c, where, workers) == call' = [call EXCEPT ![c].at = where, ![c].left = workers]

Works(w, where) == crew' = [crew EXCEPT ![w].at = where]

(* notify_one() on a worker's condition variable *)
Woken(w) == [crew EXCEPT ![w].at = IF @ = "asleep" THEN "slow" ELSE @]

------------------------------------------------------------------------------
(* The runtime *)

memcpy(c) ==
    /\ call[c].at = "idle" /\ made < MaxCalls
    /\ \E r \in Requests :
          /\ call' = [call EXCEPT ![c].at = "runtime", ![c].misalignment = r[1], ![c].size = r[2]]
          /\ todo' = [todo EXCEPT ![c] = Bytes(0, r[2])]
    /\ made' = made + 1
    /\ UNCHANGED <<runtime, pool, crew, pool_mutex, busy, broken>>

(* get_memory_runtime(): the first caller builds the runtime, the others   *)
(* wait for it; after a construction that threw the next one tries again. *)
get_memory_runtime(c) ==
    /\ call[c].at = "runtime"
    /\ \/ /\ runtime = "ready" /\ Goes(c, "plan") /\ UNCHANGED <<runtime, pool, crew>>
       \/ /\ runtime = "none" /\ runtime' = "starting"
          /\ pool' = NewPool /\ crew' = [w \in CopyWorkers |-> NewWorker]
          /\ Visits(c, "create", AllWorkers)
    /\ UNCHANGED <<pool_mutex, busy, todo, made, broken>>

(* The pool's constructor starts the workers one by one ... *)
CreateWorker(c) ==
    /\ call[c].at = "create" /\ call[c].left # <<>>
    /\ \/ /\ Works(Head(call[c].left), "start") /\ Visits(c, "create", Tail(call[c].left))
          /\ UNCHANGED broken
       \/ /\ broken < MaxFailures /\ broken' = broken + 1
          /\ Goes(c, "stop") /\ UNCHANGED crew
    /\ UNCHANGED <<runtime, pool, pool_mutex, busy, todo, made>>

(* ... and returns once they all are pinned; when one could not be, it     *)
(* stops the others and throws. *)
AwaitReady(c) ==
    /\ call[c].at = "create" /\ call[c].left = <<>> /\ pool_mutex = Nobody
    /\ pool.ready = PoolSize
    /\ IF pool.failed THEN Goes(c, "stop") /\ UNCHANGED runtime
                      ELSE Goes(c, "plan") /\ runtime' = "ready"
    /\ UNCHANGED <<pool, crew, pool_mutex, busy, todo, made, broken>>

(* stop_and_join(): raise the flag, *)
stop_and_join(c) ==
    /\ call[c].at = "stop" /\ pool_mutex = Nobody
    /\ pool' = [pool EXCEPT !.stopping = TRUE] /\ Visits(c, "stopping", AllWorkers)
    /\ UNCHANGED <<runtime, crew, pool_mutex, busy, todo, made, broken>>

(* pass through each worker's mutex and notify it, *)
NotifyStop(c) ==
    /\ call[c].at = "stopping" /\ call[c].left # <<>>
    /\ LET w == Head(call[c].left) IN crew[w].at # "checked" /\ crew' = Woken(w)
    /\ Visits(c, "stopping", Tail(call[c].left))
    /\ UNCHANGED <<runtime, pool, pool_mutex, busy, todo, made, broken>>

(* and join the threads there are.  try_get_memory_runtime() swallows the  *)
(* exception: the call goes on without a runtime. *)
Joined(c) ==
    /\ call[c].at = "stopping" /\ call[c].left = <<>>
    /\ \A w \in CopyWorkers : crew[w].at \in {"none", "exit"}
    /\ runtime' = "none" /\ Goes(c, "direct")
    /\ UNCHANGED <<pool, crew, pool_mutex, busy, todo, made, broken>>

(* execute_parallel_copy(): a CPU without a plan, and a caller that finds  *)
(* the pool taken, copy by themselves. *)
execute_parallel_copy(c) ==
    /\ call[c].at = "plan"
    /\ \/ Goes(c, "direct") /\ UNCHANGED busy
       \/ \E p \in Plans :
             IF busy THEN Goes(c, "direct") /\ UNCHANGED busy
                     ELSE /\ busy' = TRUE
                          /\ call' = [call EXCEPT ![c].at = "cut", ![c].plan = p]
    /\ UNCHANGED <<runtime, pool, crew, pool_mutex, todo, made, broken>>

Cut(c) == make_copy_partition(call[c].misalignment, call[c].size, Len(call[c].plan))

(* direct_nt_copy(): prefix, body and tail in the calling thread; without  *)
(* a body, all at once *)
direct_nt_copy(c) ==
    /\ call[c].at = "direct"
    /\ LET cut == make_copy_partition(call[c].misalignment, call[c].size, 1)
       IN  todo' = [todo EXCEPT ![c] = @ \ (IF cut.body_size = 0 THEN Bytes(0, call[c].size)
                       ELSE Bytes(0, cut.prefix_size + cut.body_size + cut.tail_size))]
    /\ Goes(c, "idle")
    /\ UNCHANGED <<runtime, pool, crew, pool_mutex, busy, made, broken>>

(* parallel_nt_copy() copies the prefix itself, and everything when the    *)
(* body is too small to share; *)
parallel_nt_copy(c) ==
    /\ call[c].at = "cut"
    /\ IF Cut(c).body_size = 0
         THEN todo' = [todo EXCEPT ![c] = @ \ Bytes(0, call[c].size)] /\ Goes(c, "return")
         ELSE todo' = [todo EXCEPT ![c] = @ \ Bytes(0, Cut(c).prefix_size)] /\ Goes(c, "dispatch")
    /\ UNCHANGED <<runtime, pool, crew, pool_mutex, busy, made, broken>>

(* while the workers copy the body it copies the tail; *)
CopyTail(c) ==
    /\ call[c].at = "tail"
    /\ todo' = [todo EXCEPT ![c] = @ \ Bytes(Cut(c).prefix_size + Cut(c).body_size, Cut(c).tail_size)]
    /\ Goes(c, "wait")
    /\ UNCHANGED <<runtime, pool, crew, pool_mutex, busy, made, broken>>

(* and the BusyGuard frees the pool on the way out. *)
Return(c) ==
    /\ call[c].at = "return"
    /\ busy' = FALSE /\ Goes(c, "idle")
    /\ UNCHANGED <<runtime, pool, crew, pool_mutex, todo, made, broken>>

------------------------------------------------------------------------------
(* The dispatcher *)

(* The task of a worker: its share of the blocks of the body *)
Share(c, w) ==
    LET n == Len(call[c].plan)
        rank == (CHOOSE i \in 1..n : call[c].plan[i] = w) - 1
        blocks == Cut(c).body_size \div k_nt_block_size
    IN  [caller |-> c,
         from |-> Cut(c).prefix_size + block_offset(blocks, n, rank) * k_nt_block_size,
         size |-> worker_block_count(blocks, n, rank) * k_nt_block_size]

(* dispatch_copy(), under the pool's mutex; it throws when the pool is     *)
(* stopping or has a task in flight, and the call leaves with what it has. *)
Dispatched(c, completed) ==
    /\ call[c].at = "dispatch" /\ pool_mutex = Nobody
    /\ IF pool.stopping \/ pool.in_flight
         THEN Goes(c, "return") /\ UNCHANGED <<crew, pool, pool_mutex>>
         ELSE /\ crew' = [w \in CopyWorkers |-> [crew[w] EXCEPT !.task =
                             IF w \in ToSet(call[c].plan) THEN Share(c, w) ELSE NoCopy]]
              /\ pool' = [pool EXCEPT !.submitted = @ + 1, !.expected = Len(call[c].plan),
                              !.completed = completed, !.waiting = FALSE, !.in_flight = TRUE]
              /\ pool_mutex' = c /\ Visits(c, "publish", call[c].plan)
    /\ UNCHANGED <<runtime, busy, todo, made, broken>>

(* Variant: completed_count_ is not reset. *)
dispatch_copy_KeepsCount(c) == Dispatched(c, pool.completed)

dispatch_copy(c) == Dispatched(c, 0)

(* It stores the new generation for each active worker, under that         *)
(* worker's mutex, and lets go of the pool's after the last, *)
Publish(c) ==
    /\ call[c].at = "publish"
    /\ LET w == Head(call[c].left)
       IN  crew[w].at # "checked" /\ crew' = [crew EXCEPT ![w].generation = pool.submitted]
    /\ IF Len(call[c].left) > 1
         THEN Visits(c, "publish", Tail(call[c].left)) /\ UNCHANGED pool_mutex
         ELSE Visits(c, "wake", call[c].plan) /\ pool_mutex' = Nobody
    /\ UNCHANGED <<runtime, pool, busy, todo, made, broken>>

(* and notifies them. *)
WakeWorker(c) ==
    /\ call[c].at = "wake"
    /\ crew' = Woken(Head(call[c].left))
    /\ Visits(c, IF Len(call[c].left) > 1 THEN "wake" ELSE "tail", Tail(call[c].left))
    /\ UNCHANGED <<runtime, pool, pool_mutex, busy, todo, made, broken>>

AllDone == pool.completed = pool.expected

(* wait(): spin, and when the spins run out without completion *)
SpinForCompletion(c) ==
    /\ call[c].at = "wait"
    /\ IF AllDone THEN pool' = [pool EXCEPT !.in_flight = FALSE] /\ Goes(c, "return")
                  ELSE Goes(c, "late") /\ UNCHANGED pool
    /\ UNCHANGED <<runtime, crew, pool_mutex, busy, todo, made, broken>>

(* lock the mutex and tell the last worker that somebody is going to sleep *)
ArmWait(c) ==
    /\ call[c].at = "late" /\ pool_mutex = Nobody
    /\ pool_mutex' = c /\ pool' = [pool EXCEPT !.waiting = TRUE] /\ Goes(c, "armed")
    /\ UNCHANGED <<runtime, crew, busy, todo, made, broken>>

(* then look again.  A pool in use never stops: the runtime is not         *)
(* destroyed, and a pool that failed to start was never handed out. *)
RecheckCompletion(c) ==
    /\ call[c].at = "armed"
    /\ IF AllDone
         THEN /\ pool' = [pool EXCEPT !.waiting = FALSE, !.in_flight = FALSE]
              /\ pool_mutex' = Nobody /\ Goes(c, "return")
         ELSE Goes(c, "checked") /\ UNCHANGED <<pool, pool_mutex>>
    /\ UNCHANGED <<runtime, crew, busy, todo, made, broken>>

(* and block, *)
BlockCaller(c) ==
    /\ call[c].at = "checked" /\ Goes(c, "asleep") /\ pool_mutex' = Nobody
    /\ UNCHANGED <<runtime, pool, crew, busy, todo, made, broken>>

(* until a worker's notification, after which the predicate is read again. *)
CallerAwake(c) ==
    /\ call[c].at = "woken" /\ pool_mutex = Nobody
    /\ pool_mutex' = c /\ Goes(c, "armed")
    /\ UNCHANGED <<runtime, pool, crew, busy, todo, made, broken>>

------------------------------------------------------------------------------
(* A worker: worker_loop() *)

(* Pin to the CPU and report; a worker that cannot be pinned leaves. *)
StartWorker(w) ==
    /\ crew[w].at = "start" /\ pool_mutex = Nobody
    /\ \/ /\ pool' = [pool EXCEPT !.ready = @ + 1] /\ Works(w, "spin") /\ UNCHANGED broken
       \/ /\ broken < MaxFailures /\ broken' = broken + 1
          /\ pool' = [pool EXCEPT !.ready = @ + 1, !.failed = TRUE] /\ Works(w, "exit")
    /\ UNCHANGED <<runtime, pool_mutex, busy, call, todo, made>>

(* With a new generation the task, and the number of completions it        *)
(* belongs to, are there: they were written before it. *)
TakeCopy(w) ==
    crew' = [crew EXCEPT ![w].observed = crew[w].generation, ![w].job = crew[w].task,
                         ![w].expected = pool.expected,
                         ![w].at = IF crew[w].task.size = 0 THEN "spin" ELSE "copy"]

(* Look for a new generation, spinning first, then under the worker's      *)
(* mutex: a stopping pool ends the thread, no generation leads on *)
Look(w, where, onward) ==
    /\ crew[w].at = where
    /\ CASE pool.stopping -> Works(w, "exit")
         [] ~pool.stopping /\ crew[w].generation # crew[w].observed -> TakeCopy(w)
         [] ~pool.stopping /\ crew[w].generation = crew[w].observed -> Works(w, onward)
    /\ UNCHANGED <<runtime, pool, pool_mutex, busy, call, todo, made, broken>>

SpinForTask(w) == Look(w, "spin", "slow")

CheckForTask(w) == Look(w, "slow", "checked")

(* to sleep. *)
BlockWorker(w) ==
    /\ crew[w].at = "checked" /\ Works(w, "asleep")
    /\ UNCHANGED <<runtime, pool, pool_mutex, busy, call, todo, made, broken>>

(* The copy kernel *)
CopyBody(w) ==
    /\ crew[w].at = "copy" /\ Works(w, "copied")
    /\ todo' = [todo EXCEPT ![crew[w].job.caller] = @ \ Bytes(crew[w].job.from, crew[w].job.size)]
    /\ UNCHANGED <<runtime, pool, pool_mutex, busy, call, made, broken>>

(* completed_count_.fetch_add(): the last one goes on *)
CountCompletion(w) ==
    /\ crew[w].at = "copied"
    /\ pool' = [pool EXCEPT !.completed = @ + 1]
    /\ Works(w, IF pool'.completed = crew[w].expected THEN "last" ELSE "spin")
    /\ UNCHANGED <<runtime, pool_mutex, busy, call, todo, made, broken>>

(* to see whether the caller is about to sleep, *)
SeeWaiting(w) ==
    /\ crew[w].at = "last" /\ Works(w, IF pool.waiting THEN "lock" ELSE "spin")
    /\ UNCHANGED <<runtime, pool, pool_mutex, busy, call, todo, made, broken>>

(* Variant: the worker does not take the mutex before it notifies. *)
PassMutex_Unlocked(w) ==
    /\ crew[w].at = "lock"
    /\ Works(w, IF pool.waiting THEN "notify" ELSE "spin")
    /\ UNCHANGED <<runtime, pool, pool_mutex, busy, call, todo, made, broken>>

(* passes through the pool's mutex looking once more *)
PassMutex(w) ==
    /\ crew[w].at = "lock" /\ pool_mutex = Nobody
    /\ Works(w, IF pool.waiting THEN "notify" ELSE "spin")
    /\ UNCHANGED <<runtime, pool, pool_mutex, busy, call, todo, made, broken>>

(* and notifies; this may be a caller of a later task. *)
NotifyCaller(w) ==
    /\ crew[w].at = "notify" /\ Works(w, "spin")
    /\ call' = [c \in Callers |->
                  [call[c] EXCEPT !.at = IF @ = "asleep" THEN "woken" ELSE @]]
    /\ UNCHANGED <<runtime, pool, pool_mutex, busy, todo, made, broken>>

------------------------------------------------------------------------------
CallerStep(c) ==
    \/ get_memory_runtime(c) \/ CreateWorker(c) \/ AwaitReady(c)
    \/ stop_and_join(c) \/ NotifyStop(c) \/ Joined(c)
    \/ execute_parallel_copy(c) \/ direct_nt_copy(c) \/ parallel_nt_copy(c)
    \/ dispatch_copy(c) \/ Publish(c) \/ WakeWorker(c) \/ CopyTail(c)
    \/ SpinForCompletion(c) \/ ArmWait(c) \/ RecheckCompletion(c) \/ BlockCaller(c)
    \/ CallerAwake(c) \/ Return(c)

CopierStep(w) ==
    \/ StartWorker(w) \/ SpinForTask(w) \/ CheckForTask(w) \/ BlockWorker(w) \/ CopyBody(w)
    \/ CountCompletion(w) \/ SeeWaiting(w) \/ PassMutex(w) \/ NotifyCaller(w)

CopyStep == (\E c \in Callers : CallerStep(c)) \/ (\E w \in CopyWorkers : CopierStep(w))

CopyNext == CopyStep \/ \E c \in Callers : memcpy(c)

(* Of the threads that can run one does; nothing makes a program call      *)
(* memcpy().                                                               *)
CopyFairness == WF_copyVars(CopyStep)

CopySpec == CopyInit /\ [][CopyNext]_copyVars /\ CopyFairness

------------------------------------------------------------------------------
(* A caller whose memcpy() has returned finds every byte copied, and no    *)
(* worker still at work on its buffers: completions of one generation are  *)
(* not counted for another, the pool is never found busy by dispatch_copy  *)
(* and the shares, the prefix and the tail leave nothing out. *)
CopiedOnReturn ==
    \A c \in Callers : call[c].at = "idle" =>
        /\ todo[c] = {}
        /\ \A w \in CopyWorkers : crew[w].at \in {"copy", "copied"} => crew[w].job.caller # c

(* Every memcpy() returns: neither the generation a worker waits for nor   *)
(* the completion the caller waits for is signalled past a thread that is  *)
(* going to sleep, and a constructor that gives up gets its workers back. *)
CopyReturns == \A c \in Callers : call[c].at = "runtime" ~> call[c].at = "idle"
==============================================================================
