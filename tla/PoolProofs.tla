----------------------------- MODULE PoolProofs -----------------------------
(***************************************************************************)
(* Proofs about the two pools of threads. The worker threads, for every    *)
(* number of workers, submitters and tasks and every size of the two       *)
(* queues: the queues keep their bounds, and no queued task is left without *)
(* a thread that will see to it. Then where a task is, and what a client of *)
(* the pool moves; the threads' own steps are in TaskFateProofs. The       *)
(* parallel copy, for every size, misalignment, number of workers,         *)
(* alignment and block size: the cutting of a copy is exact.               *)
(***************************************************************************)
EXTENDS ThreadPool, CopyPartition, TLAPS

-----------------------------------------------------------------------------
(* The cutting of a copy: the parts cover it exactly, the body is aligned  *)
(* and has a block for each worker, and the shares follow each other.      *)

(* Division with a remainder, for a variable divisor. *)
LEMMA Division ==
    ASSUME NEW a \in Nat, NEW n \in Nat \ {0}
    PROVE  /\ a \div n \in Nat /\ a % n \in 0..(n - 1)
           /\ a = n * (a \div n) + (a % n)
    OBVIOUS

(* The body is a number of whole blocks. *)
WholeBlocks(size, workers) ==
    \E blocks \in Nat : size = blocks * k_nt_block_size /\ (blocks = 0 \/ blocks >= workers)

(* make_copy_partition() loses no byte and copies none twice; the body is  *)
(* made of whole blocks, at least one for each worker, and starts at an    *)
(* aligned address, as the non-temporal stores of the kernels need. *)
THEOREM PartitionExact ==
    ASSUME NEW misalignment \in 0..(k_nt_alignment - 1), NEW size \in Nat,
           NEW workers \in Nat \ {0}
    PROVE  LET p == make_copy_partition(misalignment, size, workers)
           IN  /\ p.prefix_size \in Nat /\ p.body_size \in Nat /\ p.tail_size \in Nat
               /\ p.prefix_size + p.body_size + p.tail_size = size
               /\ WholeBlocks(p.body_size, workers)
               /\ p.body_size # 0 => (misalignment + p.prefix_size) % k_nt_alignment = 0
<1> DEFINE gap == IF misalignment = 0 THEN 0 ELSE k_nt_alignment - misalignment
           prefix == IF gap > size THEN size ELSE gap
           rest == size - prefix
           blocks == rest \div k_nt_block_size
           body == IF blocks < workers THEN 0 ELSE blocks * k_nt_block_size
<1>1. k_nt_alignment \in Nat \ {0} /\ k_nt_block_size \in Nat \ {0}
    BY PartitionAssumption DEF PartitionAssumption
<1>2. gap \in Nat /\ prefix \in Nat /\ rest \in Nat /\ prefix <= size
    BY <1>1
<1>3. blocks \in Nat /\ rest = k_nt_block_size * blocks + (rest % k_nt_block_size)
      /\ rest % k_nt_block_size \in Nat
  <2> HIDE DEF rest
  <2> QED BY <1>1, <1>2, Division
<1>4. blocks * k_nt_block_size = k_nt_block_size * blocks /\ k_nt_block_size * blocks \in Nat
  <2> HIDE DEF blocks
  <2> QED BY <1>1, <1>3
<1>5. body \in Nat /\ body <= rest
  <2> HIDE DEF blocks, rest
  <2> QED BY <1>2, <1>3, <1>4
<1>6. WholeBlocks(body, workers)
  <2>1. CASE blocks < workers
    <3>1. body = 0 * k_nt_block_size
        BY <1>1, <2>1
    <3> QED BY <3>1 DEF WholeBlocks
  <2>2. CASE ~(blocks < workers)
    <3>1. body = blocks * k_nt_block_size /\ blocks >= workers
      <4> HIDE DEF blocks
      <4> QED BY <2>2, <1>3
    <3> HIDE DEF blocks, body
    <3> QED BY <3>1, <1>3 DEF WholeBlocks
  <2> QED BY <2>1, <2>2
<1>7. ASSUME body # 0 PROVE (misalignment + prefix) % k_nt_alignment = 0
  <2>1. blocks # 0
    <3> HIDE DEF blocks
    <3> QED BY <1>7, <1>3, <1>1
  <2>2. rest # 0
      BY <2>1, <1>1
  <2>3. prefix = gap
      BY <2>2, <1>2
  <2>4. misalignment + prefix \in {0, k_nt_alignment}
      BY <2>3, <1>1
  <2> HIDE DEF prefix
  <2> QED BY <2>4, <1>1
<1>8. CASE size = 0
  <2>1. make_copy_partition(misalignment, size, workers)
          = [prefix_size |-> 0, body_size |-> 0, tail_size |-> 0]
      BY <1>8 DEF make_copy_partition
  <2>2. WholeBlocks(0, workers)
      BY <1>1 DEF WholeBlocks
  <2> QED BY <2>1, <2>2, <1>8
<1>9. CASE size # 0
  <2>1. make_copy_partition(misalignment, size, workers)
          = [prefix_size |-> prefix, body_size |-> body, tail_size |-> size - prefix - body]
      BY <1>9 DEF make_copy_partition
  <2>2. size - prefix - body \in Nat /\ prefix + body + (size - prefix - body) = size
    <3> HIDE DEF prefix, body
    <3> QED BY <1>2, <1>5
  <2> HIDE DEF prefix, body
  <2> QED BY <2>1, <2>2, <1>2, <1>5, <1>6, <1>7
<1> QED BY <1>8, <1>9

(* dispatch_copy() shares out the body: the workers' shares follow each    *)
(* other from the first block to the last without a gap or an overlap, and *)
(* no worker is left without a block when there are enough of them. *)
THEOREM SharesMeet ==
    ASSUME NEW blocks \in Nat, NEW n \in Nat \ {0}, NEW rank \in 0..(n - 1)
    PROVE  /\ block_offset(blocks, n, 0) = 0
           /\ block_offset(blocks, n, rank) + worker_block_count(blocks, n, rank)
                = block_offset(blocks, n, rank + 1)
           /\ block_offset(blocks, n, n) = blocks
           /\ blocks >= n => worker_block_count(blocks, n, rank) >= 1
<1> DEFINE q == blocks \div n
           r == blocks % n
<1>1. q \in Nat /\ r \in 0..(n - 1) /\ blocks = n * q + r
    BY ZenonT(30), Division
<1>2. blocks >= n => q >= 1
  <2>1. SUFFICES ASSUME blocks >= n, q = 0 PROVE FALSE
    <3> HIDE DEF q
    <3> QED BY <1>1
  <2>2. blocks = r
    <3> HIDE DEF q, r
    <3> QED BY <1>1, <2>1
  <2> HIDE DEF q, r
  <2> QED BY <1>1, <2>1, <2>2
<1>3. /\ \A k \in 0..n : block_offset(blocks, n, k) = k * q + (IF k < r THEN k ELSE r)
      /\ worker_block_count(blocks, n, rank) = q + (IF rank < r THEN 1 ELSE 0)
    BY DEF block_offset, worker_block_count
<1> HIDE DEF q, r
<1>4. (rank + 1) * q = rank * q + q /\ rank * q \in Nat /\ n * q \in Nat /\ 0 * q = 0
    BY <1>1
<1>5. block_offset(blocks, n, 0) = 0
    BY <1>1, <1>3, <1>4
<1>6. block_offset(blocks, n, n) = blocks
    BY <1>1, <1>3, <1>4
<1>7. block_offset(blocks, n, rank) + worker_block_count(blocks, n, rank)
        = block_offset(blocks, n, rank + 1)
  <2>1. rank + 1 \in 0..n /\ rank \in 0..n
      OBVIOUS
  <2>2. block_offset(blocks, n, rank + 1) = (rank + 1) * q + (IF rank + 1 < r THEN rank + 1 ELSE r)
      BY <1>3, <2>1
  <2>3. block_offset(blocks, n, rank) = rank * q + (IF rank < r THEN rank ELSE r)
      BY <1>3, <2>1
  <2> QED BY <1>1, <1>3, <1>4, <2>2, <2>3
<1> QED BY <1>1, <1>2, <1>3, <1>5, <1>6, <1>7

-----------------------------------------------------------------------------
(* The thread pool: type correctness, the bounds of the queues, and that no *)
(* queued task is left with sleeping or departed workers.                  *)

(* Some set of workers is started. *)
Started == \E ws \in SUBSET Workers : Start(ws)

(* While the pool runs, no worker has left. *)
WorkersUp == state = "running" => \A w \in Workers : wpc[w] # "exit"

(* Nothing is queued before start(). *)
NotStarted == state = "created" => queue = <<>>

(* A submitter inside run() holds a task. *)
SubmitsTask == \A c \in Clients : cpc[c] # "idle" => ctask[c] \in Tasks

IInv == TypeOK /\ SubmitsTask /\ NotStarted /\ WorkersUp /\ NoStrandedTask /\ Bounded

(* Counting one more for a task keeps the type of a count. *)
LEMMA CountType ==
    ASSUME NEW count \in [Tasks -> Nat], NEW t
    PROVE  [count EXCEPT ![t] = @ + 1] \in [Tasks -> Nat]
<1>1. CASE t \in Tasks
  <2>1. count[t] + 1 \in Nat
      BY <1>1
  <2> QED BY ZenonT(30), <2>1
<1>2. CASE t \notin Tasks
    BY ZenonT(30), <1>2
<1> QED BY <1>1, <1>2

(* The fields of an element of the wait queue. *)
LEMMA WaiterFields ==
    ASSUME NEW s \in Seq(Waiter), NEW j \in 1..Len(s)
    PROVE  s[j].task \in Tasks /\ s[j].deadline \in 1..MaxTime
<1>1. s[j] \in Waiter
    OBVIOUS
<1> QED BY <1>1 DEF Waiter

(* What the refill of take() leaves: sequences of the right types, and an  *)
(* execution queue with room for what it took in.                          *)
LEMMA RefillResult ==
    ASSUME TypeOK, Bounded, queue # <<>>,
           NEW n \in 0..Len(waiters), NEW k \in 0..Len(waiters), NEW f \in [1..k -> 1..n],
           Refill(n, k, f),
           queue' = Tail(queue) \o [i \in 1..k |-> waiters[f[i]].task],
           waiters' = SubSeq(waiters, n + 1, Len(waiters))
    PROVE  /\ queue' \in Seq(Tasks) /\ waiters' \in Seq(Waiter)
           /\ Bounded'
<1> DEFINE added == [i \in 1..k |-> waiters[f[i]].task]
<1>0. queue \in Seq(Tasks) /\ waiters \in Seq(Waiter)
    BY DEF TypeOK, QueueType
<1>1. Len(queue) \in Nat /\ Len(queue) > 0 /\ Len(waiters) \in Nat /\ MaxQueue \in Nat /\ MaxWait \in Nat
  <2>1. Len(queue) # 0
      BY <1>0
  <2> QED BY <2>1, <1>0, SizeAssumption
<1>2. \A j \in 1..Len(waiters) : waiters[j].task \in Tasks
    BY <1>0, WaiterFields
<1>3. added \in Seq(Tasks) /\ Len(added) = k
  <2>1. \A i \in 1..k : waiters[f[i]].task \in Tasks
    <3> SUFFICES ASSUME NEW i \in 1..k PROVE waiters[f[i]].task \in Tasks
        OBVIOUS
    <3>1. f[i] \in 1..n
        OBVIOUS
    <3>2. f[i] \in 1..Len(waiters)
        BY <3>1, <1>1
    <3> QED BY <3>2, <1>2
  <2>2. added \in [1..k -> Tasks]
      BY <2>1
  <2> QED BY <2>2, <1>1
<1>4. Tail(queue) \in Seq(Tasks) /\ Len(Tail(queue)) = Len(queue) - 1
    BY <1>0, <1>1
<1>5. queue' \in Seq(Tasks) /\ Len(queue') = Len(queue) - 1 + k
  <2>1. queue' = Tail(queue) \o added
      OBVIOUS
  <2> QED BY <2>1, <1>3, <1>4
<1>6. waiters' \in Seq(Waiter) /\ Len(waiters') = Len(waiters) - n
    BY <1>0, <1>1
<1>7. MaxQueue > 0 => Len(queue) - 1 + k <= MaxQueue
  <2>1. CASE n = 0
    <3>1. k = 0
      <4> SUFFICES ASSUME k > 0 PROVE FALSE
          BY <1>1
      <4>1. 1 \in 1..k
          BY <1>1
      <4>2. f[1] \in 1..n
          BY <4>1
      <4> QED BY <4>2, <2>1
    <3> QED BY <3>1, <1>1 DEF Bounded
  <2>2. CASE n > 0
      BY <2>2, <1>1 DEF Refill
  <2> QED BY <2>1, <2>2, <1>1
<1> QED BY <1>1, <1>5, <1>6, <1>7 DEF Bounded

(* Removing the waiter at an index, as the deadline thread does. *)
LEMMA RemoveWaiter ==
    ASSUME TypeOK, NEW i \in 1..Len(waiters)
    PROVE  LET rest == SubSeq(waiters, 1, i - 1) \o SubSeq(waiters, i + 1, Len(waiters))
           IN  rest \in Seq(Waiter) /\ Len(rest) = Len(waiters) - 1
<1> DEFINE a == SubSeq(waiters, 1, i - 1)
           b == SubSeq(waiters, i + 1, Len(waiters))
<1>1. waiters \in Seq(Waiter) /\ Len(waiters) \in Nat
    BY DEF TypeOK, QueueType
<1>2. a \in Seq(Waiter) /\ Len(a) = i - 1
    BY <1>1
<1>3. b \in Seq(Waiter) /\ Len(b) = Len(waiters) - i
    BY <1>1
<1> HIDE DEF a, b
<1>4. a \o b \in Seq(Waiter) /\ Len(a \o b) = Len(waiters) - 1
    BY <1>1, <1>2, <1>3
<1> QED BY ZenonT(30), <1>4 DEF a, b

(* The types after the steps that move tasks between the queues and the    *)
(* threads.                                                                *)
LEMMA TypeStep ==
    ASSUME TypeOK, SubmitsTask, Bounded, [Next]_vars
    PROVE  TypeOK'
<1> USE DEF clientVars, threadVars, deadlineVars, historyVars
<1>0. /\ queue \in Seq(Tasks) /\ waiters \in Seq(Waiter)
      /\ MaxTime \in Nat /\ <<>> \in Seq(Waiter)
      /\ QueueType /\ WorkerType /\ ClientType /\ DeadlineType /\ HistoryType
    BY SizeAssumption DEF TypeOK, QueueType
<1>1. CASE UNCHANGED vars
    BY <1>0, <1>1 DEF TypeOK, vars, QueueType, WorkerType, ClientType, DeadlineType, HistoryType
<1>2. CASE Started \/ StartFails \/ StopBegin \/ StopEnd \/ Tick
  <2> USE DEF Started, Start, StartFails, StopBegin, StopEnd, Tick
  <2>1. QueueType'
    <3>1. CASE Tick
        BY <1>0, <3>1 DEF QueueType
    <3>2. CASE StopBegin
        BY <1>0, <3>2 DEF QueueType
    <3>3. CASE Started \/ StartFails \/ StopEnd
        BY <1>0, <3>3 DEF QueueType
    <3> QED BY <1>2, <3>1, <3>2, <3>3
  <2>2. WorkerType'
      BY <1>0, <1>2 DEF WorkerType, WakeAllWorkers
  <2>3. ClientType'
      BY <1>0, <1>2 DEF ClientType, WakeAllClients
  <2>4. DeadlineType'
      BY <1>0, <1>2 DEF DeadlineType, NotifyDeadline
  <2>5. HistoryType'
      BY <1>0, <1>2 DEF HistoryType
  <2> QED BY <2>1, <2>2, <2>3, <2>4, <2>5 DEF TypeOK
<1>3. CASE DeadlineStep
  <2> USE DEF DeadlineSleeps, DeadlineExits, DeadlineWakes, DeadlineCallback, DeadlineWaits,
              DeadlineFires
  <2>1. WorkerType' /\ ClientType'
      BY ZenonT(30), <1>0, <1>3 DEF WorkerType, ClientType, DeadlineStep
  <2>2. HistoryType'
    <3>1. CASE DeadlineCallback
      <4>1. timedOut' = [timedOut EXCEPT ![dtask] = @ + 1] /\ timedOut \in [Tasks -> Nat]
          BY <1>0, <3>1 DEF HistoryType
      <4>2. timedOut' \in [Tasks -> Nat]
          BY <4>1, CountType
      <4> QED BY <1>0, <3>1, <4>2 DEF HistoryType
    <3>2. CASE ~DeadlineCallback
        BY ZenonT(30), <1>0, <1>3, <3>2 DEF HistoryType, DeadlineStep
    <3> QED BY <3>1, <3>2
  <2>3. CASE DeadlineSleeps \/ DeadlineExits \/ DeadlineWakes \/ DeadlineCallback
    <3>1. QueueType' /\ DeadlineType'
        BY <1>0, <2>3 DEF QueueType, DeadlineType
    <3> QED BY <2>1, <2>2, <3>1 DEF TypeOK
  <2>4. CASE DeadlineWaits
    <3>1. PICK i \in 1..Len(waiters) : duntil' = waiters[i].deadline
        BY <2>4
    <3>2. waiters[i].deadline \in 0..MaxTime
      <4>1. waiters[i].deadline \in 1..MaxTime
          BY ZenonT(30), <1>0, <3>1, WaiterFields
      <4> QED BY <1>0, <4>1
    <3>3. QueueType' /\ DeadlineType'
        BY <1>0, <2>4, <3>1, <3>2 DEF QueueType, DeadlineType
    <3> QED BY <2>1, <2>2, <3>3 DEF TypeOK
  <2>5. CASE DeadlineFires
    <3>1. PICK i \in 1..Len(waiters) :
            /\ dtask' = waiters[i].task
            /\ waiters' = SubSeq(waiters, 1, i - 1) \o SubSeq(waiters, i + 1, Len(waiters))
        BY ZenonT(30), <2>5
    <3>2. waiters' \in Seq(Waiter)
        BY ZenonT(30), <3>1, RemoveWaiter
    <3>3. waiters[i].task \in Tasks
        BY ZenonT(30), <1>0, <3>1, WaiterFields
    <3>4. QueueType' /\ DeadlineType'
        BY <1>0, <2>5, <3>1, <3>2, <3>3 DEF QueueType, DeadlineType
    <3> QED BY ZenonT(30), <2>1, <2>2, <3>4 DEF TypeOK
  <2> QED BY ZenonT(30), <1>3, <2>3, <2>4, <2>5 DEF DeadlineStep
<1>4. ASSUME NEW w \in Workers, WorkerStep(w) PROVE TypeOK'
  <2>1. DeadlineType'
      BY <1>0, <1>4 DEF DeadlineType, WorkerStep, TakeSleep, TakeExit, TakeTask, CallExpired,
          FinishTask
  <2>2. CASE TakeSleep(w) \/ TakeExit(w) \/ CallExpired(w) \/ FinishTask(w)
    <3> USE DEF TakeSleep, TakeExit, CallExpired, FinishTask
    <3>1. QueueType' /\ ClientType'
        BY <1>0, <2>2 DEF QueueType, ClientType
    <3>2. WorkerType'
        BY ZenonT(30), <1>0, <2>2 DEF WorkerType
    <3>3. HistoryType'
      <4>1. CASE CallExpired(w)
        <5>1. timedOut' \in [Tasks -> Nat]
          <6>1. \A t \in Tasks : timedOut[t] + (IF t \in expired[w] THEN 1 ELSE 0) \in Nat
              BY <1>0 DEF HistoryType
          <6> QED BY <4>1, <6>1
        <5> QED BY <1>0, <4>1, <5>1 DEF HistoryType
      <4>2. CASE TakeSleep(w) \/ TakeExit(w)
          BY <1>0, <4>2 DEF HistoryType
      <4>3. CASE FinishTask(w)
        <5>1. ran' \in [Tasks -> Nat]
            BY ZenonT(30), <1>0, <4>3, CountType DEF HistoryType
        <5> QED BY <1>0, <4>3, <5>1 DEF HistoryType
      <4> QED BY <2>2, <4>1, <4>2, <4>3
    <3> QED BY <2>1, <3>1, <3>2, <3>3 DEF TypeOK
  <2>3. CASE TakeTask(w)
    <3>1. PICK n \in 0..Len(waiters), k \in 0..Len(waiters) : \E f \in [1..k -> 1..n] :
            /\ Refill(n, k, f)
            /\ queue' = Tail(queue) \o [i \in 1..k |-> waiters[f[i]].task]
            /\ waiters' = SubSeq(waiters, n + 1, Len(waiters))
            /\ expired' = [expired EXCEPT ![w] =
                             {waiters[j].task : j \in {j \in 1..n : ~Live(waiters[j])}}]
        BY ZenonT(30), <2>3 DEF TakeTask
    <3>2. queue' \in Seq(Tasks) /\ waiters' \in Seq(Waiter)
        BY ZenonT(30), <2>3, <3>1, RefillResult DEF TakeTask
    <3>3. {waiters[j].task : j \in {j \in 1..n : ~Live(waiters[j])}} \subseteq Tasks
      <4>1. \A j \in 1..Len(waiters) : waiters[j].task \in Tasks
          BY <1>0, WaiterFields
      <4>2. \A j \in 1..n : j \in 1..Len(waiters)
          BY <1>0
      <4> QED BY <4>1, <4>2
    <3>4. Head(queue) \in Tasks
        BY <1>0, <2>3 DEF TakeTask
    <3>5. ClientType'
        BY ZenonT(30), <1>0, <2>3 DEF ClientType, TakeTask, NotifySubmitter, AsleepClients
    <3>6. expired' \in [Workers -> SUBSET Tasks]
        BY <1>0, <3>1, <3>3 DEF WorkerType
    <3>7. WorkerType'
        BY ZenonT(30), <1>0, <2>3, <3>4, <3>6 DEF WorkerType, TakeTask
    <3>8. QueueType' /\ HistoryType'
        BY ZenonT(30), <1>0, <2>3, <3>2 DEF QueueType, HistoryType, TakeTask
    <3> QED BY <2>1, <3>5, <3>7, <3>8 DEF TypeOK
  <2> QED BY ZenonT(30), <1>4, <2>2, <2>3 DEF WorkerStep
<1>5. ASSUME NEW c \in Clients, ClientStep(c) \/ (\E t \in Tasks : CallRun(c, t)) PROVE TypeOK'
  <2> USE DEF CallRun, RunRejected, RunSleeps, RunInline, FinishInline, RunQueued, ReturnFromRun
  <2>1. DeadlineType' /\ (wtask' = wtask /\ expired' = expired)
      BY ZenonT(30), <1>0, <1>5 DEF DeadlineType, ClientStep
  <2>2. ClientType'
      BY ZenonT(30), <1>0, <1>5 DEF ClientType, ClientStep
  <2>3. CASE RunQueued(c)
    <3>1. ctask[c] \in Tasks
        BY <2>3 DEF SubmitsTask
    <3>2. QueueType'
        BY <1>0, <2>3, <3>1 DEF QueueType, Put
    <3>3. WorkerType'
        BY ZenonT(30), <1>0, <2>1, <2>3 DEF WorkerType, Put, NotifyWorker, AsleepWorkers
    <3>4. HistoryType'
        BY <1>0, <2>3, <3>1 DEF HistoryType, Put
    <3> QED BY <2>1, <2>2, <3>2, <3>3, <3>4 DEF TypeOK
  <2>4. CASE ~RunQueued(c)
    <3>1. QueueType' /\ WorkerType'
        BY ZenonT(30), <1>0, <1>5, <2>4 DEF QueueType, WorkerType, ClientStep
    <3>2. HistoryType'
        BY <1>0, <1>5, <2>4 DEF HistoryType, ClientStep, SubmitsTask
    <3> QED BY ZenonT(30), <2>1, <2>2, <3>1, <3>2 DEF TypeOK
  <2> QED BY <2>3, <2>4
<1>6. ASSUME NEW t \in Tasks, TryRun(t) PROVE TypeOK'
  <2>1. QueueType'
      BY <1>0, <1>6 DEF QueueType, TryRun, Put
  <2>2. WorkerType'
      BY <1>0, <1>6 DEF WorkerType, TryRun, Put, NotifyWorker, AsleepWorkers
  <2>3. ClientType' /\ DeadlineType'
      BY <1>0, <1>6 DEF ClientType, DeadlineType, TryRun
  <2>4. HistoryType'
      BY <1>0, <1>6 DEF HistoryType, TryRun, Put
  <2> QED BY <2>1, <2>2, <2>3, <2>4 DEF TypeOK
<1>7. ASSUME NEW t \in Tasks, NEW d \in 1..MaxTime, SubmitAsync(t, d) PROVE TypeOK'
  <2>1. QueueType'
    <3>1. [task |-> t, deadline |-> d] \in Waiter
        BY DEF Waiter
    <3>2. Append(waiters, [task |-> t, deadline |-> d]) \in Seq(Waiter)
        BY <1>0, <3>1
    <3>3. Append(queue, t) \in Seq(Tasks)
        BY <1>0
    <3> QED BY ZenonT(30), <1>0, <1>7, <3>2, <3>3 DEF QueueType, SubmitAsync, Put, AddWaiter
  <2>2. WorkerType'
      BY <1>0, <1>7 DEF WorkerType, SubmitAsync, Put, AddWaiter, NotifyWorker, AsleepWorkers
  <2>3. ClientType' /\ DeadlineType'
      BY <1>0, <1>7 DEF ClientType, DeadlineType, SubmitAsync, AddWaiter, NotifyDeadline
  <2>4. HistoryType'
      BY <1>0, <1>7 DEF HistoryType, SubmitAsync, Put, AddWaiter
  <2> QED BY <2>1, <2>2, <2>3, <2>4 DEF TypeOK
<1> QED BY <1>1, <1>2, <1>3, <1>4, <1>5, <1>6, <1>7 DEF Next, Started

(* Tasks are queued only while the pool runs, and taken only from a queue  *)
(* that has one.                                                           *)
LEMMA NotStartedStep ==
    ASSUME NotStarted, [Next]_vars
    PROVE  NotStarted'
<1> USE DEF NotStarted, clientVars, threadVars, deadlineVars, historyVars
<1>1. CASE UNCHANGED vars
    BY ZenonT(30), <1>1 DEF vars
<1>2. CASE Started \/ StartFails \/ StopBegin \/ StopEnd \/ Tick \/ DeadlineStep
    BY ZenonT(30), <1>2 DEF Started, Start, StartFails, StopBegin, StopEnd, Tick, DeadlineStep, DeadlineSleeps,
        DeadlineExits, DeadlineWakes, DeadlineCallback, DeadlineWaits, DeadlineFires
<1>3. ASSUME NEW w \in Workers, WorkerStep(w) PROVE NotStarted'
    BY <1>3 DEF WorkerStep, TakeSleep, TakeExit, TakeTask, CallExpired, FinishTask
<1>4. ASSUME NEW c \in Clients, ClientStep(c) \/ (\E t \in Tasks : CallRun(c, t)) PROVE NotStarted'
    BY ZenonT(30), <1>4 DEF ClientStep, CallRun, RunRejected, RunSleeps, RunQueued, RunInline, FinishInline
<1>5. ASSUME NEW t \in Tasks, TryRun(t) \/ (\E d \in 1..MaxTime : SubmitAsync(t, d)) PROVE NotStarted'
    BY <1>5 DEF TryRun, SubmitAsync
<1> QED BY <1>1, <1>2, <1>3, <1>4, <1>5 DEF Next, Started

(* Only the worker that took a task refills the queue; every other task    *)
(* enters through Put, while the pool runs.                                *)
LEMMA InvStep ==
    ASSUME IInv, [Next]_vars
    PROVE  SubmitsTask' /\ WorkersUp' /\ NoStrandedTask'
<1> USE DEF clientVars, threadVars, deadlineVars, historyVars
<1>0. /\ queue \in Seq(Tasks) /\ WorkerType /\ ClientType
      /\ SubmitsTask /\ NotStarted /\ WorkersUp /\ NoStrandedTask
    BY ZenonT(30) DEF IInv, TypeOK, QueueType
<1>1. CASE UNCHANGED vars
    BY ZenonT(30), <1>0, <1>1 DEF vars, SubmitsTask, WorkersUp, NoStrandedTask
<1>2. CASE Started \/ StartFails \/ StopEnd \/ Tick \/ DeadlineStep
  <2> USE DEF Started, Start, StartFails, StopEnd, Tick, DeadlineStep, DeadlineSleeps, DeadlineExits,
              DeadlineWakes, DeadlineCallback, DeadlineWaits, DeadlineFires
  <2>1. SubmitsTask'
      BY ZenonT(30), <1>0, <1>2 DEF SubmitsTask
  <2>2. CASE Started
    <3>1. PICK ws \in SUBSET Workers : Start(ws)
        BY <2>2
    <3>2. WorkersUp'
        BY <3>1 DEF WorkersUp
    <3>3. NoStrandedTask'
        BY <1>0, <3>1 DEF WorkerType, NoStrandedTask, NotStarted
    <3> QED BY <2>1, <3>2, <3>3
  <2>3. CASE ~Started
      BY ZenonT(30), <1>0, <1>2, <2>1, <2>3 DEF WorkerType, WorkersUp, NoStrandedTask
  <2> QED BY ZenonT(30), <2>2, <2>3
<1>3. CASE StopBegin
    BY <1>0, <1>3 DEF StopBegin, WakeAllWorkers, WakeAllClients, SubmitsTask, WorkersUp,
        NoStrandedTask, WorkerType, ClientType
<1>4. ASSUME NEW w \in Workers, WorkerStep(w) PROVE SubmitsTask' /\ WorkersUp' /\ NoStrandedTask'
  <2> USE DEF TakeSleep, TakeExit, TakeTask, CallExpired, FinishTask
  <2>1. SubmitsTask'
      BY ZenonT(30), <1>0, <1>4 DEF SubmitsTask, WorkerStep, NotifySubmitter, AsleepClients, ClientType
  <2>2. WorkersUp'
      BY ZenonT(30), <1>0, <1>4 DEF WorkersUp, WorkerStep, WorkerType
  <2>3. NoStrandedTask'
      BY <1>0, <1>4 DEF NoStrandedTask, WorkerStep, WorkerType
  <2> QED BY ZenonT(30), <2>1, <2>2, <2>3
<1>5. ASSUME NEW t \in Tasks, Put(t), state = "running", ~Inline, state' = state
      PROVE  WorkersUp' /\ NoStrandedTask'
    BY <1>0, <1>5 DEF Put, NotifyWorker, AsleepWorkers, WorkersUp, NoStrandedTask, WorkerType, Inline
<1>6. ASSUME NEW c \in Clients, ClientStep(c) \/ (\E t \in Tasks : CallRun(c, t))
      PROVE  SubmitsTask' /\ WorkersUp' /\ NoStrandedTask'
  <2> USE DEF CallRun, RunRejected, RunSleeps, RunInline, FinishInline, RunQueued, ReturnFromRun
  <2>1. SubmitsTask'
      BY <1>0, <1>6 DEF SubmitsTask, ClientStep, ClientType
  <2>2. CASE RunQueued(c)
    <3>1. ctask[c] \in Tasks
        BY ZenonT(30), <1>0, <2>2 DEF SubmitsTask
    <3> QED BY <1>5, <2>1, <2>2, <3>1
  <2>3. CASE ~RunQueued(c)
      BY <1>0, <1>6, <2>1, <2>3 DEF WorkersUp, NoStrandedTask, ClientStep
  <2> QED BY ZenonT(30), <2>2, <2>3
<1>7. ASSUME NEW t \in Tasks, TryRun(t) PROVE SubmitsTask' /\ WorkersUp' /\ NoStrandedTask'
  <2>1. SubmitsTask' /\ state' = state
      BY <1>0, <1>7 DEF TryRun, SubmitsTask
  <2>2. CASE state = "running" /\ ~IsFull
      BY <1>5, <1>7, <2>1, <2>2 DEF TryRun
  <2>3. CASE ~(state = "running" /\ ~IsFull)
      BY <1>0, <1>7, <2>1, <2>3 DEF TryRun, WorkersUp, NoStrandedTask
  <2> QED BY ZenonT(30), <2>2, <2>3
<1>8. ASSUME NEW t \in Tasks, NEW d \in 1..MaxTime, SubmitAsync(t, d)
      PROVE  SubmitsTask' /\ WorkersUp' /\ NoStrandedTask'
  <2>1. SubmitsTask' /\ state' = state
      BY <1>0, <1>8 DEF SubmitAsync, SubmitsTask
  <2>2. CASE Put(t) /\ state = "running" /\ ~Inline
      BY <1>5, <2>1, <2>2
  <2>3. CASE ~(Put(t) /\ state = "running" /\ ~Inline)
      BY <1>0, <1>8, <2>1, <2>3 DEF SubmitAsync, WorkersUp, NoStrandedTask
  <2> QED BY <2>2, <2>3
<1> QED BY <1>1, <1>2, <1>3, <1>4, <1>6, <1>7, <1>8 DEF Next, Started

(* Every place that adds to a queue has checked for room. *)
LEMMA BoundStep ==
    ASSUME IInv, [Next]_vars
    PROVE  Bounded'
<1> USE DEF clientVars, threadVars, deadlineVars, historyVars
<1>0. /\ queue \in Seq(Tasks) /\ waiters \in Seq(Waiter)
      /\ MaxQueue \in Nat /\ MaxWait \in Nat
      /\ Bounded /\ TypeOK
    BY SizeAssumption DEF IInv, TypeOK, QueueType
<1>1. ASSUME UNCHANGED <<queue, waiters>> PROVE Bounded'
    BY <1>0, <1>1 DEF Bounded
<1>2. ASSUME NEW t, Put(t), ~IsFull, waiters' = waiters PROVE Bounded'
  <2>1. Len(queue') = Len(queue) + 1
      BY <1>0, <1>2 DEF Put
  <2> QED BY <1>0, <1>2, <2>1 DEF Bounded, IsFull
<1>3. CASE UNCHANGED vars \/ Started \/ StartFails \/ StopEnd \/ Tick
    BY <1>1, <1>3 DEF vars, Started, Start, StartFails, StopEnd, Tick
<1>4. CASE StopBegin
  <2>1. Len(waiters') = 0 /\ queue' = queue
      BY <1>4 DEF StopBegin
  <2> QED BY <1>0, <2>1 DEF Bounded
<1>5. CASE DeadlineStep
  <2>1. CASE DeadlineFires
    <3>1. PICK i \in 1..Len(waiters) :
            waiters' = SubSeq(waiters, 1, i - 1) \o SubSeq(waiters, i + 1, Len(waiters))
        BY ZenonT(30), <2>1 DEF DeadlineFires
    <3>2. Len(waiters') = Len(waiters) - 1 /\ queue' = queue
        BY ZenonT(30), <1>0, <2>1, <3>1, RemoveWaiter DEF DeadlineFires
    <3> QED BY <1>0, <3>2 DEF Bounded
  <2>2. CASE ~DeadlineFires
      BY <1>1, <1>5, <2>2 DEF DeadlineStep, DeadlineSleeps, DeadlineExits, DeadlineWakes,
          DeadlineCallback, DeadlineWaits
  <2> QED BY <2>1, <2>2
<1>6. ASSUME NEW w \in Workers, WorkerStep(w) PROVE Bounded'
  <2>1. CASE TakeTask(w)
      BY ZenonT(30), <1>0, <2>1, RefillResult DEF TakeTask
  <2>2. CASE ~TakeTask(w)
      BY <1>1, <1>6, <2>2 DEF WorkerStep, TakeSleep, TakeExit, CallExpired, FinishTask
  <2> QED BY <2>1, <2>2
<1>7. ASSUME NEW c \in Clients, ClientStep(c) \/ (\E t \in Tasks : CallRun(c, t)) PROVE Bounded'
  <2>1. CASE RunQueued(c)
      BY ZenonT(30), <1>2, <2>1 DEF RunQueued
  <2>2. CASE ~RunQueued(c)
      BY <1>1, <1>7, <2>2 DEF ClientStep, CallRun, RunRejected, RunSleeps, RunInline, FinishInline
  <2> QED BY <2>1, <2>2
<1>8. ASSUME NEW t \in Tasks, TryRun(t) PROVE Bounded'
    BY <1>1, <1>2, <1>8 DEF TryRun
<1>9. ASSUME NEW t \in Tasks, NEW d \in 1..MaxTime, SubmitAsync(t, d) PROVE Bounded'
  <2>1. CASE Len(waiters) < MaxWait /\ AddWaiter(t, d) /\ queue' = queue
    <3>1. Len(waiters') = Len(waiters) + 1
        BY <1>0, <2>1 DEF AddWaiter
    <3> QED BY <1>0, <2>1, <3>1 DEF Bounded
  <2>2. CASE Put(t) /\ ~IsFull /\ waiters' = waiters
      BY <1>2, <2>2
  <2>3. CASE UNCHANGED <<queue, waiters>>
      BY <1>1, <2>3
  <2> QED BY <1>0, <1>9, <2>1, <2>2, <2>3 DEF SubmitAsync
<1> QED BY <1>3, <1>4, <1>5, <1>6, <1>7, <1>8, <1>9 DEF Next, Started

(* The pool as constructed satisfies the inductive invariant. *)
LEMMA InitInv == Init => IInv
<1> SUFFICES ASSUME Init PROVE IInv
    OBVIOUS
<1>1. QueueType /\ WorkerType /\ ClientType /\ DeadlineType /\ HistoryType
    BY SizeAssumption DEF Init, QueueType, WorkerType, ClientType, DeadlineType, HistoryType
<1>2. SubmitsTask /\ NotStarted /\ WorkersUp /\ NoStrandedTask
    BY DEF Init, SubmitsTask, NotStarted, WorkersUp, NoStrandedTask
<1>3. Bounded
    BY SizeAssumption DEF Init, Bounded
<1> QED BY <1>1, <1>2, <1>3 DEF IInv, TypeOK

(* Every step of every thread preserves it. *)
LEMMA StepInv == IInv /\ [Next]_vars => IInv'
    BY TypeStep, NotStartedStep, InvStep, BoundStep DEF IInv

(* The inductive invariant holds throughout. *)
THEOREM InductiveInvariant == Spec => []IInv
    BY InitInv, StepInv, PTL DEF Spec

(* Type correctness of the pool. *)
THEOREM PoolTypeCorrect == Spec => []TypeOK
<1>1. IInv => TypeOK
    BY DEF IInv
<1> QED BY <1>1, InductiveInvariant, PTL

(* No queued task is ever left with sleeping or departed workers, although *)
(* the refill of take() notifies nobody.                                   *)
THEOREM QueuedTaskHasWorker == Spec => []NoStrandedTask
<1>1. IInv => NoStrandedTask
    BY DEF IInv
<1> QED BY <1>1, InductiveInvariant, PTL

(* Neither queue outgrows its configured size. *)
THEOREM QueuesBounded == Spec => []Bounded
<1>1. IInv => Bounded
    BY ZenonT(30) DEF IInv
<1> QED BY <1>1, InductiveInvariant, PTL

-----------------------------------------------------------------------------
(* Where a task is. Each step moves a task from one place to another, or   *)
(* moves none.                                                             *)

(* Where a task can be held, *)
Submitting(t) == \E c \in Clients : ctask[c] = t
Queued(t) == \E i \in 1..Len(queue) : queue[i] = t
Waiting(t) == \E i \in 1..Len(waiters) : waiters[i].task = t
Taken(t) == \E w \in Workers : wtask[w] = t
Expiring(t) == \E w \in Workers : t \in expired[w]
Done(t) == ran[t] + timedOut[t] # 0

Places == {"fresh", "client", "queue", "waiters", "worker", "expired", "deadline", "done"}

At(p, t) ==
    \/ p = "fresh" /\ t \in fresh
    \/ p = "client" /\ Submitting(t)
    \/ p = "queue" /\ Queued(t)
    \/ p = "waiters" /\ Waiting(t)
    \/ p = "worker" /\ Taken(t)
    \/ p = "expired" /\ Expiring(t)
    \/ p = "deadline" /\ dtask = t
    \/ p = "done" /\ Done(t)

(* in one place only, *)
OnePlace == \A t \in Tasks, p, q \in Places : At(p, t) /\ At(q, t) => p = q

(* and there once. *)
QueuedOnce == \A i, j \in 1..Len(queue) : queue[i] = queue[j] => i = j
WaitsOnce == \A i, j \in 1..Len(waiters) : waiters[i].task = waiters[j].task => i = j
TakenOnce == \A v, w \in Workers : wtask[v] = wtask[w] /\ wtask[v] # NoTask => v = w
ExpiredOnce == \A t \in Tasks, v, w \in Workers : t \in expired[v] /\ t \in expired[w] => v = w
SubmittedOnce == \A b, c \in Clients : ctask[b] = ctask[c] /\ ctask[b] # NoTask => b = c
DoneOnce == \A t \in Tasks : ran[t] + timedOut[t] <= 1

(* A thread about to call back or to execute has a task. *)
HasTask ==
    /\ \A w \in Workers : wpc[w] \in {"callbacks", "exec"} => wtask[w] \in Tasks
    /\ dpc = "callback" => dtask \in Tasks

(* Past its submission a task is accepted. *)
Admitted == \A t \in Tasks, p \in Places \ {"fresh", "client"} : At(p, t) => t \in accepted
InlineAdmitted == \A c \in Clients : cpc[c] = "inline" => ctask[c] \in accepted

Once == QueuedOnce /\ WaitsOnce /\ TakenOnce /\ ExpiredOnce /\ SubmittedOnce /\ DoneOnce

FateInv == OnePlace /\ Once /\ HasTask /\ Admitted /\ InlineAdmitted

(* No task enters the place. *)
Shrinks(p) == \A t \in Tasks : At(p, t)' => At(p, t)

(* Nothing enters a place whose variable does not change. *)
LEMMA Unmoved ==
    /\ fresh' \subseteq fresh => Shrinks("fresh")
    /\ ctask' = ctask => Shrinks("client")
    /\ queue' = queue => Shrinks("queue")
    /\ waiters' = waiters => Shrinks("waiters")
    /\ wtask' = wtask => Shrinks("worker")
    /\ expired' = expired => Shrinks("expired")
    /\ dtask' = dtask => Shrinks("deadline")
    /\ ran' = ran /\ timedOut' = timedOut => Shrinks("done")
  BY DEF Shrinks, At, Submitting, Queued, Waiting, Taken, Expiring, Done

(* A step that moves no task. *)
LEMMA NoMove ==
    ASSUME OnePlace, Admitted, \A p \in Places : Shrinks(p), accepted \subseteq accepted'
    PROVE  OnePlace' /\ Admitted'
  BY DEF OnePlace, Admitted, Shrinks

(* A step that moves one task. *)
LEMMA MoveOne ==
    ASSUME OnePlace, Admitted, NEW x \in Tasks, NEW from \in Places, NEW to \in Places,
           At(from, x), ~At(from, x)', \A p \in Places \ {to} : Shrinks(p),
           \A t \in Tasks \ {x} : At(to, t)' => At(to, t),
           accepted \subseteq accepted', to \in {"fresh", "client"} \/ x \in accepted'
    PROVE  OnePlace' /\ Admitted'
<1>1. ASSUME NEW t \in Tasks, NEW p \in Places, At(p, t)'
      PROVE  At(p, t) \/ (t = x /\ p = to)
    BY <1>1 DEF Shrinks
<1>2. OnePlace'
    BY <1>1 DEF OnePlace
<1>3. Admitted'
    BY <1>1 DEF Admitted
<1> QED BY <1>2, <1>3

(* The tasks everywhere. *)
tasksVars == <<fresh, ctask, queue, waiters, wtask, expired, dtask, ran, timedOut>>

(* A step that leaves the tasks where they are. *)
LEMMA QuietStep ==
    ASSUME FateInv, UNCHANGED tasksVars, accepted \subseteq accepted', HasTask', InlineAdmitted'
    PROVE  FateInv'
<1>1. \A p \in Places : Shrinks(p)
    BY Unmoved DEF tasksVars, Places
<1>2. OnePlace' /\ Admitted'
    BY <1>1, NoMove DEF FateInv
<1>3. Once'
    BY DEF FateInv, Once, tasksVars, QueuedOnce, WaitsOnce, TakenOnce, ExpiredOnce, SubmittedOnce,
        DoneOnce
<1> QED BY <1>2, <1>3 DEF FateInv

(* The elements of a sequence with one more. *)
LEMMA Appended ==
    ASSUME NEW S, NEW s \in Seq(S), NEW e \in S
    PROVE  /\ Len(Append(s, e)) = Len(s) + 1
           /\ \A i \in 1..Len(s) : Append(s, e)[i] = s[i]
           /\ Append(s, e)[Len(s) + 1] = e
  OBVIOUS

(* A task put in the queue, that was not there. *)
LEMMA PutMoves ==
    ASSUME TypeOK, FateInv, NEW x \in Tasks, ~Queued(x), Put(x)
    PROVE  /\ QueuedOnce'
           /\ \A t \in Tasks \ {x} : At("queue", t)' => At("queue", t)
           /\ accepted \subseteq accepted' /\ x \in accepted'
<1>1. queue \in Seq(Tasks) /\ Len(queue) \in Nat /\ QueuedOnce
    BY DEF TypeOK, QueueType, FateInv, Once
<1>2. /\ Len(queue') = Len(queue) + 1 /\ queue'[Len(queue) + 1] = x
      /\ \A i \in 1..Len(queue) : queue'[i] = queue[i]
    BY <1>1, Appended DEF Put
<1>3. \A i \in 1..Len(queue) : queue[i] # x
    BY DEF Queued
<1>4. QueuedOnce'
    BY <1>1, <1>2, <1>3 DEF QueuedOnce
<1>5. ASSUME NEW t \in Tasks \ {x}, Queued(t)' PROVE Queued(t)
    BY <1>1, <1>2, <1>5 DEF Queued
<1>6. accepted \subseteq accepted' /\ x \in accepted'
    BY DEF Put
<1> QED BY <1>4, <1>5, <1>6 DEF At

(* A waking worker is about to take. *)
LEMMA PutWakes ==
    ASSUME TypeOK, HasTask, NEW x, Put(x), UNCHANGED <<wtask, dpc, dtask>>
    PROVE  HasTask'
  BY DEF TypeOK, WorkerType, HasTask, Put, NotifyWorker, AsleepWorkers

(* A task whose execution or timeout is counted, that was not done. *)
LEMMA CountedOnce ==
    ASSUME TypeOK, DoneOnce, NEW x \in Tasks, ~Done(x),
           \/ ran' = [ran EXCEPT ![x] = @ + 1] /\ timedOut' = timedOut
           \/ timedOut' = [timedOut EXCEPT ![x] = @ + 1] /\ ran' = ran
    PROVE  DoneOnce' /\ \A t \in Tasks \ {x} : At("done", t)' => At("done", t)
<1>1. ran \in [Tasks -> Nat] /\ timedOut \in [Tasks -> Nat]
    BY DEF TypeOK, HistoryType
<1>2. /\ \A t \in Tasks \ {x} : ran'[t] = ran[t] /\ timedOut'[t] = timedOut[t]
      /\ ran'[x] + timedOut'[x] = ran[x] + timedOut[x] + 1
  <2>1. CASE ran' = [ran EXCEPT ![x] = @ + 1] /\ timedOut' = timedOut
      BY <1>1, <2>1
  <2>2. CASE timedOut' = [timedOut EXCEPT ![x] = @ + 1] /\ ran' = ran
      BY <1>1, <2>2
  <2> QED BY <2>1, <2>2
<1>3. DoneOnce'
    BY <1>2 DEF DoneOnce, Done
<1> QED BY <1>2, <1>3 DEF Done, At

(* run() is called with a fresh task. *)
LEMMA CallFate ==
    ASSUME TypeOK, FateInv, NEW c \in Clients, NEW x \in Tasks, CallRun(c, x)
    PROVE  FateInv'
<1> USE DEF threadVars, deadlineVars, historyVars
<1>0. /\ ClientType /\ OnePlace /\ Once /\ HasTask /\ Admitted /\ InlineAdmitted
      /\ ran \in [Tasks -> Nat] /\ timedOut \in [Tasks -> Nat] /\ NoTask \notin Tasks
    BY NoTaskAssumption DEF TypeOK, FateInv, HistoryType
<1> USE DEF CallRun
<1>1. HasTask' /\ InlineAdmitted'
    BY <1>0 DEF HasTask, InlineAdmitted, ClientType
<1>2. At("fresh", x) /\ ~At("fresh", x)'
    BY DEF At
<1>3. ~Submitting(x)
    BY <1>0, <1>2 DEF OnePlace, At, Places
<1>4. \A t \in Tasks \ {x} : At("client", t)' => At("client", t)
    BY <1>0 DEF At, Submitting, ClientType
<1>5. \A p \in Places \ {"client"} : Shrinks(p)
  <2>1. fresh' \subseteq fresh
      BY ZenonT(30)
  <2> QED BY <2>1, Unmoved DEF Places
<1>6. OnePlace' /\ Admitted'
    BY <1>0, <1>2, <1>4, <1>5, MoveOne DEF Places
<1>7. SubmittedOnce'
    BY <1>0, <1>3 DEF Once, SubmittedOnce, Submitting, ClientType
<1>8. Once'
    BY ZenonT(30), <1>0, <1>7 DEF Once, QueuedOnce, WaitsOnce, TakenOnce, ExpiredOnce, DoneOnce
<1> QED BY <1>1, <1>6, <1>8 DEF FateInv

(* run() returns: its task leaves the client. *)
LEMMA Returned ==
    ASSUME TypeOK, FateInv, NEW c \in Clients, ReturnFromRun(c), accepted \subseteq accepted'
    PROVE  /\ SubmittedOnce' /\ InlineAdmitted'
           /\ \A t \in Tasks : At("client", t)' => At("client", t) /\ t # ctask[c]
<1> USE DEF threadVars, deadlineVars, historyVars
<1>0. /\ ClientType /\ OnePlace /\ Once /\ HasTask /\ Admitted /\ InlineAdmitted
      /\ ran \in [Tasks -> Nat] /\ timedOut \in [Tasks -> Nat] /\ NoTask \notin Tasks
    BY NoTaskAssumption DEF TypeOK, FateInv, HistoryType
<1>1. /\ ctask' = [ctask EXCEPT ![c] = NoTask] /\ cpc' = [cpc EXCEPT ![c] = "idle"]
      /\ ctask \in [Clients -> Tasks \cup {NoTask}] /\ cpc \in [Clients -> {"idle", "submit", "asleep", "inline"}]
    BY <1>0 DEF ReturnFromRun, ClientType
<1>2. SubmittedOnce'
    BY <1>0, <1>1 DEF Once, SubmittedOnce
<1>3. InlineAdmitted'
    BY <1>0, <1>1 DEF InlineAdmitted
<1>4. \A t \in Tasks : At("client", t)' => At("client", t) /\ t # ctask[c]
    BY ZenonT(30), <1>0, <1>1 DEF At, Submitting, Once, SubmittedOnce
<1> QED BY <1>2, <1>3, <1>4

(* run() puts its task in the queue. *)
LEMMA QueuedFate ==
    ASSUME TypeOK, SubmitsTask, FateInv, NEW c \in Clients, RunQueued(c)
    PROVE  FateInv'
<1> USE DEF threadVars, deadlineVars, historyVars
<1>0. /\ ClientType /\ OnePlace /\ Once /\ HasTask /\ Admitted /\ InlineAdmitted
      /\ ran \in [Tasks -> Nat] /\ timedOut \in [Tasks -> Nat] /\ NoTask \notin Tasks
    BY NoTaskAssumption DEF TypeOK, FateInv, HistoryType
<1> USE DEF RunQueued
<1>10. PICK x \in Tasks : x = ctask[c]
    BY ZenonT(30) DEF SubmitsTask
<1>1. At("client", x)
    BY ZenonT(30), <1>10 DEF At, Submitting
<1>2. ~Queued(x) /\ Put(x)
    BY ZenonT(30), <1>0, <1>10, <1>1 DEF OnePlace, At, Places
<1>3. /\ QueuedOnce' /\ accepted \subseteq accepted' /\ x \in accepted'
      /\ \A t \in Tasks \ {x} : At("queue", t)' => At("queue", t)
    BY ZenonT(30), <1>1, <1>2, PutMoves
<1>4. SubmittedOnce' /\ InlineAdmitted' /\ Shrinks("client") /\ ~At("client", x)'
    BY ZenonT(30), Returned, <1>10, <1>3 DEF Shrinks
<1>5. HasTask'
    BY ZenonT(30), <1>0, <1>2, PutWakes
<1>6. \A p \in Places \ {"queue"} : Shrinks(p)
    BY ZenonT(30), <1>4, Unmoved DEF Places
<1>7. OnePlace' /\ Admitted'
    BY ZenonT(30), <1>0, <1>1, <1>3, <1>4, <1>6, MoveOne DEF Places
<1>8. Once'
    BY <1>0, <1>3, <1>4 DEF Once, WaitsOnce, TakenOnce, ExpiredOnce, DoneOnce
<1> QED BY ZenonT(30), <1>4, <1>5, <1>7, <1>8 DEF FateInv

(* Without worker threads run() has executed its task. *)
LEMMA InlineFate ==
    ASSUME TypeOK, SubmitsTask, FateInv, NEW c \in Clients, FinishInline(c)
    PROVE  FateInv'
<1> USE DEF threadVars, deadlineVars, historyVars
<1>0. /\ ClientType /\ OnePlace /\ Once /\ HasTask /\ Admitted /\ InlineAdmitted
      /\ ran \in [Tasks -> Nat] /\ timedOut \in [Tasks -> Nat] /\ NoTask \notin Tasks
    BY NoTaskAssumption DEF TypeOK, FateInv, HistoryType
<1> USE DEF FinishInline
<1>10. PICK x \in Tasks : x = ctask[c]
    BY ZenonT(30) DEF SubmitsTask
<1>1. At("client", x) /\ x \in accepted'
    BY <1>0, <1>10 DEF At, Submitting, InlineAdmitted
<1>2. ran' = [ran EXCEPT ![x] = @ + 1] /\ UNCHANGED <<timedOut, accepted>>
    BY ZenonT(30), <1>10
<1>3. ~Done(x)
    BY ZenonT(30), <1>0, <1>1 DEF OnePlace, At, Places
<1>4. SubmittedOnce' /\ InlineAdmitted' /\ Shrinks("client") /\ ~At("client", x)'
    BY Returned, <1>10 DEF Shrinks
<1>5. DoneOnce' /\ \A t \in Tasks \ {x} : At("done", t)' => At("done", t)
    BY ZenonT(30), <1>0, <1>2, <1>3, CountedOnce DEF Once
<1>6. HasTask'
    BY <1>0 DEF HasTask
<1>7. \A p \in Places \ {"done"} : Shrinks(p)
    BY ZenonT(30), <1>4, Unmoved DEF Places
<1>8. OnePlace' /\ Admitted'
    BY ZenonT(30), <1>0, <1>1, <1>2, <1>4, <1>5, <1>7, MoveOne DEF Places
<1>9. Once'
    BY <1>0, <1>4, <1>5 DEF Once, QueuedOnce, WaitsOnce, TakenOnce, ExpiredOnce
<1> QED BY <1>4, <1>6, <1>8, <1>9 DEF FateInv

(* The submitting client's steps. *)
LEMMA ClientFate ==
    ASSUME TypeOK, SubmitsTask, FateInv, NEW c \in Clients,
           ClientStep(c) \/ (\E t \in Tasks : CallRun(c, t))
    PROVE  FateInv'
<1> USE DEF threadVars, deadlineVars, historyVars
<1>0. /\ ClientType /\ OnePlace /\ Once /\ HasTask /\ Admitted /\ InlineAdmitted
      /\ ran \in [Tasks -> Nat] /\ timedOut \in [Tasks -> Nat] /\ NoTask \notin Tasks
    BY NoTaskAssumption DEF TypeOK, FateInv, HistoryType
<1>1. CASE RunSleeps(c) \/ RunInline(c)
  <2>1. UNCHANGED tasksVars /\ accepted \subseteq accepted' /\ HasTask'
      BY <1>0, <1>1 DEF RunSleeps, RunInline, tasksVars, HasTask
  <2>2. InlineAdmitted'
      BY <1>0, <1>1 DEF RunSleeps, RunInline, InlineAdmitted, ClientType
  <2> QED BY ZenonT(30), <2>1, <2>2, QuietStep
<1>2. CASE RunRejected(c)
  <2> USE DEF RunRejected
  <2>1. SubmittedOnce' /\ InlineAdmitted' /\ HasTask' /\ Shrinks("client")
      BY <1>0, Returned, <1>2 DEF HasTask, Shrinks
  <2>2. \A p \in Places : Shrinks(p)
      BY <1>2, <2>1, Unmoved DEF Places
  <2>3. OnePlace' /\ Admitted'
      BY ZenonT(30), <1>0, <1>2, <2>2, NoMove
  <2>4. Once'
      BY <1>0, <1>2, <2>1 DEF Once, QueuedOnce, WaitsOnce, TakenOnce, ExpiredOnce, DoneOnce
  <2> QED BY ZenonT(30), <2>1, <2>3, <2>4 DEF FateInv
<1> QED BY <1>1, <1>2, CallFate, QueuedFate, InlineFate DEF ClientStep

(* try_run() and submit_async() bring a fresh task to a queue, or drop it. *)
LEMMA SubmissionFate ==
    ASSUME TypeOK, FateInv, NEW x \in Tasks,
           TryRun(x) \/ (\E d \in 1..MaxTime : SubmitAsync(x, d))
    PROVE  FateInv'
<1>0. /\ OnePlace /\ Once /\ HasTask /\ Admitted /\ InlineAdmitted
      /\ waiters \in Seq(Waiter) /\ Len(waiters) \in Nat
    BY DEF TypeOK, QueueType, FateInv
<1>1. x \in fresh /\ fresh' = fresh \ {x} /\ UNCHANGED <<wtask, expired, cpc, ctask, dtask, ran, timedOut>>
  <2>1. CASE TryRun(x)
      BY ZenonT(30), <2>1 DEF TryRun, clientVars, deadlineVars, Put
  <2>2. ASSUME NEW d \in 1..MaxTime, SubmitAsync(x, d)
        PROVE  x \in fresh /\ fresh' = fresh \ {x} /\ UNCHANGED <<wtask, expired, cpc, ctask, dtask, ran, timedOut>>
      BY <2>2 DEF SubmitAsync, AddWaiter, NotifyDeadline, clientVars, deadlineVars, Put
  <2> QED BY <2>1, <2>2
<1>2. /\ At("fresh", x) /\ ~At("fresh", x)' /\ ~Queued(x) /\ ~Waiting(x)
      /\ \A p \in Places \ {"queue", "waiters"} : Shrinks(p)
  <2>1. At("fresh", x) /\ ~At("fresh", x)' /\ fresh' \subseteq fresh
      BY <1>1 DEF At
  <2>2. ~Queued(x) /\ ~Waiting(x)
      BY ZenonT(30), <1>0, <2>1 DEF OnePlace, At, Places
  <2> QED BY <1>1, <2>1, <2>2, Unmoved DEF Places
<1>3. TakenOnce' /\ ExpiredOnce' /\ SubmittedOnce' /\ DoneOnce'
    BY ZenonT(30), <1>0, <1>1 DEF Once, TakenOnce, ExpiredOnce, SubmittedOnce, DoneOnce
<1>4. accepted \subseteq accepted' => InlineAdmitted'
    BY <1>0, <1>1 DEF InlineAdmitted
<1>5. CASE Put(x) /\ UNCHANGED <<waiters, dpc>>
  <2>1. /\ QueuedOnce' /\ accepted \subseteq accepted' /\ x \in accepted'
        /\ \A t \in Tasks \ {x} : At("queue", t)' => At("queue", t)
      BY <1>2, <1>5, PutMoves
  <2>2. HasTask'
      BY <1>0, <1>1, <1>5, PutWakes
  <2>3. \A p \in Places \ {"queue"} : Shrinks(p)
      BY <1>2, <1>5, Unmoved DEF Places
  <2>4. OnePlace' /\ Admitted'
      BY <1>0, <1>2, <2>1, <2>3, MoveOne DEF Places
  <2>5. Once'
      BY <1>0, <1>3, <1>5, <2>1 DEF Once, WaitsOnce
  <2> QED BY <1>4, <2>1, <2>2, <2>4, <2>5 DEF FateInv
<1>6. ASSUME NEW d \in 1..MaxTime, AddWaiter(x, d), UNCHANGED <<queue, wpc>> PROVE FateInv'
  <2> DEFINE e == [task |-> x, deadline |-> d]
  <2>1. e \in Waiter /\ e.task = x
      BY DEF Waiter
  <2>2. waiters' = Append(waiters, e) /\ accepted' = accepted \cup {x}
      BY <1>6 DEF AddWaiter
  <2> HIDE DEF e
  <2>3. /\ Len(waiters') = Len(waiters) + 1 /\ waiters'[Len(waiters) + 1] = e
        /\ \A i \in 1..Len(waiters) : waiters'[i] = waiters[i]
      BY <1>0, <2>1, <2>2, Appended
  <2>4. \A i \in 1..Len(waiters) : waiters[i].task # x
      BY <1>2 DEF Waiting
  <2>5. WaitsOnce'
      BY <1>0, <2>1, <2>3, <2>4 DEF Once, WaitsOnce
  <2>6. \A t \in Tasks \ {x} : At("waiters", t)' => At("waiters", t)
    <3> SUFFICES ASSUME NEW t \in Tasks \ {x}, Waiting(t)' PROVE Waiting(t)
        BY DEF At
    <3>1. PICK i \in 1..Len(waiters') : waiters'[i].task = t
        BY ZenonT(30) DEF Waiting
    <3>2. i \in 1..Len(waiters)
        BY SMTT(30), <1>0, <2>1, <2>3, <3>1
    <3> QED BY <2>3, <3>1, <3>2 DEF Waiting
  <2>7. HasTask'
      BY ZenonT(30), <1>0, <1>1, <1>6 DEF HasTask, AddWaiter, NotifyDeadline
  <2>8. \A p \in Places \ {"waiters"} : Shrinks(p)
      BY ZenonT(30), <1>2, <1>6, Unmoved DEF Places
  <2>9. OnePlace' /\ Admitted'
    <3>1. accepted \subseteq accepted' /\ x \in accepted'
        BY <2>2
    <3> QED BY <1>0, <1>2, <2>6, <2>8, <3>1, MoveOne DEF Places
  <2>10. Once' /\ InlineAdmitted'
      BY <1>0, <1>3, <1>4, <1>6, <2>2, <2>5 DEF Once, QueuedOnce
  <2> QED BY <2>7, <2>9, <2>10 DEF FateInv
<1>7. CASE UNCHANGED <<queue, waiters, accepted, wpc, dpc>>
  <2>1. \A p \in Places : Shrinks(p)
      BY <1>2, <1>7, Unmoved DEF Places
  <2>2. OnePlace' /\ Admitted'
      BY ZenonT(30), <1>0, <1>7, <2>1, NoMove
  <2>3. Once' /\ HasTask' /\ InlineAdmitted'
      BY <1>0, <1>1, <1>3, <1>4, <1>7 DEF Once, QueuedOnce, WaitsOnce, HasTask
  <2> QED BY <2>2, <2>3 DEF FateInv
<1> QED
  <2>1. CASE TryRun(x)
      BY ZenonT(30), <1>5, <1>7, <2>1 DEF TryRun, clientVars, deadlineVars
  <2>2. ASSUME NEW d \in 1..MaxTime, SubmitAsync(x, d) PROVE FateInv'
      BY <1>5, <1>6, <1>7, <2>2 DEF SubmitAsync, clientVars, deadlineVars
  <2> QED BY <2>1, <2>2
=============================================================================
