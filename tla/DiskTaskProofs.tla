--------------------------- MODULE DiskTaskProofs ---------------------------
(***************************************************************************)
(* Proofs about uploads and downloads on the shared disk executor, for any *)
(* transfers, workers, body and file sizes and any kMaxReceivers. The      *)
(* argument is ownership: a transfer whose busy flag is set has one task,  *)
(* which is in exactly one place: about to be posted by cancel(), in the   *)
(* pool's queue, or with a worker. This module shows that every step       *)
(* preserves it, and that the task of a source that holds a completion is  *)
(* the read itself; DiskProofs concludes.                                  *)
(***************************************************************************)
EXTENDS DiskTransfers, TLAPS

Ops == {"initialize", "write", "finish", "read", "cleanup"}
Task == [t : Transfers, op : Ops]
Job ==
    [t : Transfers \cup {NoTransfer}, op : Ops \cup {"none"},
     at : {"idle", "run", "settle", "close", "finish", "release"}, err : BOOLEAN]
Result == [op : Ops, err : BOOLEAN]

PoolType ==
    /\ phase \in {"created", "running", "closing", "pool", "stopped"}
    /\ registered \in SUBSET Transfers /\ toCancel \in SUBSET Transfers
    /\ poolq \in Seq(Task) /\ work \in [Workers -> Job]
    /\ \A w \in Workers : work[w].at # "idle" => work[w].t \in Transfers /\ work[w].op \in Ops

StateType ==
    /\ busy \in SUBSET Transfers /\ cancelled \in SUBSET Transfers
    /\ terminal \in SUBSET Transfers /\ cleaning \in SUBSET Transfers
    /\ file \in [Transfers -> {"none", "open", "closed"}] /\ loopq \in [Transfers -> Seq(Result)]

LoopType ==
    /\ stage \in [Transfers -> {"fresh", "attached", "live", "gone"}]
    /\ size \in [Receivers -> Nat] /\ remaining \in [Receivers -> Nat]
    /\ written \in [Receivers -> Nat] /\ published \in [Receivers -> Nat]
    /\ outcome \in [Receivers -> {"none", "done", "failed"}]

SourceType ==
    /\ opened \in SUBSET Sources /\ held \in SUBSET Sources
    /\ requested \in [Sources -> Nat] /\ answers \in [Sources -> Nat]

DiskTypeOK == PoolType /\ StateType /\ LoopType /\ SourceType

-----------------------------------------------------------------------------
(* A busy transfer's task is queued, with a worker, or about to be posted, *)
(* and nowhere else; a worker that reset busy has only release() to call.  *)
QueuedOwned ==
    /\ \A i \in 1..Len(poolq) : poolq[i].t \in busy \ (cleaning \cup terminal)
    /\ \A i, j \in 1..Len(poolq) : poolq[i].t = poolq[j].t => i = j

WorkerOwned ==
    /\ \A w \in Workers :
         /\ work[w].at \in {"run", "settle"} => work[w].t \in busy \ (cleaning \cup terminal)
         /\ work[w].at \in {"close", "finish"} => work[w].t \in busy \cap terminal
         /\ work[w].at = "release" => work[w].t \in (registered \cap terminal) \ busy
    /\ \A v, w \in Workers : work[v].at # "idle" /\ work[w].at # "idle" /\ work[v].t = work[w].t => v = w
    /\ \A w \in Workers : \A i \in 1..Len(poolq) : work[w].at # "idle" => work[w].t # poolq[i].t

Owned ==
    /\ busy \subseteq registered /\ cleaning \subseteq (busy \cap cancelled) \ terminal
    /\ QueuedOwned /\ WorkerOwned

(* A transfer has a task only after attach(), and results only after       *)
(* create() or open() succeeded.                                           *)
Staged ==
    /\ \A t \in Transfers :
         /\ stage[t] = "fresh" => t \notin registered \cup terminal
         /\ stage[t] \in {"attached", "live"} => t \in registered \cup terminal
         /\ loopq[t] # <<>> => stage[t] = "live"
    /\ \A i \in 1..Len(poolq) : poolq[i].op # "cleanup" => stage[poolq[i].t] = "live"
    /\ \A w \in Workers :
         /\ work[w].at # "idle" /\ work[w].op # "cleanup" => stage[work[w].t] = "live"
         /\ work[w].at = "settle" => work[w].op # "cleanup"
    /\ \A s \in opened \cup held : stage[s] = "live"

(* A worker past the close has no open file, and neither has a transfer    *)
(* that is not registered.                                                 *)
FilesClosed ==
    /\ \A w \in Workers : work[w].at \in {"finish", "release"} => file[work[w].t] # "open"
    /\ \A t \in Transfers \ registered : file[t] # "open"

(* The executor outlives its registrations, and has a place for each.      *)
Room ==
    /\ IsFiniteSet(registered) /\ Cardinality(registered) <= MaxReceivers
    /\ registered # {} => phase \in {"running", "closing"}
    /\ ~terminated

TaskInv == DiskTypeOK /\ Owned /\ Staged /\ FilesClosed /\ Room

-----------------------------------------------------------------------------
(* What a new task at the end of the queue, or the first one taken away,   *)
(* does to the elements.                                                   *)
LEMMA AppendElements ==
    ASSUME NEW S, NEW s \in Seq(S), NEW e \in S
    PROVE  /\ Append(s, e) \in Seq(S) /\ Len(Append(s, e)) = Len(s) + 1
           /\ \A i \in 1..Len(s) : Append(s, e)[i] = s[i]
           /\ Append(s, e)[Len(s) + 1] = e
           /\ \A i \in 1..Len(Append(s, e)) : i \in 1..Len(s) \/ i = Len(s) + 1
    OBVIOUS

(* The head and the tail of a sequence, element by element. *)
LEMMA TailElements ==
    ASSUME NEW S, NEW s \in Seq(S), s # <<>>
    PROVE  /\ Head(s) = s[1] /\ 1 \in 1..Len(s) /\ Head(s) \in S
           /\ Tail(s) \in Seq(S) /\ Len(Tail(s)) = Len(s) - 1
           /\ \A i \in 1..Len(Tail(s)) : i + 1 \in 1..Len(s) /\ i + 1 # 1 /\ Tail(s)[i] = s[i + 1]
<1>1. Len(s) \in Nat \ {0}
    OBVIOUS
<1> QED BY <1>1

(* The tail of a sequence of one element is empty. *)
LEMMA LastElement ==
    ASSUME NEW S, NEW s \in Seq(S), Len(s) = 1
    PROVE  Head(s) = s[1] /\ Tail(s) = <<>>
<1>1. Tail(s) \in Seq(S) /\ Len(Tail(s)) = 0 /\ Head(s) = s[1]
    OBVIOUS
<1>2. \A u \in Seq(S) : Len(u) = 0 => u = <<>>
    OBVIOUS
<1> QED BY ZenonT(30), <1>1, <1>2

-----------------------------------------------------------------------------
(* Which read of a download is still to be answered. *)

(* The task of a source that holds a completion is the read. *)
HeldByRead ==
    /\ held \subseteq busy \ cleaning
    /\ \A i \in 1..Len(poolq) : poolq[i].t \in held => poolq[i].op = "read"
    /\ \A w \in Workers : work[w].at # "idle" /\ work[w].t \in held => work[w].op = "read"

Counted == \A s \in Sources : requested[s] = answers[s] + (IF s \in held THEN 1 ELSE 0)

ReadInv == HeldByRead /\ Counted

(* A task posted to the pool is the last one of the queue. *)
LEMMA PostedLast ==
    ASSUME poolq \in Seq(Task), NEW t \in Transfers, NEW op \in Ops,
           poolq' = Append(poolq, [t |-> t, op |-> op])
    PROVE  /\ \A i \in 1..Len(poolq) : poolq'[i] = poolq[i]
           /\ poolq'[Len(poolq) + 1].t = t /\ poolq'[Len(poolq) + 1].op = op
           /\ \A i \in 1..Len(poolq') : i \in 1..Len(poolq) \/ i = Len(poolq) + 1
<1> DEFINE e == [t |-> t, op |-> op]
<1>1. e \in Task /\ e.t = t /\ e.op = op
    BY DEF Task
<1> HIDE DEF e
<1> QED BY <1>1, AppendElements DEF e

(* A transfer that is neither busy nor terminal has no task, neither in    *)
(* the queue nor with a worker.                                            *)
LEMMA NoTask ==
    ASSUME PoolType, Owned, NEW t \in Transfers, t \notin busy \cup terminal
    PROVE  /\ \A i \in 1..Len(poolq) : poolq[i].t # t
           /\ \A w \in Workers : work[w].at # "idle" => work[w].t # t
<1>1. \A w \in Workers : work[w].at \in {"idle", "run", "settle", "close", "finish", "release"}
    BY DEF PoolType, Job
<1> QED BY <1>1 DEF Owned, QueuedOwned, WorkerOwned

(* The tasks of the queue are of transfers. *)
LEMMA QueuedTransfers ==
    ASSUME PoolType
    PROVE  poolq \in Seq(Task) /\ \A i \in 1..Len(poolq) : poolq[i].t \in Transfers
<1>1. poolq \in Seq(Task) /\ \A i \in 1..Len(poolq) : poolq[i] \in Task
    BY DEF PoolType
<1> QED BY <1>1 DEF Task

(* The queue and the workers when one of them takes the first task. *)
LEMMA FirstTaken ==
    ASSUME PoolType, NEW w \in Workers, poolq # <<>>, poolq' = Tail(poolq),
           work' = [work EXCEPT ![w] = [t |-> Head(poolq).t, op |-> Head(poolq).op, at |-> "run", err |-> FALSE]]
    PROVE  /\ Head(poolq) = poolq[1] /\ 1 \in 1..Len(poolq) /\ poolq[1].t \in Transfers
           /\ \A i \in 1..Len(poolq') : i + 1 \in 1..Len(poolq) /\ poolq'[i] = poolq[i + 1]
           /\ \A v \in Workers : v # w => work'[v] = work[v]
           /\ work'[w].t = poolq[1].t /\ work'[w].op = poolq[1].op /\ work'[w].at = "run"
<1> DEFINE job == [t |-> Head(poolq).t, op |-> Head(poolq).op, at |-> "run", err |-> FALSE]
<1>1. job.t = Head(poolq).t /\ job.op = Head(poolq).op /\ job.at = "run"
    OBVIOUS
<1>2. /\ Head(poolq) = poolq[1] /\ 1 \in 1..Len(poolq)
      /\ \A i \in 1..Len(poolq') : i + 1 \in 1..Len(poolq) /\ poolq'[i] = poolq[i + 1]
    BY TailElements DEF PoolType
<1> HIDE DEF job
<1>3. /\ \A v \in Workers : v # w => work'[v] = work[v]
      /\ work'[w].t = poolq[1].t /\ work'[w].op = poolq[1].op /\ work'[w].at = "run"
    BY <1>1, <1>2 DEF PoolType, job
<1> QED BY ZenonT(30), <1>2, <1>3, QueuedTransfers

(* A worker that takes the first task leaves the read of a source that     *)
(* holds a completion its task.                                            *)
LEMMA HeldTake ==
    ASSUME HeldByRead, PoolType, NEW w \in Workers, poolq # <<>>, poolq' = Tail(poolq),
           work' = [work EXCEPT ![w] = [t |-> Head(poolq).t, op |-> Head(poolq).op, at |-> "run", err |-> FALSE]],
           UNCHANGED <<held, busy, cleaning>>
    PROVE  HeldByRead'
BY FirstTaken DEF HeldByRead

(* The three ways the counts of a source and its completion move together: *)
(* the completion is answered, kept for the read, or refused at once.      *)
LEMMA CountsMove ==
    ASSUME requested \in [Sources -> Nat], answers \in [Sources -> Nat], held \in SUBSET Sources,
           Counted, NEW s \in Sources,
           \/ /\ s \in held /\ held' = held \ {s}
              /\ answers' = [answers EXCEPT ![s] = @ + 1] /\ requested' = requested
           \/ /\ s \notin held /\ held' = held \cup {s}
              /\ answers' = answers /\ requested' = [requested EXCEPT ![s] = @ + 1]
           \/ /\ s \notin held /\ held' = held
              /\ answers' = [answers EXCEPT ![s] = @ + 1] /\ requested' = [requested EXCEPT ![s] = @ + 1]
    PROVE  Counted'
BY DEF Counted

-----------------------------------------------------------------------------
(* A task that is posted for a registered transfer without one. *)
LEMMA OwnedEnqueue ==
    ASSUME DiskTypeOK, Owned, NEW t \in Transfers, NEW op \in Ops,
           Enqueue(t, op), UNCHANGED <<registered, work, terminal, cancelled>>,
           t \in registered \ terminal,
           \/ t \notin busy /\ busy' = busy \cup {t} /\ cleaning' = cleaning
           \/ t \in cleaning /\ busy' = busy /\ cleaning' = cleaning \ {t}
    PROVE  Owned'
<1> DEFINE e == [t |-> t, op |-> op]
<1>1. poolq \in Seq(Task) /\ e \in Task /\ e.t = t
    BY DEF DiskTypeOK, PoolType, Task
<1>2. poolq' = Append(poolq, e)
    BY DEF Enqueue
<1> HIDE DEF e
<1>3. /\ Len(poolq') = Len(poolq) + 1 /\ Len(poolq) \in Nat
      /\ \A i \in 1..Len(poolq) : poolq'[i] = poolq[i]
      /\ poolq'[Len(poolq) + 1].t = t
      /\ \A i \in 1..Len(poolq') : i \in 1..Len(poolq) \/ i = Len(poolq) + 1
    BY <1>1, <1>2, AppendElements
<1>4. \A i \in 1..Len(poolq) : poolq[i].t # t
    BY DEF Owned, QueuedOwned
<1>5. \A w \in Workers : work[w].at # "idle" => work[w].t # t
    BY DEF Owned, WorkerOwned, DiskTypeOK, PoolType, Job
<1>6. busy' \subseteq registered' /\ cleaning' \subseteq (busy' \cap cancelled') \ terminal'
    BY DEF Owned
<1>7. QueuedOwned'
    BY ZenonT(30), <1>3, <1>4 DEF Owned, QueuedOwned
<1>8. WorkerOwned'
    BY <1>3, <1>4, <1>5 DEF Owned, WorkerOwned
<1> QED BY <1>6, <1>7, <1>8 DEF Owned

(* cancel(), up to its unlock. *)
LEMMA OwnedCancel ==
    ASSUME DiskTypeOK, Owned, NEW t \in Transfers, Cancel(t), UNCHANGED <<registered, poolq, work>>
    PROVE  Owned'
<1>1. busy' \subseteq registered' /\ cleaning' \subseteq (busy' \cap cancelled') \ terminal'
    BY DEF Owned, Cancel
<1>2. \A u \in Transfers : u \in busy => u \in busy' /\ (u \in cleaning' => u \in cleaning)
    BY DEF Owned, Cancel
<1>3. QueuedOwned'
    BY <1>2 DEF Owned, QueuedOwned, Cancel, DiskTypeOK, StateType
<1>4. WorkerOwned'
  <2>1. \A w \in Workers : work[w].at = "release" => work[w].t \in (registered \cap terminal) \ busy'
      BY DEF Owned, WorkerOwned, Cancel
  <2> QED BY <1>2, <2>1 DEF Owned, WorkerOwned, Cancel, DiskTypeOK, StateType
<1> QED BY <1>1, <1>3, <1>4 DEF Owned

(* A worker's record when it moves on with its task. *)
LEMMA JobMoves ==
    ASSUME PoolType, NEW w \in Workers, work[w].at # "idle",
           NEW l \in {"run", "settle", "close", "finish", "release"}, NEW e \in BOOLEAN,
           \/ work' = [work EXCEPT ![w].at = l]
           \/ work' = [work EXCEPT ![w].at = l, ![w].err = e]
    PROVE  /\ work' \in [Workers -> Job]
           /\ \A v \in Workers : v # w => work'[v] = work[v]
           /\ work'[w].t = work[w].t /\ work'[w].op = work[w].op /\ work'[w].at = l
           /\ work[w].t \in Transfers /\ work[w].op \in Ops
           /\ work' = [work EXCEPT ![w].at = l] => work'[w].err = work[w].err
           /\ work' = [work EXCEPT ![w].at = l, ![w].err = e] => work'[w].err = e
    BY DEF PoolType, Job

(* A worker's record when it becomes idle. *)
LEMMA JobEnds ==
    ASSUME PoolType, NEW w \in Workers, work' = [work EXCEPT ![w] = IdleWorker]
    PROVE  /\ work' \in [Workers -> Job]
           /\ \A v \in Workers : v # w => work'[v] = work[v]
           /\ work'[w] = IdleWorker /\ work'[w].at = "idle"
<1>1. IdleWorker \in Job /\ IdleWorker.at = "idle"
    BY DEF IdleWorker, Job
<1> QED BY <1>1 DEF PoolType

(* A worker that moves on without a change of the flags. *)
LEMMA OwnedWorks ==
    ASSUME DiskTypeOK, Owned, NEW w \in Workers, NEW e \in BOOLEAN,
           UNCHANGED <<registered, poolq, stateVars>>,
           \/ work[w].at = "run" /\ work' = [work EXCEPT ![w].at = "settle", ![w].err = e]
           \/ work[w].at = "close" /\ work' = [work EXCEPT ![w].at = "finish"]
    PROVE  Owned'
<1>0. PoolType
    BY DEF DiskTypeOK
<1>1. /\ \A v \in Workers : v # w => work'[v] = work[v]
      /\ work'[w].t = work[w].t
      /\ \/ work[w].at = "run" /\ work'[w].at = "settle"
         \/ work[w].at = "close" /\ work'[w].at = "finish"
    BY ZenonT(30), <1>0, JobMoves
<1>2. WorkerOwned'
    BY <1>1 DEF Owned, WorkerOwned, stateVars
<1> QED BY <1>2 DEF Owned, QueuedOwned, stateVars

(* The end of a transfer is decided. *)
LEMMA OwnedEnds ==
    ASSUME DiskTypeOK, Owned, NEW w \in Workers, work[w].at \in {"run", "settle"},
           terminal' = terminal \cup {work[w].t}, work' = [work EXCEPT ![w].at = "close"],
           UNCHANGED <<registered, poolq, busy, cancelled, cleaning>>
    PROVE  Owned'
<1>0. PoolType
    BY DEF DiskTypeOK
<1>1. /\ \A v \in Workers : v # w => work'[v] = work[v]
      /\ work'[w].t = work[w].t /\ work'[w].at = "close"
    BY ZenonT(30), <1>0, JobMoves
<1>2. cleaning' \subseteq (busy' \cap cancelled') \ terminal'
    BY DEF Owned, WorkerOwned
<1>3. QueuedOwned'
    BY DEF Owned, QueuedOwned, WorkerOwned
<1>4. WorkerOwned'
    BY <1>1 DEF Owned, WorkerOwned
<1> QED BY <1>2, <1>3, <1>4 DEF Owned

(* busy is reset: the worker becomes idle or has only release() to call. *)
LEMMA OwnedNotBusy ==
    ASSUME DiskTypeOK, Owned, NEW w \in Workers, NotBusy(work[w].t), UNCHANGED <<registered, poolq>>,
           \/ work[w].at = "settle" /\ work' = [work EXCEPT ![w] = IdleWorker]
           \/ work[w].at = "finish" /\ work' = [work EXCEPT ![w].at = "release"]
    PROVE  Owned'
<1>0. PoolType
    BY DEF DiskTypeOK
<1>1. /\ \A v \in Workers : v # w => work'[v] = work[v]
      /\ \/ work'[w].at = "idle"
         \/ work[w].at = "finish" /\ work'[w].at = "release" /\ work'[w].t = work[w].t
    BY ZenonT(30), <1>0, JobMoves, JobEnds
<1>2. work[w].t \in busy \ cleaning
    BY DEF Owned, WorkerOwned
<1>3. busy' \subseteq registered' /\ cleaning' \subseteq (busy' \cap cancelled') \ terminal'
    BY <1>2 DEF Owned, NotBusy
<1>4. QueuedOwned'
    BY DEF Owned, QueuedOwned, WorkerOwned, NotBusy
<1>5. WorkerOwned'
    BY <1>1 DEF Owned, WorkerOwned, NotBusy
<1> QED BY <1>3, <1>4, <1>5 DEF Owned

(* release() *)
LEMMA OwnedRelease ==
    ASSUME DiskTypeOK, Owned, NEW w \in Workers, Release(w)
    PROVE  Owned'
<1>0. PoolType
    BY DEF DiskTypeOK
<1>1. /\ \A v \in Workers : v # w => work'[v] = work[v]
      /\ work'[w].at = "idle"
    BY ZenonT(30), <1>0, JobEnds DEF Release
<1>2. work[w].t \notin busy
    BY DEF Owned, WorkerOwned, Release
<1>3. busy' \subseteq registered' /\ cleaning' \subseteq (busy' \cap cancelled') \ terminal'
    BY <1>2 DEF Owned, Release, stateVars
<1>4. QueuedOwned'
    BY DEF Owned, QueuedOwned, Release, stateVars
<1>5. WorkerOwned'
    BY <1>1 DEF Owned, WorkerOwned, Release, stateVars
<1> QED BY <1>3, <1>4, <1>5 DEF Owned

(* A worker takes the first task. *)
LEMMA OwnedTake ==
    ASSUME DiskTypeOK, Owned, NEW w \in Workers, Take(w)
    PROVE  Owned'
<1> DEFINE job == [t |-> Head(poolq).t, op |-> Head(poolq).op, at |-> "run", err |-> FALSE]
<1>0. PoolType
    BY DEF DiskTypeOK
<1>1. work' = [work EXCEPT ![w] = job] /\ poolq' = Tail(poolq) /\ poolq # <<>> /\ work[w] = IdleWorker
    BY DEF Take
<1>2. job.t = Head(poolq).t /\ job.at = "run"
    OBVIOUS
<1> HIDE DEF job
<1>3. /\ Head(poolq) = poolq[1] /\ 1 \in 1..Len(poolq) /\ Len(poolq) \in Nat
      /\ Len(poolq') = Len(poolq) - 1
      /\ \A i \in 1..Len(poolq') : i + 1 \in 1..Len(poolq) /\ i + 1 # 1 /\ poolq'[i] = poolq[i + 1]
    BY <1>0, <1>1, TailElements DEF PoolType
<1> USE <1>3
<1>4. /\ \A v \in Workers : v # w => work'[v] = work[v]
      /\ work'[w].at = "run" /\ work'[w].t = poolq[1].t
    BY <1>0, <1>1, <1>2 DEF PoolType
<1>5. UNCHANGED <<registered, busy, cancelled, terminal, cleaning>>
    BY DEF Take, executorVars, stateVars
<1>6. QueuedOwned'
  <2>1. /\ \A i \in 1..Len(poolq) : poolq[i].t \in busy \ (cleaning \cup terminal)
        /\ \A i, j \in 1..Len(poolq) : poolq[i].t = poolq[j].t => i = j
      BY DEF Owned, QueuedOwned
  <2>2. \A i \in 1..Len(poolq') : poolq'[i].t \in busy \ (cleaning \cup terminal)
      BY <2>1
  <2>3. ASSUME NEW i \in 1..Len(poolq'), NEW j \in 1..Len(poolq'), poolq'[i].t = poolq'[j].t PROVE i = j
    <3>1. i + 1 = j + 1
        BY <2>1, <2>3
    <3> QED BY <3>1
  <2> QED BY ZenonT(30), <1>5, <2>2, <2>3 DEF QueuedOwned
<1>7. WorkerOwned'
  <2>1. /\ poolq[1].t \in busy \ (cleaning \cup terminal)
        /\ \A i \in 1..Len(poolq') : poolq'[i].t # poolq[1].t
        /\ \A v \in Workers : work[v].at # "idle" => work[v].t # poolq[1].t
        /\ \A v \in Workers, i \in 1..Len(poolq') : work[v].at # "idle" => work[v].t # poolq'[i].t
      BY DEF Owned, QueuedOwned, WorkerOwned
  <2> QED BY <1>4, <1>5, <2>1 DEF Owned, WorkerOwned
<1> QED BY <1>5, <1>6, <1>7 DEF Owned

(* launch() of a transfer that was attached. *)
LEMMA OwnedLaunch ==
    ASSUME TaskInv, NEW t \in Transfers, NEW op \in Ops, stage[t] \in {"attached", "live"},
           CanLaunch(t), Launch(t, op), UNCHANGED <<registered, work>>
    PROVE  Owned'
<1>1. DiskTypeOK /\ Owned /\ t \in registered \ terminal /\ t \notin busy
    BY DEF TaskInv, Staged, CanLaunch
<1> QED BY <1>1, OwnedEnqueue DEF Launch

(* Every step keeps the ownership of tasks. *)
LEMMA OwnedStep ==
    ASSUME TaskInv, [Next]_vars
    PROVE  Owned'
<1> USE DEF executorVars, poolVars, linkVars
<1>0. DiskTypeOK /\ PoolType /\ StateType /\ Owned
    BY DEF TaskInv, DiskTypeOK
<1> USE <1>0
<1>1. ASSUME UNCHANGED <<registered, poolq, work, stateVars>> PROVE Owned'
    BY <1>1 DEF Owned, QueuedOwned, WorkerOwned, stateVars
<1>2. CASE UNCHANGED vars \/ Start \/ BeginShutdown \/ StopStep
    BY <1>1, <1>2 DEF vars, diskVars, Start, BeginShutdown, StopStep, StopPool, StopDone
<1>3. ASSUME NEW w \in Workers, WorkerStep(w) PROVE Owned'
  <2>1. CASE Take(w) \/ Release(w)
      BY <2>1, OwnedTake, OwnedRelease
  <2>2. CASE RunCleanup(w) \/ SettleEnding(w)
      BY <2>2, OwnedEnds DEF RunCleanup, SettleEnding
  <2>3. CASE CloseFile(w)
      BY ZenonT(30), <2>3, OwnedWorks DEF CloseFile
  <2>4. ASSUME NEW fails \in BOOLEAN, Execute(w, fails) \/ RunSource(w, fails) PROVE Owned'
      BY <2>4, OwnedWorks DEF Execute, RunSource
  <2>5. CASE FinishCleanup(w) \/ ExecuteSettles(w) \/ ExecuteFinishes(w) \/ SourceSettles(w) \/ SourceFinishes(w)
      BY <2>5, OwnedNotBusy
         DEF FinishCleanup, ExecuteSettles, ExecuteFinishes, SourceSettles, SourceFinishes
  <2> QED BY <1>3, <2>1, <2>2, <2>3, <2>4, <2>5 DEF WorkerStep
<1>4. ASSUME NEW t \in Transfers, Cancel(t), UNCHANGED <<registered, poolq, work>> PROVE Owned'
    BY <1>4, OwnedCancel
<1>5. ASSUME NEW t \in Transfers, CancelNext(t) \/ ConnectionDown(t) PROVE Owned'
    BY ZenonT(30), <1>4, <1>5 DEF CancelNext, ConnectionDown, CancelTransfer, CancelSource
<1>6. ASSUME NEW t \in Transfers, PostCleanup(t) PROVE Owned'
  <2>1. t \in registered \ terminal /\ "cleanup" \in Ops
      BY <1>6 DEF PostCleanup, Owned, Ops
  <2>2. CASE Accepts(TRUE)
      BY ZenonT(30), <1>6, <2>1, <2>2, OwnedEnqueue DEF PostCleanup
  <2>3. CASE ~Accepts(TRUE)
      BY <1>6, <2>3 DEF PostCleanup, Owned, QueuedOwned, WorkerOwned
  <2> QED BY ZenonT(30), <2>2, <2>3
<1>7. ASSUME NEW t \in Transfers, NEW op \in {"initialize", "write", "finish", "read"},
             stage[t] \in {"attached", "live"}, CanLaunch(t), Launch(t, op), UNCHANGED <<registered, work>>
      PROVE  Owned'
    BY <1>7, OwnedLaunch DEF Ops
<1>8. ASSUME NEW t \in Transfers, CreateSubmits(t) \/ OpenSubmits(t) PROVE Owned'
  <2>1. CASE CanLaunch(t)
      BY <1>7, <1>8, <2>1 DEF CreateSubmits, OpenSubmits, Submit
  <2>2. CASE ~CanLaunch(t)
      BY <1>4, <1>8, <2>2 DEF CreateSubmits, OpenSubmits
  <2> QED BY <2>1, <2>2
<1>9. ASSUME NEW t \in Transfers, OnResult(t) PROVE Owned'
  <2>1. stage[t] = "live" /\ UNCHANGED <<registered, work>>
      BY <1>9 DEF OnResult, TaskInv, Staged
  <2>2. ASSUME ReportError(t) PROVE Owned'
      BY ZenonT(30), <1>4, <2>1, <2>2 DEF ReportError
  <2>3. ASSUME NEW op, Completed(t, op) PROVE Owned'
      BY <1>1, <1>7, <2>1, <2>2, <2>3 DEF Completed, Submit, stateVars
  <2> QED BY <1>1, <1>4, <1>9, <2>1, <2>2, <2>3 DEF OnResult
<1>10. ASSUME NEW t \in Transfers, OnSourceFunctor(t) PROVE Owned'
    BY <1>1, <1>4, <1>10 DEF OnSourceFunctor
<1>11. ASSUME NEW t \in Transfers, Attach(t) PROVE Owned'
    BY <1>11 DEF Attach, Owned, QueuedOwned, WorkerOwned, stateVars
<1>12. ASSUME NEW t \in Transfers, Consume(t) PROVE Owned'
    BY <1>4, <1>7, <1>12 DEF Consume, Ready, Submit
<1>13. ASSUME NEW s \in Sources, Request(s) \/ Sent(s) PROVE Owned'
  <2>1. s \in Transfers /\ stage[s] = "live"
      BY ZenonT(30), <1>13 DEF Transfers, TaskInv, Staged, Request, Sent
  <2>2. CASE Request(s)
      BY ZenonT(30), <1>1, <1>4, <1>7, <2>1, <2>2 DEF Request, stateVars
  <2>3. CASE Sent(s)
      BY <1>4, <2>1, <2>3 DEF Sent, CancelSource
  <2> QED BY <1>13, <2>2, <2>3
<1> QED BY <1>2, <1>3, <1>5, <1>6, <1>8, <1>9, <1>10, <1>11, <1>12, <1>13
       DEF Next, ExecutorStep, LoopStep

-----------------------------------------------------------------------------
(* A posted task and a job a worker moves on with have their types. *)
LEMMA EnqueueType ==
    ASSUME PoolType, NEW t \in Transfers, NEW op \in Ops, Enqueue(t, op)
    PROVE  poolq' \in Seq(Task)
<1>1. [t |-> t, op |-> op] \in Task
    BY DEF Task
<1> QED BY <1>1, AppendElements DEF Enqueue, PoolType

(* A worker that moves on in its task, or becomes idle, keeps the type of the pool. *)
LEMMA JobType ==
    ASSUME PoolType, NEW w \in Workers, work[w].at # "idle",
           NEW l \in {"run", "settle", "close", "finish", "release"}, NEW e \in BOOLEAN,
           \/ work' = [work EXCEPT ![w].at = l]
           \/ work' = [work EXCEPT ![w].at = l, ![w].err = e]
           \/ work' = [work EXCEPT ![w] = IdleWorker],
           UNCHANGED <<phase, toCancel, poolq>>, registered' \in SUBSET Transfers
    PROVE  PoolType'
<1>1. CASE work' = [work EXCEPT ![w] = IdleWorker]
    BY ZenonT(30), <1>1, JobEnds DEF PoolType
<1>2. CASE work' # [work EXCEPT ![w] = IdleWorker]
    BY ZenonT(30), <1>2, JobMoves DEF PoolType
<1> QED BY <1>1, <1>2

(* The executor's variables keep their types. *)
LEMMA PoolTypeStep ==
    ASSUME TaskInv, [Next]_vars
    PROVE  PoolType'
<1> USE DEF executorVars, poolVars
<1>0. PoolType /\ registered \in SUBSET Transfers
    BY DEF TaskInv, DiskTypeOK, PoolType
<1> USE <1>0
<1>1. ASSUME UNCHANGED <<phase, registered, poolq, work>>, toCancel' \in SUBSET toCancel PROVE PoolType'
    BY <1>1 DEF PoolType
<1>2. CASE UNCHANGED vars \/ Start \/ BeginShutdown \/ StopStep
    BY <1>2 DEF vars, diskVars, Start, BeginShutdown, StopStep, StopPool, StopDone, PoolType
<1>3. ASSUME NEW w \in Workers, WorkerStep(w) PROVE PoolType'
  <2>1. CASE Take(w)
    <3> DEFINE job == [t |-> Head(poolq).t, op |-> Head(poolq).op, at |-> "run", err |-> FALSE]
    <3>1. Head(poolq) \in Task /\ Tail(poolq) \in Seq(Task)
        BY ZenonT(30), <2>1, TailElements DEF Take, PoolType
    <3>2. job \in Job /\ job.t \in Transfers /\ job.op \in Ops
        BY <3>1 DEF Task, Job
    <3>3. work' = [work EXCEPT ![w] = job] /\ poolq' = Tail(poolq) /\ UNCHANGED <<phase, registered, toCancel>>
        BY <2>1 DEF Take
    <3> HIDE DEF job
    <3> QED BY <3>1, <3>2, <3>3 DEF PoolType
  <2>2. CASE Release(w) \/ RunCleanup(w) \/ SettleEnding(w) \/ CloseFile(w) \/ FinishCleanup(w)
      BY ZenonT(30), <2>2, JobType DEF Release, RunCleanup, SettleEnding, CloseFile, FinishCleanup
  <2>3. ASSUME NEW fails \in BOOLEAN, Execute(w, fails) \/ RunSource(w, fails) PROVE PoolType'
      BY ZenonT(30), <2>3, JobType DEF Execute, RunSource
  <2>4. CASE ExecuteSettles(w) \/ ExecuteFinishes(w) \/ SourceSettles(w) \/ SourceFinishes(w)
      BY ZenonT(30), <2>4, JobType DEF ExecuteSettles, ExecuteFinishes, SourceSettles, SourceFinishes
  <2> QED BY <1>3, <2>1, <2>2, <2>3, <2>4 DEF WorkerStep
<1>4. ASSUME NEW t \in Transfers, NEW op \in Ops, Enqueue(t, op),
             UNCHANGED <<phase, registered, toCancel, work>>
      PROVE  PoolType'
    BY <1>4, EnqueueType DEF PoolType
<1> USE DEF Ops
<1>5. ASSUME NEW t \in Transfers, ExecutorStep(t) \/ ConnectionDown(t) PROVE PoolType'
    BY ZenonT(30), <1>1, <1>4, <1>5 DEF ExecutorStep, CancelNext, PostCleanup, ConnectionDown
<1>6. ASSUME NEW t \in Transfers, CreateSubmits(t) \/ OpenSubmits(t) PROVE PoolType'
    BY ZenonT(30), <1>1, <1>4, <1>6 DEF CreateSubmits, OpenSubmits, Submit, Launch
<1>7. ASSUME NEW t \in Transfers, OnResult(t) \/ OnSourceFunctor(t) PROVE PoolType'
    BY <1>1, <1>4, <1>7 DEF OnResult, OnSourceFunctor, Completed, ReportError, Submit, Launch
<1>8. ASSUME NEW t \in Transfers, Attach(t) PROVE PoolType'
    BY <1>8 DEF Attach, PoolType
<1>9. ASSUME NEW t \in Transfers, Consume(t) PROVE PoolType'
    BY <1>1, <1>4, <1>9 DEF Consume, Submit, Launch
<1>10. ASSUME NEW s \in Sources, Request(s) \/ Sent(s) PROVE PoolType'
    BY ZenonT(30), <1>1, <1>4, <1>10 DEF Request, Sent, Launch, Transfers
<1> QED BY <1>2, <1>3, <1>5, <1>6, <1>7, <1>8, <1>9, <1>10 DEF Next, LoopStep

(* The results queued to a loop. *)
LEMMA ResultType ==
    ASSUME StateType, NEW t \in Transfers, NEW op \in Ops, NEW e \in BOOLEAN
    PROVE  [loopq EXCEPT ![t] = Append(@, [op |-> op, err |-> e])] \in [Transfers -> Seq(Result)]
<1>1. [op |-> op, err |-> e] \in Result
    BY DEF Result
<1>2. Append(loopq[t], [op |-> op, err |-> e]) \in Seq(Result)
    BY <1>1, AppendElements DEF StateType
<1> QED BY <1>2 DEF StateType

(* The flags under State::mutex, the files and the queued results keep     *)
(* their types.                                                            *)
LEMMA StateTypeStep ==
    ASSUME TaskInv, [Next]_vars
    PROVE  StateType'
<1> DEFINE FlagType == /\ busy \in SUBSET Transfers /\ cancelled \in SUBSET Transfers
                       /\ terminal \in SUBSET Transfers /\ cleaning \in SUBSET Transfers
           FileType == file \in [Transfers -> {"none", "open", "closed"}]
           ResultsType == loopq \in [Transfers -> Seq(Result)]
<1> USE DEF stateVars
<1>0. PoolType /\ StateType /\ FlagType /\ FileType /\ ResultsType
    BY DEF TaskInv, DiskTypeOK, StateType
<1> USE <1>0
<1>1. CASE UNCHANGED vars \/ Start \/ BeginShutdown \/ StopStep
    BY <1>1 DEF vars, diskVars, Start, BeginShutdown, StopStep, StopPool, StopDone, StateType
<1>2. ASSUME NEW t \in Transfers, Cancel(t) PROVE FlagType'
    BY <1>2 DEF Cancel
<1>3. ASSUME NEW t \in Transfers, NEW op, Launch(t, op) PROVE FlagType'
    BY <1>3 DEF Launch
<1>4. ASSUME NEW t \in Sources, NEW e \in BOOLEAN, Answer(t, e) PROVE ResultsType'
  <2>1. "read" \in Ops /\ t \in Transfers
      BY DEF Ops, Transfers
  <2> QED BY <1>4, <2>1, ResultType DEF Answer
<1>5. ASSUME NEW w \in Workers, WorkerStep(w) PROVE StateType'
  <2>0. CASE Take(w)
      BY <2>0 DEF Take, StateType
  <2>1. ASSUME work[w].at # "idle"
        PROVE  /\ work[w].t \in Transfers /\ work[w].op \in Ops /\ work[w].err \in BOOLEAN
               /\ work[w] = [t |-> work[w].t, op |-> work[w].op, at |-> work[w].at, err |-> work[w].err]
      BY <2>1 DEF PoolType, Job
  <2>2. CASE RunCleanup(w) \/ SettleEnding(w) \/ CloseFile(w) \/ FinishCleanup(w) \/ Release(w)
    <3>1. FlagType' /\ ResultsType'
        BY <2>1, <2>2 DEF RunCleanup, SettleEnding, CloseFile, FinishCleanup, Release, NotBusy
    <3>2. FileType'
        BY ZenonT(30), <2>1, <2>2 DEF RunCleanup, SettleEnding, CloseFile, FinishCleanup, Release
    <3> QED BY <3>1, <3>2 DEF StateType
  <2>3. ASSUME NEW fails \in BOOLEAN, Execute(w, fails) \/ RunSource(w, fails) PROVE StateType'
    <3>1. FlagType' /\ ResultsType'
        BY <2>3 DEF Execute, RunSource
    <3>2. FileType'
        BY <2>3 DEF Execute, RunSource
    <3> QED BY <3>1, <3>2 DEF StateType
  <2>4. CASE ExecuteSettles(w) \/ ExecuteFinishes(w) \/ SourceSettles(w) \/ SourceFinishes(w)
    <3>0. work[w].at # "idle"
        BY <2>4 DEF ExecuteSettles, ExecuteFinishes, SourceSettles, SourceFinishes
    <3>1. FlagType' /\ FileType'
        BY ZenonT(30), <2>4 DEF ExecuteSettles, ExecuteFinishes, SourceSettles, SourceFinishes, NotBusy
    <3>2. ASSUME PostResult(work[w]) PROVE ResultsType'
        BY ZenonT(30), <2>1, <3>0, <3>2, ResultType DEF PostResult
    <3>3. ASSUME PostSource(work[w]), work[w].t \in Sources PROVE ResultsType'
        BY <1>4, <2>1, <3>0, <3>2, <3>3 DEF PostSource
    <3>4. ResultsType'
        BY <2>4, <3>2, <3>3 DEF ExecuteSettles, ExecuteFinishes, SourceSettles, SourceFinishes
    <3> QED BY <3>1, <3>4 DEF StateType
  <2> QED BY <1>5, <2>0, <2>2, <2>3, <2>4 DEF WorkerStep
<1>6. ASSUME NEW t \in Transfers, CancelTransfer(t), file' = file PROVE StateType'
  <2>1. FlagType' /\ FileType'
      BY ZenonT(30), <1>2, <1>6 DEF CancelTransfer, CancelSource
  <2>2. ResultsType'
      BY ZenonT(30), <1>4, <1>6 DEF CancelTransfer, CancelSource
  <2> QED BY <2>1, <2>2 DEF StateType
<1>7. ASSUME NEW t \in Transfers, ExecutorStep(t) \/ ConnectionDown(t) PROVE StateType'
  <2>1. CASE PostCleanup(t)
      BY <2>1 DEF PostCleanup, StateType
  <2> QED BY <1>6, <1>7, <2>1 DEF ExecutorStep, CancelNext, ConnectionDown
<1>8. ASSUME NEW t \in Transfers, CreateSubmits(t) \/ OpenSubmits(t) \/ Attach(t) \/ Consume(t) PROVE StateType'
  <2>1. FlagType'
      BY ZenonT(30), <1>2, <1>3, <1>8 DEF CreateSubmits, OpenSubmits, Attach, Consume, Submit
  <2>2. FileType' /\ ResultsType'
      BY ZenonT(30), <1>8 DEF CreateSubmits, OpenSubmits, Attach, Consume
  <2> QED BY ZenonT(30), <2>1, <2>2 DEF StateType
<1>9. ASSUME NEW t \in Transfers, OnResult(t) \/ OnSourceFunctor(t) PROVE StateType'
  <2>1. FlagType'
      BY ZenonT(30), <1>2, <1>3, <1>9 DEF OnResult, OnSourceFunctor, Completed, ReportError, Submit
  <2>2. Tail(loopq[t]) \in Seq(Result) /\ loopq' = [loopq EXCEPT ![t] = Tail(@)]
      BY ZenonT(30), <1>9, TailElements DEF OnResult, OnSourceFunctor
  <2>3. FileType' /\ ResultsType'
      BY <1>9, <2>2 DEF OnResult, OnSourceFunctor
  <2> QED BY <2>1, <2>3 DEF StateType
<1>10. ASSUME NEW s \in Sources, Request(s) \/ Sent(s) PROVE StateType'
  <2>1. CASE Request(s)
    <3>1. FlagType' /\ FileType'
        BY ZenonT(30), <1>2, <1>3, <2>1 DEF Request, Transfers
    <3>2. ResultsType'
        BY ZenonT(30), <1>4, <2>1 DEF Request
    <3> QED BY <3>1, <3>2 DEF StateType
  <2>2. CASE Sent(s)
      BY ZenonT(30), <1>6, <2>2 DEF Sent, CancelTransfer, Transfers
  <2> QED BY <1>10, <2>1, <2>2
<1> QED BY <1>1, <1>5, <1>7, <1>8, <1>9, <1>10 DEF Next, LoopStep

(* What the loops keep of a transfer, and the history, keep their types. *)
LEMMA LoopTypeStep ==
    ASSUME TaskInv, [Next]_vars
    PROVE  LoopType'
<1> USE DEF linkVars, receiverVars, loopVars, objectVars
<1>0. LoopType
    BY DEF TaskInv, DiskTypeOK
<1> USE <1>0
<1>1. ASSUME UNCHANGED <<stage, size, remaining, written, published, outcome>> PROVE LoopType'
    BY <1>1 DEF LoopType
<1>2. CASE UNCHANGED vars \/ ((Start \/ BeginShutdown) /\ UNCHANGED <<linkVars, receiverVars, sourceVars>>) \/ StopStep
    BY <1>1, <1>2 DEF vars, StopStep
<1>3. ASSUME NEW w \in Workers, WorkerStep(w) PROVE LoopType'
  <2>1. ASSUME NEW fails \in BOOLEAN, Execute(w, fails) PROVE LoopType'
    <3>1. written' \in [Receivers -> Nat] /\ published' \in [Receivers -> Nat]
        BY <2>1 DEF Execute, LoopType
    <3> QED BY <2>1, <3>1 DEF Execute, LoopType
  <2>2. ASSUME NEW fails \in BOOLEAN, RunSource(w, fails) PROVE LoopType'
      BY <1>1, <2>2 DEF RunSource
  <2>3. CASE ExecuteSettles(w) \/ ExecuteFinishes(w) \/ SourceSettles(w) \/ SourceFinishes(w)
      BY <1>1, <2>3 DEF ExecuteSettles, ExecuteFinishes, SourceSettles, SourceFinishes
  <2> QED BY <1>1, <1>3, <2>1, <2>2, <2>3 DEF WorkerStep
<1>4. ASSUME NEW t \in Transfers, ExecutorStep(t) \/ ConnectionDown(t) PROVE LoopType'
    BY ZenonT(30), <1>1, <1>4 DEF ExecutorStep, CancelNext, ConnectionDown
<1>5. ASSUME NEW t \in Transfers, CreateSubmits(t) \/ OpenSubmits(t) \/ Attach(t) PROVE LoopType'
    BY <1>5 DEF CreateSubmits, OpenSubmits, Attach, LoopType, Submit
<1>6. ASSUME NEW t \in Transfers, Consume(t) PROVE LoopType'
  <2>1. remaining' \in [Receivers -> Nat]
      BY <1>6 DEF Consume, LoopType
  <2> QED BY <1>6, <2>1 DEF Consume, LoopType
<1>7. ASSUME NEW t \in Transfers, OnResult(t) PROVE LoopType'
  <2>1. outcome' \in [Receivers -> {"none", "done", "failed"}]
      BY ZenonT(30), <1>7 DEF OnResult, Completed, ReportError, LoopType
  <2> QED BY <1>7, <2>1 DEF OnResult, LoopType
<1>8. ASSUME NEW t \in Transfers, OnSourceFunctor(t) PROVE LoopType'
    BY <1>1, <1>8 DEF OnSourceFunctor
<1>9. ASSUME NEW s \in Sources, Request(s) \/ Sent(s) PROVE LoopType'
    BY ZenonT(30), <1>1, <1>9 DEF Request, Sent
<1> QED BY <1>2, <1>3, <1>4, <1>5, <1>6, <1>7, <1>8, <1>9 DEF Next, LoopStep

(* Every step keeps the type of the download side. *)
LEMMA SourceTypeStep ==
    ASSUME TaskInv, [Next]_vars
    PROVE  SourceType'
<1> USE DEF sourceVars
<1>0. SourceType
    BY DEF TaskInv, DiskTypeOK
<1> USE <1>0
<1>1. ASSUME UNCHANGED sourceVars PROVE SourceType'
    BY <1>1 DEF SourceType
<1>2. CASE UNCHANGED vars \/ ((Start \/ BeginShutdown) /\ UNCHANGED <<linkVars, receiverVars, sourceVars>>) \/ StopStep
    BY <1>1, <1>2 DEF vars, StopStep
<1>3. ASSUME NEW s \in Sources, NEW e, Answer(s, e) PROVE answers' \in [Sources -> Nat]
    BY <1>3 DEF Answer, SourceType
<1>4. ASSUME NEW w \in Workers, WorkerStep(w) PROVE SourceType'
  <2>1. ASSUME NEW fails \in BOOLEAN, RunSource(w, fails) PROVE SourceType'
      BY <1>1, <2>1 DEF RunSource
  <2>2. CASE SourceSettles(w) \/ SourceFinishes(w)
    <3>1. answers' \in [Sources -> Nat] /\ held' \in SUBSET Sources
        BY <1>3, <2>2 DEF SourceSettles, SourceFinishes, PostSource, SourceType
    <3> QED BY <2>2, <3>1 DEF SourceSettles, SourceFinishes, SourceType
  <2> QED BY <1>1, <1>4, <2>1, <2>2 DEF WorkerStep
<1>5. ASSUME NEW s \in Sources, CancelSource(s) PROVE SourceType'
  <2>1. answers' \in [Sources -> Nat]
      BY ZenonT(30), <1>3, <1>5 DEF CancelSource, SourceType
  <2> QED BY <1>5, <2>1 DEF CancelSource, SourceType
<1>6. ASSUME NEW t \in Transfers, ExecutorStep(t) \/ ConnectionDown(t) PROVE SourceType'
    BY ZenonT(30), <1>1, <1>5, <1>6 DEF ExecutorStep, CancelNext, ConnectionDown, CancelTransfer
<1>7. ASSUME NEW t \in Transfers, LoopStep(t) PROVE SourceType'
    BY <1>1, <1>7 DEF LoopStep, OpenSubmits, OnSourceFunctor, SourceType
<1>8. ASSUME NEW s \in Sources, Request(s) PROVE SourceType'
  <2>1. answers' \in [Sources -> Nat]
      BY ZenonT(30), <1>3, <1>8 DEF Request, SourceType
  <2>2. requested' \in [Sources -> Nat]
    <3>1. requested' = [requested EXCEPT ![s] = @ + 1]
        BY ZenonT(30), <1>8 DEF Request
    <3>2. requested \in [Sources -> Nat]
        BY DEF SourceType
    <3> QED BY SMTT(30), <3>1, <3>2
  <2> QED BY ZenonT(30), <1>8, <2>1, <2>2 DEF Request, SourceType
<1>9. ASSUME NEW s \in Sources, Sent(s) PROVE SourceType'
    BY ZenonT(30), <1>5, <1>9 DEF Sent
<1> QED BY <1>1, <1>2, <1>4, <1>6, <1>7, <1>8, <1>9 DEF Next

(* Type correctness is inductive. *)
LEMMA TypeStep == TaskInv /\ [Next]_vars => DiskTypeOK'
    BY PoolTypeStep, StateTypeStep, LoopTypeStep, SourceTypeStep DEF DiskTypeOK

-----------------------------------------------------------------------------
(* A file is opened by the worker that has the task of a registered        *)
(* transfer, and closed by the worker that goes on to release it.          *)
LEMMA FilesStep ==
    ASSUME TaskInv, [Next]_vars
    PROVE  FilesClosed'
<1> USE DEF executorVars, poolVars
<1>0. PoolType /\ StateType /\ Owned /\ FilesClosed
    BY DEF TaskInv, DiskTypeOK
<1> USE <1>0
<1>1. ASSUME UNCHANGED <<registered, work, file>> PROVE FilesClosed'
    BY <1>1 DEF FilesClosed
<1>2. CASE UNCHANGED vars \/ Start \/ BeginShutdown \/ StopStep
    BY <1>1, <1>2 DEF vars, diskVars, Start, BeginShutdown, StopStep, StopPool, StopDone
<1>3. ASSUME NEW w \in Workers, WorkerStep(w) PROVE FilesClosed'
  <2>1. CASE Take(w)
    <3>1. \A v \in Workers : work'[v] = work[v] \/ work'[v].at = "run"
        BY <2>1 DEF Take, PoolType
    <3> QED BY <2>1, <3>1 DEF FilesClosed, Take
  <2>2. ASSUME NEW e \in BOOLEAN, NEW l \in {"settle", "close"}, work[w].at \in {"run", "settle"},
               work' = [work EXCEPT ![w].at = l] \/ work' = [work EXCEPT ![w].at = l, ![w].err = e],
               registered' = registered, file' = file \/ file' = [file EXCEPT ![work[w].t] = "open"]
        PROVE  FilesClosed'
    <3>1. /\ \A v \in Workers : v # w => work'[v] = work[v]
          /\ work'[w].at \in {"settle", "close"} /\ work[w].t \in Transfers
        BY ZenonT(30), <2>2, JobMoves
    <3>2. work[w].t \in registered /\ \A v \in Workers : v # w /\ work[v].at # "idle" => work[v].t # work[w].t
        BY <2>2 DEF Owned, WorkerOwned
    <3>3. \A t \in Transfers : t # work[w].t => file'[t] = file[t]
        BY <2>2 DEF StateType
    <3>4. \A v \in Workers : v # w /\ work[v].at # "idle" => work[v].t \in Transfers
        BY DEF PoolType
    <3> QED BY <2>2, <3>1, <3>2, <3>3, <3>4 DEF FilesClosed
  <2>3. CASE RunCleanup(w) \/ SettleEnding(w)
      BY ZenonT(30), <2>2, <2>3 DEF RunCleanup, SettleEnding
  <2>4. ASSUME NEW fails \in BOOLEAN, Execute(w, fails) \/ RunSource(w, fails) PROVE FilesClosed'
      BY ZenonT(30), <2>2, <2>4 DEF Execute, RunSource
  <2>5. CASE CloseFile(w)
    <3>1. /\ \A v \in Workers : v # w => work'[v] = work[v]
          /\ work'[w].t = work[w].t /\ work[w].t \in Transfers
        BY ZenonT(30), <2>5, JobMoves DEF CloseFile
    <3>2. registered' = registered /\ \A t \in Transfers : file'[t] = "open" => file[t] = "open" /\ t # work[w].t
        BY <2>5 DEF CloseFile, StateType
    <3>3. \A v \in Workers : v # w /\ work[v].at # "idle" => work[v].t \in Transfers
        BY DEF PoolType
    <3> QED BY <3>1, <3>2, <3>3 DEF FilesClosed
  <2>6. CASE FinishCleanup(w) \/ ExecuteFinishes(w) \/ SourceFinishes(w)
    <3>1. /\ \A v \in Workers : v # w => work'[v] = work[v]
          /\ work'[w].t = work[w].t /\ work[w].at = "finish"
        BY ZenonT(30), <2>6, JobMoves DEF FinishCleanup, ExecuteFinishes, SourceFinishes
    <3> QED BY <2>6, <3>1 DEF FilesClosed, FinishCleanup, ExecuteFinishes, SourceFinishes
  <2>7. CASE ExecuteSettles(w) \/ SourceSettles(w) \/ Release(w)
    <3>1. /\ \A v \in Workers : v # w => work'[v] = work[v]
          /\ work'[w].at = "idle"
        BY <2>7, JobEnds DEF ExecuteSettles, SourceSettles, Release
    <3> QED BY ZenonT(30), <2>7, <3>1 DEF FilesClosed, ExecuteSettles, SourceSettles, Release
  <2> QED BY ZenonT(30), <1>3, <2>1, <2>3, <2>4, <2>5, <2>6, <2>7 DEF WorkerStep
<1>4. ASSUME NEW t \in Transfers, ExecutorStep(t) \/ ConnectionDown(t) PROVE FilesClosed'
    BY ZenonT(30), <1>1, <1>4 DEF ExecutorStep, CancelNext, PostCleanup, ConnectionDown
<1>5. ASSUME NEW t \in Transfers, LoopStep(t) \/ Consume(t) PROVE FilesClosed'
    BY ZenonT(30), <1>1, <1>5 DEF LoopStep, CreateSubmits, OnResult, OpenSubmits, OnSourceFunctor, Consume
<1>6. ASSUME NEW t \in Transfers, Attach(t) PROVE FilesClosed'
    BY ZenonT(30), <1>6 DEF Attach, FilesClosed
<1>7. ASSUME NEW s \in Sources, Request(s) \/ Sent(s) PROVE FilesClosed'
    BY ZenonT(30), <1>1, <1>7 DEF Request, Sent
<1> QED BY <1>2, <1>3, <1>4, <1>5, <1>6, <1>7 DEF Next

-----------------------------------------------------------------------------
(* The stage of a transfer against its tasks, when the tasks stay.         *)
QueueStaged ==
    \A i \in 1..Len(poolq) : poolq[i].op # "cleanup" => stage[poolq[i].t] = "live"

WorkStaged ==
    \A w \in Workers :
        /\ work[w].at # "idle" /\ work[w].op # "cleanup" => stage[work[w].t] = "live"
        /\ work[w].at = "settle" => work[w].op # "cleanup"

StageStaged ==
    \A t \in Transfers :
        /\ stage[t] = "fresh" => t \notin registered \cup terminal
        /\ stage[t] \in {"attached", "live"} => t \in registered \cup terminal

ResultStaged ==
    /\ \A t \in Transfers : loopq[t] # <<>> => stage[t] = "live"
    /\ \A s \in opened \cup held : stage[s] = "live"

(* Staged, split by the variables it is about. *)
LEMMA StagedParts == Staged <=> QueueStaged /\ WorkStaged /\ StageStaged /\ ResultStaged
    BY ZenonT(30) DEF Staged, QueueStaged, WorkStaged, StageStaged, ResultStaged

(* A task that is posted: a cleanup, or of a transfer that is live now. *)
LEMMA StagedEnqueue ==
    ASSUME PoolType, QueueStaged, NEW t \in Transfers, NEW op \in Ops, Enqueue(t, op),
           op = "cleanup" \/ stage'[t] = "live",
           \A u \in Transfers : stage[u] = "live" => stage'[u] = "live"
    PROVE  QueueStaged'
<1>1. poolq \in Seq(Task) /\ \A i \in 1..Len(poolq) : poolq[i].t \in Transfers
    BY ZenonT(30), QueuedTransfers
<1>2. poolq' = Append(poolq, [t |-> t, op |-> op])
    BY ZenonT(30) DEF Enqueue
<1>3. /\ \A i \in 1..Len(poolq) : poolq'[i] = poolq[i]
      /\ poolq'[Len(poolq) + 1].t = t /\ poolq'[Len(poolq) + 1].op = op
      /\ \A i \in 1..Len(poolq') : i \in 1..Len(poolq) \/ i = Len(poolq) + 1
    BY ZenonT(30), <1>1, <1>2, PostedLast
<1> QED BY ZenonT(30), <1>1, <1>3 DEF QueueStaged

(* A live transfer stays live. *)
LEMMA LiveStays ==
    ASSUME TaskInv, [Next]_vars
    PROVE  \A u \in Transfers : stage[u] = "live" => stage'[u] = "live"
<1> USE DEF linkVars
<1>0. stage \in [Transfers -> {"fresh", "attached", "live", "gone"}]
    BY ZenonT(30) DEF TaskInv, DiskTypeOK, LoopType
<1> DEFINE Stays == \A u \in Transfers : stage[u] = "live" => stage'[u] = "live"
<1>1. ASSUME stage' = stage PROVE Stays
    BY ZenonT(30), <1>1
<1>2. CASE UNCHANGED vars \/ ((Start \/ BeginShutdown) /\ UNCHANGED <<linkVars, receiverVars, sourceVars>>) \/ StopStep
    BY ZenonT(30), <1>1, <1>2 DEF vars, StopStep
<1>3. ASSUME NEW w \in Workers, WorkerStep(w) PROVE Stays
    BY ZenonT(30), <1>1, <1>3 DEF WorkerStep, Execute, ExecuteSettles, ExecuteFinishes, RunSource, SourceSettles,
        SourceFinishes
<1>4. ASSUME NEW t \in Transfers, ExecutorStep(t) \/ ConnectionDown(t) \/ OnResult(t) \/ OnSourceFunctor(t) \/ Consume(t)
      PROVE  Stays
    BY ZenonT(30), <1>1, <1>4 DEF ExecutorStep, CancelNext, ConnectionDown, OnResult, OnSourceFunctor, Consume
<1>5. ASSUME NEW t \in Transfers, CreateSubmits(t) \/ OpenSubmits(t) \/ Attach(t) PROVE Stays
    BY ZenonT(30), <1>0, <1>5 DEF CreateSubmits, OpenSubmits, Attach
<1>6. ASSUME NEW s \in Sources, Request(s) \/ Sent(s) PROVE Stays
    BY ZenonT(30), <1>1, <1>6 DEF Request, Sent
<1> QED BY ZenonT(30), <1>2, <1>3, <1>4, <1>5, <1>6 DEF Next, LoopStep

(* Queued tasks belong to live transfers, or clean up. *)
LEMMA QueueStagedStep ==
    ASSUME TaskInv, [Next]_vars
    PROVE  QueueStaged'
<1> USE DEF executorVars, poolVars
<1>0. PoolType /\ QueueStaged /\ ResultStaged /\ poolq \in Seq(Task)
    BY ZenonT(30), StagedParts DEF TaskInv, DiskTypeOK, PoolType
<1> USE <1>0
<1>1. \A u \in Transfers : stage[u] = "live" => stage'[u] = "live"
    BY ZenonT(30), LiveStays
<1> USE <1>1
<1>2. \A i \in 1..Len(poolq) : poolq[i].t \in Transfers
    BY ZenonT(30), QueuedTransfers
<1>3. ASSUME poolq' = poolq PROVE QueueStaged'
    BY ZenonT(30), <1>2, <1>3 DEF QueueStaged
<1>4. ASSUME NEW t \in Transfers, NEW op \in {"initialize", "write", "finish", "read"}, Launch(t, op), stage'[t] = "live"
      PROVE  QueueStaged'
    BY ZenonT(30), <1>4, StagedEnqueue DEF Launch, Ops
<1>5. CASE UNCHANGED vars \/ Start \/ BeginShutdown \/ StopStep
    BY ZenonT(30), <1>3, <1>5 DEF vars, diskVars, Start, BeginShutdown, StopStep, StopPool, StopDone
<1>6. ASSUME NEW w \in Workers, WorkerStep(w) PROVE QueueStaged'
  <2>1. CASE Take(w)
    <3>1. /\ poolq' = Tail(poolq) /\ poolq # <<>>
        BY ZenonT(30), <2>1 DEF Take
    <3>2. \A i \in 1..Len(poolq') : i + 1 \in 1..Len(poolq) /\ poolq'[i] = poolq[i + 1]
        BY ZenonT(30), <3>1, TailElements
    <3> QED BY <1>2, <3>2 DEF QueueStaged
  <2>2. CASE ~Take(w)
      BY ZenonT(30), <1>3, <1>6, <2>2 DEF WorkerStep, RunCleanup, SettleEnding, CloseFile, FinishCleanup, Release, Execute,
          ExecuteSettles, ExecuteFinishes, RunSource, SourceSettles, SourceFinishes
  <2> QED BY ZenonT(30), <2>1, <2>2
<1>7. ASSUME NEW t \in Transfers, PostCleanup(t) PROVE QueueStaged'
    BY ZenonT(30), <1>3, <1>7, StagedEnqueue DEF PostCleanup, Ops
<1>8. ASSUME NEW t \in Transfers, CancelNext(t) \/ ConnectionDown(t) \/ OnSourceFunctor(t) \/ Attach(t)
      PROVE  QueueStaged'
    BY ZenonT(30), <1>3, <1>8 DEF CancelNext, ConnectionDown, OnSourceFunctor, Attach
<1>9. ASSUME NEW t \in Transfers, CreateSubmits(t) \/ OpenSubmits(t) PROVE QueueStaged'
  <2>1. CanLaunch(t) => stage' = [stage EXCEPT ![t] = "live"]
      BY ZenonT(30), <1>9 DEF CreateSubmits, OpenSubmits
  <2>2. CanLaunch(t) => stage'[t] = "live"
      BY ZenonT(30), <2>1 DEF TaskInv, DiskTypeOK, LoopType
  <2> QED BY ZenonT(30), <1>3, <1>4, <1>9, <2>2 DEF CreateSubmits, OpenSubmits, Submit
<1>10. ASSUME NEW t \in Transfers, OnResult(t) PROVE QueueStaged'
  <2>1. stage'[t] = "live"
      BY ZenonT(30), <1>10 DEF ResultStaged, OnResult
  <2> QED BY ZenonT(30), <1>3, <1>4, <1>10, <2>1 DEF OnResult, Completed, ReportError, Submit
<1>11. ASSUME NEW t \in Transfers, Consume(t) PROVE QueueStaged'
  <2>1. stage'[t] = "live"
      BY ZenonT(30), <1>11 DEF Consume, Ready
  <2> QED BY ZenonT(30), <1>3, <1>4, <1>11, <2>1 DEF Consume, Submit
<1>12. ASSUME NEW s \in Sources, Request(s) \/ Sent(s) PROVE QueueStaged'
  <2>1. s \in Transfers /\ stage'[s] = "live"
      BY ZenonT(30), <1>12 DEF Transfers, ResultStaged, Request, Sent
  <2> QED BY ZenonT(30), <1>3, <1>4, <1>12, <2>1 DEF Request, Sent
<1> QED BY ZenonT(30), <1>5, <1>6, <1>7, <1>8, <1>9, <1>10, <1>11, <1>12 DEF Next, ExecutorStep, LoopStep

(* So do the tasks the workers have. *)
LEMMA WorkStagedStep ==
    ASSUME TaskInv, [Next]_vars
    PROVE  WorkStaged'
<1> USE DEF poolVars
<1>0. PoolType /\ QueueStaged /\ WorkStaged /\ poolq \in Seq(Task)
    BY ZenonT(30), StagedParts DEF TaskInv, DiskTypeOK, PoolType
<1> USE <1>0
<1>1. \A u \in Transfers : stage[u] = "live" => stage'[u] = "live"
    BY ZenonT(30), LiveStays
<1> USE <1>1
<1>2. \A w \in Workers : work[w].at # "idle" => work[w].t \in Transfers
    BY ZenonT(30) DEF PoolType
<1>3. ASSUME work' = work PROVE WorkStaged'
    BY ZenonT(30), <1>2, <1>3 DEF WorkStaged
<1>4. CASE UNCHANGED vars \/ Start \/ BeginShutdown \/ StopStep
    BY ZenonT(30), <1>3, <1>4 DEF vars, diskVars, Start, BeginShutdown, StopStep, StopPool, StopDone
<1>5. ASSUME NEW w \in Workers, WorkerStep(w) PROVE WorkStaged'
  <2>1. CASE Take(w)
    <3>1. work' = [work EXCEPT ![w] = [t |-> Head(poolq).t, op |-> Head(poolq).op, at |-> "run", err |-> FALSE]]
          /\ poolq # <<>> /\ poolq' = Tail(poolq)
        BY ZenonT(30), <2>1 DEF Take
    <3>4. /\ \A v \in Workers : v # w => work'[v] = work[v]
          /\ work'[w].t = poolq[1].t /\ work'[w].op = poolq[1].op /\ poolq[1].t \in Transfers
          /\ work'[w].at = "run" /\ 1 \in 1..Len(poolq)
        BY ZenonT(30), <3>1, FirstTaken
    <3>5. work'[w].op # "cleanup" => stage'[work'[w].t] = "live"
        BY ZenonT(30), <3>4 DEF QueueStaged
    <3> QED BY ZenonT(30), <1>2, <3>4, <3>5 DEF WorkStaged
  <2>2. ASSUME NEW l \in {"run", "settle", "close", "finish", "release"}, NEW e \in BOOLEAN, work[w].at # "idle",
               \/ work' = [work EXCEPT ![w].at = l]
               \/ work' = [work EXCEPT ![w].at = l, ![w].err = e],
               l = "settle" => work[w].op # "cleanup"
        PROVE  WorkStaged'
    <3>1. /\ \A v \in Workers : v # w => work'[v] = work[v]
          /\ work'[w].t = work[w].t /\ work'[w].op = work[w].op /\ work'[w].at = l
      <4> HIDE <1>1
      <4>1. CASE work' = [work EXCEPT ![w].at = l]
          BY ZenonT(30), <2>2, <4>1, JobMoves
      <4>2. CASE work' = [work EXCEPT ![w].at = l, ![w].err = e]
          BY ZenonT(30), <2>2, <4>2, JobMoves
      <4> QED BY ZenonT(30), <2>2, <4>1, <4>2
    <3> QED BY <1>2, <2>2, <3>1 DEF WorkStaged
  <2>3. ASSUME work' = [work EXCEPT ![w] = IdleWorker] PROVE WorkStaged'
    <3>1. /\ \A v \in Workers : v # w => work'[v] = work[v]
          /\ work'[w].at = "idle"
        BY ZenonT(30), <2>3, JobEnds
    <3> QED BY ZenonT(30), <1>2, <3>1 DEF WorkStaged
  <2>4. CASE RunCleanup(w) \/ SettleEnding(w) \/ CloseFile(w) \/ FinishCleanup(w) \/ ExecuteFinishes(w) \/ SourceFinishes(w)
      BY ZenonT(30), <2>2, <2>4 DEF RunCleanup, SettleEnding, CloseFile, FinishCleanup, ExecuteFinishes, SourceFinishes
  <2>5. ASSUME NEW fails \in BOOLEAN, Execute(w, fails) \/ RunSource(w, fails) PROVE WorkStaged'
      BY ZenonT(30), <2>2, <2>5 DEF Execute, RunSource
  <2>6. CASE Release(w) \/ ExecuteSettles(w) \/ SourceSettles(w)
      BY ZenonT(30), <2>3, <2>6 DEF Release, ExecuteSettles, SourceSettles
  <2> QED BY ZenonT(30), <1>5, <2>1, <2>4, <2>5, <2>6 DEF WorkerStep
<1>6. ASSUME NEW t \in Transfers, ExecutorStep(t) \/ ConnectionDown(t) \/ Attach(t) \/ Consume(t) PROVE WorkStaged'
    BY ZenonT(30), <1>3, <1>6 DEF ExecutorStep, CancelNext, PostCleanup, ConnectionDown, Attach, Consume
<1>7. ASSUME NEW t \in Transfers, LoopStep(t) PROVE WorkStaged'
    BY ZenonT(30), <1>3, <1>7 DEF LoopStep, CreateSubmits, OnResult, OpenSubmits, OnSourceFunctor
<1>8. ASSUME NEW s \in Sources, Request(s) \/ Sent(s) PROVE WorkStaged'
    BY ZenonT(30), <1>3, <1>8 DEF Request, Sent
<1> QED BY ZenonT(30), <1>4, <1>5, <1>6, <1>7, <1>8 DEF Next

(* A transfer is registered from attach() until its end is decided. *)
LEMMA StageStagedStep ==
    ASSUME TaskInv, [Next]_vars
    PROVE  StageStaged'
<1> USE DEF executorVars, stateVars, linkVars
<1>0. PoolType /\ LoopType /\ StageStaged /\ Owned
    BY ZenonT(30), StagedParts DEF TaskInv, DiskTypeOK
<1> USE <1>0
<1>1. ASSUME UNCHANGED <<stage, registered, terminal>> PROVE StageStaged'
    BY ZenonT(30), <1>1 DEF StageStaged
<1>2. CASE UNCHANGED vars \/ ((Start \/ BeginShutdown) /\ UNCHANGED <<linkVars, receiverVars, sourceVars>>) \/ StopStep
    BY ZenonT(30), <1>1, <1>2 DEF vars, diskVars, Start, BeginShutdown, StopStep, StopPool, StopDone
<1>3. ASSUME NEW w \in Workers, WorkerStep(w) PROVE StageStaged'
  <2>1. CASE (RunCleanup(w) \/ SettleEnding(w)) /\ UNCHANGED linkVars
    <3>1. work[w].t \in registered
        BY ZenonT(30), <2>1 DEF RunCleanup, SettleEnding, Owned, WorkerOwned
    <3> QED BY ZenonT(30), <2>1, <3>1 DEF RunCleanup, SettleEnding, StageStaged
  <2>2. CASE Release(w) /\ UNCHANGED linkVars
    <3>1. work[w].t \in terminal
        BY ZenonT(30), <2>2 DEF Release, Owned, WorkerOwned
    <3> QED BY ZenonT(30), <2>2, <3>1 DEF Release, StageStaged
  <2>3. CASE (Take(w) \/ CloseFile(w) \/ FinishCleanup(w)) /\ UNCHANGED linkVars
      BY ZenonT(30), <1>1, <2>3 DEF Take, CloseFile, FinishCleanup, NotBusy
  <2>4. ASSUME NEW fails \in BOOLEAN, Execute(w, fails) \/ RunSource(w, fails) PROVE StageStaged'
      BY ZenonT(30), <1>1, <2>4 DEF Execute, RunSource
  <2>5. CASE ExecuteSettles(w) \/ ExecuteFinishes(w) \/ SourceSettles(w) \/ SourceFinishes(w)
      BY ZenonT(30), <1>1, <2>5 DEF ExecuteSettles, ExecuteFinishes, SourceSettles, SourceFinishes, NotBusy
  <2> QED BY ZenonT(30), <1>3, <2>1, <2>2, <2>3, <2>4, <2>5 DEF WorkerStep
<1>4. ASSUME NEW t \in Transfers, CancelNext(t) \/ ConnectionDown(t) PROVE StageStaged'
    BY ZenonT(30), <1>1, <1>4 DEF CancelNext, ConnectionDown, CancelTransfer, CancelSource, Cancel
<1>5. ASSUME NEW t \in Transfers, PostCleanup(t), UNCHANGED linkVars PROVE StageStaged'
    BY ZenonT(30), <1>1, <1>5 DEF PostCleanup
<1>6. ASSUME NEW t \in Transfers, CreateSubmits(t) \/ OpenSubmits(t) PROVE StageStaged'
  <2>1. UNCHANGED <<registered, terminal>>
      BY ZenonT(30), <1>6 DEF CreateSubmits, OpenSubmits, Submit, Launch, Cancel
  <2>2. \E x \in {"live", "gone"} : stage[t] = "attached" /\ stage' = [stage EXCEPT ![t] = x]
      BY ZenonT(30), <1>6 DEF CreateSubmits, OpenSubmits
  <2> QED BY ZenonT(30), <2>1, <2>2 DEF StageStaged, LoopType
<1>7. ASSUME NEW t \in Transfers, OnResult(t) \/ OnSourceFunctor(t) \/ Consume(t) PROVE StageStaged'
  <2>1. UNCHANGED <<stage, registered>>
      BY ZenonT(30), <1>7 DEF OnResult, OnSourceFunctor, Consume
  <2>2. terminal' = terminal
      BY ZenonT(30), <1>7 DEF OnResult, OnSourceFunctor, Consume, Completed, ReportError, Submit, Launch, Cancel
  <2> QED BY ZenonT(30), <1>1, <2>1, <2>2
<1>8. ASSUME NEW t \in Transfers, Attach(t) PROVE StageStaged'
    BY ZenonT(30), <1>8 DEF Attach, StageStaged, LoopType
<1>9. ASSUME NEW s \in Sources, Request(s) \/ Sent(s) PROVE StageStaged'
    BY ZenonT(30), <1>1, <1>9 DEF Request, Sent, CancelSource, Launch, Cancel
<1> QED BY ZenonT(30), <1>2, <1>3, <1>4, <1>5, <1>6, <1>7, <1>8, <1>9 DEF Next, ExecutorStep, LoopStep

(* Results and completions belong to live transfers. *)
LEMMA ResultStagedStep ==
    ASSUME TaskInv, [Next]_vars
    PROVE  ResultStaged'
<1> USE DEF sourceVars
<1>0. PoolType /\ StateType /\ SourceType /\ WorkStaged /\ ResultStaged
    BY ZenonT(30), StagedParts DEF TaskInv, DiskTypeOK
<1> USE <1>0
<1>1. \A u \in Transfers : stage[u] = "live" => stage'[u] = "live"
    BY ZenonT(30), LiveStays
<1>2. ASSUME NEW t \in Transfers, stage[t] = "live",
             \A u \in Transfers : u # t => loopq'[u] = loopq[u],
             opened' \in SUBSET (opened \cup {t}), held' \in SUBSET (held \cup {t})
      PROVE  ResultStaged'
  <2>1. opened \cup held \subseteq Transfers
      BY ZenonT(30) DEF SourceType, Transfers
  <2> QED BY ZenonT(30), <1>1, <1>2, <2>1 DEF ResultStaged
<1>3. ASSUME UNCHANGED <<loopq, opened, held>> PROVE ResultStaged'
  <2>1. opened \cup held \subseteq Transfers
      BY ZenonT(30) DEF SourceType, Transfers
  <2> QED BY ZenonT(30), <1>1, <1>3, <2>1 DEF ResultStaged
<1>4. CASE UNCHANGED vars \/ ((Start \/ BeginShutdown) /\ UNCHANGED <<linkVars, receiverVars, sourceVars>>) \/ StopStep
    BY ZenonT(30), <1>3, <1>4 DEF vars, diskVars, Start, BeginShutdown, StopStep, StopPool, StopDone
<1>5. ASSUME NEW s \in Sources, NEW e, Answer(s, e) PROVE \A u \in Transfers : u # s => loopq'[u] = loopq[u]
    BY ZenonT(30), <1>5 DEF Answer, StateType
<1>6. ASSUME NEW w \in Workers, WorkerStep(w) PROVE ResultStaged'
  <2>1. CASE (Take(w) \/ RunCleanup(w) \/ SettleEnding(w) \/ CloseFile(w) \/ FinishCleanup(w) \/ Release(w))
               /\ UNCHANGED sourceVars
      BY ZenonT(30), <1>3, <2>1 DEF Take, RunCleanup, SettleEnding, CloseFile, FinishCleanup, Release
  <2>2. ASSUME NEW fails \in BOOLEAN, (Execute(w, fails) /\ UNCHANGED sourceVars) \/ RunSource(w, fails)
        PROVE  ResultStaged'
      BY ZenonT(30), <1>3, <2>2 DEF Execute, RunSource
  <2>3. ASSUME work[w].at # "idle" PROVE work[w].t \in Transfers
      BY ZenonT(30), <2>3 DEF PoolType
  <2>4. ASSUME PostResult(work[w]), work[w].at # "idle"
        PROVE  \A u \in Transfers : u # work[w].t => loopq'[u] = loopq[u]
      BY ZenonT(30), <2>3, <2>4 DEF PostResult, StateType
  <2>5. CASE (ExecuteSettles(w) \/ ExecuteFinishes(w)) /\ UNCHANGED sourceVars
    <3>1. work[w].at # "idle" /\ stage[work[w].t] = "live"
        BY ZenonT(30), <2>5 DEF ExecuteSettles, ExecuteFinishes, WorkStaged
    <3> QED BY ZenonT(30), <1>2, <2>3, <2>4, <2>5, <3>1 DEF ExecuteSettles, ExecuteFinishes
  <2>6. CASE SourceSettles(w) \/ SourceFinishes(w)
    <3>1. CASE work[w].op = "cleanup" /\ work[w].t \notin held
        BY ZenonT(30), <1>3, <2>6, <3>1 DEF SourceSettles, SourceFinishes, PostSource
    <3>2. CASE ~(work[w].op = "cleanup" /\ work[w].t \notin held)
      <4>1. work[w].at # "idle" /\ stage[work[w].t] = "live" /\ work[w].t \in Sources
          BY ZenonT(30), <2>6, <3>2 DEF SourceSettles, SourceFinishes, WorkStaged, ResultStaged
      <4>2. \A u \in Transfers : u # work[w].t => loopq'[u] = loopq[u]
          BY ZenonT(30), <1>5, <2>4, <2>6, <4>1 DEF SourceSettles, SourceFinishes, PostSource
      <4>3. opened' = opened /\ held' \in SUBSET held
          BY ZenonT(30), <2>6 DEF SourceSettles, SourceFinishes, PostSource
      <4> QED BY ZenonT(30), <1>2, <2>3, <4>1, <4>2, <4>3
    <3> QED BY ZenonT(30), <3>1, <3>2
  <2> QED BY ZenonT(30), <1>6, <2>1, <2>2, <2>5, <2>6 DEF WorkerStep
<1>7. ASSUME NEW t \in Transfers, CancelTransfer(t) PROVE ResultStaged'
  <2>1. CASE t \in held /\ t \in Sources
    <3>1. stage[t] = "live"
        BY ZenonT(30), <2>1 DEF ResultStaged
    <3> QED BY ZenonT(30), <1>2, <1>5, <1>7, <2>1, <3>1 DEF CancelTransfer, CancelSource
  <2>2. CASE ~(t \in held /\ t \in Sources)
      BY ZenonT(30), <1>3, <1>7, <2>2 DEF CancelTransfer, CancelSource
  <2> QED BY ZenonT(30), <2>1, <2>2
<1>8. ASSUME NEW t \in Transfers, ExecutorStep(t) \/ ConnectionDown(t) PROVE ResultStaged'
    BY ZenonT(30), <1>3, <1>7, <1>8 DEF ExecutorStep, CancelNext, ConnectionDown, PostCleanup
<1>9. ASSUME NEW t \in Transfers, ((CreateSubmits(t) \/ Attach(t) \/ Consume(t)) /\ UNCHANGED sourceVars) \/ OpenSubmits(t)
      PROVE  ResultStaged'
    BY ZenonT(30), <1>3, <1>9 DEF CreateSubmits, Attach, Consume, OpenSubmits
<1>10. ASSUME NEW t \in Transfers, (OnResult(t) /\ UNCHANGED sourceVars) \/ OnSourceFunctor(t) PROVE ResultStaged'
  <2>1. stage[t] = "live"
      BY ZenonT(30), <1>10 DEF OnResult, OnSourceFunctor, ResultStaged
  <2>2. \A u \in Transfers : u # t => loopq'[u] = loopq[u]
      BY ZenonT(30), <1>10 DEF OnResult, OnSourceFunctor, StateType
  <2>3. opened' \in SUBSET (opened \cup {t}) /\ held' = held
      BY ZenonT(30), <1>10 DEF OnSourceFunctor
  <2> QED BY ZenonT(30), <1>2, <2>1, <2>2, <2>3
<1>11. ASSUME NEW s \in Sources, Request(s) PROVE ResultStaged'
  <2>1. s \in Transfers /\ stage[s] = "live"
      BY ZenonT(30), <1>11 DEF Transfers, ResultStaged, Request
  <2>2. \A u \in Transfers : u # s => loopq'[u] = loopq[u]
      BY ZenonT(30), <1>5, <1>11 DEF Request
  <2>3. opened' = opened /\ held' \in SUBSET (held \cup {s})
      BY ZenonT(30), <1>11 DEF Request
  <2> QED BY ZenonT(30), <1>2, <2>1, <2>2, <2>3
<1>12. ASSUME NEW s \in Sources, Sent(s) PROVE ResultStaged'
    BY ZenonT(30), <1>7, <1>12 DEF Sent, CancelTransfer, Transfers
<1> QED BY ZenonT(30), <1>4, <1>6, <1>8, <1>9, <1>10, <1>11, <1>12 DEF Next, LoopStep

-----------------------------------------------------------------------------
(* A launch or the post of a cleanup, for a transfer that holds no         *)
(* completion unless the task is the read.                                 *)
LEMMA HeldEnqueue ==
    ASSUME TaskInv, HeldByRead, NEW t \in Transfers, NEW op \in Ops, Enqueue(t, op), work' = work,
           \/ t \notin held /\ held' = held
           \/ op = "read" /\ t \notin busy \cup terminal /\ held' = held \cup {t},
           held' \subseteq busy' \ cleaning'
    PROVE  HeldByRead'
<1>1. poolq \in Seq(Task) /\ PoolType
    BY ZenonT(30) DEF TaskInv, DiskTypeOK, PoolType
<1>3. /\ \A i \in 1..Len(poolq) : poolq'[i] = poolq[i]
      /\ poolq'[Len(poolq) + 1].t = t /\ poolq'[Len(poolq) + 1].op = op
      /\ \A i \in 1..Len(poolq') : i \in 1..Len(poolq) \/ i = Len(poolq) + 1
    BY ZenonT(30), <1>1, PostedLast DEF Enqueue
<1>4. ASSUME t \notin busy \cup terminal
      PROVE  /\ \A i \in 1..Len(poolq) : poolq[i].t # t
             /\ \A w \in Workers : work[w].at # "idle" => work[w].t # t
    BY ZenonT(30), <1>1, <1>4, NoTask DEF TaskInv
<1> QED BY ZenonT(30), <1>3, <1>4 DEF HeldByRead

(* A completion is held only while its read is the task of the source. *)
LEMMA HeldStep ==
    ASSUME TaskInv, HeldByRead, [Next]_vars
    PROVE  HeldByRead'
<1> USE DEF executorVars, poolVars, stateVars, sourceVars
<1>0. PoolType /\ SourceType /\ Owned /\ Receivers \cap Sources = {} /\ poolq \in Seq(Task)
    BY ZenonT(30), TransfersAssumption DEF TaskInv, DiskTypeOK, PoolType
<1> USE <1>0
<1>1. ASSUME UNCHANGED <<poolq, work>>, held' \subseteq held, held' \subseteq busy' \ cleaning' PROVE HeldByRead'
    BY ZenonT(30), <1>1 DEF HeldByRead
<1>2. CASE UNCHANGED vars \/ ((Start \/ BeginShutdown) /\ UNCHANGED <<linkVars, receiverVars, sourceVars>>) \/ StopStep
    BY ZenonT(30), <1>1, <1>2 DEF vars, diskVars, Start, BeginShutdown, StopStep, StopPool, StopDone, HeldByRead
<1>3. ASSUME NEW t \in Transfers, Cancel(t) PROVE held \subseteq busy' \ cleaning'
    BY ZenonT(30), <1>3 DEF Cancel, HeldByRead
<1>4. ASSUME NEW w \in Workers, WorkerStep(w) PROVE HeldByRead'
  <2>1. CASE Take(w) /\ UNCHANGED sourceVars
      BY ZenonT(30), <2>1, HeldTake DEF Take
  <2>2. ASSUME NEW l \in {"run", "settle", "close", "finish", "release"}, NEW e \in BOOLEAN, work[w].at # "idle",
               \/ work' = [work EXCEPT ![w].at = l]
               \/ work' = [work EXCEPT ![w].at = l, ![w].err = e]
               \/ work' = [work EXCEPT ![w] = IdleWorker],
               poolq' = poolq, held' \subseteq held, held' \subseteq busy' \ cleaning'
        PROVE  HeldByRead'
    <3>1. /\ \A v \in Workers : v # w => work'[v] = work[v]
          /\ work'[w].at = "idle" \/ (work'[w].t = work[w].t /\ work'[w].op = work[w].op)
        BY ZenonT(30), <2>2, JobMoves, JobEnds
    <3> QED BY ZenonT(30), <2>2, <3>1 DEF HeldByRead
  <2>3. CASE (RunCleanup(w) \/ SettleEnding(w) \/ CloseFile(w) \/ Release(w)) /\ UNCHANGED sourceVars
    <3>1. held' \subseteq held /\ held' \subseteq busy' \ cleaning'
        BY ZenonT(30), <2>3 DEF RunCleanup, SettleEnding, CloseFile, Release, HeldByRead
    <3> QED BY ZenonT(30), <2>2, <2>3, <3>1 DEF RunCleanup, SettleEnding, CloseFile, Release
  <2>4. ASSUME NEW fails \in BOOLEAN, (Execute(w, fails) /\ UNCHANGED sourceVars) \/ RunSource(w, fails)
        PROVE  HeldByRead'
    <3>1. held' \subseteq held /\ held' \subseteq busy' \ cleaning'
        BY ZenonT(30), <2>4 DEF Execute, RunSource, HeldByRead
    <3> QED BY ZenonT(30), <2>2, <2>4, <3>1 DEF Execute, RunSource
  <2>5. ASSUME NotBusy(work[w].t), held' \subseteq held \ {work[w].t}
        PROVE  held' \subseteq held /\ held' \subseteq busy' \ cleaning'
      BY ZenonT(30), <2>5 DEF NotBusy, HeldByRead
  <2>6. CASE (FinishCleanup(w) \/ ExecuteSettles(w) \/ ExecuteFinishes(w)) /\ UNCHANGED sourceVars
    <3>1. NotBusy(work[w].t) /\ held' \subseteq held \ {work[w].t}
        BY ZenonT(30), <2>6 DEF FinishCleanup, ExecuteSettles, ExecuteFinishes, HeldByRead, SourceType
    <3> QED BY ZenonT(30), <2>2, <2>5, <2>6, <3>1 DEF FinishCleanup, ExecuteSettles, ExecuteFinishes
  <2>7. CASE SourceSettles(w) \/ SourceFinishes(w)
    <3>1. NotBusy(work[w].t) /\ held' \subseteq held \ {work[w].t}
        BY ZenonT(30), <2>7 DEF SourceSettles, SourceFinishes, PostSource, HeldByRead
    <3> QED BY ZenonT(30), <2>2, <2>5, <2>7, <3>1 DEF SourceSettles, SourceFinishes
  <2> QED BY ZenonT(30), <1>4, <2>1, <2>3, <2>4, <2>6, <2>7 DEF WorkerStep
<1>5. ASSUME NEW t \in Transfers, CancelNext(t) \/ ConnectionDown(t) PROVE HeldByRead'
    BY ZenonT(30), <1>1, <1>3, <1>5 DEF CancelNext, ConnectionDown, CancelTransfer, CancelSource
<1>6. ASSUME NEW t \in Transfers, PostCleanup(t), UNCHANGED sourceVars PROVE HeldByRead'
  <2>1. t \notin held /\ held' = held /\ held' \subseteq busy' \ cleaning'
      BY ZenonT(30), <1>6 DEF PostCleanup, HeldByRead
  <2>2. CASE Accepts(TRUE)
      BY ZenonT(30), <1>6, <2>1, <2>2, HeldEnqueue DEF PostCleanup, Ops
  <2>3. CASE ~Accepts(TRUE)
      BY ZenonT(30), <1>1, <1>6, <2>1, <2>3 DEF PostCleanup
  <2> QED BY ZenonT(30), <2>2, <2>3
<1>7. ASSUME NEW t \in Transfers, NEW op \in {"initialize", "write", "finish"}, CanLaunch(t), Launch(t, op),
             work' = work, held' = held
      PROVE  HeldByRead'
  <2>1. t \notin held /\ held' \subseteq busy' \ cleaning'
      BY ZenonT(30), <1>7 DEF HeldByRead, CanLaunch, Launch
  <2> QED BY ZenonT(30), <1>7, <2>1, HeldEnqueue DEF Launch, Ops
<1>8. ASSUME NEW t \in Transfers, (CreateSubmits(t) /\ UNCHANGED sourceVars) \/ OpenSubmits(t) PROVE HeldByRead'
    BY ZenonT(30), <1>1, <1>3, <1>7, <1>8 DEF CreateSubmits, OpenSubmits, Submit
<1>9. ASSUME NEW t \in Transfers, OnResult(t), UNCHANGED sourceVars PROVE HeldByRead'
  <2>1. CASE UNCHANGED <<poolq, stateVars>>
      BY ZenonT(30), <1>1, <1>9, <2>1 DEF OnResult, HeldByRead
  <2>2. CASE Cancel(t) /\ UNCHANGED poolq
      BY ZenonT(30), <1>1, <1>3, <1>9, <2>2 DEF OnResult
  <2>3. CASE CanLaunch(t) /\ Launch(t, "finish")
      BY ZenonT(30), <1>7, <1>9, <2>3 DEF OnResult
  <2> QED BY ZenonT(30), <1>9, <2>1, <2>2, <2>3 DEF OnResult, Completed, ReportError, Submit
<1>10. ASSUME NEW t \in Transfers, OnSourceFunctor(t) PROVE HeldByRead'
    BY ZenonT(30), <1>1, <1>3, <1>10 DEF OnSourceFunctor, HeldByRead
<1>11. ASSUME NEW t \in Transfers, Attach(t), UNCHANGED sourceVars PROVE HeldByRead'
    BY ZenonT(30), <1>1, <1>11 DEF Attach, HeldByRead
<1>12. ASSUME NEW t \in Transfers, Consume(t), UNCHANGED sourceVars PROVE HeldByRead'
    BY ZenonT(30), <1>1, <1>3, <1>7, <1>12 DEF Consume, Submit
<1>13. ASSUME NEW s \in Sources, Request(s) PROVE HeldByRead'
  <2>0. s \in Transfers
      BY ZenonT(30) DEF Transfers
  <2>1. CASE CanLaunch(s)
    <3>1. s \notin busy \cup terminal /\ held' = held \cup {s} /\ Launch(s, "read") /\ work' = work
        BY ZenonT(30), <1>13, <2>1 DEF Request, CanLaunch
    <3>2. held' \subseteq busy' \ cleaning'
        BY ZenonT(30), <3>1 DEF Launch, HeldByRead, Owned
    <3> QED BY ZenonT(30), <2>0, <3>1, <3>2, HeldEnqueue DEF Launch, Ops
  <2>2. CASE ~CanLaunch(s)
      BY ZenonT(30), <1>1, <1>3, <1>13, <2>0, <2>2 DEF Request, HeldByRead
  <2> QED BY ZenonT(30), <2>1, <2>2
<1>14. ASSUME NEW s \in Sources, Sent(s) PROVE HeldByRead'
    BY ZenonT(30), <1>1, <1>3, <1>14 DEF Sent, CancelSource, Transfers
<1> QED BY ZenonT(30), <1>2, <1>4, <1>5, <1>6, <1>8, <1>9, <1>10, <1>11, <1>12, <1>13, <1>14
       DEF Next, ExecutorStep, LoopStep

(* An answer is counted where the completion is taken out of State, or     *)
(* where the request is refused.                                           *)
LEMMA CountedStep ==
    ASSUME TaskInv, HeldByRead, Counted, [Next]_vars
    PROVE  Counted'
<1> USE DEF sourceVars
<1>0. /\ requested \in [Sources -> Nat] /\ answers \in [Sources -> Nat]
      /\ held \in SUBSET Sources
    BY ZenonT(30) DEF TaskInv, DiskTypeOK, SourceType
<1>1. ASSUME UNCHANGED <<requested, answers, held>> PROVE Counted'
    BY ZenonT(30), <1>1 DEF Counted
<1>2. ASSUME NEW s \in Sources, NEW e, s \in held, held' = held \ {s}, Answer(s, e), requested' = requested
      PROVE  Counted'
  <2>1. answers' = [answers EXCEPT ![s] = @ + 1]
      BY ZenonT(30), <1>2 DEF Answer
  <2> QED BY ZenonT(30), <1>0, <1>2, <2>1, CountsMove
<1>3. CASE UNCHANGED vars \/ ((Start \/ BeginShutdown) /\ UNCHANGED <<linkVars, receiverVars, sourceVars>>) \/ StopStep
    BY ZenonT(30), <1>1, <1>3 DEF vars, StopStep
<1>4. ASSUME NEW w \in Workers, WorkerStep(w) PROVE Counted'
  <2>1. ASSUME NEW fails \in BOOLEAN, RunSource(w, fails) PROVE Counted'
      BY ZenonT(30), <1>1, <2>1 DEF RunSource
  <2>2. CASE SourceSettles(w) \/ SourceFinishes(w)
    <3>1. PostSource(work[w]) /\ requested' = requested /\ work[w].t \in Sources
        BY ZenonT(30), <2>2 DEF SourceSettles, SourceFinishes
    <3>2. CASE work[w].t \in held /\ work[w].op # "initialize"
        BY ZenonT(30), <1>2, <3>1, <3>2 DEF PostSource
    <3>3. CASE ~(work[w].t \in held /\ work[w].op # "initialize")
      <4>1. UNCHANGED <<requested, answers, held>>
          BY ZenonT(30), <3>1, <3>3 DEF PostSource
      <4> QED BY ZenonT(30), <1>1, <4>1
    <3> QED BY ZenonT(30), <3>2, <3>3
  <2> QED BY ZenonT(30), <1>1, <1>4, <2>1, <2>2 DEF WorkerStep
<1>5. ASSUME NEW s \in Sources, CancelSource(s) PROVE Counted'
  <2>1. CASE s \in held
      BY ZenonT(30), <1>2, <1>5, <2>1 DEF CancelSource
  <2>2. CASE s \notin held
    <3>1. UNCHANGED <<requested, answers, held>>
        BY ZenonT(30), <1>5, <2>2 DEF CancelSource
    <3> QED BY ZenonT(30), <1>1, <3>1
  <2> QED BY ZenonT(30), <2>1, <2>2
<1>6. ASSUME NEW t \in Transfers, ExecutorStep(t) \/ ConnectionDown(t) PROVE Counted'
    BY ZenonT(30), <1>1, <1>5, <1>6 DEF ExecutorStep, CancelNext, ConnectionDown, CancelTransfer
<1>7. ASSUME NEW t \in Transfers, LoopStep(t) PROVE Counted'
    BY ZenonT(30), <1>1, <1>7 DEF LoopStep, OpenSubmits, OnSourceFunctor
<1>8. ASSUME NEW s \in Sources, Request(s) PROVE Counted'
  <2>1. s \notin held /\ requested' = [requested EXCEPT ![s] = @ + 1]
      BY ZenonT(30), <1>8 DEF Request
  <2>2. CASE CanLaunch(s)
    <3>1. held' = held \cup {s} /\ answers' = answers
        BY ZenonT(30), <1>8, <2>2 DEF Request
    <3> QED BY ZenonT(30), <1>0, <2>1, <3>1, CountsMove
  <2>3. CASE ~CanLaunch(s)
    <3>1. held' = held /\ answers' = [answers EXCEPT ![s] = @ + 1]
        BY ZenonT(30), <1>8, <2>3 DEF Request, Answer
    <3> QED BY ZenonT(30), <1>0, <2>1, <3>1, CountsMove
  <2> QED BY ZenonT(30), <2>2, <2>3
<1>9. ASSUME NEW s \in Sources, Sent(s) PROVE Counted'
    BY ZenonT(30), <1>5, <1>9 DEF Sent
<1> QED BY ZenonT(30), <1>1, <1>3, <1>4, <1>6, <1>7, <1>8, <1>9 DEF Next
=============================================================================
