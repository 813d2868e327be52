----------------------------- MODULE DiskProofs -----------------------------
(***************************************************************************)
(* The theorems about the disk executor and its transfers, for any         *)
(* transfers, workers, body and file sizes and any kMaxReceivers: a        *)
(* cleanup is never refused, a file has one worker at a time, a read is    *)
(* answered exactly once, and an object is published once and whole. Who   *)
(* has the task of a transfer is in DiskTaskProofs. Here, first, what an   *)
(* upload has on the disk before and after each operation, in the queue    *)
(* and with a worker; then what is counted: the registrations and the      *)
(* places in the queue.                                                    *)
(***************************************************************************)
EXTENDS DiskTaskProofs, FiniteSetTheorems

-----------------------------------------------------------------------------
(* Nothing is published, and the blocks taken from the buffer, except owed *)
(* of them, are on the disk.                                               *)
OnDisk(r, owed) == published[r] = 0 /\ written[r] + owed + remaining[r] = size[r]

(* What holds before an operation, and when it has been executed. *)
Before(r, op) ==
    /\ OnDisk(r, IF op = "write" THEN 1 ELSE 0)
    /\ op = "finish" => remaining[r] = 0
After(r, op) == IF op = "finish" THEN published[r] = 1 ELSE OnDisk(r, 0)

(* A receiver that is not cancelled waits for the one operation it         *)
(* submitted, or for that operation's result, or is between two.           *)
QueueOrder ==
    \A i \in 1..Len(poolq) : poolq[i].t \in Receivers \ cancelled => Before(poolq[i].t, poolq[i].op)

JobOrder(w) ==
    work[w].t \in Receivers \ cancelled =>
        /\ work[w].at = "run" => Before(work[w].t, work[w].op)
        /\ work[w].at \in {"settle", "close", "finish"} /\ ~work[w].err => After(work[w].t, work[w].op)

WorkOrder == \A w \in Workers : JobOrder(w)

ResultOrder(r) ==
    /\ loopq[r] # <<>> =>
         /\ Len(loopq[r]) = 1 /\ r \notin busy
         /\ ~loopq[r][1].err => After(r, loopq[r][1].op)
    /\ r \notin paused \cup lterminal => loopq[r] = <<>> /\ r \notin busy /\ OnDisk(r, 0)

LoopOrder == \A r \in Receivers \ cancelled : ResultOrder(r)

(* Reading is not paused before create() returns, and finish() comes with  *)
(* the last block.                                                         *)
Taken ==
    \A r \in Receivers :
        /\ stage[r] \in {"fresh", "attached"} => r \notin paused \cup lterminal
        /\ r \in finishing => remaining[r] = 0
        /\ remaining[r] <= size[r]

PublishInv == QueueOrder /\ WorkOrder /\ LoopOrder /\ Taken /\ PublishedWhole

(* A step that leaves the blocks of a receiver alone. *)
SameBlocks(r) ==
    /\ published'[r] = published[r] /\ written'[r] = written[r]
    /\ remaining'[r] = remaining[r] /\ size'[r] = size[r]

(* A step that leaves the counters of a receiver keeps the order facts about it. *)
LEMMA SameOrder ==
    ASSUME NEW r, NEW op, SameBlocks(r)
    PROVE  /\ Before(r, op) => Before(r, op)'
           /\ After(r, op) => After(r, op)'
           /\ OnDisk(r, 0) => OnDisk(r, 0)'
    BY DEF SameBlocks, Before, After, OnDisk

(* A transfer without a task: nothing queued, no worker before release(). *)
LEMMA NoTaskIdle ==
    ASSUME TaskInv, NEW r, r \notin busy
    PROVE  /\ \A i \in 1..Len(poolq) : poolq[i].t # r
           /\ \A w \in Workers : work[w].t = r => work[w].at \in {"idle", "release"}
<1>1. \A w \in Workers : work[w].at \in {"idle", "run", "settle", "close", "finish", "release"}
    BY DEF TaskInv, DiskTypeOK, PoolType, Job
<1> QED BY <1>1 DEF TaskInv, Owned, QueuedOwned, WorkerOwned

(* A task is posted for a receiver without one, or a cancelled one. *)
LEMMA QueueOrderEnqueue ==
    ASSUME TaskInv, QueueOrder, NEW t \in Transfers, NEW op \in Ops, Enqueue(t, op),
           t \notin busy \/ t \in cancelled, cancelled \subseteq cancelled',
           \A r \in Receivers : r # t => SameBlocks(r),
           t \in Receivers \ cancelled' => Before(t, op)'
    PROVE  QueueOrder'
<1> DEFINE e == [t |-> t, op |-> op]
<1>1. poolq \in Seq(Task) /\ e \in Task /\ e.t = t /\ e.op = op
    BY DEF TaskInv, DiskTypeOK, PoolType, Task
<1>2. poolq' = Append(poolq, e)
    BY DEF Enqueue
<1> HIDE DEF e
<1>3. /\ \A i \in 1..Len(poolq) : poolq'[i] = poolq[i]
      /\ poolq'[Len(poolq) + 1].t = t /\ poolq'[Len(poolq) + 1].op = op
      /\ \A i \in 1..Len(poolq') : i \in 1..Len(poolq) \/ i = Len(poolq) + 1
    BY <1>1, <1>2, AppendElements
<1>4. \A i \in 1..Len(poolq) : poolq[i].t = t => t \in cancelled
    BY ZenonT(30), NoTaskIdle
<1>5. ASSUME NEW i \in 1..Len(poolq), poolq[i].t \in Receivers \ cancelled'
      PROVE  Before(poolq[i].t, poolq[i].op)'
  <2>1. poolq[i].t # t /\ Before(poolq[i].t, poolq[i].op)
      BY ZenonT(30), <1>4, <1>5 DEF QueueOrder
  <2>2. poolq'[i] = poolq[i] /\ SameBlocks(poolq[i].t)
      BY <1>3, <1>5, <2>1
  <2> DEFINE u == poolq[i].t
             o == poolq[i].op
  <2>3. poolq'[i].t = u /\ poolq'[i].op = o
      BY <2>2
  <2>4. Before(u, o) /\ SameBlocks(u)
      BY ZenonT(30), <2>1, <2>2
  <2> QED BY <2>3, <2>4 DEF Before, OnDisk, SameBlocks
<1> QED BY <1>3, <1>5 DEF QueueOrder

(* The blocks change only where a worker executes an operation and where   *)
(* consume() takes one from the buffer.                                    *)
LEMMA BlocksChange ==
    ASSUME TaskInv, [Next]_vars
    PROVE  /\ cancelled \subseteq cancelled'
           /\ \/ \A r \in Receivers : SameBlocks(r)
              \/ \E t \in Transfers : Consume(t)
              \/ \E w \in Workers : WorkerStep(w) /\ \E fails \in BOOLEAN : Execute(w, fails)
<1> USE DEF linkVars, receiverVars, loopVars, objectVars, stateVars
<1> DEFINE Kept == cancelled \subseteq cancelled' /\ \A r \in Receivers : SameBlocks(r)
<1>1. ASSUME UNCHANGED <<remaining, objectVars>>, cancelled \subseteq cancelled' PROVE Kept
    BY ZenonT(30), <1>1 DEF SameBlocks
<1>2. CASE UNCHANGED vars \/ ((Start \/ BeginShutdown) /\ UNCHANGED <<linkVars, receiverVars, sourceVars>>) \/ StopStep
    BY <1>1, <1>2 DEF vars, diskVars, Start, BeginShutdown, StopStep, StopPool, StopDone
<1>3. ASSUME NEW w \in Workers, WorkerStep(w)
      PROVE  Kept \/ (cancelled' = cancelled /\ \E fails \in BOOLEAN : Execute(w, fails))
  <2>1. CASE (Take(w) \/ RunCleanup(w) \/ SettleEnding(w) \/ CloseFile(w) \/ FinishCleanup(w) \/ Release(w))
               /\ UNCHANGED receiverVars
      BY <1>1, <2>1 DEF Take, RunCleanup, SettleEnding, CloseFile, FinishCleanup, Release, NotBusy
  <2>2. ASSUME NEW fails \in BOOLEAN, RunSource(w, fails) PROVE Kept
      BY <1>1, <2>2 DEF RunSource
  <2>3. CASE ExecuteSettles(w) \/ ExecuteFinishes(w) \/ SourceSettles(w) \/ SourceFinishes(w)
      BY <1>1, <2>3 DEF ExecuteSettles, ExecuteFinishes, SourceSettles, SourceFinishes, NotBusy
  <2>4. ASSUME NEW fails \in BOOLEAN, Execute(w, fails) PROVE cancelled' = cancelled
      BY <2>4 DEF Execute
  <2> QED BY <1>3, <2>1, <2>2, <2>3, <2>4 DEF WorkerStep
<1>4. ASSUME NEW t \in Transfers, CancelNext(t) \/ ConnectionDown(t) PROVE Kept
    BY ZenonT(30), <1>1, <1>4 DEF CancelNext, ConnectionDown, CancelTransfer, CancelSource, Cancel
<1>5. ASSUME NEW t \in Transfers, PostCleanup(t) /\ UNCHANGED receiverVars PROVE Kept
    BY ZenonT(30), <1>1, <1>5 DEF PostCleanup
<1>6. ASSUME NEW t \in Transfers, CreateSubmits(t) \/ OpenSubmits(t) \/ Attach(t) PROVE Kept
    BY <1>1, <1>6 DEF CreateSubmits, OpenSubmits, Attach, Submit, Launch, Cancel
<1>7. ASSUME NEW t \in Transfers, OnResult(t) \/ OnSourceFunctor(t) PROVE Kept
  <2>1. UNCHANGED <<remaining, objectVars>>
      BY ZenonT(30), <1>7 DEF OnResult, OnSourceFunctor
  <2>2. cancelled \subseteq cancelled'
      BY <1>7 DEF OnResult, OnSourceFunctor, Completed, ReportError, Submit, Launch, Cancel
  <2> QED BY ZenonT(30), <1>1, <2>1, <2>2
<1>8. ASSUME NEW t \in Transfers, Consume(t) PROVE cancelled \subseteq cancelled'
    BY <1>8 DEF Consume, Submit, Launch, Cancel
<1>9. ASSUME NEW s \in Sources, Request(s) \/ Sent(s) PROVE Kept
    BY ZenonT(30), <1>1, <1>9 DEF Request, Sent, CancelSource, Launch, Cancel
<1> QED BY ZenonT(30), <1>2, <1>3, <1>4, <1>5, <1>6, <1>7, <1>8, <1>9 DEF Next, ExecutorStep, LoopStep

(* What execute() does to the blocks. *)
ExecuteDoes(w, fails) ==
    LET r == work[w].t IN
    /\ r \in Receivers \cap busy /\ work[w].at = "run" /\ UNCHANGED <<remaining, size>>
    /\ \A u \in Receivers : u # r => SameBlocks(u)
    /\ (fails \/ work[w].op \notin {"write", "finish"} \/ r \in cancelled) => SameBlocks(r)
    /\ ~fails /\ work[w].op = "write" /\ r \notin cancelled =>
          written'[r] = written[r] + 1 /\ published'[r] = published[r]
    /\ ~fails /\ work[w].op = "finish" /\ r \notin cancelled =>
          written'[r] = written[r] /\ published'[r] = published[r] + 1

(* What running a task does to the blocks: a write adds one, a finish publishes, a failure neither. *)
LEMMA ExecuteBlocks ==
    ASSUME TaskInv, NEW w \in Workers, NEW fails \in BOOLEAN, Execute(w, fails)
    PROVE  ExecuteDoes(w, fails)
<1>1. written \in [Receivers -> Nat] /\ published \in [Receivers -> Nat]
    BY DEF TaskInv, DiskTypeOK, LoopType
<1>2. work[w].t \in Receivers \cap busy /\ work[w].at = "run" /\ UNCHANGED <<remaining, size>>
    BY DEF Execute, TaskInv, Owned, WorkerOwned, loopVars
<1>3. /\ written' = IF work[w].t \notin cancelled /\ ~fails /\ work[w].op = "write"
                       THEN [written EXCEPT ![work[w].t] = @ + 1] ELSE written
      /\ published' = IF work[w].t \notin cancelled /\ ~fails /\ work[w].op = "finish"
                         THEN [published EXCEPT ![work[w].t] = @ + 1] ELSE published
    BY DEF Execute
<1> QED BY <1>1, <1>2, <1>3 DEF SameBlocks, ExecuteDoes

(* Queued operations have their turn. *)
LEMMA QueueOrderStep ==
    ASSUME TaskInv, PublishInv, [Next]_vars
    PROVE  QueueOrder'
<1> USE DEF executorVars, poolVars
<1>0. QueueOrder /\ poolq \in Seq(Task) /\ Receivers \cap Sources = {} /\ cancelled \subseteq cancelled'
    BY ZenonT(30), TransfersAssumption, BlocksChange DEF PublishInv, TaskInv, DiskTypeOK, PoolType
<1>1. ASSUME poolq' = poolq, \A r \in Receivers : r \in busy \ cancelled' => SameBlocks(r) \/ \A i \in 1..Len(poolq) : poolq[i].t # r
      PROVE  QueueOrder'
  <2> SUFFICES ASSUME NEW i, i \in 1..Len(poolq'), poolq'[i].t \in Receivers \ cancelled'
               PROVE  Before(poolq[i].t, poolq[i].op)'
      BY DEF QueueOrder
  <2> DEFINE u == poolq[i].t
             o == poolq[i].op
  <2>1. i \in 1..Len(poolq) /\ poolq'[i].t = u /\ poolq'[i].op = o
      BY <1>1
  <2>2. u \in Receivers /\ u \in busy \ cancelled' /\ Before(u, o)
      BY <1>0, <2>1 DEF QueueOrder, TaskInv, Owned, QueuedOwned
  <2>3. SameBlocks(u)
      BY <1>1, <2>1, <2>2
  <2> HIDE DEF u, o
  <2> QED BY <2>1, <2>2, <2>3 DEF Before, OnDisk, SameBlocks
<1>2. CASE poolq' = poolq
  <2>1. CASE \A r \in Receivers : SameBlocks(r)
      BY <1>1, <1>2, <2>1
  <2>2. ASSUME NEW w \in Workers, NEW fails \in BOOLEAN, Execute(w, fails) PROVE QueueOrder'
    <3>1. \A r \in Receivers : r # work[w].t => SameBlocks(r)
        BY ZenonT(30), <2>2, ExecuteBlocks DEF ExecuteDoes
    <3>2. \A i \in 1..Len(poolq) : poolq[i].t # work[w].t
        BY ZenonT(30), <2>2, ExecuteBlocks DEF ExecuteDoes, TaskInv, Owned, WorkerOwned
    <3> QED BY ZenonT(30), <1>1, <1>2, <3>1, <3>2
  <2>3. ASSUME NEW t \in Transfers, Consume(t) PROVE QueueOrder'
    <3>1. \A r \in Receivers : r \in busy => SameBlocks(r)
        BY ZenonT(30), <2>3 DEF Consume, CanLaunch, SameBlocks, objectVars, TaskInv, DiskTypeOK, LoopType
    <3> QED BY <1>1, <1>2, <3>1
  <2> QED BY <2>1, <2>2, <2>3, BlocksChange
<1>3. ASSUME NEW w \in Workers, Take(w), UNCHANGED receiverVars PROVE QueueOrder'
  <2> SUFFICES ASSUME NEW i, i \in 1..Len(poolq'), poolq'[i].t \in Receivers \ cancelled'
               PROVE  Before(poolq[i].t, poolq[i].op)'
      BY DEF QueueOrder
  <2> DEFINE u == poolq[i + 1].t
             o == poolq[i + 1].op
  <2>1. poolq' = Tail(poolq) /\ poolq # <<>>
      BY <1>3 DEF Take
  <2>2. i + 1 \in 1..Len(poolq) /\ poolq'[i] = poolq[i + 1]
      BY <1>0, <2>1, TailElements
  <2>3. u \in Receivers /\ Before(u, o) /\ poolq'[i].t = u /\ poolq'[i].op = o
      BY <1>0, <2>2 DEF QueueOrder
  <2>4. SameBlocks(u)
      BY <1>3 DEF SameBlocks, receiverVars, loopVars, objectVars
  <2> HIDE DEF u, o
  <2> QED BY <2>3, <2>4 DEF Before, OnDisk, SameBlocks
<1>4. ASSUME NEW t \in Transfers, PostCleanup(t), UNCHANGED receiverVars PROVE QueueOrder'
  <2>1. t \in cancelled /\ "cleanup" \in Ops
      BY ZenonT(30), <1>4 DEF PostCleanup, TaskInv, Owned, Ops
  <2>2. \A r \in Receivers : SameBlocks(r)
      BY <1>4 DEF SameBlocks, receiverVars, loopVars, objectVars
  <2>3. CASE Enqueue(t, "cleanup")
      BY <1>0, <2>1, <2>2, <2>3, QueueOrderEnqueue
  <2> QED BY ZenonT(30), <1>2, <1>4, <2>3 DEF PostCleanup
<1>5. ASSUME NEW t \in Transfers, NEW op \in {"initialize", "write", "finish", "read"}, CanLaunch(t), Launch(t, op),
             \A r \in Receivers : r # t => SameBlocks(r), t \in Receivers => Before(t, op)'
      PROVE  QueueOrder'
    BY <1>0, <1>5, QueueOrderEnqueue DEF Launch, CanLaunch, Ops
<1>6. ASSUME NEW t \in Transfers, CreateSubmits(t), CanLaunch(t) PROVE QueueOrder'
  <2>1. \A r \in Receivers : SameBlocks(r)
      BY ZenonT(30), <1>6 DEF CreateSubmits, SameBlocks, objectVars
  <2>2. t \in Receivers \ cancelled /\ t \notin paused \cup lterminal
      BY ZenonT(30), <1>6 DEF CreateSubmits, CanLaunch, PublishInv, Taken
  <2>3. OnDisk(t, 0)
      BY <2>2 DEF PublishInv, LoopOrder, ResultOrder
  <2>4. Before(t, "initialize")'
      BY <2>1, <2>2, <2>3 DEF Before, OnDisk, SameBlocks
  <2> QED BY ZenonT(30), <1>5, <1>6, <2>1, <2>4 DEF CreateSubmits, Submit
<1>7. ASSUME NEW s \in Sources, OpenSubmits(s), CanLaunch(s) PROVE QueueOrder'
  <2>1. (\A r \in Receivers : SameBlocks(r)) /\ s \notin Receivers /\ s \in Transfers
      BY ZenonT(30), <1>0, <1>7 DEF OpenSubmits, SameBlocks, receiverVars, loopVars, objectVars, Transfers
  <2> QED BY <1>5, <1>7, <2>1 DEF OpenSubmits
<1>8. ASSUME NEW s \in Sources, Request(s), CanLaunch(s) PROVE QueueOrder'
  <2>1. (\A r \in Receivers : SameBlocks(r)) /\ s \notin Receivers /\ s \in Transfers
      BY <1>0, <1>8 DEF Request, SameBlocks, receiverVars, loopVars, objectVars, Transfers
  <2> QED BY ZenonT(30), <1>5, <1>8, <2>1 DEF Request
<1>9. ASSUME NEW t \in Transfers, OnResult(t), CanLaunch(t), Launch(t, "finish"),
             t \in finishing \/ size[t] = 0, ~Head(loopq[t]).err, Head(loopq[t]).op # "finish"
      PROVE  QueueOrder'
  <2>1. \A r \in Receivers : SameBlocks(r)
      BY ZenonT(30), <1>9 DEF OnResult, SameBlocks, objectVars
  <2>2. t \in Receivers \ cancelled /\ loopq[t] # <<>> /\ Head(loopq[t]) = loopq[t][1]
    <3>1. loopq[t] \in Seq(Result)
        BY ZenonT(30) DEF TaskInv, DiskTypeOK, StateType
    <3> QED BY <1>9, <3>1 DEF OnResult, CanLaunch
  <2>3. OnDisk(t, 0)
      BY ZenonT(30), <1>9, <2>2 DEF PublishInv, LoopOrder, ResultOrder, After
  <2>4. remaining[t] = 0
      BY SMTT(30), <1>9, <2>2 DEF PublishInv, Taken, TaskInv, DiskTypeOK, LoopType
  <2>5. Before(t, "finish")'
      BY <2>1, <2>2, <2>3, <2>4 DEF Before, OnDisk, SameBlocks
  <2> QED BY ZenonT(30), <1>5, <1>9, <2>1, <2>5
<1>10. ASSUME NEW t \in Transfers, Consume(t), CanLaunch(t) PROVE QueueOrder'
  <2>1. /\ t \in Receivers \ cancelled /\ t \notin paused \cup lterminal /\ remaining[t] > 0
        /\ Launch(t, "write") /\ remaining' = [remaining EXCEPT ![t] = @ - 1] /\ UNCHANGED objectVars
      BY ZenonT(30), <1>10 DEF Consume, Ready, CanLaunch, Submit
  <2>2. OnDisk(t, 0)
      BY <2>1 DEF PublishInv, LoopOrder, ResultOrder
  <2>3. /\ remaining \in [Receivers -> Nat] /\ written \in [Receivers -> Nat] /\ size \in [Receivers -> Nat]
      BY DEF TaskInv, DiskTypeOK, LoopType
  <2>4. \A r \in Receivers : r # t => SameBlocks(r)
      BY <2>1, <2>3 DEF SameBlocks, objectVars
  <2>5. Before(t, "write")'
      BY <2>1, <2>2, <2>3 DEF Before, OnDisk, objectVars
  <2> QED BY ZenonT(30), <1>5, <1>10, <2>1, <2>4, <2>5
<1>11. ASSUME NEW w \in Workers, WorkerStep(w) PROVE poolq' = poolq \/ (Take(w) /\ UNCHANGED receiverVars)
    BY ZenonT(30), <1>11 DEF WorkerStep, RunCleanup, SettleEnding, CloseFile, FinishCleanup, Release, Execute, ExecuteSettles,
        ExecuteFinishes, RunSource, SourceSettles, SourceFinishes
<1>12. ASSUME NEW t \in Transfers, OnResult(t)
       PROVE  \/ poolq' = poolq
              \/ /\ CanLaunch(t) /\ Launch(t, "finish") /\ (t \in finishing \/ size[t] = 0)
                 /\ ~Head(loopq[t]).err /\ Head(loopq[t]).op # "finish"
    BY ZenonT(30), <1>12 DEF OnResult, Completed, ReportError, Submit
<1>13. ASSUME NEW t \in Transfers, ExecutorStep(t) \/ LoopStep(t) \/ ConnectionDown(t) \/ Attach(t) \/ Consume(t)
       PROVE  QueueOrder'
  <2>1. CASE CancelNext(t) \/ ConnectionDown(t) \/ OnSourceFunctor(t) \/ Attach(t)
      BY <1>2, <2>1 DEF CancelNext, ConnectionDown, OnSourceFunctor, Attach
  <2>2. CASE CreateSubmits(t)
      BY <1>2, <1>6, <2>2 DEF CreateSubmits
  <2>3. CASE OpenSubmits(t)
      BY ZenonT(30), <1>2, <1>7, <2>3 DEF OpenSubmits
  <2>4. CASE Consume(t)
      BY <1>2, <1>10, <2>4 DEF Consume
  <2>5. CASE OnResult(t)
      BY <1>2, <1>9, <1>12, <2>5
  <2> QED BY ZenonT(30), <1>4, <1>13, <2>1, <2>2, <2>3, <2>4, <2>5 DEF ExecutorStep, LoopStep
<1>14. ASSUME NEW s \in Sources, Request(s) \/ Sent(s) PROVE QueueOrder'
    BY ZenonT(30), <1>2, <1>8, <1>14 DEF Request, Sent
<1>15. CASE UNCHANGED vars \/ Start \/ BeginShutdown \/ StopStep
    BY ZenonT(30), <1>2, <1>15 DEF vars, diskVars, Start, BeginShutdown, StopStep, StopPool, StopDone
<1> QED BY ZenonT(30), <1>2, <1>3, <1>11, <1>13, <1>14, <1>15 DEF Next

(* A worker before release() whose record, and whose blocks, stay or move  *)
(* on past execute().                                                      *)
LEMMA JobOrderKept ==
    ASSUME NEW w \in Workers, JobOrder(w), cancelled \subseteq cancelled',
           work'[w].t = work[w].t /\ work'[w].op = work[w].op /\ work'[w].err = work[w].err,
           \/ work'[w].at = work[w].at
           \/ work[w].at \in {"settle", "close", "finish"} /\ work'[w].at \in {"close", "finish", "release"}
           \/ work[w].at = "run" /\ work[w].op = "cleanup" /\ work'[w].at = "close",
           work[w].t \in Receivers /\ work[w].at \in {"run", "settle", "close", "finish"} => SameBlocks(work[w].t)
    PROVE  JobOrder(w)'
<1> SUFFICES ASSUME NEW u \in Receivers \ cancelled', NEW o, u = work[w].t, o = work[w].op,
                    work'[w].at \in {"run", "settle", "close", "finish"}
             PROVE  /\ work'[w].at = "run" => Before(u, o)'
                    /\ work'[w].at \in {"settle", "close", "finish"} /\ ~work'[w].err => After(u, o)'
    BY ZenonT(30) DEF JobOrder, Before, After, OnDisk
<1>1. u \in Receivers \ cancelled /\ SameBlocks(u)
    BY ZenonT(30)
<1>2. /\ work[w].at = "run" => Before(u, o)
      /\ work[w].at \in {"settle", "close", "finish"} /\ ~work[w].err => After(u, o)
    BY ZenonT(30), <1>1 DEF JobOrder
<1>3. Before(u, "cleanup") => After(u, "cleanup")
    BY ZenonT(30) DEF Before, After
<1>4. (Before(u, o) => Before(u, o)') /\ (After(u, o) => After(u, o)')
    BY ZenonT(30), <1>1, SameOrder
<1> QED BY ZenonT(30), <1>2, <1>3, <1>4

(* The operation a worker takes from the queue has its turn, and what is   *)
(* on the disk after it follows from what was there before.                *)
LEMMA TakeOrder ==
    ASSUME TaskInv, QueueOrder, NEW w \in Workers, Take(w), UNCHANGED receiverVars
    PROVE  JobOrder(w)'
<1>1. poolq \in Seq(Task) /\ poolq # <<>> /\ work \in [Workers -> Job] /\ cancelled' = cancelled
    BY ZenonT(30) DEF TaskInv, DiskTypeOK, PoolType, Take, stateVars
<1> DEFINE job == [t |-> Head(poolq).t, op |-> Head(poolq).op, at |-> "run", err |-> FALSE]
<1>2. work' = [work EXCEPT ![w] = job] /\ job.t = Head(poolq).t /\ job.op = Head(poolq).op /\ job.at = "run"
    BY ZenonT(30) DEF Take
<1> HIDE DEF job
<1>3. Head(poolq) = poolq[1] /\ 1 \in 1..Len(poolq)
    BY ZenonT(30), <1>1, TailElements
<1>4. work'[w].t = poolq[1].t /\ work'[w].op = poolq[1].op /\ work'[w].at = "run"
    BY ZenonT(30), <1>1, <1>2, <1>3
<1> SUFFICES ASSUME NEW u \in Receivers \ cancelled, NEW o, u = poolq[1].t, o = poolq[1].op
             PROVE  Before(u, o)'
    BY ZenonT(30), <1>1, <1>4 DEF JobOrder, Before, OnDisk
<1>5. Before(u, o)
    BY <1>3 DEF QueueOrder
<1> QED BY <1>5 DEF Before, OnDisk, receiverVars, loopVars, objectVars

(* Running a task moves the worker from the order fact before it to the one after it. *)
LEMMA ExecuteOrder ==
    ASSUME TaskInv, WorkOrder, NEW w \in Workers, NEW fails \in BOOLEAN, Execute(w, fails)
    PROVE  JobOrder(w)'
<1>1. /\ work'[w].t = work[w].t /\ work'[w].op = work[w].op /\ work'[w].at = "settle" /\ work'[w].err = fails
      /\ cancelled' = cancelled
  <2>1. PoolType /\ work[w].at # "idle" /\ work' = [work EXCEPT ![w].at = "settle", ![w].err = fails] /\ cancelled' = cancelled
      BY ZenonT(30) DEF TaskInv, DiskTypeOK, Execute, stateVars
  <2> QED BY ZenonT(30), <2>1, JobMoves
<1> SUFFICES ASSUME NEW u \in Receivers \ cancelled, NEW o, u = work[w].t, o = work[w].op, ~fails
             PROVE  After(u, o)'
    BY ZenonT(30), <1>1 DEF JobOrder, After, OnDisk
<1>2. Before(u, o)
    BY DEF WorkOrder, JobOrder, Execute
<1>3. /\ written \in [Receivers -> Nat] /\ published \in [Receivers -> Nat]
      /\ remaining \in [Receivers -> Nat] /\ size \in [Receivers -> Nat]
    BY ZenonT(30) DEF TaskInv, DiskTypeOK, LoopType
<1>4. UNCHANGED <<remaining, size>>
    BY ZenonT(30), ExecuteBlocks DEF ExecuteDoes
<1>5. CASE o = "write"
  <2>1. written'[u] = written[u] + 1 /\ published'[u] = published[u]
      BY ZenonT(30), <1>5, ExecuteBlocks DEF ExecuteDoes
  <2> QED BY <1>2, <1>3, <1>4, <1>5, <2>1 DEF Before, After, OnDisk
<1>6. CASE o = "finish"
  <2>1. published'[u] = published[u] + 1
      BY ZenonT(30), <1>6, ExecuteBlocks DEF ExecuteDoes
  <2> QED BY <1>2, <1>3, <1>6, <2>1 DEF Before, After, OnDisk
<1>7. CASE o \notin {"write", "finish"}
  <2>1. SameBlocks(u)
      BY <1>7, ExecuteBlocks DEF ExecuteDoes
  <2> QED BY ZenonT(30), <1>2, <1>7, <2>1 DEF Before, After, OnDisk, SameBlocks
<1> QED BY <1>5, <1>6, <1>7

(* An operation with a worker has its turn, and leaves on the disk what it *)
(* says.                                                                   *)
LEMMA WorkOrderStep ==
    ASSUME TaskInv, PublishInv, [Next]_vars
    PROVE  WorkOrder'
<1> USE DEF executorVars, poolVars
<1>0. WorkOrder /\ QueueOrder /\ PoolType /\ cancelled \subseteq cancelled'
    BY ZenonT(30), BlocksChange DEF PublishInv, TaskInv, DiskTypeOK
<1>1. ASSUME NEW v \in Workers, work'[v] = work[v],
             work[v].t \in Receivers /\ work[v].at \in {"run", "settle", "close", "finish"} => SameBlocks(work[v].t)
      PROVE  JobOrder(v)'
    BY ZenonT(30), <1>0, <1>1, JobOrderKept DEF WorkOrder
<1>2. ASSUME NEW t \in Transfers, Consume(t), NEW v \in Workers, work[v].t \in Receivers,
             work[v].at \in {"run", "settle", "close", "finish"}
      PROVE  SameBlocks(work[v].t)
  <2>1. work[v].t \in busy
      BY ZenonT(30), <1>2, NoTaskIdle
  <2> QED BY ZenonT(30), <1>2, <2>1 DEF Consume, CanLaunch, SameBlocks, objectVars, TaskInv, DiskTypeOK, LoopType
<1>3. ASSUME NEW w \in Workers, NEW fails \in BOOLEAN, Execute(w, fails), NEW v \in Workers, v # w,
             work[v].t \in Receivers, work[v].at \in {"run", "settle", "close", "finish"}
      PROVE  SameBlocks(work[v].t)
  <2>1. ExecuteDoes(w, fails)
      BY ZenonT(30), <1>3, ExecuteBlocks
  <2>2. work[v].t # work[w].t
      BY ZenonT(30), <1>3, <2>1 DEF ExecuteDoes, TaskInv, Owned, WorkerOwned
  <2> QED BY ZenonT(30), <1>3, <2>1, <2>2 DEF ExecuteDoes
<1>4. ASSUME NEW w \in Workers, WorkerStep(w) PROVE WorkOrder'
  <2>1. ASSUME NEW l \in {"close", "finish", "release"}, work' = [work EXCEPT ![w].at = l],
               \/ work[w].at \in {"settle", "close", "finish"}
               \/ work[w].at = "run" /\ work[w].op = "cleanup" /\ l = "close"
        PROVE  /\ \A v \in Workers \ {w} : work'[v] = work[v]
               /\ (work[w].t \in Receivers => SameBlocks(work[w].t)) => JobOrder(w)'
    <3>1. /\ work'[w].t = work[w].t /\ work'[w].op = work[w].op /\ work'[w].at = l
          /\ work'[w].err = work[w].err /\ \A v \in Workers : v # w => work'[v] = work[v]
        BY ZenonT(30), <1>0, <2>1, JobMoves
    <3> QED BY <1>0, <2>1, <3>1, JobOrderKept DEF WorkOrder
  <2>2. ASSUME work' = [work EXCEPT ![w] = IdleWorker]
        PROVE  (\A v \in Workers \ {w} : work'[v] = work[v]) /\ JobOrder(w)'
    <3>1. work'[w].at = "idle" /\ \A v \in Workers : v # w => work'[v] = work[v]
        BY ZenonT(30), <1>0, <2>2, JobEnds
    <3> QED BY <3>1 DEF JobOrder
  <2>3. ASSUME NEW fails \in BOOLEAN, Execute(w, fails) PROVE WorkOrder'
    <3>1. \A v \in Workers : v # w => work'[v] = work[v]
        BY ZenonT(30), <1>0, <2>3 DEF Execute, PoolType
    <3> QED BY ZenonT(30), <1>0, <1>1, <1>3, <2>3, <3>1, ExecuteOrder DEF WorkOrder
  <2>4. ASSUME NEW fails \in BOOLEAN, RunSource(w, fails)
        PROVE  (\A v \in Workers \ {w} : work'[v] = work[v]) /\ JobOrder(w)'
    <3>1. work' = [work EXCEPT ![w].at = "settle", ![w].err = fails] /\ work[w].at # "idle" /\ work[w].t \in Sources
        BY <2>4 DEF RunSource
    <3>2. work'[w].t \in Sources /\ \A v \in Workers : v # w => work'[v] = work[v]
        BY ZenonT(30), <1>0, <3>1, JobMoves
    <3> QED BY <3>2, TransfersAssumption DEF JobOrder
  <2>5. ASSUME ~ \E fails \in BOOLEAN : Execute(w, fails) PROVE \A r \in Receivers : SameBlocks(r)
    <3>1. UNCHANGED receiverVars
        BY ZenonT(30), <1>4, <2>5 DEF WorkerStep, ExecuteSettles, ExecuteFinishes, RunSource, SourceSettles, SourceFinishes
    <3> QED BY <3>1 DEF SameBlocks, receiverVars, loopVars, objectVars
  <2>6. ASSUME \A r \in Receivers : SameBlocks(r), \A v \in Workers \ {w} : work'[v] = work[v],
               (work[w].t \in Receivers => SameBlocks(work[w].t)) => JobOrder(w)'
        PROVE  WorkOrder'
      BY <1>1, <2>6 DEF WorkOrder
  <2>7. CASE Take(w) /\ UNCHANGED receiverVars
    <3>1. \A v \in Workers : v # w => work'[v] = work[v]
        BY <1>0, <2>7 DEF Take, PoolType
    <3>2. \A r \in Receivers : SameBlocks(r)
        BY <2>7 DEF SameBlocks, receiverVars, loopVars, objectVars
    <3> QED BY ZenonT(30), <1>0, <2>6, <2>7, <3>1, <3>2, TakeOrder
  <2>8. CASE RunCleanup(w) \/ SettleEnding(w) \/ CloseFile(w) \/ FinishCleanup(w) \/ ExecuteFinishes(w) \/ SourceFinishes(w)
    <3>1. /\ \/ work' = [work EXCEPT ![w].at = "close"]
             \/ work' = [work EXCEPT ![w].at = "finish"]
             \/ work' = [work EXCEPT ![w].at = "release"]
          /\ \/ work[w].at \in {"settle", "close", "finish"}
             \/ work[w].at = "run" /\ work[w].op = "cleanup" /\ work' = [work EXCEPT ![w].at = "close"]
        BY <2>8 DEF RunCleanup, SettleEnding, CloseFile, FinishCleanup, ExecuteFinishes, SourceFinishes
    <3>2. ~ \E fails \in BOOLEAN : Execute(w, fails)
      <4>1. work[w].at # "run" \/ work[w].op = "cleanup"
          BY <3>1
      <4> QED BY <4>1 DEF Execute
    <3> QED BY ZenonT(30), <2>1, <2>5, <2>6, <3>1, <3>2
  <2>9. CASE Release(w) \/ ExecuteSettles(w) \/ SourceSettles(w)
    <3>1. work' = [work EXCEPT ![w] = IdleWorker] /\ work[w].at # "run"
        BY <2>9 DEF Release, ExecuteSettles, SourceSettles
    <3>2. ~ \E fails \in BOOLEAN : Execute(w, fails)
        BY ZenonT(30), <3>1 DEF Execute
    <3> QED BY ZenonT(30), <2>2, <2>5, <2>6, <3>1, <3>2
  <2>10. ASSUME NEW fails \in BOOLEAN, RunSource(w, fails) PROVE WorkOrder'
    <3>1. \A r \in Receivers : SameBlocks(r)
        BY ZenonT(30), <2>10 DEF RunSource, SameBlocks, receiverVars, loopVars, objectVars
    <3> QED BY ZenonT(30), <2>4, <2>6, <2>10, <3>1
  <2> QED BY <1>4, <2>3, <2>7, <2>8, <2>9, <2>10 DEF WorkerStep
<1>5. ASSUME ~ \E w \in Workers : WorkerStep(w) PROVE WorkOrder'
  <2>1. (\A r \in Receivers : SameBlocks(r)) \/ \E t \in Transfers : Consume(t)
      BY <1>5, BlocksChange
  <2>2. work' = work
      BY ZenonT(60), <1>5 DEF Next, vars, diskVars, StopStep, StopPool, StopDone, Start, BeginShutdown, ExecutorStep, LoopStep,
          CancelNext, PostCleanup, ConnectionDown, CreateSubmits, OnResult, OpenSubmits, OnSourceFunctor, Attach, Consume, Request, Sent
  <2> QED BY <1>1, <1>2, <2>1, <2>2 DEF WorkOrder
<1> QED BY <1>4, <1>5

-----------------------------------------------------------------------------
(* A step that leaves a receiver's results, and the reasons not to read,   *)
(* alone; only the receiver's own steps, and the worker that posts its     *)
(* result, are others.                                                     *)
Untouched(r) ==
    /\ loopq'[r] = loopq[r] /\ (r \in busy' => r \in busy)
    /\ r \in paused \cup lterminal => r \in paused' \cup lterminal'

Posts(w, r) == work[w].t = r /\ (ExecuteSettles(w) \/ ExecuteFinishes(w))

(* A worker leaves a receiver alone, or posts the result of a task of that receiver. *)
LEMMA WorkersTouch ==
    ASSUME TaskInv, NEW w \in Workers, WorkerStep(w), NEW r \in Receivers
    PROVE  Untouched(r) \/ Posts(w, r)
<1> USE DEF stateVars, receiverVars, loopVars
<1>0. loopq \in [Transfers -> Seq(Result)] /\ r \notin Sources
    BY TransfersAssumption DEF TaskInv, DiskTypeOK, StateType
<1>1. CASE (Take(w) \/ RunCleanup(w) \/ SettleEnding(w) \/ CloseFile(w) \/ FinishCleanup(w) \/ Release(w))
            /\ UNCHANGED receiverVars
    BY <1>1 DEF Take, RunCleanup, SettleEnding, CloseFile, FinishCleanup, Release, NotBusy, Untouched
<1>2. ASSUME NEW fails \in BOOLEAN, Execute(w, fails) \/ RunSource(w, fails) PROVE Untouched(r)
    BY <1>2 DEF Execute, RunSource, Untouched
<1>3. CASE (ExecuteSettles(w) \/ ExecuteFinishes(w)) /\ work[w].t # r
  <2>1. NotBusy(work[w].t) /\ PostResult(work[w]) /\ UNCHANGED receiverVars
      BY <1>3 DEF ExecuteSettles, ExecuteFinishes
  <2>2. loopq'[r] = loopq[r]
      BY <1>0, <1>3, <2>1 DEF PostResult, Transfers
  <2> QED BY <2>1, <2>2 DEF Untouched, NotBusy
<1>4. CASE SourceSettles(w) \/ SourceFinishes(w)
  <2>1. NotBusy(work[w].t) /\ PostSource(work[w]) /\ UNCHANGED receiverVars /\ work[w].t # r
      BY ZenonT(30), <1>0, <1>4 DEF SourceSettles, SourceFinishes
  <2>2. loopq'[r] = loopq[r]
      BY <1>0, <2>1 DEF PostSource, PostResult, Answer, Transfers
  <2> QED BY <2>1, <2>2 DEF Untouched, NotBusy
<1> QED BY <1>1, <1>2, <1>3, <1>4 DEF WorkerStep, Posts

(* What a step can do to a receiver: nothing, cancel it, submit for it, take its result, or post one. *)
LEMMA OthersTouch ==
    ASSUME TaskInv, [Next]_vars, NEW r \in Receivers
    PROVE  \/ Untouched(r) \/ r \in cancelled'
           \/ ((CreateSubmits(r) \/ Consume(r)) /\ CanLaunch(r)) \/ OnResult(r)
           \/ \E w \in Workers : WorkerStep(w) /\ Posts(w, r)
<1> USE DEF stateVars, receiverVars, loopVars, linkVars
<1>0. loopq \in [Transfers -> Seq(Result)] /\ r \notin Sources
    BY TransfersAssumption DEF TaskInv, DiskTypeOK, StateType
<1>1. CASE UNCHANGED vars \/ ((Start \/ BeginShutdown) /\ UNCHANGED <<linkVars, receiverVars, sourceVars>>) \/ StopStep
    BY <1>1 DEF vars, diskVars, Start, BeginShutdown, StopStep, StopPool, StopDone, Untouched
<1>2. ASSUME NEW t \in Transfers, Cancel(t) PROVE (r \in busy' => r \in busy) \/ r \in cancelled'
    BY <1>2 DEF Cancel
<1>3. ASSUME NEW s \in Sources, NEW err, Answer(s, err) PROVE loopq'[r] = loopq[r]
    BY <1>0, <1>3 DEF Answer, Transfers
<1>4. ASSUME NEW t \in Transfers, CancelNext(t) \/ ConnectionDown(t) PROVE Untouched(r) \/ r \in cancelled'
  <2>1. CancelTransfer(t) /\ UNCHANGED receiverVars
      BY <1>4 DEF CancelNext, ConnectionDown
  <2>2. Cancel(t) /\ loopq'[r] = loopq[r]
      BY ZenonT(30), <1>3, <2>1 DEF CancelTransfer, CancelSource
  <2> QED BY <1>2, <2>1, <2>2 DEF Untouched
<1>5. ASSUME NEW t \in Transfers, PostCleanup(t), UNCHANGED receiverVars PROVE Untouched(r)
    BY <1>5 DEF PostCleanup, Untouched
<1>6. ASSUME NEW t \in Transfers, CreateSubmits(t) PROVE Untouched(r) \/ r \in cancelled' \/ (t = r /\ CanLaunch(r))
    BY <1>6 DEF CreateSubmits, Submit, Launch, Cancel, Untouched
<1>7. ASSUME NEW t \in Sources, OpenSubmits(t) PROVE Untouched(r)
    BY <1>0, <1>7 DEF OpenSubmits, Launch, Cancel, Untouched
<1>8. ASSUME NEW t \in Transfers, OnResult(t), t # r PROVE Untouched(r)
  <2>1. loopq'[r] = loopq[r]
      BY ZenonT(30), <1>0, <1>8 DEF OnResult, Transfers
  <2>2. r \in busy' => r \in busy
      BY ZenonT(30), <1>8 DEF OnResult, Completed, ReportError, Submit, Launch, Cancel
  <2>3. r \in paused \cup lterminal => r \in paused' \cup lterminal'
      BY ZenonT(30), <1>8 DEF OnResult, Completed, ReportError, Submit
  <2> QED BY <2>1, <2>2, <2>3 DEF Untouched
<1>9. ASSUME NEW t \in Sources, OnSourceFunctor(t) PROVE Untouched(r)
  <2>1. loopq'[r] = loopq[r]
      BY <1>0, <1>9 DEF OnSourceFunctor, Transfers
  <2>2. r \in busy' => r \in busy
      BY <1>0, <1>9 DEF OnSourceFunctor, Cancel
  <2> QED BY <1>9, <2>1, <2>2 DEF OnSourceFunctor, Untouched
<1>10. ASSUME NEW t \in Transfers, Attach(t) PROVE Untouched(r)
    BY <1>10 DEF Attach, Untouched
<1>11. ASSUME NEW t \in Transfers, Consume(t) PROVE Untouched(r) \/ r \in cancelled' \/ (t = r /\ CanLaunch(r))
    BY <1>11 DEF Consume, Submit, Launch, Cancel, Untouched
<1>12. ASSUME NEW s \in Sources, Request(s) \/ Sent(s) PROVE Untouched(r)
  <2>1. loopq'[r] = loopq[r] /\ UNCHANGED receiverVars
      BY ZenonT(30), <1>3, <1>12 DEF Request, Sent, CancelSource
  <2>2. CASE Request(s) /\ CanLaunch(s)
      BY <1>0, <2>1, <2>2 DEF Request, Launch, Untouched
  <2>3. CASE ~CanLaunch(s) \/ Sent(s)
    <3>1. UNCHANGED stateVars \/ Cancel(s)
        BY ZenonT(30), <1>12, <2>3 DEF Request, Sent, CancelSource
    <3> QED BY <1>0, <2>1, <3>1 DEF Cancel, Untouched
  <2> QED BY <1>12, <2>2, <2>3
<1> QED BY ZenonT(30), <1>1, <1>4, <1>5, <1>6, <1>7, <1>8, <1>9, <1>10, <1>11, <1>12, WorkersTouch DEF Next, ExecutorStep, LoopStep

(* A result says what is on the disk, and the loop reads only when no      *)
(* operation is due.                                                       *)
LEMMA LoopOrderStep ==
    ASSUME TaskInv, PublishInv, [Next]_vars
    PROVE  LoopOrder'
<1> SUFFICES ASSUME NEW r \in Receivers \ cancelled' PROVE ResultOrder(r)'
    BY DEF LoopOrder
<1>0. /\ r \in Receivers \ cancelled /\ ResultOrder(r) /\ r \in Transfers
      /\ loopq \in [Transfers -> Seq(Result)] /\ loopq[r] \in Seq(Result)
    BY BlocksChange DEF PublishInv, LoopOrder, TaskInv, DiskTypeOK, StateType, Transfers
<1>1. ASSUME Untouched(r), SameBlocks(r) PROVE ResultOrder(r)'
  <2> DEFINE o == loopq[r][1].op
  <2>1. loopq'[r] = loopq[r] /\ (r \in busy' => r \in busy) /\ (r \in paused \cup lterminal => r \in paused' \cup lterminal')
      BY <1>1 DEF Untouched
  <2>2. (After(r, o) => IF o = "finish" THEN published'[r] = 1 ELSE OnDisk(r, 0)') /\ (OnDisk(r, 0) => OnDisk(r, 0)')
      BY <1>1 DEF SameBlocks, After, OnDisk
  <2>3. ResultOrder(r)
      BY <1>0
  <2> QED BY <2>1, <2>2, <2>3 DEF ResultOrder, After
<1>2. ASSUME Untouched(r), r \in busy, r \notin busy' => loopq[r] = <<>> PROVE ResultOrder(r)'
    BY <1>0, <1>2 DEF Untouched, ResultOrder
<1>3. CASE Untouched(r)
  <2>1. CASE SameBlocks(r)
      BY <1>1, <1>3, <2>1
  <2>2. ASSUME NEW t \in Transfers, Consume(t) PROVE ResultOrder(r)'
    <3>1. CASE r = t /\ CanLaunch(t)
      <4>1. r \in busy' /\ r \notin busy
          BY <2>2, <3>1 DEF Consume, CanLaunch, Submit, Launch
      <4> QED BY <1>3, <4>1 DEF Untouched
    <3>2. CASE r # t \/ ~CanLaunch(t)
      <4>1. SameBlocks(r)
          BY <2>2, <3>2 DEF Consume, SameBlocks, objectVars, TaskInv, DiskTypeOK, LoopType
      <4> QED BY <1>1, <1>3, <4>1
    <3> QED BY <3>1, <3>2
  <2>3. ASSUME NEW w \in Workers, NEW fails \in BOOLEAN, Execute(w, fails) PROVE ResultOrder(r)'
    <3>1. CASE r = work[w].t
      <4>1. r \in busy /\ busy' = busy
          BY ZenonT(30), <2>3, <3>1, ExecuteBlocks DEF ExecuteDoes, Execute, stateVars
      <4> QED BY <1>2, <1>3, <4>1
    <3>2. CASE r # work[w].t
        BY ZenonT(30), <1>1, <1>3, <2>3, <3>2, ExecuteBlocks DEF ExecuteDoes
    <3> QED BY <3>1, <3>2
  <2> QED BY <2>1, <2>2, <2>3, BlocksChange
<1>4. CASE (CreateSubmits(r) \/ Consume(r)) /\ CanLaunch(r)
  <2>1. loopq' = loopq /\ r \in paused'
      BY <1>4 DEF CreateSubmits, Consume, Submit
  <2>2. loopq[r] = <<>>
    <3>1. CASE CreateSubmits(r)
        BY ZenonT(30), <1>0, <3>1 DEF CreateSubmits, TaskInv, Staged
    <3>2. CASE Consume(r)
        BY <1>0, <3>2 DEF Consume, Ready, ResultOrder
    <3> QED BY ZenonT(30), <1>4, <3>1, <3>2
  <2> QED BY ZenonT(30), <2>1, <2>2 DEF ResultOrder
<1>5. CASE OnResult(r)
  <2>0. loopq' = [loopq EXCEPT ![r] = Tail(@)] /\ loopq[r] # <<>> /\ UNCHANGED <<remaining, objectVars>>
      BY <1>5 DEF OnResult
  <2>1. /\ loopq'[r] = Tail(loopq[r]) /\ loopq[r] # <<>> /\ SameBlocks(r) /\ Head(loopq[r]) = loopq[r][1]
      BY <1>0, <2>0 DEF SameBlocks, objectVars
  <2>2. loopq'[r] = <<>> /\ r \notin busy /\ (~loopq[r][1].err => After(r, loopq[r][1].op))
    <3>1. Len(loopq[r]) = 1 /\ r \notin busy /\ (~loopq[r][1].err => After(r, loopq[r][1].op))
        BY <1>0, <2>1 DEF ResultOrder
    <3>2. Tail(loopq[r]) = <<>>
        BY ZenonT(30), <1>0, <3>1, LastElement
    <3> QED BY <2>1, <3>1, <3>2
  <2>3. CASE r \in paused' \cup lterminal'
      BY ZenonT(30), <2>2, <2>3 DEF ResultOrder
  <2>4. CASE r \notin paused' \cup lterminal'
    <3>1. ~Head(loopq[r]).err /\ Head(loopq[r]).op # "finish" /\ UNCHANGED stateVars
      <4>1. CASE r \in lterminal
          BY ZenonT(30), <1>0, <1>5, <2>4, <4>1 DEF OnResult
      <4>2. CASE r \notin lterminal
        <5>1. ~ReportError(r) /\ ~Cancel(r)
            BY DEF ReportError, Cancel
        <5>2. Completed(r, Head(loopq[r]).op) /\ ~Head(loopq[r]).err
            BY ZenonT(30), <1>0, <1>5, <4>2, <5>1 DEF OnResult
        <5> QED BY ZenonT(30), <2>4, <5>1, <5>2 DEF Completed, Submit
      <4> QED BY ZenonT(30), <4>1, <4>2
    <3>2. OnDisk(r, 0)
        BY ZenonT(30), <2>1, <2>2, <3>1 DEF After
    <3>3. OnDisk(r, 0)' /\ r \notin busy'
        BY ZenonT(30), <2>1, <2>2, <3>1, <3>2 DEF OnDisk, SameBlocks, stateVars
    <3> QED BY <2>2, <3>3 DEF ResultOrder
  <2> QED BY <2>3, <2>4
<1>6. ASSUME NEW w \in Workers, WorkerStep(w), Posts(w, r) PROVE ResultOrder(r)'
  <2> DEFINE o == work[w].op
             e == [op |-> o, err |-> work[w].err]
  <2>1. /\ work[w].t = r /\ work[w].at \in {"settle", "finish"} /\ loopq' = [loopq EXCEPT ![r] = Append(@, e)]
        /\ r \notin busy' /\ UNCHANGED receiverVars
      BY <1>0, <1>6 DEF Posts, ExecuteSettles, ExecuteFinishes, PostResult, NotBusy
  <2>2. r \in busy /\ loopq[r] = <<>> /\ r \in paused \cup lterminal
    <3>1. r \in busy
        BY <2>1, NoTaskIdle
    <3> QED BY ZenonT(30), <1>0, <3>1 DEF ResultOrder
  <2>3. loopq'[r] = <<e>>
      BY SMTT(30), <1>0, <2>1, <2>2
  <2>4. ~work[w].err => After(r, o)
      BY ZenonT(30), <1>0, <2>1 DEF PublishInv, WorkOrder, JobOrder
  <2>5. SameBlocks(r) /\ r \in paused' \cup lterminal'
      BY <2>1, <2>2 DEF receiverVars, loopVars, objectVars, SameBlocks
  <2>6. e.op = o /\ e.err = work[w].err
      OBVIOUS
  <2> HIDE DEF e
  <2>7. Len(loopq'[r]) = 1 /\ loopq'[r][1] = e
      BY SMTT(30), <2>3
  <2> QED BY ZenonT(30), <2>1, <2>4, <2>5, <2>6, <2>7 DEF ResultOrder, After, OnDisk, SameBlocks
<1> QED BY <1>3, <1>4, <1>5, <1>6, OthersTouch

(* Every step keeps Taken: a finish is asked for only when no block of the body remains. *)
LEMMA TakenStep ==
    ASSUME TaskInv, PublishInv, [Next]_vars
    PROVE  Taken'
<1> USE DEF linkVars, receiverVars, loopVars, objectVars
<1>0. /\ Taken /\ remaining \in [Receivers -> Nat] /\ size \in [Receivers -> Nat]
      /\ stage \in [Transfers -> {"fresh", "attached", "live", "gone"}]
      /\ \A r \in Receivers : r \in Transfers /\ r \notin Sources
    BY TransfersAssumption DEF PublishInv, TaskInv, DiskTypeOK, LoopType, Transfers
<1>1. CASE UNCHANGED <<stage, paused, lterminal, finishing, remaining, size>>
    BY <1>0, <1>1 DEF Taken
<1>2. ASSUME NEW t \in Transfers, Attach(t) PROVE Taken'
  <2>1. \A r \in Receivers : stage'[r] \in {"fresh", "attached"} => stage[r] \in {"fresh", "attached"}
      BY <1>0, <1>2 DEF Attach
  <2> QED BY ZenonT(30), <1>0, <1>2, <2>1 DEF Attach, Taken
<1>3. ASSUME NEW t \in Sources, OpenSubmits(t) PROVE Taken'
  <2>1. \A r \in Receivers : stage'[r] = stage[r]
      BY <1>0, <1>3 DEF OpenSubmits
  <2> QED BY ZenonT(30), <1>0, <1>3, <2>1 DEF OpenSubmits, Taken
<1>4. ASSUME NEW t \in Transfers, CreateSubmits(t) PROVE Taken'
  <2>1. stage'[t] \notin {"fresh", "attached"} /\ \A r \in Receivers : r # t => stage'[r] = stage[r]
      BY <1>0, <1>4 DEF CreateSubmits
  <2>2. paused' \subseteq paused \cup {t} /\ UNCHANGED <<lterminal, finishing, remaining, size>>
      BY <1>4 DEF CreateSubmits, Submit
  <2> QED BY <1>0, <2>1, <2>2 DEF Taken
<1>5. ASSUME NEW t \in Transfers, stage[t] = "live", UNCHANGED <<stage, size>>, paused' \subseteq paused \cup {t},
             lterminal' \subseteq lterminal \cup {t},
             \A r \in Receivers : /\ r \in finishing' => remaining'[r] = 0
                                /\ remaining'[r] <= size[r]
      PROVE  Taken'
    BY <1>0, <1>5 DEF Taken
<1>6. ASSUME NEW t \in Transfers, Consume(t) PROVE Taken'
  <2>1. stage[t] = "live" /\ UNCHANGED <<stage, size, lterminal>> /\ paused' \subseteq paused \cup {t}
      BY <1>6 DEF Consume, Ready, Submit
  <2>2. \A r \in Receivers : (r \in finishing' => remaining'[r] = 0) /\ remaining'[r] <= size[r]
    <3>1. CASE CanLaunch(t)
      <4>1. /\ t \in Receivers /\ remaining[t] > 0 /\ remaining' = [remaining EXCEPT ![t] = @ - 1]
            /\ finishing' = IF remaining[t] = 1 THEN finishing \cup {t} ELSE finishing
            /\ t \notin finishing
          BY ZenonT(30), <1>6, <3>1 DEF Consume, Ready
      <4> QED BY SMTT(30), <1>0, <4>1 DEF Taken
    <3>2. CASE ~CanLaunch(t)
        BY ZenonT(30), <1>0, <1>6, <3>2 DEF Consume, Taken
    <3> QED BY <3>1, <3>2
  <2> QED BY ZenonT(30), <1>5, <2>1, <2>2
<1>7. ASSUME NEW t \in Transfers, OnResult(t) PROVE Taken'
  <2>1. stage[t] = "live" /\ t \in Receivers /\ UNCHANGED <<stage, size, remaining>>
      BY ZenonT(30), <1>7 DEF OnResult, TaskInv, Staged
  <2>2. paused' \subseteq paused \cup {t} /\ lterminal' \subseteq lterminal \cup {t}
      BY ZenonT(30), <1>7 DEF OnResult, Completed, ReportError, Submit
  <2>3. finishing' = finishing \/ (finishing' = finishing \cup {t} /\ (t \in finishing \/ size[t] = 0))
      BY ZenonT(30), <1>7 DEF OnResult, Completed
  <2>4. \A r \in Receivers : (r \in finishing' => remaining'[r] = 0) /\ remaining'[r] <= size[r]
      BY <1>0, <2>1, <2>3 DEF Taken
  <2> QED BY ZenonT(30), <1>5, <2>1, <2>2, <2>4
<1>8. ASSUME NEW w \in Workers, WorkerStep(w) PROVE Taken'
    BY ZenonT(30), <1>1, <1>8 DEF WorkerStep, Execute, ExecuteSettles, ExecuteFinishes, RunSource, SourceSettles, SourceFinishes
<1>9. ASSUME NEW t \in Transfers, ExecutorStep(t) \/ ConnectionDown(t) \/ OnSourceFunctor(t) PROVE Taken'
    BY ZenonT(30), <1>1, <1>9 DEF ExecutorStep, CancelNext, ConnectionDown, OnSourceFunctor
<1>10. CASE UNCHANGED vars \/ ((Start \/ BeginShutdown) /\ UNCHANGED <<linkVars, receiverVars, sourceVars>>) \/ StopStep
    BY <1>1, <1>10 DEF vars, StopStep
<1>11. ASSUME NEW s \in Sources, Request(s) \/ Sent(s) PROVE Taken'
    BY ZenonT(30), <1>1, <1>11 DEF Request, Sent
<1> QED BY ZenonT(30), <1>2, <1>3, <1>4, <1>6, <1>7, <1>8, <1>9, <1>10, <1>11 DEF Next, LoopStep

(* done() is called for the result of a finish only. *)
LEMMA OutcomeChange ==
    ASSUME TaskInv, [Next]_vars, NEW r \in Receivers, outcome'[r] = "done", outcome[r] # "done"
    PROVE  OnResult(r) /\ r \notin cancelled /\ ~Head(loopq[r]).err /\ Head(loopq[r]).op = "finish"
<1> USE DEF receiverVars, loopVars
<1>0. outcome \in [Receivers -> {"none", "done", "failed"}]
    BY DEF TaskInv, DiskTypeOK, LoopType
<1>1. outcome' # outcome
    OBVIOUS
<1>2. ASSUME NEW w \in Workers, WorkerStep(w) PROVE outcome' = outcome
    BY ZenonT(30), <1>2 DEF WorkerStep, Execute, ExecuteSettles, ExecuteFinishes, RunSource, SourceSettles, SourceFinishes
<1>3. ASSUME NEW t \in Transfers, ExecutorStep(t) \/ ConnectionDown(t) \/ OnSourceFunctor(t) \/ OpenSubmits(t) \/ Attach(t) \/ Consume(t)
      PROVE  outcome' = outcome
    BY ZenonT(30), <1>3 DEF ExecutorStep, CancelNext, ConnectionDown, OnSourceFunctor, OpenSubmits, Attach, Consume
<1>4. ASSUME UNCHANGED vars \/ ((Start \/ BeginShutdown) /\ UNCHANGED <<linkVars, receiverVars, sourceVars>>) \/ StopStep
      PROVE  outcome' = outcome
    BY <1>4 DEF vars, StopStep
<1>5. ASSUME NEW s \in Sources, Request(s) \/ Sent(s) PROVE outcome' = outcome
    BY ZenonT(30), <1>5 DEF Request, Sent
<1>6. ASSUME NEW t \in Transfers, CreateSubmits(t) PROVE FALSE
  <2>1. outcome' = outcome \/ outcome' = [outcome EXCEPT ![t] = "failed"]
      BY ZenonT(30), <1>6 DEF CreateSubmits
  <2> QED BY ZenonT(30), <1>0, <2>1
<1>7. ASSUME NEW t \in Transfers, OnResult(t)
      PROVE  OnResult(r) /\ r \notin cancelled /\ ~Head(loopq[r]).err /\ Head(loopq[r]).op = "finish"
  <2>1. ASSUME outcome' = [outcome EXCEPT ![t] = "failed"] PROVE FALSE
      BY <1>0, <2>1
  <2>2. ~ReportError(t)
      BY <2>1 DEF ReportError
  <2>3. t \notin cancelled /\ ~Head(loopq[t]).err /\ Completed(t, Head(loopq[t]).op)
      BY ZenonT(30), <1>1, <1>7, <2>2 DEF OnResult
  <2>4. Head(loopq[t]).op = "finish" /\ outcome' = [outcome EXCEPT ![t] = "done"]
      BY ZenonT(30), <1>1, <2>2, <2>3 DEF Completed
  <2>5. r = t
      BY ZenonT(30), <1>0, <2>4
  <2> QED BY ZenonT(30), <1>7, <2>3, <2>4, <2>5
<1> QED BY ZenonT(30), <1>1, <1>2, <1>3, <1>4, <1>5, <1>6, <1>7 DEF Next, LoopStep

(* Every step keeps PublishedWhole: only a finish that wrote every block renames the file. *)
LEMMA PublishedStep ==
    ASSUME TaskInv, PublishInv, [Next]_vars
    PROVE  PublishedWhole'
<1> SUFFICES ASSUME NEW r \in Receivers
             PROVE  /\ published'[r] <= 1
                    /\ published'[r] = 1 => written'[r] = size'[r]
                    /\ outcome'[r] = "done" => published'[r] = 1
    BY DEF PublishedWhole
<1>0. /\ published[r] \in Nat /\ written[r] \in Nat /\ size[r] \in Nat /\ remaining[r] \in Nat
      /\ published[r] <= 1
      /\ published[r] = 1 => written[r] = size[r]
      /\ outcome[r] = "done" => published[r] = 1
    BY DEF TaskInv, DiskTypeOK, LoopType, PublishInv, PublishedWhole
<1>1. outcome'[r] = "done" => published[r] = 1
  <2> SUFFICES ASSUME outcome'[r] = "done", outcome[r] # "done" PROVE published[r] = 1
      BY ZenonT(30), <1>0
  <2>1. OnResult(r) /\ r \notin cancelled /\ ~Head(loopq[r]).err /\ Head(loopq[r]).op = "finish"
      BY ZenonT(30), OutcomeChange
  <2>2. loopq[r] \in Seq(Result) /\ loopq[r] # <<>>
      BY <2>1 DEF OnResult, TaskInv, DiskTypeOK, StateType, Transfers
  <2>3. Head(loopq[r]) = loopq[r][1]
      BY SMTT(30), <2>2
  <2> QED BY ZenonT(30), <2>1, <2>2, <2>3 DEF PublishInv, LoopOrder, ResultOrder, After
<1>2. CASE published'[r] = published[r] /\ written'[r] = written[r] /\ size'[r] = size[r]
    BY ZenonT(30), <1>0, <1>1, <1>2
<1>3. ASSUME NEW t \in Transfers, Consume(t)
      PROVE  published'[r] = published[r] /\ written'[r] = written[r] /\ size'[r] = size[r]
    BY ZenonT(30), <1>3 DEF Consume, objectVars
<1>4. ASSUME NEW w \in Workers, NEW fails \in BOOLEAN, Execute(w, fails), r = work[w].t, r \notin cancelled, ~fails,
             work[w].op \in {"write", "finish"}
      PROVE  /\ published[r] = 0 /\ published'[r] <= 1
             /\ published'[r] = 1 => written'[r] = size'[r]
  <2>0. ExecuteDoes(w, fails)
      BY ZenonT(30), <1>4, ExecuteBlocks
  <2>1. Before(r, work[w].op) /\ size' = size
      BY ZenonT(30), <1>4, <2>0 DEF ExecuteDoes, PublishInv, WorkOrder, JobOrder
  <2>2. CASE work[w].op = "write"
    <3>1. published'[r] = published[r]
        BY ZenonT(30), <1>4, <2>0, <2>2 DEF ExecuteDoes
    <3>2. published[r] = 0
        BY ZenonT(30), <2>1 DEF Before, OnDisk
    <3> QED BY <3>1, <3>2
  <2>3. CASE work[w].op = "finish"
    <3>1. published'[r] = published[r] + 1 /\ written'[r] = written[r]
        BY ZenonT(30), <1>4, <2>0, <2>3 DEF ExecuteDoes
    <3> QED BY SMTT(30), <1>0, <2>1, <2>3, <3>1 DEF Before, OnDisk
  <2> QED BY ZenonT(30), <1>4, <2>2, <2>3
<1>5. ASSUME NEW w \in Workers, NEW fails \in BOOLEAN, Execute(w, fails)
      PROVE  \/ SameBlocks(r)
             \/ r = work[w].t /\ r \notin cancelled /\ ~fails /\ work[w].op \in {"write", "finish"}
  <2>1. ExecuteDoes(w, fails)
      BY <1>5, ExecuteBlocks
  <2> QED BY ZenonT(30), <2>1 DEF ExecuteDoes
<1>6. CASE SameBlocks(r)
    BY ZenonT(30), <1>2, <1>6 DEF SameBlocks
<1>7. CASE \E w \in Workers, fails \in BOOLEAN :
              /\ Execute(w, fails) /\ r = work[w].t /\ r \notin cancelled /\ ~fails
              /\ work[w].op \in {"write", "finish"}
  <2>1. /\ published[r] = 0 /\ published'[r] <= 1
        /\ published'[r] = 1 => written'[r] = size'[r]
      BY ZenonT(30), <1>4, <1>7
  <2>2. outcome'[r] # "done"
      BY <1>1, <2>1
  <2> QED BY ZenonT(30), <2>1, <2>2
<1> QED BY ZenonT(30), <1>2, <1>3, <1>5, <1>6, <1>7, BlocksChange

-----------------------------------------------------------------------------
(* Tasks of different transfers: no more than there are transfers. *)
LEMMA QueueFits ==
    ASSUME TaskInv, NEW S \in SUBSET registered, \A i \in 1..Len(poolq) : poolq[i].t \in S
    PROVE  Len(poolq) <= Cardinality(S)
<1> DEFINE f == [i \in 1..Len(poolq) |-> poolq[i].t]
<1>1. IsFiniteSet(S) /\ Cardinality(S) \in Nat /\ Len(poolq) \in Nat
  <2>1. IsFiniteSet(S)
      BY FS_Subset DEF TaskInv, Room
  <2>2. Len(poolq) \in Nat
      BY DEF TaskInv, DiskTypeOK, PoolType
  <2> QED BY <2>1, <2>2, FS_CardinalityType
<1>2. IsFiniteSet(1..Len(poolq)) /\ Cardinality(1..Len(poolq)) = Len(poolq)
  <2>1. 1 \in Int /\ Len(poolq) \in Int
      BY <1>1
  <2>2. /\ IsFiniteSet(1..Len(poolq))
        /\ Cardinality(1..Len(poolq)) = IF 1 > Len(poolq) THEN 0 ELSE Len(poolq) - 1 + 1
      BY ONLY <2>1, FS_Interval, Zenon
  <2> QED BY <1>1, <2>2
<1>3. f \in [1..Len(poolq) -> S]
    OBVIOUS
<1>4. \A i, j \in 1..Len(poolq) : f[i] = f[j] => i = j
    BY DEF TaskInv, Owned, QueuedOwned
<1> HIDE DEF f
<1>5. ~(Cardinality(S) < Cardinality(1..Len(poolq)))
    BY SMTT(30), <1>1, <1>2, <1>3, <1>4, FS_PigeonHole
<1> QED BY SMTT(30), <1>1, <1>2, <1>5

(* The comment in cancel(): the executor and its pool outlive the          *)
(* registration, and every registered transfer has a place in the queue.   *)
LEMMA CleanupAccepted ==
    ASSUME TaskInv, NEW t \in cleaning
    PROVE  Accepts(TRUE)
<1>1. t \in registered /\ \A i \in 1..Len(poolq) : poolq[i].t \in registered \ {t}
    BY DEF TaskInv, Owned, QueuedOwned
<1>2. Len(poolq) <= Cardinality(registered \ {t})
    BY ZenonT(30), <1>1, QueueFits
<1>3. /\ Cardinality(registered \ {t}) = Cardinality(registered) - 1 /\ Cardinality(registered) \in Nat
      /\ Cardinality(registered) <= MaxReceivers /\ Len(poolq) \in Nat /\ MaxReceivers \in Nat
    BY <1>1, FS_RemoveElement, FS_CardinalityType, MaxReceiversAssumption
       DEF TaskInv, Room, DiskTypeOK, PoolType
<1>4. phase \in {"running", "closing"}
    BY <1>1 DEF TaskInv, Room
<1> QED BY <1>2, <1>3, <1>4 DEF Accepts

-----------------------------------------------------------------------------
(* The executor's room: registrations change only in attach(), while there *)
(* is room, and in release(); the phase moves on without them only when    *)
(* there are none.                                                         *)
LEMMA RoomStep ==
    ASSUME TaskInv, [Next]_vars
    PROVE  Room'
<1> USE DEF executorVars
<1>0. Room
    BY DEF TaskInv
<1>1. ASSUME UNCHANGED <<phase, registered, terminated>> PROVE Room'
    BY <1>0, <1>1 DEF Room
<1>2. CASE UNCHANGED vars \/ Start \/ BeginShutdown \/ StopStep
    BY <1>0, <1>2 DEF vars, diskVars, Start, BeginShutdown, StopStep, StopPool, StopDone, Room
<1>3. ASSUME NEW w \in Workers, WorkerStep(w) PROVE Room'
  <2>1. CASE Release(w)
    <3>1. /\ IsFiniteSet(registered) /\ Cardinality(registered) <= MaxReceivers
          /\ registered' = registered \ {work[w].t} /\ UNCHANGED <<phase, terminated>>
        BY <1>0, <2>1 DEF Release, Room
    <3>2. IsFiniteSet(registered') /\ Cardinality(registered') <= Cardinality(registered)
        BY <3>1, FS_Subset
    <3>3. Cardinality(registered') \in Nat /\ Cardinality(registered) \in Nat /\ MaxReceivers \in Nat
        BY ZenonT(30), <3>1, <3>2, FS_CardinalityType, MaxReceiversAssumption
    <3>4. Cardinality(registered') <= MaxReceivers
        BY <3>1, <3>2, <3>3
    <3>5. registered' # {} => phase' \in {"running", "closing"}
        BY <1>0, <3>1 DEF Room
    <3> QED BY ZenonT(30), <1>0, <3>1, <3>2, <3>4, <3>5 DEF Room
  <2>2. CASE ~Release(w)
      BY ZenonT(30), <1>1, <1>3, <2>2 DEF WorkerStep, Take, RunCleanup, SettleEnding, CloseFile, FinishCleanup, Execute,
          ExecuteSettles, ExecuteFinishes, RunSource, SourceSettles, SourceFinishes
  <2> QED BY <2>1, <2>2
<1>4. ASSUME NEW t \in Transfers, PostCleanup(t) PROVE Room'
    BY ZenonT(30), <1>1, <1>4, CleanupAccepted DEF PostCleanup
<1>5. ASSUME NEW t \in Transfers, CancelNext(t) \/ ConnectionDown(t) \/ LoopStep(t) \/ Consume(t) PROVE Room'
    BY ZenonT(30), <1>1, <1>5 DEF CancelNext, ConnectionDown, LoopStep, CreateSubmits, OnResult, OpenSubmits,
        OnSourceFunctor, Consume
<1>6. ASSUME NEW t \in Transfers, Attach(t) PROVE Room'
  <2>1. CASE CanAttach
    <3>1. /\ IsFiniteSet(registered) /\ Cardinality(registered) < MaxReceivers /\ phase = "running"
          /\ registered' = registered \cup {t} /\ UNCHANGED <<phase, terminated>>
        BY ZenonT(30), <1>0, <1>6, <2>1 DEF Attach, Room, CanAttach
    <3>2. /\ IsFiniteSet(registered')
          /\ Cardinality(registered') = IF t \in registered THEN Cardinality(registered) ELSE Cardinality(registered) + 1
        BY <3>1, FS_AddElement
    <3>3. Cardinality(registered) \in Nat /\ MaxReceivers \in Nat
        BY ZenonT(30), <3>1, FS_CardinalityType, MaxReceiversAssumption
    <3>4. Cardinality(registered') <= MaxReceivers
        BY SMTT(30), <3>1, <3>2, <3>3
    <3> QED BY ZenonT(30), <1>0, <3>1, <3>2, <3>4 DEF Room
  <2>2. CASE ~CanAttach
      BY <1>1, <1>6, <2>2 DEF Attach
  <2> QED BY <2>1, <2>2
<1>7. ASSUME NEW s \in Sources, Request(s) \/ Sent(s) PROVE Room'
    BY ZenonT(30), <1>1, <1>7 DEF Request, Sent
<1> QED BY ZenonT(30), <1>2, <1>3, <1>4, <1>5, <1>6, <1>7 DEF Next, ExecutorStep

-----------------------------------------------------------------------------
(* The executor as constructed, no transfer created yet. *)
LEMMA TaskInit == Init => TaskInv
<1> SUFFICES ASSUME Init PROVE TaskInv
    OBVIOUS
<1> USE DEF Init, DiskInit, ReceiverInit, SourceInit
<1>1. PoolType
  <2>1. IdleWorker \in Job /\ IdleWorker.at = "idle"
      BY DEF IdleWorker, Job
  <2> QED BY SMTT(30), <2>1 DEF PoolType
<1>2. StateType
    BY DEF StateType
<1>3. LoopType
    BY SMTT(30), MaxBlocksAssumption DEF LoopType
<1>4. SourceType
    BY ZenonT(30) DEF SourceType
<1>5. Len(poolq) = 0 /\ \A w \in Workers : work[w].at = "idle"
    BY ZenonT(30) DEF IdleWorker
<1>6. Owned
    BY SMTT(30), <1>5 DEF Owned, QueuedOwned, WorkerOwned
<1>7. Staged
  <2>1. QueueStaged
      BY ONLY <1>5 DEF QueueStaged
  <2>2. WorkStaged
      BY ZenonT(30), <1>5 DEF WorkStaged
  <2>3. StageStaged /\ ResultStaged
      BY ZenonT(30) DEF StageStaged, ResultStaged
  <2> QED BY ZenonT(30), <2>1, <2>2, <2>3, StagedParts
<1>8. FilesClosed
    BY ZenonT(30), <1>5 DEF FilesClosed
<1>9. Room
    BY SMTT(30), FS_EmptySet, MaxReceiversAssumption DEF Room
<1> QED BY ZenonT(30), <1>1, <1>2, <1>3, <1>4, <1>6, <1>7, <1>8, <1>9 DEF TaskInv, DiskTypeOK

(* Every step of a worker, a loop or the executor preserves it. *)
LEMMA TaskStep == TaskInv /\ [Next]_vars => TaskInv'
<1> SUFFICES ASSUME TaskInv, [Next]_vars PROVE TaskInv'
    OBVIOUS
<1>1. DiskTypeOK' /\ Owned' /\ FilesClosed' /\ Room'
    BY TypeStep, OwnedStep, FilesStep, RoomStep
<1>2. QueueStaged' /\ WorkStaged' /\ StageStaged' /\ ResultStaged'
    BY ZenonT(30), QueueStagedStep, WorkStagedStep, StageStagedStep, ResultStagedStep
<1>3. Staged'
    BY <1>2 DEF Staged, QueueStaged, WorkStaged, StageStaged, ResultStaged
<1> QED BY <1>1, <1>3 DEF TaskInv

(* The inductive invariant of the tasks holds throughout. *)
THEOREM TasksOwned == Spec => []TaskInv
    BY TaskInit, TaskStep, PTL DEF Spec

(* The post() of cancel() is never refused, so the process is not ended:   *)
(* what the comment in State::cancel() claims.                             *)
THEOREM CleanupAlwaysAccepted == Spec => []CleanupNeverRefused
<1>1. TaskInv => CleanupNeverRefused
  <2> SUFFICES ASSUME TaskInv PROVE CleanupNeverRefused
      OBVIOUS
  <2>1. \A i \in 1..Len(poolq) : poolq[i].t \in registered
      BY DEF TaskInv, Owned, QueuedOwned
  <2>2. Len(poolq) <= Cardinality(registered)
      BY ZenonT(30), <2>1, QueueFits
  <2> QED BY <2>2 DEF TaskInv, Room, CleanupNeverRefused
<1> QED BY <1>1, TasksOwned, PTL

(* A file has one worker at a time, its transfer is registered as long as  *)
(* a worker has the task, and no file is open after release().             *)
THEOREM OneWorkerPerFile == Spec => []FileHasOneWorker
<1>1. TaskInv => FileHasOneWorker
  <2> SUFFICES ASSUME TaskInv PROVE FileHasOneWorker
      OBVIOUS
  <2>1. \A w \in Workers : work[w].at # "idle" => work[w].t \in registered
    <3>1. \A w \in Workers : work[w].at \in {"idle", "run", "settle", "close", "finish", "release"}
        BY DEF TaskInv, DiskTypeOK, PoolType, Job
    <3> QED BY ZenonT(30), <3>1 DEF TaskInv, Owned, WorkerOwned
  <2> QED BY ZenonT(30), <2>1 DEF TaskInv, Owned, WorkerOwned, FilesClosed, FileHasOneWorker
<1> QED BY <1>1, TasksOwned, PTL

(* Each read request of a download is answered exactly once: by the        *)
(* worker, by cancel() or by request() itself.                             *)
THEOREM EachReadAnsweredOnce == Spec => []ReadAnsweredOnce
<1>1. Init => ReadInv
  <2> SUFFICES ASSUME Init PROVE ReadInv
      OBVIOUS
  <2> QED BY DEF Init, DiskInit, SourceInit, ReadInv, HeldByRead, Counted, IdleWorker
<1>2. TaskInv /\ ReadInv /\ [Next]_vars => ReadInv'
    BY ZenonT(30), HeldStep, CountedStep DEF ReadInv
<1>3. TaskInv /\ ReadInv => ReadAnsweredOnce
    BY DEF TaskInv, Owned, ReadInv, HeldByRead, Counted, ReadAnsweredOnce
<1> QED BY <1>1, <1>2, <1>3, TasksOwned, PTL DEF Spec

(* An upload publishes its object at most once, with the whole body on the *)
(* disk, and done() is called only for a published one, whatever is        *)
(* cancelled, refused or failing meanwhile.                                *)
THEOREM PublishedOnceAndWhole == Spec => []PublishedWhole
<1>1. Init => PublishInv
  <2> SUFFICES ASSUME Init PROVE PublishInv
      OBVIOUS
  <2>0. Len(poolq) = 0 /\ \A w \in Workers : work[w].at = "idle"
      BY ZenonT(30) DEF Init, DiskInit, IdleWorker
  <2>1. QueueOrder /\ WorkOrder
    <3>1. QueueOrder
        BY <2>0 DEF QueueOrder
    <3>2. WorkOrder
        BY ZenonT(30), <2>0 DEF WorkOrder, JobOrder
    <3> QED BY <3>1, <3>2
  <2>2. /\ size \in [Receivers -> Nat] /\ remaining = size /\ paused = {} /\ lterminal = {} /\ finishing = {} /\ busy = {}
        /\ written = [r \in Receivers |-> 0] /\ published = [r \in Receivers |-> 0]
        /\ outcome = [r \in Receivers |-> "none"] /\ loopq = [t \in Transfers |-> <<>>]
      BY DEF Init, DiskInit, ReceiverInit
  <2>3. LoopOrder
      BY <2>2 DEF LoopOrder, ResultOrder, OnDisk, Transfers
  <2>4. Taken /\ PublishedWhole
      BY <2>2 DEF Taken, PublishedWhole
  <2> QED BY ZenonT(30), <2>1, <2>3, <2>4 DEF PublishInv
<1>2. TaskInv /\ PublishInv /\ [Next]_vars => PublishInv'
    BY ZenonT(30), QueueOrderStep, WorkOrderStep, LoopOrderStep, TakenStep, PublishedStep DEF PublishInv
<1>3. PublishInv => PublishedWhole
    BY DEF PublishInv
<1> QED BY <1>1, <1>2, <1>3, TasksOwned, PTL DEF Spec
=============================================================================
