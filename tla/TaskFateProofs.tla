--------------------------- MODULE TaskFateProofs ---------------------------
(***************************************************************************)
(* Each task of the thread pool has one fate, for every number of workers, *)
(* submitters and tasks and every size of the two queues: the steps of the *)
(* deadline thread and of the workers move it from place to place, as      *)
(* those of its submitter in PoolProofs do, and it is never in two. And no *)
(* submitter that sleeps in run() is left behind.                          *)
(***************************************************************************)
EXTENDS PoolProofs, FiniteSetTheorems

(* Where the elements are after one is removed. *)
LEMMA Removed ==
    ASSUME NEW S, NEW s \in Seq(S), NEW m \in Nat, NEW k \in Nat, Len(s) = m + 1 + k
    PROVE  LET rest == SubSeq(s, 1, m) \o SubSeq(s, m + 2, m + 1 + k)
           IN  /\ Len(rest) = m + k
               /\ \A j \in 1..m : rest[j] = s[j]
               /\ \A j \in (m + 1)..(m + k) : rest[j] = s[j + 1]
<1> DEFINE a == SubSeq(s, 1, m)
           b == SubSeq(s, m + 2, m + 1 + k)
<1>1. a \in Seq(S) /\ Len(a) = m /\ \A j \in 1..m : a[j] = s[j]
    OBVIOUS
<1>2. b \in Seq(S) /\ Len(b) = k /\ \A j \in 1..k : b[j] = s[m + 1 + j]
    OBVIOUS
<1> HIDE DEF a, b
<1>3. /\ Len(a \o b) = m + k
      /\ \A j \in 1..m : (a \o b)[j] = a[j]
      /\ \A j \in (m + 1)..(m + k) : (a \o b)[j] = b[j - m]
    BY <1>1, <1>2
<1>4. ASSUME NEW j \in (m + 1)..(m + k) PROVE (a \o b)[j] = s[j + 1]
  <2>1. j - m \in 1..k /\ m + 1 + (j - m) = j + 1
      OBVIOUS
  <2>2. b[j - m] = s[m + 1 + (j - m)]
      BY <1>2, <2>1
  <2> QED BY <1>3, <2>1, <2>2
<1>5. /\ Len(a \o b) = m + k
      /\ \A j \in 1..m : (a \o b)[j] = s[j]
      /\ \A j \in (m + 1)..(m + k) : (a \o b)[j] = s[j + 1]
    BY ZenonT(30), <1>1, <1>3, <1>4
<1> QED BY <1>5 DEF a, b

(* The waiters that are left when the i-th is removed. *)
LEMMA WaiterRemoved ==
    ASSUME TypeOK, WaitsOnce, NEW i \in 1..Len(waiters),
           waiters' = SubSeq(waiters, 1, i - 1) \o SubSeq(waiters, i + 1, Len(waiters))
    PROVE  /\ WaitsOnce'
           /\ \A j \in 1..Len(waiters') : \E l \in 1..Len(waiters) \ {i} : waiters'[j] = waiters[l]
<1> DEFINE m == i - 1
           k == Len(waiters) - i
           rest == SubSeq(waiters, 1, m) \o SubSeq(waiters, m + 2, m + 1 + k)
           to(j) == IF j <= m THEN j ELSE j + 1
<1>0. waiters \in Seq(Waiter) /\ Len(waiters) \in Nat
    BY DEF TypeOK, QueueType
<1>1. m \in Nat /\ k \in Nat /\ Len(waiters) = m + 1 + k /\ i = m + 1 /\ i + 1 = m + 2
    BY <1>0
<1>2. waiters' = rest
    BY ZenonT(30), <1>1
<1> HIDE DEF m, k
<1>3. /\ Len(rest) = m + k
      /\ \A j \in 1..m : rest[j] = waiters[j]
      /\ \A j \in (m + 1)..(m + k) : rest[j] = waiters[j + 1]
    BY ZenonT(30), <1>0, <1>1, Removed
<1> HIDE DEF rest
<1>4. ASSUME NEW j \in 1..Len(waiters')
      PROVE  to(j) \in 1..Len(waiters) \ {i} /\ waiters'[j] = waiters[to(j)]
  <2>1. j \in 1..(m + k)
      BY ZenonT(30), <1>2, <1>3
  <2>2. CASE j <= m
    <3>1. to(j) = j /\ j \in 1..m /\ j \in 1..Len(waiters) \ {i}
        BY <1>1, <2>1, <2>2
    <3> QED BY ZenonT(30), <1>2, <1>3, <3>1
  <2>3. CASE ~(j <= m)
    <3>1. to(j) = j + 1 /\ j \in (m + 1)..(m + k) /\ j + 1 \in 1..Len(waiters) \ {i}
        BY <1>1, <2>1, <2>3
    <3> QED BY ZenonT(30), <1>2, <1>3, <3>1
  <2> QED BY ZenonT(30), <2>2, <2>3
<1>5. ASSUME NEW j \in 1..Len(waiters'), NEW l \in 1..Len(waiters'), waiters'[j].task = waiters'[l].task
      PROVE  j = l
  <2>1. to(j) \in 1..Len(waiters) /\ to(l) \in 1..Len(waiters) /\ waiters[to(j)].task = waiters[to(l)].task
      BY ZenonT(30), <1>4, <1>5
  <2>2. to(j) = to(l)
      BY <2>1 DEF WaitsOnce
  <2> QED BY <1>1, <1>2, <1>3, <2>2
<1>6. WaitsOnce'
    BY ZenonT(30), <1>5 DEF WaitsOnce
<1> QED BY ZenonT(30), <1>4, <1>6

(* The deadline thread takes a waiter out, then calls back. *)
LEMMA DeadlineFate ==
    ASSUME TypeOK, FateInv, DeadlineStep
    PROVE  FateInv'
<1> USE DEF clientVars, threadVars, historyVars
<1>0. /\ OnePlace /\ Once /\ HasTask /\ Admitted /\ InlineAdmitted
      /\ waiters \in Seq(Waiter) /\ Len(waiters) \in Nat /\ NoTask \notin Tasks
    BY NoTaskAssumption DEF TypeOK, QueueType, FateInv
<1>1. CASE DeadlineSleeps \/ DeadlineExits \/ DeadlineWaits \/ DeadlineWakes
  <2> USE DEF DeadlineSleeps, DeadlineExits, DeadlineWaits, DeadlineWakes
  <2>1. UNCHANGED tasksVars /\ UNCHANGED <<accepted, cpc, wpc>> /\ dpc' # "callback"
      BY <1>1 DEF tasksVars
  <2>2. HasTask' /\ InlineAdmitted'
      BY <1>0, <2>1 DEF tasksVars, HasTask, InlineAdmitted
  <2> QED BY <2>1, <2>2, QuietStep
<1>2. CASE DeadlineFires
  <2> USE DEF DeadlineFires
  <2>1. PICK i \in 1..Len(waiters) :
          /\ dtask' = waiters[i].task
          /\ waiters' = SubSeq(waiters, 1, i - 1) \o SubSeq(waiters, i + 1, Len(waiters))
      BY ZenonT(30), <1>2
  <2>2. PICK x \in Tasks : x = waiters[i].task
      BY ZenonT(30), <1>0, <2>1, WaiterFields
  <2>3. /\ WaitsOnce'
        /\ \A j \in 1..Len(waiters') : \E l \in 1..Len(waiters) \ {i} : waiters'[j] = waiters[l]
      BY ZenonT(30), <1>0, <2>1, WaiterRemoved DEF Once
  <2>4. \A l \in 1..Len(waiters) \ {i} : waiters[l].task # x
      BY <1>0, <2>1, <2>2 DEF Once, WaitsOnce
  <2>5. At("waiters", x)
      BY <2>1, <2>2 DEF At, Waiting
  <2>6. ~At("waiters", x)' /\ Shrinks("waiters")
      BY ZenonT(30), <2>3, <2>4 DEF At, Waiting, Shrinks
  <2>7. \A t \in Tasks \ {x} : At("deadline", t)' => At("deadline", t)
      BY <2>1, <2>2 DEF At
  <2>8. \A p \in Places \ {"deadline"} : Shrinks(p)
      BY <1>2, <2>6, Unmoved DEF Places
  <2>9. OnePlace' /\ Admitted'
    <3>1. accepted \subseteq accepted' /\ x \in accepted'
        BY <1>0, <1>2, <2>5 DEF Admitted, Places
    <3> QED BY <1>0, <2>5, <2>6, <2>7, <2>8, <3>1, MoveOne DEF Places
  <2>10. Once' /\ HasTask' /\ InlineAdmitted'
      BY <1>0, <1>2, <2>1, <2>2, <2>3 DEF Once, QueuedOnce, TakenOnce, ExpiredOnce, SubmittedOnce, DoneOnce,
          HasTask, InlineAdmitted
  <2> QED BY <2>9, <2>10 DEF FateInv
<1>3. CASE DeadlineCallback
  <2> USE DEF DeadlineCallback
  <2>1. PICK x \in Tasks : x = dtask
      BY <1>0, <1>3 DEF HasTask
  <2>2. At("deadline", x) /\ ~At("deadline", x)' /\ Shrinks("deadline")
      BY <1>0, <1>3, <2>1 DEF At, Shrinks
  <2>3. ~Done(x)
      BY <1>0, <2>2 DEF OnePlace, At, Places
  <2>4. DoneOnce' /\ \A t \in Tasks \ {x} : At("done", t)' => At("done", t)
      BY ZenonT(30), <1>0, <1>3, <2>1, <2>3, CountedOnce DEF Once
  <2>5. \A p \in Places \ {"done"} : Shrinks(p)
      BY <1>3, <2>2, Unmoved DEF Places
  <2>6. OnePlace' /\ Admitted'
    <3>1. accepted \subseteq accepted' /\ x \in accepted'
        BY <1>0, <1>3, <2>2 DEF Admitted, Places
    <3> QED BY <1>0, <2>2, <2>4, <2>5, <3>1, MoveOne DEF Places
  <2>7. Once' /\ HasTask' /\ InlineAdmitted'
      BY <1>0, <1>3, <2>4 DEF Once, QueuedOnce, WaitsOnce, TakenOnce, ExpiredOnce, SubmittedOnce,
          HasTask, InlineAdmitted
  <2> QED BY <2>6, <2>7 DEF FateInv
<1> QED BY <1>1, <1>2, <1>3 DEF DeadlineStep

(* A step that moves several tasks, each from one place to one other. *)
MovesTo(t, from, to) ==
    /\ At(from, t) /\ ~At(from, t)'
    /\ \A p \in Places : At(p, t)' => At(p, t) \/ p = to

(* When each task stays where it is or moves from its place to one other, each still has one place. *)
LEMMA MoveMany ==
    ASSUME OnePlace, Admitted, accepted \subseteq accepted',
           NEW from \in [Tasks -> Places \ {"fresh", "client"}], NEW to \in [Tasks -> Places],
           \A t \in Tasks : (\A p \in Places : At(p, t)' => At(p, t)) \/ MovesTo(t, from[t], to[t])
    PROVE  OnePlace' /\ Admitted'
<1>1. ASSUME NEW t \in Tasks, MovesTo(t, from[t], to[t])
      PROVE  /\ \A p \in Places : At(p, t)' => p = to[t]
             /\ t \in accepted'
  <2>1. from[t] \in Places \ {"fresh", "client"} /\ At(from[t], t)
      BY <1>1 DEF MovesTo
  <2>2. \A p \in Places : At(p, t) => p = from[t]
      BY <2>1 DEF OnePlace
  <2>3. t \in accepted'
      BY <2>1 DEF Admitted
  <2> QED BY <1>1, <2>2, <2>3 DEF MovesTo
<1>2. OnePlace'
    BY <1>1 DEF OnePlace
<1>3. Admitted'
    BY <1>1 DEF Admitted
<1> QED BY <1>2, <1>3

(* A worker's callbacks, then its task. *)
LEMMA WorkerFate ==
    ASSUME TypeOK, FateInv, NEW w \in Workers,
           TakeSleep(w) \/ TakeExit(w) \/ CallExpired(w) \/ FinishTask(w)
    PROVE  FateInv'
<1> USE DEF clientVars, deadlineVars, historyVars
<1>0. /\ OnePlace /\ Once /\ HasTask /\ Admitted /\ InlineAdmitted /\ WorkerType
      /\ ran \in [Tasks -> Nat] /\ timedOut \in [Tasks -> Nat] /\ NoTask \notin Tasks
    BY NoTaskAssumption DEF TypeOK, FateInv, HistoryType
<1>1. CASE TakeSleep(w) \/ TakeExit(w)
  <2> USE DEF TakeSleep, TakeExit
  <2>1. UNCHANGED tasksVars /\ UNCHANGED <<accepted, cpc, dpc>>
      BY <1>1 DEF tasksVars
  <2>2. HasTask' /\ InlineAdmitted'
      BY <1>0, <1>1 DEF HasTask, InlineAdmitted, WorkerType
  <2> QED BY <2>1, <2>2, QuietStep
<1>2. CASE FinishTask(w)
  <2> USE DEF FinishTask
  <2>1. PICK x \in Tasks : x = wtask[w]
      BY <1>0, <1>2 DEF HasTask
  <2>2. wtask' = [wtask EXCEPT ![w] = NoTask] /\ wtask \in [Workers -> Tasks \cup {NoTask}]
      BY <1>0, <1>2 DEF WorkerType
  <2>3. At("worker", x)
      BY <2>1 DEF At, Taken
  <2>4. ~At("worker", x)' /\ Shrinks("worker") /\ TakenOnce'
      BY <1>0, <2>1, <2>2 DEF At, Taken, Shrinks, Once, TakenOnce
  <2>5. ~Done(x)
      BY <1>0, <2>3 DEF OnePlace, At, Places
  <2>6. DoneOnce' /\ \A t \in Tasks \ {x} : At("done", t)' => At("done", t)
      BY ZenonT(30), <1>0, <1>2, <2>1, <2>5, CountedOnce DEF Once
  <2>7. \A p \in Places \ {"done"} : Shrinks(p)
      BY <1>2, <2>4, Unmoved DEF Places
  <2>8. OnePlace' /\ Admitted'
    <3>1. accepted \subseteq accepted' /\ x \in accepted'
        BY ZenonT(30), <1>0, <1>2, <2>3 DEF Admitted, Places
    <3> QED BY <1>0, <2>3, <2>4, <2>6, <2>7, <3>1, MoveOne DEF Places
  <2>9. Once' /\ InlineAdmitted'
      BY <1>0, <1>2, <2>4, <2>6 DEF Once, QueuedOnce, WaitsOnce, ExpiredOnce, SubmittedOnce, InlineAdmitted
  <2>10. HasTask'
      BY <1>0, <1>2 DEF HasTask, WorkerType
  <2> QED BY ZenonT(30), <2>8, <2>9, <2>10 DEF FateInv
<1>3. CASE CallExpired(w)
  <2> USE DEF CallExpired
  <2>1. /\ expired' = [expired EXCEPT ![w] = {}] /\ expired \in [Workers -> SUBSET Tasks]
        /\ timedOut' = [t \in Tasks |-> timedOut[t] + (IF t \in expired[w] THEN 1 ELSE 0)]
        /\ UNCHANGED <<fresh, ctask, queue, waiters, wtask, dtask, ran, accepted>>
      BY <1>0, <1>3 DEF WorkerType
  <2>2. \A t \in Tasks : /\ Expiring(t)' => Expiring(t) /\ t \notin expired[w]
                         /\ t \in expired[w] => Expiring(t)
      BY <1>0, <2>1 DEF Expiring, Once, ExpiredOnce
  <2>3. \A t \in expired[w] : ~Done(t)
      BY <1>0, <2>1, <2>2 DEF OnePlace, At, Places
  <2>4. \A t \in Tasks : /\ t \notin expired[w] => (Done(t)' => Done(t))
                         /\ t \in expired[w] => ran'[t] + timedOut'[t] = 1
      BY <1>0, <2>1, <2>3 DEF Done
  <2>5. DoneOnce'
    <3>1. ASSUME NEW t \in Tasks, t \notin expired[w] PROVE ran'[t] + timedOut'[t] = ran[t] + timedOut[t]
        BY <1>0, <2>1, <3>1
    <3> QED BY <1>0, <2>4, <3>1 DEF Once, DoneOnce
  <2>6. ExpiredOnce'
      BY <1>0, <2>1 DEF Once, ExpiredOnce
  <2>7. \A p \in Places \ {"done", "expired"} : Shrinks(p)
      BY <2>1, Unmoved DEF Places
  <2>8. OnePlace' /\ Admitted'
    <3> DEFINE from == [t \in Tasks |-> "expired"]
               to == [t \in Tasks |-> "done"]
    <3>1. from \in [Tasks -> Places \ {"fresh", "client"}] /\ to \in [Tasks -> Places]
        BY ZenonT(30) DEF Places
    <3>2. ASSUME NEW t \in Tasks, t \notin expired[w], NEW p \in Places, At(p, t)' PROVE At(p, t)
        BY <2>2, <2>4, <2>7, <3>2 DEF At, Shrinks
    <3>3. ASSUME NEW t \in Tasks, t \in expired[w] PROVE MovesTo(t, "expired", "done")
      <4>1. At("expired", t) /\ ~At("expired", t)'
          BY <2>2, <3>3 DEF At
      <4>2. ASSUME NEW p \in Places, At(p, t)' PROVE At(p, t) \/ p = "done"
          BY <2>7, <4>1, <4>2 DEF Shrinks
      <4> QED BY <4>1, <4>2 DEF MovesTo
    <3>4. \A t \in Tasks : (\A p \in Places : At(p, t)' => At(p, t)) \/ MovesTo(t, from[t], to[t])
        BY ZenonT(30), <3>2, <3>3
    <3> HIDE DEF from, to
    <3> QED BY <1>0, <2>1, <3>1, <3>4, MoveMany
  <2>9. Once' /\ InlineAdmitted'
      BY <1>0, <1>3, <2>1, <2>5, <2>6 DEF Once, QueuedOnce, WaitsOnce, TakenOnce, SubmittedOnce, InlineAdmitted
  <2>10. HasTask'
      BY <1>0, <1>3 DEF HasTask, WorkerType
  <2> QED BY <2>8, <2>9, <2>10 DEF FateInv
<1> QED BY <1>1, <1>2, <1>3

(* A sequence without its first element, and another after it. *)
LEMMA TailThen ==
    ASSUME NEW S, NEW q \in Seq(S), NEW b \in Seq(S), NEW m \in Nat, NEW l \in Nat,
           Len(q) = m + 1, Len(b) = l
    PROVE  /\ Len(Tail(q) \o b) = m + l
           /\ \A i \in 1..m : (Tail(q) \o b)[i] = q[i + 1]
           /\ \A i \in 1..l : (Tail(q) \o b)[m + i] = b[i]
<1>1. Tail(q) \in Seq(S) /\ Len(Tail(q)) = m /\ \A i \in 1..m : Tail(q)[i] = q[i + 1]
    OBVIOUS
<1> QED BY <1>1

(* What take() does to the two queues, element by element. *)
TakeQueues(n, k, f) ==
    /\ Len(queue') = Len(queue) - 1 + k /\ Len(waiters') = Len(waiters) - n
    /\ \A i \in 1..(Len(queue) - 1) : queue'[i] = queue[i + 1]
    /\ \A i \in 1..k : queue'[Len(queue) - 1 + i] = waiters[f[i]].task
    /\ \A i \in 1..(Len(waiters) - n) : waiters'[i] = waiters[n + i]

(* The queue and the waiters after a worker takes a task and refills from the waiters, element by element. *)
LEMMA RefillElements ==
    ASSUME TypeOK, queue # <<>>,
           NEW n \in 0..Len(waiters), NEW k \in 0..Len(waiters), NEW f \in [1..k -> 1..n],
           queue' = Tail(queue) \o [i \in 1..k |-> waiters[f[i]].task],
           waiters' = SubSeq(waiters, n + 1, Len(waiters))
    PROVE  TakeQueues(n, k, f) /\ Len(queue) > 0 /\ Head(queue) = queue[1]
<1> DEFINE b == [i \in 1..k |-> waiters[f[i]].task]
<1>0. queue \in Seq(Tasks) /\ waiters \in Seq(Waiter) /\ Len(queue) \in Nat /\ Len(waiters) \in Nat
    BY DEF TypeOK, QueueType
<1>1. Len(queue) > 0 /\ Head(queue) = queue[1]
  <2>1. Len(queue) # 0
      BY <1>0
  <2> QED BY <1>0, <2>1
<1>3. b \in Seq(Tasks) /\ Len(b) = k /\ \A i \in 1..k : b[i] = waiters[f[i]].task
  <2>1. \A i \in 1..k : waiters[f[i]].task \in Tasks
    <3> SUFFICES ASSUME NEW i \in 1..k PROVE waiters[f[i]].task \in Tasks
        OBVIOUS
    <3>1. f[i] \in 1..n
        OBVIOUS
    <3>2. f[i] \in 1..Len(waiters)
        BY <1>0, <3>1
    <3> QED BY ZenonT(30), <1>0, <3>2, WaiterFields
  <2>2. b \in [1..k -> Tasks]
      BY <2>1
  <2> QED BY <1>0, <2>2
<1>4. queue' = Tail(queue) \o b
    OBVIOUS
<1> HIDE DEF b
<1>5. PICK m \in Nat, l \in Nat : m = Len(queue) - 1 /\ l = k /\ Len(queue) = m + 1
  <2>1. Len(queue) - 1 \in Nat /\ k \in Nat /\ Len(queue) = (Len(queue) - 1) + 1
      BY <1>0, <1>1
  <2> QED BY ZenonT(30), <2>1
<1>6. /\ Len(queue') = m + l
      /\ \A i \in 1..m : queue'[i] = queue[i + 1]
      /\ \A i \in 1..l : queue'[m + i] = b[i]
    BY <1>0, <1>3, <1>4, <1>5, TailThen
<1>7. \A i \in 1..(Len(waiters) - n) : waiters'[i] = waiters[n + i]
    BY <1>0
<1>8. waiters' \in Seq(Waiter) /\ Len(waiters') = Len(waiters) - n
    BY <1>0
<1> QED BY <1>1, <1>3, <1>5, <1>6, <1>7, <1>8 DEF TakeQueues

(* take() moves the first task to the worker, the live waiters it passes   *)
(* to the queue and the others to the callbacks.                           *)
LEMMA TakeFate ==
    ASSUME TypeOK, FateInv, NEW w \in Workers, TakeTask(w)
    PROVE  FateInv'
<1> USE DEF deadlineVars, historyVars
<1>0. /\ OnePlace /\ Once /\ HasTask /\ Admitted /\ InlineAdmitted /\ WorkerType
      /\ queue \in Seq(Tasks) /\ Len(queue) \in Nat /\ waiters \in Seq(Waiter) /\ Len(waiters) \in Nat
      /\ NoTask \notin Tasks
    BY NoTaskAssumption DEF TypeOK, QueueType, FateInv
<1>1. /\ queue # <<>> /\ wtask' = [wtask EXCEPT ![w] = Head(queue)]
      /\ wpc' = [wpc EXCEPT ![w] = "callbacks"] /\ NotifySubmitter
      /\ UNCHANGED <<ctask, dpc, dtask, fresh, accepted, ran, timedOut>>
    BY DEF TakeTask
<1>20. PICK n \in 0..Len(waiters), k \in 0..Len(waiters) : \E f \in [1..k -> 1..n] :
        /\ Refill(n, k, f)
        /\ queue' = Tail(queue) \o [i \in 1..k |-> waiters[f[i]].task]
        /\ waiters' = SubSeq(waiters, n + 1, Len(waiters))
        /\ expired' = [expired EXCEPT ![w] =
                         {waiters[j].task : j \in {j \in 1..n : ~Live(waiters[j])}}]
    BY ZenonT(30) DEF TakeTask
<1>2. PICK f \in [1..k -> 1..n] :
        /\ Refill(n, k, f)
        /\ queue' = Tail(queue) \o [i \in 1..k |-> waiters[f[i]].task]
        /\ waiters' = SubSeq(waiters, n + 1, Len(waiters))
        /\ expired' = [expired EXCEPT ![w] =
                         {waiters[j].task : j \in {j \in 1..n : ~Live(waiters[j])}}]
    BY ZenonT(30), <1>20
<1>3. TakeQueues(n, k, f) /\ Len(queue) > 0 /\ Head(queue) = queue[1]
    BY ZenonT(30), <1>1, <1>2, RefillElements
<1>4. PICK x \in Tasks : x = queue[1] /\ x = Head(queue)
    BY <1>0, <1>3
<1>5. /\ \A i \in 1..k : f[i] \in 1..Len(waiters) /\ f[i] <= n /\ Live(waiters[f[i]])
      /\ \A i, j \in 1..k : f[i] = f[j] => i = j
      /\ \A j \in 1..n : Live(waiters[j]) => \E i \in 1..k : f[i] = j
  <2>1. \A i \in 1..k : f[i] \in {j \in 1..n : Live(waiters[j])}
      BY <1>2 DEF Refill
  <2>2. \A j \in {j \in 1..n : Live(waiters[j])} : \E i \in 1..k : f[i] = j
      BY ZenonT(30), <1>2 DEF Refill
  <2>3. \A i, j \in 1..k : i < j => f[i] < f[j]
      BY <1>2 DEF Refill
  <2>4. \A i, j \in 1..k : f[i] = f[j] => i = j
      BY <1>0, <2>1, <2>3
  <2> QED BY <1>0, <2>1, <2>2, <2>4
<1>6. \A j \in 1..n : j \in 1..Len(waiters) /\ waiters[j].task \in Tasks /\ Waiting(waiters[j].task)
  <2>1. \A j \in 1..n : j \in 1..Len(waiters)
      BY <1>0
  <2> QED BY <1>0, <2>1, WaiterFields DEF Waiting
<1> DEFINE Passed(t, live) == \E j \in 1..n : waiters[j].task = t /\ (Live(waiters[j]) <=> live)
<1>7. \A t \in Tasks : Queued(t)' => (Queued(t) /\ t # x) \/ Passed(t, TRUE)
  <2> SUFFICES ASSUME NEW t \in Tasks, NEW i \in 1..Len(queue'), queue'[i] = t
               PROVE  (Queued(t) /\ t # x) \/ Passed(t, TRUE)
      BY DEF Queued
  <2>1. CASE i \in 1..(Len(queue) - 1)
    <3>1. t = queue[i + 1]
        BY <1>3, <2>1 DEF TakeQueues
    <3>2. i + 1 \in 1..Len(queue) /\ 1 \in 1..Len(queue) /\ i + 1 # 1
        BY <1>0, <1>3, <2>1
    <3> QED BY <1>0, <1>4, <3>1, <3>2 DEF Queued, Once, QueuedOnce
  <2>2. CASE i \notin 1..(Len(queue) - 1)
    <3>0. i - (Len(queue) - 1) \in 1..k /\ i = Len(queue) - 1 + (i - (Len(queue) - 1))
        BY <1>0, <1>3, <2>2 DEF TakeQueues
    <3>1. PICK m \in 1..k : i = Len(queue) - 1 + m
        BY Zenon, <3>0
    <3>2. t = waiters[f[m]].task
        BY ZenonT(30), <1>3, <3>1 DEF TakeQueues
    <3> QED BY ZenonT(30), <1>5, <3>2
  <2> QED BY <2>1, <2>2
<1>8. \A t \in Tasks : Waiting(t)' => Waiting(t) /\ ~Passed(t, TRUE) /\ ~Passed(t, FALSE)
  <2> SUFFICES ASSUME NEW t \in Tasks, NEW i \in 1..Len(waiters'), waiters'[i].task = t
               PROVE  Waiting(t) /\ ~Passed(t, TRUE) /\ ~Passed(t, FALSE)
      BY DEF Waiting
  <2>1. waiters[n + i].task = t /\ n + i \in 1..Len(waiters)
      BY <1>0, <1>3 DEF TakeQueues
  <2>2. \A j \in 1..n : j # n + i /\ waiters[j].task # t
      BY <1>0, <1>6, <2>1 DEF Once, WaitsOnce
  <2> QED BY <2>1, <2>2 DEF Waiting
<1>9. \A t \in Tasks : Taken(t)' => Taken(t) \/ t = x
    BY ZenonT(30), <1>0, <1>1, <1>4 DEF Taken, WorkerType
<1>10. \A t \in Tasks : Expiring(t)' => Expiring(t) \/ Passed(t, FALSE)
    BY <1>0, <1>2 DEF Expiring, WorkerType
<1>11. \A t \in Tasks, l \in BOOLEAN : Passed(t, l) => Waiting(t)
    BY <1>6
<1>12. Queued(x)
    BY <1>0, <1>3, <1>4 DEF Queued
<1>13. \A t \in Tasks : Passed(t, TRUE) => ~Passed(t, FALSE)
    BY <1>0, <1>6 DEF Once, WaitsOnce
<1> HIDE DEF Passed
<1>14. /\ \A t \in Tasks : Waiting(t) => ~Queued(t) /\ ~Expiring(t)
       /\ ~Taken(x)
    BY <1>0, <1>12 DEF OnePlace, At, Places
<1>15. OnePlace' /\ Admitted'
  <2> DEFINE from == [t \in Tasks |-> IF t = x THEN "queue" ELSE "waiters"]
             to == [t \in Tasks |-> IF t = x THEN "worker" ELSE IF Passed(t, TRUE) THEN "queue" ELSE "expired"]
  <2>1. from \in [Tasks -> Places \ {"fresh", "client"}] /\ to \in [Tasks -> Places]
      BY DEF Places
  <2>2. \A p \in {"fresh", "client", "deadline", "done"} : Shrinks(p)
    <3>1. fresh' \subseteq fresh
        BY <1>1
    <3> QED BY <1>1, <3>1, Unmoved
  <2>3. MovesTo(x, "queue", "worker")
    <3>1. At("queue", x) /\ ~At("queue", x)'
        BY ZenonT(30), <1>7, <1>11, <1>12, <1>14 DEF At
    <3>2. ASSUME NEW p \in Places, At(p, x)' PROVE At(p, x) \/ p = "worker"
        BY ZenonT(30), <1>8, <1>10, <1>11, <1>12, <1>14, <2>2, <3>1, <3>2 DEF At, Places, Shrinks
    <3> QED BY <3>1, <3>2 DEF MovesTo
  <2>4. ASSUME NEW t \in Tasks, t # x, Passed(t, TRUE) PROVE MovesTo(t, "waiters", "queue")
    <3>1. At("waiters", t) /\ ~At("waiters", t)'
        BY ZenonT(30), <1>8, <1>11, <2>4 DEF At
    <3>2. ASSUME NEW p \in Places, At(p, t)' PROVE At(p, t) \/ p = "queue"
        BY ZenonT(30), <1>9, <1>10, <1>13, <2>2, <2>4, <3>1, <3>2 DEF At, Places, Shrinks
    <3> QED BY <3>1, <3>2 DEF MovesTo
  <2>5. ASSUME NEW t \in Tasks, t # x, ~Passed(t, TRUE), Passed(t, FALSE) PROVE MovesTo(t, "waiters", "expired")
    <3>1. At("waiters", t) /\ ~At("waiters", t)'
        BY ZenonT(30), <1>8, <1>11, <2>5 DEF At
    <3>2. ASSUME NEW p \in Places, At(p, t)' PROVE At(p, t) \/ p = "expired"
        BY ZenonT(30), <1>7, <1>9, <2>2, <2>5, <3>1, <3>2 DEF At, Places, Shrinks
    <3> QED BY <3>1, <3>2 DEF MovesTo
  <2>6. ASSUME NEW t \in Tasks, t # x, ~Passed(t, TRUE), ~Passed(t, FALSE), NEW p \in Places, At(p, t)'
        PROVE  At(p, t)
      BY ZenonT(30), <1>7, <1>8, <1>9, <1>10, <2>2, <2>6 DEF At, Places, Shrinks
  <2>7. \A t \in Tasks : (\A p \in Places : At(p, t)' => At(p, t)) \/ MovesTo(t, from[t], to[t])
      BY ZenonT(30), <2>3, <2>4, <2>5, <2>6
  <2> HIDE DEF from, to
  <2> QED BY ZenonT(30), <1>0, <1>1, <2>1, <2>7, MoveMany
<1>16. QueuedOnce'
  <2> DEFINE L == Len(queue) - 1
  <2>1. /\ Len(queue') = L + k /\ L \in Nat /\ k \in Nat
        /\ \A i \in 1..L : queue'[i] = queue[i + 1] /\ i + 1 \in 1..Len(queue)
        /\ \A i \in 1..k : queue'[L + i] = waiters[f[i]].task
      BY <1>0, <1>3 DEF TakeQueues
  <2> HIDE DEF L
  <2>2. \A i \in 1..L, j \in 1..k : queue[i + 1] # waiters[f[j]].task
    <3> SUFFICES ASSUME NEW i \in 1..L, NEW j \in 1..k, queue[i + 1] = waiters[f[j]].task PROVE FALSE
        OBVIOUS
    <3>1. PICK t \in Tasks : t = queue[i + 1] /\ i + 1 \in 1..Len(queue)
        BY SMTT(30), <1>0, <2>1
    <3>2. Queued(t)
        BY <3>1 DEF Queued
    <3>3. Waiting(t)
        BY <1>5, <3>1 DEF Waiting
    <3> QED BY <1>14, <3>2, <3>3
  <2>3. \A i, j \in 1..L : queue[i + 1] = queue[j + 1] => i = j
    <3> SUFFICES ASSUME NEW i \in 1..L, NEW j \in 1..L, queue[i + 1] = queue[j + 1] PROVE i = j
        OBVIOUS
    <3>1. i + 1 = j + 1
        BY ZenonT(30), <1>0, <2>1 DEF Once, QueuedOnce
    <3> QED BY <2>1, <3>1
  <2>4. \A i, j \in 1..k : waiters[f[i]].task = waiters[f[j]].task => i = j
      BY ZenonT(30), <1>0, <1>5 DEF Once, WaitsOnce
  <2>5. \A i \in 1..(L + k) : i \in 1..L \/ (i - L \in 1..k /\ L + (i - L) = i)
      BY <2>1
  <2> SUFFICES ASSUME NEW i \in 1..(L + k), NEW j \in 1..(L + k), queue'[i] = queue'[j] PROVE i = j
      BY <2>1 DEF QueuedOnce
  <2>6. CASE i \in 1..L /\ j \in 1..L
      BY ZenonT(30), <2>1, <2>3, <2>6
  <2>7. ASSUME NEW a \in 1..L, NEW b \in 1..k PROVE queue'[a] # queue'[L + b]
      BY ZenonT(30), <2>1, <2>2
  <2>8. ASSUME NEW a \in 1..k, NEW b \in 1..k, queue'[L + a] = queue'[L + b] PROVE L + a = L + b
      BY ZenonT(30), <2>1, <2>4, <2>8
  <2> QED BY <2>5, <2>6, <2>7, <2>8
<1>17. WaitsOnce'
  <2> SUFFICES ASSUME NEW i \in 1..Len(waiters'), NEW j \in 1..Len(waiters'),
                      waiters'[i].task = waiters'[j].task
               PROVE  i = j
      BY DEF WaitsOnce
  <2>1. /\ n + i \in 1..Len(waiters) /\ n + j \in 1..Len(waiters)
        /\ waiters[n + i].task = waiters[n + j].task
      BY SMTT(30), <1>0, <1>3 DEF TakeQueues
  <2>2. n + i = n + j
      BY <1>0, <2>1 DEF Once, WaitsOnce
  <2> QED BY <1>0, <1>3, <2>2
<1>18. TakenOnce'
    BY <1>0, <1>1, <1>4, <1>14 DEF Once, TakenOnce, Taken, WorkerType
<1>19. ExpiredOnce'
  <2>1. \A t \in Tasks : t \in expired'[w] => Passed(t, FALSE)
      BY <1>0, <1>2 DEF WorkerType, Passed
  <2>2. \A t \in Tasks, v \in Workers \ {w} : t \in expired'[v] => t \in expired[v] /\ Expiring(t)
      BY <1>0, <1>2 DEF WorkerType, Expiring
  <2> QED BY ZenonT(30), <1>0, <1>11, <1>14, <2>1, <2>2 DEF Once, ExpiredOnce
<1>21. HasTask' /\ InlineAdmitted'
  <2>1. HasTask'
      BY <1>0, <1>1, <1>4 DEF HasTask, WorkerType
  <2>2. InlineAdmitted'
      BY ZenonT(30), <1>0, <1>1 DEF InlineAdmitted, NotifySubmitter, AsleepClients, TypeOK, ClientType
  <2> QED BY <2>1, <2>2
<1>22. Once'
    BY <1>0, <1>1, <1>16, <1>17, <1>18, <1>19 DEF Once, SubmittedOnce, DoneOnce
<1> QED BY <1>15, <1>21, <1>22 DEF FateInv

(* Every step of every thread keeps each task in its one place. *)
LEMMA FateStep ==
    ASSUME TypeOK, SubmitsTask, FateInv, [Next]_vars
    PROVE  FateInv'
<1> USE DEF clientVars, threadVars, deadlineVars, historyVars
<1>0. OnePlace /\ Once /\ HasTask /\ Admitted /\ InlineAdmitted /\ WorkerType /\ ClientType
    BY DEF TypeOK, FateInv
<1>1. CASE UNCHANGED vars \/ Started \/ StartFails \/ StopEnd \/ Tick
  <2>1. UNCHANGED tasksVars /\ UNCHANGED <<accepted, cpc>>
      BY ZenonT(30), <1>1 DEF vars, tasksVars, Started, Start, StartFails, StopEnd, Tick
  <2>2. HasTask'
      BY <1>0, <1>1 DEF HasTask, vars, Started, Start, StartFails, StopEnd, Tick
  <2>3. InlineAdmitted'
      BY <1>0, <2>1 DEF InlineAdmitted, tasksVars
  <2> QED BY ZenonT(30), <2>1, <2>2, <2>3, QuietStep
<1>2. CASE StopBegin
  <2>1. waiters' = <<>> /\ UNCHANGED <<queue, wtask, expired, ctask, dtask, fresh, accepted, ran, timedOut>>
      BY <1>2 DEF StopBegin, NotifyDeadline
  <2>2. Shrinks("waiters") /\ WaitsOnce'
    <3>1. \A i \in 1..Len(waiters') : FALSE
        BY <2>1
    <3>2. \A t \in Tasks : ~Waiting(t)'
        BY <3>1 DEF Waiting
    <3>3. WaitsOnce'
        BY <3>1 DEF WaitsOnce
    <3> QED BY <3>2, <3>3 DEF Shrinks, At
  <2>3. fresh' \subseteq fresh
      BY <2>1
  <2>4. \A p \in Places : Shrinks(p)
      BY <2>1, <2>2, <2>3, Unmoved DEF Places
  <2>5. OnePlace' /\ Admitted'
      BY ZenonT(30), <1>0, <2>1, <2>4, NoMove
  <2>6. Once'
      BY <1>0, <2>1, <2>2 DEF Once, QueuedOnce, TakenOnce, ExpiredOnce, SubmittedOnce, DoneOnce
  <2>7. HasTask' /\ InlineAdmitted'
      BY <1>0, <1>2 DEF StopBegin, WakeAllWorkers, WakeAllClients, NotifyDeadline, HasTask, InlineAdmitted,
          WorkerType, ClientType
  <2> QED BY <2>5, <2>6, <2>7 DEF FateInv
<1>3. CASE DeadlineStep
    BY <1>3, DeadlineFate
<1>4. ASSUME NEW w \in Workers, WorkerStep(w) PROVE FateInv'
    BY <1>4, TakeFate, WorkerFate DEF WorkerStep
<1>5. ASSUME NEW c \in Clients, ClientStep(c) \/ (\E t \in Tasks : CallRun(c, t)) PROVE FateInv'
    BY <1>5, ClientFate
<1>6. ASSUME NEW t \in Tasks, TryRun(t) \/ (\E d \in 1..MaxTime : SubmitAsync(t, d)) PROVE FateInv'
    BY <1>6, SubmissionFate
<1> QED BY <1>1, <1>2, <1>3, <1>4, <1>5, <1>6 DEF Next, Started

(* At first every task is fresh. *)
LEMMA FateInit == Init => FateInv
<1> SUFFICES ASSUME Init PROVE FateInv
    OBVIOUS
<1>1. /\ fresh = Tasks /\ ctask = [c \in Clients |-> NoTask] /\ queue = <<>> /\ waiters = <<>>
      /\ wtask = [w \in Workers |-> NoTask] /\ expired = [w \in Workers |-> {}] /\ dtask = NoTask
      /\ ran = [t \in Tasks |-> 0] /\ timedOut = [t \in Tasks |-> 0] /\ NoTask \notin Tasks
    BY NoTaskAssumption DEF Init
<1>2. \A t \in Tasks : ~Submitting(t) /\ ~Queued(t) /\ ~Waiting(t) /\ ~Taken(t) /\ ~Expiring(t) /\ ~Done(t)
    BY <1>1 DEF Submitting, Queued, Waiting, Taken, Expiring, Done
<1>3. \A t \in Tasks, p \in Places : At(p, t) => p = "fresh"
    BY <1>1, <1>2 DEF At
<1>4. OnePlace /\ Admitted
    BY <1>3 DEF OnePlace, Admitted
<1>5. Once
    BY <1>1 DEF Once, QueuedOnce, WaitsOnce, TakenOnce, ExpiredOnce, SubmittedOnce, DoneOnce
<1>6. HasTask /\ InlineAdmitted
    BY DEF Init, HasTask, InlineAdmitted
<1> QED BY <1>4, <1>5, <1>6 DEF FateInv

(* A task is executed or timed out, once, and only if its submission       *)
(* returned true: of take(), the deadline thread and the callbacks only    *)
(* one ever gets a task.                                                   *)
THEOREM EachTaskOneFate == Spec => []OneFate
<1>1. IInv /\ FateInv => OneFate
  <2> SUFFICES ASSUME IInv, FateInv, NEW t \in Tasks
               PROVE  /\ ran[t] + timedOut[t] <= 1
                      /\ ran[t] + timedOut[t] = 1 => t \in accepted
      BY DEF OneFate
  <2>1. ran[t] + timedOut[t] <= 1
      BY ZenonT(30) DEF FateInv, Once, DoneOnce
  <2>2. ran[t] + timedOut[t] = 1 => t \in accepted
      BY DEF FateInv, Admitted, At, Done, Places
  <2> QED BY <2>1, <2>2
<1>2. Init => FateInv
    BY FateInit
<1>3. IInv /\ FateInv /\ [Next]_vars => FateInv'
    BY FateStep DEF IInv
<1> QED BY <1>1, <1>2, <1>3, InductiveInvariant, PTL DEF Spec

-----------------------------------------------------------------------------
(* The submitters in run() that are awake. *)
AwakeSubmitters == {c \in Clients : cpc[c] = "submit"}

(* Who sleeps on _not_full has found worker threads. *)
SleepsBesideWorkers == AsleepClients # {} => ~Inline

SubmitterInv == NoStrandedSubmitter /\ SleepsBesideWorkers

(* The number of awake submitters when one client moves. *)
LEMMA AwakeCount ==
    ASSUME ClientType, NEW c \in Clients, NEW at, cpc' = [cpc EXCEPT ![c] = at]
    PROVE  /\ Cardinality(AwakeSubmitters) \in Nat
           /\ cpc[c] # "submit" => Cardinality(AwakeSubmitters') >= Cardinality(AwakeSubmitters)
           /\ cpc[c] # "submit" /\ at = "submit" =>
                Cardinality(AwakeSubmitters') = Cardinality(AwakeSubmitters) + 1
           /\ cpc[c] = "submit" =>
                Cardinality(AwakeSubmitters') >= Cardinality(AwakeSubmitters) - 1
           /\ Cardinality(AwakeSubmitters') \in Nat
<1>1. IsFiniteSet(AwakeSubmitters) /\ IsFiniteSet(AwakeSubmitters')
  <2>1. AwakeSubmitters \subseteq Clients /\ AwakeSubmitters' \subseteq Clients
      BY DEF AwakeSubmitters
  <2> QED BY <2>1, WorkersAssumption, FS_Subset
<1>2. Cardinality(AwakeSubmitters) \in Nat /\ Cardinality(AwakeSubmitters') \in Nat
    BY <1>1, FS_CardinalityType
<1>3. CASE at = "submit"
  <2>1. AwakeSubmitters' = AwakeSubmitters \cup {c}
      BY <1>3 DEF AwakeSubmitters, ClientType
  <2>2. c \in AwakeSubmitters <=> cpc[c] = "submit"
      BY DEF AwakeSubmitters
  <2>3. Cardinality(AwakeSubmitters') =
          IF c \in AwakeSubmitters THEN Cardinality(AwakeSubmitters) ELSE Cardinality(AwakeSubmitters) + 1
      BY <1>1, <2>1, FS_AddElement
  <2> QED BY <1>2, <1>3, <2>2, <2>3
<1>4. CASE at # "submit"
  <2>1. AwakeSubmitters' = AwakeSubmitters \ {c}
      BY <1>4 DEF AwakeSubmitters, ClientType
  <2>2. c \in AwakeSubmitters <=> cpc[c] = "submit"
      BY DEF AwakeSubmitters
  <2>3. Cardinality(AwakeSubmitters') =
          IF c \in AwakeSubmitters THEN Cardinality(AwakeSubmitters) - 1 ELSE Cardinality(AwakeSubmitters)
      BY <1>1, <2>1, FS_RemoveElement
  <2> QED BY <1>2, <1>4, <2>2, <2>3
<1> QED BY <1>3, <1>4

(* The sleepers are among those of before. *)
LEMMA SleepersShrink ==
    ASSUME NEW x, NEW c \in Clients, ClientType, cpc' = [cpc EXCEPT ![c] = x], x # "asleep"
    PROVE  AsleepClients' \subseteq AsleepClients
  BY DEF AsleepClients, ClientType

(* Every step keeps the places of the queue owed to submitters that are    *)
(* awake.                                                                  *)
LEMMA SubmitterStep ==
    ASSUME IInv, SubmitterInv, [Next]_vars
    PROVE  SubmitterInv'
<1> USE DEF clientVars, threadVars, deadlineVars, historyVars
<1>0. /\ ClientType /\ WorkerType /\ queue \in Seq(Tasks) /\ Len(queue) \in Nat /\ MaxQueue \in Nat
      /\ Cardinality(AwakeSubmitters) \in Nat /\ Bounded
      /\ AsleepClients # {} =>
           /\ state = "running" /\ ~Inline /\ MaxQueue - Len(queue) <= Cardinality(AwakeSubmitters)
  <2>1. AwakeSubmitters \subseteq Clients
      BY DEF AwakeSubmitters
  <2>2. Cardinality(AwakeSubmitters) \in Nat
      BY <2>1, WorkersAssumption, FS_Subset, FS_CardinalityType
  <2> QED BY <2>2, SizeAssumption
          DEF IInv, TypeOK, QueueType, SubmitterInv, NoStrandedSubmitter, SleepsBesideWorkers, AwakeSubmitters
<1>1. ASSUME AsleepClients' # {} =>
               /\ state' = "running" /\ ~Inline'
               /\ MaxQueue - Len(queue') <= Cardinality(AwakeSubmitters')
      PROVE  SubmitterInv'
    BY <1>1 DEF SubmitterInv, NoStrandedSubmitter, SleepsBesideWorkers, AwakeSubmitters
<1>2. ASSUME UNCHANGED cpc, Len(queue') \in Nat, Len(queue') >= Len(queue), UNCHANGED state, ~Inline => ~Inline'
      PROVE  SubmitterInv'
  <2>1. AsleepClients' = AsleepClients /\ AwakeSubmitters' = AwakeSubmitters
      BY <1>2 DEF AsleepClients, AwakeSubmitters
  <2> QED BY <1>0, <1>1, <1>2, <2>1
<1>3. CASE Started \/ StartFails \/ StopEnd
  <2>1. AsleepClients' = AsleepClients /\ state # "running"
      BY <1>3 DEF Started, Start, StartFails, StopEnd, AsleepClients
  <2> QED BY <1>0, <1>1, <2>1
<1>4. CASE StopBegin
  <2>1. AsleepClients' = {}
      BY <1>0, <1>4 DEF StopBegin, WakeAllClients, AsleepClients, ClientType
  <2> QED BY <1>1, <2>1
<1>5. CASE UNCHANGED vars \/ Tick \/ DeadlineStep
  <2>1. UNCHANGED <<cpc, queue, state, wpc>>
      BY ZenonT(30), <1>5 DEF vars, Tick, DeadlineStep, DeadlineSleeps, DeadlineExits, DeadlineWaits, DeadlineWakes,
          DeadlineFires, DeadlineCallback
  <2> QED BY <1>0, <1>2, <2>1 DEF Inline
<1>6. ASSUME NEW w \in Workers, WorkerStep(w) PROVE SubmitterInv'
  <2>1. CASE TakeSleep(w) \/ TakeExit(w) \/ CallExpired(w) \/ FinishTask(w)
    <3>1. ~Inline => ~Inline'
        BY <1>0, <2>1 DEF TakeSleep, TakeExit, CallExpired, FinishTask, Inline, WorkerType
    <3> QED BY SMTT(30), <1>0, <1>2, <2>1, <3>1 DEF TakeSleep, TakeExit, CallExpired, FinishTask
  <2>2. CASE TakeTask(w)
    <3>1. ~Inline => ~Inline'
        BY <1>0, <2>2 DEF TakeTask, Inline, WorkerType
    <3>2. state' = state /\ NotifySubmitter
        BY <2>2 DEF TakeTask
    <3>3. Len(queue') \in Nat /\ Len(queue') >= Len(queue) - 1 /\ (MaxQueue > 0 => Len(queue') <= MaxQueue)
      <4>1. PICK n \in 0..Len(waiters), k \in 0..Len(waiters) : \E f \in [1..k -> 1..n] :
              /\ Refill(n, k, f)
              /\ queue' = Tail(queue) \o [i \in 1..k |-> waiters[f[i]].task]
              /\ waiters' = SubSeq(waiters, n + 1, Len(waiters))
          BY ZenonT(30), <2>2 DEF TakeTask
      <4>2. TypeOK /\ Bounded /\ queue # <<>>
          BY <2>2 DEF IInv, TakeTask
      <4>3. Bounded'
          BY ZenonT(30), <4>1, <4>2, RefillResult
      <4>4. Len(queue') = Len(queue) - 1 + k /\ Len(queue) > 0
          BY <4>1, <4>2, RefillElements DEF TakeQueues
      <4> QED BY <1>0, <4>3, <4>4 DEF Bounded
    <3>4. CASE UNCHANGED cpc
      <4>1. AsleepClients' = AsleepClients /\ AwakeSubmitters' = AwakeSubmitters
          BY <3>4 DEF AsleepClients, AwakeSubmitters
      <4>2. AsleepClients # {} => Len(queue') >= MaxQueue
          BY SMTT(30), <1>0, <3>2, <3>3, <3>4 DEF NotifySubmitter, AsleepClients, ClientType
      <4> QED BY SMTT(30), <1>0, <1>1, <3>1, <3>2, <3>3, <4>1, <4>2
    <3>5. ASSUME NEW c \in AsleepClients, cpc' = [cpc EXCEPT ![c] = "submit"] PROVE SubmitterInv'
      <4>1. c \in Clients /\ cpc[c] # "submit"
          BY DEF AsleepClients
      <4>2. Cardinality(AwakeSubmitters') = Cardinality(AwakeSubmitters) + 1
          BY ZenonT(30), <1>0, <3>5, <4>1, AwakeCount
      <4> QED BY SMTT(30), <1>0, <1>1, <3>1, <3>2, <3>3, <4>2
    <3> QED BY ZenonT(30), <3>2, <3>4, <3>5 DEF NotifySubmitter
  <2> QED BY ZenonT(30), <1>6, <2>1, <2>2 DEF WorkerStep
<1>7. ASSUME NEW t \in Tasks, Put(t)
      PROVE  Len(queue') = Len(queue) + 1 /\ (~Inline => ~Inline')
    BY <1>0, <1>7 DEF Put, NotifyWorker, AsleepWorkers, Inline, WorkerType
<1>8. ASSUME NEW t \in Tasks, TryRun(t) \/ (\E d \in 1..MaxTime : SubmitAsync(t, d)) PROVE SubmitterInv'
  <2>1. UNCHANGED <<state, cpc>>
      BY <1>8 DEF TryRun, SubmitAsync
  <2>2. CASE Put(t)
      BY SMTT(30), <1>0, <1>2, <1>7, <2>1, <2>2
  <2>3. CASE UNCHANGED <<queue, wpc>>
      BY SMTT(30), <1>0, <1>2, <2>1, <2>3 DEF Inline
  <2> QED BY ZenonT(30), <1>8, <2>2, <2>3 DEF TryRun, SubmitAsync
<1>9. ASSUME NEW c \in Clients, ClientStep(c) \/ (\E t \in Tasks : CallRun(c, t)) PROVE SubmitterInv'
  <2>1. CASE (\E t \in Tasks : CallRun(c, t)) \/ RunRejected(c) \/ FinishInline(c)
    <3>1. /\ UNCHANGED <<state, queue, wpc>> /\ (cpc[c] # "submit" \/ state # "running")
          /\ \E at \in {"idle", "submit"} : cpc' = [cpc EXCEPT ![c] = at]
        BY <2>1 DEF CallRun, RunRejected, FinishInline, ReturnFromRun
    <3>2. AsleepClients' \subseteq AsleepClients
        BY ZenonT(30), <1>0, <3>1, SleepersShrink
    <3>3. cpc[c] # "submit" => Cardinality(AwakeSubmitters') >= Cardinality(AwakeSubmitters)
                                 /\ Cardinality(AwakeSubmitters') \in Nat
        BY ZenonT(30), <1>0, <3>1, AwakeCount
    <3>4. Inline' = Inline
        BY <3>1 DEF Inline
    <3> QED BY SMTT(30), <1>0, <1>1, <3>1, <3>2, <3>3, <3>4
  <2>2. CASE RunSleeps(c)
    <3>1. UNCHANGED <<state, queue, wpc>> /\ state = "running" /\ ~Inline /\ IsFull /\ cpc' = [cpc EXCEPT ![c] = "asleep"]
        BY <2>2 DEF RunSleeps
    <3>2. Cardinality(AwakeSubmitters') \in Nat
        BY ZenonT(30), <1>0, <3>1, AwakeCount
    <3>3. ~Inline' /\ MaxQueue - Len(queue') <= 0
        BY <1>0, <3>1 DEF Inline, IsFull
    <3> QED BY SMTT(30), <1>0, <1>1, <3>1, <3>2, <3>3
  <2>3. CASE RunInline(c)
    <3>1. Inline /\ cpc' = [cpc EXCEPT ![c] = "inline"]
        BY <2>3 DEF RunInline
    <3>2. AsleepClients' \subseteq AsleepClients
        BY ZenonT(30), <1>0, <3>1, SleepersShrink
    <3> QED BY ZenonT(30), <1>0, <1>1, <3>1, <3>2
  <2>4. CASE RunQueued(c)
    <3>1. Put(ctask[c]) /\ UNCHANGED state /\ cpc' = [cpc EXCEPT ![c] = "idle"] /\ cpc[c] = "submit" /\ ctask[c] \in Tasks
        BY <2>4 DEF RunQueued, ReturnFromRun, IInv, SubmitsTask
    <3>2. AsleepClients' \subseteq AsleepClients
        BY ZenonT(30), <1>0, <3>1, SleepersShrink
    <3>3. Cardinality(AwakeSubmitters') >= Cardinality(AwakeSubmitters) - 1 /\ Cardinality(AwakeSubmitters') \in Nat
        BY ZenonT(30), <1>0, <3>1, AwakeCount
    <3>4. Len(queue') = Len(queue) + 1 /\ (~Inline => ~Inline')
        BY <1>7, <3>1
    <3> QED BY SMTT(30), <1>0, <1>1, <3>1, <3>2, <3>3, <3>4
  <2> QED BY ZenonT(30), <1>9, <2>1, <2>2, <2>3, <2>4 DEF ClientStep
<1> QED BY ZenonT(30), <1>3, <1>4, <1>5, <1>6, <1>8, <1>9 DEF Next, Started

(* While a submitter sleeps in run(), as many are awake as the queue has   *)
(* free places: a place that take() frees and does not refill goes to a    *)
(* submitter, for any number of them.                                      *)
THEOREM SubmittersNotStranded == Spec => []NoStrandedSubmitter
<1>1. Init => SubmitterInv
    BY DEF Init, SubmitterInv, NoStrandedSubmitter, SleepsBesideWorkers, AsleepClients
<1>2. SubmitterInv => NoStrandedSubmitter
    BY DEF SubmitterInv
<1> QED BY <1>1, <1>2, SubmitterStep, InductiveInvariant, PTL DEF Spec
=============================================================================
