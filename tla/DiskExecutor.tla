---------------------------- MODULE DiskExecutor ----------------------------
(***************************************************************************)
(* The disk executor (src/ftp/disk_executor.cpp, inc/ftp/disk_executor.h)  *)
(* and the part of a transfer's State that the receiver and the source     *)
(* have in common: the flags under State::mutex, the file only workers may *)
(* touch, the single task in flight and the cleanup cancel() posts.        *)
(*                                                                         *)
(* The thread pool is a bounded queue and workers that take from it, as    *)
(* ThreadPool.tla has it without a wait queue. The sets busy, cancelled    *)
(* and terminal hold the transfers whose flag is set; post_enabled is the  *)
(* negation of cancelled, with which it changes.                           *)
(***************************************************************************)
EXTENDS Integers, Sequences, FiniteSets

CONSTANTS
    Receivers,      \* uploads: AsyncReceiver
    Sources,        \* downloads: AsyncFileSource
    Workers,        \* threads of the pool
    MaxReceivers,   \* kMaxReceivers, also the size of the pool's queue
    NoTransfer

ASSUME TransfersAssumption == Receivers \cap Sources = {} /\ NoTransfer \notin Receivers \cup Sources
ASSUME MaxReceiversAssumption == MaxReceivers \in Nat \ {0}

Transfers == Receivers \cup Sources

VARIABLES
    phase,        \* _phase, with "pool" while stop() is inside _pool.stop()
    registered,   \* _receivers
    toCancel,     \* begin_shutdown(): cancellations still to be called
    poolq,        \* the pool's queue: [t, op]
    work,         \* worker -> [t, op, at, err]
    busy, cancelled, terminal,
    cleaning,     \* cancel() is about to post the cleanup
    file,         \* transfer -> "none", "open", "closed"
    loopq,        \* transfer -> results queued to its loop: [op, err]
    terminated    \* std::terminate() was called

stateVars == <<busy, cancelled, terminal, cleaning>>
poolVars == <<poolq, work>>
executorVars == <<phase, registered, toCancel>>
diskVars == <<executorVars, poolVars, stateVars, file, loopq, terminated>>

IdleWorker == [t |-> NoTransfer, op |-> "none", at |-> "idle", err |-> FALSE]

DiskInit ==
    /\ phase = "created" /\ registered = {} /\ toCancel = {} /\ poolq = <<>>
    /\ work = [w \in Workers |-> IdleWorker]
    /\ busy = {} /\ cancelled = {} /\ terminal = {} /\ cleaning = {}
    /\ file = [t \in Transfers |-> "none"] /\ loopq = [t \in Transfers |-> <<>>]
    /\ terminated = FALSE

-----------------------------------------------------------------------------
(* start(), with threads or failing to create one. *)
Start ==
    /\ phase = "created" /\ phase' \in {"running", "stopped"}
    /\ UNCHANGED <<registered, toCancel, poolVars, stateVars, file, loopq, terminated>>

(* Variant: one transfer too many. *)
CanAttach_OffByOne == phase = "running" /\ Cardinality(registered) <= MaxReceivers

(* attach(): whether a transfer is registered. *)
CanAttach == phase = "running" /\ Cardinality(registered) < MaxReceivers

(* post(): whether a task is accepted. *)
Accepts(cleanup) ==
    /\ phase = "running" \/ (cleanup /\ phase = "closing")
    /\ Len(poolq) < MaxReceivers

Enqueue(t, op) == poolq' = Append(poolq, [t |-> t, op |-> op])

(* Variant: the transfers registered so far are not cancelled. *)
BeginShutdown_NoCancel ==
    /\ phase \in {"created", "running"}
    /\ phase' = "closing" /\ UNCHANGED toCancel
    /\ UNCHANGED <<registered, poolVars, stateVars, file, loopq, terminated>>

(* begin_shutdown(): the registrations are copied under the lock, and no   *)
(* other can follow; the cancellations are called later, without it.       *)
BeginShutdown ==
    /\ phase \in {"created", "running"}
    /\ phase' = "closing" /\ toCancel' = registered
    /\ UNCHANGED <<registered, poolVars, stateVars, file, loopq, terminated>>

(* stop(): waits until every transfer is released, then stops the pool,    *)
(* which executes what is queued.                                          *)
StopPool ==
    /\ phase = "closing" /\ registered = {}
    /\ phase' = "pool"
    /\ UNCHANGED <<registered, toCancel, poolVars, stateVars, file, loopq, terminated>>

StopDone ==
    /\ phase = "pool" /\ poolq = <<>> /\ \A w \in Workers : work[w] = IdleWorker
    /\ phase' = "stopped"
    /\ UNCHANGED <<registered, toCancel, poolVars, stateVars, file, loopq, terminated>>

-----------------------------------------------------------------------------
(* State::launch(): whether a task of the transfer is accepted; a transfer *)
(* that cannot launch is cancelled by launch() itself or already is.       *)
CanLaunch(t) == t \notin cancelled \cup terminal \cup busy /\ Accepts(FALSE)

Launch(t, op) == Enqueue(t, op) /\ busy' = busy \cup {t} /\ UNCHANGED <<cancelled, terminal, cleaning>>

(* Variant: does not look whether a task is in flight. *)
Cancel_IgnoresBusy(t) ==
    /\ cancelled' = cancelled \cup {t}
    /\ IF t \notin registered \/ t \in terminal \cup cleaning
         THEN UNCHANGED <<busy, cleaning>>
         ELSE busy' = busy \cup {t} /\ cleaning' = cleaning \cup {t}
    /\ UNCHANGED terminal

(* State::cancel(), its critical section. With a task in flight that task  *)
(* will clean up, otherwise a cleanup task is due.                         *)
Cancel(t) ==
    /\ cancelled' = cancelled \cup {t}
    /\ IF t \notin registered \/ t \in terminal \cup busy
         THEN UNCHANGED <<busy, cleaning>>
         ELSE busy' = busy \cup {t} /\ cleaning' = cleaning \cup {t}
    /\ UNCHANGED terminal

(* The rest of cancel(), outside the lock: a refusal ends the process. *)
PostCleanup(t) ==
    /\ t \in cleaning /\ cleaning' = cleaning \ {t}
    /\ IF Accepts(TRUE)
         THEN Enqueue(t, "cleanup") /\ UNCHANGED terminated
         ELSE terminated' = TRUE /\ UNCHANGED poolq
    /\ UNCHANGED <<executorVars, work, busy, cancelled, terminal, file, loopq>>

-----------------------------------------------------------------------------
(* A worker. *)
Take(w) ==
    /\ work[w] = IdleWorker /\ poolq # <<>>
    /\ work' = [work EXCEPT ![w] = [t |-> Head(poolq).t, op |-> Head(poolq).op, at |-> "run", err |-> FALSE]]
    /\ poolq' = Tail(poolq)
    /\ UNCHANGED <<executorVars, stateVars, file, loopq, terminated>>

(* The cleanup task: no result, only the end of the transfer. *)
RunCleanup(w) ==
    /\ work[w].at = "run" /\ work[w].op = "cleanup"
    /\ terminal' = terminal \cup {work[w].t}
    /\ work' = [work EXCEPT ![w].at = "close"]
    /\ UNCHANGED <<executorVars, poolq, busy, cancelled, cleaning, file, loopq, terminated>>

(* The first critical section after an operation, if it ends the transfer. *)
Ending(k) == k.t \in cancelled \/ k.err \/ k.op = "finish"

SettleEnding(w) ==
    /\ work[w].at = "settle" /\ Ending(work[w])
    /\ terminal' = terminal \cup {work[w].t}
    /\ work' = [work EXCEPT ![w].at = "close"]
    /\ UNCHANGED <<executorVars, poolq, busy, cancelled, cleaning, file, loopq, terminated>>

(* The file is closed without the lock. *)
CloseFile(w) ==
    /\ work[w].at = "close"
    /\ file' = [file EXCEPT ![work[w].t] = IF @ = "open" THEN "closed" ELSE @]
    /\ work' = [work EXCEPT ![w].at = "finish"]
    /\ UNCHANGED <<executorVars, poolq, stateVars, loopq, terminated>>

(* The critical section that posts the result: busy is reset. *)
NotBusy(t) == busy' = busy \ {t} /\ UNCHANGED <<cancelled, terminal, cleaning>>

(* post_result_locked() *)
PostResult(k) ==
    loopq' = IF k.t \in cancelled THEN loopq
             ELSE [loopq EXCEPT ![k.t] = Append(@, [op |-> k.op, err |-> k.err])]

FinishCleanup(w) ==
    /\ work[w].at = "finish" /\ work[w].op = "cleanup"
    /\ NotBusy(work[w].t)
    /\ work' = [work EXCEPT ![w].at = "release"]
    /\ UNCHANGED <<executorVars, poolq, file, loopq, terminated>>

(* release() *)
Release(w) ==
    /\ work[w].at = "release"
    /\ registered' = registered \ {work[w].t}
    /\ work' = [work EXCEPT ![w] = IdleWorker]
    /\ UNCHANGED <<phase, toCancel, poolq, stateVars, file, loopq, terminated>>
=============================================================================
