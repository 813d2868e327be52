---------------------------- MODULE DiskTransfers ----------------------------
(***************************************************************************)
(* Uploads and downloads that share one disk executor, on the loops of     *)
(* their connections, while connections go down and the server stops.      *)
(***************************************************************************)
EXTENDS AsyncFileSource

vars == <<diskVars, linkVars, receiverVars, sourceVars>>

Init == DiskInit /\ ReceiverInit /\ SourceInit

(* The cancel hook of a registration, and what a session calls. *)
CancelTransfer(t) ==
    IF t \in Sources THEN CancelSource(t)
    ELSE Cancel(t) /\ UNCHANGED <<loopq, sourceVars>>

(* begin_shutdown() calls the next cancellation. *)
CancelNext(t) ==
    /\ t \in toCancel /\ toCancel' = toCancel \ {t}
    /\ CancelTransfer(t)
    /\ UNCHANGED <<phase, registered, poolVars, file, terminated, linkVars, receiverVars>>

(* The connection goes down: on_connection() cancels the transfer. *)
ConnectionDown(t) ==
    /\ t \in conn /\ stage[t] = "live"
    /\ conn' = conn \ {t} /\ doomed' = doomed \ {t}
    /\ CancelTransfer(t)
    /\ UNCHANGED <<executorVars, poolVars, file, terminated, stage, receiverVars>>

ExecutorStep(t) ==
    /\ CancelNext(t) \/ (PostCleanup(t) /\ UNCHANGED <<linkVars, receiverVars, sourceVars>>)

WorkerStep(w) ==
    \/ (Take(w) \/ RunCleanup(w) \/ SettleEnding(w) \/ CloseFile(w) \/ FinishCleanup(w) \/ Release(w))
         /\ UNCHANGED <<linkVars, receiverVars, sourceVars>>
    \/ ((\E fails \in BOOLEAN : Execute(w, fails)) \/ ExecuteSettles(w) \/ ExecuteFinishes(w))
         /\ UNCHANGED sourceVars
    \/ (\E fails \in BOOLEAN : RunSource(w, fails)) \/ SourceSettles(w) \/ SourceFinishes(w)

LoopStep(t) ==
    \/ (CreateSubmits(t) \/ OnResult(t)) /\ UNCHANGED sourceVars
    \/ t \in Sources /\ (OpenSubmits(t) \/ OnSourceFunctor(t))

StopStep == (StopPool \/ StopDone) /\ UNCHANGED <<linkVars, receiverVars, sourceVars>>

Next ==
    \/ (Start \/ BeginShutdown) /\ UNCHANGED <<linkVars, receiverVars, sourceVars>>
    \/ StopStep
    \/ \E w \in Workers : WorkerStep(w)
    \/ \E t \in Transfers : ExecutorStep(t) \/ LoopStep(t) \/ ConnectionDown(t)
    \/ \E t \in Transfers : (Attach(t) \/ Consume(t)) /\ UNCHANGED sourceVars
    \/ \E s \in Sources : Request(s) \/ Sent(s)

Spec == Init /\ [][Next]_vars

(* The threads of the program do not all stop while one of them can run:   *)
(* workers, loops, the caller of begin_shutdown() and the one of stop()    *)
(* after it; a queued force_close() is executed. No fairness among them is *)
(* needed, since every transfer takes finitely many steps.                 *)
Runs ==
    \/ StopStep
    \/ \E w \in Workers : WorkerStep(w)
    \/ \E t \in Transfers :
         ExecutorStep(t) \/ LoopStep(t) \/ (t \in doomed /\ ConnectionDown(t))

Fairness == WF_vars(Runs)

FairSpec == Spec /\ Fairness

-----------------------------------------------------------------------------
(* The comment in cancel() says why its post() cannot be refused; a        *)
(* refusal would end the process. With it: no more tasks are queued than   *)
(* transfers registered, and each transfer has at most one task.           *)
CleanupNeverRefused ==
    /\ ~terminated
    /\ Len(poolq) <= Cardinality(registered)

(* A file is only touched by one worker at a time, whatever is cancelled   *)
(* while an operation runs, and is closed when its transfer is released:   *)
(* nobody works for it, or posts its result to a loop, after the release,  *)
(* so stop() may return and loops and database may go away.                *)
FileHasOneWorker ==
    /\ \A v, w \in Workers :
         work[v].at \in {"run", "close"} /\ work[w].at \in {"run", "close"} /\ work[v].t = work[w].t
             => v = w
    /\ \A w \in Workers : work[w].at # "idle" /\ ~(work[w].at = "settle" /\ ~Ending(work[w]))
             => work[w].t \in registered
    /\ \A t \in Transfers \ registered : file[t] # "open"

(* Each read request is answered exactly once: by the worker, by cancel()  *)
(* or by request() itself, and a completion still held has a worker coming *)
(* for it.                                                                 *)
ReadAnsweredOnce ==
    \A s \in Sources :
        /\ requested[s] = answers[s] + (IF s \in held THEN 1 ELSE 0)
        /\ s \in held => s \in busy \cap registered

(* An object is published at most once, and only with the whole body on    *)
(* the disk; done() is called only for a published one.                    *)
PublishedWhole ==
    \A r \in Receivers :
        /\ published[r] <= 1
        /\ published[r] = 1 => written[r] = size[r]
        /\ outcome[r] = "done" => published[r] = 1

(* stop() returns: every registered transfer, whatever it was doing when   *)
(* it was cancelled, is released. And a connection that pauses reading for *)
(* the disk reads again, also when the operation failed, unless it is      *)
(* closed or the server stops.                                             *)
TransfersProgress ==
    /\ phase = "closing" ~> phase = "stopped"
    /\ \A r \in Receivers :
         r \in paused ~> (r \notin paused \cap conn \/ phase \in {"closing", "pool", "stopped"})
=============================================================================
