-------------------------- MODULE AsyncFileReceiver --------------------------
(***************************************************************************)
(* An upload's receiver (src/ftp/async_file_receiver.cpp), driven by       *)
(* UploadTask (src/ftp/upload_engine.cpp): create, one block of the body   *)
(* at a time with reading paused meanwhile, finish.                        *)
(*                                                                         *)
(* Handlers of the connection's loop are single steps. A cancellation that *)
(* falls between a handler's look at State and its launch() has the effect *)
(* of one that comes right after the handler.                              *)
(***************************************************************************)
EXTENDS DiskExecutor

CONSTANT MaxBlocks    \* bound: blocks of an upload's body

ASSUME MaxBlocksAssumption == MaxBlocks \in Nat

VARIABLES
    stage,       \* transfer -> "fresh", "attached", "live", "gone"
    conn,        \* transfers whose connection is connected
    doomed,      \* those for which force_close() is queued
    paused,      \* receivers that pause reading for the disk
    size,        \* receiver -> blocks of the body
    remaining,   \* receiver -> blocks not taken from the buffer yet
    lbusy, lterminal, finishing,   \* _busy, _terminal, _finish_requested
    outcome,     \* receiver -> "none", "done", "failed"
    written,     \* history: receiver -> blocks on the disk
    published    \* history: receiver -> times the finalizer succeeded

linkVars == <<stage, conn, doomed>>
loopVars == <<paused, remaining, lbusy, lterminal, finishing, outcome>>
objectVars == <<size, written, published>>
receiverVars == <<loopVars, objectVars>>

ReceiverInit ==
    /\ stage = [t \in Transfers |-> "fresh"] /\ conn = Transfers /\ doomed = {}
    /\ size \in [Receivers -> 0..MaxBlocks] /\ paused = {} /\ remaining = size
    /\ lbusy = {} /\ lterminal = {} /\ finishing = {}
    /\ outcome = [r \in Receivers |-> "none"]
    /\ written = [r \in Receivers |-> 0] /\ published = [r \in Receivers |-> 0]

(* create() up to attach(), which may refuse: also AsyncFileSource::open(). *)
Attach(t) ==
    /\ stage[t] = "fresh" /\ t \in conn
    /\ IF CanAttach
         THEN stage' = [stage EXCEPT ![t] = "attached"] /\ registered' = registered \cup {t}
         ELSE stage' = [stage EXCEPT ![t] = "gone"] /\ UNCHANGED registered
    /\ UNCHANGED <<phase, toCancel, poolVars, stateVars, file, loopq, terminated, conn, doomed, receiverVars>>

(* submit() whose launch() succeeds, after a handler that reset _busy. *)
Submit(r, op) ==
    /\ Launch(r, op)
    /\ lbusy' = lbusy \cup {r} /\ paused' = paused \cup {r}

(* report_error(): failed() tells the session, which drops the transfer or *)
(* closes the connection.                                                  *)
ReportError(r) ==
    /\ Cancel(r) /\ UNCHANGED poolq
    /\ lterminal' = lterminal \cup {r} /\ lbusy' = lbusy \ {r} /\ paused' = paused \ {r}
    /\ outcome' = [outcome EXCEPT ![r] = "failed"]
    /\ doomed' \in {doomed, doomed \cup {r}}

(* create() from submit(initialize) on. *)
CreateSubmits(r) ==
    /\ stage[r] = "attached" /\ r \in Receivers
    /\ IF CanLaunch(r)
         THEN /\ Submit(r, "initialize") /\ stage' = [stage EXCEPT ![r] = "live"]
              /\ UNCHANGED outcome
         ELSE /\ Cancel(r) /\ stage' = [stage EXCEPT ![r] = "gone"]
              /\ outcome' = [outcome EXCEPT ![r] = "failed"]
              /\ UNCHANGED <<poolq, lbusy, paused>>
    /\ UNCHANGED <<executorVars, work, file, loopq, terminated, conn, doomed, remaining, lterminal,
                   finishing, objectVars>>

Ready(r) == stage[r] = "live" /\ r \in conn \ (paused \cup doomed \cup finishing \cup lterminal)

(* UploadTask::consume(): feed() and, with the last block, finish(), which *)
(* leaves the submission to the block's completion. An exception closes    *)
(* the connection.                                                         *)
Consume(r) ==
    /\ r \in Receivers /\ Ready(r) /\ remaining[r] > 0
    /\ IF CanLaunch(r)
         THEN /\ Submit(r, "write")
              /\ remaining' = [remaining EXCEPT ![r] = @ - 1]
              /\ finishing' = IF remaining[r] = 1 THEN finishing \cup {r} ELSE finishing
              /\ UNCHANGED doomed
         ELSE /\ Cancel(r) /\ doomed' = doomed \cup {r}
              /\ paused' = IF r \in cancelled THEN paused ELSE paused \cup {r}
              /\ UNCHANGED <<poolq, lbusy, remaining, finishing>>
    /\ UNCHANGED <<executorVars, work, file, loopq, terminated, stage, conn, lterminal, outcome, objectVars>>

-----------------------------------------------------------------------------

(* on_result() without an error. The end of the body, and of the creation  *)
(* for an empty one, submit finish; otherwise reading resumes.             *)
Completed(r, op) ==
    IF op = "finish"
      THEN /\ lterminal' = lterminal \cup {r} /\ lbusy' = lbusy \ {r} /\ paused' = paused \ {r}
           /\ outcome' = [outcome EXCEPT ![r] = "done"]
           /\ UNCHANGED <<poolq, stateVars, finishing, doomed>>
    ELSE IF r \in finishing \/ size[r] = 0
      THEN /\ finishing' = finishing \cup {r}
           /\ IF CanLaunch(r)
                THEN Submit(r, "finish") /\ UNCHANGED <<lterminal, outcome, doomed>>
                ELSE ReportError(r)
      ELSE /\ lbusy' = lbusy \ {r} /\ paused' = paused \ {r}
           /\ UNCHANGED <<poolq, stateVars, lterminal, finishing, outcome, doomed>>

(* on_result(): a result that was queued before a cancellation is ignored. *)
OnResult(r) ==
    /\ r \in Receivers /\ loopq[r] # <<>>
    /\ loopq' = [loopq EXCEPT ![r] = Tail(@)]
    /\ IF r \in lterminal \cup cancelled
         THEN UNCHANGED <<poolq, stateVars, lbusy, lterminal, paused, finishing, outcome, doomed>>
       ELSE IF r \notin conn
         THEN Cancel(r) /\ UNCHANGED <<poolq, lbusy, lterminal, paused, finishing, outcome, doomed>>
       ELSE IF Head(loopq[r]).err
         THEN ReportError(r) /\ UNCHANGED finishing
         ELSE Completed(r, Head(loopq[r]).op)
    /\ UNCHANGED <<executorVars, work, file, terminated, stage, conn, remaining, objectVars>>

-----------------------------------------------------------------------------
(* Variant: a failed append is not recorded. *)
Execute_SwallowsError(w, fails) ==
    LET r == work[w].t  skip == r \in cancelled  good == ~skip /\ ~fails IN
    /\ work[w].at = "run" /\ r \in Receivers /\ work[w].op # "cleanup"
    /\ skip => ~fails
    /\ file' = IF good /\ work[w].op = "initialize" THEN [file EXCEPT ![r] = "open"] ELSE file
    /\ written' = IF good /\ work[w].op = "write" THEN [written EXCEPT ![r] = @ + 1] ELSE written
    /\ published' = IF good /\ work[w].op = "finish" THEN [published EXCEPT ![r] = @ + 1] ELSE published
    /\ work' = [work EXCEPT ![w].at = "settle", ![w].err = fails /\ work[w].op # "write"]
    /\ UNCHANGED <<executorVars, poolq, stateVars, loopq, terminated, linkVars, loopVars, size>>

(* execute() on a worker: the factory, one append or the finalizer, each   *)
(* of which may fail; nothing is done for a cancelled transfer.            *)
Execute(w, fails) ==
    LET r == work[w].t  skip == r \in cancelled  good == ~skip /\ ~fails IN
    /\ work[w].at = "run" /\ r \in Receivers /\ work[w].op # "cleanup"
    /\ skip => ~fails
    /\ file' = IF good /\ work[w].op = "initialize" THEN [file EXCEPT ![r] = "open"] ELSE file
    /\ written' = IF good /\ work[w].op = "write" THEN [written EXCEPT ![r] = @ + 1] ELSE written
    /\ published' = IF good /\ work[w].op = "finish" THEN [published EXCEPT ![r] = @ + 1] ELSE published
    /\ work' = [work EXCEPT ![w].at = "settle", ![w].err = fails]
    /\ UNCHANGED <<executorVars, poolq, stateVars, loopq, terminated, linkVars, loopVars, size>>

(* The end of execute() when the transfer goes on, and when it does not. *)
ExecuteSettles(w) ==
    /\ work[w].at = "settle" /\ ~Ending(work[w]) /\ work[w].t \in Receivers
    /\ NotBusy(work[w].t) /\ PostResult(work[w])
    /\ work' = [work EXCEPT ![w] = IdleWorker]
    /\ UNCHANGED <<executorVars, poolq, file, terminated, linkVars, receiverVars>>

ExecuteFinishes(w) ==
    /\ work[w].at = "finish" /\ work[w].t \in Receivers /\ work[w].op # "cleanup"
    /\ NotBusy(work[w].t) /\ PostResult(work[w])
    /\ work' = [work EXCEPT ![w].at = "release"]
    /\ UNCHANGED <<executorVars, poolq, file, terminated, linkVars, receiverVars>>
=============================================================================
