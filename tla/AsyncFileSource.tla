-------------------------- MODULE AsyncFileSource --------------------------
(***************************************************************************)
(* A download's source (src/ftp/async_file_source.cpp), driven by          *)
(* DownloadTask (src/ftp/download_engine.cpp) and the write scheduler,     *)
(* which has one read request outstanding at a time and learns the outcome *)
(* of each through its completion.                                         *)
(***************************************************************************)
EXTENDS AsyncFileReceiver

CONSTANT MaxReads    \* source -> read requests its file takes

ASSUME MaxReadsAssumption == MaxReads \in [Sources -> Nat]

VARIABLES
    opened,      \* sources whose reader is in use (on_opened() ran)
    held,        \* sources whose State holds a completion
    requested,   \* source -> requests made
    answers      \* history: source -> completions posted

sourceVars == <<opened, held, requested, answers>>

SourceInit ==
    /\ opened = {} /\ held = {}
    /\ requested = [s \in Sources |-> 0] /\ answers = [s \in Sources |-> 0]

(* open() from launch_initialize() on. *)
OpenSubmits(s) ==
    /\ stage[s] = "attached" /\ s \in Sources
    /\ IF CanLaunch(s)
         THEN Launch(s, "initialize") /\ stage' = [stage EXCEPT ![s] = "live"]
         ELSE Cancel(s) /\ stage' = [stage EXCEPT ![s] = "gone"] /\ UNCHANGED poolq
    /\ UNCHANGED <<executorVars, work, file, loopq, terminated, conn, doomed, receiverVars, sourceVars>>

(* post_read_locked() *)
Answer(s, err) ==
    /\ loopq' = [loopq EXCEPT ![s] = Append(@, [op |-> "read", err |-> err])]
    /\ answers' = [answers EXCEPT ![s] = @ + 1]

(* Variant: the completion is not taken out of State. *)
CancelSource_KeepsCompletion(s) ==
    /\ Cancel(s) /\ UNCHANGED held
    /\ IF s \in held THEN Answer(s, TRUE) ELSE UNCHANGED <<loopq, answers>>
    /\ UNCHANGED <<opened, requested>>

(* cancel() also answers a read whose worker may be blocked in pread().    *)
CancelSource(s) ==
    /\ Cancel(s) /\ held' = held \ {s}
    /\ IF s \in held THEN Answer(s, TRUE) ELSE UNCHANGED <<loopq, answers>>
    /\ UNCHANGED <<opened, requested>>

(* request(): a refused one is answered at once. *)
Request(s) ==
    /\ s \in opened \cap conn /\ requested[s] < MaxReads[s] /\ loopq[s] = <<>> /\ s \notin held
    /\ requested' = [requested EXCEPT ![s] = @ + 1]
    /\ IF CanLaunch(s)
         THEN Launch(s, "read") /\ held' = held \cup {s} /\ UNCHANGED <<loopq, answers>>
         ELSE /\ Answer(s, TRUE) /\ UNCHANGED <<poolq, held>>
              /\ IF s \in cancelled \cup terminal \cup busy THEN UNCHANGED stateVars ELSE Cancel(s)
    /\ UNCHANGED <<executorVars, work, file, terminated, linkVars, receiverVars, opened>>

(* A queued functor of the source: on_opened(), or a completion. Errors    *)
(* end the download and, as on_sent() asks, the connection.                *)
OnSourceFunctor(s) ==
    LET result == Head(loopq[s]) IN
    /\ s \in Sources /\ loopq[s] # <<>>
    /\ loopq' = [loopq EXCEPT ![s] = Tail(@)]
    /\ IF s \in cancelled
         THEN UNCHANGED <<stateVars, opened>> /\ doomed' \in {doomed, doomed \cup {s}}
       ELSE IF s \notin conn \/ result.err
         THEN Cancel(s) /\ UNCHANGED opened /\ doomed' \in {doomed, doomed \cup {s}}
         ELSE opened' = opened \cup {s} /\ UNCHANGED <<stateVars, doomed>>
    /\ UNCHANGED <<executorVars, poolVars, file, terminated, stage, conn, receiverVars, held, requested,
                   answers>>

(* The file has been sent: its callback cancels the source. *)
Sent(s) ==
    /\ s \in opened /\ requested[s] = MaxReads[s] /\ loopq[s] = <<>> /\ s \notin held \cup cancelled
    /\ CancelSource(s)
    /\ UNCHANGED <<executorVars, poolVars, file, terminated, linkVars, receiverVars>>

-----------------------------------------------------------------------------
(* run_initialize() and run_read() on a worker. A read of a cancelled      *)
(* source is an error.                                                     *)
RunSource(w, fails) ==
    LET s == work[w].t  skip == s \in cancelled IN
    /\ work[w].at = "run" /\ s \in Sources /\ work[w].op # "cleanup"
    /\ skip => (fails <=> work[w].op = "read")
    /\ file' = IF work[w].op = "initialize" /\ ~skip /\ ~fails THEN [file EXCEPT ![s] = "open"] ELSE file
    /\ work' = [work EXCEPT ![w].at = "settle", ![w].err = fails]
    /\ UNCHANGED <<executorVars, poolq, stateVars, loopq, terminated, linkVars, receiverVars, sourceVars>>

(* Posting the result: of initialize as a receiver does, of a read if its  *)
(* completion has not been answered by cancel().                           *)
PostSource(k) ==
    IF k.op = "initialize"
      THEN PostResult(k) /\ UNCHANGED <<held, answers>>
      ELSE /\ held' = held \ {k.t}
           /\ IF k.t \in held THEN Answer(k.t, k.err) ELSE UNCHANGED <<loopq, answers>>

SourceSettles(w) ==
    /\ work[w].at = "settle" /\ ~Ending(work[w]) /\ work[w].t \in Sources
    /\ NotBusy(work[w].t) /\ PostSource(work[w])
    /\ work' = [work EXCEPT ![w] = IdleWorker]
    /\ UNCHANGED <<executorVars, poolq, file, terminated, linkVars, receiverVars, opened, requested>>

SourceFinishes(w) ==
    /\ work[w].at = "finish" /\ work[w].t \in Sources /\ work[w].op # "cleanup"
    /\ NotBusy(work[w].t) /\ PostSource(work[w])
    /\ work' = [work EXCEPT ![w].at = "release"]
    /\ UNCHANGED <<executorVars, poolq, file, terminated, linkVars, receiverVars, opened, requested>>
=============================================================================
