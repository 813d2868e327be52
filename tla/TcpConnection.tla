---------------------------- MODULE TcpConnection ----------------------------
(***************************************************************************)
(* One connection (src/common/net/tcp_connection.cpp) with its send queue, *)
(* as the file server configures it (StorageService::on_connection():      *)
(* stop_read() at the high-water mark, start_read() once drained).         *)
(*                                                                         *)
(* Everything runs on the connection's loop thread. A call from another    *)
(* thread is queued there and is the action of the same name taken later.  *)
(* functors holds the callbacks the connection itself queues. While        *)
(* on_writable() runs, writing is TRUE and nothing else does.              *)
(***************************************************************************)
EXTENDS WriteScheduler
LOCAL INSTANCE SequencesExt

CONSTANTS
    Tokens,       \* disk receivers that pause reading
    MaxSends,     \* bound: messages sent from memory
    SendSizes,    \* their sizes in units
    MaxInputs,    \* bound: times the peer's data arrives
    MaxRepeats    \* bound: read results delivered a second time

ASSUME SendsAssumption ==
    SendSizes \subseteq Nat \ {0} /\ {MaxSends, MaxInputs, MaxRepeats} \subseteq Nat

VARIABLES
    cstate,       \* _state
    rd,           \* the reasons not to read: send, shut, eof, buf, disk
    reading,      \* _reading, and the channel's interest in EPOLLIN
    input,        \* _input_buffer holds an unprocessed message
    writing,      \* on_writable() is running
    functors,     \* queued: "complete", "highwater", "input"
    fin,          \* shutdown_write() was called
    serverStop,   \* history: shutdown_for_server_stop() was called
    downs,        \* history: times the connection callback reported DOWN
    sends, inputs, repeats   \* how much of the bounds is used

connVars == <<cstate, rd, reading, input>>
boundVars == <<sends, inputs, repeats>>
vars == <<schedulerVars, connVars, writing, functors, fin, serverStop, downs, boundVars>>

Init ==
    /\ SchedulerInit
    /\ cstate = "connecting"
    /\ rd = [send |-> FALSE, shut |-> FALSE, eof |-> FALSE, buf |-> FALSE, disk |-> {}]
    /\ reading = FALSE /\ input = FALSE /\ writing = FALSE /\ functors = <<>>
    /\ fin = FALSE /\ serverStop = FALSE /\ downs = 0
    /\ sends = 0 /\ inputs = 0 /\ repeats = 0

(* should_read_in_loop(), and the interest update_read_interest() sets. *)
ShouldRead(s, r) ==
    /\ s \in {"connected", "disconnecting"}
    /\ r.eof \/ (~r.shut /\ ~r.send /\ r.disk = {})

Wanted(s, r) == ShouldRead(s, r) /\ (r.eof \/ ~r.buf)

UpdateReadInterest == reading' = Wanted(cstate', rd')

Idle == ~writing

-----------------------------------------------------------------------------

(* handle_close(), after the queue was cancelled with error: also the end  *)
(* of fail_writes(). *)
CloseWith(extra) ==
    /\ CancelAll(extra)
    /\ IF cstate = "disconnected"
         THEN UNCHANGED <<cstate, reading, downs>>
         ELSE cstate' = "disconnected" /\ reading' = FALSE /\ downs' = downs + 1
    /\ UNCHANGED <<nextSeq, sent>>

(* The high-water hook adds the server's callback to the loop's queue q. *)
QueueHighWater(q) == functors' = IF HighWaterCrossed THEN Append(q, "highwater") ELSE q

(* connect_established() *)
Establish ==
    /\ Idle /\ cstate = "connecting"
    /\ cstate' = "connected"
    /\ UNCHANGED rd /\ UpdateReadInterest
    /\ UNCHANGED <<schedulerVars, input, writing, functors, fin, serverStop, downs, boundVars>>

(* send_in_loop(), with the loop's queue q; unless the queue overflows and *)
(* the connection is closed, the read interest becomes keep.               *)
SendInLoop(n, keep, q) ==
    IF cstate # "connected" \/ stopped
      THEN /\ reading' = keep /\ functors' = q
           /\ UNCHANGED <<queueVars, nextSeq, posted, succeeded, sent, cstate, downs>>
    ELSE IF MemoryRefused(n)
      THEN CloseWith({}) /\ functors' = q
      ELSE /\ AppendMemory(n) /\ QueueHighWater(q) /\ reading' = keep
           /\ UNCHANGED <<nextSeq, posted, succeeded, sent, cstate, downs>>

(* send() *)
Send(n) ==
    /\ Idle /\ cstate # "connecting" /\ sends < MaxSends /\ sends' = sends + 1
    /\ SendInLoop(n, reading, functors)
    /\ UNCHANGED <<reads, budget, steps, fresh, rd, input, writing, fin, serverStop, inputs, repeats>>

(* send_file() and send_file_async(): bad says that preparing the file     *)
(* found an error.                                                         *)
SendFile(f, bad) ==
    /\ Idle /\ cstate # "connecting" /\ f \in fresh /\ fresh' = fresh \ {f}
    /\ IF stopped \/ cstate # "connected"
         THEN /\ Notify({f}, FALSE)
              /\ UNCHANGED <<queueVars, nextSeq, sent, cstate, reading, downs, functors>>
       ELSE IF bad \/ FileRefused(f)
         THEN CloseWith({f}) /\ UNCHANGED functors
         ELSE /\ AppendFile(f) /\ QueueHighWater(functors)
              /\ UNCHANGED <<nextSeq, posted, succeeded, sent, cstate, reading, downs>>
    /\ UNCHANGED <<reads, budget, steps, rd, input, writing, fin, serverStop, boundVars>>

-----------------------------------------------------------------------------
(* A reader request completes: on_file_read() on the loop. An old result   *)
(* is ignored; a reader may deliver a result twice.                        *)
ReadCompletes(r, again, ok) ==
    /\ Idle
    /\ again => repeats < MaxRepeats
    /\ repeats' = IF again THEN repeats + 1 ELSE repeats
    /\ reads' = IF again THEN reads ELSE reads \ {r}
    /\ IF ~Current(r)
         THEN UNCHANGED <<queueVars, nextSeq, posted, succeeded, sent, cstate, reading, downs>>
       ELSE IF ok
         THEN AcceptData(r) /\ UNCHANGED <<cstate, reading, downs>>
         ELSE CloseWith({})
    /\ UNCHANGED <<budget, steps, fresh, rd, input, writing, functors, fin, serverStop, sends, inputs>>

-----------------------------------------------------------------------------
(* handle_write() and the loop of on_writable(). *)
Writable ==
    /\ Idle /\ cstate # "disconnected" /\ enabled /\ ~stopped
    /\ writing' = TRUE /\ budget' = WriteBudget /\ steps' = 0
    /\ UNCHANGED <<queueVars, nextSeq, reads, fileVars, connVars, functors, fin, serverStop, downs, boundVars>>

InLoop == writing /\ writes # <<>> /\ budget > 0 /\ steps < WriteSteps

(* A file without bytes left completes without a system call. *)
CompleteEmptyFile ==
    /\ InLoop /\ IsFile(Head(writes)) /\ Head(writes).left = 0
    /\ CompleteFront(Head(writes)) /\ steps' = steps + 1
    /\ UNCHANGED <<enabled, stopped, nextSeq, reads, budget, fresh, sent, connVars, writing, functors,
                   fin, serverStop, downs, boundVars>>

NeedsData(t) == t.kind = "async" /\ t.left > 0 /\ t.data = 0

(* The front file needs its next chunk: on_writable() returns. The reader  *)
(* may throw, and the sequence numbers may be used up.                     *)
FetchChunk(throws) ==
    /\ InLoop /\ NeedsData(Head(writes))
    /\ IF Head(writes).pending
         THEN /\ enabled' = FALSE
              /\ UNCHANGED <<writes, stopped, pbytes, pfiles, nextSeq, reads, fileVars, cstate, reading, downs>>
       ELSE IF throws \/ nextSeq = MaxSequence
         THEN CloseWith({}) /\ UNCHANGED <<reads, fresh>>
         ELSE RequestFileRead /\ UNCHANGED <<cstate, reading, downs>>
    /\ writing' = FALSE
    /\ UNCHANGED <<budget, steps, rd, input, functors, fin, serverStop, boundVars>>

CanTransmit == InLoop /\ ~NeedsData(Head(writes)) /\ Head(writes).left > 0

WriteSome(n) ==
    /\ CanTransmit /\ Transmit(n)
    /\ UNCHANGED <<connVars, writing, functors, fin, serverStop, downs, boundVars>>

(* EINTR: try again. EAGAIN: return and wait for EPOLLOUT. *)
WriteInterrupted ==
    /\ CanTransmit /\ steps' = steps + 1
    /\ UNCHANGED <<queueVars, nextSeq, reads, budget, fileVars, connVars, writing, functors, fin, serverStop, downs,
                   boundVars>>

WriteBlocked ==
    /\ CanTransmit /\ writing' = FALSE
    /\ UNCHANGED <<schedulerVars, connVars, functors, fin, serverStop, downs, boundVars>>

(* Any other error, or nothing written. *)
WriteFails ==
    /\ CanTransmit /\ writing' = FALSE
    /\ CloseWith({})
    /\ UNCHANGED <<reads, budget, steps, fresh, rd, input, functors, fin, serverStop, boundVars>>

(* Variants: no write-complete callback; no half-close. *)
WriteReturns_NoCallback ==
    /\ writing /\ ~InLoop
    /\ writing' = FALSE
    /\ IF writes = <<>>
         THEN enabled' = FALSE /\ fin' = (fin \/ cstate = "disconnecting")
         ELSE UNCHANGED <<enabled, fin>>
    /\ UNCHANGED <<writes, stopped, pbytes, pfiles, nextSeq, reads, budget, steps, fileVars, connVars,
                   functors, serverStop, downs, boundVars>>

WriteReturns_NoShutdown ==
    /\ writing /\ ~InLoop
    /\ writing' = FALSE
    /\ IF writes = <<>>
         THEN enabled' = FALSE /\ functors' = Append(functors, "complete")
         ELSE UNCHANGED <<enabled, functors>>
    /\ UNCHANGED <<writes, stopped, pbytes, pfiles, nextSeq, reads, budget, steps, fileVars, connVars,
                   fin, serverStop, downs, boundVars>>

(* The end of on_writable(): an empty queue has drained, which queues the  *)
(* write-complete callback and half-closes a connection being shut down.   *)
WriteReturns ==
    /\ writing /\ ~InLoop
    /\ writing' = FALSE
    /\ IF writes = <<>>
         THEN /\ enabled' = FALSE /\ functors' = Append(functors, "complete")
              /\ fin' = (fin \/ cstate = "disconnecting")
         ELSE UNCHANGED <<enabled, functors, fin>>
    /\ UNCHANGED <<writes, stopped, pbytes, pfiles, nextSeq, reads, budget, steps, fileVars, connVars,
                   serverStop, downs, boundVars>>

-----------------------------------------------------------------------------
(* Reading. The message callback, called with the read flags r and, if     *)
(* nothing changes it, the read interest keep: it consumes the input,      *)
(* answers it, or leaves it in the buffer and pauses for a disk receiver   *)
(* (pause_read_for_disk()).                                                *)
MessageCallback(r, keep, q) ==
    \/ /\ input' = FALSE /\ rd' = r /\ reading' = keep /\ functors' = q
       /\ UNCHANGED <<queueVars, nextSeq, posted, succeeded, sent, cstate, downs, sends>>
    \/ \E n \in SendSizes :
         /\ sends < MaxSends /\ sends' = sends + 1
         /\ input' = FALSE /\ rd' = r
         /\ SendInLoop(n, keep, q)
    \/ \E token \in Tokens \ r.disk :
         /\ input' = TRUE /\ rd' = [r EXCEPT !.disk = @ \cup {token}] /\ functors' = q
         /\ UNCHANGED <<queueVars, nextSeq, posted, succeeded, sent, cstate, downs, sends>>
         /\ UpdateReadInterest

(* handle_read() with data; during shutdown the data is thrown away. *)
HandleRead ==
    /\ Idle /\ reading /\ inputs < MaxInputs /\ inputs' = inputs + 1
    /\ ShouldRead(cstate, rd) /\ (rd.buf => rd.eof)
    /\ IF rd.shut
         THEN /\ input' = FALSE
              /\ UNCHANGED <<queueVars, nextSeq, posted, succeeded, sent, cstate, rd, reading, downs, sends,
                             functors>>
         ELSE MessageCallback(rd, reading, functors)
    /\ UNCHANGED <<reads, budget, steps, fresh, writing, fin, serverStop, repeats>>

(* schedule_buffered_input() followed by update_read_interest(), the read  *)
(* flags being r.                                                          *)
ScheduleBufferedInput(r, q) ==
    LET schedule == ~r.buf /\ ShouldRead(cstate, r) /\ ~r.eof /\ ~r.shut /\ input IN
    /\ rd' = IF schedule THEN [r EXCEPT !.buf = TRUE] ELSE r
    /\ functors' = IF schedule THEN Append(q, "input") ELSE q
    /\ UNCHANGED cstate /\ UpdateReadInterest

NextFunctor(name) == Idle /\ functors # <<>> /\ Head(functors) = name

(* The functor of schedule_buffered_input(). *)
RunBufferedInput ==
    /\ NextFunctor("input")
    /\ LET r == [rd EXCEPT !.buf = FALSE] IN
         IF ShouldRead(cstate, r) /\ ~r.eof /\ ~r.shut /\ input
           THEN MessageCallback(r, Wanted(cstate, r), Tail(functors))
           ELSE /\ rd' = r /\ reading' = Wanted(cstate, r) /\ functors' = Tail(functors)
                /\ UNCHANGED <<queueVars, nextSeq, posted, succeeded, sent, cstate, input, downs, sends>>
    /\ UNCHANGED <<reads, budget, steps, fresh, writing, fin, serverStop, inputs, repeats>>

(* The server's high-water callback: stop_read(). *)
StopRead ==
    /\ NextFunctor("highwater") /\ functors' = Tail(functors)
    /\ IF cstate # "connected" \/ pbytes < HighWater
         THEN UNCHANGED <<cstate, rd, reading>>
         ELSE rd' = [rd EXCEPT !.send = TRUE] /\ UNCHANGED cstate /\ UpdateReadInterest
    /\ UNCHANGED <<schedulerVars, input, writing, fin, serverStop, downs, boundVars>>

(* The server's write-complete callback: start_read(). *)
StartRead ==
    /\ NextFunctor("complete")
    /\ IF cstate # "connected" \/ pbytes # 0
         THEN functors' = Tail(functors) /\ UNCHANGED <<cstate, rd, reading>>
         ELSE ScheduleBufferedInput([rd EXCEPT !.send = FALSE], Tail(functors))
    /\ UNCHANGED <<schedulerVars, input, writing, fin, serverStop, downs, boundVars>>

(* resume_read_after_disk() *)
ResumeReadAfterDisk(token) ==
    /\ Idle /\ token \in rd.disk
    /\ ScheduleBufferedInput([rd EXCEPT !.disk = @ \ {token}], functors)
    /\ UNCHANGED <<schedulerVars, input, writing, fin, serverStop, downs, boundVars>>

-----------------------------------------------------------------------------

(* shutdown_in_loop() closes the write side of an empty queue. *)
ShutdownInLoop == fin' = (fin \/ writes = <<>>)

(* shutdow(): a session that quits. *)
Shutdow ==
    /\ Idle /\ cstate = "connected"
    /\ cstate' = "disconnecting" /\ ShutdownInLoop
    /\ UNCHANGED <<schedulerVars, rd, reading, input, writing, functors, serverStop, downs, boundVars>>

(* pause_read_for_shutdown(): the first phase of stopping the server. *)
PauseReadForShutdown ==
    /\ Idle /\ cstate # "connecting" /\ ~serverStop /\ ~rd.shut
    /\ rd' = [rd EXCEPT !.shut = TRUE, !.eof = FALSE]
    /\ UNCHANGED cstate /\ UpdateReadInterest
    /\ UNCHANGED <<schedulerVars, input, writing, functors, fin, serverStop, downs, boundVars>>

(* shutdown_for_server_stop(): its last phase. *)
ShutdownForServerStop ==
    /\ Idle /\ rd.shut /\ ~serverStop
    /\ serverStop' = TRUE
    /\ IF cstate # "connected"
         THEN UNCHANGED <<connVars, fin>>
         ELSE /\ cstate' = "disconnecting" /\ rd' = [rd EXCEPT !.shut = TRUE, !.eof = TRUE]
              /\ input' = FALSE
              /\ UpdateReadInterest /\ ShutdownInLoop
    /\ UNCHANGED <<schedulerVars, writing, functors, downs, boundVars>>

(* handle_close() on end of file, hang-up, read error or force_close(),    *)
(* which may come after one another. connect_destroyed() has the same      *)
(* effect.                                                                 *)
Close ==
    /\ Idle /\ cstate # "connecting"
    /\ CloseWith({})
    /\ UNCHANGED <<reads, budget, steps, fresh, rd, input, writing, functors, fin, serverStop, boundVars>>

-----------------------------------------------------------------------------
WriteStep ==
    \/ Writable \/ CompleteEmptyFile \/ WriteInterrupted \/ WriteBlocked \/ WriteFails \/ WriteReturns
    \/ \E throws \in BOOLEAN : FetchChunk(throws)
    \/ \E n \in 1..WriteBudget : WriteSome(n)

Next ==
    \/ Establish \/ WriteStep \/ HandleRead \/ RunBufferedInput \/ StopRead \/ StartRead
    \/ Shutdow \/ PauseReadForShutdown \/ ShutdownForServerStop \/ Close
    \/ \E n \in SendSizes : Send(n)
    \/ \E f \in Files, bad \in BOOLEAN : SendFile(f, bad)
    \/ \E r \in reads, again, ok \in BOOLEAN : ReadCompletes(r, again, ok)
    \/ \E token \in Tokens : ResumeReadAfterDisk(token)

Spec == Init /\ [][Next]_vars

(* The loop keeps running, readers complete their requests, and the socket *)
(* becomes writable again and takes bytes if it is tried again and again.  *)
LoopRuns ==
    \/ Writable \/ CompleteEmptyFile \/ WriteReturns \/ FetchChunk(FALSE)
    \/ RunBufferedInput \/ StopRead \/ StartRead
    \/ \E r \in reads : ReadCompletes(r, FALSE, TRUE)

SocketTakes == \E n \in 1..WriteBudget : WriteSome(n)

Fairness == WF_vars(LoopRuns) /\ SF_vars(SocketTakes)

FairSpec == Spec /\ Fairness

-----------------------------------------------------------------------------
Charge(t, total) == t.charge + total

(* The counters that admission decisions rest on match the queue, and the  *)
(* limits hold: whatever completes, fails or is cancelled gives back       *)
(* exactly what it was charged.                                            *)
Accounted ==
    /\ pbytes = FoldRight(Charge, writes, 0) /\ pbytes <= MaxBytes
    /\ pfiles = Cardinality({i \in 1..Len(writes) : IsFile(writes[i])}) /\ pfiles <= MaxFiles
    /\ Len(writes) <= MaxTasks

(* Everyone is told once. A submitted file is queued or has had its        *)
(* callback, never both and never twice, and success means that all of it  *)
(* was given to the socket; the owner learns of the end of the connection  *)
(* once, whichever of peer, error and force_close() ended it.              *)
ToldOnce ==
    /\ \A f \in Files :
         /\ posted[f] = IF f \in fresh \cup QueuedFiles THEN 0 ELSE 1
         /\ f \in succeeded => sent[f] = FileSize[f]
    /\ downs = IF cstate = "disconnected" THEN 1 ELSE 0

(* The bytes in memory for the front file are the ones that come next,     *)
(* even if a reader repeats an old result, and the write side is closed    *)
(* only after the last of them.                                            *)
DataInOrder ==
    /\ \A i \in 1..Len(writes) : writes[i].data > 0 => writes[i].dataFrom = Offset(writes[i])
    /\ fin => writes = <<>>

(* Whatever the connection holds back waits for something that will come:  *)
(* a queued write for the socket or for an outstanding read that will be   *)
(* accepted; reading paused by back-pressure for the queue to drain, or    *)
(* for the callback that says so; a message left in the buffer by a pause  *)
(* for the functor that takes it up, once nothing pauses reading.          *)
NothingHeldForEver ==
    LET Queued(what) == \E i \in 1..Len(functors) : functors[i] = what IN
    /\ writes # <<>> =>
         /\ cstate \in {"connected", "disconnecting"}
         /\ Idle => enabled \/ \E r \in reads : Current(r)
    /\ rd.send /\ cstate = "connected" => writing \/ writes # <<>> \/ Queued("complete")
    /\ input /\ ShouldRead(cstate, rd) /\ ~rd.eof /\ ~rd.shut => Queued("input")

(* A shutdown completes: the queue drains and the write side is closed.    *)
ShutdownCompletes == (cstate = "disconnecting") ~> (fin \/ cstate = "disconnected")

(* The header's promise for shutdown_for_server_stop(): until it is        *)
(* closed, the connection reads and discards, so as to see the peer's FIN. *)
AwaitsFin == serverStop /\ cstate = "disconnecting" => reading
=============================================================================
