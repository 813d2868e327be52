--------------------------- MODULE WriteScheduler ---------------------------
(***************************************************************************)
(* The send queue of a connection (src/common/net/write_scheduler.cpp): a  *)
(* FIFO of memory blocks, files sent with sendfile() and files read chunk  *)
(* by chunk through an asynchronous reader, with byte, task and file       *)
(* limits.                                                                 *)
(*                                                                         *)
(* The operators below are the scheduler's own part of each operation. Its *)
(* hooks (drained, failed, high_water) are calls into the connection, so   *)
(* TcpConnection.tla combines these operators with what the hooks do.      *)
(* Bytes are counted in units; a read chunk is Chunk units.                *)
(***************************************************************************)
EXTENDS Integers, Sequences, FiniteSets

CONSTANTS
    Files,         \* files to send; each is submitted at most once
    AsyncFiles,    \* those that are read asynchronously
    FileSize,      \* file -> units
    Chunk,         \* kAsyncFileChunk
    MaxBytes,      \* kMaxPendingBytes
    MaxTasks,      \* kMaxPendingTasks
    MaxFiles,      \* kMaxPendingFiles
    WriteBudget,   \* kWriteBudget
    WriteSteps,    \* kWriteSteps
    HighWater,     \* _high_water_mark
    MaxSequence,   \* the largest read sequence number
    NoFile

ASSUME FilesAssumption == AsyncFiles \subseteq Files /\ NoFile \notin Files
ASSUME UnitsAssumption ==
    /\ FileSize \in [Files -> Nat] /\ Chunk \in Nat \ {0}
    /\ {MaxBytes, MaxTasks, MaxFiles, WriteBudget, WriteSteps, HighWater, MaxSequence}
         \subseteq Nat \ {0}

VARIABLES
    writes,      \* _writes
    enabled,     \* _write_enabled, and the channel's interest in EPOLLOUT
    stopped,     \* _stopped
    pbytes,      \* _pending_memory_bytes
    pfiles,      \* _pending_files
    nextSeq,     \* _next_read_sequence
    reads,       \* reader requests that may still complete: [seq, from, count]
    budget,      \* on_writable(): bytes and steps left in this call
    steps,
    fresh,       \* history: files not submitted yet
    posted,      \* history: file -> callbacks posted
    succeeded,   \* history: files whose callback reported success
    sent         \* history: file -> units given to the socket

queueVars == <<writes, enabled, stopped, pbytes, pfiles>>
fileVars == <<fresh, posted, succeeded, sent>>
schedulerVars == <<queueVars, nextSeq, reads, budget, steps, fileVars>>

SchedulerInit ==
    /\ writes = <<>> /\ enabled = FALSE /\ stopped = FALSE /\ pbytes = 0 /\ pfiles = 0
    /\ nextSeq = 0 /\ reads = {} /\ budget = 0 /\ steps = 0
    /\ fresh = Files /\ posted = [f \in Files |-> 0] /\ succeeded = {}
    /\ sent = [f \in Files |-> 0]

AtMost(a, b) == IF a <= b THEN a ELSE b

(* A task: left counts unsent units, charge what it holds of pbytes. Of an *)
(* asynchronous file, data units from offset dataFrom are in memory, and a *)
(* read with sequence number seq may be pending.                           *)
MemoryWrite(n) ==
    [kind |-> "memory", file |-> NoFile, left |-> n, charge |-> n,
     data |-> 0, dataFrom |-> 0, pending |-> FALSE, seq |-> 0]

FileWrite(f) ==
    [kind |-> IF f \in AsyncFiles THEN "async" ELSE "sendfile", file |-> f,
     left |-> FileSize[f], charge |-> IF f \in AsyncFiles THEN AtMost(FileSize[f], Chunk) ELSE 0,
     data |-> 0, dataFrom |-> 0, pending |-> FALSE, seq |-> 0]

IsFile(t) == t.kind # "memory"
Offset(t) == FileSize[t.file] - t.left
QueuedFiles == {writes[i].file : i \in {j \in 1..Len(writes) : IsFile(writes[j])}}

(* notify_file() for a set of files. *)
Notify(fs, ok) ==
    /\ posted' = [f \in Files |-> posted[f] + (IF f \in fs THEN 1 ELSE 0)]
    /\ succeeded' = IF ok THEN succeeded \cup fs ELSE succeeded

(* Variant: the queued files are not told. *)
CancelAll_Silent(extra) ==
    /\ stopped' = TRUE /\ enabled' = FALSE /\ writes' = <<>> /\ pbytes' = 0 /\ pfiles' = 0
    /\ Notify(extra, FALSE)

(* cancel_all(): terminal; also tells the files in extra, which were being *)
(* admitted.                                                               *)
CancelAll(extra) ==
    /\ stopped' = TRUE /\ enabled' = FALSE /\ writes' = <<>> /\ pbytes' = 0 /\ pfiles' = 0
    /\ Notify(QueuedFiles \cup extra, FALSE)

(* enable_write_event(), for the queue as it will be. *)
EnableWriteEvent(queue) ==
    enabled' = IF queue # <<>> /\ ~(queue[1].kind = "async" /\ queue[1].pending)
                 THEN TRUE ELSE enabled

(* enqueue_memory() *)
MemoryRefused(n) == Len(writes) >= MaxTasks \/ n > MaxBytes - pbytes

AppendMemory(n) ==
    /\ writes' = Append(writes, MemoryWrite(n))
    /\ pbytes' = pbytes + n
    /\ EnableWriteEvent(writes')
    /\ UNCHANGED <<stopped, pfiles>>

(* enqueue_file() *)
FileRefused(f) ==
    Len(writes) >= MaxTasks \/ pfiles >= MaxFiles \/ FileWrite(f).charge > MaxBytes - pbytes

AppendFile(f) ==
    /\ writes' = Append(writes, FileWrite(f))
    /\ pbytes' = pbytes + FileWrite(f).charge /\ pfiles' = pfiles + 1
    /\ EnableWriteEvent(writes')
    /\ UNCHANGED stopped

(* check_high_water() *)
HighWaterCrossed == pbytes < HighWater /\ pbytes' >= HighWater

(* Variant: the reservation of an asynchronous file is not given back. *)
CompleteFront_KeepsReservation(t) ==
    /\ writes' = Tail(writes)
    /\ pbytes' = IF t.kind = "async" THEN pbytes ELSE pbytes - t.charge
    /\ pfiles' = IF IsFile(t) THEN pfiles - 1 ELSE pfiles
    /\ IF IsFile(t) THEN Notify({t.file}, TRUE) ELSE UNCHANGED <<posted, succeeded>>

(* complete_front(), the front task being t when it completes. *)
CompleteFront(t) ==
    /\ writes' = Tail(writes)
    /\ pbytes' = pbytes - t.charge
    /\ pfiles' = IF IsFile(t) THEN pfiles - 1 ELSE pfiles
    /\ IF IsFile(t) THEN Notify({t.file}, TRUE) ELSE UNCHANGED <<posted, succeeded>>

(* request_file_read(): the read is pending and EPOLLOUT is off until it   *)
(* completes.                                                              *)
RequestFileRead ==
    LET t == Head(writes) IN
    /\ nextSeq < MaxSequence
    /\ nextSeq' = nextSeq + 1
    /\ reads' = reads \cup {[seq |-> nextSeq + 1, from |-> Offset(t), count |-> AtMost(t.left, Chunk)]}
    /\ writes' = [writes EXCEPT ![1].pending = TRUE, ![1].seq = nextSeq + 1]
    /\ enabled' = FALSE
    /\ UNCHANGED <<stopped, pbytes, pfiles, fileVars>>

(* Variant: any result is taken while a read is pending. *)
Current_AnySequence(r) ==
    /\ ~stopped /\ writes # <<>>
    /\ Head(writes).kind = "async" /\ Head(writes).pending

(* on_file_read(): whether a result is the one the front task waits for,   *)
(* and what a good one does. *)
Current(r) ==
    /\ ~stopped /\ writes # <<>>
    /\ Head(writes).kind = "async" /\ Head(writes).pending /\ Head(writes).seq = r.seq

AcceptData(r) ==
    /\ writes' = [writes EXCEPT ![1].pending = FALSE, ![1].data = r.count, ![1].dataFrom = r.from]
    /\ EnableWriteEvent(writes')
    /\ UNCHANGED <<stopped, pbytes, pfiles, nextSeq, fileVars>>

(* The units on_writable() may give to the socket for the front task. *)
Sendable(t) == AtMost(IF t.kind = "async" THEN t.data ELSE t.left, budget)

(* The front task after n units of it were written. *)
Advanced(t, n) ==
    [t EXCEPT !.left = @ - n,
              !.data = IF t.kind = "async" THEN @ - n ELSE @,
              !.dataFrom = IF t.kind = "async" THEN @ + n ELSE @]

(* One successful send() or sendfile() of on_writable(). *)
Transmit(n) ==
    LET t == Head(writes) IN
    /\ n \in 1..Sendable(t)
    /\ budget' = budget - n /\ steps' = steps + 1
    /\ sent' = IF IsFile(t) THEN [sent EXCEPT ![t.file] = @ + n] ELSE sent
    /\ IF t.left = n
         THEN CompleteFront(t)
         ELSE /\ writes' = [writes EXCEPT ![1] = Advanced(t, n)]
              /\ UNCHANGED <<pbytes, pfiles, posted, succeeded>>
    /\ UNCHANGED <<enabled, stopped, nextSeq, reads, fresh>>
=============================================================================
