# A TLA+ verification of TLSS

TLSS is a file storage service for one node, written in C++17, with a monitoring
library (TLSSMON) beside it. This directory holds TLA+ modules that model its
concurrent core, TLC configurations that check them on small instances, and
theorems that TLAPS proves for every value of the constants. `PROJECT.json` maps
each definition to the lines it models and lists runs, mutants (deliberately
broken variants that each property must detect), hazards and theorems.

Paths below are relative to the repository.

## 1. The system

*A transfer.* A client (`src/ftp/client.cpp`, `src/common/net/tcp_client.cpp`,
`connector.cpp`) opens a connection. The main loop accepts it
(`tcp_server.cpp`) and hands it to an IO loop (`event_loop.cpp`), on which its
connection (`tcp_connection.cpp`, `write_scheduler.cpp`) and its session
(`src/ftp/server.cpp`) live. Whatever blocks leaves the loop: database work goes
to the thread pool (`src/common/base/tlss_thread_pool.cpp`), file work to the disk
executor (`src/ftp/disk_executor.cpp`, `async_file_*.cpp`), and results come back
as functors. An upload is written to a temporary file, published as an object
named by its hash (`object_storage_engine.cpp`) and registered in MySQL through a
pool of connections (`mysql_connection_pool.cpp`); reads of metadata go through a
cache (`inc/ftp/metadata_cache.h`) over an adaptive replacement cache
(`inc/common/cache`). Large copies in memory may be shared among threads
(`parallel_copy_pool.cpp`).

*An alarm.* The engine (`src/monitor/engine.cpp`) drives timers and descriptors.
A policy (`monitor_policy.cpp`) turns samples into alarms; a reported alarm is
stored in a durable outbox (`alarm_spool.cpp`), sent by the publisher's worker
(`reliable_alarm_publisher.cpp`), and kept by the collector
(`reliable_alarm_collector.cpp`) in an inbox before it is acknowledged. A command
server (`cli_server.cpp`) answers an operator.

## 2. Modules

| Module | Models |
|---|---|
| `ServerStop` | event loops, server, connections and tasks as `StorageService::stop()` sees them |
| `WriteScheduler`, `TcpConnection` | the send queue as operators on its state; a connection with that queue, as `StorageService::on_connection()` configures it |
| `TcpClient` | the reconnecting client and its connector |
| `Descriptors` | client and command server side by side, for the descriptors they open |
| `ServerSession` | one session: login, sign-up, directory changes, transfers, with its results in flight |
| `FileClient` | the command line client, composed with `ServerSession` over a connection |
| `ThreadPool` | `tlss_thread_pool.cpp` |
| `DiskExecutor`, `AsyncFileReceiver`, `AsyncFileSource`, `DiskTransfers` | the executor; an upload and a download on it; their composition, with connections going down and the server stopping |
| `ObjectStore` | storing and registering uploads, with crashes |
| `FileTable` | what the object store promises: a table of files that change in one step |
| `MetadataCache`, `DbPool` | the cache between threads and database; the pool of database connections |
| `ArcCache` | the replacement policy with its slices |
| `LossyCache` | what a cache promises: a map of bounded size that may forget |
| `CopyPartition`, `CopyPool` | the cutting of a copy; the threads that share it |
| `AlarmSpool`, `ReliableAlarm` | the durable directory; publisher, link and collector over two of them |
| `CollectorClient` | the collector's reading, decoding and answering of a byte stream |
| `MonitorEngine`, `MonitorPolicy`, `CliServer` | the engine, the three policies, the command server |
| `MC*` | instances for TLC |
| `*Proofs` | proofs (section 5) |

### How state and steps correspond to the code

*Steps.* A step is what runs without another actor being able to intervene: a
critical section of the component's mutex, a handler on its event loop, or the
code between two system calls where a crash matters. Condition variables are sets
of sleeping threads, and a notification removes a thread from the set; a missing
notification therefore shows as a thread that sleeps on.

*Server.* In `ServerStop` a loop has a queue of functors and a mode; a task that
ends queues its result on the loop of its connection. `stop()` is a program
counter over its waits. A loop that has left `loop()` runs nothing more, and a
destroyed one must not be touched.

*Connection.* Everything happens on one loop thread. Bytes are counted in units;
`on_writable()` is a loop of steps (`writing`) because its system calls have
several outcomes. `rd` holds the reasons not to read; `functors` is the loop's
queue of the connection's own callbacks.

*Client's connection.* `TcpClient` keeps the flags under the client's mutex, the
commands queued for the loop and the connector's state. Every socket has a state,
so a socket that nobody closes is seen.

*Session and client.* `ServerSession` holds the session's flags, the tasks on the
worker pool and on the disk, and the results queued for the loop. Alone, it gets
any input at any time. In `FileClient` its input is what the client sends: two
ordered streams, either end of which may close. Disk work has every outcome
`DiskTransfers` allows.

*Thread pool.* Threads have program counters; `take()`, `run()`,
`submit_async()`, `deadline_loop()` and `stop()` are split at their waits and
unlocks. `ran`, `timedOut` and `accepted` are history. With no workers started,
the pool runs tasks in their callers.

*Disk transfers.* The flags under `State::mutex` are sets of transfers. A worker
goes through `run`, `settle`, `close` and `release`, so that `cancel()` can fall
between any two of them. The pool is a bounded queue with workers; its threads and
shutdown are those of `ThreadPool` without a wait queue.

*Object store.* An upload goes through its system calls one by one (`step`).
`objects` and `rows` are what a download finds, `entries` and `safe` what is known
to be on the disk. After a loss of power an object that is not safe may be damaged
and an entry that is not synchronised may be gone; the directories of `object_root()`, whose parents
nobody synchronises, are taken to be there. A task that ends has stored its file or failed (`commit_upload`,
`Fail`), and the client hears of it in a later step on the loop (`on_result`). Contents are identified with
their hash.

*Metadata cache.* A directory is the set of names registered in it. A key asks for
all of them (a listing) or for one (a download, a cd). `read()` is split at its
locks: first probe, second probe, load, fill, return. `write()` holds the gate from
`Write` to `Advance`. A query may fail; an insertion may take effect whatever the
caller is told. A statement given up at its timeout is assumed to have taken effect by then, or never: one that
the server executes after `write()` released the gate would make cached answers old. ARC is a map that may forget any entry, which is what `ArcCache`
is shown to be.

*Database pool.* Getters, producer, scanner and the thread that destroys the pool
have program counters; notifications issued after an unlock are steps of their own.

*Copies.* The spin counts are abstracted: a thread may stop spinning at any time.
Atomic variables are single steps; `CopyPartition` gives the shares.

*Alarms.* A spool is `[vis, dur, bad]`: the kernel's view, what is known to be on
the disk, and what no longer decodes. `store()` is `Report` or `StoreNew` (up to
`rename()`) and `StoreSynced` or `InboxSynced` (the directory syncs), with
`StoreSyncFails` for the undo. The worker's `run_iteration()` is cut at each wait
(`wpc`). The link holds at most one request and one reply, since the worker has one
exchange open; `stale` holds alarms on abandoned connections the collector may
still read. After a power loss every entry on which memory and disk differ may be
in either state. `promised` records what `enqueue()` reported as `SUCCESS`. `orphaned` records inbox
files that a process which died, or a failed undo, left renamed and not synchronised, and `swept` those of
them that a later power loss took. The directories `initialize()` creates, whose parents it does not
synchronise, are taken to be on the disk; for `accepted/<source>` the constant `InboxDirKnown` says so.

*Collector's stream.* A byte is a pair of its frame and its place in it, counted
backwards, so that the model does not depend on the frame's layout. A read delivers
any number of bytes up to the size of the buffer.

*Monitor.* The loop of the engine is cut where it takes or releases its mutex and
around callbacks. Time is relative: `due` counts down to a timer's `_next` and goes on below zero,
`timeout` is the time `check()` leaves for `select()` and counts down only inside it, and `lag` records what
passes between the two. `Tick` lets time pass at every point, in callbacks too. Policies are records with an operator for each `feed`, compared with
definitions over the whole list of samples.

## 3. Runs

`tlc -config <cfg> <module>`. Subjects that share no state share a run where that is
cheap: a variable `subject` chooses in the initial state which of them moves.

| Run | Module and configuration | States | Shows |
|---|---|---|---|
| `alarm` | `MCReliableAlarm`, `MCAlarm.cfg` | 324,899 | no promised alarm is lost (`NoLoss`), an acknowledged alarm is in the inbox and synchronised, or was left there unsynchronised by a process that died (`AckMeansStored`), a retransmission never rewrites the Store (`RetransmissionNeverRewrites`), and every promised alarm arrives (`EventuallyDelivered`) |
| `pools` | `MCPools`, `MCPools.cfg` | 160,688 | a task has one fate (`OneFate`); nobody is stranded (`NoStrandedTask`, `NoStrandedSubmitter`); `stop()` returns and waiters are resolved (`StopReturns`, `WaiterResolved`); a copy that returns is complete, and it returns (`CopiedOnReturn`, `CopyReturns`) |
| `conn_safety` | `MCTcpConnection`, `MCConnSafe.cfg` | 3,036,572 | the send queue's accounts are right (`Accounted`), every callback comes once (`ToldOnce`), data stays in order (`DataInOrder`), nothing waits for what will not come (`NothingHeldForEver`) |
| `connections` | `MCConnections`, `MCConnections.cfg` | 298,778 | a half-close completes (`ShutdownCompletes`); a client that wants a connection gets one (`ConnectServed`); no descriptor is leaked by client or command server (`DescriptorsOwned`) |
| `server_stop` | `ServerStop`, `MCStop.cfg` | 250,375 | the server is taken down in an order nobody notices (`TornDownInOrder`), and is taken down (`ServerStops`) |
| `session` | `MCSession`, `MCSession.cfg` | 217,734 | no late result changes a session (`OneRequestInFlight`), client and server agree where they are (`InStep`), what they report has happened (`AnswersTrue`), and every exchange ends (`ExchangesEnd`) |
| `storage` | `MCStorage`, `MCStorage.cfg` | 299,974 | the clean-up of a transfer always fits (`CleanupNeverRefused`), a file has one worker (`FileHasOneWorker`), reads are answered once (`ReadAnsweredOnce`), files are published whole (`PublishedWhole`), transfers progress and no connection is left paused (`TransfersProgress`); `ObjectStore` implements `FileTable` (`FilesKept`) |
| `database` | `MCDatabase`, `MCDatabase.cfg` | 1,288,044 (symmetry) | a read returns what was registered before it, and nothing else (`ReadIsCurrent`); the pool's counts agree with its connections, at most `max_size` (`PoolAccounting`); nobody who borrows or produces sleeps through its condition (`NoLostWakeup`); the lists of the replacement policy agree (`CacheConsistent`) and it implements `LossyCache` (`ActsAsLossyMap`) |
| `monitor` | `MCMonitor`, `MCMonitor.cfg` | 605,339 | no callback outlives its object (`NoDanglingCallback`), no timer is overslept (`TimerNotOverslept`), `run()` ends after `stop()` unless recurring timers keep it busy (`StopCompletes`); frames are served as sent (`FramesServed`); policies agree with the history (`PolicyExact`) |
| `alarm_new_source` | `MCReliableAlarm`, `MCAlarmNewSource.cfg` | violation | finding 1 |
| `alarm_unsynced_ack` | `MCReliableAlarm`, `MCAlarmUnsyncedAck.cfg` | violation | finding 2 |
| `conn_awaits_fin` | `MCTcpConnection`, `MCConnAwaitsFin.cfg` | violation | finding 3 |

Three properties need a word. `TimerNotOverslept`: `select()` is never asked to wait longer than until
the first timer, plus the time that passed since `check()` computed the wait, unless the wake-up pipe is readable;
so a timer set from another thread, earlier than all others, is not missed. `NoDanglingCallback` is about the callback
object; what a callback captured is its owner's. `NoLostWakeup` looks at the getters and the producer, not at the
thread that waits in `shutdown()` for the pool to drain.

### Bounds

- *Alarms.* Two ids, so that an alarm can be sent before an older one; two values;
  two crashes, deaths of a process and power losses in any mixture, so that a recovery can itself be
  interrupted and a power loss meet what a dead process left, or one of them and a fault, which covers each
  failing call at each step. The proofs of `NoLoss` and `AckMeansStored` remove the bounds.
- *Thread pool.* Up to two workers and two submitters against an execution queue of
  one, so that both are contended; a wait queue of two and two instants, so that one
  waiter expires before the other.
- *Copies.* Two callers and two workers, the fewest with a caller that finds the pool
  busy; two calls, so that a worker may see a generation late; one failure at any
  point of the creation. The cut of any size is proved.
- *Connection.* A file sent with `sendfile()`, an empty one and one read in two chunks,
  the second short; two memory messages; a queue of two tasks and three units, so that
  each limit is met; a write budget smaller than the queue; two read sequence numbers,
  so that they run out; one disk receiver, one incoming message, one repeated result.
- *Client.* Three sockets (one closing, one connected, one attempted) and five calls,
  enough for connect, disconnect, connect, stop and destruction in any order; delays 1, 2 and
  3, so that the back-off meets its limit.
- *Command server.* Two sessions at most and three descriptors, so that one is refused and a
  number is used again.
- *Server stop.* Two IO loops, two connections, which the round robin puts on different loops, and
  one task. Connections are numbered in the order they are accepted, as in the code.
- *Session.* Two users, two directories and two attempts, so that a late answer meets a
  later request; bodies of up to two blocks; a transfer generation that reaches 5.
- *Disk.* One upload of at most two blocks, one download of two reads and one place
  in the executor, which is also the size of the pool's queue: the tight case for the
  argument that the clean-up fits. Two workers, so that one file could meet both.
- *Objects.* Three uploads of two contents under two names, so that an object is shared
  and a name contended; one crash at any step. The proofs remove these bounds.
- *ARC.* Three keys on capacities 0 to 3, in one or two slices: capacity is moved between
  the lists down to none. Counts are capped at 3, above the threshold of 2.
- *Metadata.* Two threads, two directories that share a gate, a key of each kind, and
  generations 0 to 2, so that the overflow is reached.
- *Database pool.* Two getters, a `max_size` of two, one connection kept, and names for three, so that a
  connection too many would be seen; with both lent the next getter must wait.
- *Engine.* Two registrations of every kind, delays of 1 and 2, and a lateness of up to 3 (`MaxLate`), so that a
  timer may be served late by more than its interval. The clock itself has no end.
- *Stream.* Headers of 3 bytes, two frames per round, streams of up to four frames, so that a
  fragment may end in a header, in a body, between frames and beyond the round's limit.
- *Policies.* Every sequence of five samples of three values with gaps of up to two; windows
  of two and three wrap.

Deadlock is not checked where the system may come to rest: everything delivered or
a bound used up, a pool stopped, a connection closed. The subjects of `database` have no
such state and are checked.

### Fairness

Fairness is weak fairness of the union of what a subject's threads do: while some of them can go on, one of
them does. That is less than fairness of each thread, and it is enough: no thread of these subjects goes on for ever by
itself, and time that passes with nothing left to count down is no step. Where more is used it is said here.

- *Alarms.* The reporting thread inside a report (with the restart of its process), the worker, and
  the collector's thread (with its restart) are fair one by one: running threads are scheduled, their waits
  have timeouts, and an operator or a supervisor restarts what died; without restarts
  nothing can be delivered. Nobody is obliged to report, crash or fail, and faults are
  bounded, hence they end.
- *Thread pool.* The clock and the deadline thread go on. That workers and
  submitters do too (tasks return) is a hypothesis of `StopReturns`; `WaiterResolved` holds
  without it, that is, with tasks that never return. *Copies:* running threads run.
- *Connection.* The loop keeps running, reads are answered (which `storage` shows of
  `AsyncFileSource`), and the socket takes bytes infinitely often if it is tried infinitely
  often (strong fairness: `EAGAIN` may come any number of times in between). Without the
  last, a peer that never reads stalls a connection legitimately.
- *Client.* The loop runs and attempts end; of infinitely many attempts one succeeds
  (strong fairness: a server that is never there cannot be connected to).
- *Server stop.* Loops and the stopping thread run, tasks return. Peers owe nothing: the
  grace period ends.
- *Session.* Loops, workers and disks answer; neither user is obliged to do anything. A
  connection closed at one end is closed at the other.
- *Disk.* Workers, loops and the thread in `stop()` keep running; a loop also executes a
  queued `force_close()`.
- *Engine.* The loop thread, the workers or the clock go on, and callbacks return.
- *Metadata, database pool, stream, policies.* Safety only. Progress of the cache rests on
  `std::shared_mutex` and progress of the pool on a database that answers, and neither is
  promised; `NoLostWakeup` is the part of it that the code is responsible for.

## 4. Findings

1. **A new source's directory is not synchronised** (`alarm_new_source`).
   `AlarmSpool::store()` creates `accepted/<source>` and synchronises it but not its parent, so the
   first alarms of a source can vanish in a power loss after their acknowledgement.
   `README.md:434` says "the collector persists its inbox before ACK".
2. **A retransmission of an unsynchronised alarm is acknowledged** (`alarm_unsynced_ack`). A collector
   process dies between `rename()` and the sync of the directory. Its successor takes the file for accepted
   (`recover_inbox()`), or `store()` answers `DUPLICATE` for it, and acknowledges the retransmission; nothing
   synchronises the entry, and if the host loses power later, an acknowledged alarm is lost.
   `inc/monitor/alarm_spool.h:60` and `:76`, the comment at `src/monitor/alarm_spool.cpp:519`,
   `inc/monitor/alarm_protocol.h:66` and `README.md:434` say that such an alarm is persisted.
   `AckMeansStored` and `NoLoss` hold for every other file, and are checked and proved with that one exception.
3. **A connection that is already disconnecting does not watch for the FIN when the server
   stops** (`conn_awaits_fin`); `inc/common/net/tcp_connection.h:109` says it does.

Limits met while modelling:

- `ThreadPool::stop()` clears its wait queue, so a task that `submit_async()` accepted may neither run nor have
  its timeout callback called. `inc/common/base/tlss_thread_pool.h:29` says that `stop()` executes the accepted
  tasks; `README.md:376` and the comment at `src/common/base/tlss_thread_pool.cpp:353` say that it cancels the wait
  queue, which is what the model does.
- `TimerManager::check()` goes on while a timer is due and does not look at the engine's phase. A recurring timer
  on the loop whose callback takes as long as its interval therefore keeps `run()` from returning although `stop()`
  was called. (The sampling timer of `storage_monitor_runtime.cpp:358` recurs on the loop; its callback returns at
  once when its runtime is stopping, and then it does not.) `StopCompletes` excepts
  exactly that: a behaviour that stays in `check()` for ever with a recurring timer alive.
- `Engine::stop()` acts on a running engine only; a call between `init()` and `run()` has no effect,
  and the caller is not told. `StopCompletes` speaks of a stop that was accepted.
- An exception of the metadata service in a change of directory leaves the session refusing commands; `ExchangesEnd`
  excepts it.
- Pending alarms are sent in the order of their random ids, so a recovery may overtake the alarm
  it recovers.

## 5. Proofs

All are checked by TLAPS (SMT, Zenon, LS4) from nothing.

| Theorem | Says | Assumes, beyond the named assumptions on constants |
|---|---|---|
| `AlarmProofs!TypeCorrect` | the channel keeps its types | - |
| `AlarmProofs!NoPromisedAlarmLost` | `[]NoLoss` | `ToleratedFaults` |
| `AlarmProofs!AckImpliesStored` | `[]AckMeansStored` | `InboxDirKnown` |
| `AlarmProofs!StoreNeverRewritten` | `RetransmissionNeverRewrites`, an action property | - |
| `PoolProofs!PoolTypeCorrect` | the pool keeps its types | - |
| `PoolProofs!QueuedTaskHasWorker` | `[]NoStrandedTask` | - |
| `PoolProofs!QueuesBounded` | `[]Bounded` | - |
| `TaskFateProofs!EachTaskOneFate` | `[]OneFate` | - |
| `TaskFateProofs!SubmittersNotStranded` | `[]NoStrandedSubmitter` | - |
| `DiskProofs!CleanupAlwaysAccepted` | `[]CleanupNeverRefused` | - |
| `DiskProofs!OneWorkerPerFile` | `[]FileHasOneWorker` | - |
| `DiskProofs!EachReadAnsweredOnce` | `[]ReadAnsweredOnce` | - |
| `DiskProofs!PublishedOnceAndWhole` | `[]PublishedWhole` | - |
| `DatabaseProofs!CacheTypes` | the cache keeps its types; generations stay in their width | - |
| `DatabaseProofs!ReadsAreCurrent` | `[]ReadIsCurrent` | - |
| `DatabaseProofs!HitsAreCurrent` | `[]HitIsCurrent` | - |
| `NotLostProofs!RegisteredStaysDurable` | `[]RegisteredIsDurable` | - |
| `NotLostProofs!StoreImplementsTable` | `FilesKept`: `ObjectStore` implements `FileTable` | - |
| `DatabaseProofs!PoolAccounted` | `[]PoolAccounting` | - |
| `DatabaseProofs!WakeupsNotLost` | `[]NoLostWakeup` | - |
| `SessionProofs!RequestsOneByOne` | `[]OneRequestInFlight` | - |
| `SessionProofs!SignupsAnsweredTruly` | `[]SignupAnswerTrue`: no sign-up that created an account is denied | - |
| `NotLostProofs!SocketsNotLost` | `[]SocketsOwned`, of the client | - |
| `NotLostProofs!SessionsNotLeaked` | `[]NoLeakedSession`, of the command server | - |
| `NotLostProofs!DescriptorsNotLost` | `[]DescriptorsOwned`, of both side by side | - |
| `PoolProofs!PartitionExact` | prefix, body and tail make up the copy; the body is aligned and has a block for each worker | the block size is a multiple of the alignment |
| `PoolProofs!SharesMeet` | the workers' shares follow each other without gap or overlap | - |

*Alarms* (`IInv` in `AlarmProofs`). `NoLoss` is not inductive: that the worker may
delete the outbox file depends on what an acknowledgement on the wire means, which
depends on what the collector has accepted. The invariant follows an alarm along that chain:
what is accepted, stored, acknowledged or being removed is `Held` in the inbox (visible, and on the disk or
left there by an earlier process); an inbox file that the living process has renamed and not yet synchronised
is counted on by nobody, and its alarm is still `Kept` in the outbox (`RenamedUncounted`); only that entry and the orphaned
ones can be missing on the disk (`InboxOnDisk`). So a process that dies at that point turns the file into an
orphan while the outbox still has the alarm, and from then on only a power loss can take it, which `swept` records.
`ToleratedFaults` excludes finding 1: power losses are allowed if the source's inbox directory is on the disk. The publisher's steps, the collector's steps, crashes and
damage are separate lemmas. That a retransmission never rewrites the receiver's Store needs only
`WritesOnce`: between the duplicate check and the write the identity stays unaccepted, and a
collector that has accepted nothing has written nothing. It holds under any faults.

*Pool* (`IInv` in `PoolProofs`). While a task is queued some worker is awake. `take()`
refills without notifying, which is sound since the worker that refilled is awake and comes
back; a worker sleeps or exits only when it has seen the queue empty (`WorkersUp`, `NotStarted`
cover the phases before and after).

*Tasks of the pool* (`FateInv` in `PoolProofs`, concluded in `TaskFateProofs`). That a task has one fate
needs to know where every task is: still with its caller, with a submitter, in the queue, among the
waiters, with a worker, on a worker's list of expired waiters, with the deadline thread, or done. The
invariant says that no task is in two of these places, nor twice in one, and that past its submission
it is accepted. Each action is shown to move at most one task, or in a refill or a sweep of
expired waiters several, and to leave the other places alone; so `take()` and `deadline_loop()` cannot
both claim a waiter.

*Submitters* (`SubmitterInv` in `TaskFateProofs`). `take()` notifies one sleeper for each place it frees,
and a place is only used by a submitter that is awake, so the count of the awake ones covers the free
places. A submitter sleeps only beside worker threads (`SleepsBesideWorkers`): with none, `run()` executes
the task itself. That clients are finitely many is assumed, since they are counted.

*Disk executor* (`TaskInv` in `DiskTaskProofs`). The four properties rest on ownership. A transfer whose
`busy` flag is set has one task, and that is either about to be posted by `cancel()`, or in the pool's
queue, or with one worker; no other transfer has one. Hence the queue holds at most one task
for each registered transfer, registrations are at most `kMaxReceivers`, the capacity of the queue, and
the cleanup finds a place. Around it: `Staged` (a task, a result or a completion exists only in the stages of a
transfer that may have it), `FilesClosed` (a worker past the close, and a released transfer, have no
open file) and `Room` (the executor outlives its registrations).
Two further invariants say what the users rely on. `ReadInv`, in the same module: the task of a source that holds a
completion is the read itself, so whoever ends the task answers it. `PublishInv`, in `DiskProofs`: for every operation in the
queue, with a worker or in a result, what is on the disk before it or after it; a block that
was taken from the connection is on the disk, or is the one under way, so at the final operation
`written` is the size.

*Cache* (`CacheInv` in `DatabaseProofs`). The holder of a gate is the thread in its
critical section; an entry of the current generation equals the database unless the writer
that outdated it has yet to advance, and that writer holds the gate; what a loader returned
is still true when it is filled in.

*Objects* (`StoreInv` in `NotLostProofs`). A row is written by one upload but its object may
have been linked by another, so durability needs a fact about every upload under way: one about to
link has synchronised its file, one past the link finds the object with the content of its hash, one
about to register finds the directory entry synchronised. From this invariant each step of the store
is a step of `FileTable` or leaves it alone: only registration changes what a download gets, and a
restart or a loss of power changes nothing that is registered.

*Database pool* (`DbInv` in `DatabaseProofs`). The two properties are inductive together with three facts: who
has a connection in hand at which point of its code (`Hands`), that whoever stops the pool has set the flag
before (`Life`), and that the producer sleeps in its wait for work only, its other wait ending by itself
(`ProducerSleeps`). Counting is by one lemma: when one getter moves, the set of borrowers changes by at most
that getter. The producer starts a connection only below `max_size`, hence the bound in `PoolAccounting`.
Assumed are `1 <= InitSize <= MaxSize`, finitely many business threads, and that there are names for
`MaxSize` connections at least (`ConnsAssumption`), since a new `DbConnection` is a fresh object.

*Sessions* (`SessionInv` in `SessionProofs`). For each kind of request (login, sign-up, directory change), a session
that waits for its answer has the request with the worker pool, or the answer in the queue of its loop, or has
lost it because the server stops or the worker threw; it never has two of them, and a session that does not
wait has none. What is under way carries the session's current attempt and directory (`Asked`, `Told`), so
no late result can be taken for a current one. For sign-ups the invariant adds that neither the account nor a denial
exists while the task is under way, and no denial while the result is.

*Descriptors* (`ClientInv`, `CliInv` in `NotLostProofs`). The client: a socket that is no connection yet is
the connector's, while an attempt is under way, or the one `new_connection()` wraps, never both, and an open
connection is the published one or its client is destroyed (`Holds`); each closed connection has exactly one functor that destroys it
(`Destroys`; with two, the second might hit a descriptor that is in use again). The command server: a session being
registered is in the table, or was marked, or the thread in `close()` has it and has yet to mark it (`Registering`),
and whoever marked a session with an AIO entry is about to remove it (`Marked`); so a session registered after
`close()` swept the table is noticed by the one who registers it.

*Copies.* Arithmetic of division with remainder; no invariant is needed.

The inductive invariants were model-checked before they were proved.

*Only model-checked:*

- all liveness properties: liveness under fairness is beyond the installed provers;
- `Accounted` of the connections, `CacheConsistent` and `ActsAsLossyMap`, which sum over sequences by folds;
  `NoDanglingCallback` and `TimerNotOverslept` of the engine, whose queues are filtered by `SelectSeq`;
  `TornDownInOrder`, whose teardown queues a functor for each member of a set by a fold; `FramesServed`, whose
  decoder is recursive. What a fold, a filter or a recursion returns for every input takes induction over data,
  which is beyond the provers too;
- `PolicyExact`, a comparison with a reference over bounded inputs;
- `ToldOnce`, `DataInOrder` and `NothingHeldForEver` of the connections and `CopiedOnReturn` of the parallel
  copy, for which no inductive invariant has been worked out;
- `InStep` and the client's half of `AnswersTrue`, which speak of the client and the session together. The session's half is
  `SignupAnswerTrue`, proved above.

## 6. Not modelled

- *Wrappers and encodings*: sockets, addresses and buffers, the layout and checksum of frames and
  records, quoting and parsing of names and commands, SHA-256 and password hashes. They are calls
  that succeed or fail in the models that use them.
- *Best-effort or read-only code*: datagrams, metrics, reading of `/proc`, the Store's ordinary updates
  and queries, commands that only answer (`help`, `pwd`, `ls`, `mkdir`), the login dialogue the client
  prints.
- *Copy kernels*: assembly, detection of processor features, and the choice of kernel and number of
  workers by size; a plan is any of a set.
- *Around the sessions*: `prepare_upload()` and the creation of a user's root directory, which bypass the
  metadata cache; the sets of epoll and the state of channels; creation of loop threads;
  binding and errors of `accept()`.
- *Descriptor numbers* that are used again, except in `CliServer` (hazard at
  `reliable_alarm_publisher.cpp:352`), and the inbox's limit in bytes (`alarm_spool.cpp:525`).
- *Merged steps*: `stop()` of the service stops the worker pool and the disk executor one after the other; `ServerStop`
  takes both in one step, since nothing it tracks happens in between. An exception of `consume()` when the executor
  refuses a block closes the connection, which `ServerSession` has as `PeerCloses`.
- Logger, configuration, main programs, empty gateway and RPC files, tests, benchmarks, demos and the
  vendored libraries under `third/`, which make up most of the lines of the repository.
