----------------------------- MODULE ServerStop -----------------------------
(***************************************************************************)
(* Event loops (src/common/net/event_loop.cpp), their threads, TcpServer   *)
(* (src/common/net/tcp_server.cpp) and StorageService::start() and stop()  *)
(* (src/ftp/server.cpp): connections are accepted on the main loop, served *)
(* on IO loops, use worker tasks, and all of it is taken down in order.    *)
(*                                                                         *)
(* Loops exchange functors. A functor, and the handling of one event, is   *)
(* one step; pushing a functor and writing the wakeup descriptor are one   *)
(* step, since a loop that runs in between finds the functor anyway.       *)
(* Worker tasks stand for tasks of the worker pool and disk executor.      *)
(***************************************************************************)
EXTENDS Naturals, Sequences, FiniteSets
LOCAL INSTANCE FiniteSetsExt

CONSTANTS
    NumIo,       \* the number of IO loops, subloop_size
    Conns,       \* connections clients may open, by their _next_conn_id
    MaxJobs      \* bound: tasks, at most one for a connection

ASSUME LoopsAssumption == NumIo \in Nat \ {0} /\ MaxJobs \in Nat /\ Conns \subseteq Nat

Main == 0
Io == 1..NumIo
Loops == Io \cup {Main}
Outside == NumIo + 1    \* a thread that runs no loop

VARIABLES
    mode,        \* loop -> "new", "polling", "running", "left", "dead"
    quit,        \* loop -> _quit
    lq,          \* loop -> [pending, wake]: _pending_functors, wakeup descriptor readable
    batch,       \* loop -> functors do_pending_functors() has yet to run
    acceptor,    \* _acceptor exists
    next_loop,   \* EventLoopThreadPool::_next
    loopOf,      \* connection -> its loop
    cstates,     \* connection -> "none", "connecting", "connected", "disconnecting", "disconnected"
    paused,      \* connections with _read_paused_for_shutdown
    table,       \* _connections
    released,    \* connections whose connect_destroyed() has run
    drain,       \* _drain_callback is set
    remaining,   \* barrier -> loops it still waits for
    passed,      \* barriers whose promise is set
    jobs,        \* connection -> its task: "none", "queued", "running", "over"
    pool, db,    \* the worker pool takes tasks; the database pool is up
    halting,     \* _stopping
    spc,         \* where the caller of stop() is
    joining      \* number of IO threads joined

loopVars == <<mode, quit, lq, batch>>
peerVars == <<next_loop, loopOf, cstates, paused, table, released>>
drainVars == <<drain, remaining, passed>>
workVars == <<jobs, pool, db>>
haltVars == <<halting, spc, joining>>
stopVars == <<loopVars, acceptor, peerVars, drainVars, workVars, haltVars>>

Barriers == {"paused", "drained"}

StopInit ==
    /\ mode = [l \in Loops |-> "new"] /\ quit = [l \in Loops |-> FALSE]
    /\ lq = [l \in Loops |-> [pending |-> <<>>, wake |-> FALSE]] /\ batch = [l \in Loops |-> <<>>]
    /\ acceptor = TRUE /\ next_loop = 1 /\ loopOf = [c \in Conns |-> Main]
    /\ cstates = [c \in Conns |-> "none"] /\ paused = {} /\ table = {} /\ released = {}
    /\ drain = FALSE /\ remaining = [b \in Barriers |-> 0] /\ passed = {}
    /\ jobs = [c \in Conns |-> "none"] /\ pool = TRUE /\ db = TRUE
    /\ halting = FALSE /\ spc = "idle" /\ joining = 0

-----------------------------------------------------------------------------
(* EventLoop *)

(* queue_in_loop(): wake the loop unless it will look at the functors      *)
(* before it polls again. *)
queue_in_loop(q, l, f, caller) ==
    [q EXCEPT ![l] = [pending |-> Append(@.pending, f),
                      wake |-> @.wake \/ caller # l \/ mode[l] = "running"]]

F(op, x) == [op |-> op, on |-> x]

(* The main loop queues each of some functors, given with their loops. *)
QueueAll(q, functors) ==
    FoldSet(LAMBDA x, r : queue_in_loop(r, x.loop, x.functor, Main), q, functors)

(* A functor for each connection in the table, on its own loop. *)
ForConnections(op) == {[loop |-> loopOf[c], functor |-> F(op, c)] : c \in table}

(* loop() begins: a quit() that came before is forgotten. *)
EnterLoop(l) ==
    /\ mode[l] = "new"
    /\ quit' = [quit EXCEPT ![l] = FALSE] /\ mode' = [mode EXCEPT ![l] = "polling"]
    /\ UNCHANGED <<lq, batch, acceptor, peerVars, drainVars, workVars, haltVars>>

(* poll() returns and, once the events are handled, do_pending_functors()  *)
(* takes what is queued. The ten-second timeout is left out: with nothing  *)
(* to do it changes nothing, and a loop with work has been woken. *)
TakeFunctors(l, q) ==
    /\ mode[l] = "polling" /\ mode' = [mode EXCEPT ![l] = "running"]
    /\ batch' = [batch EXCEPT ![l] = q[l].pending] /\ lq' = [q EXCEPT ![l].pending = <<>>]
    /\ UNCHANGED quit

(* The wakeup descriptor is readable: handle_read() *)
Woken(l) ==
    /\ lq[l].wake /\ TakeFunctors(l, [lq EXCEPT ![l].wake = FALSE])
    /\ UNCHANGED <<acceptor, peerVars, drainVars, workVars, haltVars>>

(* while (!_quit) *)
LoopTest(l) ==
    /\ mode[l] = "running" /\ batch[l] = <<>>
    /\ mode' = [mode EXCEPT ![l] = IF quit[l] THEN "left" ELSE "polling"]
    /\ UNCHANGED <<quit, lq, batch, acceptor, peerVars, drainVars, workVars, haltVars>>

(* stop() holds the EventLoopThread's mutex between quit and wakeup. *)
Locked(l) == spc = "wake" /\ l = joining + 1

(* The end of thread_func(): the loop on its stack is destroyed. *)
ThreadEnds(l) ==
    /\ l \in Io /\ mode[l] = "left" /\ ~Locked(l)
    /\ mode' = [mode EXCEPT ![l] = "dead"]
    /\ UNCHANGED <<quit, lq, batch, acceptor, peerVars, drainVars, workVars, haltVars>>

(* The functor loop l runs now. *)
Runs(l, op, x) ==
    /\ mode[l] = "running" /\ batch[l] # <<>> /\ Head(batch[l]) = F(op, x)
    /\ batch' = [batch EXCEPT ![l] = Tail(@)]
    /\ UNCHANGED <<mode, quit>>
-----------------------------------------------------------------------------
(* Connections *)

(* Acceptor::handle_read() and new_connection() on the main loop *)
NewConnection(c) ==
    /\ acceptor /\ cstates[c] = "none" /\ \A d \in Conns : d < c => cstates[d] # "none"
    /\ cstates' = [cstates EXCEPT ![c] = "connecting"] /\ table' = table \cup {c}
    /\ loopOf' = [loopOf EXCEPT ![c] = next_loop] /\ next_loop' = (next_loop % NumIo) + 1
    /\ TakeFunctors(Main, queue_in_loop(lq, next_loop, F("establish", c), Main))
    /\ UNCHANGED <<acceptor, paused, released, drainVars, workVars, haltVars>>

(* connect_established() *)
ConnectEstablished(l, c) ==
    /\ Runs(l, "establish", c) /\ cstates' = [cstates EXCEPT ![c] = "connected"]
    /\ UNCHANGED <<lq, acceptor, next_loop, loopOf, paused, table, released, drainVars,
                   workVars, haltVars>>

(* handle_close() on loop l: remove_connection() goes to the main loop. *)
Closed(c, l) == queue_in_loop(lq, Main, F("remove", c), l)

(* The loop sees the peer close, also where only a write is pending. *)
PeerShuts(c) ==
    /\ cstates[c] \in {"connected", "disconnecting"}
    /\ cstates' = [cstates EXCEPT ![c] = "disconnected"]
    /\ TakeFunctors(loopOf[c], Closed(c, loopOf[c]))
    /\ UNCHANGED <<acceptor, next_loop, loopOf, paused, table, released, drainVars,
                   workVars, haltVars>>

(* on_message(): a command hands a task to the pool. *)
Message(c) ==
    /\ cstates[c] = "connected" /\ c \notin paused
    /\ ~halting /\ pool /\ jobs[c] = "none"
    /\ Cardinality({o \in Conns : jobs[o] # "none"}) < MaxJobs
    /\ jobs' = [jobs EXCEPT ![c] = "queued"] /\ TakeFunctors(loopOf[c], lq)
    /\ UNCHANGED <<acceptor, peerVars, drainVars, pool, db, haltVars>>

JobStarts(c) ==
    /\ jobs[c] = "queued" /\ pool /\ jobs' = [jobs EXCEPT ![c] = "running"]
    /\ UNCHANGED <<loopVars, acceptor, peerVars, drainVars, pool, db, haltVars>>

(* The task ends and queues its result on the connection's loop. *)
JobEnds(c) ==
    /\ jobs[c] = "running" /\ jobs' = [jobs EXCEPT ![c] = "over"]
    /\ lq' = queue_in_loop(lq, loopOf[c], F("result", c), Outside)
    /\ UNCHANGED <<mode, quit, batch, acceptor, peerVars, drainVars, pool, db, haltVars>>

(* The result is applied, or its handler calls force_close(). *)
Result(l, c) ==
    /\ Runs(l, "result", c)
    /\ \/ UNCHANGED lq
       \/ cstates[c] = "connected" /\ lq' = queue_in_loop(lq, l, F("close", c), l)
    /\ UNCHANGED <<acceptor, peerVars, drainVars, workVars, haltVars>>

ForceClose(l, c) ==
    /\ Runs(l, "close", c)
    /\ cstates' = [cstates EXCEPT ![c] = "disconnected"]
    /\ lq' = IF cstates[c] = "disconnected" THEN lq ELSE Closed(c, l)
    /\ UNCHANGED <<acceptor, next_loop, loopOf, paused, table, released, drainVars, workVars,
                   haltVars>>

PauseRead(l, c) ==
    /\ Runs(l, "pause", c) /\ paused' = paused \cup {c}
    /\ UNCHANGED <<lq, acceptor, next_loop, loopOf, cstates, table, released, drainVars, workVars,
                   haltVars>>

(* shutdown_for_server_stop() *)
Shutdown(l, c) ==
    /\ Runs(l, "shutdown", c)
    /\ cstates' = [cstates EXCEPT ![c] = IF @ = "connected" THEN "disconnecting" ELSE @]
    /\ paused' = IF cstates[c] = "connected" THEN paused \cup {c} ELSE paused
    /\ UNCHANGED <<lq, acceptor, next_loop, loopOf, table, released, drainVars, workVars, haltVars>>

(* connect_destroyed() *)
Destroyed(l, c) ==
    /\ Runs(l, "destroy", c)
    /\ cstates' = [cstates EXCEPT ![c] = "disconnected"] /\ released' = released \cup {c}
    /\ UNCHANGED <<lq, acceptor, next_loop, loopOf, paused, table, drainVars, workVars, haltVars>>

-----------------------------------------------------------------------------
(* TcpServer *)

(* when_io_idle(): a barrier through every IO loop and back. *)
when_io_idle(q, b) ==
    /\ lq' = QueueAll(q, {[loop |-> l, functor |-> F("barrier", b)] : l \in Io})
    /\ remaining' = [remaining EXCEPT ![b] = NumIo] /\ UNCHANGED passed

Barrier(l, b) ==
    /\ Runs(l, "barrier", b) /\ lq' = queue_in_loop(lq, Main, F("arrived", b), l)
    /\ UNCHANGED <<acceptor, peerVars, drainVars, workVars, haltVars>>

Arrived(b) ==
    /\ Runs(Main, "arrived", b)
    /\ remaining' = [remaining EXCEPT ![b] = @ - 1]
    /\ passed' = IF remaining[b] = 1 THEN passed \cup {b} ELSE passed
    /\ UNCHANGED <<lq, acceptor, peerVars, drain, workVars, haltVars>>

(* stop_accepting() on the main loop *)
StopAccepting ==
    /\ Runs(Main, "stop_accepting", "all")
    /\ acceptor' = FALSE
    /\ when_io_idle(QueueAll(lq, ForConnections("pause")), "paused")
    /\ UNCHANGED <<peerVars, drain, workVars, haltVars>>

(* Variant: the last connection's removal does not complete the drain. *)
finish_drain_if_empty_Never(q, t, d) == lq' = q /\ drain' = d /\ UNCHANGED <<remaining, passed>>

(* finish_drain_if_empty() with the functors q, table t and callback d. *)
finish_drain_if_empty(q, t, d) ==
    IF t = {} /\ d THEN drain' = FALSE /\ when_io_idle(q, "drained")
                   ELSE drain' = d /\ lq' = q /\ UNCHANGED <<remaining, passed>>

(* shutdown_connections() *)
ShutdownConnections ==
    /\ Runs(Main, "shutdown_connections", "all")
    /\ finish_drain_if_empty(QueueAll(lq, ForConnections("shutdown")), table, TRUE)
    /\ UNCHANGED <<acceptor, peerVars, workVars, haltVars>>

(* force_close_connections() *)
ForceCloseConnections ==
    /\ Runs(Main, "force_close_connections", "all")
    /\ lq' = QueueAll(lq, ForConnections("close"))
    /\ UNCHANGED <<acceptor, peerVars, drainVars, workVars, haltVars>>

(* remove_connection_in_loop(): once per connection. *)
RemoveConnection(c) ==
    /\ Runs(Main, "remove", c)
    /\ table' = table \ {c}
    /\ IF c \in table
         THEN finish_drain_if_empty(queue_in_loop(lq, loopOf[c], F("destroy", c), Main),
                                    table \ {c}, drain)
         ELSE UNCHANGED <<lq, drainVars>>
    /\ UNCHANGED <<acceptor, next_loop, loopOf, cstates, paused, released, workVars, haltVars>>
-----------------------------------------------------------------------------
(* StorageService::stop() *)
At(from, to) == spc = from /\ spc' = to

(* The first call; later callers only wait for its end on _stop_done. *)
StopCalled ==
    /\ At("idle", "pausing") /\ halting' = TRUE
    /\ lq' = queue_in_loop(lq, Main, F("stop_accepting", "all"), Outside)
    /\ UNCHANGED <<mode, quit, batch, acceptor, peerVars, drainVars, workVars, joining>>

(* paused_future.wait(), then ThreadPool::stop() drops what is queued. *)
StopPool ==
    /\ "paused" \in passed /\ At("pausing", "pool")
    /\ pool' = FALSE
    /\ jobs' = [c \in Conns |-> IF jobs[c] = "queued" THEN "over" ELSE jobs[c]]
    /\ UNCHANGED <<loopVars, acceptor, peerVars, drainVars, db, halting, joining>>

(* Variant: does not wait for the tasks that run. *)
PoolStopped_NoWait ==
    /\ At("pool", "draining")
    /\ lq' = queue_in_loop(lq, Main, F("shutdown_connections", "all"), Outside)
    /\ UNCHANGED <<mode, quit, batch, acceptor, peerVars, drainVars, workVars, halting, joining>>

(* The pools have joined their threads. *)
PoolStopped ==
    /\ \A c \in Conns : jobs[c] # "running"
    /\ At("pool", "draining")
    /\ lq' = queue_in_loop(lq, Main, F("shutdown_connections", "all"), Outside)
    /\ UNCHANGED <<mode, quit, batch, acceptor, peerVars, drainVars, workVars, halting, joining>>

(* The grace period ends before the connections are gone. *)
GraceEnds ==
    /\ "drained" \notin passed /\ At("draining", "forced")
    /\ lq' = queue_in_loop(lq, Main, F("force_close_connections", "all"), Outside)
    /\ UNCHANGED <<mode, quit, batch, acceptor, peerVars, drainVars, workVars, halting, joining>>

Drained ==
    /\ "drained" \in passed
    /\ At("draining", "quit") \/ At("forced", "quit")
    /\ UNCHANGED <<loopVars, acceptor, peerVars, drainVars, workVars, halting, joining>>

(* stop_io_threads(): EventLoopThread::stop() of one thread after another. *)
QuitLoop ==
    /\ joining < NumIo /\ At("quit", "wake")
    /\ quit' = [quit EXCEPT ![joining + 1] = TRUE]
    /\ UNCHANGED <<mode, lq, batch, acceptor, peerVars, drainVars, workVars, halting, joining>>

QuitWakes ==
    /\ At("wake", "join") /\ lq' = [lq EXCEPT ![joining + 1].wake = TRUE]
    /\ UNCHANGED <<mode, quit, batch, acceptor, peerVars, drainVars, workVars, halting, joining>>

Join ==
    /\ At("join", "quit") /\ mode[joining + 1] = "dead"
    /\ joining' = joining + 1
    /\ UNCHANGED <<loopVars, acceptor, peerVars, drainVars, workVars, halting>>

CloseDatabase ==
    /\ joining = NumIo /\ At("quit", "main") /\ db' = FALSE
    /\ UNCHANGED <<loopVars, acceptor, peerVars, drainVars, jobs, pool, halting, joining>>

(* _loop->quit(); main() waits for this thread before the loop goes away. *)
QuitMain ==
    /\ At("main", "done")
    /\ quit' = [quit EXCEPT ![Main] = TRUE] /\ lq' = [lq EXCEPT ![Main].wake = TRUE]
    /\ UNCHANGED <<mode, batch, acceptor, peerVars, drainVars, workVars, halting, joining>>

-----------------------------------------------------------------------------
Functors(l) ==
    \/ \E c \in Conns : \/ ConnectEstablished(l, c) \/ Result(l, c) \/ ForceClose(l, c)
                        \/ PauseRead(l, c) \/ Shutdown(l, c) \/ Destroyed(l, c)
    \/ \E b \in Barriers : Barrier(l, b)

MainFunctors ==
    \/ StopAccepting \/ ShutdownConnections \/ ForceCloseConnections
    \/ \E b \in Barriers : Arrived(b)
    \/ \E c \in Conns : RemoveConnection(c)

LoopStep(l) ==
    \/ EnterLoop(l) \/ Woken(l) \/ LoopTest(l) \/ ThreadEnds(l)
    \/ l \in Io /\ Functors(l)
    \/ l = Main /\ MainFunctors

StopStep ==
    \/ StopPool \/ PoolStopped \/ GraceEnds \/ Drained \/ QuitLoop \/ QuitWakes
    \/ Join \/ CloseDatabase \/ QuitMain

(* What the threads of the server do when they can. *)
ServerRuns ==
    StopStep \/ (\E l \in Loops : LoopStep(l)) \/ (\E c \in Conns : JobEnds(c))

StopNext ==
    \/ ServerRuns \/ StopCalled
    \/ \E c \in Conns : NewConnection(c) \/ PeerShuts(c) \/ Message(c) \/ JobStarts(c)

(* The threads do not all stop while one can go on; clients and signals    *)
(* need never come.                                                        *)
StopSpec == StopInit /\ [][StopNext]_stopVars /\ WF_stopVars(ServerRuns)

-----------------------------------------------------------------------------

(* The stop takes the server down in an order nobody notices. An IO loop   *)
(* that has ended left an empty queue and destroyed its connections on     *)
(* itself; nobody uses a destroyed loop, neither a task with a result for  *)
(* it, nor the main loop for its connections, nor the stopper writing its  *)
(* wakeup descriptor; the database outlives every task and connection.     *)
TornDownInOrder ==
    /\ \A l \in Io : mode[l] \in {"left", "dead"} =>
         lq[l].pending = <<>> /\ \A c \in Conns : loopOf[c] = l => c \in released
    /\ \A l \in Io : mode[l] = "dead" =>
         ~Locked(l) /\ \A c \in Conns : loopOf[c] = l => jobs[c] # "running" /\ c \notin table
    /\ ~db => /\ \A c \in Conns : jobs[c] # "running" /\ cstates[c] \in {"none", "disconnected"}
              /\ \A l \in Io : mode[l] = "dead"

(* stop() returns and the main loop ends, whatever the clients do, even    *)
(* when it is called before a loop has started. *)
ServerStops == (spc # "idle") ~> (spc = "done" /\ mode[Main] = "left")
====
