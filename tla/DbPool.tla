------------------------------- MODULE DbPool -------------------------------
(***************************************************************************)
(* The MySQL connection pool (src/common/base/mysql_connection_pool.cpp)   *)
(* and the session state of the connections in it (mysql_connection.cpp).  *)
(*                                                                         *)
(* Every critical section of _mutex is one step; the network calls         *)
(* (connect, ping, SQL: each may fail at any time) and the notifications   *)
(* issued after an unlock are steps of their own. db_asleep is the set of  *)
(* threads asleep on _cond. A wait with a deadline may also end by itself: *)
(* db_expired[g] says that the deadline of get_connection has passed. Idle *)
(* times are abstracted: the queue is in order of return, so the expired   *)
(* connections are a prefix of it.                                         *)
(***************************************************************************)
EXTENDS Integers, Sequences, FiniteSets

CONSTANTS
    Getters,      \* business threads
    Conns,        \* identities for DbConnection objects
    NoConn,
    InitSize,     \* _init_size
    MaxSize       \* _max_size

producer == "producer"
scanner == "scanner"
closer == "closer"
DbThreads == Getters \cup {producer, scanner, closer}

ASSUME DbConfigAssumption ==
    /\ InitSize \in Nat /\ MaxSize \in Nat /\ 1 <= InitSize /\ InitSize <= MaxSize
    /\ NoConn \notin Conns
    /\ IsFiniteSet(Getters) /\ {producer, scanner, closer} \cap Getters = {}

(* The first connections. *)
InitialQueues ==
    {q \in [1..InitSize -> Conns] : \A i, j \in 1..InitSize : q[i] = q[j] => i = j}

(* A new DbConnection can be made while the pool has not reached MaxSize.  *)
ASSUME ConnsAssumption ==
    /\ InitialQueues # {}
    /\ \A S \in SUBSET Conns : IsFiniteSet(S) /\ Cardinality(S) < MaxSize => S # Conns

VARIABLES
    connection_queue,  \* _connection_queue: the idle connections
    connection_cnt,    \* _connection_cnt: the total, reservations included
    db_stopping,       \* _stopping
    threads_joined,    \* _threads_joined
    borrowed_count,    \* _borrowed_count
    active_getters,    \* _active_getters
    conn,              \* connection -> _connected, _transaction_active, and its session at
                       \* the server: "closed", "auto" (autocommit) or "txn"
    db_pc,             \* thread -> where it is
    held,              \* thread -> the connection it owns
    db_expired,        \* getter -> its deadline has passed
    db_asleep,         \* threads asleep on _cond
    destroyed          \* the destructor: "no", "running", "yes", or "abort"

countVars == <<connection_cnt, borrowed_count, active_getters>>
dbLife == <<db_stopping, threads_joined, destroyed>>
dbVars == <<connection_queue, countVars, dbLife, conn, db_pc, held, db_expired, db_asleep>>

Closed == [connected |-> FALSE, active |-> FALSE, session |-> "closed"]
Open == [connected |-> TRUE, active |-> FALSE, session |-> "auto"]

is_reusable(c) == conn[c].connected /\ ~conn[c].active

(* The pool after its constructor: InitSize connections, both threads       *)
(* started. A failure before that point aborts the program.                 *)
DbInit ==
    /\ connection_queue = CHOOSE q \in InitialQueues : TRUE
    /\ conn = [c \in Conns |-> IF \E i \in 1..InitSize : connection_queue[i] = c THEN Open ELSE Closed]
    /\ connection_cnt = InitSize /\ borrowed_count = 0 /\ active_getters = 0
    /\ db_stopping = FALSE /\ threads_joined = FALSE /\ destroyed = "no"
    /\ db_pc = [t \in DbThreads |-> IF t \in {producer, scanner} THEN "wait" ELSE "idle"]
    /\ held = [t \in DbThreads |-> NoConn]
    /\ db_expired = [g \in Getters |-> FALSE] /\ db_asleep = {}

Goto(t, l) == db_pc' = [db_pc EXCEPT ![t] = l]

(* Connections in nobody's hands: the fresh DbConnection objects.           *)
Unused == Conns \ ({connection_queue[i] : i \in DOMAIN connection_queue}
                      \cup {held[t] : t \in DbThreads})

-----------------------------------------------------------------------------
(* get_connection *)

(* Variant: the last idle connection is taken without a notification.       *)
TakeOrWait_NoNotify(g, b, c, s) ==
    \/ /\ db_stopping \/ (connection_queue = <<>> /\ db_expired[g])
       /\ Goto(g, "leaving") /\ held' = [held EXCEPT ![g] = NoConn]
       /\ borrowed_count' = b /\ connection_cnt' = c /\ db_asleep' = s \ {g}
       /\ UNCHANGED connection_queue
    \/ /\ ~db_stopping /\ connection_queue # <<>>
       /\ connection_queue' = Tail(connection_queue)
       /\ held' = [held EXCEPT ![g] = Head(connection_queue)]
       /\ borrowed_count' = b + 1 /\ connection_cnt' = c /\ db_asleep' = s \ {g}
       /\ Goto(g, "ping")

(* One pass of its loop under _mutex, from the wait to the unlock. b, c and *)
(* s are the borrowed count, the total and the sleepers it starts from.     *)
TakeOrWait(g, b, c, s) ==
    \/ /\ db_stopping \/ (connection_queue = <<>> /\ db_expired[g])
       /\ Goto(g, "leaving")
       /\ held' = [held EXCEPT ![g] = NoConn]
       /\ borrowed_count' = b /\ connection_cnt' = c /\ db_asleep' = s \ {g}
       /\ UNCHANGED connection_queue
    \/ /\ ~db_stopping /\ connection_queue = <<>> /\ ~db_expired[g]
       /\ Goto(g, "waiting")
       /\ held' = [held EXCEPT ![g] = NoConn]
       /\ borrowed_count' = b /\ connection_cnt' = c /\ db_asleep' = s \cup {g}
       /\ UNCHANGED connection_queue
    \/ /\ ~db_stopping /\ connection_queue # <<>>
       /\ connection_queue' = Tail(connection_queue)
       /\ held' = [held EXCEPT ![g] = Head(connection_queue)]
       /\ borrowed_count' = b + 1 /\ connection_cnt' = c /\ db_asleep' = s \ {g}
       /\ Goto(g, IF Len(connection_queue) = 1 /\ c < MaxSize THEN "notify" ELSE "ping")

get_connection(g) ==
    /\ db_pc[g] = "idle"
    /\ destroyed = "no"      \* business threads have stopped before static destruction
    /\ active_getters' = active_getters + 1
    /\ TakeOrWait(g, borrowed_count, connection_cnt, db_asleep)
    /\ UNCHANGED <<dbLife, conn, db_expired>>

(* The deadline of a running get_connection passes.                         *)
DeadlinePasses(g) ==
    /\ db_pc[g] \in {"waiting", "notify", "ping"} /\ ~db_expired[g]
    /\ db_expired' = [db_expired EXCEPT ![g] = TRUE]
    /\ UNCHANGED <<connection_queue, countVars, dbLife, conn, db_pc, held, db_asleep>>

(* The wait ends: notified, or at the deadline.                             *)
WaitEnds(g) ==
    /\ db_pc[g] = "waiting" /\ (g \notin db_asleep \/ db_expired[g])
    /\ TakeOrWait(g, borrowed_count, connection_cnt, db_asleep)
    /\ UNCHANGED <<active_getters, dbLife, conn, db_expired>>

(* notify_all() after the unlock, by a getter that took the last idle one.  *)
NeedCreate(g) ==
    /\ db_pc[g] = "notify" /\ Goto(g, "ping") /\ db_asleep' = {}
    /\ UNCHANGED <<connection_queue, countVars, dbLife, conn, held, db_expired>>

PingOk(g) ==
    /\ db_pc[g] = "ping" /\ Goto(g, "return")
    /\ UNCHANGED <<connection_queue, countVars, dbLife, conn, held, db_expired, db_asleep>>

(* Variant: the total keeps counting the discarded connection. *)
PingBad_KeepsTotal(g) ==
    /\ db_pc[g] = "ping"
    /\ conn' = [conn EXCEPT ![held[g]] = Closed]
    /\ TakeOrWait(g, borrowed_count - 1, connection_cnt, {})
    /\ UNCHANGED <<active_getters, dbLife, db_expired>>

(* A connection that does not answer is destroyed; then the loop starts    *)
(* over unless the deadline has passed.                                     *)
PingBad(g) ==
    /\ db_pc[g] = "ping"
    /\ conn' = [conn EXCEPT ![held[g]] = Closed]
    /\ \/ /\ ~db_expired[g]
          /\ TakeOrWait(g, borrowed_count - 1, connection_cnt - 1, {})
       \/ /\ db_expired[g]
          /\ borrowed_count' = borrowed_count - 1 /\ connection_cnt' = connection_cnt - 1
          /\ held' = [held EXCEPT ![g] = NoConn] /\ db_asleep' = {} /\ Goto(g, "leaving")
          /\ UNCHANGED connection_queue
    /\ UNCHANGED <<active_getters, dbLife, db_expired>>

(* The ScopeExit of get_connection, with or without a handle to return.     *)
FinishGetter(g) ==
    /\ db_pc[g] \in {"leaving", "return"}
    /\ active_getters' = active_getters - 1 /\ db_asleep' = {}
    /\ Goto(g, IF db_pc[g] = "return" THEN "holding" ELSE "idle")
    /\ db_expired' = [db_expired EXCEPT ![g] = FALSE]
    /\ UNCHANGED <<connection_queue, connection_cnt, borrowed_count, dbLife, conn, held>>

-----------------------------------------------------------------------------
(* What a business thread does with its handle. A DbTransaction lives       *)
(* inside the handle's scope: "holding" is outside, "intxn" inside one.     *)

SetConn(g, r) == conn' = [conn EXCEPT ![held[g]] = r]

DbTransaction(g) ==
    /\ db_pc[g] = "holding"
    /\ \/ /\ conn[held[g]].connected /\ conn[held[g]].session = "auto"
          /\ SetConn(g, [connected |-> TRUE, active |-> TRUE, session |-> "txn"])
          /\ Goto(g, "intxn")
       \/ /\ SetConn(g, Closed)              \* no answer: the outcome is unknown
          /\ UNCHANGED db_pc
    /\ UNCHANGED <<connection_queue, countVars, dbLife, held, db_expired, db_asleep>>

(* commit() or rollback(), at the latest in ~DbTransaction: done, or the    *)
(* connection is invalidated because the outcome is not known.              *)
EndTransaction(g) ==
    /\ db_pc[g] = "intxn"
    /\ \/ SetConn(g, Open)
       \/ SetConn(g, Closed)
    /\ Goto(g, "holding")
    /\ UNCHANGED <<connection_queue, countVars, dbLife, held, db_expired, db_asleep>>

(* The handle's deleter.                                                    *)
release_connection(g) ==
    /\ db_pc[g] = "holding"
    /\ borrowed_count' = borrowed_count - 1 /\ db_asleep' = {}
    /\ IF ~db_stopping /\ is_reusable(held[g])
       THEN /\ connection_queue' = Append(connection_queue, held[g])
            /\ UNCHANGED <<connection_cnt, conn>>
       ELSE /\ connection_cnt' = connection_cnt - 1
            /\ SetConn(g, Closed) /\ UNCHANGED connection_queue
    /\ held' = [held EXCEPT ![g] = NoConn] /\ Goto(g, "idle")
    /\ UNCHANGED <<active_getters, dbLife, db_expired>>

-----------------------------------------------------------------------------
(* produce_connection_task *)

(* Its wait, and the reservation of capacity when a connection is needed.   *)
ProducerWait ==
    /\ db_pc[producer] = "wait" /\ producer \notin db_asleep
    /\ \/ /\ db_stopping /\ Goto(producer, "exited")
          /\ UNCHANGED <<connection_cnt, held, db_asleep>>
       \/ /\ ~db_stopping /\ connection_queue = <<>> /\ connection_cnt < MaxSize
          /\ connection_cnt' = connection_cnt + 1 /\ Goto(producer, "connect")
          /\ held' = [held EXCEPT ![producer] = CHOOSE c \in Unused : TRUE]
          /\ UNCHANGED db_asleep
       \/ /\ ~db_stopping /\ ~(connection_queue = <<>> /\ connection_cnt < MaxSize)
          /\ db_asleep' = db_asleep \cup {producer}
          /\ UNCHANGED <<connection_cnt, held, db_pc>>
    /\ UNCHANGED <<connection_queue, borrowed_count, active_getters, dbLife, conn, db_expired>>

(* connect() fails: the total is lowered without the mutex.                 *)
ConnectFails ==
    /\ db_pc[producer] = "connect" /\ Goto(producer, "failed")
    /\ connection_cnt' = connection_cnt - 1
    /\ held' = [held EXCEPT ![producer] = NoConn]
    /\ UNCHANGED <<connection_queue, borrowed_count, active_getters, dbLife, conn,
                   db_expired, db_asleep>>

(* notify_all() after a failed connect, or after the push of a new one.     *)
ProducerNotify ==
    /\ db_pc[producer] \in {"failed", "notify"} /\ db_asleep' = {}
    /\ Goto(producer, IF db_pc[producer] = "failed" THEN "backoff" ELSE "wait")
    /\ UNCHANGED <<connection_queue, countVars, dbLife, conn, held, db_expired>>

(* The delay before the next attempt ends, by timeout or by _stopping.      *)
BackoffEnds ==
    /\ db_pc[producer] = "backoff"
    /\ Goto(producer, IF db_stopping THEN "exited" ELSE "wait")
    /\ UNCHANGED <<connection_queue, countVars, dbLife, conn, held, db_expired, db_asleep>>

(* connect() succeeds: published, or dropped when a stop came in between.   *)
ConnectSucceeds ==
    /\ db_pc[producer] = "connect"
    /\ IF db_stopping
       THEN /\ connection_cnt' = connection_cnt - 1 /\ Goto(producer, "exited")
            /\ UNCHANGED <<connection_queue, conn>>
       ELSE /\ conn' = [conn EXCEPT ![held[producer]] = Open]
            /\ connection_queue' = Append(connection_queue, held[producer])
            /\ Goto(producer, "notify") /\ UNCHANGED connection_cnt
    /\ held' = [held EXCEPT ![producer] = NoConn]
    /\ UNCHANGED <<borrowed_count, active_getters, dbLife, db_expired, db_asleep>>

-----------------------------------------------------------------------------
(* scanner_connection: at the end of a period the first n idle connections  *)
(* have expired; the total never goes below InitSize.                       *)
Scan ==
    /\ db_pc[scanner] = "wait"
    /\ \/ /\ db_stopping /\ Goto(scanner, "exited")
          /\ UNCHANGED <<connection_queue, connection_cnt, conn>>
       \/ /\ ~db_stopping
          /\ \E n \in 1 .. Len(connection_queue) :
                /\ connection_cnt - n >= InitSize
                /\ connection_queue' = SubSeq(connection_queue, n + 1, Len(connection_queue))
                /\ connection_cnt' = connection_cnt - n
                /\ conn' = [c \in Conns |->
                      IF \E i \in 1 .. n : connection_queue[i] = c THEN Closed ELSE conn[c]]
          /\ Goto(scanner, "notify")
    /\ UNCHANGED <<borrowed_count, active_getters, dbLife, held, db_expired, db_asleep>>

ScannerNotify ==
    /\ db_pc[scanner] = "notify" /\ Goto(scanner, "wait") /\ db_asleep' = {}
    /\ UNCHANGED <<connection_queue, countVars, dbLife, conn, held, db_expired>>

-----------------------------------------------------------------------------
(* shutdown, called by StorageService::stop and again by the destructor     *)

(* stop_background_threads up to its unlock.                                *)
stop_background_threads ==
    IF threads_joined
    THEN Goto(closer, "drain") /\ UNCHANGED db_stopping
    ELSE db_stopping' = TRUE /\ Goto(closer, "notify")

shutdown ==
    /\ db_pc[closer] = "idle" /\ destroyed = "no"
    /\ stop_background_threads
    /\ UNCHANGED <<connection_queue, countVars, threads_joined, destroyed, conn, held,
                   db_expired, db_asleep>>

DestroyPool ==
    /\ db_pc[closer] = "idle" /\ destroyed = "no" /\ destroyed' = "running"
    /\ stop_background_threads
    /\ UNCHANGED <<connection_queue, countVars, threads_joined, conn, held, db_expired, db_asleep>>

StopNotify ==
    /\ db_pc[closer] = "notify" /\ Goto(closer, "join") /\ db_asleep' = {}
    /\ UNCHANGED <<connection_queue, countVars, dbLife, conn, held, db_expired>>

JoinThreads ==
    /\ db_pc[closer] = "join" /\ db_pc[producer] = "exited" /\ db_pc[scanner] = "exited"
    /\ threads_joined' = TRUE /\ Goto(closer, "drain")
    /\ UNCHANGED <<connection_queue, countVars, db_stopping, destroyed, conn, held, db_expired,
                   db_asleep>>

Drained == borrowed_count = 0 /\ active_getters = 0

(* The wait for the last handle and the last getter ends, with success or   *)
(* at the deadline; the destructor aborts in the second case.               *)
DrainEnds ==
    /\ db_pc[closer] = "drain" /\ Goto(closer, "idle")
    /\ destroyed' = IF destroyed = "no" THEN "no" ELSE IF Drained THEN "yes" ELSE "abort"
    /\ conn' = IF destroyed' = "yes" THEN [c \in Conns |-> Closed] ELSE conn
    /\ connection_queue' = IF destroyed' = "yes" THEN <<>> ELSE connection_queue
    /\ UNCHANGED <<countVars, db_stopping, threads_joined, held, db_expired, db_asleep>>

-----------------------------------------------------------------------------
GetterStep(g) ==
    \/ WaitEnds(g) \/ NeedCreate(g) \/ PingOk(g) \/ PingBad(g) \/ FinishGetter(g)

ProducerStep ==
    ProducerWait \/ ConnectFails \/ ProducerNotify \/ BackoffEnds \/ ConnectSucceeds

CloserStep == StopNotify \/ JoinThreads \/ DrainEnds

(* abort() ends every thread. *)
Alive == destroyed # "abort"

DbNext ==
    /\ Alive
    /\ \/ \E g \in Getters :
             \/ get_connection(g) \/ GetterStep(g) \/ DeadlinePasses(g)
             \/ DbTransaction(g) \/ EndTransaction(g) \/ release_connection(g)
       \/ ProducerStep \/ Scan \/ ScannerNotify
       \/ shutdown \/ DestroyPool \/ CloserStep

DbSpec == DbInit /\ [][DbNext]_dbVars

-----------------------------------------------------------------------------
DbCounting == {"waiting", "notify", "ping", "leaving", "return"}

(* The counters agree with what exists, at every point where another thread *)
(* can look: the total is the idle and the lent connections and the         *)
(* producer's reservation, and never above MaxSize; get_connection's bad    *)
(* pings, unreusable returns, failed connects and the scanner all keep it.  *)
PoolAccounting ==
    destroyed # "yes" =>
    /\ borrowed_count = Cardinality({g \in Getters : held[g] # NoConn})
    /\ active_getters = Cardinality({g \in Getters : db_pc[g] \in DbCounting})
    /\ connection_cnt = Len(connection_queue) + borrowed_count
                          + (IF db_pc[producer] = "connect" THEN 1 ELSE 0)
    /\ connection_cnt <= MaxSize

(* A thread sleeps on _cond only while what it waits for is false, or some  *)
(* thread is about to notify: the notifications issued after the unlock     *)
(* (get_connection, the producer, the scanner, stop) lose no wakeup.        *)
NoLostWakeup ==
    LET coming == \E t \in DbThreads : db_pc[t] \in {"notify", "failed"}
    IN  /\ producer \in db_asleep /\ db_pc[producer] = "wait" =>
              \/ coming
              \/ ~db_stopping /\ ~(connection_queue = <<>> /\ connection_cnt < MaxSize)
        /\ \A g \in Getters \cap db_asleep :
              db_pc[g] = "waiting" => coming \/ (~db_stopping /\ connection_queue = <<>>)

=============================================================================
