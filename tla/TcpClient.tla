------------------------------ MODULE TcpClient ------------------------------
(***************************************************************************)
(* TcpClient (src/common/net/tcp_client.cpp) and its Connector             *)
(* (src/common/net/connector.cpp). Any thread calls connect(), stop(),     *)
(* disconnect() and the destructor, which change the client's State under  *)
(* its mutex and queue commands for the event loop. The loop runs the      *)
(* commands in order, attempts connections, waits between attempts and     *)
(* hands each established socket over to a TcpConnection.                  *)
(*                                                                         *)
(* The connector's operations are functions of its state and the sockets;  *)
(* where the system decides, they give the set of outcomes.                *)
(***************************************************************************)
EXTENDS Naturals, Sequences, FiniteSets

CONSTANTS
    Sockets,        \* file descriptors
    NoSocket,
    InitDelay,      \* k_init_retry_delay_ms
    MaxDelay,       \* k_max_retry_delay_ms
    MaxCalls        \* bound: calls of the client's interface

ASSUME ClientAssumption ==
    NoSocket \notin Sockets /\ InitDelay \in Nat \ {0} /\ MaxDelay \in Nat /\ InitDelay <= MaxDelay

VARIABLES
    wants,          \* TcpClient::State::_connect
    destroyed,      \* _closing
    reconnects,     \* _retry
    published,      \* _connection
    sockets,        \* socket -> "free", "raw", or the state of its TcpConnection
    building,       \* the socket new_connection() wraps, between its two critical sections
    commands,       \* functors of the loop, in order
    connector,      \* the Connector
    calls

stateVars == <<wants, destroyed, reconnects, published>>
clientVars == <<stateVars, sockets, building, commands, connector, calls>>

ClientInit ==
    /\ wants = FALSE /\ destroyed = FALSE /\ reconnects \in BOOLEAN /\ published = NoSocket
    /\ sockets = [s \in Sockets |-> "free"] /\ building = NoSocket /\ commands = <<>> /\ calls = 0
    /\ connector = [connect |-> FALSE, state |-> "disconnected", channel |-> NoSocket,
                    timer |-> "none", delay |-> InitDelay, gaveUp |-> FALSE,
                    noAddress |-> FALSE]

Cmd(what, s) == [what |-> what, s |-> s]
StopCmd == Cmd("stop", NoSocket)
IfSocket(what, s) == IF s = NoSocket THEN <<>> ELSE <<Cmd(what, s)>>
Queue(cmds) == commands' = commands \o cmds

(***************************************************************************)
(* The interface: each call is one critical section of State::_mutex.      *)
(***************************************************************************)

Call == ~destroyed /\ calls < MaxCalls /\ calls' = calls + 1

connect ==
    /\ Call /\ wants' = TRUE /\ Queue(<<Cmd("connect", NoSocket)>>)
    /\ UNCHANGED <<destroyed, reconnects, published, sockets, building, connector>>

stop ==
    /\ Call /\ wants' = FALSE /\ Queue(<<StopCmd>>)
    /\ UNCHANGED <<destroyed, reconnects, published, sockets, building, connector>>

disconnect ==
    /\ Call /\ wants' = FALSE /\ Queue(<<StopCmd>> \o IfSocket("shutdown", published))
    /\ UNCHANGED <<destroyed, reconnects, published, sockets, building, connector>>

(* ~TcpClient() takes the connection and leaves it to the loop. *)
Destroy ==
    /\ Call /\ wants' = FALSE /\ destroyed' = TRUE /\ published' = NoSocket
    /\ Queue(<<StopCmd>> \o IfSocket("detach", published))
    /\ UNCHANGED <<reconnects, sockets, building, connector>>

(***************************************************************************)
(* The connector                                                           *)
(***************************************************************************)

CloseSocket(sk, s) == IF s = NoSocket THEN sk ELSE [sk EXCEPT ![s] = "free"]

(* cancel_retry(), remove_and_reset_channel() *)
stop_in_loop(c) == [c EXCEPT !.state = "disconnected", !.channel = NoSocket, !.timer = "none"]

(* retry(): wait, and double the next delay. If the timer cannot be made   *)
(* there is no further attempt. *)
retry(c) ==
    LET d == [c EXCEPT !.state = "disconnected", !.channel = NoSocket] IN
    IF c.connect
      THEN {[d EXCEPT !.timer = "pending", !.gaveUp = FALSE,
                      !.delay = IF @ * 2 > MaxDelay THEN MaxDelay ELSE @ * 2],
            [d EXCEPT !.timer = "none", !.gaveUp = TRUE]}
      ELSE {d}

(* start_in_loop() and connect(): under way, to be retried, or given up *)
start_in_loop(c, sk) ==
    IF c.connect /\ c.state = "disconnected" /\ c.timer # "pending"
      THEN {<<[c EXCEPT !.state = "connecting", !.channel = s, !.gaveUp = FALSE],
              [sk EXCEPT ![s] = "raw"]>> : s \in {x \in Sockets : sk[x] = "free"}}
           \cup {<<d, sk>> : d \in retry(c)} \cup {<<[c EXCEPT !.gaveUp = TRUE], sk>>}
      ELSE {<<c, sk>>}

Becomes(outcomes) == \E o \in outcomes : connector' = o[1] /\ sockets' = o[2]

(***************************************************************************)
(* The loop                                                                *)
(***************************************************************************)

LoopFree == building = NoSocket

Takes(what) == LoopFree /\ commands # <<>> /\ Head(commands).what = what

Done(cmds) == commands' = Tail(commands) \o cmds

(* The functor of TcpClient::connect() *)
RunConnect ==
    /\ Takes("connect")
    /\ Done(IF ~destroyed /\ wants /\ published = NoSocket THEN <<Cmd("start", NoSocket)>> ELSE <<>>)
    /\ UNCHANGED <<stateVars, sockets, building, connector, calls>>

(* Connector::start(), stop() and restart() *)
RunStart ==
    /\ Takes("start") /\ Done(<<>>)
    /\ Becomes(start_in_loop([connector EXCEPT !.connect = TRUE], sockets))
    /\ UNCHANGED <<stateVars, building, calls>>

RunStop ==
    /\ Takes("stop") /\ Done(<<>>)
    /\ connector' = [stop_in_loop(connector) EXCEPT !.connect = FALSE]
    /\ sockets' = CloseSocket(sockets, connector.channel)
    /\ UNCHANGED <<stateVars, building, calls>>

RunRestart ==
    /\ Takes("restart") /\ Done(<<>>)
    /\ Becomes(start_in_loop([stop_in_loop(connector) EXCEPT !.delay = InitDelay, !.connect = TRUE],
                             CloseSocket(sockets, connector.channel)))
    /\ UNCHANGED <<stateVars, building, calls>>

(* handle_write() with an error or a connection to itself, handle_error() *)
AttemptFails ==
    /\ LoopFree /\ connector.state = "connecting"
    /\ connector' \in retry(connector) /\ sockets' = CloseSocket(sockets, connector.channel)
    /\ UNCHANGED <<stateVars, building, commands, calls>>

(* new_connection() up to its first unlock *)
Admit(s) ==
    IF destroyed \/ ~wants \/ published # NoSocket
      THEN sockets' = CloseSocket(sockets, s) /\ UNCHANGED <<building, commands>>
      ELSE building' = s /\ UNCHANGED <<sockets, commands>>

(* handle_write() of an established connection *)
Established ==
    LET s == connector.channel IN
    /\ LoopFree /\ connector.state = "connecting"
    /\ IF connector.connect
         THEN /\ connector' = [connector EXCEPT !.state = "connected", !.channel = NoSocket,
                                                !.timer = "none", !.delay = InitDelay]
              /\ Admit(s)
         ELSE /\ connector' = [connector EXCEPT !.state = "disconnected", !.channel = NoSocket]
              /\ sockets' = CloseSocket(sockets, s) /\ UNCHANGED <<building, commands>>
    /\ UNCHANGED <<stateVars, calls>>

(* The addresses of the socket cannot be read. The stop it queues may undo *)
(* a start queued since, so that the failure is remembered. *)
AddressFails ==
    /\ ~LoopFree /\ building' = NoSocket /\ sockets' = CloseSocket(sockets, building) /\ Queue(<<StopCmd>>)
    /\ connector' = [connector EXCEPT !.noAddress = TRUE] /\ UNCHANGED <<stateVars, calls>>

(* The second critical section of new_connection(), connect_established() *)
Publish ==
    /\ ~LoopFree /\ building' = NoSocket
    /\ IF destroyed \/ ~wants \/ published # NoSocket
         THEN sockets' = CloseSocket(sockets, building) /\ UNCHANGED published
         ELSE published' = building /\ sockets' = [sockets EXCEPT ![building] = "connected"]
    /\ UNCHANGED <<wants, destroyed, reconnects, commands, connector, calls>>

(* handle_retry() *)
RetryTimer ==
    /\ LoopFree /\ connector.timer = "pending"
    /\ Becomes(start_in_loop([connector EXCEPT !.timer = "made"], sockets))
    /\ UNCHANGED <<stateVars, building, commands, calls>>

(* Variant: the connector is left as it was. *)
remove_connection_NoStop(s, rest) ==
    IF published = s
      THEN /\ published' = NoSocket
           /\ commands' = rest \o (IF ~destroyed /\ reconnects /\ wants
                                     THEN <<Cmd("start", NoSocket)>> ELSE <<>>)
                               \o <<Cmd("destroy", s)>>
      ELSE published' = published /\ commands' = rest \o <<Cmd("destroy", s)>>

(* remove_connection(), or destroy_connection() without a client *)
remove_connection(s, rest) ==
    IF published = s
      THEN /\ published' = NoSocket
           /\ commands' = rest \o <<StopCmd>>
                               \o (IF ~destroyed /\ reconnects /\ wants
                                     THEN <<Cmd("restart", NoSocket)>> ELSE <<>>)
                               \o <<Cmd("destroy", s)>>
      ELSE published' = published /\ commands' = rest \o <<Cmd("destroy", s)>>

IsOpen(s) == sockets[s] \in {"connected", "disconnecting"}

(* handle_close() of a connection, with the functors rest to be run *)
handle_close(s, rest) ==
    /\ sockets' = [sockets EXCEPT ![s] = "disconnected"] /\ remove_connection(s, rest)
    /\ UNCHANGED <<wants, destroyed, reconnects, building, connector, calls>>

PeerLeaves(s) == LoopFree /\ IsOpen(s) /\ handle_close(s, commands)

(* shutdow() of the connection disconnect() found *)
RunShutdown ==
    /\ Takes("shutdown") /\ Done(<<>>)
    /\ LET s == Head(commands).s IN
         sockets' = IF sockets[s] = "connected" THEN [sockets EXCEPT ![s] = "disconnecting"] ELSE sockets
    /\ UNCHANGED <<stateVars, building, connector, calls>>

(* The functor of ~TcpClient(): close the connection unless others use it. *)
RunDetach ==
    /\ Takes("detach")
    /\ \/ Done(IF IsOpen(Head(commands).s) THEN <<Cmd("force_close", Head(commands).s)>> ELSE <<>>)
       \/ Done(<<>>)
    /\ UNCHANGED <<stateVars, sockets, building, connector, calls>>

RunForceClose ==
    /\ Takes("force_close")
    /\ IF IsOpen(Head(commands).s)
         THEN handle_close(Head(commands).s, Tail(commands))
         ELSE Done(<<>>) /\ UNCHANGED <<stateVars, sockets, building, connector, calls>>

(* connect_destroyed(), and the last reference goes. *)
RunDestroy ==
    /\ Takes("destroy") /\ Done(<<>>) /\ sockets' = CloseSocket(sockets, Head(commands).s)
    /\ UNCHANGED <<stateVars, building, connector, calls>>

LoopFunctors ==
    \/ RunConnect \/ RunStart \/ RunStop \/ RunRestart
    \/ RunShutdown \/ RunDetach \/ RunForceClose \/ RunDestroy

Handover == AddressFails \/ Publish

ClientNext ==
    \/ connect \/ stop \/ disconnect \/ Destroy
    \/ LoopFunctors \/ Handover \/ AttemptFails \/ Established \/ RetryTimer
    \/ \E s \in Sockets : PeerLeaves(s)

(* The loop runs; an attempt ends, and of repeated attempts one succeeds. *)
ClientRuns == LoopFunctors \/ Handover \/ RetryTimer \/ AttemptFails \/ Established

ClientFairness == WF_clientVars(ClientRuns) /\ SF_clientVars(Established)

ClientSpec == ClientInit /\ [][ClientNext]_clientVars /\ ClientFairness

(***************************************************************************)
(* Properties                                                              *)
(***************************************************************************)

(* No socket is lost: one without a connection is the connector's or on    *)
(* its way to one, an open connection is the client's unless it was        *)
(* destroyed, and a closed one is about to be destroyed. A destroyed       *)
(* client has no connection. *)
SocketsOwned ==
    /\ \A s \in Sockets :
         /\ sockets[s] = "raw" => s \in {connector.channel, building}
         /\ IsOpen(s) => s = published \/ destroyed
         /\ sockets[s] = "disconnected" =>
              \E i \in 1..Len(commands) : commands[i] = Cmd("destroy", s)
    /\ connector.channel # NoSocket => sockets[connector.channel] = "raw"
    /\ destroyed => published = NoSocket

(* A client that is to be connected, and retries, gets its connection, or  *)
(* is stopped, or met an error the connector does not retry: no mix of     *)
(* stop(), connect() and lost connections leaves the connector stuck. *)
ConnectServed ==
    (wants /\ reconnects /\ ~destroyed) ~>
        (published # NoSocket \/ ~wants \/ destroyed \/ connector.gaveUp
                              \/ connector.noAddress)
==============================================================================
