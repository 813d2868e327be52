---------------------------- MODULE NotLostProofs ----------------------------
(***************************************************************************)
(* Proofs about what must not be lost. The descriptors of connections, for *)
(* any number of descriptors, calls and sessions: the client that connects *)
(* loses none of its sockets, and the command server that accepts leaves   *)
(* no session behind. The object store, for every set of uploads, contents *)
(* and names and any number of crashes: a registered file is durable, and  *)
(* the store implements FileTable.                                         *)
(***************************************************************************)
EXTENDS Descriptors, ObjectStore, FiniteSetTheorems, TLAPS

-----------------------------------------------------------------------------
(* The client *)

SocketCommands == {"shutdown", "detach", "force_close", "destroy"}

Commands ==
    [what : SocketCommands, s : Sockets]
        \cup [what : {"connect", "start", "stop", "restart"}, s : {NoSocket}]

SocketStates == {"free", "raw", "connected", "disconnecting", "disconnected"}

Connectors ==
    [connect : BOOLEAN, state : {"disconnected", "connecting", "connected"},
     channel : Sockets \cup {NoSocket}, timer : {"none", "made", "pending"},
     delay : Nat, gaveUp : BOOLEAN, noAddress : BOOLEAN]

(* Who has the sockets sk: the connector c the one of an attempt under     *)
(* way, new_connection() the one it wraps, which has left the connector,   *)
(* and the client the open connection, unless it is destroyed.             *)
Holds(sk, c, wrapped, open, gone) ==
    /\ sk \in [Sockets -> SocketStates] /\ c \in Connectors
    /\ wrapped \in Sockets \cup {NoSocket} /\ open \in Sockets \cup {NoSocket}
    /\ c.channel # NoSocket <=> c.state = "connecting"
    /\ c.channel # NoSocket => sk[c.channel] = "raw"
    /\ wrapped # NoSocket => c.channel = NoSocket /\ sk[wrapped] = "raw"
    /\ \A s \in Sockets : sk[s] = "raw" => s = c.channel \/ s = wrapped
    /\ \A s \in Sockets : sk[s] \in {"connected", "disconnecting"} => s = open \/ gone
    /\ gone => open = NoSocket

(* The commands q destroy the connections S, each of them once: a second   *)
(* time the descriptor might be in use again.                              *)
Destroys(q, S) ==
    /\ q \in Seq(Commands)
    /\ \A i \in 1..Len(q) : q[i].what = "destroy" => q[i].s \in S
    /\ \A s \in S : \E i \in 1..Len(q) : q[i] = Cmd("destroy", s)
    /\ \A i, j \in 1..Len(q) :
          q[i].what = "destroy" /\ q[j].what = "destroy" /\ q[i].s = q[j].s => i = j

Closed(sk) == {s \in Sockets : sk[s] = "disconnected"}

(* The inductive invariant of the client. *)
ClientInv ==
    /\ Holds(sockets, connector, building, published, destroyed)
    /\ Destroys(commands, Closed(sockets))

(* The head and the tail of the queue, element by element. *)
LEMMA CommandFacts ==
    ASSUME NEW q \in Seq(Commands), q # <<>>
    PROVE  /\ Head(q) = q[1] /\ Head(q) \in Commands /\ Tail(q) \in Seq(Commands)
           /\ Len(q) \in Nat \ {0} /\ Len(Tail(q)) = Len(q) - 1
           /\ \A i \in 1..Len(Tail(q)) : Tail(q)[i] = q[i + 1] /\ i + 1 \in 2..Len(q)
           /\ \A i \in 2..Len(q) : i - 1 \in 1..Len(Tail(q)) /\ Tail(q)[i - 1] = q[i]
<1>1. Len(q) \in Nat \ {0}
    OBVIOUS
<1> QED BY <1>1

(* Commands of other kinds do not matter, *)
LEMMA AddOthers ==
    ASSUME NEW q, NEW S, Destroys(q, S), NEW r \in Seq(Commands),
           \A i \in 1..Len(r) : r[i].what # "destroy"
    PROVE  Destroys(q \o r, S)
<1> DEFINE u == q \o r
<1>1. /\ q \in Seq(Commands) /\ u \in Seq(Commands) /\ Len(u) = Len(q) + Len(r)
      /\ Len(q) \in Nat /\ Len(r) \in Nat
      /\ \A i \in 1..Len(q) : u[i] = q[i] /\ i \in 1..Len(u)
      /\ \A i \in 1..Len(u) : i \notin 1..Len(q) => i - Len(q) \in 1..Len(r) /\ u[i] = r[i - Len(q)]
    BY DEF Destroys
<1> HIDE DEF u
<1>2. \A i \in 1..Len(u) : u[i].what = "destroy" => i \in 1..Len(q) /\ u[i] = q[i]
    BY ZenonT(30), <1>1
<1>3. \A s \in S : \E i \in 1..Len(u) : u[i] = Cmd("destroy", s)
    BY ZenonT(30), <1>1 DEF Destroys
<1>4. \A i, j \in 1..Len(u) :
         u[i].what = "destroy" /\ u[j].what = "destroy" /\ u[i].s = u[j].s => i = j
  <2> TAKE i, j \in 1..Len(u)
  <2> SUFFICES ASSUME u[i].what = "destroy", u[j].what = "destroy", u[i].s = u[j].s PROVE i = j
      BY ZenonT(30)
  <2>1. i \in 1..Len(q) /\ j \in 1..Len(q) /\ u[i] = q[i] /\ u[j] = q[j]
      BY ZenonT(30), <1>2
  <2> QED BY ZenonT(30), <2>1 DEF Destroys
<1>5. \A i \in 1..Len(u) : u[i].what = "destroy" => u[i].s \in S
    BY ZenonT(30), <1>2 DEF Destroys
<1>6. Destroys(u, S)
    BY ZenonT(30), <1>1, <1>3, <1>4, <1>5 DEF Destroys
<1> QED BY ZenonT(30), <1>6 DEF u

(* one more destruction adds its connection, *)
LEMMA AddDestroy ==
    ASSUME NEW q, NEW S, Destroys(q, S), NEW s \in Sockets \ S
    PROVE  Destroys(q \o <<Cmd("destroy", s)>>, S \cup {s})
<1> DEFINE c == Cmd("destroy", s)  u == q \o <<c>>  n == Len(q) + 1
<1>1. c \in Commands /\ c.what = "destroy" /\ c.s = s
    BY ZenonT(30) DEF Cmd, Commands, SocketCommands
<1> HIDE DEF c
<1>2. /\ q \in Seq(Commands) /\ u \in Seq(Commands) /\ Len(u) = n /\ Len(q) \in Nat /\ n \in 1..Len(u)
      /\ \A i \in 1..Len(q) : u[i] = q[i] /\ i \in 1..Len(u) /\ i # n
      /\ \A i \in 1..Len(u) : i \in 1..Len(q) \/ i = n
      /\ u[n] = c
    BY <1>1 DEF Destroys
<1> HIDE DEF u, n
<1>3. Destroys(u, S \cup {s})
    BY <1>1, <1>2 DEF Destroys, c
<1> QED BY ZenonT(30), <1>3 DEF u, c

(* and a destruction that has been carried out leaves none for its         *)
(* connection.                                                             *)
LEMMA TakeCommand ==
    ASSUME NEW q, NEW S, Destroys(q, S), q # <<>>
    PROVE  Destroys(Tail(q), IF Head(q).what = "destroy" THEN S \ {Head(q).s} ELSE S)
<1> DEFINE u == Tail(q)  T == IF Head(q).what = "destroy" THEN S \ {Head(q).s} ELSE S
<1>1. /\ Head(q) = q[1] /\ Head(q) \in Commands /\ u \in Seq(Commands)
      /\ Len(q) \in Nat \ {0} /\ Len(u) = Len(q) - 1
      /\ \A i \in 1..Len(u) : u[i] = q[i + 1] /\ i + 1 \in 2..Len(q)
      /\ \A i \in 2..Len(q) : i - 1 \in 1..Len(u) /\ u[i - 1] = q[i]
    BY ZenonT(30), CommandFacts DEF Destroys
<1> HIDE DEF u
<1>2. ASSUME NEW i \in 1..Len(u), u[i].what = "destroy" PROVE u[i].s \in T
  <2>1. 1 \in 1..Len(q) /\ i + 1 \in 1..Len(q) /\ i + 1 # 1 /\ u[i] = q[i + 1]
      BY <1>1
  <2>2. u[i].s \in S
      BY ZenonT(30), <1>2, <2>1 DEF Destroys
  <2>3. CASE Head(q).what = "destroy"
    <3>1. u[i].s # Head(q).s
        BY ZenonT(30), <1>1, <1>2, <2>1, <2>3 DEF Destroys
    <3> QED BY ZenonT(30), <2>2, <2>3, <3>1
  <2> QED BY ZenonT(30), <2>2, <2>3
<1>3. ASSUME NEW s \in T PROVE \E i \in 1..Len(u) : u[i] = Cmd("destroy", s)
  <2>1. PICK i \in 1..Len(q) : q[i] = Cmd("destroy", s)
      BY ZenonT(30), <1>3 DEF Destroys
  <2>2. i # 1
      BY <1>1, <1>3, <2>1 DEF Cmd
  <2>3. i \in 2..Len(q) /\ i - 1 \in 1..Len(u)
      BY <1>1, <2>2
  <2> QED BY ZenonT(30), <1>1, <2>1, <2>3
<1>4. \A i, j \in 1..Len(u) :
         u[i].what = "destroy" /\ u[j].what = "destroy" /\ u[i].s = u[j].s => i = j
  <2> TAKE i, j \in 1..Len(u)
  <2>1. /\ i + 1 \in 1..Len(q) /\ j + 1 \in 1..Len(q) /\ u[i] = q[i + 1] /\ u[j] = q[j + 1]
      BY <1>1
  <2>2. u[i].what = "destroy" /\ u[j].what = "destroy" /\ u[i].s = u[j].s => i + 1 = j + 1
      BY ZenonT(30), <2>1 DEF Destroys
  <2> QED BY <2>2
<1>5. Destroys(u, T)
    BY ZenonT(30), <1>1, <1>2, <1>3, <1>4 DEF Destroys
<1> QED BY ZenonT(30), <1>5 DEF u

(* An attempt that is given up closes its socket, *)
LEMMA GivesUp ==
    ASSUME NEW sk, NEW c, NEW p, NEW d, Holds(sk, c, NoSocket, p, d),
           NEW e \in Connectors, e.channel = NoSocket, e.state # "connecting"
    PROVE  /\ Holds(CloseSocket(sk, c.channel), e, NoSocket, p, d)
           /\ Closed(CloseSocket(sk, c.channel)) = Closed(sk)
<1>1. CASE c.channel = NoSocket
    BY ZenonT(30), <1>1 DEF CloseSocket, Holds
<1>2. CASE c.channel # NoSocket
  <2>1. c.channel \in Sockets /\ sk[c.channel] = "raw" /\ sk \in [Sockets -> SocketStates]
      BY ZenonT(30), <1>2 DEF Holds, Connectors
  <2> DEFINE m == CloseSocket(sk, c.channel)
  <2>2. /\ m \in [Sockets -> SocketStates] /\ m[c.channel] = "free"
        /\ \A s \in Sockets : s # c.channel => m[s] = sk[s]
      BY ZenonT(30), <1>2, <2>1 DEF CloseSocket, SocketStates
  <2> HIDE DEF m
  <2>3. Holds(m, e, NoSocket, p, d)
      BY ZenonT(30), <2>1, <2>2 DEF Holds
  <2>4. Closed(m) = Closed(sk)
      BY ZenonT(30), <2>1, <2>2 DEF Closed
  <2> QED BY ZenonT(30), <2>3, <2>4 DEF m
<1> QED BY ZenonT(30), <1>1, <1>2

(* one that is made takes a free one, and of the rest of its state the     *)
(* sockets do not depend.                                                  *)
LEMMA Tuned ==
    ASSUME NEW sk, NEW c, NEW b, NEW p, NEW d, Holds(sk, c, b, p, d),
           NEW e \in Connectors, e.channel = c.channel, e.state = c.state
    PROVE  Holds(sk, e, b, p, d)
    BY ZenonT(30) DEF Holds

(* Closed connections belong to nobody. *)
LEMMA SameRaw ==
    ASSUME NEW sk, NEW c, NEW b, NEW p, NEW d, Holds(sk, c, b, p, d),
           NEW m \in [Sockets -> SocketStates], \A s \in Sockets : m[s] = "raw" <=> sk[s] = "raw",
           \A s \in Sockets : m[s] \in {"connected", "disconnecting"} => sk[s] \in {"connected", "disconnecting"}
    PROVE  Holds(m, c, b, p, d)
<1>1. c.channel \in Sockets \cup {NoSocket}
    BY ZenonT(30) DEF Holds, Connectors
<1> QED BY ZenonT(30), <1>1 DEF Holds

(* The wait between two attempts has no socket. *)
LEMMA RetryType ==
    ASSUME NEW c \in Connectors, NEW e \in retry(c)
    PROVE  e \in Connectors /\ e.channel = NoSocket /\ e.state = "disconnected"
<1>1. c.delay \in Nat /\ (IF c.delay * 2 > MaxDelay THEN MaxDelay ELSE c.delay * 2) \in Nat
    BY ClientAssumption DEF Connectors
<1> QED BY ZenonT(30), <1>1 DEF retry, Connectors

(* start_in_loop(): nothing, a new attempt with a free socket, a retry or the end. *)
LEMMA StartHolds ==
    ASSUME NEW sk, NEW c, NEW p, NEW d, Holds(sk, c, NoSocket, p, d), NEW o \in start_in_loop(c, sk)
    PROVE  Holds(o[2], o[1], NoSocket, p, d) /\ Closed(o[2]) = Closed(sk)
<1>0. c \in Connectors /\ sk \in [Sockets -> SocketStates]
    BY ZenonT(30) DEF Holds
<1>1. CASE ~(c.connect /\ c.state = "disconnected" /\ c.timer # "pending")
  <2>1. start_in_loop(c, sk) = {<<c, sk>>}
      BY ZenonT(30), <1>1 DEF start_in_loop
  <2>2. o = <<c, sk>>
      BY ZenonT(30), <2>1
  <2> QED BY ZenonT(30), <2>2
<1>2. CASE c.connect /\ c.state = "disconnected" /\ c.timer # "pending"
  <2>0. c.channel = NoSocket
      BY ZenonT(30), <1>2 DEF Holds
  <2> DEFINE Taken == {<<[c EXCEPT !.state = "connecting", !.channel = s, !.gaveUp = FALSE],
                         [sk EXCEPT ![s] = "raw"]>> : s \in {x \in Sockets : sk[x] = "free"}}
             Retried == {<<e, sk>> : e \in retry(c)}
             Ended == {<<[c EXCEPT !.gaveUp = TRUE], sk>>}
  <2>a. start_in_loop(c, sk) = Taken \cup Retried \cup Ended
      BY ZenonT(30), <1>2 DEF start_in_loop
  <2>b. o \in Taken => \E s \in Sockets :
             /\ sk[s] = "free" /\ o[2] = [sk EXCEPT ![s] = "raw"]
             /\ o[1] = [c EXCEPT !.state = "connecting", !.channel = s, !.gaveUp = FALSE]
    <3> SUFFICES ASSUME o \in Taken
                 PROVE  \E s \in Sockets :
                          /\ sk[s] = "free" /\ o[2] = [sk EXCEPT ![s] = "raw"]
                          /\ o[1] = [c EXCEPT !.state = "connecting", !.channel = s, !.gaveUp = FALSE]
        BY ZenonT(30)
    <3>1. PICK s \in {x \in Sockets : sk[x] = "free"} :
             o = <<[c EXCEPT !.state = "connecting", !.channel = s, !.gaveUp = FALSE], [sk EXCEPT ![s] = "raw"]>>
        BY ZenonT(30)
    <3> QED BY ZenonT(30), <3>1
  <2>c. o \in Retried => o[1] \in retry(c) /\ o[2] = sk
      OBVIOUS
  <2>d. o \in Ended => o[1] = [c EXCEPT !.gaveUp = TRUE] /\ o[2] = sk
      OBVIOUS
  <2> HIDE DEF Taken, Retried, Ended
  <2>1. \/ \E s \in Sockets : /\ sk[s] = "free" /\ o[2] = [sk EXCEPT ![s] = "raw"]
                              /\ o[1] = [c EXCEPT !.state = "connecting", !.channel = s, !.gaveUp = FALSE]
        \/ o[1] \in retry(c) /\ o[2] = sk
        \/ o[1] = [c EXCEPT !.gaveUp = TRUE] /\ o[2] = sk
      BY ZenonT(30), <2>a, <2>b, <2>c, <2>d
  <2>2. ASSUME NEW s \in Sockets, sk[s] = "free", o[2] = [sk EXCEPT ![s] = "raw"],
               o[1] = [c EXCEPT !.state = "connecting", !.channel = s, !.gaveUp = FALSE]
        PROVE  Holds(o[2], o[1], NoSocket, p, d) /\ Closed(o[2]) = Closed(sk)
    <3>1. o[1] \in Connectors /\ o[1].state = "connecting" /\ o[1].channel = s
        BY ZenonT(30), <1>0, <2>2 DEF Connectors
    <3>2. /\ o[2] \in [Sockets -> SocketStates] /\ o[2][s] = "raw"
          /\ \A r \in Sockets : r # s => o[2][r] = sk[r]
        BY ZenonT(30), <1>0, <2>2 DEF SocketStates
    <3>3. s # NoSocket
        BY ZenonT(30), ClientAssumption
    <3>4. Holds(o[2], o[1], NoSocket, p, d)
        BY <2>0, <2>2, <3>1, <3>2, <3>3 DEF Holds
    <3>5. Closed(o[2]) = Closed(sk)
        BY ZenonT(30), <2>2, <3>2 DEF Closed
    <3> QED BY ZenonT(30), <3>4, <3>5
  <2>3. CASE o[1] \in retry(c) /\ o[2] = sk
    <3>1. o[1] \in Connectors /\ o[1].channel = NoSocket /\ o[1].state = "disconnected"
        BY ZenonT(30), <1>0, <2>3, RetryType
    <3> QED BY ZenonT(30), <1>2, <2>0, <2>3, <3>1, Tuned
  <2>4. CASE o[1] = [c EXCEPT !.gaveUp = TRUE] /\ o[2] = sk
    <3>1. o[1] \in Connectors /\ o[1].channel = c.channel /\ o[1].state = c.state
        BY ZenonT(30), <1>0, <2>4 DEF Connectors
    <3> QED BY ZenonT(30), <2>4, <3>1, Tuned
  <2> QED BY ZenonT(30), <2>1, <2>2, <2>3, <2>4
<1> QED BY ZenonT(30), <1>1, <1>2

(* The commands the client queues besides destructions. *)
LEMMA OtherCommands ==
    /\ \A what \in {"connect", "start", "stop", "restart"} : Cmd(what, NoSocket) \in Commands
    /\ \A what \in SocketCommands : \A s \in Sockets : Cmd(what, s) \in Commands
    /\ \A what, s : Cmd(what, s).what = what /\ Cmd(what, s).s = s
    /\ \A c \in Commands : c.what \in SocketCommands => c.s \in Sockets
    BY ZenonT(30) DEF Cmd, Commands, SocketCommands

(* Queueing one of them, *)
LEMMA AddOther ==
    ASSUME NEW q, NEW S, Destroys(q, S), NEW c \in Commands, c.what # "destroy"
    PROVE  Destroys(q \o <<c>>, S)
<1>1. <<c>> \in Seq(Commands) /\ \A i \in 1..Len(<<c>>) : <<c>>[i].what # "destroy"
    OBVIOUS
<1> QED BY ZenonT(30), <1>1, AddOthers

(* none, *)
LEMMA AddNone ==
    ASSUME NEW q, NEW S, Destroys(q, S)
    PROVE  q \o <<>> = q
    BY DEF Destroys

(* or two leaves the destructions as they are. *)
LEMMA AddTwo ==
    ASSUME NEW q, NEW S, Destroys(q, S), NEW c \in Commands, c.what # "destroy",
           NEW r \in Seq(Commands), r = <<>> \/ \E e \in Commands : r = <<e>> /\ e.what # "destroy"
    PROVE  Destroys(q \o (<<c>> \o r), S)
<1>1. CASE r = <<>>
  <2>1. <<c>> \o r = <<c>>
      BY <1>1
  <2> QED BY ZenonT(30), <2>1, AddOther
<1>2. ASSUME NEW e \in Commands, r = <<e>>, e.what # "destroy"
      PROVE  Destroys(q \o (<<c>> \o r), S)
  <2> DEFINE u == <<c>> \o r
  <2>1. u \in Seq(Commands) /\ Len(u) = 2 /\ u[1] = c /\ u[2] = e
      BY <1>2
  <2>2. u \in Seq(Commands) /\ \A i \in 1..Len(u) : u[i].what # "destroy"
      BY <1>2, <2>1
  <2> QED BY ZenonT(30), <2>2, AddOthers
<1> QED BY ZenonT(30), <1>1, <1>2

(* A step of the client keeps its invariant: the interface, ... *)
LEMMA InterfaceSteps ==
    ASSUME ClientInv, connect \/ stop \/ disconnect \/ Destroy
    PROVE  ClientInv'
<1>1. /\ StopCmd \in Commands /\ StopCmd.what # "destroy"
      /\ Cmd("connect", NoSocket) \in Commands /\ Cmd("connect", NoSocket).what # "destroy"
    BY OtherCommands DEF StopCmd
<1>2. Holds(sockets, connector, building, published, destroyed) /\ Destroys(commands, Closed(sockets))
    BY ZenonT(30) DEF ClientInv
<1>3. published \in Sockets \cup {NoSocket}
    BY ZenonT(30), <1>2 DEF Holds
<1>4. \A what \in {"shutdown", "detach"} :
         /\ IfSocket(what, published) \in Seq(Commands)
         /\ IfSocket(what, published) = <<>> \/ \E e \in Commands : IfSocket(what, published) = <<e>> /\ e.what # "destroy"
  <2> TAKE what \in {"shutdown", "detach"}
  <2>1. CASE published = NoSocket
      BY <2>1 DEF IfSocket
  <2>2. CASE published # NoSocket
    <3>1. Cmd(what, published) \in Commands /\ Cmd(what, published).what # "destroy"
        BY ZenonT(30), <1>3, <2>2, OtherCommands DEF SocketCommands
    <3>2. IfSocket(what, published) = <<Cmd(what, published)>>
        BY ZenonT(30), <2>2 DEF IfSocket
    <3> QED BY <3>1, <3>2
  <2> QED BY ZenonT(30), <2>1, <2>2
<1>5. CASE connect
  <2>1. commands' = commands \o <<Cmd("connect", NoSocket)>> /\ UNCHANGED <<destroyed, published, sockets, building, connector>>
      BY ZenonT(30), <1>5 DEF connect, Queue
  <2>2. Destroys(commands', Closed(sockets))
      BY ZenonT(30), <1>1, <1>2, <2>1, AddOther
  <2> QED BY ZenonT(30), <1>2, <2>1, <2>2 DEF ClientInv
<1>6. CASE stop
  <2>1. commands' = commands \o <<StopCmd>> /\ UNCHANGED <<destroyed, published, sockets, building, connector>>
      BY ZenonT(30), <1>6 DEF stop, Queue
  <2>2. Destroys(commands', Closed(sockets))
      BY ZenonT(30), <1>1, <1>2, <2>1, AddOther
  <2> QED BY ZenonT(30), <1>2, <2>1, <2>2 DEF ClientInv
<1>7. CASE disconnect
  <2>1. /\ commands' = commands \o (<<StopCmd>> \o IfSocket("shutdown", published))
        /\ UNCHANGED <<destroyed, published, sockets, building, connector>>
      BY ZenonT(30), <1>7 DEF disconnect, Queue
  <2>2. Destroys(commands', Closed(sockets))
      BY ZenonT(30), <1>1, <1>2, <1>4, <2>1, AddTwo
  <2> QED BY ZenonT(30), <1>2, <2>1, <2>2 DEF ClientInv
<1>8. CASE Destroy
  <2>1. /\ commands' = commands \o (<<StopCmd>> \o IfSocket("detach", published))
        /\ destroyed' = TRUE /\ published' = NoSocket /\ UNCHANGED <<sockets, building, connector>>
      BY ZenonT(30), <1>8 DEF Destroy, Queue
  <2>2. Destroys(commands', Closed(sockets))
      BY ZenonT(30), <1>1, <1>2, <1>4, <2>1, AddTwo
  <2>3. Holds(sockets, connector, building, NoSocket, TRUE)
      BY ZenonT(30), <1>2 DEF Holds
  <2> QED BY ZenonT(30), <2>1, <2>2, <2>3 DEF ClientInv
<1> QED BY ZenonT(30), <1>5, <1>6, <1>7, <1>8

(* ... the functors that start and stop attempts, ... *)
LEMMA ConnectorFunctors ==
    ASSUME ClientInv, RunConnect \/ RunStart \/ RunStop \/ RunRestart \/ RetryTimer
    PROVE  ClientInv'
<1>1. /\ Holds(sockets, connector, building, published, destroyed) /\ Destroys(commands, Closed(sockets))
      /\ connector \in Connectors
    BY ZenonT(30) DEF ClientInv, Holds
<1>2. building = NoSocket
    BY ZenonT(30) DEF RunConnect, RunStart, RunStop, RunRestart, RetryTimer, Takes, LoopFree
<1>3. ASSUME NEW what \in {"connect", "start", "stop", "restart"}, Takes(what)
      PROVE  Destroys(Tail(commands), Closed(sockets)) /\ Tail(commands) \o <<>> = Tail(commands)
  <2>1. commands # <<>> /\ Head(commands).what # "destroy"
      BY ZenonT(30), <1>3 DEF Takes
  <2>2. Destroys(Tail(commands), Closed(sockets))
      BY ZenonT(30), <1>1, <2>1, TakeCommand
  <2> QED BY ZenonT(30), <2>2, AddNone
<1>4. CASE RunConnect
  <2>1. Takes("connect") /\ UNCHANGED <<sockets, connector, building, published, destroyed>>
      BY ZenonT(30), <1>4 DEF RunConnect, stateVars
  <2>2. commands' = Tail(commands) \o <<Cmd("start", NoSocket)>> \/ commands' = Tail(commands) \o <<>>
      BY ZenonT(30), <1>4 DEF RunConnect, Done
  <2>3. Destroys(Tail(commands), Closed(sockets)) /\ Tail(commands) \o <<>> = Tail(commands)
      BY ZenonT(30), <1>3, <2>1
  <2>4. Cmd("start", NoSocket) \in Commands /\ Cmd("start", NoSocket).what # "destroy"
      BY OtherCommands
  <2>5. Destroys(commands', Closed(sockets))
      BY ZenonT(30), <2>2, <2>3, <2>4, AddOther
  <2> QED BY ZenonT(30), <1>1, <2>1, <2>5 DEF ClientInv
<1>5. CASE RunStart
  <2>1. Takes("start") /\ commands' = Tail(commands) \o <<>> /\ UNCHANGED <<building, published, destroyed>>
      BY ZenonT(30), <1>5 DEF RunStart, stateVars, Done
  <2>2. PICK c : c = [connector EXCEPT !.connect = TRUE]
      BY ZenonT(30)
  <2>3. c \in Connectors /\ c.channel = connector.channel /\ c.state = connector.state
      BY ZenonT(30), <1>1, <2>2 DEF Connectors
  <2>4. Holds(sockets, c, NoSocket, published, destroyed)
      BY ZenonT(30), <1>1, <1>2, <2>3, Tuned
  <2>5. PICK o \in start_in_loop(c, sockets) : connector' = o[1] /\ sockets' = o[2]
      BY ZenonT(30), <1>5, <2>2 DEF RunStart, Becomes
  <2>6. Holds(sockets', connector', NoSocket, published, destroyed) /\ Closed(sockets') = Closed(sockets)
      BY ZenonT(30), <2>4, <2>5, StartHolds
  <2>7. Destroys(commands', Closed(sockets'))
      BY ZenonT(30), <1>3, <2>1, <2>6
  <2> QED BY ZenonT(30), <1>2, <2>1, <2>6, <2>7 DEF ClientInv
<1>6. CASE RunStop
  <2>1. Takes("stop") /\ commands' = Tail(commands) \o <<>> /\ UNCHANGED <<building, published, destroyed>>
      BY ZenonT(30), <1>6 DEF RunStop, stateVars, Done
  <2>2. connector' \in Connectors /\ connector'.channel = NoSocket /\ connector'.state # "connecting"
      BY ZenonT(30), <1>1, <1>6 DEF RunStop, stop_in_loop, Connectors
  <2>3. sockets' = CloseSocket(sockets, connector.channel)
      BY ZenonT(30), <1>6 DEF RunStop
  <2>4. Holds(sockets', connector', NoSocket, published, destroyed) /\ Closed(sockets') = Closed(sockets)
      BY ZenonT(30), <1>1, <1>2, <2>2, <2>3, GivesUp
  <2>5. Destroys(commands', Closed(sockets'))
      BY ZenonT(30), <1>3, <2>1, <2>4
  <2> QED BY ZenonT(30), <1>2, <2>1, <2>4, <2>5 DEF ClientInv
<1>7. CASE RunRestart
  <2>1. Takes("restart") /\ commands' = Tail(commands) \o <<>> /\ UNCHANGED <<building, published, destroyed>>
      BY ZenonT(30), <1>7 DEF RunRestart, stateVars, Done
  <2>2. PICK c : c = [stop_in_loop(connector) EXCEPT !.delay = InitDelay, !.connect = TRUE]
      BY ZenonT(30)
  <2>3. c \in Connectors /\ c.channel = NoSocket /\ c.state # "connecting"
      BY ZenonT(30), <1>1, <2>2, ClientAssumption DEF stop_in_loop, Connectors
  <2>4. PICK sk : sk = CloseSocket(sockets, connector.channel)
      BY ZenonT(30)
  <2>5. Holds(sk, c, NoSocket, published, destroyed) /\ Closed(sk) = Closed(sockets)
      BY ZenonT(30), <1>1, <1>2, <2>3, <2>4, GivesUp
  <2>6. PICK o \in start_in_loop(c, sk) : connector' = o[1] /\ sockets' = o[2]
      BY ZenonT(30), <1>7, <2>2, <2>4 DEF RunRestart, Becomes
  <2>7. Holds(sockets', connector', NoSocket, published, destroyed) /\ Closed(sockets') = Closed(sockets)
      BY ZenonT(30), <2>5, <2>6, StartHolds
  <2>8. Destroys(commands', Closed(sockets'))
      BY ZenonT(30), <1>3, <2>1, <2>7
  <2> QED BY ZenonT(30), <1>2, <2>1, <2>7, <2>8 DEF ClientInv
<1>8. CASE RetryTimer
  <2>1. UNCHANGED <<commands, building, published, destroyed>>
      BY ZenonT(30), <1>8 DEF RetryTimer, stateVars
  <2>2. PICK c : c = [connector EXCEPT !.timer = "made"]
      BY ZenonT(30)
  <2>3. c \in Connectors /\ c.channel = connector.channel /\ c.state = connector.state
      BY ZenonT(30), <1>1, <2>2 DEF Connectors
  <2>4. Holds(sockets, c, NoSocket, published, destroyed)
      BY ZenonT(30), <1>1, <1>2, <2>3, Tuned
  <2>5. PICK o \in start_in_loop(c, sockets) : connector' = o[1] /\ sockets' = o[2]
      BY ZenonT(30), <1>8, <2>2 DEF RetryTimer, Becomes
  <2>6. Holds(sockets', connector', NoSocket, published, destroyed) /\ Closed(sockets') = Closed(sockets)
      BY ZenonT(30), <2>4, <2>5, StartHolds
  <2> QED BY ZenonT(30), <1>1, <1>2, <2>1, <2>6 DEF ClientInv
<1> QED BY ZenonT(30), <1>4, <1>5, <1>6, <1>7, <1>8

(* ... the end of an attempt and the hand-over of its socket, ... *)
LEMMA Attempts ==
    ASSUME ClientInv, AttemptFails \/ Established \/ Handover
    PROVE  ClientInv'
<1>1. /\ Holds(sockets, connector, building, published, destroyed) /\ Destroys(commands, Closed(sockets))
      /\ connector \in Connectors /\ sockets \in [Sockets -> SocketStates] /\ NoSocket \notin Sockets
    BY ZenonT(30), ClientAssumption DEF ClientInv, Holds
<1>2. CASE AttemptFails
  <2>1. building = NoSocket /\ UNCHANGED <<commands, building, published, destroyed>>
      BY ZenonT(30), <1>2 DEF AttemptFails, stateVars, LoopFree
  <2>2. connector' \in Connectors /\ connector'.channel = NoSocket /\ connector'.state # "connecting"
      BY ZenonT(30), <1>1, <1>2, RetryType DEF AttemptFails
  <2>3. sockets' = CloseSocket(sockets, connector.channel)
      BY ZenonT(30), <1>2 DEF AttemptFails
  <2>4. Holds(sockets', connector', NoSocket, published, destroyed) /\ Closed(sockets') = Closed(sockets)
      BY ZenonT(30), <1>1, <2>1, <2>2, <2>3, GivesUp
  <2> QED BY ZenonT(30), <1>1, <2>1, <2>4 DEF ClientInv
<1>3. CASE Established
  <2>1. /\ building = NoSocket /\ connector.state = "connecting" /\ UNCHANGED <<commands, published, destroyed>>
      BY ZenonT(30), <1>3 DEF Established, Admit, stateVars, LoopFree
  <2>2. connector.channel \in Sockets /\ sockets[connector.channel] = "raw"
      BY ZenonT(30), <1>1, <2>1 DEF Holds, Connectors
  <2>3. connector' \in Connectors /\ connector'.channel = NoSocket /\ connector'.state # "connecting"
    <3>1. \/ connector' = [connector EXCEPT !.state = "connected", !.channel = NoSocket,
                                            !.timer = "none", !.delay = InitDelay]
          \/ connector' = [connector EXCEPT !.state = "disconnected", !.channel = NoSocket]
        BY ZenonT(30), <1>3 DEF Established
    <3>2. CASE connector' = [connector EXCEPT !.state = "connected", !.channel = NoSocket,
                                              !.timer = "none", !.delay = InitDelay]
        BY ZenonT(30), <1>1, <3>2, ClientAssumption DEF Connectors
    <3>3. CASE connector' = [connector EXCEPT !.state = "disconnected", !.channel = NoSocket]
        BY ZenonT(30), <1>1, <3>3 DEF Connectors
    <3> QED BY ZenonT(30), <3>1, <3>2, <3>3
  <2>4. CASE sockets' = CloseSocket(sockets, connector.channel) /\ building' = NoSocket
    <3>1. Holds(sockets', connector', NoSocket, published, destroyed) /\ Closed(sockets') = Closed(sockets)
        BY ZenonT(30), <1>1, <2>1, <2>3, <2>4, GivesUp
    <3> QED BY ZenonT(30), <1>1, <2>1, <2>4, <3>1 DEF ClientInv
  <2>5. CASE sockets' = sockets /\ building' = connector.channel
    <3>1. Holds(sockets, connector', connector.channel, published, destroyed)
        BY ZenonT(30), <1>1, <2>1, <2>2, <2>3 DEF Holds
    <3> QED BY ZenonT(30), <1>1, <2>1, <2>5, <3>1 DEF ClientInv
  <2> QED BY ZenonT(30), <1>3, <2>1, <2>4, <2>5 DEF Established, Admit
<1>4. CASE Handover
  <2>1. /\ building \in Sockets /\ building' = NoSocket /\ sockets[building] = "raw"
        /\ connector.channel = NoSocket /\ connector.state # "connecting"
      BY ZenonT(30), <1>1, <1>4 DEF Handover, AddressFails, Publish, LoopFree, Holds
  <2>2. /\ connector' \in Connectors /\ connector'.channel = connector.channel
        /\ connector'.state = connector.state /\ destroyed' = destroyed
      BY ZenonT(30), <1>1, <1>4 DEF Handover, AddressFails, Publish, Connectors, stateVars
  <2>3. CASE sockets' = CloseSocket(sockets, building) /\ published' = published
    <3>1. /\ sockets' \in [Sockets -> SocketStates] /\ sockets'[building] = "free"
          /\ \A s \in Sockets : s # building => sockets'[s] = sockets[s]
        BY ZenonT(30), <1>1, <2>1, <2>3 DEF CloseSocket, SocketStates
    <3>2. Holds(sockets', connector', NoSocket, published, destroyed)
        BY ZenonT(30), <1>1, <2>1, <2>2, <3>1 DEF Holds
    <3>3. Closed(sockets') = Closed(sockets)
        BY ZenonT(30), <2>1, <3>1 DEF Closed
    <3>4. commands' = commands \/ commands' = commands \o <<StopCmd>>
        BY ZenonT(30), <1>4 DEF Handover, AddressFails, Publish, Queue
    <3>5. StopCmd \in Commands /\ StopCmd.what # "destroy"
        BY OtherCommands DEF StopCmd
    <3>6. Destroys(commands', Closed(sockets))
        BY ZenonT(30), <1>1, <3>4, <3>5, AddOther
    <3> QED BY ZenonT(30), <2>1, <2>2, <2>3, <3>2, <3>3, <3>6 DEF ClientInv
  <2>4. CASE /\ ~destroyed /\ published = NoSocket /\ published' = building
             /\ sockets' = [sockets EXCEPT ![building] = "connected"] /\ commands' = commands
    <3>1. /\ sockets' \in [Sockets -> SocketStates] /\ sockets'[building] = "connected"
          /\ \A s \in Sockets : s # building => sockets'[s] = sockets[s]
        BY ZenonT(30), <1>1, <2>1, <2>4 DEF SocketStates
    <3>2. Holds(sockets', connector', NoSocket, building, destroyed)
        BY ZenonT(30), <1>1, <2>1, <2>2, <2>4, <3>1 DEF Holds
    <3>3. Closed(sockets') = Closed(sockets)
        BY ZenonT(30), <2>1, <3>1 DEF Closed
    <3> QED BY ZenonT(30), <1>1, <2>1, <2>2, <2>4, <3>2, <3>3 DEF ClientInv
  <2> QED BY ZenonT(30), <1>4, <2>3, <2>4 DEF Handover, AddressFails, Publish, stateVars
<1> QED BY ZenonT(30), <1>2, <1>3, <1>4

(* ... and the end of a connection, with the functors rest to be run. *)
LEMMA Closing ==
    ASSUME Holds(sockets, connector, building, published, destroyed), NEW s \in Sockets, IsOpen(s),
           NEW rest, Destroys(rest, Closed(sockets)), handle_close(s, rest)
    PROVE  ClientInv'
<1>1. /\ sockets' = [sockets EXCEPT ![s] = "disconnected"] /\ remove_connection(s, rest)
      /\ UNCHANGED <<destroyed, building, connector>> /\ sockets \in [Sockets -> SocketStates]
      /\ sockets[s] \in {"connected", "disconnecting"}
    BY ZenonT(30) DEF handle_close, Holds, IsOpen
<1>2. /\ sockets' \in [Sockets -> SocketStates] /\ sockets'[s] = "disconnected"
      /\ \A r \in Sockets : r # s => sockets'[r] = sockets[r]
    BY ZenonT(30), <1>1 DEF SocketStates
<1>3. Closed(sockets') = Closed(sockets) \cup {s} /\ s \in Sockets \ Closed(sockets)
    BY ZenonT(30), <1>1, <1>2 DEF Closed
<1>4. /\ StopCmd \in Commands /\ StopCmd.what # "destroy"
      /\ Cmd("restart", NoSocket) \in Commands /\ Cmd("restart", NoSocket).what # "destroy"
    BY OtherCommands DEF StopCmd
<1>5. CASE published = s
  <2>1. published' = NoSocket
      BY ZenonT(30), <1>1, <1>5 DEF remove_connection
  <2>2. Holds(sockets', connector, building, NoSocket, destroyed)
      BY <1>1, <1>2, <1>5 DEF Holds
  <2> DEFINE stopped == rest \o <<StopCmd>>
  <2>3. Destroys(stopped, Closed(sockets))
      BY ZenonT(30), <1>4, AddOther
  <2>4. /\ stopped \o <<>> = stopped
        /\ Destroys(stopped \o <<Cmd("restart", NoSocket)>>, Closed(sockets))
      BY ZenonT(30), <1>4, <2>3, AddOther, AddNone
  <2>5. PICK q \in {stopped \o <<>>, stopped \o <<Cmd("restart", NoSocket)>>} :
           commands' = q \o <<Cmd("destroy", s)>>
      BY ZenonT(30), <1>1, <1>5 DEF remove_connection
  <2>6. Destroys(q, Closed(sockets))
      BY ZenonT(30), <2>3, <2>4, <2>5
  <2>7. Destroys(commands', Closed(sockets'))
    <3>1. Destroys(q \o <<Cmd("destroy", s)>>, Closed(sockets) \cup {s})
        BY ZenonT(30), <1>3, <2>6, AddDestroy
    <3> QED BY ZenonT(30), <1>3, <2>5, <3>1
  <2> QED BY ZenonT(30), <1>1, <2>1, <2>2, <2>7 DEF ClientInv
<1>6. CASE published # s
  <2>1. published' = published /\ commands' = rest \o <<Cmd("destroy", s)>>
      BY ZenonT(30), <1>1, <1>6 DEF remove_connection
  <2>2. Holds(sockets', connector, building, published, destroyed)
      BY <1>1, <1>2, <1>6 DEF Holds
  <2>3. Destroys(commands', Closed(sockets'))
    <3>1. Destroys(rest \o <<Cmd("destroy", s)>>, Closed(sockets) \cup {s})
        BY ZenonT(30), <1>3, AddDestroy
    <3> QED BY ZenonT(30), <1>3, <2>1, <3>1
  <2> QED BY ZenonT(30), <1>1, <2>1, <2>2, <2>3 DEF ClientInv
<1> QED BY ZenonT(30), <1>5, <1>6

(* The functors of a connection, and a peer that leaves. *)
LEMMA ConnectionFunctors ==
    ASSUME ClientInv, \/ RunShutdown \/ RunDetach \/ RunForceClose \/ RunDestroy
                      \/ \E s \in Sockets : PeerLeaves(s)
    PROVE  ClientInv'
<1>1. /\ Holds(sockets, connector, building, published, destroyed) /\ Destroys(commands, Closed(sockets))
      /\ sockets \in [Sockets -> SocketStates] /\ connector \in Connectors /\ commands \in Seq(Commands)
    BY ZenonT(30) DEF ClientInv, Holds, Destroys
<1>2. ASSUME NEW what \in SocketCommands, Takes(what)
      PROVE  /\ Head(commands) \in Commands /\ Head(commands).what = what /\ Head(commands).s \in Sockets
             /\ what # "destroy" => Destroys(Tail(commands), Closed(sockets))
             /\ what = "destroy" => Destroys(Tail(commands), Closed(sockets) \ {Head(commands).s})
  <2>1. commands # <<>> /\ Head(commands).what = what
      BY ZenonT(30), <1>2 DEF Takes
  <2>2. Head(commands) \in Commands
      BY ZenonT(30), <1>1, <2>1, CommandFacts
  <2>3. Head(commands).s \in Sockets
      BY ZenonT(30), <2>1, <2>2, OtherCommands
  <2>4. Destroys(Tail(commands), IF Head(commands).what = "destroy" THEN Closed(sockets) \ {Head(commands).s} ELSE Closed(sockets))
      BY ZenonT(30), <1>1, <2>1, TakeCommand
  <2> QED BY ZenonT(30), <2>1, <2>2, <2>3, <2>4
<1>3. {"shutdown", "detach", "force_close", "destroy"} = SocketCommands
    BY ZenonT(30) DEF SocketCommands
<1>4. CASE RunShutdown
  <2>1. Takes("shutdown") /\ commands' = Tail(commands) \o <<>> /\ UNCHANGED <<connector, building, published, destroyed>>
      BY ZenonT(30), <1>4 DEF RunShutdown, Done, stateVars
  <2>2. PICK s \in Sockets : s = Head(commands).s
      BY ZenonT(30), <1>2, <1>3, <2>1
  <2>3. Destroys(commands', Closed(sockets))
      BY ZenonT(30), <1>2, <1>3, <2>1, AddNone
  <2>4. CASE sockets[s] = "connected"
    <3>1. sockets' = [sockets EXCEPT ![s] = "disconnecting"]
        BY ZenonT(30), <1>4, <2>2, <2>4 DEF RunShutdown
    <3>2. /\ sockets' \in [Sockets -> SocketStates] /\ sockets'[s] = "disconnecting"
          /\ \A r \in Sockets : r # s => sockets'[r] = sockets[r]
        BY ZenonT(30), <1>1, <3>1 DEF SocketStates
    <3>3. Holds(sockets', connector, building, published, destroyed)
        BY ZenonT(30), <1>1, <2>4, <3>2, SameRaw
    <3>4. Closed(sockets') = Closed(sockets)
        BY ZenonT(30), <2>4, <3>2 DEF Closed
    <3> QED BY ZenonT(30), <2>1, <2>3, <3>3, <3>4 DEF ClientInv
  <2>5. CASE sockets[s] # "connected"
    <3>1. sockets' = sockets
        BY ZenonT(30), <1>4, <2>2, <2>5 DEF RunShutdown
    <3> QED BY ZenonT(30), <1>1, <2>1, <2>3, <3>1 DEF ClientInv
  <2> QED BY ZenonT(30), <2>4, <2>5
<1>5. CASE RunDetach
  <2>1. Takes("detach") /\ UNCHANGED <<sockets, connector, building, published, destroyed>>
      BY ZenonT(30), <1>5 DEF RunDetach, stateVars
  <2>2. PICK s \in Sockets : s = Head(commands).s
      BY ZenonT(30), <1>2, <1>3, <2>1
  <2>3. commands' = Tail(commands) \o <<>> \/ commands' = Tail(commands) \o <<Cmd("force_close", s)>>
      BY ZenonT(30), <1>5, <2>2 DEF RunDetach, Done
  <2>4. Cmd("force_close", s) \in Commands /\ Cmd("force_close", s).what # "destroy"
      BY <1>3, OtherCommands
  <2>5. Destroys(Tail(commands), Closed(sockets))
      BY ZenonT(30), <1>2, <1>3, <2>1
  <2>6. Destroys(commands', Closed(sockets))
      BY ZenonT(30), <2>3, <2>4, <2>5, AddNone, AddOther
  <2> QED BY ZenonT(30), <1>1, <2>1, <2>6 DEF ClientInv
<1>6. CASE RunForceClose
  <2>1. Takes("force_close")
      BY ZenonT(30), <1>6 DEF RunForceClose
  <2>2. PICK s \in Sockets : s = Head(commands).s
      BY ZenonT(30), <1>2, <1>3, <2>1
  <2>3. Destroys(Tail(commands), Closed(sockets))
      BY ZenonT(30), <1>2, <1>3, <2>1
  <2>4. CASE IsOpen(s)
    <3>1. handle_close(s, Tail(commands))
        BY ZenonT(30), <1>6, <2>2, <2>4 DEF RunForceClose
    <3> QED BY ZenonT(30), <1>1, <2>3, <2>4, <3>1, Closing
  <2>5. CASE ~IsOpen(s)
    <3>1. commands' = Tail(commands) \o <<>> /\ UNCHANGED <<sockets, connector, building, published, destroyed>>
        BY ZenonT(30), <1>6, <2>2, <2>5 DEF RunForceClose, Done, stateVars
    <3>2. Destroys(commands', Closed(sockets))
        BY ZenonT(30), <2>3, <3>1, AddNone
    <3> QED BY ZenonT(30), <1>1, <3>1, <3>2 DEF ClientInv
  <2> QED BY ZenonT(30), <2>4, <2>5
<1>7. CASE RunDestroy
  <2>1. Takes("destroy") /\ commands' = Tail(commands) \o <<>> /\ UNCHANGED <<connector, building, published, destroyed>>
      BY ZenonT(30), <1>7 DEF RunDestroy, Done, stateVars
  <2>2. PICK s \in Sockets : s = Head(commands).s
      BY ZenonT(30), <1>2, <1>3, <2>1
  <2>3. sockets[s] = "disconnected"
    <3>1. 1 \in 1..Len(commands) /\ Head(commands) = commands[1]
        BY <1>1, <2>1, CommandFacts DEF Takes
    <3>2. commands[1].what = "destroy"
        BY ZenonT(30), <2>1, <3>1 DEF Takes
    <3>3. s \in Closed(sockets)
        BY ZenonT(30), <1>1, <2>2, <3>1, <3>2 DEF Destroys
    <3> QED BY ZenonT(30), <3>3 DEF Closed
  <2>4. s # NoSocket /\ sockets' = [sockets EXCEPT ![s] = "free"]
      BY ZenonT(30), <1>7, <2>2, ClientAssumption DEF RunDestroy, CloseSocket
  <2>5. /\ sockets' \in [Sockets -> SocketStates] /\ sockets'[s] = "free"
        /\ \A r \in Sockets : r # s => sockets'[r] = sockets[r]
      BY ZenonT(30), <1>1, <2>4 DEF SocketStates
  <2>6. Holds(sockets', connector, building, published, destroyed)
      BY ZenonT(30), <1>1, <2>3, <2>5, SameRaw
  <2>7. Closed(sockets') = Closed(sockets) \ {s}
      BY ZenonT(30), <2>5 DEF Closed
  <2>8. Destroys(Tail(commands), Closed(sockets) \ {s})
      BY ZenonT(30), <1>2, <1>3, <2>1, <2>2
  <2>9. Destroys(commands', Closed(sockets'))
      BY ZenonT(30), <2>1, <2>7, <2>8, AddNone
  <2> QED BY ZenonT(30), <2>1, <2>6, <2>9 DEF ClientInv
<1>8. ASSUME NEW s \in Sockets, PeerLeaves(s) PROVE ClientInv'
    BY ZenonT(30), <1>1, <1>8, Closing DEF PeerLeaves
<1> QED BY ZenonT(30), <1>4, <1>5, <1>6, <1>7, <1>8

(* Every step of the client keeps its invariant. *)
LEMMA ClientStepInv == ClientInv /\ [ClientNext]_clientVars => ClientInv'
<1> SUFFICES ASSUME ClientInv, [ClientNext]_clientVars PROVE ClientInv'
    BY ZenonT(30)
<1>1. CASE UNCHANGED clientVars
    BY ZenonT(30), <1>1 DEF clientVars, stateVars, ClientInv
<1>2. CASE ClientNext
    BY ZenonT(30), <1>2, InterfaceSteps, ConnectorFunctors, Attempts, ConnectionFunctors DEF ClientNext, LoopFunctors
<1> QED BY ZenonT(30), <1>1, <1>2

(* A client nobody has called yet has no sockets and no commands. *)
LEMMA ClientInitInv == ClientInit => ClientInv
<1> SUFFICES ASSUME ClientInit PROVE ClientInv
    BY ZenonT(30)
<1>1. connector \in Connectors /\ connector.channel = NoSocket /\ connector.state # "connecting"
    BY ZenonT(30), ClientAssumption DEF ClientInit, Connectors
<1>2. sockets \in [Sockets -> SocketStates] /\ \A s \in Sockets : sockets[s] = "free"
    BY ZenonT(30) DEF ClientInit, SocketStates
<1>3. Holds(sockets, connector, NoSocket, NoSocket, FALSE)
    BY ZenonT(30), <1>1, <1>2 DEF Holds
<1>4. Closed(sockets) = {} /\ commands = <<>>
    BY ZenonT(30), <1>2 DEF Closed, ClientInit
<1>5. Destroys(<<>>, {})
    BY DEF Destroys
<1>6. building = NoSocket /\ published = NoSocket /\ destroyed = FALSE
    BY ZenonT(30) DEF ClientInit
<1> QED BY ZenonT(30), <1>3, <1>4, <1>5, <1>6 DEF ClientInv

(* What is proved about the client's sockets is SocketsOwned and more. *)
LEMMA SocketsFollow == ClientInv => SocketsOwned
<1> SUFFICES ASSUME ClientInv PROVE SocketsOwned
    BY ZenonT(30)
<1>1. Holds(sockets, connector, building, published, destroyed) /\ Destroys(commands, Closed(sockets))
    BY ZenonT(30) DEF ClientInv
<1>2. ASSUME NEW s \in Sockets
      PROVE  /\ sockets[s] = "raw" => s \in {connector.channel, building}
             /\ IsOpen(s) => s = published \/ destroyed
    BY ZenonT(30), <1>1 DEF Holds, IsOpen
<1>3. ASSUME NEW s \in Sockets, sockets[s] = "disconnected"
      PROVE  \E i \in 1..Len(commands) : commands[i] = Cmd("destroy", s)
  <2>1. s \in Closed(sockets)
      BY ZenonT(30), <1>3 DEF Closed
  <2> QED BY ZenonT(30), <1>1, <2>1 DEF Destroys
<1>4. /\ connector.channel # NoSocket => sockets[connector.channel] = "raw"
      /\ destroyed => published = NoSocket
    BY ZenonT(30), <1>1 DEF Holds
<1> QED BY ZenonT(30), <1>2, <1>3, <1>4 DEF SocketsOwned

-----------------------------------------------------------------------------
(* The command server *)

Closes == {"erase", "mark", "remove"}

Labels ==
    {"idle", "accept", "admit", "register", "prompt", "recv", "process", "listener", "sweep", "closed"}
        \cup Closes

CliTypeOK ==
    /\ at \in [CliThreads -> Labels] /\ on \in [CliThreads -> Fds \cup {NoFd}]
    /\ aio \in [Fds -> {"none", "armed", "removing", "gone"}] /\ backlog \subseteq Fds
    /\ sessions \subseteq Fds \cup {NoFd}

(* A connection nobody has accepted is not in use. *)
Unaccepted ==
    \A c \in backlog : /\ c \notin sessions /\ aio[c] \in {"none", "gone"}
                       /\ \A t \in CliThreads : on[t] # c

(* A session about to be registered is in the table, or the closer has it  *)
(* and has not marked it, or it is marked.                                 *)
Registering ==
    at["loop"] = "register" =>
        \/ on["loop"] \in sessions \/ on["loop"] \in closing
        \/ on["closer"] = on["loop"] /\ at["closer"] \in {"erase", "mark"}

(* Whoever marked a session that has an AIO entry is about to remove it.   *)
Marked ==
    \A c \in Fds : aio[c] = "armed" =>
        /\ c \in handles
        /\ engine_phase = "RUNNING" /\ c \in closing => \E t \in CliThreads : on[t] = c /\ at[t] = "remove"

(* The first and the second part of NoLeakedSession; the closer says that  *)
(* it closes before it sweeps.                                             *)
Covered ==
    engine_phase = "RUNNING" =>
        \A c \in Fds : aio[c] = "armed" /\ c \notin sessions =>
            \E t \in CliThreads : on[t] = c /\ at[t] \in Closes

Swept ==
    /\ at["closer"] # "idle" => server_closing
    /\ at["closer"] = "closed" => sessions = {}

Table == IsFiniteSet(sessions) /\ Cardinality(sessions) <= max_clients

(* The inductive invariant of the command server. *)
Kept == CliTypeOK /\ Unaccepted /\ Registering /\ Marked /\ Covered /\ Swept

CliInv == Kept /\ Table

Moved(t, where, c) ==
    /\ at'[t] = where /\ on'[t] = c
    /\ \A u \in CliThreads : u # t => at'[u] = at[u] /\ on'[u] = on[u]

(* A thread that moves leaves the other where it is. *)
LEMMA Moving ==
    ASSUME CliTypeOK, NEW t \in CliThreads, NEW where \in Labels, NEW c \in Fds \cup {NoFd},
           Moves(t, where, c)
    PROVE  /\ at' \in [CliThreads -> Labels] /\ on' \in [CliThreads -> Fds \cup {NoFd}]
           /\ Moved(t, where, c)
    BY ZenonT(30) DEF CliTypeOK, Moves, Moved

(* A step on the way to or from close_session(), with the tables left      *)
(* alone: the thread was not closing a session, and does not go past the   *)
(* first step of that.                                                     *)
LEMMA Walks ==
    ASSUME Kept, NEW t \in CliThreads, NEW where \in Labels \ {"register", "mark", "remove"},
           NEW c \in Fds \cup {NoFd}, Moves(t, where, c), at[t] \notin Closes, c \notin backlog,
           UNCHANGED <<engine_phase, tableVars, aio, backlog>>,
           t = "closer" => where # "idle" /\ at[t] # "idle" /\ (where = "closed" => sessions = {})
    PROVE  Kept'
<1>1. /\ at' \in [CliThreads -> Labels] /\ on' \in [CliThreads -> Fds \cup {NoFd}]
      /\ Moved(t, where, c)
    BY ZenonT(30), Moving DEF Kept
<1>2. CliTypeOK'
    BY ZenonT(30), <1>1 DEF Kept, CliTypeOK, tableVars
<1>3. Unaccepted'
    BY <1>1 DEF Kept, Unaccepted, Moved, tableVars
<1>4. Registering'
    BY ZenonT(30), <1>1 DEF Kept, Registering, Moved, tableVars, CliThreads, Closes
<1>5. Marked'
    BY <1>1 DEF Kept, Marked, Moved, tableVars, Closes
<1>6. Covered'
    BY <1>1 DEF Kept, Covered, Moved, tableVars
<1>7. Swept'
    BY ZenonT(30), <1>1 DEF Kept, Swept, Moved, tableVars, CliThreads
<1> QED BY ZenonT(30), <1>2, <1>3, <1>4, <1>5, <1>6, <1>7 DEF Kept

(* The steps of the loop that read, answer and come to an end. *)
LEMMA LoopWalks ==
    ASSUME Kept, \/ ListenerReady \/ AcceptEnds \/ Prompt \/ Recv \/ process_input
                 \/ \E c \in Fds : ClientReady(c)
    PROVE  Kept'
<1>1. "loop" \in CliThreads /\ "loop" # "closer"
    BY ZenonT(30) DEF CliThreads
<1>2. NoFd \notin backlog /\ on["loop"] \notin backlog /\ on["loop"] \in Fds \cup {NoFd}
    BY ZenonT(30), <1>1, CliAssumption DEF Kept, CliTypeOK, Unaccepted
<1> DEFINE Still == UNCHANGED <<engine_phase, tableVars, aio, backlog>>
<1>3. ASSUME NEW where \in Labels \ {"register", "mark", "remove"}, NEW c \in Fds \cup {NoFd},
             Moves("loop", where, c), at["loop"] \notin Closes, c \notin backlog, Still
      PROVE  Kept'
    BY ZenonT(30), <1>1, <1>3, Walks
<1>4. /\ {"idle", "accept", "recv", "process", "erase"} \subseteq Labels \ {"register", "mark", "remove"}
      /\ {"idle", "accept", "prompt", "recv", "process"} \cap Closes = {}
    BY ZenonT(30) DEF Labels, Closes
<1> HIDE DEF Still
<1>5. CASE ListenerReady \/ AcceptEnds
    BY ZenonT(30), <1>2, <1>3, <1>4, <1>5 DEF ListenerReady, AcceptEnds, Still
<1>6. CASE Prompt
    BY ZenonT(30), <1>2, <1>3, <1>4, <1>6 DEF Prompt, Sends, Still
<1>7. CASE Recv
    BY ZenonT(30), <1>2, <1>3, <1>4, <1>7 DEF Recv, Still
<1>8. CASE process_input
    BY ZenonT(30), <1>2, <1>3, <1>4, <1>8 DEF process_input, Sends, Still
<1>9. ASSUME NEW c \in Fds, ClientReady(c) PROVE Kept'
  <2>1. c \notin backlog
      BY ZenonT(30), <1>9 DEF ClientReady, Kept, Unaccepted
  <2>2. Still /\ at["loop"] = "idle"
      BY ZenonT(30), <1>9 DEF ClientReady, Still
  <2>3. CASE ~accepts_cli_work
      BY ZenonT(30), <1>3, <1>4, <1>9, <2>1, <2>2, <2>3 DEF ClientReady
  <2>4. CASE accepts_cli_work /\ c \in closing
    <3>1. UNCHANGED <<at, on>>
        BY ZenonT(30), <1>9, <2>4 DEF ClientReady
    <3> QED BY <2>2, <3>1 DEF Still, Kept, CliTypeOK, Unaccepted, Registering, Marked, Covered, Swept, tableVars
  <2>5. CASE accepts_cli_work /\ c \notin closing
      BY ZenonT(30), <1>3, <1>4, <1>9, <2>1, <2>2, <2>5 DEF ClientReady
  <2> QED BY ZenonT(30), <2>3, <2>4, <2>5
<1> QED BY ZenonT(30), <1>5, <1>6, <1>7, <1>8, <1>9

(* The engine and the clients: an entry is never armed by them, and they   *)
(* only offer descriptors that are not in use.                             *)
LEMMA EngineSteps ==
    ASSUME Kept, EngineStops \/ NextRound \/ EngineStopped \/ start \/ \E c \in Fds : Connect(c)
    PROVE  Kept'
<1>1. UNCHANGED <<tableVars, at, on>>
    BY ZenonT(30) DEF EngineStops, NextRound, EngineStopped, start, Connect
<1>2. /\ aio' \in [Fds -> {"none", "armed", "removing", "gone"}]
      /\ \A c \in Fds : aio'[c] = "armed" => aio[c] = "armed"
      /\ \A c \in Fds : aio[c] \in {"none", "gone"} => aio'[c] = aio[c]
      /\ engine_phase' = "RUNNING" => engine_phase = "RUNNING"
  <2>1. CASE NextRound
      BY ZenonT(30), <2>1 DEF NextRound, Retired, Kept, CliTypeOK
  <2>2. CASE EngineStopped
      BY ZenonT(30), <2>2 DEF EngineStopped, Kept, CliTypeOK
  <2>3. CASE EngineStops \/ start \/ \E c \in Fds : Connect(c)
      BY ZenonT(30), <2>3 DEF EngineStops, start, Connect, Kept, CliTypeOK
  <2> QED BY ZenonT(30), <2>1, <2>2, <2>3
<1>3. \A c \in backlog' : c \in Fds /\ (c \in backlog \/ ~Open(c))
    BY ZenonT(30) DEF EngineStops, NextRound, EngineStopped, start, Connect, Kept, CliTypeOK
<1>4. CliTypeOK'
    BY ZenonT(30), <1>1, <1>2, <1>3 DEF Kept, CliTypeOK, tableVars
<1>5. Unaccepted'
    BY ZenonT(30), <1>1, <1>2, <1>3 DEF Kept, CliTypeOK, Unaccepted, Open, tableVars
<1>6. Registering' /\ Swept'
    BY ZenonT(30), <1>1 DEF Kept, Registering, Swept, tableVars
<1>7. Marked' /\ Covered'
    BY <1>1, <1>2 DEF Kept, Marked, Covered, tableVars
<1> QED BY ZenonT(30), <1>4, <1>5, <1>6, <1>7 DEF Kept

(* close(): say so, remove the listener, and take the sessions out of the  *)
(* table one by one.                                                       *)
LEMMA CloserSteps ==
    ASSUME Kept, close \/ RemoveListener \/ Sweep
    PROVE  Kept'
<1>1. "closer" \in CliThreads /\ "loop" \in CliThreads /\ "loop" # "closer"
    BY ZenonT(30) DEF CliThreads
<1>2. /\ NoFd \notin backlog /\ {"listener", "sweep", "closed", "erase"} \subseteq Labels
      /\ {"listener", "sweep", "closed", "idle"} \cap Closes = {} /\ "erase" \in Closes
    BY ZenonT(30), CliAssumption DEF Kept, CliTypeOK, Labels, Closes
<1>3. CASE close
  <2>1. /\ at["closer"] = "idle" /\ server_closing' = TRUE /\ Moves("closer", "listener", NoFd)
        /\ UNCHANGED <<engine_phase, sessions, closing, handles, aio, backlog>>
      BY ZenonT(30), <1>3 DEF close
  <2>2. /\ at' \in [CliThreads -> Labels] /\ on' \in [CliThreads -> Fds \cup {NoFd}]
        /\ Moved("closer", "listener", NoFd)
      BY ZenonT(30), <1>1, <1>2, <2>1, Moving DEF Kept
  <2>3. CliTypeOK' /\ Unaccepted'
      BY <1>2, <2>1, <2>2 DEF Kept, CliTypeOK, Unaccepted, Moved
  <2>4. Registering' /\ Swept'
      BY ZenonT(30), <1>1, <2>1, <2>2 DEF Kept, Registering, Swept, Moved
  <2>5. Marked' /\ Covered'
      BY <1>1, <1>2, <2>1, <2>2 DEF Kept, Marked, Covered, Moved
  <2> QED BY ZenonT(30), <2>3, <2>4, <2>5 DEF Kept
<1>4. CASE RemoveListener
  <2>1. Moves("closer", "sweep", NoFd) /\ at["closer"] = "listener" /\ UNCHANGED <<engine_phase, tableVars, aio, backlog>>
      BY ZenonT(30), <1>4 DEF RemoveListener
  <2>2. "sweep" \in Labels \ {"register", "mark", "remove"} /\ at["closer"] \notin Closes
      BY ZenonT(30), <1>2, <2>1
  <2> QED BY ZenonT(30), <1>1, <1>2, <2>1, <2>2, Walks
<1>5. CASE Sweep /\ Moves("closer", "closed", NoFd)
  <2>1. at["closer"] = "sweep" /\ sessions = {} /\ UNCHANGED <<engine_phase, tableVars, aio, backlog>>
    <3>1. at["closer"] \in Labels /\ at'["closer"] = "closed" /\ "closed" # "erase"
        BY ZenonT(30), <1>1, <1>5 DEF Kept, CliTypeOK, Moves
    <3>2. \A c \in sessions : ~Moves("closer", "erase", c)
        BY ZenonT(30), <1>1, <3>1 DEF Kept, CliTypeOK, Moves
    <3> QED BY ZenonT(30), <1>5, <3>2 DEF Sweep, tableVars
  <2>2. "closed" \in Labels \ {"register", "mark", "remove"} /\ at["closer"] \notin Closes
      BY ZenonT(30), <1>2, <2>1
  <2> QED BY ZenonT(30), <1>1, <1>2, <1>5, <2>1, <2>2, Walks
<1>6. ASSUME NEW c \in sessions, Sweep, sessions' = sessions \ {c}, Moves("closer", "erase", c)
      PROVE  Kept'
  <2>1. /\ at["closer"] = "sweep"
        /\ UNCHANGED <<engine_phase, server_closing, closing, handles, aio, backlog>>
      BY ZenonT(30), <1>6 DEF Sweep
  <2>2. /\ at' \in [CliThreads -> Labels] /\ on' \in [CliThreads -> Fds \cup {NoFd}]
        /\ Moved("closer", "erase", c)
      BY ZenonT(30), <1>1, <1>2, <1>6, Moving DEF Kept, CliTypeOK
  <2>3. CliTypeOK' /\ Unaccepted'
      BY <1>6, <2>1, <2>2 DEF Kept, CliTypeOK, Unaccepted, Moved
  <2>4. Registering' /\ Swept'
      BY ZenonT(30), <1>1, <1>6, <2>1, <2>2 DEF Kept, Registering, Swept, Moved
  <2>5. Marked' /\ Covered'
      BY <1>1, <1>2, <1>6, <2>1, <2>2 DEF Kept, Marked, Covered, Moved, Closes
  <2> QED BY ZenonT(30), <2>3, <2>4, <2>5 DEF Kept
<1> QED BY ZenonT(30), <1>3, <1>4, <1>5, <1>6 DEF Sweep

(* close_session(): leaving the table, and marking a session once. Who     *)
(* finds it marked already leaves it to the one who marked it.             *)
LEMMA CloseSessionSteps ==
    ASSUME Kept, NEW t \in CliThreads, Erase(t) \/ Mark(t) \/ Remove(t)
    PROVE  Kept'
<1>1. /\ "closer" \in CliThreads /\ "loop" \in CliThreads /\ "loop" # "closer"
      /\ CliThreads = {"loop", "closer"}
    BY ZenonT(30) DEF CliThreads
<1>2. /\ NoFd \notin backlog /\ on[t] \notin backlog /\ on[t] \in Fds \cup {NoFd}
      /\ Closes = {"erase", "mark", "remove"} /\ Closes \subseteq Labels
    BY ZenonT(30), CliAssumption DEF Kept, CliTypeOK, Unaccepted, Labels, Closes
<1>3. /\ After(t) \in Labels /\ After(t) \notin Closes /\ After(t) # "register"
      /\ t = "closer" => After(t) = "sweep"
    BY ZenonT(30), <1>1 DEF After, Labels, Closes
<1>4. PICK c \in Fds \cup {NoFd} : c = on[t]
    BY ZenonT(30), <1>2
<1>5. CASE Erase(t)
  <2>1. /\ at[t] = "erase" /\ sessions' = sessions \ {c} /\ Moves(t, "mark", c)
        /\ UNCHANGED <<engine_phase, server_closing, closing, handles, aio, backlog>>
      BY ZenonT(30), <1>4, <1>5 DEF Erase
  <2>2. /\ at' \in [CliThreads -> Labels] /\ on' \in [CliThreads -> Fds \cup {NoFd}]
        /\ Moved(t, "mark", c)
      BY ZenonT(30), <1>2, <2>1, Moving DEF Kept
  <2>3. CliTypeOK' /\ Unaccepted'
      BY <1>2, <1>4, <2>1, <2>2 DEF Kept, CliTypeOK, Unaccepted, Moved
  <2>4. Registering'
      BY ZenonT(30), <1>1, <1>4, <2>1, <2>2 DEF Kept, Registering, Moved
  <2>5. Swept'
      BY ZenonT(30), <1>1, <2>1, <2>2 DEF Kept, Swept, Moved
  <2>6. Marked' /\ Covered'
      BY <1>1, <1>2, <1>4, <2>1, <2>2 DEF Kept, Marked, Covered, Moved
  <2> QED BY ZenonT(30), <2>3, <2>4, <2>5, <2>6 DEF Kept
<1>6. CASE Mark(t) /\ c \notin closing
  <2>1. /\ at[t] = "mark" /\ closing' = closing \cup {c} /\ Moves(t, "remove", c)
        /\ UNCHANGED <<engine_phase, server_closing, sessions, handles, aio, backlog>>
      BY ZenonT(30), <1>4, <1>6 DEF Mark
  <2>2. /\ at' \in [CliThreads -> Labels] /\ on' \in [CliThreads -> Fds \cup {NoFd}]
        /\ Moved(t, "remove", c)
      BY ZenonT(30), <1>2, <2>1, Moving DEF Kept
  <2>3. CliTypeOK' /\ Unaccepted'
      BY <1>2, <1>4, <2>1, <2>2 DEF Kept, CliTypeOK, Unaccepted, Moved
  <2>4. Registering'
      BY ZenonT(30), <1>1, <1>4, <2>1, <2>2 DEF Kept, Registering, Moved
  <2>5. Swept'
      BY ZenonT(30), <1>1, <2>1, <2>2 DEF Kept, Swept, Moved
  <2>6. Marked' /\ Covered'
      BY <1>1, <1>2, <1>4, <2>1, <2>2 DEF Kept, Marked, Covered, Moved
  <2> QED BY ZenonT(30), <2>3, <2>4, <2>5, <2>6 DEF Kept
<1>7. CASE Mark(t) /\ c \in closing
  <2>1. /\ at[t] = "mark" /\ closing' = closing /\ Moves(t, After(t), NoFd)
        /\ UNCHANGED <<engine_phase, server_closing, sessions, handles, aio, backlog>>
      BY ZenonT(30), <1>4, <1>7 DEF Mark
  <2>2. /\ at' \in [CliThreads -> Labels] /\ on' \in [CliThreads -> Fds \cup {NoFd}]
        /\ Moved(t, After(t), NoFd)
      BY ZenonT(30), <1>3, <2>1, Moving DEF Kept
  <2>3. CliTypeOK' /\ Unaccepted'
      BY <1>2, <1>4, <2>1, <2>2 DEF Kept, CliTypeOK, Unaccepted, Moved
  <2>4. Registering'
      BY ZenonT(30), <1>1, <1>3, <1>4, <1>7, <2>1, <2>2 DEF Kept, Registering, Moved
  <2>5. Swept'
      BY ZenonT(30), <1>1, <1>3, <2>1, <2>2 DEF Kept, Swept, Moved
  <2>6. Marked'
      BY <1>1, <1>2, <1>4, <2>1, <2>2 DEF Kept, Marked, Moved
  <2>7. Covered'
      BY <1>1, <1>2, <1>4, <1>7, <2>1, <2>2 DEF Kept, Marked, Covered, Moved
  <2> QED BY ZenonT(30), <2>3, <2>4, <2>5, <2>6, <2>7 DEF Kept
<1>8. CASE Remove(t)
  <2>1. /\ at[t] = "remove" /\ Moves(t, After(t), NoFd)
        /\ UNCHANGED <<engine_phase, server_closing, sessions, closing, handles, backlog>>
      BY ZenonT(30), <1>8 DEF Remove, tableVars
  <2>2. /\ at' \in [CliThreads -> Labels] /\ on' \in [CliThreads -> Fds \cup {NoFd}]
        /\ Moved(t, After(t), NoFd)
      BY ZenonT(30), <1>3, <2>1, Moving DEF Kept
  <2>3. /\ aio' \in [Fds -> {"none", "armed", "removing", "gone"}]
        /\ \A d \in Fds : d # c => aio'[d] = aio[d]
        /\ c \in Fds /\ engine_phase = "RUNNING" /\ c \in handles => aio'[c] # "armed"
        /\ c \in Fds => aio'[c] = aio[c] \/ (aio[c] = "armed" /\ aio'[c] = "removing")
      BY ZenonT(30), <1>4, <1>8 DEF Remove, Removed, Kept, CliTypeOK
  <2>4. CliTypeOK' /\ Unaccepted'
      BY <1>2, <1>4, <2>1, <2>2, <2>3 DEF Kept, CliTypeOK, Unaccepted, Moved
  <2>5. Registering'
      BY ZenonT(30), <1>1, <1>3, <1>4, <2>1, <2>2 DEF Kept, Registering, Moved
  <2>6. Swept'
      BY ZenonT(30), <1>1, <1>3, <2>1, <2>2 DEF Kept, Swept, Moved
  <2>7. Marked' /\ Covered'
      BY <1>1, <1>2, <1>4, <2>1, <2>2, <2>3 DEF Kept, Marked, Covered, Moved
  <2> QED BY ZenonT(30), <2>4, <2>5, <2>6, <2>7 DEF Kept
<1> QED BY ZenonT(30), <1>5, <1>6, <1>7, <1>8

(* A connection that is accepted has been nobody's, *)
LEMMA AcceptSteps ==
    ASSUME Kept, NEW c \in Fds, Accept(c)
    PROVE  Kept'
<1>1. /\ "closer" \in CliThreads /\ "loop" \in CliThreads /\ "loop" # "closer"
      /\ CliThreads = {"loop", "closer"} /\ "admit" \in Labels
    BY ZenonT(30) DEF CliThreads, Labels
<1>2. /\ at["loop"] = "accept" /\ c \in backlog /\ backlog' = backlog \ {c}
      /\ UNCHANGED <<engine_phase, server_closing, sessions>>
    BY ZenonT(30) DEF Accept
<1>3. CASE accepts_cli_work
  <2>1. /\ closing' = closing \ {c} /\ handles' = handles \ {c}
        /\ aio' = [aio EXCEPT ![c] = "none"] /\ Moves("loop", "admit", c)
      BY ZenonT(30), <1>3 DEF Accept
  <2>2. /\ at' \in [CliThreads -> Labels] /\ on' \in [CliThreads -> Fds \cup {NoFd}]
        /\ Moved("loop", "admit", c)
      BY ZenonT(30), <1>1, <2>1, Moving DEF Kept
  <2>3. /\ aio' \in [Fds -> {"none", "armed", "removing", "gone"}] /\ aio'[c] = "none"
        /\ \A d \in Fds : d # c => aio'[d] = aio[d]
      BY ZenonT(30), <2>1 DEF Kept, CliTypeOK
  <2>4. CliTypeOK' /\ Unaccepted'
      BY <1>2, <2>2, <2>3 DEF Kept, CliTypeOK, Unaccepted, Moved
  <2>5. Registering' /\ Swept'
      BY ZenonT(30), <1>1, <1>2, <2>2 DEF Kept, Registering, Swept, Moved
  <2>6. Marked'
      BY <1>2, <2>1, <2>2, <2>3 DEF Kept, Marked, Moved
  <2>7. Covered'
      BY <1>2, <2>2, <2>3 DEF Kept, Covered, Moved, Closes
  <2> QED BY ZenonT(30), <2>4, <2>5, <2>6, <2>7 DEF Kept
<1>4. CASE ~accepts_cli_work
  <2>1. UNCHANGED <<closing, handles, aio, at, on>>
      BY ZenonT(30), <1>4 DEF Accept
  <2> QED BY <1>2, <2>1 DEF Kept, CliTypeOK, Unaccepted, Registering, Marked, Covered, Swept
<1> QED BY ZenonT(30), <1>3, <1>4

(* is admitted only while the server is not closing, *)
LEMMA AdmitSteps ==
    ASSUME Kept, AdmitSession
    PROVE  Kept'
<1>1. /\ "closer" \in CliThreads /\ "loop" \in CliThreads /\ "loop" # "closer"
      /\ CliThreads = {"loop", "closer"} /\ {"register", "accept", "idle"} \subseteq Labels
      /\ {"accept", "idle", "admit"} \cap Closes = {}
    BY ZenonT(30) DEF CliThreads, Labels, Closes
<1>2. at["loop"] = "admit" /\ UNCHANGED <<engine_phase, server_closing, closing, handles, aio, backlog>>
    BY ZenonT(30) DEF AdmitSession
<1>3. on["loop"] \in Fds \cup {NoFd} /\ on["loop"] \notin backlog /\ NoFd \notin backlog
    BY ZenonT(30), <1>1, CliAssumption DEF Kept, CliTypeOK, Unaccepted
<1>4. CASE ~server_closing /\ sessions' = sessions \cup {on["loop"]} /\ Moves("loop", "register", on["loop"])
  <2>1. PICK c \in Fds \cup {NoFd} : c = on["loop"]
      BY ZenonT(30), <1>3
  <2>2. /\ at' \in [CliThreads -> Labels] /\ on' \in [CliThreads -> Fds \cup {NoFd}]
        /\ Moved("loop", "register", c)
      BY ZenonT(30), <1>1, <1>4, <2>1, Moving DEF Kept
  <2>3. CliTypeOK' /\ Unaccepted'
      BY <1>2, <1>3, <1>4, <2>1, <2>2 DEF Kept, CliTypeOK, Unaccepted, Moved
  <2>4. Registering' /\ Swept'
      BY ZenonT(30), <1>1, <1>2, <1>4, <2>1, <2>2 DEF Kept, Registering, Swept, Moved
  <2>5. Marked' /\ Covered'
      BY <1>1, <1>2, <1>4, <2>1, <2>2 DEF Kept, Marked, Covered, Moved
  <2> QED BY ZenonT(30), <2>3, <2>4, <2>5 DEF Kept
<1>5. ASSUME NEW where \in {"accept", "idle"}, Moves("loop", where, NoFd), UNCHANGED sessions PROVE Kept'
  <2>1. where \in Labels \ {"register", "mark", "remove"} /\ at["loop"] \notin Closes
      BY <1>1, <1>2, <1>5
  <2>2. UNCHANGED <<engine_phase, tableVars, aio, backlog>>
      BY ZenonT(30), <1>2, <1>5 DEF tableVars
  <2> QED BY ZenonT(30), <1>1, <1>3, <1>5, <2>1, <2>2, Walks
<1> QED BY ZenonT(30), <1>4, <1>5 DEF AdmitSession

(* and gets an AIO entry only if nobody has marked it. *)
LEMMA RegisterSteps ==
    ASSUME Kept, Register
    PROVE  Kept'
<1>1. /\ "closer" \in CliThreads /\ "loop" \in CliThreads /\ "loop" # "closer"
      /\ CliThreads = {"loop", "closer"} /\ {"prompt", "erase"} \subseteq Labels
      /\ "register" \notin Closes /\ Closes = {"erase", "mark", "remove"}
    BY ZenonT(30) DEF CliThreads, Labels, Closes
<1>2. at["loop"] = "register" /\ UNCHANGED <<engine_phase, server_closing, sessions, closing, backlog>>
    BY ZenonT(30) DEF Register
<1>3. PICK c \in Fds \cup {NoFd} : c = on["loop"] /\ c \notin backlog
    BY ZenonT(30), <1>1 DEF Kept, CliTypeOK, Unaccepted
<1>4. CASE /\ c \notin closing /\ engine_phase = "RUNNING" /\ aio' = [aio EXCEPT ![c] = "armed"]
           /\ handles' = handles \cup {c} /\ Moves("loop", "prompt", c)
  <2>1. /\ at' \in [CliThreads -> Labels] /\ on' \in [CliThreads -> Fds \cup {NoFd}]
        /\ Moved("loop", "prompt", c)
      BY ZenonT(30), <1>1, <1>4, Moving DEF Kept
  <2>2. /\ aio' \in [Fds -> {"none", "armed", "removing", "gone"}]
        /\ \A d \in Fds : d # c => aio'[d] = aio[d]
      BY ZenonT(30), <1>4 DEF Kept, CliTypeOK
  <2>3. CliTypeOK' /\ Unaccepted'
      BY <1>2, <1>3, <2>1, <2>2 DEF Kept, CliTypeOK, Unaccepted, Moved
  <2>4. Registering' /\ Swept'
      BY ZenonT(30), <1>1, <1>2, <2>1 DEF Kept, Registering, Swept, Moved
  <2>5. Marked'
      BY <1>1, <1>2, <1>3, <1>4, <2>1, <2>2 DEF Kept, Marked, Moved
  <2>6. c \in sessions \/ (on["closer"] = c /\ at["closer"] \in Closes)
      BY ZenonT(30), <1>1, <1>2, <1>3, <1>4 DEF Kept, Registering
  <2>7. Covered'
      BY <1>1, <1>2, <1>3, <2>1, <2>2, <2>6 DEF Kept, Covered, Moved
  <2> QED BY ZenonT(30), <2>3, <2>4, <2>5, <2>7 DEF Kept
<1>5. CASE Moves("loop", "erase", c) /\ UNCHANGED <<aio, handles>>
  <2>1. "erase" \in Labels \ {"register", "mark", "remove"} /\ at["loop"] \notin Closes
      BY ZenonT(30), <1>1, <1>2
  <2>2. UNCHANGED <<engine_phase, tableVars, aio, backlog>>
      BY ZenonT(30), <1>2, <1>5 DEF tableVars
  <2> QED BY ZenonT(30), <1>1, <1>3, <1>5, <2>1, <2>2, Walks
<1> QED BY ZenonT(30), <1>3, <1>4, <1>5 DEF Register

(* The table of sessions grows by one, and only below its limit. *)
LEMMA TableStep ==
    ASSUME Table, CliNext
    PROVE  Table'
<1>1. max_clients \in Nat /\ IsFiniteSet(sessions) /\ Cardinality(sessions) \in Nat
    BY ZenonT(30), CliAssumption, FS_CardinalityType DEF Table
<1>2. \/ sessions' \subseteq sessions
      \/ sessions' = sessions \cup {on["loop"]} /\ Cardinality(sessions) < max_clients
  <2>1. CASE AdmitSession
      BY ZenonT(30), <2>1 DEF AdmitSession
  <2>2. CASE Sweep \/ \E t \in CliThreads : Erase(t)
      BY ZenonT(30), <2>2 DEF Sweep, Erase
  <2>3. ASSUME NEW t \in CliThreads, Mark(t) \/ Remove(t) PROVE UNCHANGED sessions
      BY ZenonT(30), <2>3 DEF Mark, Remove, tableVars
  <2>4. ASSUME NEW c \in Fds, Connect(c) \/ Accept(c) \/ ClientReady(c) PROVE UNCHANGED sessions
      BY ZenonT(30), <2>4 DEF Connect, Accept, ClientReady, tableVars
  <2>5. CASE EngineStops \/ NextRound \/ EngineStopped \/ start \/ close \/ RemoveListener
      BY ZenonT(30), <2>5 DEF EngineStops, NextRound, EngineStopped, start, close, RemoveListener, tableVars
  <2>6. CASE ListenerReady \/ AcceptEnds \/ Register \/ Prompt \/ Recv \/ process_input
      BY ZenonT(30), <2>6 DEF ListenerReady, AcceptEnds, Register, Prompt, Recv, process_input, tableVars
  <2> QED BY ZenonT(30), <2>1, <2>2, <2>3, <2>4, <2>5, <2>6 DEF CliNext
<1>3. CASE sessions' \subseteq sessions
  <2>1. IsFiniteSet(sessions') /\ Cardinality(sessions') <= Cardinality(sessions) /\ Cardinality(sessions') \in Nat
      BY ZenonT(30), <1>1, <1>3, FS_Subset, FS_CardinalityType
  <2> QED BY <1>1, <2>1 DEF Table
<1>4. CASE sessions' = sessions \cup {on["loop"]} /\ Cardinality(sessions) < max_clients
  <2>1. /\ IsFiniteSet(sessions')
        /\ Cardinality(sessions') = Cardinality(sessions) \/ Cardinality(sessions') = Cardinality(sessions) + 1
      BY ZenonT(30), <1>1, <1>4, FS_AddElement
  <2> QED BY <1>1, <1>4, <2>1 DEF Table
<1> QED BY ZenonT(30), <1>2, <1>3, <1>4

(* Every step of the command server keeps its invariant. *)
LEMMA CliStepInv == CliInv /\ [CliNext]_cliVars => CliInv'
<1> SUFFICES ASSUME CliInv, [CliNext]_cliVars PROVE CliInv'
    BY ZenonT(30)
<1>1. CASE UNCHANGED cliVars
  <2>1. Kept'
      BY <1>1 DEF cliVars, CliInv, Kept, CliTypeOK, Unaccepted, Registering, Marked, Covered, Swept
  <2>2. Table'
      BY ZenonT(30), <1>1 DEF cliVars, CliInv, Table
  <2> QED BY ZenonT(30), <2>1, <2>2 DEF CliInv
<1>2. CASE CliNext
  <2>1. Kept /\ Table
      BY ZenonT(30) DEF CliInv
  <2>2. Kept'
      BY ZenonT(30), <1>2, <2>1, LoopWalks, EngineSteps, CloserSteps, CloseSessionSteps, AcceptSteps, AdmitSteps, RegisterSteps
         DEF CliNext
  <2> QED BY ZenonT(30), <1>2, <2>1, <2>2, TableStep DEF CliInv
<1> QED BY ZenonT(30), <1>1, <1>2

(* The command server before start(). *)
LEMMA CliInitInv == CliInit => CliInv
<1> SUFFICES ASSUME CliInit PROVE CliInv
    BY ZenonT(30)
<1>1. CliTypeOK
    BY ZenonT(30) DEF CliInit, CliTypeOK, Labels
<1>2. Unaccepted /\ Registering /\ Marked /\ Covered /\ Swept
    BY ZenonT(30) DEF CliInit, Unaccepted, Registering, Marked, Covered, Swept, CliThreads
<1>3. Table
    BY CliAssumption, FS_EmptySet DEF CliInit, Table
<1> QED BY ZenonT(30), <1>1, <1>2, <1>3 DEF CliInv, Kept

(* The invariant of the command server contains NoLeakedSession. *)
LEMMA SessionsFollow == CliInv => NoLeakedSession
    BY ZenonT(30) DEF CliInv, Kept, Covered, Swept, Table, NoLeakedSession, Closes

-----------------------------------------------------------------------------
(* No socket of the client is lost, for any number of sockets and calls,   *)
(* whichever of connect(), stop(), disconnect(), the destructor, the retry *)
(* timer, a lost connection and a failing attempt come between; and none   *)
(* is closed under a later owner.                                          *)
THEOREM SocketsNotLost == ClientSpec => []SocketsOwned
<1> QED BY ClientInitInv, ClientStepInv, SocketsFollow, PTL DEF ClientSpec

(* No session of the command server is left behind, for any number of      *)
(* clients and any limit, and the limit holds.                             *)
THEOREM SessionsNotLeaked == CliSpec => []NoLeakedSession
<1> QED BY CliInitInv, CliStepInv, SessionsFollow, PTL DEF CliSpec

(* A process that runs both loses no descriptor. *)
THEOREM DescriptorsNotLost == ClientSpec /\ CliSpec => []DescriptorsOwned
<1>1. SocketsOwned /\ NoLeakedSession => DescriptorsOwned
    BY ZenonT(30) DEF DescriptorsOwned
<1> QED BY <1>1, SocketsNotLost, SessionsNotLeaked, PTL

-----------------------------------------------------------------------------
(* The object store: an upload writes, syncs, links and registers.         *)

Steps == {"prepare", "create", "append", "sync", "link", "unlink", "syncdir", "register", "stored",
          "failed", "over"}
Replies == {"none", "done", "failed", "lost"}

StoreTypeOK ==
    /\ step \in [Uploads -> Steps] /\ reply \in [Uploads -> Replies]
    /\ objects \in [Hashes -> Hashes \cup {Nothing, Damaged}]
    /\ rows \in [FileNames -> Hashes \cup {Nothing}]

(* An object has the content of its name, on the disk: link() comes after  *)
(* sync_file(). *)
ObjectsWhole == \A h \in Hashes : objects[h] # Nothing => objects[h] = h /\ h \in safe

(* What the steps of an upload rely on. *)
Backed(u) ==
    /\ step[u] = "link" => u \in synced
    /\ step[u] \in {"unlink", "syncdir", "register"} => objects[HashOf[u]] = HashOf[u]
    /\ step[u] = "register" => HashOf[u] \in entries
    /\ step[u] = "stored" => rows[NameOf[u]] = HashOf[u]

(* RegisteredIsDurable is not inductive: before a row is written its       *)
(* object must be linked, synchronised and entered, and that rests on the  *)
(* steps other uploads of the same content have taken. *)
StoreInv == StoreTypeOK /\ ObjectsWhole /\ (\A u \in Uploads : Backed(u)) /\ RegisteredIsDurable

(* The constants' sets hold what they are made of. *)
LEMMA Constants ==
    ASSUME NEW u \in Uploads
    PROVE  /\ HashOf[u] \in Hashes /\ NameOf[u] \in FileNames
           /\ HashOf[u] # Nothing /\ HashOf[u] # Damaged
    BY ZenonT(30), StoreAssumption DEF StoreAssumption, Hashes, FileNames

(* A step of one upload before its finalizer, or a failed one, touches     *)
(* neither objects nor rows. *)
LEMMA EarlyStep ==
    ASSUME StoreInv, NEW u \in Uploads, NEW to \in {"create", "append", "sync", "failed", "over"},
           step' \in {step, [step EXCEPT ![u] = to]}, reply' \in [Uploads -> Replies],
           \A v \in Uploads \ {u} : v \in synced => v \in synced',
           step'[u] = "link" => u \in synced',
           UNCHANGED <<objectDirVars, rows>>
    PROVE  StoreInv'
<1>1. StoreTypeOK'
    BY ZenonT(30) DEF StoreInv, StoreTypeOK, objectDirVars, Steps
<1>2. ObjectsWhole'
    BY ZenonT(30) DEF StoreInv, ObjectsWhole, objectDirVars
<1>3. ASSUME NEW v \in Uploads PROVE Backed(v)'
    BY ZenonT(30) DEF StoreInv, StoreTypeOK, Backed, objectDirVars
<1>4. RegisteredIsDurable'
    BY ZenonT(30) DEF StoreInv, RegisteredIsDurable, objectDirVars
<1> QED BY ZenonT(30), <1>1, <1>2, <1>3, <1>4 DEF StoreInv

(* Telling a client keeps the type of the replies. *)
LEMMA TellType ==
    ASSUME reply \in [Uploads -> Replies], NEW u \in Uploads, NEW what \in Replies, Tell(u, what)
    PROVE  reply' \in [Uploads -> Replies]
    BY ZenonT(30) DEF Tell

(* A task that fails keeps the invariant. *)
LEMMA FailStep ==
    ASSUME StoreInv, NEW u \in Uploads, Fail(u), UNCHANGED <<objectDirVars, rows>>
    PROVE  StoreInv'
<1>1. reply' \in [Uploads -> Replies]
    BY ZenonT(30) DEF Fail, StoreInv, StoreTypeOK
<1>2. step' = [step EXCEPT ![u] = "failed"]
    BY ZenonT(30) DEF Fail
<1>3. \A v \in Uploads \ {u} : v \in synced => v \in synced'
    BY ZenonT(30) DEF Fail, RemoveTemporary
<1>4. step'[u] # "link"
    BY ZenonT(30), <1>2 DEF StoreInv, StoreTypeOK
<1> QED BY ZenonT(30), <1>1, <1>2, <1>3, <1>4, EarlyStep

(* A restart forgets the tasks, and the power takes only what no row names. *)
LEMMA RestartStep ==
    ASSUME StoreInv, Restart,
           ObjectsWhole', objects' \in [Hashes -> Hashes \cup {Nothing, Damaged}],
           RegisteredIsDurable'
    PROVE  StoreInv'
<1>1. step' = [u \in Uploads |-> IF reply[u] = "none" THEN "prepare" ELSE "over"]
      /\ reply' = reply /\ rows' = rows
    BY ZenonT(30) DEF Restart
<1>2. StoreTypeOK'
    BY ZenonT(30), <1>1 DEF StoreInv, StoreTypeOK, Steps
<1>3. ASSUME NEW u \in Uploads PROVE Backed(u)'
    BY ZenonT(30), <1>1 DEF Backed
<1> QED BY ZenonT(30), <1>2, <1>3 DEF StoreInv

(* Every step keeps the invariant. *)
LEMMA StoreStep ==
    ASSUME StoreInv, [StoreNext]_storeVars
    PROVE  StoreInv'
<1> USE DEF StoreInv
<1>1. ASSUME NEW u \in Uploads, prepare_upload(u) PROVE StoreInv'
  <2>1. CASE Fail(u)
      BY ZenonT(30), <1>1, <2>1, FailStep DEF prepare_upload
  <2>2. CASE Goes(u, "prepare", "create") /\ UNCHANGED <<temps, synced, reply>>
    <3>1. step' = [step EXCEPT ![u] = "create"] /\ synced' = synced /\ reply' = reply
        BY ZenonT(30), <2>2 DEF Goes
    <3>2. step'[u] # "link"
        BY ZenonT(30), <3>1 DEF StoreTypeOK
    <3> QED BY ZenonT(30), <1>1, <3>1, <3>2, EarlyStep DEF prepare_upload, StoreTypeOK
  <2> QED BY ZenonT(30), <1>1, <2>1, <2>2 DEF prepare_upload
<1>2. ASSUME NEW u \in Uploads, create_temporary(u) PROVE StoreInv'
  <2>1. step' = [step EXCEPT ![u] = "append"] /\ synced' = synced /\ reply' = reply
      BY ZenonT(30), <1>2 DEF create_temporary, Goes
  <2>2. step'[u] # "link"
      BY ZenonT(30), <2>1 DEF StoreTypeOK
  <2> QED BY ZenonT(30), <1>2, <2>1, <2>2, EarlyStep DEF create_temporary, StoreTypeOK
<1>3. ASSUME NEW u \in Uploads, AppendBlock(u) PROVE StoreInv'
  <2>1. step' = step /\ synced' = synced /\ reply' = reply /\ step[u] = "append"
      BY ZenonT(30), <1>3 DEF AppendBlock
  <2> QED BY ZenonT(30), <1>3, <2>1, EarlyStep DEF AppendBlock, StoreTypeOK
<1>4. ASSUME NEW u \in Uploads, hash(u) PROVE StoreInv'
  <2>1. step' = [step EXCEPT ![u] = "sync"] /\ synced' = synced /\ reply' = reply
      BY ZenonT(30), <1>4 DEF hash, Goes
  <2>2. step'[u] # "link"
      BY ZenonT(30), <2>1 DEF StoreTypeOK
  <2> QED BY ZenonT(30), <1>4, <2>1, <2>2, EarlyStep DEF hash, StoreTypeOK
<1>5. ASSUME NEW u \in Uploads, sync_file(u) PROVE StoreInv'
  <2>1. step' = [step EXCEPT ![u] = "link"] /\ synced' = synced \cup {u}
        /\ UNCHANGED <<reply, rows, objects, safe, entries>>
      BY ZenonT(30), <1>5 DEF sync_file, Goes, objectDirVars
  <2>2. StoreTypeOK'
      BY ZenonT(30), <2>1 DEF StoreTypeOK, Steps
  <2>3. ASSUME NEW v \in Uploads PROVE Backed(v)'
      BY ZenonT(30), <2>1 DEF Backed, StoreTypeOK
  <2> QED BY ZenonT(30), <2>1, <2>2, <2>3 DEF ObjectsWhole, RegisteredIsDurable
<1>6. ASSUME NEW u \in Uploads, Link(u) PROVE StoreInv'
  <2> DEFINE h == HashOf[u]
  <2>0. h \in Hashes /\ h # Nothing
      BY ZenonT(30), Constants
  <2>1. CASE objects[h] \notin {h, Nothing}
      BY ZenonT(30), <2>0, <2>1 DEF ObjectsWhole
  <2>2. CASE objects[h] \in {h, Nothing}
    <3>1. /\ step[u] = "link" /\ step' = [step EXCEPT ![u] = "unlink"]
          /\ UNCHANGED <<synced, reply, entries, rows>>
          /\ \/ objects[h] = Nothing /\ objects' = [objects EXCEPT ![h] = h]
                /\ safe' = IF u \in synced THEN safe \cup {h} ELSE safe
             \/ objects[h] = h /\ objects' = objects /\ safe' = safe
        BY ZenonT(30), <1>6, <2>2 DEF Link, Goes
    <3>2. u \in synced
        BY ZenonT(30), <3>1 DEF Backed
    <3>3. /\ objects' \in [Hashes -> Hashes \cup {Nothing, Damaged}] /\ objects'[h] = h
          /\ h \in safe' /\ safe \subseteq safe'
          /\ \A g \in Hashes \ {h} : objects'[g] = objects[g]
        BY ZenonT(30), <2>0, <3>1, <3>2 DEF StoreTypeOK, ObjectsWhole
    <3>4. \A g \in Hashes : objects[g] = g => objects'[g] = g
        BY ZenonT(30), <3>3
    <3>5. StoreTypeOK'
        BY ZenonT(30), <3>1, <3>3 DEF StoreTypeOK, Steps
    <3>6. ObjectsWhole'
        BY ZenonT(30), <3>3 DEF ObjectsWhole
    <3>7. ASSUME NEW v \in Uploads PROVE Backed(v)'
      <4>1. HashOf[v] \in Hashes
          BY ZenonT(30), Constants
      <4> QED BY ZenonT(30), <4>1, <3>1, <3>3, <3>4 DEF Backed, StoreTypeOK
    <3>8. RegisteredIsDurable'
        BY ZenonT(30), <3>1, <3>3, <3>4 DEF RegisteredIsDurable, StoreTypeOK
    <3> QED BY ZenonT(30), <3>5, <3>6, <3>7, <3>8
  <2> QED BY ZenonT(30), <2>1, <2>2
<1>7. ASSUME NEW u \in Uploads, Unlink(u) PROVE StoreInv'
  <2>1. /\ step[u] = "unlink" /\ step' = [step EXCEPT ![u] = "syncdir"]
        /\ synced' = synced \ {u} /\ UNCHANGED <<reply, rows, objects, safe, entries>>
      BY ZenonT(30), <1>7 DEF Unlink, Goes, RemoveTemporary, objectDirVars
  <2>2. StoreTypeOK'
      BY ZenonT(30), <2>1 DEF StoreTypeOK, Steps
  <2>3. ASSUME NEW v \in Uploads PROVE Backed(v)'
      BY ZenonT(30), <2>1 DEF Backed, StoreTypeOK
  <2> QED BY ZenonT(30), <2>1, <2>2, <2>3 DEF ObjectsWhole, RegisteredIsDurable
<1>8. ASSUME NEW u \in Uploads, sync_directory(u) PROVE StoreInv'
  <2>1. /\ step[u] = "syncdir" /\ step' = [step EXCEPT ![u] = "register"]
        /\ entries' = {h \in Hashes : objects[h] # Nothing}
        /\ UNCHANGED <<synced, reply, rows, objects, safe>>
      BY ZenonT(30), <1>8 DEF sync_directory, Goes
  <2>2. StoreTypeOK'
      BY ZenonT(30), <2>1 DEF StoreTypeOK, Steps
  <2>3. ASSUME NEW v \in Uploads PROVE Backed(v)'
    <3>1. HashOf[v] \in Hashes /\ HashOf[v] # Nothing
        BY ZenonT(30), Constants
    <3> QED BY ZenonT(30), <2>1, <3>1 DEF Backed, StoreTypeOK
  <2>4. RegisteredIsDurable'
      BY ZenonT(30), <2>1, StoreAssumption DEF RegisteredIsDurable, StoreTypeOK, StoreAssumption
  <2> QED BY ZenonT(30), <2>1, <2>2, <2>3, <2>4 DEF ObjectsWhole
<1>9. ASSUME NEW u \in Uploads, commit_upload(u) PROVE StoreInv'
  <2>1. CASE Fail(u) /\ UNCHANGED rows
      BY ZenonT(30), <1>9, <2>1, FailStep DEF commit_upload
  <2>2. CASE ~(Fail(u) /\ UNCHANGED rows)
    <3>0. HashOf[u] \in Hashes /\ NameOf[u] \in FileNames
        BY ZenonT(30), Constants
    <3>1. /\ step[u] = "register"
          /\ step' \in {[step EXCEPT ![u] = "stored"], [step EXCEPT ![u] = "failed"]}
          /\ rows[NameOf[u]] = Nothing /\ rows' = [rows EXCEPT ![NameOf[u]] = HashOf[u]]
          /\ \A v \in Uploads \ {u} : v \in synced => v \in synced'
          /\ UNCHANGED <<reply, objects, safe, entries>>
        BY ZenonT(30), <1>9, <2>2 DEF commit_upload, Goes, Fail, RemoveTemporary, objectDirVars
    <3>2. StoreTypeOK'
        BY ZenonT(30), <3>0, <3>1 DEF StoreTypeOK, Steps
    <3>3. ASSUME NEW v \in Uploads PROVE Backed(v)'
      <4>1. NameOf[v] \in FileNames /\ HashOf[v] # Nothing
          BY ZenonT(30), Constants
      <4>2. step'[v] = "stored" => rows'[NameOf[v]] = HashOf[v]
        <5>1. CASE v = u
            BY ZenonT(30), <3>0, <3>1, <5>1 DEF StoreTypeOK
        <5>2. CASE v # u
            BY ZenonT(30), <3>0, <3>1, <4>1, <5>2 DEF StoreTypeOK, Backed
        <5> QED BY ZenonT(30), <5>1, <5>2
      <4>3. /\ step'[v] = "link" => v \in synced'
            /\ step'[v] \in {"unlink", "syncdir", "register"} => objects'[HashOf[v]] = HashOf[v]
            /\ step'[v] = "register" => HashOf[v] \in entries'
          BY ZenonT(30), <3>1 DEF Backed, StoreTypeOK
      <4> QED BY ZenonT(30), <4>2, <4>3 DEF Backed
    <3>4. objects[HashOf[u]] = HashOf[u] /\ HashOf[u] \in entries \cap safe
        BY ZenonT(30), <3>0, <3>1, Constants DEF Backed, ObjectsWhole
    <3>5. RegisteredIsDurable'
        BY ZenonT(30), <3>0, <3>1, <3>4 DEF RegisteredIsDurable, StoreTypeOK
    <3> QED BY ZenonT(30), <3>1, <3>2, <3>3, <3>5 DEF ObjectsWhole
  <2> QED BY ZenonT(30), <2>1, <2>2
<1>10. ASSUME NEW u \in Uploads, TaskFails(u) PROVE StoreInv'
    BY ZenonT(30), <1>10, FailStep DEF TaskFails
<1>11. ASSUME NEW u \in Uploads, Disconnect(u) PROVE StoreInv'
  <2>1. reply' \in [Uploads -> Replies]
      BY ZenonT(30), <1>11 DEF Disconnect, StoreTypeOK, Replies
  <2>2. CASE step[u] \in {"prepare", "create", "append"}
    <3>1. step' = [step EXCEPT ![u] = "over"] /\ synced' = synced \ {u}
        BY ZenonT(30), <1>11, <2>2 DEF Disconnect, RemoveTemporary
    <3>2. step'[u] # "link"
        BY ZenonT(30), <3>1 DEF StoreTypeOK
    <3> QED BY ZenonT(30), <1>11, <2>1, <3>1, <3>2, EarlyStep DEF Disconnect
  <2>3. CASE step[u] \notin {"prepare", "create", "append"}
    <3>1. step' = step /\ synced' = synced
        BY ZenonT(30), <1>11, <2>3 DEF Disconnect
    <3>2. step'[u] = "link" => u \in synced'
        BY ZenonT(30), <3>1 DEF Backed
    <3> QED BY ZenonT(30), <1>11, <2>1, <3>1, <3>2, EarlyStep DEF Disconnect
  <2> QED BY ZenonT(30), <2>2, <2>3
<1>15. ASSUME NEW u \in Uploads, on_result(u) PROVE StoreInv'
  <2>1. reply' \in [Uploads -> Replies]
    <3>1. \E what \in {"done", "failed"} : Tell(u, what)
        BY ZenonT(30), <1>15 DEF on_result
    <3> QED BY ZenonT(30), <3>1, TellType DEF StoreTypeOK, Replies
  <2>2. step' = [step EXCEPT ![u] = "over"] /\ synced' = synced
      BY ZenonT(30), <1>15 DEF on_result
  <2>3. step'[u] # "link"
      BY ZenonT(30), <2>2 DEF StoreTypeOK
  <2> QED BY ZenonT(30), <1>15, <2>1, <2>2, <2>3, EarlyStep DEF on_result
<1>12. CASE ProcessDies
  <2>1. Restart /\ UNCHANGED <<objects, safe, entries, rows>>
      BY ZenonT(30), <1>12 DEF ProcessDies, Restart
  <2> QED BY ZenonT(30), <2>1, RestartStep DEF ObjectsWhole, RegisteredIsDurable, StoreTypeOK
<1>13. CASE PowerFails
  <2>1. Restart /\ rows' = rows
      BY ZenonT(30), <1>13 DEF PowerFails, Restart
  <2>2. PICK lost \in SUBSET {h \in Hashes : objects[h] # Nothing /\ h \notin entries} :
           objects' = [h \in Hashes |-> IF h \in lost \/ objects[h] = Nothing THEN Nothing
                                          ELSE IF h \in safe THEN objects[h] ELSE Damaged]
      BY ZenonT(30), <1>13 DEF PowerFails
  <2>3. entries' = {h \in Hashes : objects'[h] # Nothing} /\ safe' = entries'
      BY ZenonT(30), <1>13 DEF PowerFails
  <2>4. \A h \in Hashes : objects'[h] = IF h \in lost \/ objects[h] = Nothing THEN Nothing ELSE h
      BY ZenonT(30), <2>2 DEF ObjectsWhole
  <2>5. objects' \in [Hashes -> Hashes \cup {Nothing, Damaged}]
      BY ZenonT(30), <2>2 DEF StoreTypeOK
  <2>6. ObjectsWhole'
      BY ZenonT(30), <2>3, <2>4 DEF ObjectsWhole
  <2>7. RegisteredIsDurable'
    <3>1. ASSUME NEW n \in FileNames, rows[n] # Nothing
          PROVE  objects'[rows[n]] = rows[n] /\ rows[n] \in entries' \cap safe'
      <4>1. rows[n] \in Hashes /\ rows[n] \in entries /\ objects[rows[n]] # Nothing
          BY ZenonT(30), <3>1, StoreAssumption DEF StoreTypeOK, RegisteredIsDurable, StoreAssumption
      <4>2. rows[n] \notin lost
          BY ZenonT(30), <4>1, <2>2
      <4> QED BY ZenonT(30), <3>1, <4>1, <4>2, <2>3, <2>4
    <3> QED BY ZenonT(30), <3>1, <2>1 DEF RegisteredIsDurable
  <2> QED BY ZenonT(30), <2>1, <2>5, <2>6, <2>7, RestartStep
<1>14. CASE UNCHANGED storeVars
    BY ZenonT(30), <1>14 DEF storeVars, taskVars, objectDirVars, StoreTypeOK, ObjectsWhole, Backed, RegisteredIsDurable
<1> QED
    BY ZenonT(30), <1>1, <1>2, <1>3, <1>4, <1>5, <1>6, <1>7, <1>8, <1>9, <1>10, <1>11, <1>12, <1>13, <1>14,
       <1>15
    DEF StoreNext

(* The invariant holds at first and for ever. *)
LEMMA StoreInvariant == StoreSpec => []StoreInv
<1>1. StoreInit => StoreInv
    BY ZenonT(30) DEF StoreInit, StoreInv, StoreTypeOK, Steps, Replies, ObjectsWhole, Backed, RegisteredIsDurable
<1>2. StoreInv /\ [StoreNext]_storeVars => StoreInv'
    BY ZenonT(30), StoreStep
<1> QED BY <1>1, <1>2, PTL DEF StoreSpec

(* A registered file can always be downloaded: the object its row names is *)
(* whole, and neither its content nor its directory entry goes with the    *)
(* power, however many uploads share it and whenever the server crashes    *)
(* (publish() before commit_upload()). *)
THEOREM RegisteredStaysDurable == StoreSpec => []RegisteredIsDurable
<1>1. StoreInv => RegisteredIsDurable
    BY ZenonT(30) DEF StoreInv
<1> QED BY <1>1, StoreInvariant, PTL

(* What a download gets is what the row says. *)
LEMMA ServedIsRows ==
    ASSUME StoreInv
    PROVE  Served = rows
<1>1. ASSUME NEW n \in FileNames PROVE Served[n] = rows[n]
    BY ZenonT(30) DEF Served, StoreInv, RegisteredIsDurable
<1>2. Served = [n \in FileNames |-> Served[n]] /\ rows = [n \in FileNames |-> rows[n]]
    BY ZenonT(30) DEF Served, StoreInv, StoreTypeOK
<1> QED BY ZenonT(30), <1>1, <1>2

(* A client is told once: the first answer stays. *)
LEMMA Answers ==
    ASSUME StoreInv, NEW u \in Uploads, NEW what, Tell(u, what)
    PROVE  Files!Answer(u, what) \/ reply' = reply
    BY ZenonT(30) DEF StoreInv, StoreTypeOK, Tell, Files!Answer

(* The object store implements FileTable: for every set of uploads, a file *)
(* appears whole and at once, is never changed or lost by a failure, a     *)
(* restart or a loss of power, and "done" is said only of a file that is   *)
(* stored. *)
THEOREM StoreImplementsTable == StoreSpec => FilesKept
<1>1. StoreInit => Files!FileTableInit
    BY ZenonT(30) DEF StoreInit, Files!FileTableInit, Served, FileNames
<1>2. StoreInv /\ StoreInv' /\ [StoreNext]_storeVars => [Files!FileTableNext]_<<Served, reply>>
  <2> SUFFICES ASSUME StoreInv, StoreInv', [StoreNext]_storeVars
               PROVE  [Files!FileTableNext]_<<Served, reply>>
      BY ZenonT(30)
  <2>1. Served = rows /\ Served' = rows'
    <3>1. Served = rows
        BY ZenonT(30), ServedIsRows
    <3>2. Served' = rows'
      <4>1. ASSUME NEW n \in FileNames PROVE Served'[n] = rows'[n]
          BY ZenonT(30) DEF Served, StoreInv, RegisteredIsDurable
      <4>2. Served' = [n \in FileNames |-> Served'[n]] /\ rows' = [n \in FileNames |-> rows'[n]]
          BY ZenonT(30) DEF Served, StoreInv, StoreTypeOK
      <4> QED BY ZenonT(30), <4>1, <4>2
    <3> QED BY ZenonT(30), <3>1, <3>2
  <2>2. ASSUME UNCHANGED <<rows, reply>> PROVE [Files!FileTableNext]_<<Served, reply>>
      BY ZenonT(30), <2>1, <2>2
  <2>3. ASSUME NEW u \in Uploads, on_result(u) PROVE [Files!FileTableNext]_<<Served, reply>>
    <3>1. CASE step[u] = "stored"
      <4>1. rows[NameOf[u]] = HashOf[u] /\ rows' = rows /\ Tell(u, "done")
          BY ZenonT(30), <2>3, <3>1 DEF on_result, StoreInv, Backed
      <4>2. CASE Files!Answer(u, "done")
          BY ZenonT(30), <4>1, <4>2, <2>1 DEF Files!FileTableNext, Files!Done
      <4>3. CASE reply' = reply
          BY ZenonT(30), <4>1, <4>3, <2>2
      <4> QED BY ZenonT(30), <4>1, <4>2, <4>3, Answers
    <3>2. CASE step[u] # "stored"
      <4>1. rows' = rows /\ Tell(u, "failed")
          BY ZenonT(30), <2>3, <3>2 DEF on_result
      <4>2. CASE Files!Answer(u, "failed")
          BY ZenonT(30), <4>1, <4>2, <2>1 DEF Files!FileTableNext, Files!Refuse
      <4>3. CASE reply' = reply
          BY ZenonT(30), <4>1, <4>3, <2>2
      <4> QED BY ZenonT(30), <4>1, <4>2, <4>3, Answers
    <3> QED BY ZenonT(30), <3>1, <3>2
  <2>4. ASSUME NEW u \in Uploads, rows[NameOf[u]] = Nothing,
               rows' = [rows EXCEPT ![NameOf[u]] = HashOf[u]], UNCHANGED reply
        PROVE  [Files!FileTableNext]_<<Served, reply>>
    <3>1. Files!Store(u)
        BY ZenonT(30), <2>1, <2>4 DEF Files!Store
    <3> QED BY ZenonT(30), <3>1 DEF Files!FileTableNext
  <2>5. ASSUME NEW u \in Uploads, Disconnect(u) PROVE [Files!FileTableNext]_<<Served, reply>>
    <3>1. Files!Leave(u)
        BY ZenonT(30), <2>1, <2>5 DEF Disconnect, Files!Leave, Files!Answer
    <3> QED BY ZenonT(30), <3>1 DEF Files!FileTableNext
  <2>6. ASSUME NEW u \in Uploads, commit_upload(u) PROVE [Files!FileTableNext]_<<Served, reply>>
      BY ZenonT(30), <2>2, <2>4, <2>6 DEF commit_upload, Fail
  <2>7. ASSUME NEW u \in Uploads, prepare_upload(u) \/ TaskFails(u)
        PROVE  [Files!FileTableNext]_<<Served, reply>>
      BY ZenonT(30), <2>2, <2>7 DEF prepare_upload, TaskFails, Fail
  <2>8. ASSUME NEW u \in Uploads, Link(u) PROVE [Files!FileTableNext]_<<Served, reply>>
      BY ZenonT(30), <2>2, <2>8 DEF Link, Fail
  <2>9. ASSUME NEW u \in Uploads,
               \/ create_temporary(u) \/ AppendBlock(u) \/ hash(u) \/ sync_file(u)
               \/ Unlink(u) \/ sync_directory(u)
        PROVE  [Files!FileTableNext]_<<Served, reply>>
      BY ZenonT(30), <2>2, <2>9
      DEF create_temporary, AppendBlock, hash, sync_file, Unlink, sync_directory
  <2>10. ASSUME ProcessDies \/ PowerFails PROVE [Files!FileTableNext]_<<Served, reply>>
      BY ZenonT(30), <2>2, <2>10 DEF ProcessDies, PowerFails, Restart
  <2>11. ASSUME UNCHANGED storeVars PROVE [Files!FileTableNext]_<<Served, reply>>
      BY ZenonT(30), <2>2, <2>11 DEF storeVars, taskVars
  <2> QED
      BY ZenonT(30), <2>3, <2>5, <2>6, <2>7, <2>8, <2>9, <2>10, <2>11 DEF StoreNext
<1> QED BY <1>1, <1>2, StoreInvariant, PTL DEF StoreSpec, FilesKept, Files!FileTableSpec
=============================================================================
