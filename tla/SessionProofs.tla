---------------------------- MODULE SessionProofs ----------------------------
(***************************************************************************)
(* A session of the server has one request in flight and answers sign-ups  *)
(* truly, for any users and directories and any number of attempts and     *)
(* transfers. The invariant says where the one request of a kind is: with  *)
(* the worker pool, in the queue of the loop, or nowhere.                  *)
(***************************************************************************)
EXTENDS ServerSession, FiniteSetTheorems, TLAPS

Names == Users \cup {NoName}
Places == Dirs \cup {Root}
Logins == {"await_choice", "await_username", "signup_username", "await_password",
           "signup_password", "signup_confirm", "verifying", "registering", "authenticated"}

Sessions == [login : Logins, pending : Names, name : Names, attempt : Nat, dir : Places,
             cding : BOOLEAN, generation : Nat]

Tasks ==
    [kind : {"auth", "signup"}, n : Nat, user : Names, running : BOOLEAN]
        \cup [kind : {"cd"}, from : Places, to : Places, running : BOOLEAN]
        \cup [kind : {"prepare"}, g : Nat, running : BOOLEAN]

(* The state the requests of a session depend on has its type. *)
StateTypeOK ==
    /\ link \in {"connecting", "up", "disconnecting", "down"}
    /\ registered \in BOOLEAN /\ stopping \in BOOLEAN /\ threw \in BOOLEAN
    /\ session \in Sessions /\ tasks \subseteq Tasks
    /\ \A d \in disk : d.op \in {"create", "write", "final", "open"}
    /\ created \subseteq Nat /\ denied \subseteq Nat

SessionTypeOK == StateTypeOK /\ \E S : loopq \in Seq(S)

Requests == {"auth", "signup", "cd"}

(* The session waits for the answer to a request of kind k. *)
Expected(k) ==
    CASE k = "auth" -> session.login = "verifying"
      [] k = "signup" -> session.login = "registering"
      [] k = "cd" -> session.cding

(* The task t, or the answer x, belongs to the session as it is now. *)
Asked(k, t) ==
    CASE k = "auth" -> t.n = session.attempt
      [] k = "signup" -> t.n = session.attempt /\ t.n \notin created \cup denied
      [] k = "cd" -> t.from = session.dir

Told(k, x) ==
    CASE k = "auth" -> x.n = session.attempt /\ (x.result = "ok" => x.user \in Names)
      [] k = "signup" -> /\ x.n = session.attempt /\ x.n \notin denied
                         /\ x.result \in Denials => x.n \notin created
      [] k = "cd" -> x.from = session.dir /\ x.to \in Places

Nothing(k) == Pending(k) = {} /\ Queued(k) = {}
Sent(k) == Queued(k) = {} /\ \E t \in tasks : Pending(k) = {t} /\ Asked(k, t)
Answered(k) == Pending(k) = {} /\ \E i \in DOMAIN loopq : Queued(k) = {i} /\ Told(k, loopq[i])

(* A request got lost: the pool dropped it, or the worker threw. *)
Lost(k) == Nothing(k) /\ (stopping \/ (k = "cd" /\ threw))

Flight(k) == IF Expected(k) THEN Sent(k) \/ Answered(k) \/ Lost(k) ELSE Nothing(k)

(* The inductive invariant. *)
SessionInv ==
    /\ SessionTypeOK
    /\ session.cding => session.login = "authenticated"
    /\ link = "up" => registered
    /\ link \in {"connecting", "disconnecting"} => \A k \in Requests : ~Expected(k)
    /\ link # "down" => \A k \in Requests : Flight(k)
    /\ \A n \in created \cup denied : n <= session.attempt
    /\ SignupAnswerTrue

------------------------------------------------------------------------------
(* Sequences of functors. *)

(* Where the functors of kind k are in q. *)
In(q, k) == {i \in DOMAIN q : q[i].kind = k}

(* q has the one functor of kind k that p has, or none like p. *)
SameAnswers(p, q, k) ==
    /\ In(p, k) = {} => In(q, k) = {}
    /\ \A i \in DOMAIN p : In(p, k) = {i} =>
           \E j \in DOMAIN q : In(q, k) = {j} /\ q[j] = p[i]

(* A functor of another kind changes nothing. *)
LEMMA AppendOther ==
    ASSUME NEW S, NEW q \in Seq(S), NEW f, NEW k, f.kind # k
    PROVE  SameAnswers(q, Append(q, f), k) /\ Append(q, f) \in Seq(S \cup {f})
<1> DEFINE r == Append(q, f)
<1>1. /\ r \in Seq(S \cup {f}) /\ DOMAIN r = DOMAIN q \cup {Len(q) + 1}
      /\ r[Len(q) + 1] = f /\ \A i \in DOMAIN q : r[i] = q[i]
    OBVIOUS
<1>2. In(r, k) = In(q, k)
    <2> HIDE DEF r
    <2> QED BY <1>1 DEF In
<1> HIDE DEF r
<1>3. SameAnswers(q, r, k)
    BY <1>1, <1>2 DEF SameAnswers
<1> QED BY <1>1, <1>3 DEF r

(* A functor of kind k is the only one when there was none. *)
LEMMA AppendAnswer ==
    ASSUME NEW S, NEW q \in Seq(S), NEW f, NEW k, f.kind = k, In(q, k) = {}
    PROVE  \E j \in DOMAIN Append(q, f) : In(Append(q, f), k) = {j} /\ Append(q, f)[j] = f
<1> DEFINE r == Append(q, f)
<1>1. /\ DOMAIN r = DOMAIN q \cup {Len(q) + 1}
      /\ r[Len(q) + 1] = f /\ \A i \in DOMAIN q : r[i] = q[i]
    OBVIOUS
<1> HIDE DEF r
<1>2. In(r, k) = {Len(q) + 1}
    BY <1>1 DEF In
<1> QED BY <1>1, <1>2 DEF r

(* The first functor leaves the queue. *)
LEMMA TailOther ==
    ASSUME NEW S, NEW q \in Seq(S), q # <<>>, NEW k, Head(q).kind # k
    PROVE  SameAnswers(q, Tail(q), k)
<1> DEFINE r == Tail(q)
<1>1. /\ DOMAIN q = 1 .. Len(q) /\ Len(q) \in Nat /\ q[1].kind # k
      /\ DOMAIN r = 1 .. Len(q) - 1 /\ \A i \in DOMAIN r : r[i] = q[i + 1]
    OBVIOUS
<1> HIDE DEF r
<1>2. \A i \in In(r, k) : i + 1 \in In(q, k)
    BY <1>1 DEF In
<1>3. ASSUME NEW i \in DOMAIN q, In(q, k) = {i}
      PROVE  \E j \in DOMAIN r : In(r, k) = {j} /\ r[j] = q[i]
    <2>1. i # 1 /\ q[i].kind = k
        BY <1>1, <1>3 DEF In
    <2>2. i - 1 \in DOMAIN r /\ r[i - 1] = q[i]
        BY <1>1, <2>1
    <2>3. \A j \in In(r, k) : j = i - 1
        <3> TAKE j \in In(r, k)
        <3>1. j \in Int /\ j + 1 = i
            BY <1>1, <1>2, <1>3 DEF In
        <3> QED BY <3>1
    <2>4. i - 1 \in In(r, k)
        BY <2>1, <2>2 DEF In
    <2>5. In(r, k) = {i - 1}
        BY <2>3, <2>4
    <2> QED BY <2>2, <2>5
<1>4. SameAnswers(q, r, k)
    BY <1>2, <1>3 DEF SameAnswers
<1> QED BY <1>4 DEF r

(* Taking the only answer of a kind, at the head of the queue, leaves none of that kind. *)
LEMMA TailAnswer ==
    ASSUME NEW S, NEW q \in Seq(S), q # <<>>, NEW k, Head(q).kind = k,
           NEW i, In(q, k) = {i}
    PROVE  i = 1 /\ q[i] = Head(q) /\ In(Tail(q), k) = {}
<1> DEFINE r == Tail(q)
<1>1. /\ DOMAIN q = 1 .. Len(q) /\ Len(q) \in Nat /\ Len(q) # 0 /\ q[1] = Head(q)
      /\ DOMAIN r = 1 .. Len(q) - 1 /\ \A j \in DOMAIN r : r[j] = q[j + 1]
    OBVIOUS
<1> HIDE DEF r
<1>2. 1 \in In(q, k)
    BY <1>1 DEF In
<1>3. \A j \in In(r, k) : j \in 1 .. Len(q) - 1 /\ j + 1 \in In(q, k)
    BY <1>1 DEF In
<1>4. In(r, k) = {}
    BY <1>1, <1>2, <1>3
<1> QED BY <1>1, <1>2, <1>4 DEF r

(* Two changes of the queue that keep the answers of a kind keep them together. *)
LEMMA SameAnswersTransitive ==
    ASSUME NEW p, NEW q, NEW r, NEW k, SameAnswers(p, q, k), SameAnswers(q, r, k)
    PROVE  SameAnswers(p, r, k)
    BY DEF SameAnswers

------------------------------------------------------------------------------
(* Steps that leave the requests alone. *)

Other(f) == f.kind \notin Requests

QuietQueue ==
    \/ loopq' = loopq
    \/ \E f : Other(f) /\ loopq' = Append(loopq, f)
    \/ loopq # <<>> /\ Other(Head(loopq)) /\ loopq' = Tail(loopq)
    \/ loopq # <<>> /\ Other(Head(loopq)) /\ loopq' = Append(Tail(loopq), Close)

SameRequest(k) == Pending(k)' = Pending(k) /\ (Expected(k)' <=> Expected(k))

(* What the invariant says of the connection and the session. *)
Bearings ==
    /\ session.cding => session.login = "authenticated"
    /\ link = "up" => registered
    /\ link \in {"connecting", "disconnecting"} => \A k \in Requests : ~Expected(k)

Quiet ==
    /\ QuietQueue /\ \A k \in Requests : SameRequest(k)
    /\ session'.attempt = session.attempt /\ session'.dir = session.dir
    /\ created' = created /\ denied' = denied /\ threw' = threw
    /\ stopping => stopping'
    /\ link # "down" /\ Bearings'

(* The queue of the loop keeps the answers that are in it. *)
LEMMA QuietAnswers ==
    ASSUME \E S : loopq \in Seq(S), QuietQueue
    PROVE  /\ \E S : loopq' \in Seq(S)
           /\ \A k \in Requests : SameAnswers(loopq, loopq', k)
<1> PICK S : loopq \in Seq(S)
    OBVIOUS
<1>1. CASE loopq' = loopq
    <2>1. \A k : SameAnswers(loopq, loopq, k)
        BY DEF SameAnswers
    <2>2. loopq' \in Seq(S)
        BY <1>1
    <2> QED BY ONLY <1>1, <2>1, <2>2, Zenon
<1>2. ASSUME NEW f, Other(f), loopq' = Append(loopq, f)
      PROVE  loopq' \in Seq(S \cup {f}) /\ \A k \in Requests : SameAnswers(loopq, loopq', k)
    <2>1. loopq' \in Seq(S \cup {f})
        BY <1>2
    <2>2. \A k \in Requests : f.kind # k
        BY <1>2 DEF Other
    <2> QED BY <1>2, <2>1, <2>2, AppendOther
<1>3. ASSUME loopq # <<>>, Other(Head(loopq))
      PROVE  Tail(loopq) \in Seq(S) /\ \A k \in Requests : SameAnswers(loopq, Tail(loopq), k)
    <2>1. Tail(loopq) \in Seq(S)
        BY <1>3
    <2> QED BY <1>3, <2>1, TailOther DEF Other
<1>4. ASSUME loopq # <<>>, Other(Head(loopq)), loopq' = Append(Tail(loopq), Close)
      PROVE  /\ loopq' \in Seq(S \cup {Close})
             /\ \A k \in Requests : SameAnswers(loopq, loopq', k)
    <2>1. /\ loopq' \in Seq(S \cup {Close})
          /\ \A k \in Requests : SameAnswers(Tail(loopq), loopq', k)
        <3>1. \A k \in Requests : Close.kind # k
            BY DEF Close, Requests
        <3>2. Tail(loopq) \in Seq(S)
            BY <1>3, <1>4
        <3> DEFINE rest == Tail(loopq)
        <3> HIDE DEF rest
        <3>3. Append(rest, Close) \in Seq(S \cup {Close})
            BY <3>2 DEF rest
        <3>4. \A k \in Requests : SameAnswers(rest, Append(rest, Close), k)
            BY ZenonT(30), <3>1, <3>2, AppendOther DEF rest
        <3> QED BY <1>4, <3>3, <3>4 DEF rest
    <2> QED BY <1>3, <1>4, <2>1, SameAnswersTransitive
<1> QED BY ZenonT(30), <1>1, <1>2, <1>3, <1>4 DEF QuietQueue

(* A kind nobody waits for stays one. *)
LEMMA NothingStays ==
    ASSUME NEW k, Nothing(k), Pending(k)' = Pending(k), SameAnswers(loopq, loopq', k)
    PROVE  Nothing(k)'
    BY DEF Nothing, SameAnswers, In, Queued

(* A quiet step leaves the request of each kind where it is. *)
LEMMA QuietStep ==
    ASSUME SessionInv, Quiet, StateTypeOK'
    PROVE  SessionInv'
<1>1. /\ \E S : loopq' \in Seq(S)
      /\ \A k \in Requests : SameAnswers(loopq, loopq', k)
    <2>1. \E S : loopq \in Seq(S)
        BY DEF SessionInv, SessionTypeOK
    <2> QED BY <2>1, QuietAnswers DEF Quiet
<1>2. ASSUME NEW k \in Requests PROVE Flight(k)'
    <2>1. /\ Flight(k) /\ Pending(k)' = Pending(k) /\ (Expected(k)' <=> Expected(k))
          /\ SameAnswers(loopq, loopq', k)
        BY <1>1, <1>2 DEF SessionInv, Quiet, SameRequest
    <2>2. CASE Nothing(k)
        <3>1. Nothing(k)'
            BY <2>1, <2>2, NothingStays
        <3>2. Expected(k) => Lost(k)
            BY <2>1, <2>2 DEF Flight, Nothing, Sent, Answered
        <3>3. Expected(k) => Lost(k)'
            BY <3>1, <3>2 DEF Lost, Quiet
        <3> QED BY <2>1, <3>1, <3>3 DEF Flight
    <2>3. CASE Expected(k) /\ Sent(k)
        <3>1. PICK t \in tasks : Pending(k) = {t} /\ Asked(k, t)
            BY <2>3 DEF Sent
        <3>2. Queued(k)' = {}
            BY <2>1, <2>3 DEF Sent, SameAnswers, In, Queued
        <3>3. t \in tasks' /\ Pending(k)' = {t}
            BY <2>1, <3>1 DEF Pending
        <3>4. Asked(k, t)'
            BY ZenonT(30), <3>1 DEF Asked, Quiet, Requests
        <3>5. Sent(k)'
            BY <3>2, <3>3, <3>4 DEF Sent
        <3> QED BY <2>1, <2>3, <3>5 DEF Flight
    <2>4. CASE Expected(k) /\ Answered(k)
        <3>1. PICK i \in DOMAIN loopq : Queued(k) = {i} /\ Told(k, loopq[i])
            BY <2>4 DEF Answered
        <3>2. PICK j \in DOMAIN loopq' : Queued(k)' = {j} /\ loopq'[j] = loopq[i]
            BY <2>1, <3>1 DEF SameAnswers, In, Queued
        <3>3. Told(k, loopq[j])'
            BY ZenonT(30), <3>1, <3>2 DEF Told, Quiet, Requests
        <3>4. Answered(k)'
            BY <2>1, <2>4, <3>2, <3>3 DEF Answered
        <3> QED BY <2>1, <2>4, <3>4 DEF Flight
    <2> QED BY <2>1, <2>2, <2>3, <2>4 DEF Flight, Lost
<1>3. SignupAnswerTrue' /\ \A n \in (created \cup denied)' : n <= session'.attempt
    BY DEF SessionInv, Quiet, SignupAnswerTrue
<1> QED BY <1>1, <1>2, <1>3 DEF SessionInv, SessionTypeOK, Quiet, Bearings

WorkTyped == \A d \in disk : d.op \in {"create", "write", "final", "open"}

(* The connection stays as it is or ends. *)
Stays == UNCHANGED <<link, registered>> \/ (link' = "down" /\ registered' = FALSE)

(* A step that changes neither the session nor its requests. *)
LEMMA Untouched ==
    ASSUME SessionInv, link # "down", Stays, QuietQueue, WorkTyped',
           UNCHANGED <<session, tasks, created, denied, threw>>,
           stopping' \in BOOLEAN, stopping => stopping'
    PROVE  SessionInv'
<1>1. StateTypeOK'
    BY ZenonT(30) DEF SessionInv, SessionTypeOK, StateTypeOK, Stays, WorkTyped
<1>2. \A k \in Requests : SameRequest(k)
    BY DEF SameRequest, Pending, Expected, Requests
<1>3. Bearings'
    BY <1>2 DEF Bearings, SessionInv, Stays, SameRequest
<1> QED BY <1>1, <1>2, <1>3, QuietStep DEF Quiet

(* A step that moves the session on while it waits for nothing, or changes *)
(* only what transfers use.                                                *)
LEMMA SessionMoves ==
    ASSUME SessionInv, link = "up", session' \in Sessions, QuietQueue, WorkTyped',
           \A k \in Requests : Expected(k)' <=> Expected(k),
           tasks' \subseteq Tasks, \A k \in Requests : Pending(k)' = Pending(k),
           session'.attempt = session.attempt, session'.dir = session.dir,
           session'.cding => session'.login = "authenticated",
           UNCHANGED <<link, registered, stopping, created, denied, threw>>
    PROVE  SessionInv'
<1>1. StateTypeOK'
    BY DEF SessionInv, SessionTypeOK, StateTypeOK, WorkTyped
<1>2. \A k \in Requests : SameRequest(k)
    BY DEF SameRequest
<1>3. Bearings'
    BY DEF Bearings, SessionInv
<1> QED BY <1>1, <1>2, <1>3, QuietStep DEF Quiet

(* The connection, input that is refused, and the stop. *)
LEMMA ConnectionStep ==
    ASSUME SessionInv, Alive,
           \/ OnConnected \/ PeerCloses \/ RunClose \/ BeginStop \/ UnexpectedInput
           \/ RejectLine \/ Quit \/ \E u \in Users : OtherSignup(u)
    PROVE  SessionInv'
<1> USE DEF Alive
<1>0. WorkTyped /\ stopping \in BOOLEAN /\ Close.kind = "close"
    BY DEF SessionInv, SessionTypeOK, StateTypeOK, WorkTyped, Close
<1>1. CASE OnConnected
    <2>1. StateTypeOK'
        BY <1>1 DEF SessionInv, SessionTypeOK, StateTypeOK, OnConnected, accountVars
    <2>2. \A k \in Requests : SameRequest(k)
        BY <1>1 DEF SameRequest, Pending, Expected, Requests, OnConnected
    <2>3. Bearings' /\ QuietQueue
        BY <1>1 DEF Bearings, SessionInv, OnConnected, QuietQueue
    <2> QED BY <1>1, <2>1, <2>2, <2>3, QuietStep DEF Quiet, OnConnected, accountVars
<1>2. CASE PeerCloses
    <2>1. Stays /\ QuietQueue /\ WorkTyped'
        BY <1>0, <1>2 DEF PeerCloses, OnDisconnected, Stays, QuietQueue, WorkTyped
    <2> QED BY <1>0, <1>2, <2>1, Untouched DEF PeerCloses, accountVars
<1>3. CASE RunClose
    <2>1. Other(Head(loopq))
        BY <1>0, <1>3 DEF RunClose, Other, Requests
    <2>2. Stays /\ QuietQueue /\ WorkTyped'
        BY <1>0, <1>3, <2>1 DEF RunClose, OnDisconnected, Stays, QuietQueue, WorkTyped
    <2> QED BY <1>0, <1>3, <2>2, Untouched DEF RunClose, accountVars
<1>4. CASE BeginStop
    <2>1. Stays /\ QuietQueue /\ WorkTyped'
        BY <1>0, <1>4 DEF BeginStop, Stays, QuietQueue, WorkTyped
    <2> QED BY <1>0, <1>4, <2>1, Untouched DEF BeginStop, accountVars
<1>5. CASE UnexpectedInput \/ RejectLine
    <2>1. RejectInput
        BY <1>5 DEF UnexpectedInput, RejectLine
    <2>2. Other(Close) /\ loopq' = Append(loopq, Close)
        BY <1>0, <2>1 DEF RejectInput, force_close, Other, Requests
    <2>3. Stays /\ QuietQueue /\ WorkTyped'
        BY <1>0, <2>1, <2>2 DEF RejectInput, Stays, QuietQueue, WorkTyped
    <2> QED BY <1>0, <2>1, <2>3, Untouched DEF RejectInput, accountVars
<1>6. CASE Quit
    <2>1. StateTypeOK'
        BY <1>6 DEF SessionInv, SessionTypeOK, StateTypeOK, Quit, accountVars
    <2>2. \A k \in Requests : SameRequest(k)
        BY <1>6 DEF SameRequest, Pending, Expected, Requests, Quit
    <2>3. \A k \in Requests : ~Expected(k)
        BY ZenonT(30), <1>6 DEF Quit, Command, Expected, Requests
    <2>4. Bearings' /\ QuietQueue
        BY <1>6, <2>2, <2>3 DEF Bearings, SessionInv, Quit, QuietQueue, SameRequest
    <2> QED BY <1>6, <2>1, <2>2, <2>4, QuietStep DEF Quiet, Quit, accountVars
<1>7. CASE \E u \in Users : OtherSignup(u)
    <2>1. Stays /\ QuietQueue /\ WorkTyped'
        BY <1>0, <1>7 DEF OtherSignup, Stays, QuietQueue, WorkTyped
    <2> QED BY <1>0, <1>7, <2>1, Untouched DEF OtherSignup
<1> QED BY <1>1, <1>2, <1>3, <1>4, <1>5, <1>6, <1>7

(* A transfer begins or fails: only the generation changes, and perhaps a  *)
(* preparation comes or goes.                                              *)
LEMMA GenerationMoves ==
    ASSUME SessionInv, link = "up", NEW g \in Nat, session' = [session EXCEPT !.generation = g],
           QuietQueue, WorkTyped',
           tasks' \subseteq Tasks, \A k \in Requests : Pending(k)' = Pending(k),
           UNCHANGED <<link, registered, stopping, created, denied, threw>>
    PROVE  SessionInv'
<1>1. session \in Sessions /\ (session.cding => session.login = "authenticated")
    BY DEF SessionInv, SessionTypeOK, StateTypeOK
<1>2. /\ session' \in Sessions /\ session'.attempt = session.attempt
      /\ session'.dir = session.dir /\ session'.cding = session.cding
      /\ session'.login = session.login
    BY <1>1 DEF Sessions
<1>3. \A k \in Requests : Expected(k)' <=> Expected(k)
    BY <1>2 DEF Expected, Requests
<1> QED BY <1>1, <1>2, <1>3, SessionMoves

(* A functor of a transfer, and what it may do to the queue. *)
LEMMA TransferFunctor ==
    ASSUME loopq # <<>>,
           Head(loopq).kind \in {"prepared", "create", "final", "open", "failed"},
           loopq' = Tail(loopq) \/ loopq' = Append(Tail(loopq), Close)
    PROVE  QuietQueue
    BY DEF QuietQueue, Other, Requests

(* Lines of the login dialogue that submit nothing. *)
LEMMA DialogueStep ==
    ASSUME SessionInv,
           \/ \E to \in {"await_username", "signup_username"} : Choose(to)
           \/ \E u \in Users : EnterUsername(u)
           \/ EnterNewPassword \/ PasswordsDiffer
    PROVE  SessionInv'
<1>1. session \in Sessions /\ WorkTyped /\ tasks \subseteq Tasks
    BY ZenonT(30) DEF SessionInv, SessionTypeOK, StateTypeOK, WorkTyped
<1>2. /\ link = "up" /\ UNCHANGED <<link, registered, stopping, created, denied, threw>>
      /\ UNCHANGED <<tasks, disk, loopq>>
    BY ZenonT(30) DEF Choose, EnterUsername, EnterNewPassword, PasswordsDiffer, TextLine, Lines, Reads,
           accountVars
<1>3. /\ session' \in Sessions /\ session'.attempt = session.attempt
      /\ session'.dir = session.dir /\ session'.cding = session.cding
      /\ session.login \notin {"verifying", "registering", "authenticated"}
      /\ session'.login \notin {"verifying", "registering", "authenticated"}
    <2> DEFINE Prompts == {"await_username", "signup_username", "await_password",
                           "signup_password", "signup_confirm"}
               Moved(l, p, n) ==
                   session' = [session EXCEPT !.login = l, !.pending = p, !.name = n]
    <2>1. PICK l \in Prompts, p \in Names, n \in Names : Moved(l, p, n)
        <3>1. session.pending \in Names /\ session.name \in Names /\ NoName \in Names
            BY <1>1 DEF Sessions, Names
        <3>2. ASSUME NEW to \in {"await_username", "signup_username"}, Choose(to)
              PROVE  to \in Prompts /\ Moved(to, NoName, NoName)
            BY ZenonT(30), <3>2 DEF Choose
        <3>3. ASSUME NEW u \in Users, EnterUsername(u)
              PROVE  u \in Names /\ \E l \in Prompts : Moved(l, u, session.name)
            BY ZenonT(30), <1>1, <3>3 DEF EnterUsername, Names, Sessions
        <3>4. CASE EnterNewPassword \/ PasswordsDiffer
            <4>1. \E l \in Prompts : Moved(l, session.pending, session.name)
                BY ZenonT(30), <1>1, <3>4 DEF EnterNewPassword, PasswordsDiffer, Sessions
            <4> HIDE DEF Moved, Prompts
            <4> QED BY <3>1, <4>1
        <3> HIDE DEF Moved, Prompts
        <3> QED BY <3>1, <3>2, <3>3, <3>4
    <2>2. /\ session' \in Sessions /\ session'.attempt = session.attempt
          /\ session'.dir = session.dir /\ session'.cding = session.cding
          /\ session'.login = l
        BY ZenonT(30), <1>1, <2>1 DEF Sessions, Logins
    <2>3. session.login \notin {"verifying", "registering", "authenticated"}
        BY ZenonT(30) DEF Choose, EnterUsername, EnterNewPassword, PasswordsDiffer
    <2> QED BY <2>2, <2>3
<1>4. \A k \in Requests : (Expected(k)' <=> Expected(k)) /\ Pending(k)' = Pending(k)
    BY <1>2, <1>3 DEF Expected, Requests, Pending
<1>5. QuietQueue /\ WorkTyped' /\ ~session.cding
    BY <1>1, <1>2, <1>3 DEF QuietQueue, WorkTyped, SessionInv
<1> QED BY <1>1, <1>2, <1>3, <1>4, <1>5, SessionMoves

(* Requests for transfers and their preparation. *)
LEMMA TransferBegins ==
    ASSUME SessionInv, Alive,
           \/ RefuseTransfer \/ handle_download \/ \E empty \in BOOLEAN : handle_upload(empty)
           \/ \E t \in tasks : Prepare(t)
    PROVE  SessionInv'
<1>1. /\ session \in Sessions /\ session.generation \in Nat /\ WorkTyped
      /\ tasks \subseteq Tasks /\ stopping \in BOOLEAN
    BY DEF SessionInv, SessionTypeOK, StateTypeOK, WorkTyped, Sessions
<1>2. CASE RefuseTransfer
    <2>1. /\ session' = [session EXCEPT !.generation = session.generation + 1]
          /\ link = "up" /\ QuietQueue /\ WorkTyped' /\ tasks' = tasks
          /\ UNCHANGED <<link, registered, stopping, created, denied, threw>>
        BY <1>1, <1>2 DEF RefuseTransfer, transfer_failed, TextLine, Lines, Reads, accountVars,
                          QuietQueue, WorkTyped
    <2>2. \A k \in Requests : Pending(k)' = Pending(k)
        BY <2>1 DEF Pending
    <2>3. session.generation + 1 \in Nat
        BY <1>1
    <2> QED BY <1>1, <2>1, <2>2, <2>3, GenerationMoves
<1>3. CASE handle_download
    <2>1. /\ link = "up" /\ QuietQueue /\ tasks' = tasks
          /\ UNCHANGED <<link, registered, stopping, created, denied, threw>>
        BY <1>3 DEF handle_download, MayTransfer, TextLine, Lines, Reads, accountVars, QuietQueue
    <2>2. \A k \in Requests : Pending(k)' = Pending(k)
        BY <2>1 DEF Pending
    <2>3. PICK g \in Nat : session' = [session EXCEPT !.generation = g]
        BY <1>1, <1>3 DEF handle_download, NewTransfer
    <2>4. WorkTyped'
        <3>1. \/ disk' = disk
              \/ disk' = disk \cup {[g |-> session.generation + 1, op |-> "open"]}
            BY <1>3 DEF handle_download, NewTransfer
        <3> QED BY <1>1, <3>1 DEF WorkTyped
    <2> QED BY <1>1, <2>1, <2>2, <2>3, <2>4, GenerationMoves
<1>4. ASSUME NEW empty \in BOOLEAN, handle_upload(empty) PROVE SessionInv'
    <2>1. /\ link = "up" /\ QuietQueue /\ disk' = disk
          /\ UNCHANGED <<link, registered, stopping, created, denied, threw>>
        BY <1>4 DEF handle_upload, MayTransfer, TextLine, Lines, Reads, accountVars, QuietQueue
    <2>2. \/ tasks' = tasks
          \/ tasks' = tasks \cup {[kind |-> "prepare", g |-> session.generation + 1, running |-> FALSE]}
        BY <1>4 DEF handle_upload, NewTransfer
    <2>3. tasks' \subseteq Tasks
        <3>1. [kind |-> "prepare", g |-> session.generation + 1, running |-> FALSE] \in Tasks
            BY <1>1 DEF Tasks
        <3> QED BY ZenonT(30), <1>1, <2>2, <3>1
    <2>4. \A k \in Requests : Pending(k)' = Pending(k)
        BY <2>2 DEF Pending, Requests
    <2>5. PICK g \in Nat : session' = [session EXCEPT !.generation = g]
        BY <1>1, <1>4 DEF handle_upload, NewTransfer
    <2>6. WorkTyped'
        BY <1>1, <2>1 DEF WorkTyped
    <2> QED BY <2>1, <2>3, <2>4, <2>5, <2>6, GenerationMoves
<1>5. ASSUME NEW t \in tasks, Prepare(t) PROVE SessionInv'
    <2>1. PICK ok : loopq' = Append(loopq, [kind |-> "prepared", g |-> t.g, ok |-> ok])
        BY ZenonT(30), <1>5 DEF Prepare
    <2>2. QuietQueue
        BY <2>1 DEF QuietQueue, Other, Requests
    <2>3. \A k \in Requests : Pending(k)' = Pending(k)
        BY <1>5 DEF Prepare, Pending, Requests
    <2>4. \A k \in Requests : Expected(k)' <=> Expected(k)
        BY <1>5 DEF Prepare, Expected, Requests
    <2>5. StateTypeOK'
        BY <1>5 DEF Prepare, SessionInv, SessionTypeOK, StateTypeOK, accountVars
    <2>6. Bearings'
        BY <1>5, <2>4 DEF Prepare, SessionInv, Bearings
    <2> QED BY <1>5, <2>2, <2>3, <2>4, <2>5, <2>6, QuietStep
            DEF Quiet, SameRequest, Prepare, accountVars, Alive
<1> QED BY <1>2, <1>3, <1>4, <1>5

(* on_failed() of a transfer's task. *)
LEMMA FailedStep ==
    ASSUME SessionInv, Alive, loopq # <<>>, NEW close \in BOOLEAN, OnFailed(Tail(loopq), close),
           Head(loopq).kind \in {"prepared", "failed"},
           UNCHANGED <<link, registered, tasks, disk, stopping, accountVars>>
    PROVE  SessionInv'
<1>1. /\ session \in Sessions /\ session.generation \in Nat /\ WorkTyped'
      /\ tasks' \subseteq Tasks /\ stopping \in BOOLEAN
      /\ \A k \in Requests : Pending(k)' = Pending(k)
      /\ UNCHANGED <<link, registered, tasks, stopping, created, denied, threw>>
    BY DEF SessionInv, SessionTypeOK, StateTypeOK, WorkTyped, Sessions, Pending, accountVars
<1>2. QuietQueue
    <2>1. loopq' = Tail(loopq) \/ loopq' = Append(Tail(loopq), Close)
        BY DEF OnFailed, transfer_failed, force_close
    <2> QED BY <2>1, TransferFunctor
<1>3. CASE CurrentConnection = "current" /\ ~close
    <2>1. link = "up"
        BY <1>3 DEF CurrentConnection, Current
    <2>2. session' = [session EXCEPT !.generation = session.generation + 1]
        BY <1>3 DEF OnFailed, transfer_failed
    <2>3. session.generation + 1 \in Nat
        BY <1>1
    <2> QED BY <1>1, <1>2, <2>1, <2>2, <2>3, GenerationMoves
<1>4. CASE ~(CurrentConnection = "current" /\ ~close)
    <2>1. session' = session
        BY <1>4 DEF OnFailed
    <2> QED BY <1>1, <1>2, <2>1, Untouched DEF Stays, Alive
<1> QED BY <1>3, <1>4

(* The other steps of transfers. *)
LEMMA TransferStep ==
    ASSUME SessionInv, Alive,
           \/ RunPrepared \/ RunReady \/ Consume \/ RunDone \/ RunOpened \/ Acknowledge
           \/ RunFailed \/ RunStale \/ (\E ok \in BOOLEAN : SendEnds(ok)) \/ DiskStep
    PROVE  SessionInv'
<1> USE DEF Alive
<1>0. WorkTyped /\ stopping \in BOOLEAN /\ Close.kind = "close" /\ Other(Close)
    BY DEF SessionInv, SessionTypeOK, StateTypeOK, WorkTyped, Close, Other, Requests
<1>1. CASE RunPrepared
    <2>1. loopq # <<>> /\ Head(loopq).kind = "prepared"
        BY <1>1 DEF RunPrepared, Functor
    <2>2. CASE ~Head(loopq).ok /\ OnFailed(Tail(loopq), FALSE) /\ UNCHANGED disk
        BY ZenonT(30), <1>1, <2>1, <2>2, FailedStep DEF RunPrepared
    <2>3. CASE /\ disk' = disk \cup {[g |-> transfer.generation, op |-> "create"]}
               /\ loopq' = Tail(loopq) /\ UNCHANGED <<session, transfer, gauge>>
        <3>1. QuietQueue /\ WorkTyped' /\ Stays
            BY <1>0, <1>1, <2>1, <2>3, TransferFunctor DEF WorkTyped, Stays, RunPrepared
        <3> QED BY <1>0, <1>1, <2>3, <3>1, Untouched DEF RunPrepared, accountVars
    <2> QED BY ZenonT(30), <1>1, <2>2, <2>3 DEF RunPrepared
<1>2. CASE RunReady
    <2>1. QuietQueue
        BY <1>2, TransferFunctor DEF RunReady, Functor
    <2>2. WorkTyped' /\ Stays
        BY <1>0, <1>2 DEF RunReady, WorkTyped, Stays
    <2> QED BY <1>0, <1>2, <2>1, <2>2, Untouched DEF RunReady, accountVars
<1>3. CASE Consume
    <2>1. QuietQueue /\ Stays
        BY <1>3 DEF Consume, QuietQueue, Stays
    <2>2. WorkTyped'
        BY <1>0, <1>3 DEF Consume, WorkTyped
    <2> QED BY <1>0, <1>3, <2>1, <2>2, Untouched DEF Consume, accountVars
<1>4. CASE RunDone \/ RunOpened
    <2>1. QuietQueue
        BY <1>4, TransferFunctor DEF RunDone, RunOpened, Functor
    <2>2. WorkTyped' /\ Stays
        BY <1>0, <1>4 DEF RunDone, RunOpened, WorkTyped, Stays
    <2> QED BY <1>0, <1>4, <2>1, <2>2, Untouched DEF RunDone, RunOpened, accountVars
<1>5. CASE Acknowledge
    <2>1. QuietQueue /\ Stays /\ WorkTyped'
        BY <1>0, <1>5 DEF Acknowledge, QuietQueue, Stays, WorkTyped
    <2> QED BY <1>0, <1>5, <2>1, Untouched DEF Acknowledge, accountVars
<1>6. CASE RunFailed
    <2> DEFINE close == transfer.phase \in
                   {"receiving_upload", "sending_download", "waiting_download_ack"}
    <2>1. close \in BOOLEAN
        OBVIOUS
    <2>2. /\ loopq # <<>> /\ Head(loopq).kind = "failed" /\ OnFailed(Tail(loopq), close)
          /\ UNCHANGED <<link, registered, tasks, disk, stopping, accountVars>>
        BY <1>6 DEF RunFailed
    <2> HIDE DEF close
    <2> QED BY <2>1, <2>2, FailedStep
<1>7. CASE RunStale
    <2>1. loopq' = Tail(loopq) \/ loopq' = Append(Tail(loopq), Close)
        BY <1>7 DEF RunStale, Ignored, force_close
    <2>2. QuietQueue
        BY <1>7, <2>1, TransferFunctor DEF RunStale
    <2>3. WorkTyped' /\ Stays
        BY <1>0, <1>7 DEF RunStale, Ignored, WorkTyped, Stays
    <2> QED BY ZenonT(30), <1>0, <1>7, <2>2, <2>3, Untouched DEF RunStale, Ignored, accountVars
<1>8. ASSUME NEW ok \in BOOLEAN, SendEnds(ok) PROVE SessionInv'
    <2>1. loopq' = loopq \/ loopq' = Append(loopq, Close)
        BY <1>8 DEF SendEnds, force_close
    <2>2. QuietQueue /\ WorkTyped' /\ Stays
        BY <1>0, <1>8, <2>1 DEF QuietQueue, SendEnds, WorkTyped, Stays
    <2> QED BY <1>0, <1>8, <2>2, Untouched DEF SendEnds, accountVars
<1>9. ASSUME NEW d \in disk, DiskAnswers(d) PROVE SessionInv'
    <2>1. PICK ok \in BOOLEAN :
             loopq' = IF ok /\ d.op = "write" THEN loopq
                      ELSE Append(loopq, [kind |-> IF ok THEN d.op ELSE "failed", g |-> d.g])
        BY <1>9 DEF DiskAnswers
    <2>2. Other([kind |-> IF ok THEN d.op ELSE "failed", g |-> d.g])
        BY <1>0 DEF WorkTyped, Other, Requests
    <2>3. QuietQueue
        BY <2>1, <2>2 DEF QuietQueue
    <2>4. WorkTyped' /\ Stays
        BY <1>0, <1>9 DEF DiskAnswers, WorkTyped, Stays
    <2> QED BY <1>0, <1>9, <2>3, <2>4, Untouched DEF DiskAnswers, accountVars
<1> QED BY ZenonT(30), <1>1, <1>2, <1>3, <1>4, <1>5, <1>6, <1>7, <1>8, <1>9 DEF DiskStep

------------------------------------------------------------------------------
(* Steps of a request. *)

(* The session waits for one thing at a time. *)
LEMMA OneExpected ==
    ASSUME SessionInv, NEW k \in Requests, Expected(k)
    PROVE  \A j \in Requests \ {k} : ~Expected(j)
<1>1. session.cding => session.login = "authenticated"
    BY DEF SessionInv
<1>2. CASE k = "cd"
    BY ZenonT(30), <1>1, <1>2 DEF Expected, Requests
<1>3. CASE k # "cd"
    <2>1. session.login \in {"verifying", "registering"}
        BY ZenonT(30), <1>3 DEF Expected, Requests
    <2>2. ~session.cding
        BY <1>1, <2>1
    <2> QED BY ZenonT(30), <1>3, <2>2 DEF Expected, Requests
<1> QED BY <1>2, <1>3

(* A step of the request of kind k, while no other is expected. *)
LEMMA RequestStep ==
    ASSUME SessionInv, Alive, StateTypeOK', Bearings', \E S : loopq' \in Seq(S),
           NEW k \in Requests, Flight(k)',
           \A j \in Requests \ {k} :
               /\ ~Expected(j) /\ ~Expected(j)' /\ Pending(j)' = Pending(j)
               /\ SameAnswers(loopq, loopq', j),
           SignupAnswerTrue', \A n \in (created \cup denied)' : n <= session'.attempt
    PROVE  SessionInv'
<1>1. \A j \in Requests : Flight(j)'
    <2> SUFFICES ASSUME NEW j \in Requests, j # k PROVE Flight(j)'
        OBVIOUS
    <2>1. Nothing(j)
        BY DEF SessionInv, Flight, Alive
    <2>2. Nothing(j)'
        BY <2>1, NothingStays
    <2> QED BY <2>2 DEF Flight
<1> QED BY <1>1 DEF SessionInv, SessionTypeOK, Bearings

(* A queue has the same answers as itself. *)
LEMMA SameAnswersReflexive == \A q, k : SameAnswers(q, q, k)
    BY DEF SameAnswers

(* A task of the session that is queued or runs is the one asked for. *)
LEMMA TaskAsked ==
    ASSUME SessionInv, Alive, NEW k \in Requests, NEW t \in tasks, t.kind = k
    PROVE  /\ Expected(k) /\ Pending(k) = {t} /\ Asked(k, t) /\ In(loopq, k) = {}
           /\ \A j \in Requests \ {k} : ~Expected(j)
<1>1. t \in Pending(k) /\ Flight(k)
    BY DEF Pending, SessionInv, Alive
<1>2. Expected(k) /\ Sent(k)
    BY <1>1 DEF Flight, Nothing, Answered, Lost
<1>3. Pending(k) = {t} /\ Asked(k, t) /\ In(loopq, k) = {}
    BY <1>1, <1>2 DEF Sent, In, Queued
<1> QED BY <1>2, <1>3, OneExpected

(* An answer that reaches the loop is the one waited for. *)
LEMMA AnswerTold ==
    ASSUME SessionInv, Alive, NEW k \in Requests, loopq # <<>>, Head(loopq).kind = k
    PROVE  /\ Expected(k) /\ Pending(k) = {} /\ Told(k, Head(loopq)) /\ In(Tail(loopq), k) = {}
           /\ link = "up" /\ registered /\ \E S : Tail(loopq) \in Seq(S)
           /\ \A j \in Requests \ {k} : ~Expected(j) /\ SameAnswers(loopq, Tail(loopq), j)
<1>1. PICK S : loopq \in Seq(S)
    BY DEF SessionInv, SessionTypeOK
<1>2. 1 \in Queued(k) /\ Flight(k)
    <2>1. 1 \in DOMAIN loopq /\ loopq[1] = Head(loopq)
        BY <1>1
    <2> QED BY <2>1 DEF Queued, SessionInv, Alive
<1>3. Expected(k) /\ Answered(k)
    BY <1>2 DEF Flight, Nothing, Sent, Lost
<1>4. PICK i \in DOMAIN loopq : In(loopq, k) = {i} /\ Told(k, loopq[i])
    BY <1>3 DEF Answered, In, Queued
<1>5. Told(k, Head(loopq)) /\ In(Tail(loopq), k) = {}
    <2>1. PICK q \in Seq(S) : q = loopq
        BY <1>1
    <2>2. q # <<>> /\ Head(q).kind = k /\ In(q, k) = {i}
        BY <1>4, <2>1
    <2>3. i = 1 /\ q[i] = Head(q) /\ In(Tail(q), k) = {}
        BY <2>2, TailAnswer
    <2> QED BY <1>4, <2>1, <2>3
<1>6. link = "up" /\ registered
    BY <1>3 DEF SessionInv, SessionTypeOK, StateTypeOK, Alive
<1>7. Tail(loopq) \in Seq(S)
    BY <1>1
<1>8. \A j \in Requests \ {k} : ~Expected(j) /\ SameAnswers(loopq, Tail(loopq), j)
    BY ZenonT(30), <1>1, <1>3, OneExpected, TailOther
<1> QED BY <1>3, <1>5, <1>6, <1>7, <1>8 DEF Answered

(* The worker ends a task with an answer. *)
LEMMA AnswerSent ==
    ASSUME SessionInv, Alive, NEW k \in Requests, NEW t \in tasks, t.kind = k,
           tasks' = tasks \ {t}, NEW f, f.kind = k, loopq' = Append(loopq, f), Told(k, f)',
           Expected(k)'
    PROVE  /\ Flight(k)' /\ \E S : loopq' \in Seq(S)
           /\ \A j \in Requests \ {k} : /\ ~Expected(j) /\ Pending(j)' = Pending(j)
                                        /\ SameAnswers(loopq, loopq', j)
<1>1. PICK S : loopq \in Seq(S)
    BY ZenonT(30) DEF SessionInv, SessionTypeOK
<1>2. /\ Pending(k) = {t} /\ In(loopq, k) = {}
      /\ \A j \in Requests \ {k} : ~Expected(j)
    BY ZenonT(30), TaskAsked
<1>3. Pending(k)' = {} /\ \A j \in Requests \ {k} : Pending(j)' = Pending(j)
    BY <1>2 DEF Pending
<1>4. PICK i \in DOMAIN loopq' : In(loopq', k) = {i} /\ loopq'[i] = f
    <2>1. \E i \in DOMAIN Append(loopq, f) :
             In(Append(loopq, f), k) = {i} /\ Append(loopq, f)[i] = f
        BY ZenonT(30), <1>1, <1>2, AppendAnswer, Zenon
    <2> QED BY ONLY loopq' = Append(loopq, f), <2>1, Zenon
<1>5. Answered(k)'
    BY <1>3, <1>4 DEF Answered, In, Queued
<1>6. \A j \in Requests \ {k} : SameAnswers(loopq, loopq', j)
    BY ZenonT(30), <1>1, AppendOther
<1>7. loopq' \in Seq(S \cup {f})
    BY <1>1
<1> QED BY ZenonT(30), <1>2, <1>3, <1>5, <1>6, <1>7 DEF Flight

MovedOn(r, l, a) == [r EXCEPT !.login = l, !.attempt = a]

(* Submitting moves the session on and counts the attempt. *)
LEMMA SubmittedSession ==
    ASSUME NEW r \in Sessions, NEW l \in Logins, NEW a \in Nat
    PROVE  /\ MovedOn(r, l, a) \in Sessions /\ MovedOn(r, l, a).login = l
           /\ MovedOn(r, l, a).attempt = a /\ MovedOn(r, l, a).cding = r.cding
    BY ZenonT(30) DEF Sessions, MovedOn

(* A line that submits a request: the pool takes it, *)
LEMMA Submits ==
    ASSUME SessionInv, Alive, StateTypeOK', Bearings', NEW k \in Requests, NEW t, t.kind = k,
           tasks' = tasks \cup {t}, loopq' = loopq, Expected(k)', Asked(k, t)',
           \A j \in Requests : ~Expected(j), \A j \in Requests \ {k} : ~Expected(j)',
           SignupAnswerTrue', \A n \in (created \cup denied)' : n <= session'.attempt
    PROVE  SessionInv'
<1>1. Pending(k) = {} /\ Queued(k) = {}
    BY DEF SessionInv, Alive, Flight, Nothing
<1>2. Pending(k)' = {t} /\ t \in tasks' /\ \A j \in Requests \ {k} : Pending(j)' = Pending(j)
    BY <1>1 DEF Pending
<1>3. Queued(k)' = {}
    BY <1>1 DEF Queued
<1>4. Flight(k)'
    BY <1>2, <1>3 DEF Flight, Sent
<1>5. (\E S : loopq' \in Seq(S)) /\ \A j : SameAnswers(loopq, loopq', j)
    BY SameAnswersReflexive DEF SessionInv, SessionTypeOK
<1> QED BY <1>2, <1>4, <1>5, RequestStep

(* or refuses it. *)
LEMMA Refused ==
    ASSUME SessionInv, Alive, StateTypeOK', Bearings', tasks' = tasks, loopq' = loopq,
           \A j \in Requests : ~Expected(j) /\ ~Expected(j)',
           SignupAnswerTrue', \A n \in (created \cup denied)' : n <= session'.attempt
    PROVE  SessionInv'
<1>1. \A j \in Requests : Pending(j)' = Pending(j)
    BY DEF Pending
<1>2. (\E S : loopq' \in Seq(S)) /\ \A j : SameAnswers(loopq, loopq', j)
    BY SameAnswersReflexive DEF SessionInv, SessionTypeOK
<1>3. Nothing("cd") /\ "cd" \in Requests
    BY DEF SessionInv, Alive, Flight, Requests
<1>4. Flight("cd")'
    BY ZenonT(30), <1>1, <1>2, <1>3, NothingStays DEF Flight
<1> QED BY <1>1, <1>2, <1>3, <1>4, RequestStep

(* The password of a login, ... *)
LEMMA EnterPasswordStep ==
    ASSUME SessionInv, Alive, EnterPassword
    PROVE  SessionInv'
<1>1. /\ session \in Sessions /\ tasks \subseteq Tasks /\ session.attempt \in Nat
      /\ session.login = "await_password" /\ link = "up" /\ registered /\ ~session.cding
    BY DEF SessionInv, SessionTypeOK, StateTypeOK, Sessions, EnterPassword, TextLine, Lines, Reads
<1>2. /\ UNCHANGED <<link, registered, disk, loopq, stopping, created, denied, threw>>
    BY DEF EnterPassword, accountVars
<1> DEFINE s == MovedOn(session, "verifying", session.attempt + 1)
<1>3. /\ s \in Sessions /\ s.login = "verifying" /\ s.attempt = session.attempt + 1
      /\ s.cding = FALSE /\ s = Submitted("verifying")
    <2>1. "verifying" \in Logins /\ session.attempt + 1 \in Nat
        BY <1>1 DEF Logins
    <2>2. /\ s \in Sessions /\ s.login = "verifying" /\ s.attempt = session.attempt + 1
          /\ s.cding = session.cding
        BY <1>1, <2>1, SubmittedSession
    <2>3. session.cding = FALSE
        BY <1>1 DEF Sessions
    <2>4. s = Submitted("verifying")
        BY DEF Submitted, MovedOn
    <2> QED BY <2>2, <2>3, <2>4
<1>4. \A j \in Requests : ~Expected(j)
    BY ZenonT(30), <1>1 DEF Expected, Requests
<1>5. SignupAnswerTrue'
    BY <1>2 DEF SessionInv, SignupAnswerTrue
<1> HIDE DEF s
<1>6. CASE tasks' = tasks \cup {AuthTask("auth", s)} /\ session' = s
    <2>1. PICK t \in Tasks : t = AuthTask("auth", s) /\ t.kind = "auth" /\ t.n = s.attempt
        <3>1. AuthTask("auth", s) \in Tasks
            BY <1>3 DEF AuthTask, Tasks, Sessions
        <3>2. AuthTask("auth", s).kind = "auth" /\ AuthTask("auth", s).n = s.attempt
            BY DEF AuthTask
        <3> QED BY <3>1, <3>2
    <2>2. StateTypeOK' /\ Bearings'
        <3>1. StateTypeOK'
            BY ZenonT(30), <1>1, <1>2, <1>3, <1>6, <2>1 DEF SessionInv, SessionTypeOK, StateTypeOK
        <3>2. Bearings'
            BY <1>1, <1>2, <1>3, <1>6 DEF Bearings
        <3> QED BY ZenonT(30), <3>1, <3>2
    <2>3. /\ "auth" \in Requests /\ Expected("auth")' /\ Asked("auth", t)'
          /\ \A j \in Requests \ {"auth"} : ~Expected(j)'
        BY ZenonT(30), <1>3, <1>6, <2>1 DEF Expected, Asked, Requests
    <2>4. \A n \in (created \cup denied)' : n <= session'.attempt
        BY <1>1, <1>2, <1>3, <1>6 DEF SessionInv, SessionTypeOK, StateTypeOK
    <2> QED BY ZenonT(30), <1>2, <1>4, <1>5, <1>6, <2>1, <2>2, <2>3, <2>4, Submits
<1>7. CASE /\ UNCHANGED tasks
           /\ session' = finish_authentication(s, [n |-> s.attempt, result |-> "unavailable"])
    <2>1. session' = NotAuthenticated(s)
        BY <1>1, <1>3, <1>7 DEF finish_authentication
    <2>2. /\ session' \in Sessions /\ session'.login = "await_username"
          /\ session'.attempt = session.attempt + 1 /\ session'.cding = FALSE
        BY ZenonT(30), <1>1, <1>3, <2>1 DEF NotAuthenticated, Sessions, Logins, Names, Places
    <2>3. StateTypeOK' /\ Bearings'
        <3>1. StateTypeOK'
            BY <1>1, <1>2, <1>7, <2>2 DEF SessionInv, SessionTypeOK, StateTypeOK
        <3>2. Bearings'
            BY <1>1, <1>2, <2>2 DEF Bearings
        <3> QED BY <3>1, <3>2
    <2>4. \A j \in Requests : ~Expected(j)'
        BY ZenonT(30), <2>2 DEF Expected, Requests
    <2>5. \A n \in (created \cup denied)' : n <= session'.attempt
        BY <1>1, <1>2, <2>2 DEF SessionInv, SessionTypeOK, StateTypeOK
    <2> QED BY <1>2, <1>4, <1>5, <1>7, <2>3, <2>4, <2>5, Refused
<1> QED BY ZenonT(30), <1>3, <1>6, <1>7 DEF EnterPassword

(* ... the repeated password of a sign-up, *)
LEMMA ConfirmPasswordStep ==
    ASSUME SessionInv, Alive, ConfirmPassword
    PROVE  SessionInv'
<1>1. /\ session \in Sessions /\ tasks \subseteq Tasks /\ session.attempt \in Nat
      /\ session.login = "signup_confirm" /\ link = "up" /\ registered /\ ~session.cding
      /\ created \subseteq Nat /\ denied \subseteq Nat
    BY DEF SessionInv, SessionTypeOK, StateTypeOK, Sessions, ConfirmPassword, TextLine, Lines, Reads
<1>2. UNCHANGED <<link, registered, disk, loopq, stopping, created, threw>>
    BY ZenonT(30) DEF ConfirmPassword
<1> DEFINE s == MovedOn(session, "registering", session.attempt + 1)
<1>3. /\ s \in Sessions /\ s.login = "registering" /\ s.attempt = session.attempt + 1
      /\ s.cding = FALSE /\ s = Submitted("registering")
    <2>1. "registering" \in Logins /\ session.attempt + 1 \in Nat
        BY <1>1 DEF Logins
    <2>2. /\ s \in Sessions /\ s.login = "registering" /\ s.attempt = session.attempt + 1
          /\ s.cding = session.cding
        BY <1>1, <2>1, SubmittedSession
    <2>3. session.cding = FALSE
        BY <1>1 DEF Sessions
    <2>4. s = Submitted("registering")
        BY DEF Submitted, MovedOn
    <2> QED BY <2>2, <2>3, <2>4
<1>4. \A j \in Requests : ~Expected(j)
    BY ZenonT(30), <1>1 DEF Expected, Requests
<1>5. /\ created \cap denied = {} /\ s.attempt \notin created \cup denied
      /\ \A n \in created \cup denied : n <= s.attempt
    BY <1>1, <1>3 DEF SessionInv, SignupAnswerTrue
<1> HIDE DEF s
<1>6. CASE tasks' = tasks \cup {AuthTask("signup", s)} /\ session' = s /\ UNCHANGED denied
    <2>1. PICK t \in Tasks : t = AuthTask("signup", s) /\ t.kind = "signup" /\ t.n = s.attempt
        <3>1. AuthTask("signup", s) \in Tasks
            BY <1>3 DEF AuthTask, Tasks, Sessions
        <3>2. AuthTask("signup", s).kind = "signup" /\ AuthTask("signup", s).n = s.attempt
            BY DEF AuthTask
        <3> QED BY ZenonT(30), <3>1, <3>2
    <2>2. StateTypeOK' /\ Bearings'
        <3>1. StateTypeOK'
            BY ZenonT(30), <1>1, <1>2, <1>3, <1>6, <2>1 DEF SessionInv, SessionTypeOK, StateTypeOK
        <3>2. Bearings'
            BY <1>1, <1>2, <1>3, <1>6 DEF Bearings
        <3> QED BY <3>1, <3>2
    <2>3. /\ "signup" \in Requests /\ Expected("signup")'
          /\ Asked("signup", t)'
          /\ \A j \in Requests \ {"signup"} : ~Expected(j)'
        BY ZenonT(30), <1>2, <1>3, <1>5, <1>6, <2>1 DEF Expected, Asked, Requests
    <2>4. SignupAnswerTrue' /\ \A n \in (created \cup denied)' : n <= session'.attempt
        BY <1>2, <1>5, <1>6 DEF SignupAnswerTrue
    <2> QED BY ZenonT(30), <1>2, <1>4, <1>6, <2>1, <2>2, <2>3, <2>4, Submits
<1> DEFINE f == [n |-> s.attempt, result |-> "unavailable"]
<1>7. CASE UNCHANGED tasks /\ session' = finish_signup(s, f) /\ Answer(s, f)
    <2>1. session' = [s EXCEPT !.name = NoName, !.dir = Root, !.cding = FALSE,
                               !.pending = NoName, !.login = "await_choice"]
        BY <1>1, <1>3, <1>7 DEF finish_signup, SignupAfter, Sessions
    <2>2. /\ session' \in Sessions /\ session'.login = "await_choice"
          /\ session'.attempt = s.attempt /\ session'.cding = FALSE
        BY ZenonT(30), <1>1, <1>3, <2>1 DEF Sessions, Logins, Names, Places
    <2>3. denied' \subseteq denied \cup {s.attempt}
        BY ZenonT(30), <1>7 DEF Answer
    <2>4. StateTypeOK' /\ Bearings'
        <3>1. StateTypeOK'
            <4>1. s.attempt \in Nat
                BY <1>1, <1>3
            <4> QED BY ZenonT(30), <1>1, <1>2, <1>7, <2>2, <2>3, <4>1 DEF SessionInv, SessionTypeOK, StateTypeOK
        <3>2. Bearings'
            BY <1>1, <1>2, <2>2 DEF Bearings
        <3> QED BY <3>1, <3>2
    <2>5. \A j \in Requests : ~Expected(j)'
        BY ZenonT(30), <2>2 DEF Expected, Requests
    <2>6. SignupAnswerTrue'
        BY ZenonT(30), <1>2, <1>5, <2>3 DEF SignupAnswerTrue
    <2>7. \A n \in (created \cup denied)' : n <= session'.attempt
        BY <1>1, <1>2, <1>3, <1>5, <2>2, <2>3
    <2> QED BY ZenonT(30), <1>2, <1>4, <1>7, <2>4, <2>5, <2>6, <2>7, Refused
<1> QED BY <1>3, <1>6, <1>7 DEF ConfirmPassword

(* ... and the directory to change to. *)
LEMMA ChangeDirStep ==
    ASSUME SessionInv, Alive, NEW d \in Places, handle_cd(d)
    PROVE  SessionInv'
<1>1. /\ session \in Sessions /\ tasks \subseteq Tasks /\ session.dir \in Places
      /\ session.login = "authenticated" /\ link = "up" /\ registered /\ ~session.cding
    BY DEF SessionInv, SessionTypeOK, StateTypeOK, Sessions, handle_cd, Command, TextLine, Lines,
           Reads
<1>2. UNCHANGED <<link, registered, disk, loopq, stopping, created, denied, threw>>
    BY DEF handle_cd, accountVars
<1>3. \A j \in Requests : ~Expected(j)
    BY ZenonT(30), <1>1 DEF Expected, Requests
<1> DEFINE task == [kind |-> "cd", from |-> session.dir, to |-> d, running |-> FALSE]
<1>4. CASE session' = [session EXCEPT !.cding = TRUE] /\ tasks' = tasks \cup {task}
    <2>1. PICK t \in Tasks : t = task /\ t.kind = "cd" /\ t.from = session.dir
        <3>1. task \in Tasks
            BY <1>1 DEF Tasks
        <3>2. task.kind = "cd" /\ task.from = session.dir
            OBVIOUS
        <3> HIDE DEF task
        <3> QED BY ZenonT(30), <3>1, <3>2
    <2>2. /\ session' \in Sessions /\ session'.login = "authenticated" /\ session'.cding = TRUE
          /\ session'.dir = session.dir /\ session'.attempt = session.attempt
        BY ZenonT(30), <1>1, <1>4 DEF Sessions
    <2> HIDE DEF task
    <2>3. StateTypeOK' /\ Bearings'
        <3>1. StateTypeOK'
            BY ZenonT(30), <1>1, <1>2, <1>4, <2>1, <2>2 DEF SessionInv, SessionTypeOK, StateTypeOK
        <3>2. Bearings'
            BY <1>1, <1>2, <2>2 DEF Bearings
        <3> QED BY <3>1, <3>2
    <2>4. /\ "cd" \in Requests /\ Expected("cd")' /\ Asked("cd", t)'
          /\ \A j \in Requests \ {"cd"} : ~Expected(j)'
        BY ZenonT(30), <2>1, <2>2 DEF Expected, Asked, Requests
    <2>5. SignupAnswerTrue' /\ \A n \in (created \cup denied)' : n <= session'.attempt
        BY <1>2, <2>2 DEF SignupAnswerTrue, SessionInv
    <2> QED BY ZenonT(30), <1>2, <1>3, <1>4, <2>1, <2>3, <2>4, <2>5, Submits
<1>5. CASE UNCHANGED <<session, tasks>>
    <2>1. Stays /\ QuietQueue /\ WorkTyped' /\ stopping \in BOOLEAN
        BY <1>2 DEF Stays, QuietQueue, WorkTyped, SessionInv, SessionTypeOK, StateTypeOK
    <2> QED BY ZenonT(30), <1>2, <1>5, <2>1, Untouched DEF Alive
<1> QED BY <1>4, <1>5 DEF handle_cd

(* What a task of each kind carries; starting it changes none of it. *)
LEMMA TaskFields ==
    ASSUME NEW t \in Tasks
    PROVE  LET u == [t EXCEPT !.running = TRUE]
           IN  /\ t.kind \in Requests \cup {"prepare"}
               /\ t.kind \in {"auth", "signup"} => t.n \in Nat /\ t.user \in Names
               /\ t.kind = "cd" => t.from \in Places /\ t.to \in Places
               /\ u \in Tasks /\ u.kind = t.kind
               /\ t.kind \in {"auth", "signup"} => u.n = t.n
               /\ t.kind = "cd" => u.from = t.from
<1>1. CASE t \in [kind : {"auth", "signup"}, n : Nat, user : Names, running : BOOLEAN]
    BY ZenonT(30), <1>1 DEF Tasks, Requests
<1>2. CASE t \in [kind : {"cd"}, from : Places, to : Places, running : BOOLEAN]
    BY ZenonT(30), <1>2 DEF Tasks, Requests
<1>3. CASE t \in [kind : {"prepare"}, g : Nat, running : BOOLEAN]
    BY ZenonT(30), <1>3 DEF Tasks, Requests
<1> QED BY <1>1, <1>2, <1>3 DEF Tasks

(* A worker takes a task; nothing but the task changes. *)
LEMMA TaskStartsStep ==
    ASSUME SessionInv, Alive, NEW t \in tasks, TaskStarts(t)
    PROVE  SessionInv'
<1> DEFINE u == [t EXCEPT !.running = TRUE]
<1>1. tasks \subseteq Tasks /\ t \in Tasks
    BY DEF SessionInv, SessionTypeOK, StateTypeOK
<1>2. /\ t.kind \in Requests \cup {"prepare"} /\ u \in Tasks /\ u.kind = t.kind
      /\ t.kind \in {"auth", "signup"} => u.n = t.n
      /\ t.kind = "cd" => u.from = t.from
    BY <1>1, TaskFields
<1>3. /\ tasks' = (tasks \ {t}) \cup {u}
      /\ UNCHANGED <<link, registered, session, disk, loopq, stopping, created, denied, threw>>
    BY DEF TaskStarts, accountVars
<1> HIDE DEF u
<1>4. StateTypeOK'
    BY <1>1, <1>2, <1>3 DEF SessionInv, SessionTypeOK, StateTypeOK
<1>5. \A k \in Requests : Expected(k)' <=> Expected(k)
    BY <1>3 DEF Expected, Requests
<1>6. Bearings'
    BY ZenonT(30), <1>3, <1>5 DEF Bearings, SessionInv
<1>7. CASE t.kind = "prepare"
    <2>1. \A k \in Requests : Pending(k)' = Pending(k)
        BY ZenonT(30), <1>2, <1>3, <1>7 DEF Pending, Requests
    <2>2. QuietQueue
        BY ZenonT(30), <1>3 DEF QuietQueue
    <2> QED BY ZenonT(30), <1>3, <1>4, <1>5, <1>6, <2>1, <2>2, QuietStep DEF Quiet, SameRequest, Alive
<1>8. CASE t.kind \in Requests
    <2> DEFINE k == t.kind
    <2>1. /\ Expected(k) /\ Pending(k) = {t} /\ Asked(k, t) /\ In(loopq, k) = {}
          /\ \A j \in Requests \ {k} : ~Expected(j)
        BY ZenonT(30), <1>8, TaskAsked
    <2>2. Pending(k)' = {u} /\ \A j \in Requests \ {k} : Pending(j)' = Pending(j)
        BY <1>2, <1>3, <2>1 DEF Pending
    <2>3. Asked(k, u)'
        BY ZenonT(30), <1>2, <1>3, <1>8, <2>1 DEF Asked, Requests, u
    <2>4. Flight(k)'
        <3>1. Queued(k)' = {}
            BY <1>3, <2>1 DEF In, Queued
        <3>2. Expected(k)' /\ u \in tasks'
            BY ZenonT(30), <1>3, <1>5, <1>8, <2>1
        <3> QED BY ZenonT(30), <2>2, <2>3, <3>1, <3>2 DEF Flight, Sent
    <2>5. (\E S : loopq' \in Seq(S)) /\ \A j : SameAnswers(loopq, loopq', j)
        BY <1>3, SameAnswersReflexive DEF SessionInv, SessionTypeOK
    <2>6. SignupAnswerTrue' /\ \A n \in (created \cup denied)' : n <= session'.attempt
        BY <1>3 DEF SignupAnswerTrue, SessionInv
    <2> HIDE DEF k
    <2>7. k \in Requests
        BY <1>8 DEF k
    <2> QED BY ZenonT(30), <1>4, <1>5, <1>6, <2>1, <2>2, <2>4, <2>5, <2>6, <2>7, RequestStep
<1> QED BY <1>2, <1>7, <1>8

(* The pool drops a task when the server stops. *)
LEMMA PoolDropsStep ==
    ASSUME SessionInv, Alive, NEW t \in tasks, PoolDrops(t)
    PROVE  SessionInv'
<1>1. tasks \subseteq Tasks /\ t.kind \in Requests \cup {"prepare"}
    BY ZenonT(30), TaskFields DEF SessionInv, SessionTypeOK, StateTypeOK
<1>2. /\ tasks' = tasks \ {t} /\ stopping
      /\ UNCHANGED <<link, registered, session, disk, loopq, stopping, created, denied, threw>>
    BY DEF PoolDrops, accountVars
<1>3. StateTypeOK'
    BY <1>1, <1>2 DEF SessionInv, SessionTypeOK, StateTypeOK
<1>4. \A k \in Requests : Expected(k)' <=> Expected(k)
    BY <1>2 DEF Expected, Requests
<1>5. Bearings'
    BY <1>2, <1>4 DEF Bearings, SessionInv
<1>6. CASE t.kind = "prepare"
    <2>1. \A k \in Requests : Pending(k)' = Pending(k)
        BY <1>2, <1>6 DEF Pending, Requests
    <2>2. QuietQueue
        BY ZenonT(30), <1>2 DEF QuietQueue
    <2> QED BY ZenonT(30), <1>2, <1>3, <1>4, <1>5, <2>1, <2>2, QuietStep DEF Quiet, SameRequest, Alive
<1>7. CASE t.kind \in Requests
    <2> DEFINE k == t.kind
    <2>1. /\ Expected(k) /\ Pending(k) = {t} /\ In(loopq, k) = {}
          /\ \A j \in Requests \ {k} : ~Expected(j)
        BY <1>7, TaskAsked
    <2>2. Pending(k)' = {} /\ \A j \in Requests \ {k} : Pending(j)' = Pending(j)
        BY <1>2, <2>1 DEF Pending
    <2>3. Flight(k)'
        <3>1. Queued(k)' = {}
            BY ZenonT(30), <1>2, <2>1 DEF In, Queued
        <3>2. Expected(k)' /\ stopping'
            BY ZenonT(30), <1>2, <1>4, <1>7, <2>1
        <3> QED BY ZenonT(30), <2>2, <3>1, <3>2 DEF Flight, Lost, Nothing
    <2>4. (\E S : loopq' \in Seq(S)) /\ \A j : SameAnswers(loopq, loopq', j)
        BY ZenonT(30), <1>2, SameAnswersReflexive DEF SessionInv, SessionTypeOK
    <2>5. SignupAnswerTrue' /\ \A n \in (created \cup denied)' : n <= session'.attempt
        BY ZenonT(30), <1>2 DEF SignupAnswerTrue, SessionInv
    <2> HIDE DEF k
    <2>6. k \in Requests
        BY <1>7 DEF k
    <2> QED BY ZenonT(30), <1>3, <1>4, <1>5, <2>1, <2>2, <2>3, <2>4, <2>5, <2>6, RequestStep
<1> QED BY <1>1, <1>6, <1>7

(* A task ends with an answer and changes nothing else but the accounts. *)
LEMMA TaskAnswers ==
    ASSUME SessionInv, Alive, NEW k \in Requests, NEW t \in tasks, t.kind = k,
           tasks' = tasks \ {t}, NEW f, f.kind = k, loopq' = Append(loopq, f), Told(k, f)',
           UNCHANGED <<link, registered, session, disk, stopping, threw>>,
           created' \subseteq Nat, denied' = denied,
           SignupAnswerTrue', \A n \in (created \cup denied)' : n <= session'.attempt
    PROVE  SessionInv'
<1>1. \A j \in Requests : Expected(j)' <=> Expected(j)
    BY ZenonT(30) DEF Expected, Requests
<1>2. Expected(k)'
    BY ZenonT(30), <1>1, TaskAsked
<1>3. StateTypeOK'
    BY ZenonT(30) DEF SessionInv, SessionTypeOK, StateTypeOK
<1>4. Bearings'
    BY ZenonT(30), <1>1 DEF Bearings, SessionInv
<1>5. /\ Flight(k)' /\ \E S : loopq' \in Seq(S)
      /\ \A j \in Requests \ {k} : /\ ~Expected(j) /\ Pending(j)' = Pending(j)
                                   /\ SameAnswers(loopq, loopq', j)
    BY ZenonT(30), <1>2, AnswerSent
<1> QED BY ZenonT(30), <1>1, <1>3, <1>4, <1>5, RequestStep

(* The tasks of the session on the worker pool. *)
LEMMA WorkerSteps ==
    ASSUME SessionInv, Alive, NEW t \in tasks,
           AuthTimeout(t) \/ Authenticate(t) \/ Signup(t) \/ MoveDir(t)
    PROVE  SessionInv'
<1>1. /\ t.kind \in {"auth", "signup"} => t.n \in Nat /\ t.user \in Names
      /\ t.kind = "cd" => t.from \in Places /\ t.to \in Places
    BY ZenonT(30), TaskFields DEF SessionInv, SessionTypeOK, StateTypeOK
<1>2. \A k \in Requests : t.kind = k => Asked(k, t) /\ Pending(k) = {t} /\ Expected(k)
    BY TaskAsked
<1>3. /\ created \subseteq Nat /\ SignupAnswerTrue
      /\ \A n \in created \cup denied : n <= session.attempt
      /\ session.attempt \in Nat
    BY DEF SessionInv, SessionTypeOK, StateTypeOK, Sessions
<1>4. CASE AuthTimeout(t)
    <2>1. PICK f : f = [kind |-> t.kind, n |-> t.n, result |-> "unavailable"]
        BY ZenonT(30)
    <2>2. f.kind = t.kind /\ f.n = t.n /\ f.result = "unavailable"
        BY <2>1
    <2>3. /\ t.kind \in {"auth", "signup"} /\ tasks' = tasks \ {t} /\ loopq' = Append(loopq, f)
          /\ UNCHANGED <<link, registered, session, disk, stopping, threw, created, denied>>
        BY <1>4, <2>1 DEF AuthTimeout, accountVars
    <2>4. t.kind \in Requests /\ Told(t.kind, f)'
        BY ZenonT(30), <1>2, <2>2, <2>3 DEF Told, Asked, Requests
    <2>5. SignupAnswerTrue' /\ \A n \in (created \cup denied)' : n <= session'.attempt
        BY <1>3, <2>3 DEF SignupAnswerTrue
    <2> QED BY ZenonT(30), <1>3, <2>2, <2>3, <2>4, <2>5, TaskAnswers
<1>5. CASE Authenticate(t)
    <2>1. PICK r : loopq' = Append(loopq, [kind |-> "auth", n |-> t.n, result |-> r, user |-> t.user])
        BY ZenonT(30), <1>5 DEF Authenticate
    <2>2. PICK f : f = [kind |-> "auth", n |-> t.n, result |-> r, user |-> t.user]
        BY ZenonT(30)
    <2>3. f.kind = "auth" /\ f.n = t.n /\ f.user = t.user
        BY ZenonT(30), <2>2
    <2>4. /\ t.kind = "auth" /\ tasks' = tasks \ {t} /\ loopq' = Append(loopq, f)
          /\ UNCHANGED <<link, registered, session, disk, stopping, threw, created, denied>>
        BY <1>5, <2>1, <2>2 DEF Authenticate, accountVars
    <2>5. "auth" \in Requests /\ Told("auth", f)'
        BY ZenonT(30), <1>1, <1>2, <2>3, <2>4 DEF Told, Asked, Requests
    <2>6. SignupAnswerTrue' /\ \A n \in (created \cup denied)' : n <= session'.attempt
        BY ZenonT(30), <1>3, <2>4 DEF SignupAnswerTrue
    <2> QED BY ZenonT(30), <1>3, <2>3, <2>4, <2>5, <2>6, TaskAnswers
<1>6. CASE Signup(t)
    <2>1. PICK r \in SignupResults(t) :
             /\ loopq' = Append(loopq, [kind |-> "signup", n |-> t.n, result |-> r[1]])
             /\ created' = IF r[2] THEN created \cup {t.n} ELSE created
        BY <1>6 DEF Signup
    <2>2. PICK f : f = [kind |-> "signup", n |-> t.n, result |-> r[1]]
        BY ZenonT(30)
    <2>3. f.kind = "signup" /\ f.n = t.n /\ f.result = r[1]
        BY ZenonT(30), <2>2
    <2>4. /\ t.kind = "signup" /\ tasks' = tasks \ {t} /\ loopq' = Append(loopq, f)
          /\ UNCHANGED <<link, registered, session, disk, stopping, threw, denied>>
        BY <1>6, <2>1, <2>2 DEF Signup
    <2>5. t.n = session.attempt /\ t.n \notin created \cup denied /\ t.n \in Nat
        BY <1>1, <1>2, <2>4 DEF Asked, Requests
    <2>6. r[1] \in Denials => created' = created
        <3>1. \/ r = <<"taken", FALSE>> \/ r = <<"unavailable", FALSE>>
              \/ r = <<"created", TRUE>> \/ r = <<"unknown", TRUE>> \/ r = <<"unknown", FALSE>>
            BY ZenonT(30) DEF SignupResults
        <3>2. CASE r = <<"taken", FALSE>>
            <4>1. r[2] = FALSE
                BY ZenonT(30), <3>2
            <4> QED BY ZenonT(30), <2>1, <4>1
        <3>3. CASE r = <<"unavailable", FALSE>>
            <4>1. r[2] = FALSE
                BY ZenonT(30), <3>3
            <4> QED BY ZenonT(30), <2>1, <4>1
        <3>4. CASE r = <<"unknown", FALSE>>
            <4>1. r[2] = FALSE
                BY <3>4
            <4> QED BY ZenonT(30), <2>1, <4>1
        <3>5. CASE r = <<"created", TRUE>>
            <4>1. r[1] = "created"
                BY <3>5
            <4> QED BY ZenonT(30), <4>1 DEF Denials
        <3>6. CASE r = <<"unknown", TRUE>>
            <4>1. r[1] = "unknown"
                BY ZenonT(30), <3>6
            <4> QED BY ZenonT(30), <4>1 DEF Denials
        <3> QED BY ZenonT(30), <3>1, <3>2, <3>3, <3>4, <3>5, <3>6
    <2>7. created' \subseteq created \cup {t.n}
        BY <2>1
    <2>8. "signup" \in Requests /\ Told("signup", f)'
        BY ZenonT(30), <2>3, <2>4, <2>5, <2>6 DEF Told, Requests
    <2>9. SignupAnswerTrue' /\ created' \subseteq Nat
        BY ZenonT(30), <1>3, <2>4, <2>5, <2>7 DEF SignupAnswerTrue
    <2>10. \A n \in (created \cup denied)' : n <= session'.attempt
        BY <1>3, <2>4, <2>5, <2>7
    <2> QED BY ZenonT(30), <2>3, <2>4, <2>8, <2>9, <2>10, TaskAnswers
<1>7. CASE MoveDir(t)
    <2>1. /\ t.kind = "cd" /\ "cd" \in Requests /\ tasks' = tasks \ {t}
          /\ UNCHANGED <<link, registered, session, disk, stopping, created, denied>>
        BY <1>7 DEF MoveDir, Requests
    <2>2. SignupAnswerTrue' /\ \A n \in (created \cup denied)' : n <= session'.attempt
        BY ZenonT(30), <1>3, <2>1 DEF SignupAnswerTrue
    <2>3. CASE UNCHANGED threw /\ \E ok \in BOOLEAN :
             loopq' = Append(loopq, [kind |-> "cd", ok |-> ok, from |-> t.from, to |-> t.to])
        <3>1. PICK f : /\ loopq' = Append(loopq, f)
                       /\ f.kind = "cd" /\ f.from = t.from /\ f.to = t.to
            BY <2>3
        <3>2. Told("cd", f)'
            BY ZenonT(30), <1>1, <1>2, <2>1, <3>1 DEF Told, Asked
        <3> QED BY ZenonT(30), <1>3, <2>1, <2>2, <2>3, <3>1, <3>2, TaskAnswers
    <2>4. CASE threw' = TRUE /\ UNCHANGED loopq
        <3>1. \A j \in Requests : Expected(j)' <=> Expected(j)
            BY <2>1 DEF Expected, Requests
        <3>2. StateTypeOK' /\ Bearings'
            <4>1. StateTypeOK'
                BY ZenonT(30), <2>1, <2>4 DEF SessionInv, SessionTypeOK, StateTypeOK
            <4>2. Bearings'
                BY ZenonT(30), <2>1, <3>1 DEF Bearings, SessionInv
            <4> QED BY ZenonT(30), <4>1, <4>2
        <3>3. /\ Expected("cd") /\ Pending("cd") = {t} /\ In(loopq, "cd") = {}
              /\ \A j \in Requests \ {"cd"} : ~Expected(j)
            BY ZenonT(30), <2>1, TaskAsked
        <3>4. /\ Pending("cd")' = {}
              /\ \A j \in Requests \ {"cd"} : Pending(j)' = Pending(j)
            BY ZenonT(30), <2>1, <3>3 DEF Pending
        <3>5. Queued("cd")' = {}
            BY ZenonT(30), <2>4, <3>3 DEF In, Queued
        <3>6. Expected("cd")'
            BY ZenonT(30), <2>1, <3>1, <3>3
        <3>7. Flight("cd")'
            BY ZenonT(30), <2>4, <3>4, <3>5, <3>6 DEF Flight, Lost, Nothing
        <3>8. (\E S : loopq' \in Seq(S)) /\ \A j : SameAnswers(loopq, loopq', j)
            BY ZenonT(30), <2>4, SameAnswersReflexive DEF SessionInv, SessionTypeOK
        <3> QED BY ZenonT(30), <2>1, <2>2, <3>1, <3>2, <3>3, <3>4, <3>7, <3>8, RequestStep
    <2> QED BY ZenonT(30), <1>7, <2>3, <2>4 DEF MoveDir
<1> QED BY ZenonT(30), <1>4, <1>5, <1>6, <1>7

(* An answer is applied: the session no longer waits. *)
LEMMA AnswerApplied ==
    ASSUME SessionInv, Alive, NEW k \in Requests, loopq # <<>>, Head(loopq).kind = k,
           loopq' = Tail(loopq), tasks' = tasks, session' \in Sessions,
           UNCHANGED <<link, registered, disk, stopping, threw, created>>,
           \A j \in Requests : ~Expected(j)', session'.attempt = session.attempt,
           denied' \subseteq denied \cup {session.attempt}, created \cap denied' = {}
    PROVE  SessionInv'
<1>1. /\ Expected(k) /\ Pending(k) = {} /\ Told(k, Head(loopq)) /\ In(Tail(loopq), k) = {}
      /\ link = "up" /\ registered /\ \E S : Tail(loopq) \in Seq(S)
      /\ \A j \in Requests \ {k} : ~Expected(j) /\ SameAnswers(loopq, Tail(loopq), j)
    BY ZenonT(30), AnswerTold
<1>2. /\ session \in Sessions /\ session.attempt \in Nat
      /\ \A n \in created \cup denied : n <= session.attempt
    BY DEF SessionInv, SessionTypeOK, StateTypeOK, Sessions
<1>3. StateTypeOK'
    BY ZenonT(30), <1>2 DEF SessionInv, SessionTypeOK, StateTypeOK
<1>4. Bearings'
    <2>1. "cd" \in Requests /\ ~Expected("cd")'
        BY DEF Requests
    <2>2. ~session'.cding
        BY ZenonT(30), <2>1 DEF Expected
    <2> QED BY ZenonT(30), <1>1, <2>2 DEF Bearings
<1>5. Pending(k)' = {} /\ Queued(k)' = {} /\ \A j \in Requests : Pending(j)' = Pending(j)
    BY ZenonT(30), <1>1 DEF Pending, In, Queued
<1>6. Flight(k)'
    BY <1>5 DEF Flight, Nothing
<1>7. SignupAnswerTrue' /\ \A n \in (created \cup denied)' : n <= session'.attempt
    BY <1>2 DEF SignupAnswerTrue
<1>8. \E S : loopq' \in Seq(S)
    BY ZenonT(30), <1>1
<1>9. \A j \in Requests \ {k} : SameAnswers(loopq, loopq', j)
    BY <1>1
<1> QED BY ZenonT(30), <1>1, <1>3, <1>4, <1>5, <1>6, <1>7, <1>8, <1>9, RequestStep

(* The functors that bring answers. *)
LEMMA AnswerSteps ==
    ASSUME SessionInv, Alive, RunAuthenticated \/ RunSignup \/ RunCd
    PROVE  SessionInv'
<1>1. /\ session \in Sessions /\ created \cap denied = {}
      /\ session.cding => session.login = "authenticated"
    BY DEF SessionInv, SessionTypeOK, StateTypeOK, SignupAnswerTrue
<1> DEFINE f == Head(loopq)
<1>2. CASE RunAuthenticated
    <2>1. /\ loopq # <<>> /\ f.kind = "auth" /\ loopq' = Tail(loopq) /\ "auth" \in Requests
          /\ session' = finish_authentication(session, f)
          /\ UNCHANGED <<link, registered, tasks, disk, stopping, threw, created, denied>>
        BY <1>2 DEF RunAuthenticated, accountVars, Requests
    <2>2. Expected("auth") /\ Told("auth", f) /\ link = "up" /\ registered
        BY <2>1, AnswerTold
    <2>3. /\ session.login = "verifying" /\ f.n = session.attempt
          /\ f.result = "ok" => f.user \in Names
        BY ZenonT(30), <2>2 DEF Expected, Told
    <2> HIDE DEF f
    <2>4. session' = IF f.result = "ok" THEN Authenticated(session, f.user)
                                        ELSE NotAuthenticated(session)
        BY <2>1, <2>2, <2>3 DEF finish_authentication
    <2>5. ~session.cding
        BY <1>1, <2>3
    <2>6. /\ session' \in Sessions /\ session'.attempt = session.attempt
          /\ session'.login \in {"authenticated", "await_username"}
        BY ZenonT(30), <1>1, <2>3, <2>4 DEF Authenticated, NotAuthenticated, Sessions, Logins, Names, Places
    <2>7. ~session'.cding
        BY <1>1, <2>4, <2>5 DEF Authenticated, NotAuthenticated, Sessions
    <2>8. \A j \in Requests : ~Expected(j)'
        BY ZenonT(30), <2>6, <2>7 DEF Expected, Requests
    <2> QED BY ZenonT(30), <1>1, <2>1, <2>6, <2>8, AnswerApplied DEF f
<1>3. CASE RunSignup
    <2>1. /\ loopq # <<>> /\ f.kind = "signup" /\ loopq' = Tail(loopq) /\ "signup" \in Requests
          /\ session' = finish_signup(session, f) /\ Answer(session, f)
          /\ UNCHANGED <<link, registered, tasks, disk, stopping, threw, created>>
        BY <1>3 DEF RunSignup, Requests
    <2>2. Expected("signup") /\ Told("signup", f) /\ link = "up" /\ registered
        BY <2>1, AnswerTold
    <2>3. /\ session.login = "registering" /\ f.n = session.attempt
          /\ f.result \in Denials => f.n \notin created
        BY ZenonT(30), <2>2 DEF Expected, Told
    <2> HIDE DEF f
    <2>4. session' = SignupAfter(session, f.result)
        BY <2>1, <2>2, <2>3 DEF finish_signup
    <2>5. /\ session' \in Sessions /\ session'.attempt = session.attempt
          /\ session'.login \in {"signup_password", "signup_username", "await_choice"}
        BY ZenonT(30), <1>1, <2>4 DEF SignupAfter, Sessions, Logins, Names, Places
    <2>6. ~session'.cding
        BY <1>1, <2>4 DEF SignupAfter, Sessions
    <2>7. \A j \in Requests : ~Expected(j)'
        BY ZenonT(30), <2>5, <2>6 DEF Expected, Requests
    <2>8. \/ denied' = denied
          \/ denied' = denied \cup {session.attempt} /\ session.attempt \notin created
        BY <2>1, <2>3 DEF Answer
    <2>9. denied' \subseteq denied \cup {session.attempt} /\ created \cap denied' = {}
        BY ZenonT(30), <1>1, <2>8
    <2> QED BY ZenonT(30), <2>1, <2>5, <2>7, <2>9, AnswerApplied DEF f
<1>4. CASE RunCd
    <2>1. /\ loopq # <<>> /\ f.kind = "cd" /\ loopq' = Tail(loopq) /\ "cd" \in Requests
          /\ UNCHANGED <<link, registered, tasks, disk, stopping, threw, created, denied>>
        BY ZenonT(30), <1>4 DEF RunCd, accountVars, Requests
    <2>2. Expected("cd") /\ Told("cd", f) /\ link = "up" /\ registered
        BY <2>1, AnswerTold
    <2>3. session.cding /\ f.to \in Places
        BY <2>2 DEF Expected, Told
    <2>4. session.login = "authenticated"
        BY <1>1, <2>3
    <2>5. \/ session' = [session EXCEPT !.cding = FALSE, !.dir = f.to]
          \/ session' = [session EXCEPT !.cding = FALSE, !.dir = session.dir]
        BY ZenonT(30), <1>4, <2>2 DEF RunCd
    <2> HIDE DEF f
    <2>6. /\ session' \in Sessions /\ session'.attempt = session.attempt
          /\ session'.login = "authenticated"
        BY ZenonT(30), <1>1, <2>3, <2>4, <2>5 DEF Sessions
    <2>7. ~session'.cding
        BY ZenonT(30), <1>1, <2>5 DEF Sessions
    <2>8. \A j \in Requests : ~Expected(j)'
        BY ZenonT(30), <2>6, <2>7 DEF Expected, Requests
    <2> QED BY ZenonT(30), <1>1, <2>1, <2>6, <2>8, AnswerApplied DEF f
<1> QED BY ZenonT(30), <1>2, <1>3, <1>4

------------------------------------------------------------------------------
(* Every step keeps the invariant. *)
LEMMA SessionStep == SessionInv /\ [SessionNext]_sessionVars => SessionInv'
<1> SUFFICES ASSUME SessionInv, [SessionNext]_sessionVars PROVE SessionInv'
    OBVIOUS
<1>1. CASE UNCHANGED sessionVars
    <2>1. Stays /\ QuietQueue /\ WorkTyped' /\ stopping \in BOOLEAN
        BY <1>1 DEF sessionVars, Stays, QuietQueue, WorkTyped, SessionInv, SessionTypeOK,
                    StateTypeOK
    <2>2. UNCHANGED <<link, registered, session, tasks, disk, loopq, stopping, created, denied, threw>>
        BY <1>1 DEF sessionVars
    <2>3. CASE link # "down"
        BY ZenonT(30), <2>1, <2>2, <2>3, Untouched
    <2>4. CASE link = "down"
        BY ZenonT(30), <2>2, <2>4 DEF SessionInv, SessionTypeOK, StateTypeOK, SignupAnswerTrue
    <2> QED BY ZenonT(30), <2>3, <2>4
<1>2. ASSUME SessionNext PROVE SessionInv'
    <2>1. Alive
        BY ZenonT(30), <1>2 DEF SessionNext, SessionRuns
    <2>2. CASE ClientStep
        BY ZenonT(30), <2>1, <2>2, DialogueStep, EnterPasswordStep, ConfirmPasswordStep, ChangeDirStep,
           ConnectionStep, TransferBegins, TransferStep DEF ClientStep, Places
    <2>3. CASE LoopStep
        BY ZenonT(30), <2>1, <2>3, ConnectionStep, AnswerSteps, TransferStep DEF LoopStep
    <2>4. CASE WorkerStep
        BY ZenonT(30), <2>1, <2>4, TaskStartsStep, WorkerSteps, TransferBegins DEF WorkerStep
    <2>5. CASE \E t \in tasks : AuthTimeout(t) \/ PoolDrops(t)
        BY ZenonT(30), <2>1, <2>5, WorkerSteps, PoolDropsStep
    <2> QED BY ZenonT(30), <1>2, <2>1, <2>2, <2>3, <2>4, <2>5, ConnectionStep, TransferStep
        DEF SessionNext, SessionRuns
<1> QED BY <1>1, <1>2

(* The inductive invariant holds before the client connects. *)
LEMMA SessionInitInv == SessionInit => SessionInv
<1> SUFFICES ASSUME SessionInit PROVE SessionInv
    BY ZenonT(30)
<1>1. StateTypeOK
    BY ZenonT(30) DEF SessionInit, StateTypeOK, ConnectionSession, Sessions, Logins, Names, Places
<1>2. loopq \in Seq({})
    BY DEF SessionInit
<1>3. session.login = "await_choice" /\ session.cding = FALSE /\ session.attempt = 0
    BY DEF SessionInit, ConnectionSession
<1>4. \A k \in Requests : ~Expected(k) /\ Nothing(k)
    <2>1. \A k \in Requests : ~Expected(k)
        BY ZenonT(30), <1>3 DEF Expected, Requests
    <2>2. tasks = {} /\ DOMAIN loopq = {}
        BY DEF SessionInit
    <2> QED BY <2>1, <2>2 DEF Nothing, Pending, Queued
<1>5. link = "connecting" /\ created = {} /\ denied = {}
    BY DEF SessionInit
<1> QED BY <1>1, <1>2, <1>3, <1>4, <1>5 DEF SessionInv, SessionTypeOK, Flight, SignupAnswerTrue

(* The invariant says what is asked of a session that is up. *)
LEMMA OneRequestFollows == SessionInv => OneRequestInFlight
<1> SUFFICES ASSUME SessionInv, link = "up" PROVE
       /\ ~stopping =>
            \A k \in {"auth", "signup"} :
              LET expected == session.login = (IF k = "auth" THEN "verifying" ELSE "registering") IN
              /\ Cardinality(Pending(k)) + Cardinality(Queued(k)) = IF expected THEN 1 ELSE 0
              /\ \A t \in Pending(k) : t.n = session.attempt
              /\ \A i \in Queued(k) : loopq[i].n = session.attempt
       /\ \A t \in Pending("cd") : session.cding /\ t.from = session.dir
       /\ \A i \in Queued("cd") : session.cding /\ loopq[i].from = session.dir
       /\ Cardinality(Pending("cd")) + Cardinality(Queued("cd")) <= 1
    BY DEF OneRequestInFlight
<1>1. \A k \in Requests : Flight(k)
    BY DEF SessionInv
<1>2. Cardinality({}) = 0 /\ \A x : Cardinality({x}) = 1
    BY ZenonT(30), FS_EmptySet, FS_Singleton
<1>3. ASSUME NEW k \in Requests
      PROVE  /\ Nothing(k) => Cardinality(Pending(k)) = 0 /\ Cardinality(Queued(k)) = 0
             /\ Sent(k) => Cardinality(Pending(k)) = 1 /\ Cardinality(Queued(k)) = 0
             /\ Answered(k) => Cardinality(Pending(k)) = 0 /\ Cardinality(Queued(k)) = 1
    <2>1. Nothing(k) => Cardinality(Pending(k)) = 0 /\ Cardinality(Queued(k)) = 0
        BY <1>2 DEF Nothing
    <2>2. Sent(k) => Cardinality(Pending(k)) = 1 /\ Cardinality(Queued(k)) = 0
        BY ZenonT(30), <1>2 DEF Sent
    <2>3. Answered(k) => Cardinality(Pending(k)) = 0 /\ Cardinality(Queued(k)) = 1
        BY ZenonT(30), <1>2 DEF Answered
    <2> QED BY <2>1, <2>2, <2>3
<1>4. ASSUME NEW k \in {"auth", "signup"}, ~stopping
      PROVE  LET expected == session.login = (IF k = "auth" THEN "verifying" ELSE "registering") IN
             /\ Cardinality(Pending(k)) + Cardinality(Queued(k)) = IF expected THEN 1 ELSE 0
             /\ \A t \in Pending(k) : t.n = session.attempt
             /\ \A i \in Queued(k) : loopq[i].n = session.attempt
    <2>1. k \in Requests /\ Flight(k) /\ ~Lost(k)
        BY <1>1, <1>4 DEF Requests, Lost
    <2>2. Expected(k) <=> session.login = (IF k = "auth" THEN "verifying" ELSE "registering")
        BY ZenonT(30) DEF Expected
    <2>3. \/ Expected(k) /\ Sent(k)
          \/ Expected(k) /\ Answered(k)
          \/ ~Expected(k) /\ Nothing(k)
        BY <2>1 DEF Flight
    <2>4. Cardinality(Pending(k)) + Cardinality(Queued(k)) = IF Expected(k) THEN 1 ELSE 0
        BY <1>3, <2>1, <2>3
    <2>5. \A t \in Pending(k) : t.n = session.attempt
        BY ZenonT(30), <2>3 DEF Sent, Answered, Nothing, Asked
    <2>6. \A i \in Queued(k) : loopq[i].n = session.attempt
        BY ZenonT(30), <2>3 DEF Sent, Answered, Nothing, Told
    <2> QED BY <2>2, <2>4, <2>5, <2>6
<1>5. /\ \A t \in Pending("cd") : session.cding /\ t.from = session.dir
      /\ \A i \in Queued("cd") : session.cding /\ loopq[i].from = session.dir
      /\ Cardinality(Pending("cd")) + Cardinality(Queued("cd")) <= 1
    <2>1. "cd" \in Requests /\ Flight("cd") /\ (Expected("cd") <=> session.cding)
        BY <1>1 DEF Requests, Expected
    <2>2. \/ Expected("cd") /\ Sent("cd")
          \/ Expected("cd") /\ Answered("cd")
          \/ Nothing("cd")
        BY ZenonT(30), <2>1 DEF Flight, Lost
    <2>3. Cardinality(Pending("cd")) + Cardinality(Queued("cd")) <= 1
        BY <1>3, <2>1, <2>2
    <2>4. \A t \in Pending("cd") : session.cding /\ t.from = session.dir
        BY <2>1, <2>2 DEF Sent, Answered, Nothing, Asked
    <2>5. \A i \in Queued("cd") : session.cding /\ loopq[i].from = session.dir
        BY <2>1, <2>2 DEF Sent, Answered, Nothing, Told
    <2> QED BY <2>3, <2>4, <2>5
<1> QED BY ZenonT(30), <1>4, <1>5

(* While the client waits for a login or a sign-up exactly one request is  *)
(* on its way, with the number of the attempt, and otherwise none: no late *)
(* result of finish_authentication() logs a session in, and no directory   *)
(* change is computed from a directory the session has left.               *)
THEOREM RequestsOneByOne == SessionSpec => []OneRequestInFlight
<1> QED BY SessionInitInv, SessionStep, OneRequestFollows, PTL DEF SessionSpec

(* A sign-up that created the account is never answered with a denial,     *)
(* whichever of the task, its timeout and a refusal of the pool answers.   *)
THEOREM SignupsAnsweredTruly == SessionSpec => []SignupAnswerTrue
<1>1. SessionInv => SignupAnswerTrue
    BY DEF SessionInv
<1> QED BY <1>1, SessionInitInv, SessionStep, PTL DEF SessionSpec
==============================================================================
