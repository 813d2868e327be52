---------------------------- MODULE ServerSession ----------------------------
(***************************************************************************)
(* One client session of StorageService (src/ftp/server.cpp): sign-up and  *)
(* login, directory changes and transfers, whose slow parts run on the     *)
(* worker pool or on the disk executor and come back as functors of the    *)
(* connection's loop. The users table is shared with other sessions.       *)
(*                                                                         *)
(* A handler of the loop is one step. on_message() takes one line or one   *)
(* block per step: input may be cut anywhere, so functors may run between  *)
(* any two. cancel() of a transfer is always followed by its destruction   *)
(* in the same handler, so a cancelled task is one that no longer exists.  *)
(* Once the connection is down the session is destroyed and every functor  *)
(* left fails its weak.lock(), so behaviours end there. Commands that only *)
(* answer (help, pwd, ls, mkdir) leave the session alone and are left out. *)
(***************************************************************************)
EXTENDS Integers, Sequences, FiniteSets

CONSTANTS
    Users,           \* user names
    Dirs,            \* directories other than the root
    MaxAttempts,     \* bound: login and sign-up requests of the session
    MaxTransfers     \* bound: values of transfer_generation

ASSUME SessionAssumption == {MaxAttempts, MaxTransfers} \subseteq Nat

VARIABLES
    link,        \* the connection: "connecting", "up", "disconnecting", "down"
    registered,  \* _sessions has the session
    session,     \* ConnectionSession
    transfer,    \* ConnectionSession::transfer
    tasks,       \* worker tasks of this session: queued or running
    disk,        \* disk work of its transfers
    loopq,       \* functors queued on its loop
    stopping,    \* _stopping
    gauge,       \* the metrics upload_active + download_active
    users,       \* rows of the users table
    created,     \* history: sign-up attempts that added a row
    denied,      \* history: attempts answered by a definite failure
    threw        \* history: an exception ended a directory change

sessionVars == <<link, registered, session, transfer, tasks, disk, loopq, stopping,
                 gauge, users, created, denied, threw>>
accountVars == <<users, created, denied, threw>>

Root == "/"
NoName == "none"
NoTransfer == [phase |-> "none"]
Close == [kind |-> "close"]

ConnectionSession ==
    [login |-> "await_choice", pending |-> NoName, name |-> NoName, attempt |-> 0,
     dir |-> Root, cding |-> FALSE, generation |-> 0]

SessionInit ==
    /\ link = "connecting" /\ registered = FALSE
    /\ session = ConnectionSession /\ transfer = NoTransfer
    /\ tasks = {} /\ disk = {} /\ loopq = <<>> /\ stopping = FALSE /\ gauge = 0
    /\ users \in SUBSET Users /\ created = {} /\ denied = {}
    /\ threw = FALSE

-----------------------------------------------------------------------------
(* The connection. *)

(* on_connection(), connection established *)
OnConnected ==
    /\ link = "connecting"
    /\ link' = "up" /\ registered' = TRUE
    /\ UNCHANGED <<session, transfer, tasks, disk, loopq, stopping, gauge, accountVars>>

(* metrics_finish(): the gauge goes down once per transfer. *)
Finish(t) == [t EXCEPT !.active = FALSE]
GaugeWithout(t) == IF t # NoTransfer /\ t.active THEN gauge - 1 ELSE gauge

(* handle_close() and on_connection(): the session leaves the map, its     *)
(* transfer is cancelled and both are destroyed. *)
OnDisconnected ==
    /\ link' = "down" /\ registered' = FALSE
    /\ gauge' = GaugeWithout(transfer) /\ transfer' = NoTransfer

(* The peer closes or the socket fails. *)
PeerCloses ==
    /\ link \in {"up", "disconnecting"}
    /\ OnDisconnected
    /\ UNCHANGED <<session, tasks, disk, loopq, stopping, accountVars>>

(* A queued force_close() runs. *)
RunClose ==
    /\ loopq # <<>> /\ Head(loopq) = Close
    /\ loopq' = Tail(loopq)
    /\ IF link \in {"up", "disconnecting"} THEN OnDisconnected
                                            ELSE UNCHANGED <<link, registered, transfer, gauge>>
    /\ UNCHANGED <<session, tasks, disk, stopping, accountVars>>

force_close(q) == Append(q, Close)

Queued(kind) == {i \in DOMAIN loopq : loopq[i].kind = kind}
Pending(kind) == {t \in tasks : t.kind = kind}

(* stop() sets the flag; whatever is queued in the pool is dropped later. *)
BeginStop ==
    /\ ~stopping /\ stopping' = TRUE
    /\ UNCHANGED <<link, registered, session, transfer, tasks, disk, loopq, gauge, accountVars>>

PoolDrops(t) ==
    /\ stopping /\ t \in tasks /\ ~t.running
    /\ tasks' = tasks \ {t}
    /\ UNCHANGED <<link, registered, session, transfer, disk, loopq, stopping, gauge, accountVars>>

-----------------------------------------------------------------------------
(* on_message() handles input only while the connection is up. *)
Reads == link = "up" /\ registered /\ ~stopping

(* Refuse the input and close: overlong lines, input in a phase that takes *)
(* none, an unexpected control line. *)
RejectInput ==
    /\ loopq' = force_close(loopq)
    /\ UNCHANGED <<link, registered, session, transfer, tasks, disk, stopping, gauge, accountVars>>

(* A line is taken only outside a transfer or while its ACK is awaited. *)
Lines == Reads /\ transfer.phase \in {"none", "waiting_download_ack"}

UnexpectedInput ==
    /\ Reads /\ transfer.phase \in {"preparing_upload", "preparing_download", "sending_download"}
    /\ Queued("close") = {}
    /\ RejectInput

(* An overlong line, or one that is no ACK while the ACK is awaited. *)
RejectLine == Lines /\ Queued("close") = {} /\ RejectInput

TextLine == Lines /\ transfer = NoTransfer

(* handle_auth_command() and handle_signup_command(), steps without a task *)
Choose(to) ==
    /\ TextLine /\ session.login = "await_choice" /\ to \in {"await_username", "signup_username"}
    /\ session' = [session EXCEPT !.login = to, !.pending = NoName, !.name = NoName]
    /\ UNCHANGED <<link, registered, transfer, tasks, disk, loopq, stopping, gauge, accountVars>>

EnterUsername(u) ==
    /\ TextLine /\ session.login \in {"await_username", "signup_username"}
    /\ session' = [session EXCEPT !.pending = u,
           !.login = IF @ = "await_username" THEN "await_password" ELSE "signup_password"]
    /\ UNCHANGED <<link, registered, transfer, tasks, disk, loopq, stopping, gauge, accountVars>>

EnterNewPassword ==
    /\ TextLine /\ session.login = "signup_password"
    /\ session' = [session EXCEPT !.login = "signup_confirm"]
    /\ UNCHANGED <<link, registered, transfer, tasks, disk, loopq, stopping, gauge, accountVars>>

PasswordsDiffer ==
    /\ TextLine /\ session.login = "signup_confirm"
    /\ session' = [session EXCEPT !.login = "signup_password"]
    /\ UNCHANGED <<link, registered, transfer, tasks, disk, loopq, stopping, gauge, accountVars>>

-----------------------------------------------------------------------------
(* finish_authentication() on the session s. *)
Authenticated(s, u) ==
    [s EXCEPT !.pending = NoName, !.name = u, !.dir = Root, !.cding = FALSE,
              !.login = "authenticated"]
NotAuthenticated(s) ==
    [s EXCEPT !.pending = NoName, !.name = NoName, !.dir = Root, !.login = "await_username"]

finish_authentication(s, f) ==
    IF link = "up" /\ registered /\ s.login = "verifying" /\ s.attempt = f.n
      THEN IF f.result = "ok" THEN Authenticated(s, f.user) ELSE NotAuthenticated(s)
      ELSE s

SignupAfter(s, r) ==
    LET cleared == [s EXCEPT !.name = NoName, !.dir = Root, !.cding = FALSE]
    IN  CASE r = "invalid_password" -> [cleared EXCEPT !.login = "signup_password"]
          [] r = "taken" -> [cleared EXCEPT !.pending = NoName, !.login = "signup_username"]
          [] OTHER -> [cleared EXCEPT !.pending = NoName, !.login = "await_choice"]

finish_signup(s, f) ==
    IF link = "up" /\ registered /\ s.login = "registering" /\ s.attempt = f.n
      THEN SignupAfter(s, f.result) ELSE s

(* Sign-up answers that claim nothing was created. *)
Denials == {"taken", "unavailable", "invalid_password"}
Answer(s, f) ==
    denied' = IF finish_signup(s, f) # s /\ f.result \in Denials THEN denied \cup {f.n} ELSE denied

AuthTask(k, s) == [kind |-> k, n |-> s.attempt, user |-> s.pending, running |-> FALSE]
Submitted(to) == [session EXCEPT !.login = to, !.attempt = @ + 1]

(* Variant: a password typed while one is being verified is submitted too. *)
EnterPassword_WhileVerifying ==
    /\ TextLine /\ session.login \in {"await_password", "verifying"}
    /\ session.attempt < MaxAttempts
    /\ LET s == Submitted("verifying") IN
         \/ tasks' = tasks \cup {AuthTask("auth", s)} /\ session' = s
         \/ /\ UNCHANGED tasks
            /\ session' = finish_authentication(s, [n |-> s.attempt, result |-> "unavailable"])
    /\ UNCHANGED <<link, registered, transfer, disk, loopq, stopping, gauge, accountVars>>

(* The password: submit_async() takes the task or refuses it. *)
EnterPassword ==
    /\ TextLine /\ session.login = "await_password" /\ session.attempt < MaxAttempts
    /\ LET s == Submitted("verifying") IN
         \/ tasks' = tasks \cup {AuthTask("auth", s)} /\ session' = s
         \/ /\ UNCHANGED tasks
            /\ session' = finish_authentication(s, [n |-> s.attempt, result |-> "unavailable"])
    /\ UNCHANGED <<link, registered, transfer, disk, loopq, stopping, gauge, accountVars>>

ConfirmPassword ==
    /\ TextLine /\ session.login = "signup_confirm" /\ session.attempt < MaxAttempts
    /\ LET s == Submitted("registering") IN
         \/ tasks' = tasks \cup {AuthTask("signup", s)} /\ session' = s /\ UNCHANGED denied
         \/ LET f == [n |-> s.attempt, result |-> "unavailable"]
            IN  UNCHANGED tasks /\ session' = finish_signup(s, f) /\ Answer(s, f)
    /\ UNCHANGED <<link, registered, transfer, disk, loopq, stopping, gauge,
                   users, created, threw>>

-----------------------------------------------------------------------------
(* The worker pool runs a task of the session. *)
TaskStarts(t) ==
    /\ t \in tasks /\ ~t.running
    /\ tasks' = (tasks \ {t}) \cup {[t EXCEPT !.running = TRUE]}
    /\ UNCHANGED <<link, registered, session, transfer, disk, loopq, stopping, gauge, accountVars>>

(* The two seconds in the wait queue are over: on_timeout instead of task. *)
AuthTimeout(t) ==
    /\ t \in tasks /\ ~t.running /\ t.kind \in {"auth", "signup"}
    /\ tasks' = tasks \ {t}
    /\ loopq' = Append(loopq, [kind |-> t.kind, n |-> t.n, result |-> "unavailable"])
    /\ UNCHANGED <<link, registered, session, transfer, disk, stopping, gauge, accountVars>>

(* find_active_user(): a row, none, or a failure of the database *)
find_active_user(u) == {"unavailable", IF u \in users THEN "found" ELSE "not_found"}

(* AuthService::authenticate(): the password of a row is right, is wrong,  *)
(* or cannot be hashed. *)
AuthResults(lookup) ==
    CASE lookup = "found" -> {"ok", "invalid", "unavailable"}
      [] lookup = "not_found" -> {"invalid"}
      [] lookup = "unavailable" -> {"unavailable"}

Authenticate(t) ==
    /\ t \in tasks /\ t.running /\ t.kind = "auth"
    /\ tasks' = tasks \ {t}
    /\ \E lookup \in find_active_user(t.user) : \E r \in AuthResults(lookup) :
         loopq' = Append(loopq, [kind |-> "auth", n |-> t.n, result |-> r, user |-> t.user])
    /\ UNCHANGED <<link, registered, session, transfer, disk, stopping, gauge, accountVars>>

(* create_user_with_root(): the unique index decides, the row and the root *)
(* directory commit together, and a commit whose answer is lost is unknown *)
(* whichever way it went. *)
SignupResults(t) ==
    IF t.user \in users
      THEN {<<"taken", FALSE>>, <<"unavailable", FALSE>>}
      ELSE {<<"created", TRUE>>, <<"unknown", TRUE>>, <<"unknown", FALSE>>,
            <<"unavailable", FALSE>>}

(* AuthService::signup() *)
Signup(t) ==
    /\ t \in tasks /\ t.running /\ t.kind = "signup"
    /\ tasks' = tasks \ {t}
    /\ \E r \in SignupResults(t) :
         /\ loopq' = Append(loopq, [kind |-> "signup", n |-> t.n, result |-> r[1]])
         /\ users' = IF r[2] THEN users \cup {t.user} ELSE users
         /\ created' = IF r[2] THEN created \cup {t.n} ELSE created
    /\ UNCHANGED <<link, registered, session, transfer, disk, stopping, gauge,
                   denied, threw>>

(* Another session's sign-up; it matters until this one is logged in. *)
OtherSignup(u) ==
    /\ session.login # "authenticated"
    /\ u \notin users /\ users' = users \cup {u}
    /\ UNCHANGED <<link, registered, session, transfer, tasks, disk, loopq, stopping, gauge,
                   created, denied, threw>>

RunAuthenticated ==
    /\ loopq # <<>> /\ Head(loopq).kind = "auth"
    /\ loopq' = Tail(loopq)
    /\ session' = finish_authentication(session, Head(loopq))
    /\ UNCHANGED <<link, registered, transfer, tasks, disk, stopping, gauge, accountVars>>

RunSignup ==
    /\ loopq # <<>> /\ Head(loopq).kind = "signup"
    /\ loopq' = Tail(loopq)
    /\ session' = finish_signup(session, Head(loopq)) /\ Answer(session, Head(loopq))
    /\ UNCHANGED <<link, registered, transfer, tasks, disk, stopping, gauge,
                   users, created, threw>>

-----------------------------------------------------------------------------
(* Commands of an authenticated session: dispatch_task() *)

Command == TextLine /\ session.login = "authenticated" /\ ~session.cding

(* handle_cd(): a refused task leaves the session as it was. *)
handle_cd(d) ==
    /\ Command
    /\ \/ /\ session' = [session EXCEPT !.cding = TRUE]
          /\ tasks' = tasks \cup {[kind |-> "cd", from |-> session.dir, to |-> d, running |-> FALSE]}
       \/ UNCHANGED <<session, tasks>>
    /\ UNCHANGED <<link, registered, transfer, disk, loopq, stopping, gauge, accountVars>>

(* move_file_by_cur_dir() on the worker: the directory is found or not, or *)
(* the metadata service throws and the pool swallows the exception. *)
MoveDir(t) ==
    /\ t \in tasks /\ t.running /\ t.kind = "cd"
    /\ tasks' = tasks \ {t}
    /\ \/ \E ok \in BOOLEAN : loopq' = Append(loopq, [kind |-> "cd", ok |-> ok,
                                                      from |-> t.from, to |-> t.to])
          /\ UNCHANGED threw
       \/ threw' = TRUE /\ UNCHANGED loopq
    /\ UNCHANGED <<link, registered, session, transfer, disk, stopping, gauge,
                   users, created, denied>>

(* Its functor on the loop. *)
RunCd ==
    /\ loopq # <<>> /\ Head(loopq).kind = "cd"
    /\ loopq' = Tail(loopq)
    /\ session' = IF link = "up" /\ registered
                    THEN [session EXCEPT !.cding = FALSE,
                                         !.dir = IF Head(loopq).ok THEN Head(loopq).to ELSE @]
                    ELSE session
    /\ UNCHANGED <<link, registered, transfer, tasks, disk, stopping, gauge, accountVars>>

Quit ==
    /\ Command /\ link' = "disconnecting"
    /\ UNCHANGED <<registered, session, transfer, tasks, disk, loopq, stopping, gauge, accountVars>>
-----------------------------------------------------------------------------
(* Transfers: handle_upload(), handle_download() and the two tasks. *)

(* TransferContext::current() *)
Current(t) ==
    /\ link = "up" /\ registered
    /\ session.generation = t.generation /\ session.login = "authenticated"
    /\ session.name = t.name /\ session.dir = t.dir

(* transfer_failed() *)
transfer_failed(t) ==
    /\ gauge' = GaugeWithout(t)
    /\ session' = [session EXCEPT !.generation = @ + 1]
    /\ transfer' = NoTransfer

(* Control lines that start nothing: busy, bad arguments, an unknown verb. *)
RefuseTransfer ==
    /\ TextLine /\ session.login = "authenticated" /\ session.generation < MaxTransfers
    /\ transfer_failed(transfer)
    /\ UNCHANGED <<link, registered, tasks, disk, loopq, stopping, accountVars>>

NewTransfer(phase, empty) ==
    [phase |-> phase, generation |-> session.generation + 1, name |-> session.name,
     dir |-> session.dir, empty |-> empty, active |-> TRUE]

MayTransfer ==
    /\ TextLine /\ session.login = "authenticated" /\ ~session.cding
    /\ session.generation + 1 < MaxTransfers

(* handle_upload() and UploadTask::start(): the pool takes the preparation *)
(* or refuses it. *)
handle_upload(empty) ==
    /\ MayTransfer
    /\ LET t == NewTransfer("preparing_upload", empty) IN
         \/ /\ transfer' = t /\ gauge' = gauge + 1
            /\ session' = [session EXCEPT !.generation = t.generation]
            /\ tasks' = tasks \cup {[kind |-> "prepare", g |-> t.generation, running |-> FALSE]}
         \/ /\ session' = [session EXCEPT !.generation = t.generation + 1]
            /\ UNCHANGED <<transfer, gauge, tasks>>
    /\ UNCHANGED <<link, registered, disk, loopq, stopping, accountVars>>

(* handle_download() and DownloadTask::start() *)
handle_download ==
    /\ MayTransfer
    /\ LET t == NewTransfer("preparing_download", FALSE) IN
         \/ /\ transfer' = t /\ gauge' = gauge + 1
            /\ session' = [session EXCEPT !.generation = t.generation]
            /\ disk' = disk \cup {[g |-> t.generation, op |-> "open"]}
         \/ /\ session' = [session EXCEPT !.generation = t.generation + 1]
            /\ UNCHANGED <<transfer, gauge, disk>>
    /\ UNCHANGED <<link, registered, tasks, loopq, stopping, accountVars>>

(* The preparation on the worker: prepare_upload() finds the directory, or *)
(* fails, throws or sees the stop. *)
Prepare(t) ==
    /\ t \in tasks /\ t.running /\ t.kind = "prepare"
    /\ tasks' = tasks \ {t}
    /\ \E ok \in IF stopping THEN {FALSE} ELSE BOOLEAN :
         loopq' = Append(loopq, [kind |-> "prepared", g |-> t.g, ok |-> ok])
    /\ UNCHANGED <<link, registered, session, transfer, disk, stopping, gauge, accountVars>>

(* The disk executor answers: the receiver is ready, a block is written,   *)
(* the object is published and registered, the source is open; or not. *)
DiskAnswers(d) ==
    /\ d \in disk
    /\ disk' = disk \ {d}
    /\ \E ok \in BOOLEAN :
         loopq' = IF ok /\ d.op = "write" THEN loopq
                  ELSE Append(loopq, [kind |-> IF ok THEN d.op ELSE "failed", g |-> d.g])
    /\ UNCHANGED <<link, registered, session, transfer, tasks, stopping, gauge, accountVars>>

(* weak.lock() finds the transfer the functor f was made for. *)
Target(f) == transfer # NoTransfer /\ transfer.generation = f.g

(* current_connection(): "gone" ends the handler, "stop" closes. *)
CurrentConnection ==
    IF transfer = NoTransfer \/ ~Current(transfer) THEN "gone"
    ELSE IF stopping THEN "stop" ELSE "current"

(* Variant: a failure outside the body is counted but not reported. *)
OnFailed_Quiet(q, close) ==
    /\ gauge' = GaugeWithout(transfer) /\ transfer' = Finish(transfer)
    /\ loopq' = IF close THEN force_close(q) ELSE q
    /\ UNCHANGED session

(* on_failed(): the gauge first, then the event, which closes the          *)
(* connection or fails the transfer. *)
OnFailed(q, close) ==
    IF CurrentConnection = "current" /\ ~close
      THEN transfer_failed(transfer) /\ loopq' = q
      ELSE /\ gauge' = GaugeWithout(transfer) /\ transfer' = Finish(transfer)
           /\ loopq' = IF CurrentConnection = "gone" THEN q ELSE force_close(q)
           /\ UNCHANGED session

(* A handler that does nothing but close when the server stops. *)
Ignored(q) ==
    /\ loopq' = IF Target(Head(loopq)) /\ CurrentConnection = "stop" THEN force_close(q) ELSE q
    /\ UNCHANGED <<session, transfer, disk, gauge>>

(* Functors of a transfer: each handler checks the task, current() and the *)
(* phase before it acts. *)
Functor(kind, phase) ==
    /\ loopq # <<>> /\ Head(loopq).kind = kind
    /\ Target(Head(loopq)) /\ CurrentConnection = "current" /\ transfer.phase = phase

(* UploadTask::on_prepared() *)
RunPrepared ==
    /\ Functor("prepared", "preparing_upload")
    /\ \/ /\ Head(loopq).ok
          /\ disk' = disk \cup {[g |-> transfer.generation, op |-> "create"]}
          /\ loopq' = Tail(loopq) /\ UNCHANGED <<session, transfer, gauge>>
       \/ ~Head(loopq).ok /\ OnFailed(Tail(loopq), FALSE) /\ UNCHANGED disk
    /\ UNCHANGED <<link, registered, tasks, stopping, accountVars>>

(* UploadTask::on_ready(): an empty file is finished at once. *)
RunReady ==
    /\ Functor("create", "preparing_upload")
    /\ loopq' = Tail(loopq)
    /\ IF transfer.empty
         THEN /\ transfer' = [transfer EXCEPT !.phase = "finalizing_upload"]
              /\ disk' = disk \cup {[g |-> transfer.generation, op |-> "final"]}
         ELSE transfer' = [transfer EXCEPT !.phase = "receiving_upload"] /\ UNCHANGED disk
    /\ UNCHANGED <<link, registered, session, tasks, stopping, gauge, accountVars>>

(* UploadTask::consume() of one block; reading is paused until the loop    *)
(* has seen the last one written, and for good when it was not. A throw,   *)
(* when the executor refuses, force-closes the connection: PeerCloses. *)
Consume ==
    /\ Reads /\ transfer.phase = "receiving_upload"
    /\ [g |-> transfer.generation, op |-> "write"] \notin disk /\ Queued("failed") = {}
    /\ transfer.active
    /\ \E last \in BOOLEAN :
         /\ transfer' = IF last THEN [transfer EXCEPT !.phase = "finalizing_upload"] ELSE transfer
         /\ disk' = disk \cup {[g |-> transfer.generation, op |-> IF last THEN "final" ELSE "write"]}
    /\ UNCHANGED <<link, registered, session, tasks, loopq, stopping, gauge, accountVars>>

(* UploadTask::on_done() and the event upload_complete *)
RunDone ==
    /\ Functor("final", "finalizing_upload")
    /\ loopq' = Tail(loopq)
    /\ gauge' = GaugeWithout(transfer) /\ transfer' = NoTransfer
    /\ UNCHANGED <<link, registered, session, tasks, disk, stopping, accountVars>>

(* DownloadTask::on_ready() *)
RunOpened ==
    /\ Functor("open", "preparing_download")
    /\ loopq' = Tail(loopq) /\ transfer' = [transfer EXCEPT !.phase = "sending_download"]
    /\ UNCHANGED <<link, registered, session, tasks, disk, stopping, gauge, accountVars>>

(* DownloadTask::on_sent(), called once by the connection's send queue *)
SendEnds(ok) ==
    /\ transfer.phase = "sending_download" /\ transfer.active
    /\ \/ /\ CurrentConnection = "current" /\ ok
          /\ transfer' = [transfer EXCEPT !.phase = "waiting_download_ack"]
          /\ UNCHANGED <<loopq, gauge>>
       \/ /\ CurrentConnection = "current" /\ ~ok
          /\ gauge' = GaugeWithout(transfer) /\ transfer' = Finish(transfer)
          /\ loopq' = force_close(loopq)
       \/ /\ CurrentConnection = "stop" /\ Queued("close") = {}
          /\ loopq' = force_close(loopq) /\ UNCHANGED <<transfer, gauge>>
    /\ UNCHANGED <<link, registered, session, tasks, disk, stopping, accountVars>>

(* DownloadTask::acknowledge() and the event download_complete *)
Acknowledge ==
    /\ Lines /\ transfer.phase = "waiting_download_ack" /\ Current(transfer)
    /\ gauge' = GaugeWithout(transfer) /\ transfer' = NoTransfer
    /\ UNCHANGED <<link, registered, session, tasks, disk, loopq, stopping, accountVars>>

(* on_failed() of either task: the connection closes when the client is    *)
(* in the middle of the body. *)
RunFailed ==
    /\ loopq # <<>> /\ Head(loopq).kind = "failed"
    /\ Target(Head(loopq))
    /\ OnFailed(Tail(loopq), transfer.phase \in
                   {"receiving_upload", "sending_download", "waiting_download_ack"})
    /\ UNCHANGED <<link, registered, tasks, disk, stopping, accountVars>>

(* Every other functor of a transfer: its task is gone, is not current, is *)
(* in another phase, or the server stops. *)
RunStale ==
    /\ loopq # <<>>
    /\ LET f == Head(loopq) IN
         /\ f.kind \in {"prepared", "create", "final", "open", "failed"}
         /\ \/ ~Target(f)
            \/ f.kind # "failed" /\ CurrentConnection # "current"
            \/ f.kind \in {"prepared", "create"} /\ transfer.phase # "preparing_upload"
            \/ f.kind = "final" /\ transfer.phase # "finalizing_upload"
            \/ f.kind = "open" /\ transfer.phase # "preparing_download"
    /\ Ignored(Tail(loopq))
    /\ UNCHANGED <<link, registered, tasks, stopping, accountVars>>

-----------------------------------------------------------------------------
WorkerStep == \E t \in tasks :
    \/ TaskStarts(t) \/ Authenticate(t) \/ Signup(t) \/ MoveDir(t) \/ Prepare(t)

LoopStep ==
    \/ RunClose \/ RunAuthenticated \/ RunSignup \/ RunCd \/ RunPrepared \/ RunReady
    \/ RunDone \/ RunOpened \/ RunFailed \/ RunStale

ClientStep ==
    \/ \E to \in {"await_username", "signup_username"} : Choose(to)
    \/ \E u \in Users : EnterUsername(u)
    \/ EnterNewPassword \/ PasswordsDiffer \/ EnterPassword \/ ConfirmPassword
    \/ \E d \in Dirs \cup {Root} : handle_cd(d)
    \/ Quit \/ RefuseTransfer \/ handle_download
    \/ \E empty \in BOOLEAN : handle_upload(empty)
    \/ Consume \/ Acknowledge \/ UnexpectedInput \/ RejectLine \/ PeerCloses

DiskStep == \E d \in disk : DiskAnswers(d)

Alive == link # "down"

(* What loops, workers and disks do when they can. *)
SessionRuns == Alive /\ (LoopStep \/ WorkerStep \/ DiskStep)

SessionNext ==
    \/ SessionRuns
    \/ /\ Alive
       /\ \/ OnConnected \/ ClientStep
          \/ \E ok \in BOOLEAN : SendEnds(ok)
          \/ \E t \in tasks : AuthTimeout(t) \/ PoolDrops(t)
          \/ \E u \in Users : OtherSignup(u)
          \/ BeginStop

SessionSpec == SessionInit /\ [][SessionNext]_sessionVars /\ WF_sessionVars(SessionRuns)

-----------------------------------------------------------------------------
(* One request at a time. While the client is told to wait there is        *)
(* exactly one request on its way, and it carries the session's attempt    *)
(* number; a session that is not waiting has none, so no late result can   *)
(* log it in. A directory change is computed from the directory the        *)
(* session is in, so none is overtaken and lost. *)
OneRequestInFlight ==
    /\ link = "up" /\ ~stopping =>
         \A k \in {"auth", "signup"} :
             LET expected == session.login = (IF k = "auth" THEN "verifying" ELSE "registering") IN
             /\ Cardinality(Pending(k)) + Cardinality(Queued(k)) = IF expected THEN 1 ELSE 0
             /\ \A t \in Pending(k) : t.n = session.attempt
             /\ \A i \in Queued(k) : loopq[i].n = session.attempt
    /\ link = "up" =>
         /\ \A t \in Pending("cd") : session.cding /\ t.from = session.dir
         /\ \A i \in Queued("cd") : session.cding /\ loopq[i].from = session.dir
         /\ Cardinality(Pending("cd")) + Cardinality(Queued("cd")) <= 1

(* "Username taken" and "service unavailable" are never the answer to a    *)
(* sign-up that created the account. *)
SignupAnswerTrue == created \cap denied = {}

(* Waiting ends: a session that verifies, registers, changes directory or  *)
(* has received the whole body of an upload goes on, unless the connection *)
(* ends, the server stops, or an exception ended the directory change. *)
Ended == link # "up" \/ stopping
WaitEnds ==
    /\ (session.login \in {"verifying", "registering"})
           ~> (session.login \notin {"verifying", "registering"} \/ Ended)
    /\ session.cding ~> (~session.cding \/ Ended \/ threw)
    /\ (transfer.phase = "finalizing_upload") ~> (transfer.phase # "finalizing_upload" \/ Ended)
====
