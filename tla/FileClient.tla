----------------------------- MODULE FileClient ------------------------------
(***************************************************************************)
(* The command line client (src/ftp/client.cpp) in a session with the      *)
(* server: its transfer states, the requests it sends, the responses it    *)
(* takes, its disk work, the end of its connection; composed with          *)
(* ServerSession, each of whose steps takes its input from the client and  *)
(* answers as on_transfer_event() does. The two streams keep their order;  *)
(* either end may close at any time, and what is on its way is then lost.  *)
(*                                                                         *)
(* The session is logged in. A body is empty, or some blocks and the last. *)
(* cancel() of disk work silences its callbacks (AsyncFileReceiver,        *)
(* AsyncFileSource), so work that was cancelled is forgotten here.         *)
(***************************************************************************)
EXTENDS ServerSession

CONSTANT MaxBlocks    \* bound: blocks of a body

VARIABLES
    cstate,       \* Client::_transfer_state
    clink,        \* its connection: "up", "closing" once force_close()d, "shut" after quit, "down"
    cwork,        \* the disk work it waits for, or "none"
    cleft,        \* blocks of the upload still to be sent
    sleft,        \* blocks of the download still to be sent
    toServer,     \* what the server has still to read
    toClient,     \* what the client has still to read
    tally,        \* history: transfers stored, confirmed, saved, delivered
    surprised,    \* history: an end met input it does not expect
    typed         \* history: the user typed a control line

streamVars == <<toServer, toClient>>
histVars == <<surprised, typed>>
peerVars == <<cstate, clink, cwork, cleft>>
fileVars == <<sessionVars, peerVars, sleft, streamVars, tally, histVars>>

FileInit ==
    /\ link = "up" /\ registered = TRUE /\ transfer = NoTransfer
    /\ users = Users /\ created = {} /\ denied = {} /\ threw = FALSE
    /\ \E u \in Users :
         session = [ConnectionSession EXCEPT !.login = "authenticated", !.name = u, !.attempt = 1]
    /\ tasks = {} /\ disk = {} /\ loopq = <<>> /\ stopping = FALSE /\ gauge = 0
    /\ cstate = "idle" /\ clink = "up" /\ cwork = "none" /\ cleft = 0 /\ sleft = 0
    /\ toServer = <<>> /\ toClient = <<>> /\ surprised = FALSE /\ typed = FALSE
    /\ tally = [stored |-> 0, confirmed |-> 0, saved |-> 0, delivered |-> 0]

Counts(what) == tally' = [tally EXCEPT ![what] = @ + 1]

(***************************************************************************)
(* The client                                                              *)
(***************************************************************************)

Msg(m, n) == [m |-> m, n |-> n]

Talks(m) == toServer' = Append(toServer, m) /\ UNCHANGED toClient
Hears(m) == toClient # <<>> /\ Head(toClient).m = m /\ toClient' = Tail(toClient)

(* reset_transfer(), and force_close() when close *)
reset_transfer(close) ==
    /\ cstate' = "idle" /\ cwork' = "none" /\ cleft' = 0
    /\ clink' = IF close THEN "closing" ELSE clink

Goes(from, to, work) ==
    clink = "up" /\ cstate = from /\ cstate' = to /\ cwork' = work /\ UNCHANGED <<clink, cleft>>

(* handle_command() sends nothing while a transfer runs. *)
Typed == clink = "up" /\ cstate = "idle" /\ session.generation + 1 < MaxTransfers

upload ==
    /\ Typed /\ Goes("idle", "preparing_upload_source", "source")
    /\ UNCHANGED <<sessionVars, sleft, streamVars, tally, histVars>>

download ==
    /\ Typed /\ Goes("idle", "waiting_download_header", "none") /\ Talks(Msg("DOWNLOAD", 0))
    /\ UNCHANGED <<sessionVars, sleft, tally, histVars>>

(* Another command; of these only cd matters to a transfer. *)
TypeCd ==
    /\ Typed /\ toServer = <<>>
    /\ Talks(Msg("cd", 0)) /\ UNCHANGED <<sessionVars, peerVars, sleft, tally, histVars>>

(* handle_command() sends what is no command of its own as it is, also     *)
(* when it is a line of the transfer protocol. *)
TypeControl(m) ==
    /\ Typed /\ toServer = <<>> /\ ~typed /\ typed' = TRUE
    /\ Talks(Msg(m, 0)) /\ UNCHANGED <<sessionVars, peerVars, sleft, tally, surprised>>

(* The upload's source is open: the request is sent. *)
SourceReady ==
    /\ clink = "up" /\ cstate = "preparing_upload_source"
    /\ cstate' = "waiting_upload_ready" /\ cwork' = "none"
    /\ \E n \in 0..MaxBlocks : cleft' = n /\ Talks(Msg("UPLOAD", n))
    /\ UNCHANGED <<sessionVars, clink, sleft, tally, histVars>>

(* failed of the source: a server that knows of the transfer loses the     *)
(* connection. *)
SourceFails ==
    /\ clink = "up" /\ cwork = "source" /\ reset_transfer(cstate # "preparing_upload_source")
    /\ UNCHANGED <<sessionVars, sleft, streamVars, tally, histVars>>

(* Variant: a failed download leaves the connection open. *)
WriterFails_StaysOpen ==
    /\ clink = "up" /\ cwork \notin {"none", "source"} /\ reset_transfer(FALSE)
    /\ UNCHANGED <<sessionVars, sleft, streamVars, tally, histVars>>

(* failed of the writer closes the connection. *)
WriterFails ==
    /\ clink = "up" /\ cwork \notin {"none", "source"} /\ reset_transfer(TRUE)
    /\ UNCHANGED <<sessionVars, sleft, streamVars, tally, histVars>>

(* on_message(): UREADY, then send_file_async() block by block *)
HearUready ==
    /\ Goes("waiting_upload_ready", "waiting_upload_result", "none") /\ Hears("UREADY")
    /\ UNCHANGED <<sessionVars, sleft, toServer, tally, histVars>>

SendBlock ==
    /\ clink = "up" /\ cstate = "waiting_upload_result" /\ cleft > 0
    /\ \/ cleft' = cleft - 1 /\ Talks(Msg("block", cleft - 1)) /\ UNCHANGED clink
       \/ clink' = "closing" /\ UNCHANGED <<cleft, streamVars>>
    /\ UNCHANGED <<sessionVars, cstate, cwork, sleft, tally, histVars>>

HearUok ==
    /\ clink = "up" /\ cstate = "waiting_upload_result" /\ Hears("UOK")
    /\ reset_transfer(FALSE) /\ Counts("confirmed")
    /\ UNCHANGED <<sessionVars, sleft, toServer, histVars>>

(* DATA makes the writer; the stream is read again when it is ready. *)
HearData ==
    /\ Goes("waiting_download_header", "preparing_download", "create")
    /\ toClient # <<>> /\ Head(toClient).m = "DATA"
    /\ UNCHANGED <<sessionVars, sleft, streamVars, tally, histVars>>

(* The size is the header's, which is taken here. *)
WriterReady ==
    /\ cwork = "create" /\ Hears("DATA")
    /\ Goes("preparing_download",
            IF Head(toClient).n = 0 THEN "waiting_download_done" ELSE "receiving_download", "none")
    /\ UNCHANGED <<sessionVars, sleft, toServer, tally, histVars>>

(* feed(): reading goes on when the block is written. *)
HearBlock ==
    /\ cwork = "none" /\ Hears("block")
    /\ Goes("receiving_download",
            IF Head(toClient).n = 0 THEN "waiting_download_done" ELSE "receiving_download", "write")
    /\ UNCHANGED <<sessionVars, sleft, toServer, tally, histVars>>

BlockWritten ==
    /\ cwork = "write" /\ Goes(cstate, cstate, "none")
    /\ UNCHANGED <<sessionVars, sleft, streamVars, tally, histVars>>

(* Variant: the ACK is sent with the request to publish. *)
HearDone_AcksEarly ==
    /\ cwork = "none" /\ Hears("DONE") /\ Goes("waiting_download_done", "waiting_download_ok", "publish")
    /\ toServer' = Append(toServer, Msg("ACK", 0))
    /\ UNCHANGED <<sessionVars, sleft, tally, histVars>>

HearDone ==
    /\ cwork = "none" /\ Hears("DONE") /\ Goes("waiting_download_done", "finalizing_download", "publish")
    /\ UNCHANGED <<sessionVars, sleft, toServer, tally, histVars>>

(* done of the writer: the file has its name, and only now the ACK goes. *)
Published ==
    /\ cwork = "publish" /\ Goes("finalizing_download", "waiting_download_ok", "none")
    /\ Talks(Msg("ACK", 0)) /\ Counts("saved")
    /\ UNCHANGED <<sessionVars, sleft, histVars>>

HearOk ==
    /\ clink = "up" /\ cstate = "waiting_download_ok" /\ Hears("OK") /\ reset_transfer(FALSE)
    /\ UNCHANGED <<sessionVars, sleft, toServer, tally, histVars>>

HearError ==
    /\ clink = "up" /\ cwork \in {"none", "source"} /\ cstate # "receiving_download" /\ Hears("ERROR")
    /\ reset_transfer(FALSE) /\ UNCHANGED <<sessionVars, sleft, toServer, tally, histVars>>

(* Any other response ends the connection. *)
Expected ==
    [idle |-> {}, preparing_upload_source |-> {}, waiting_upload_ready |-> {"UREADY"},
     waiting_upload_result |-> {"UOK"}, waiting_download_header |-> {"DATA"},
     receiving_download |-> {"block"}, waiting_download_done |-> {"DONE"},
     waiting_download_ok |-> {"OK"}]

HearOther ==
    /\ clink = "up" /\ toClient # <<>> /\ cwork \in {"none", "source"} /\ cstate \in DOMAIN Expected
    /\ Head(toClient).m \notin Expected[cstate] \cup {"ERROR"}
    /\ surprised' = TRUE /\ reset_transfer(TRUE)
    /\ UNCHANGED <<sessionVars, sleft, streamVars, tally, typed>>

(* request_exit(): quit when idle, and at once otherwise *)
request_exit ==
    /\ clink = "up"
    /\ IF cstate = "idle"
         THEN clink' = "shut" /\ Talks(Msg("quit", 0)) /\ UNCHANGED <<cstate, cwork, cleft>>
         ELSE reset_transfer(TRUE) /\ UNCHANGED streamVars
    /\ UNCHANGED <<sessionVars, sleft, tally, histVars>>

(* The connection ends: by force_close(), the exit's timer, or the server. *)
ClientDown ==
    /\ clink = "closing" \/ clink = "shut" \/ (link = "down" /\ clink = "up")
    /\ clink' = "down" /\ cstate' = "idle" /\ cwork' = "none" /\ cleft' = 0
    /\ UNCHANGED <<sessionVars, sleft, streamVars, tally, histVars>>

(***************************************************************************)
(* The server: ServerSession's steps with their input and their answers    *)
(***************************************************************************)

ServerTakes(m) == toServer # <<>> /\ Head(toServer).m = m /\ toServer' = Tail(toServer)

(* send_control() while the connection is up *)
Answers(ms) == toClient' = toClient \o ms

ErrorIf(failed) == IF failed THEN <<Msg("ERROR", 0)>> ELSE <<>>

clientKept == <<peerVars, histVars>>

(* handle_transfer_control() *)
TakeUpload ==
    /\ ServerTakes("UPLOAD") /\ handle_upload(Head(toServer).n = 0)
    /\ Answers(ErrorIf(transfer' = NoTransfer)) /\ UNCHANGED <<clientKept, sleft, tally>>

TakeDownload ==
    /\ ServerTakes("DOWNLOAD") /\ handle_download
    /\ Answers(ErrorIf(transfer' = NoTransfer)) /\ UNCHANGED <<clientKept, sleft, tally>>

TakeRefused ==
    /\ ServerTakes("UPLOAD") \/ ServerTakes("DOWNLOAD")
    /\ RefuseTransfer /\ Answers(ErrorIf(TRUE)) /\ UNCHANGED <<clientKept, sleft, tally>>

TakeAck ==
    /\ ServerTakes("ACK") /\ Acknowledge
    /\ Answers(<<Msg("OK", 0)>>) /\ Counts("delivered") /\ UNCHANGED <<clientKept, sleft>>

(* Commands in text; while a cd is pending they are refused. *)
TakeText ==
    /\ \/ ServerTakes("cd") /\ \E d \in Dirs : handle_cd(d)
       \/ ServerTakes("quit") /\ Quit
       \/ (ServerTakes("cd") \/ ServerTakes("quit")) /\ TextLine /\ session.cding
          /\ UNCHANGED sessionVars
    /\ UNCHANGED <<clientKept, sleft, toClient, tally>>

TakeBlock ==
    /\ ServerTakes("block") /\ Consume
    /\ (transfer'.phase = "finalizing_upload") <=> (Head(toServer).n = 0)
    /\ UNCHANGED <<clientKept, sleft, toClient, tally>>

(* Input the session's phase does not take, or a verb it does not know *)
TakeOther ==
    /\ \/ /\ toServer # <<>> /\ UNCHANGED streamVars
          /\ \/ UnexpectedInput
             \/ transfer.phase = "waiting_download_ack" /\ Head(toServer).m # "ACK" /\ RejectLine
       \/ ServerTakes("ACK") /\ RefuseTransfer /\ Answers(ErrorIf(TRUE))
    /\ surprised' = TRUE /\ UNCHANGED <<peerVars, sleft, tally, typed>>

(* on_transfer_event() for the functors of the tasks *)
AnswerUpload ==
    /\ \/ RunPrepared /\ Answers(ErrorIf(transfer' = NoTransfer))
       \/ RunReady /\ Answers(<<Msg("UREADY", 0)>>)
       \/ RunDone /\ Answers(<<Msg("UOK", 0)>>)
    /\ UNCHANGED <<clientKept, sleft, toServer, tally>>

AnswerDownload ==
    /\ RunOpened /\ \E n \in 0..MaxBlocks : sleft' = n /\ Answers(<<Msg("DATA", n)>>)
    /\ UNCHANGED <<clientKept, toServer, tally>>

AnswerFailed ==
    /\ RunFailed /\ Answers(ErrorIf(transfer' = NoTransfer))
    /\ UNCHANGED <<clientKept, sleft, toServer, tally>>

(* The download's body, and DONE behind it *)
SendBody ==
    /\ link = "up" /\ transfer.phase = "sending_download" /\ transfer.active /\ sleft > 0
    /\ sleft' = sleft - 1 /\ Answers(<<Msg("block", sleft - 1)>>)
    /\ UNCHANGED <<sessionVars, clientKept, toServer, tally>>

BodySent ==
    /\ \/ sleft = 0 /\ SendEnds(TRUE) /\ Answers(<<Msg("DONE", 0)>>)
       \/ SendEnds(FALSE) /\ Answers(<<>>)
    /\ UNCHANGED <<clientKept, sleft, toServer, tally>>

(* Steps without an answer *)
ServerQuiet ==
    /\ \/ RunClose \/ RunCd \/ RunStale
       \/ \E t \in tasks : TaskStarts(t) \/ MoveDir(t) \/ Prepare(t)
    /\ UNCHANGED <<clientKept, sleft, streamVars, tally>>

ServerDisk ==
    /\ \E d \in disk :
         /\ DiskAnswers(d)
         /\ IF d.op = "final" /\ loopq'[Len(loopq')].kind = "final"
              THEN Counts("stored") ELSE UNCHANGED tally
    /\ UNCHANGED <<clientKept, sleft, streamVars>>

(* The client closed, or the network failed. *)
ServerDown == PeerCloses /\ UNCHANGED <<clientKept, sleft, streamVars, tally>>

Responses ==
    \/ HearUready \/ HearUok \/ HearData \/ HearBlock \/ HearDone \/ HearOk \/ HearError \/ HearOther

ClientWork ==
    SourceReady \/ SourceFails \/ WriterReady \/ WriterFails \/ BlockWritten \/ Published

ServerInput ==
    TakeUpload \/ TakeDownload \/ TakeRefused \/ TakeAck \/ TakeText \/ TakeBlock \/ TakeOther

ServerWork ==
    AnswerUpload \/ AnswerDownload \/ AnswerFailed \/ SendBody \/ BodySent \/ ServerQuiet

(* Behaviours are followed until both ends are closed, or to the first     *)
(* input that is out of place. *)
Going == ~surprised /\ ~(link = "down" /\ clink = "down")

(* What both ends do when they can: they read what arrives, their disks    *)
(* answer, and a connection one end closed is closed at the other.         *)
EndsRun ==
    Going /\ (\/ Responses \/ ClientWork \/ SendBlock \/ ClientDown
              \/ ServerInput \/ ServerWork \/ ServerDisk)

FileNext ==
    \/ EndsRun
    \/ /\ Going
       /\ \/ upload \/ download \/ TypeCd \/ request_exit \/ ServerDown
          \/ \E m \in {"DOWNLOAD", "ACK"} : TypeControl(m)

FileFairness == WF_fileVars(EndsRun)

FileSpec == FileInit /\ [][FileNext]_fileVars /\ FileFairness

(***************************************************************************)
(* Properties                                                              *)
(***************************************************************************)

(* Client and server stay in step, whatever fails on either side, unless   *)
(* the user typed a line of the protocol. Neither end ever gets input its  *)
(* state has no place for. When the client is idle nothing of a finished   *)
(* or failed transfer is still to be read, at either end, and the server   *)
(* has no transfer, unless it is closing the connection; so the next       *)
(* request cannot be answered by the last one's responses. *)
InStep ==
    ~typed =>
        /\ ~surprised
        /\ (cstate \in {"idle", "preparing_upload_source"} /\ clink \in {"up", "shut"} /\ link = "up"
              /\ Queued("close") = {}) =>
             /\ toClient = <<>> /\ transfer = NoTransfer
             /\ \A i \in DOMAIN toServer : toServer[i].m \in {"cd", "quit"}

(* What one end reports the other has done: the client's "upload complete" *)
(* follows the registration of the file, and the server counts a download  *)
(* as completed only when the file has its name at the client. *)
ReportsTrue == tally.confirmed <= tally.stored /\ tally.delivered <= tally.saved

(* A transfer ends, with success, an error or the connection: client and   *)
(* server never wait for each other. *)
TransferEnds == (cstate # "idle" /\ ~typed) ~> (cstate = "idle")
==============================================================================
