--------------------------- MODULE ReliableAlarm ---------------------------
(***************************************************************************)
(* The reliable alarm channel: report_error() on the monitored service,    *)
(* the outbox and worker thread of ReliableAlarmPublisher, the TCP link,   *)
(* and ReliableAlarmCollector with its inbox and receiving Store.          *)
(*                                                                         *)
(* One publisher (one source id) and one alarm key are modelled; the       *)
(* collector treats other sources independently. The steps are cut where   *)
(* another thread, a crash or the network can intervene: after rename(),   *)
(* after the directory sync, after the wake-up flag, after each wait.      *)
(***************************************************************************)
EXTENDS AlarmSpool, FiniteSets

CONSTANTS
    Ids,            \* message ids, in file-name order
    Vals,           \* values of the alarm (1 active, 0 recovered)
    None,           \* no value (the key is absent from a Store), no message
    CrashKinds,     \* the crashes considered: "process", "power"
    InboxDirKnown,  \* accepted/<source> was on the collector's disk before
    MaxReports,     \* bound: values reported
    MaxCrashes,     \* bound: crashes and restarts, both ends together
    MaxFaults       \* bound: I/O and network faults, timeouts, damage

ASSUME IdsAssumption == Ids \subseteq Nat
ASSUME CrashAssumption == CrashKinds \subseteq {"process", "power"}
ASSUME FlagAssumption == InboxDirKnown \in BOOLEAN
ASSUME BoundAssumption == MaxReports \in Nat /\ MaxCrashes \in Nat /\ MaxFaults \in Nat

(* An alarm frame: identity (message id), value, and time of the change.   *)
Msgs == [id : Ids, val : Vals, ts : 1..MaxReports]

ASSUME NoneAssumption == None \notin Vals /\ None \notin Msgs

(* Frames on the wire. ACK and PONG echo the identity of what they answer. *)
Nothing == [type |-> "none"]
Ping == [type |-> "PING"]
Pong == [type |-> "PONG"]
Alarm(m) == [type |-> "ALARM", msg |-> m]
Ack(m) == [type |-> "ACK", msg |-> m]
Requests == {Nothing, Ping} \cup {Alarm(m) : m \in Msgs}
Replies == {Nothing, Pong} \cup {Ack(m) : m \in Msgs}

VARIABLES
    outbox,    \* the publisher's spool
    storeL,    \* the local Store's value of the key
    rpc,       \* the reporting thread, inside Store update / enqueue / store
    rmsg,      \* the message that thread is persisting
    nreports,  \* reports so far: the clock
    stopping,  \* _stop of the publisher
    work,      \* _work_pending
    wpc,       \* the publisher's worker thread
    cur,       \* the file run_iteration() works on
    sock,      \* the worker's socket is open
    peer,      \* the collector still has the other end of that socket
    req,       \* request sent on it and not yet read by the collector
    resp,      \* reply on its way back on it
    stale,     \* alarms on abandoned connections the collector may yet read
    inbox,     \* the collector's spool for this source
    dirOnDisk, \* the entry of accepted/<source> itself is on the disk
    cpc,       \* the collector's thread
    cmsg,      \* the alarm it is processing
    cfrom,     \* whether that alarm's connection is the worker's current one
    accepted,  \* _accepted
    storeC,    \* the receiving Store's value of the key
    promised,  \* history: alarms whose enqueue() returned SUCCESS
    damaged,   \* history: alarms with a file damaged on a disk
    orphaned,  \* history: inbox files a dead process, or a failed undo, left unsynchronised
    swept,     \* history: such files that a power loss then removed
    crashes, faults

reporterVars == <<storeL, rpc, rmsg, nreports>>
workerVars == <<stopping, work, wpc, cur>>
linkVars == <<sock, peer, req, resp, stale>>
collectorVars == <<dirOnDisk, cpc, cmsg, cfrom, accepted, storeC>>
historyVars == <<promised, damaged, orphaned, swept>>
boundVars == <<crashes, faults>>
vars == <<outbox, inbox, reporterVars, workerVars, linkVars, collectorVars,
          historyVars, boundVars>>

(* Both ends freshly initialised over empty spools. initialize() creates   *)
(* the spool's directories without synchronising their parents; the model  *)
(* takes them to be on the disk from an earlier run. InboxDirKnown says so *)
(* of accepted/<source>, which store() creates in the same way.            *)
Init ==
    /\ outbox = EmptySpool /\ inbox = EmptySpool
    /\ storeL = None /\ rpc = "idle" /\ rmsg = None /\ nreports = 0
    /\ stopping = FALSE /\ work = FALSE /\ wpc = "top" /\ cur = None
    /\ sock = FALSE /\ peer = FALSE /\ req = Nothing /\ resp = Nothing /\ stale = {}
    /\ dirOnDisk = InboxDirKnown /\ cpc = "poll" /\ cmsg = None /\ cfrom = FALSE
    /\ accepted = {} /\ storeC = None
    /\ promised = {} /\ damaged = {} /\ orphaned = {} /\ swept = {}
    /\ crashes = 0 /\ faults = 0

Fault == faults < MaxFaults /\ faults' = faults + 1 /\ UNCHANGED crashes
Crashing == crashes < MaxCrashes /\ crashes' = crashes + 1 /\ UNCHANGED faults

(* The outbox spool's mutex is held across rename() and sync, and across   *)
(* unlink() and sync.                                                      *)
OutboxFree == rpc # "renamed" /\ wpc # "unlinked"

-----------------------------------------------------------------------------
(* The reporting thread: report_error() -> MonitorStore::update_prepared() *)
(* -> enqueue() -> AlarmSpool::store(), one thread at a time under the     *)
(* Store's mutex. A failure before rename() (not ready, full, I/O error)   *)
(* changes nothing, and neither does an unchanged value.                   *)

NewMsg(v, i) == [id |-> i, val |-> v, ts |-> nreports + 1]

(* Ids are 128-bit random numbers: never used before. *)
UsedIds == {m.id : m \in outbox.vis \cup outbox.dur \cup inbox.vis \cup inbox.dur
                         \cup promised \cup damaged \cup stale}

Report(v, i) ==
    /\ rpc = "idle" /\ wpc # "down" /\ ~stopping
    /\ v # storeL
    /\ nreports < MaxReports /\ i \notin UsedIds
    /\ OutboxFree
    /\ outbox' = Rename(outbox, NewMsg(v, i))
    /\ rmsg' = NewMsg(v, i) /\ rpc' = "renamed" /\ nreports' = nreports + 1
    /\ UNCHANGED <<inbox, storeL, workerVars, linkVars, collectorVars, historyVars, boundVars>>

StoreSynced ==
    /\ rpc = "renamed"
    /\ outbox' = SyncDir(outbox)
    /\ rpc' = "stored"
    /\ promised' = promised \cup {rmsg}
    /\ UNCHANGED <<inbox, storeL, rmsg, nreports, workerVars, linkVars, collectorVars,
                   damaged, orphaned, swept, boundVars>>

(* The sync fails: DURABILITY_FAILED, the local Store keeps its value. *)
StoreSyncFails ==
    /\ rpc = "renamed" /\ Fault
    /\ outbox' \in StoreUndone(outbox, rmsg)
    /\ rpc' = "idle" /\ rmsg' = None
    /\ UNCHANGED <<inbox, storeL, nreports, workerVars, linkVars, collectorVars, historyVars>>

(* Variant: the condition is notified without the flag, and the notice is  *)
(* lost when the worker does not sleep yet.                                *)
SignalWork_NotifyOnly ==
    /\ rpc = "stored"
    /\ work' \in {work, TRUE} /\ rpc' = "signalled"
    /\ UNCHANGED <<outbox, inbox, storeL, rmsg, nreports, stopping, wpc, cur, linkVars,
                   collectorVars, historyVars, boundVars>>

SignalWork ==
    /\ rpc = "stored"
    /\ work' = TRUE /\ rpc' = "signalled"
    /\ UNCHANGED <<outbox, inbox, storeL, rmsg, nreports, stopping, wpc, cur, linkVars,
                   collectorVars, historyVars, boundVars>>

CommitLocal ==
    /\ rpc = "signalled"
    /\ storeL' = rmsg.val /\ rpc' = "idle" /\ rmsg' = None
    /\ UNCHANGED <<outbox, inbox, nreports, workerVars, linkVars, collectorVars, historyVars,
                   boundVars>>

-----------------------------------------------------------------------------
(* The publisher's worker thread: run() and run_iteration().               *)

Go(pc) == wpc' = pc /\ UNCHANGED <<stopping, work, cur>>

(* close_socket(). An alarm the collector has not read yet may still reach *)
(* it; a reply on its way is lost.                                         *)
CloseSocket ==
    /\ sock' = FALSE /\ peer' = FALSE /\ req' = Nothing /\ resp' = Nothing
    /\ \/ stale' = stale
       \/ \E m \in Msgs : peer /\ req = Alarm(m) /\ stale' = stale \cup {m}
    /\ cfrom' = FALSE
    /\ UNCHANGED <<dirOnDisk, cpc, cmsg, accepted, storeC>>

Exit ==
    /\ wpc = "top" /\ stopping
    /\ CloseSocket /\ Go("exit")
    /\ UNCHANGED <<outbox, inbox, reporterVars, historyVars, boundVars>>

(* run() catches what run_iteration() throws (no memory, a directory that  *)
(* cannot be iterated): the connection is dropped and the round is over.   *)
IterationThrows ==
    /\ (wpc = "top" /\ ~stopping) \/ wpc \in {"ready", "ack", "remove"}
    /\ Fault
    /\ CloseSocket /\ Go("backoff")
    /\ UNCHANGED <<outbox, inbox, reporterVars, historyVars>>

(* next() finds the outbox empty: wait for work, or for the heartbeat's    *)
(* turn when a connection is open.                                         *)
NextEmpty ==
    /\ wpc = "top" /\ ~stopping /\ OutboxFree
    /\ outbox.vis = {}
    /\ Go(IF sock THEN "idle" ELSE "work")
    /\ UNCHANGED <<outbox, inbox, reporterVars, linkVars, collectorVars, historyVars, boundVars>>

(* next() and read(): the first file decodes, or read() quarantines it. *)
NextRead ==
    /\ wpc = "top" /\ ~stopping /\ OutboxFree
    /\ \E m \in outbox.vis :
         /\ IsFirst(outbox, m)
         /\ \/ m \notin outbox.bad /\ wpc' = "ready" /\ cur' = m /\ UNCHANGED outbox
            \/ m \in outbox.bad /\ outbox' = Quarantine(outbox, m) /\ UNCHANGED <<wpc, cur>>
    /\ UNCHANGED <<inbox, stopping, work, reporterVars, linkVars, collectorVars, historyVars,
                   boundVars>>

(* next() or read() fails for another reason than a damaged file. *)
NextFails ==
    /\ wpc = "top" /\ ~stopping /\ OutboxFree /\ Fault
    /\ Go("backoff")
    /\ UNCHANGED <<outbox, inbox, reporterVars, linkVars, collectorVars, historyVars>>

(* wait_for_work(), and wait_idle() when work has come. *)
TakeWork ==
    /\ \/ wpc = "work" /\ (stopping \/ work)
       \/ wpc = "idle" /\ work /\ ~stopping
    /\ work' = FALSE /\ wpc' = "top"
    /\ UNCHANGED <<outbox, inbox, stopping, cur, reporterVars, linkVars, collectorVars,
                   historyVars, boundVars>>

IdleStopped ==
    /\ wpc = "idle" /\ stopping
    /\ Go("top")
    /\ UNCHANGED <<outbox, inbox, reporterVars, linkVars, collectorVars, historyVars, boundVars>>

(* wait_idle() times out: heartbeat() sends a PING. *)
SendPing ==
    /\ wpc = "idle" /\ ~stopping /\ ~work
    /\ req' = IF peer THEN Ping ELSE Nothing
    /\ Go("pong")
    /\ UNCHANGED <<outbox, inbox, sock, peer, resp, stale, reporterVars, collectorVars,
                   historyVars, boundVars>>

ReceivePong ==
    /\ wpc = "pong" /\ resp = Pong
    /\ resp' = Nothing /\ Go("top")
    /\ UNCHANGED <<outbox, inbox, sock, peer, req, stale, reporterVars, collectorVars,
                   historyVars, boundVars>>

(* The connection is gone: reset, end of file, or a failed send. *)
ConnectionLost == ~peer /\ resp = Nothing /\ UNCHANGED boundVars

(* heartbeat() fails: connection lost, stop, or no PONG in time. *)
PingFails ==
    /\ wpc = "pong"
    /\ ConnectionLost \/ (stopping /\ UNCHANGED boundVars) \/ Fault
    /\ CloseSocket /\ Go("backoff")
    /\ UNCHANGED <<outbox, inbox, reporterVars, historyVars>>

(* connect_collector(). A stop aborts it without a backoff. *)
Connect ==
    /\ wpc = "ready" /\ ~sock /\ ~stopping
    /\ cpc # "down"
    /\ sock' = TRUE /\ peer' = TRUE /\ req' = Nothing /\ resp' = Nothing
    /\ UNCHANGED <<outbox, inbox, stale, reporterVars, workerVars, collectorVars, historyVars,
                   boundVars>>

ConnectFails ==
    /\ wpc = "ready" /\ ~sock
    /\ \/ (cpc = "down" \/ stopping) /\ UNCHANGED boundVars
       \/ Fault
    /\ Go(IF stopping THEN "top" ELSE "backoff")
    /\ UNCHANGED <<outbox, inbox, reporterVars, linkVars, collectorVars, historyVars>>

(* Variant: the file is removed as soon as the alarm is sent. *)
SendAlarm_NoAck ==
    /\ wpc = "ready" /\ sock
    /\ req' = IF peer THEN Alarm(cur) ELSE Nothing
    /\ Go("remove")
    /\ UNCHANGED <<outbox, inbox, sock, peer, resp, stale, reporterVars, collectorVars,
                   historyVars, boundVars>>

(* send_alarm_and_wait_ack(): send_all() succeeds into the socket even if  *)
(* the collector has just closed its end.                                  *)
SendAlarm ==
    /\ wpc = "ready" /\ sock
    /\ req' = IF peer THEN Alarm(cur) ELSE Nothing
    /\ Go("ack")
    /\ UNCHANGED <<outbox, inbox, sock, peer, resp, stale, reporterVars, collectorVars,
                   historyVars, boundVars>>

(* Only an ACK with the identity of the alarm sent counts. *)
AckMatches(r) == r = Ack(cur)

ReceiveAck ==
    /\ wpc = "ack"
    /\ AckMatches(resp)
    /\ resp' = Nothing /\ Go("remove")
    /\ UNCHANGED <<outbox, inbox, sock, peer, req, stale, reporterVars, collectorVars,
                   historyVars, boundVars>>

(* SEND_FAILED, ACK_TIMEOUT, INVALID_ACK and STOPPED. *)
DeliveryFails ==
    /\ wpc \in {"ready", "ack"} /\ sock
    /\ \/ ConnectionLost
       \/ (stopping \/ (resp # Nothing /\ ~AckMatches(resp))) /\ UNCHANGED boundVars
       \/ Fault
    /\ CloseSocket
    /\ Go(IF stopping THEN "top" ELSE "backoff")
    /\ UNCHANGED <<outbox, inbox, reporterVars, historyVars>>

(* AlarmSpool::remove() after the ACK. *)
UnlinkAcked ==
    /\ wpc = "remove" /\ OutboxFree
    /\ outbox' = Unlink(outbox, cur)
    /\ Go("unlinked")
    /\ UNCHANGED <<inbox, reporterVars, linkVars, collectorVars, historyVars, boundVars>>

UnlinkFails ==
    /\ wpc = "remove" /\ OutboxFree /\ Fault
    /\ Go("backoff")
    /\ UNCHANGED <<outbox, inbox, reporterVars, linkVars, collectorVars, historyVars>>

RemoveSynced ==
    /\ wpc = "unlinked"
    /\ outbox' = SyncDir(outbox)
    /\ wpc' = "top" /\ cur' = None
    /\ UNCHANGED <<inbox, stopping, work, reporterVars, linkVars, collectorVars, historyVars,
                   boundVars>>

RemoveSyncFails ==
    /\ wpc = "unlinked" /\ Fault
    /\ outbox' \in RemoveUnsynced(outbox)
    /\ Go("backoff")
    /\ UNCHANGED <<inbox, reporterVars, linkVars, collectorVars, historyVars>>

(* wait_backoff() ends with its timer or with stop(). *)
BackoffOver ==
    /\ wpc = "backoff"
    /\ wpc' = "top" /\ cur' = None
    /\ UNCHANGED <<outbox, inbox, stopping, work, reporterVars, linkVars, collectorVars,
                   historyVars, boundVars>>

(* stop(): shuts the socket down and wakes every wait. *)
Stop ==
    /\ wpc \notin {"exit", "down"} /\ ~stopping /\ Crashing
    /\ stopping' = TRUE
    /\ UNCHANGED <<outbox, inbox, work, wpc, cur, reporterVars, linkVars, collectorVars,
                   historyVars>>

(* The publisher's process dies, or its host loses power. *)
PublisherCrash(kind) ==
    /\ wpc # "down" /\ Crashing
    /\ outbox' \in AfterCrash(outbox, kind)
    /\ storeL' = None /\ rpc' = "down" /\ rmsg' = None
    /\ wpc' = "down" /\ cur' = None /\ stopping' = FALSE /\ work' = FALSE
    /\ CloseSocket
    /\ UNCHANGED <<inbox, nreports, historyVars>>

(* initialize() over the files left in pending/. *)
PublisherStart ==
    /\ \/ wpc = "down"
       \/ wpc = "exit" /\ rpc = "idle"
    /\ storeL' = None /\ rpc' = "idle" /\ rmsg' = None
    /\ wpc' = "top" /\ cur' = None /\ stopping' = FALSE /\ work' = FALSE
    /\ UNCHANGED <<outbox, inbox, nreports, linkVars, collectorVars, historyVars, boundVars>>

-----------------------------------------------------------------------------
(* The collector's thread: poll_once(), process_alarm() and recovery.      *)

(* The collector closes the connection a frame came from. A reply it had   *)
(* already sent can still arrive.                                          *)
ClosePeer ==
    IF cfrom
      THEN peer' = FALSE /\ req' = Nothing /\ resp' \in {resp, Nothing} /\ UNCHANGED <<sock, stale>>
      ELSE UNCHANGED linkVars

(* What is left unsynchronised in the new inbox by M's or earlier makers.  *)
Orphan(M) == orphaned' = (orphaned \cup M) \cap (inbox'.vis \ inbox'.dur)

(* queue_control() answers on the connection the frame came from. *)
Reply(r) ==
    IF cfrom /\ peer
      THEN resp' = r /\ UNCHANGED <<sock, peer, req, stale>>
      ELSE UNCHANGED linkVars

(* read_client() takes the next complete frame: an alarm on the current    *)
(* connection or on one the publisher has abandoned.                       *)
ReadAlarm(m) ==
    /\ cpc = "poll"
    /\ \/ peer /\ req = Alarm(m) /\ req' = Nothing /\ cfrom' = TRUE /\ UNCHANGED stale
       \/ m \in stale /\ stale' = stale \ {m} /\ cfrom' = FALSE /\ UNCHANGED req
    /\ cpc' = "alarm" /\ cmsg' = m
    /\ UNCHANGED <<outbox, inbox, sock, peer, resp, dirOnDisk, accepted, storeC,
                   reporterVars, workerVars, historyVars, boundVars>>

AnswerPing ==
    /\ cpc = "poll" /\ peer /\ req = Ping
    /\ req' = Nothing /\ resp' = Pong
    /\ UNCHANGED <<outbox, inbox, sock, peer, stale, reporterVars, workerVars, collectorVars,
                   historyVars, boundVars>>

Done == cpc' = "poll" /\ cmsg' = None /\ cfrom' = FALSE

(* The three ways process_alarm() goes on. In memory already: ACK again.   *)
AckAgain ==
    /\ cpc = "alarm" /\ cmsg \in accepted
    /\ Reply(Ack(cmsg)) /\ Done
    /\ UNCHANGED <<outbox, inbox, dirOnDisk, accepted, storeC, reporterVars, workerVars,
                   historyVars, boundVars>>

(* Variant: the set of accepted identities is not consulted. *)
StoreDuplicate_NoDedup ==
    /\ cpc = "alarm" /\ cmsg \in inbox.vis \ inbox.bad
    /\ cpc' = "stored"
    /\ UNCHANGED <<outbox, inbox, cmsg, cfrom, linkVars, dirOnDisk, accepted, storeC,
                   reporterVars, workerVars, historyVars, boundVars>>

(* On the disk already (DUPLICATE): load_persisted_record(), which         *)
(* quarantines a damaged file, and then the connection is closed.          *)
StoreDuplicate ==
    /\ cpc = "alarm" /\ cmsg \notin accepted /\ cmsg \in inbox.vis
    /\ \/ /\ cmsg \notin inbox.bad
          /\ cpc' = "stored" /\ UNCHANGED <<inbox, cmsg, cfrom, linkVars, orphaned>>
       \/ /\ cmsg \in inbox.bad
          /\ inbox' = Quarantine(inbox, cmsg) /\ ClosePeer /\ Done /\ Orphan({})
    /\ UNCHANGED <<outbox, dirOnDisk, accepted, storeC, reporterVars, workerVars, promised,
                   damaged, swept, boundVars>>

(* Variant: the inbox directory is not synchronised before the ACK. *)
InboxSynced_NoSync ==
    /\ cpc = "renamed"
    /\ cpc' = "stored"
    /\ UNCHANGED <<outbox, inbox, linkVars, dirOnDisk, cmsg, cfrom, accepted, storeC,
                   reporterVars, workerVars, historyVars, boundVars>>

(* New: AlarmSpool::store() up to rename(), in accepted/<source>, which    *)
(* is created when missing and whose own entry is not synchronised.        *)
StoreNew ==
    /\ cpc = "alarm" /\ cmsg \notin accepted /\ cmsg \notin inbox.vis
    /\ inbox' = Rename(inbox, cmsg)
    /\ cpc' = "renamed"
    /\ UNCHANGED <<outbox, linkVars, dirOnDisk, cmsg, cfrom, accepted, storeC, reporterVars,
                   workerVars, historyVars, boundVars>>

InboxSynced ==
    /\ cpc = "renamed"
    /\ inbox' = SyncDir(inbox) /\ Orphan({}) /\ swept' = swept \ inbox.vis
    /\ cpc' = "stored"
    /\ UNCHANGED <<outbox, linkVars, dirOnDisk, cmsg, cfrom, accepted, storeC, reporterVars,
                   workerVars, promised, damaged, boundVars>>

(* A failed store() or a failed ingest closes the connection: no ACK. *)
InboxFails ==
    /\ Fault
    /\ \/ cpc = "alarm" /\ cmsg \notin accepted /\ UNCHANGED <<inbox, orphaned>>
       \/ cpc = "renamed" /\ inbox' \in StoreUndone(inbox, cmsg) /\ Orphan({cmsg})
       \/ cpc = "stored" /\ UNCHANGED <<inbox, orphaned>>
    /\ ClosePeer /\ Done
    /\ UNCHANGED <<outbox, dirOnDisk, accepted, storeC, reporterVars, workerVars, promised,
                   damaged, swept>>

(* Ingest into the receiving Store, record the identity, ACK. *)
IngestAndAck ==
    /\ cpc = "stored"
    /\ storeC' = cmsg.val
    /\ accepted' = accepted \cup {cmsg}
    /\ Reply(Ack(cmsg)) /\ Done
    /\ UNCHANGED <<outbox, inbox, dirOnDisk, reporterVars, workerVars, historyVars, boundVars>>

(* The collector drops the current connection: idle timeout, poll error,   *)
(* client limit.                                                           *)
DropClient ==
    /\ cpc = "poll" /\ peer /\ Fault
    /\ peer' = FALSE /\ req' = Nothing /\ resp' \in {resp, Nothing}
    /\ UNCHANGED <<outbox, inbox, sock, stale, reporterVars, workerVars, collectorVars,
                   historyVars>>

(* The collector's process ends: stopped between two polls, killed, or its *)
(* host loses power. In the last case a directory entry that was never     *)
(* synchronised may take the whole inbox of this source with it.           *)
CollectorGone ==
    /\ cpc' = "down" /\ cmsg' = None /\ cfrom' = FALSE /\ accepted' = {} /\ storeC' = None
    /\ peer' = FALSE /\ req' = Nothing /\ resp' \in {resp, Nothing} /\ stale' = {}
    /\ UNCHANGED <<outbox, sock, reporterVars, workerVars, promised, damaged>>

CollectorStop ==
    /\ cpc = "poll" /\ Crashing
    /\ CollectorGone
    /\ UNCHANGED <<inbox, dirOnDisk, orphaned, swept>>

CollectorCrash(kind) ==
    /\ cpc # "down" /\ Crashing
    /\ CollectorGone
    /\ inbox' \in AfterCrash(inbox, kind)
                    \cup (IF kind = "power" /\ ~dirOnDisk THEN {EmptySpool} ELSE {})
    /\ Orphan(inbox.vis) /\ swept' = swept \cup (orphaned \ inbox'.vis)
    /\ dirOnDisk' = (dirOnDisk \/ (kind = "power" /\ inbox'.vis # {}))

(* The value recover_inbox() leaves: records are ingested by timestamp. *)
RecoversTo(M, v) ==
    \/ M = {} /\ v = None
    \/ \E m \in M : v = m.val /\ \A n \in M : n.ts <= m.ts

(* initialize(): recover_inbox(), damaged files moved away, then listen. *)
CollectorStart ==
    /\ cpc = "down"
    /\ LET good == inbox.vis \ inbox.bad IN
         /\ inbox' = IF inbox.bad = {} THEN inbox ELSE [vis |-> good, dur |-> good, bad |-> {}]
         /\ accepted' = good
         /\ storeC' \in Vals \cup {None} /\ RecoversTo(good, storeC')
    /\ cpc' = "poll" /\ Orphan({})
    /\ UNCHANGED <<outbox, linkVars, dirOnDisk, cmsg, cfrom, reporterVars, workerVars,
                   promised, damaged, swept, boundVars>>

-----------------------------------------------------------------------------
(* Damage on a disk (external): a stored file no longer decodes. *)
Damage ==
    /\ Fault
    /\ \/ \E m \in outbox.vis \ outbox.bad :
            /\ outbox' = [outbox EXCEPT !.bad = @ \cup {m}]
            /\ damaged' = damaged \cup {m} /\ UNCHANGED inbox
       \/ \E m \in inbox.vis \ inbox.bad :
            /\ inbox' = [inbox EXCEPT !.bad = @ \cup {m}]
            /\ damaged' = damaged \cup {m} /\ UNCHANGED outbox
    /\ UNCHANGED <<reporterVars, workerVars, linkVars, collectorVars, promised, orphaned, swept>>

ReporterStep ==
    \/ \E v \in Vals, i \in Ids : Report(v, i)
    \/ StoreSynced \/ StoreSyncFails \/ SignalWork \/ CommitLocal

WorkerStep ==
    \/ Exit \/ IterationThrows \/ NextEmpty \/ NextRead \/ NextFails \/ TakeWork \/ IdleStopped
    \/ SendPing \/ ReceivePong \/ PingFails
    \/ Connect \/ ConnectFails \/ SendAlarm \/ ReceiveAck \/ DeliveryFails
    \/ UnlinkAcked \/ UnlinkFails \/ RemoveSynced \/ RemoveSyncFails \/ BackoffOver

CollectorStep ==
    \/ \E m \in Msgs : ReadAlarm(m)
    \/ AnswerPing \/ AckAgain \/ StoreDuplicate \/ StoreNew \/ InboxSynced \/ InboxFails
    \/ IngestAndAck

Next ==
    \/ ReporterStep \/ WorkerStep \/ CollectorStep
    \/ Stop \/ PublisherStart \/ CollectorStart
    \/ \E kind \in CrashKinds : PublisherCrash(kind) \/ CollectorCrash(kind)
    \/ CollectorStop \/ DropClient \/ Damage

Spec == Init /\ [][Next]_vars

(* Threads that can run do run, and a dead process is started again. The   *)
(* failures are bounded by MaxFaults and MaxCrashes, so they end.          *)
Fairness ==
    /\ WF_vars(StoreSynced \/ SignalWork \/ CommitLocal \/ PublisherStart)
    /\ WF_vars(WorkerStep) /\ WF_vars(CollectorStep \/ CollectorStart)

FairSpec == Spec /\ Fairness

-----------------------------------------------------------------------------
SpoolTypeOK ==
    /\ outbox \in SpoolType(Msgs) /\ inbox \in SpoolType(Msgs)
    /\ promised \in SUBSET Msgs /\ damaged \in SUBSET Msgs
    /\ orphaned \in SUBSET Msgs /\ swept \in SUBSET Msgs

ReporterTypeOK ==
    /\ storeL \in Vals \cup {None} /\ rmsg \in Msgs \cup {None} /\ nreports \in 0..MaxReports
    /\ rpc \in {"idle", "renamed", "stored", "signalled", "down"}
    /\ rpc \in {"renamed", "stored", "signalled"} <=> rmsg # None

WorkerTypeOK ==
    /\ stopping \in BOOLEAN /\ work \in BOOLEAN /\ cur \in Msgs \cup {None}
    /\ wpc \in {"top", "work", "idle", "pong", "ready", "ack", "remove", "unlinked", "backoff",
                "exit", "down"}
    /\ wpc \in {"ready", "ack", "remove", "unlinked"} => cur # None

LinkTypeOK ==
    /\ sock \in BOOLEAN /\ peer \in BOOLEAN /\ req \in Requests /\ resp \in Replies
    /\ stale \in SUBSET Msgs

CollectorTypeOK ==
    /\ dirOnDisk \in BOOLEAN /\ cpc \in {"poll", "alarm", "renamed", "stored", "down"}
    /\ cmsg \in Msgs \cup {None}
    /\ cpc \in {"alarm", "renamed", "stored"} <=> cmsg # None
    /\ cfrom \in BOOLEAN /\ accepted \in SUBSET Msgs /\ storeC \in Vals \cup {None}

BoundTypeOK == crashes \in 0..MaxCrashes /\ faults \in 0..MaxFaults

(* Every variable has its type, and a thread holds a message exactly in    *)
(* the steps that work on one.                                             *)
TypeOK ==
    /\ SpoolTypeOK /\ ReporterTypeOK /\ WorkerTypeOK /\ LinkTypeOK /\ CollectorTypeOK
    /\ BoundTypeOK

(* The crashes the channel tolerates: processes die at both ends, and      *)
(* hosts lose power if the collector's directory for this source was on    *)
(* the disk before.                                                        *)
ToleratedFaults == "power" \in CrashKinds => InboxDirKnown

(* An alarm whose enqueue() returned SUCCESS is never lost: across         *)
(* retries, lost ACKs, failed syncs and restarts of either end its file is *)
(* in the outbox or in the inbox, unless the disk damaged it, or a power   *)
(* loss swept away an inbox file that a collector had left unsynchronised  *)
(* when its process died. The worker removes an outbox file only after the *)
(* matching ACK, and the collector sends that ACK only after               *)
(* AlarmSpool::store().                                                    *)
NoLoss == promised \ (damaged \cup swept) \subseteq outbox.vis \cup inbox.vis

(* An ACK for m is on its way to the publisher, or the worker acts on it. *)
Acknowledged(m) == resp = Ack(m) \/ (wpc \in {"remove", "unlinked"} /\ cur = m)

(* "ACK" means reliably persisted, as alarm_protocol.h and durable() say   *)
(* of it: the inbox file of an acknowledged alarm has a synchronised       *)
(* directory entry, in a directory that is itself on the disk.             *)
AckMeansPersisted ==
    \A m \in Msgs \ damaged :
        Acknowledged(m) => m \in inbox.vis \cap inbox.dur /\ dirOnDisk

(* The part of it the code keeps: an acknowledged alarm is in the inbox    *)
(* and synchronised, whatever failed, died or lost power before, except a  *)
(* file that an earlier process left there between rename() and the sync,  *)
(* which store() takes for a DUPLICATE; and that one is gone only if a     *)
(* power loss swept it away.                                               *)
AckMeansStored ==
    \A m \in Msgs \ (damaged \cup swept) :
        Acknowledged(m) => m \in inbox.vis /\ m \in inbox.dur \cup orphaned /\ dirOnDisk

(* A retransmitted alarm never writes the receiving Store again: within    *)
(* the life of a collector process the Store changes only together with    *)
(* the set of accepted identities, so a delayed duplicate of an old alarm  *)
(* cannot overwrite a newer value.                                         *)
RetransmissionNeverRewrites == [][storeC' # storeC => accepted' # accepted]_vars

(* Every alarm enqueue() promised reaches the collector's inbox once       *)
(* faults stop: the wake-up flag is never lost, failed deliveries are      *)
(* retried, files left in pending/ are picked up after a restart, and so   *)
(* is an alarm whose unsynchronised inbox file was swept away before its   *)
(* outbox file was removed.                                                *)
EventuallyDelivered ==
    \A i \in Ids :
        (\E m \in promised : m.id = i)
          ~> (\E m \in inbox.vis \cup damaged \cup (swept \ outbox.vis) : m.id = i)

=============================================================================
