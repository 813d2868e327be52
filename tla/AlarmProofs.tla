---------------------------- MODULE AlarmProofs -----------------------------
(***************************************************************************)
(* Proofs about the reliable alarm channel, for any number of messages,    *)
(* reports, crashes and faults: type correctness, and that no alarm the    *)
(* publisher promised to deliver is lost.                                  *)
(***************************************************************************)
EXTENDS ReliableAlarm, TLAPS

-----------------------------------------------------------------------------
(* Type correctness of the reliable alarm channel, and the lemmas about    *)
(* spool operations that the later proofs also use.                        *)

(* The fields of a spool after each operation of AlarmSpool. *)
LEMMA SpoolFields ==
    ASSUME NEW M, NEW s \in SpoolType(M), NEW m \in M
    PROVE  /\ s.vis \subseteq M /\ s.dur \subseteq M /\ s.bad \subseteq M
           /\ Rename(s, m).vis = s.vis \cup {m} /\ Rename(s, m).dur = s.dur
           /\ Rename(s, m).bad = s.bad
           /\ SyncDir(s).vis = s.vis /\ SyncDir(s).dur = s.vis /\ SyncDir(s).bad = s.bad
           /\ Unlink(s, m).vis = s.vis \ {m} /\ Unlink(s, m).dur = s.dur
           /\ Unlink(s, m).bad = s.bad \ {m}
           /\ Rename(s, m) \in SpoolType(M) /\ SyncDir(s) \in SpoolType(M)
           /\ Unlink(s, m) \in SpoolType(M)
BY ZenonT(30) DEF SpoolType, Rename, SyncDir, Unlink

(* Quarantine, and what a failed sync can leave. *)
LEMMA SpoolFieldsAfterFailure ==
    ASSUME NEW M, NEW s \in SpoolType(M), NEW m \in M
    PROVE  /\ Quarantine(s, m) \in SpoolType(M)
           /\ Quarantine(s, m).vis = s.vis \ {m} /\ Quarantine(s, m).dur = s.vis \ {m}
           /\ Quarantine(s, m).bad = s.bad \ {m}
           /\ \A t \in RemoveUnsynced(s) :
                /\ t \in SpoolType(M)
                /\ t.vis = s.vis /\ t.dur \in {s.dur, s.vis} /\ t.bad = s.bad
           /\ \A t \in StoreUndone(s, m) :
                /\ t \in SpoolType(M)
                /\ t.vis \in {s.vis, s.vis \ {m}}
                /\ t.dur \in {s.dur, s.vis, s.vis \ {m}} /\ t.bad \subseteq s.bad
<1>1. Quarantine(s, m) \in SpoolType(M) /\ Quarantine(s, m).vis = s.vis \ {m}
        /\ Quarantine(s, m).dur = s.vis \ {m} /\ Quarantine(s, m).bad = s.bad \ {m}
  BY ZenonT(30) DEF Quarantine, SpoolType, SyncDir, Unlink
<1>2. \A t \in RemoveUnsynced(s) :
        t \in SpoolType(M) /\ t.vis = s.vis /\ t.dur \in {s.dur, s.vis} /\ t.bad = s.bad
  BY SpoolFields DEF RemoveUnsynced
<1>3. ASSUME NEW t \in StoreUndone(s, m)
      PROVE  /\ t \in SpoolType(M)
             /\ t.vis \in {s.vis, s.vis \ {m}}
             /\ t.dur \in {s.dur, s.vis, s.vis \ {m}} /\ t.bad \subseteq s.bad
  <2>2. CASE t = Unlink(s, m)
    BY ZenonT(30), <2>2 DEF SpoolType, Unlink
  <2>3. CASE t = Unlink(SyncDir(s), m)
    BY ZenonT(30), <2>3 DEF SpoolType, SyncDir, Unlink
  <2>4. CASE t = SyncDir(Unlink(s, m))
    BY ZenonT(30), <2>4 DEF SpoolType, SyncDir, Unlink
  <2>5. CASE t \in {s, SyncDir(s)}
    BY ZenonT(30), <2>5 DEF SpoolType, SyncDir, Unlink
  <2> QED
    BY ZenonT(30), <2>2, <2>3, <2>4, <2>5 DEF StoreUndone
<1> QED
  BY ZenonT(30), <1>1, <1>2, <1>3

(* What a crash can leave: everything both visible and on the disk stays,  *)
(* nothing new appears; a process crash changes nothing.                   *)
LEMMA SpoolAfterCrash ==
    ASSUME NEW M, NEW s \in SpoolType(M), NEW kind, NEW t \in AfterCrash(s, kind)
    PROVE  /\ t \in SpoolType(M) /\ t.bad \subseteq s.bad
           /\ kind = "process" => t = s
           /\ kind # "process" => t.dur = t.vis /\ s.vis \cap s.dur \subseteq t.vis
<1>1. CASE kind = "process"
  BY ZenonT(30), <1>1 DEF AfterCrash
<1>2. CASE kind # "process"
  <2>1. PICK v \in {w \in SUBSET (s.vis \cup s.dur) : s.vis \cap s.dur \subseteq w} :
           t = [vis |-> v, dur |-> v, bad |-> s.bad \cap v]
    BY ZenonT(30), <1>2 DEF AfterCrash
  <2>2. s.vis \subseteq M /\ s.dur \subseteq M /\ s.bad \subseteq M
    BY ZenonT(30) DEF SpoolType
  <2>3. t.vis = v /\ t.dur = v /\ t.bad = s.bad \cap v
    BY ZenonT(30), <2>1
  <2>4. t \in SpoolType(M)
    BY ZenonT(30), <2>1, <2>2 DEF SpoolType
  <2> QED
    BY ZenonT(30), <1>2, <2>1, <2>3, <2>4
<1> QED
  BY ZenonT(30), <1>1, <1>2


-----------------------------------------------------------------------------
(* The link and collector parts of the type invariant through the          *)
(* sub-actions that close a connection or answer on it.                    *)
LEMMA CloseSocketType ==
    ASSUME LinkTypeOK, CollectorTypeOK, CloseSocket
    PROVE  LinkTypeOK' /\ CollectorTypeOK'
<1>1. LinkTypeOK'
  BY ZenonT(30) DEF LinkTypeOK, CloseSocket, Requests, Replies
<1>2. CollectorTypeOK'
  BY ZenonT(30) DEF CollectorTypeOK, CloseSocket
<1> QED
  BY ZenonT(30), <1>1, <1>2

(* Closing the peer end keeps the type of the connection. *)
LEMMA ClosePeerType ==
    ASSUME LinkTypeOK, ClosePeer
    PROVE  LinkTypeOK'
BY ZenonT(30) DEF LinkTypeOK, ClosePeer, linkVars, Requests, Replies

(* A reply of the collector keeps the type of the connection. *)
LEMMA ReplyType ==
    ASSUME LinkTypeOK, NEW r \in Replies, Reply(r)
    PROVE  LinkTypeOK'
BY ZenonT(30) DEF LinkTypeOK, Reply, linkVars

(* Orphaned files are messages. *)
LEMMA OrphanType ==
    ASSUME inbox' \in SpoolType(Msgs), NEW M, Orphan(M)
    PROVE  orphaned' \in SUBSET Msgs
BY ZenonT(30) DEF Orphan, SpoolType

(* Every step keeps the type invariant. *)
LEMMA TypeStep == TypeOK /\ [Next]_vars => TypeOK'
<1> SUFFICES ASSUME TypeOK, [Next]_vars PROVE TypeOK'
  OBVIOUS
<1> USE NoneAssumption, BoundAssumption, FlagAssumption
    DEF reporterVars, workerVars, linkVars, collectorVars, historyVars, boundVars
<1>0. /\ SpoolTypeOK /\ ReporterTypeOK /\ WorkerTypeOK /\ LinkTypeOK /\ CollectorTypeOK
      /\ BoundTypeOK
  BY ZenonT(30) DEF TypeOK
<1>1. ASSUME NEW v \in Vals, NEW i \in Ids, Report(v, i) PROVE TypeOK'
  <2>0. NewMsg(v, i) \in Msgs
    BY <1>0, <1>1 DEF Report, NewMsg, Msgs, ReporterTypeOK
  <2>1. SpoolTypeOK'
    BY ZenonT(30), <1>0, <1>1, <2>0, SpoolFields DEF Report, SpoolTypeOK
  <2>2. ReporterTypeOK'
    BY <1>0, <1>1, <2>0 DEF Report, ReporterTypeOK
  <2>3. WorkerTypeOK'
    BY ZenonT(30), <1>0, <1>1 DEF Report, WorkerTypeOK
  <2>4. LinkTypeOK'
    BY ZenonT(30), <1>0, <1>1 DEF Report, LinkTypeOK
  <2>5. CollectorTypeOK'
    BY ZenonT(30), <1>0, <1>1 DEF Report, CollectorTypeOK
  <2>6. BoundTypeOK'
    BY ZenonT(30), <1>0, <1>1 DEF Report, BoundTypeOK
  <2> QED
    BY ZenonT(30), <2>1, <2>2, <2>3, <2>4, <2>5, <2>6 DEF TypeOK
<1>2. CASE StoreSynced
  BY <1>0, <1>2, SpoolFields
     DEF StoreSynced, TypeOK, SpoolTypeOK, ReporterTypeOK, WorkerTypeOK, LinkTypeOK,
         CollectorTypeOK, BoundTypeOK
<1>3. CASE StoreSyncFails
  BY SMTT(30), <1>0, <1>3, SpoolFieldsAfterFailure
     DEF StoreSyncFails, Fault, TypeOK, SpoolTypeOK, ReporterTypeOK, WorkerTypeOK, LinkTypeOK,
         CollectorTypeOK, BoundTypeOK
<1>4. CASE SignalWork
  BY <1>0, <1>4
     DEF SignalWork, TypeOK, SpoolTypeOK, ReporterTypeOK, WorkerTypeOK, LinkTypeOK,
         CollectorTypeOK, BoundTypeOK
<1>5. CASE CommitLocal
  BY <1>0, <1>5
     DEF CommitLocal, Msgs, TypeOK, SpoolTypeOK, ReporterTypeOK, WorkerTypeOK, LinkTypeOK,
         CollectorTypeOK, BoundTypeOK
<1>6. CASE Exit
  <2>1. SpoolTypeOK'
    BY ZenonT(30), <1>0, <1>6 DEF Exit, SpoolTypeOK
  <2>2. ReporterTypeOK'
    BY ZenonT(30), <1>0, <1>6 DEF Exit, ReporterTypeOK
  <2>3. WorkerTypeOK'
    BY ZenonT(30), <1>0, <1>6 DEF Exit, Go, WorkerTypeOK
  <2>4. LinkTypeOK'
    BY ZenonT(30), <1>0, <1>6, CloseSocketType DEF Exit, LinkTypeOK
  <2>5. CollectorTypeOK'
    BY ZenonT(30), <1>0, <1>6, CloseSocketType DEF Exit, CollectorTypeOK
  <2>6. BoundTypeOK'
    BY ZenonT(30), <1>0, <1>6 DEF Exit, BoundTypeOK
  <2> QED
    BY ZenonT(30), <2>1, <2>2, <2>3, <2>4, <2>5, <2>6 DEF TypeOK
<1>7. CASE NextEmpty
  BY <1>0, <1>7
     DEF NextEmpty, Go, TypeOK, SpoolTypeOK, ReporterTypeOK, WorkerTypeOK, LinkTypeOK,
         CollectorTypeOK, BoundTypeOK
<1>8. CASE NextRead
  <2>1. SpoolTypeOK'
    <3>1. PICK m \in outbox.vis :
             \/ UNCHANGED outbox
             \/ outbox' = Quarantine(outbox, m)
      BY ZenonT(30), <1>8 DEF NextRead
    <3>2. m \in Msgs /\ UNCHANGED <<inbox, promised, damaged, orphaned, swept>>
      BY ZenonT(30), <1>0, <1>8, <3>1 DEF NextRead, SpoolTypeOK, SpoolType
    <3> QED
      BY <1>0, <3>1, <3>2, SpoolFieldsAfterFailure DEF SpoolTypeOK
  <2>2. ReporterTypeOK'
    BY ZenonT(30), <1>0, <1>8 DEF NextRead, ReporterTypeOK
  <2>3. WorkerTypeOK'
    <3>1. PICK m \in outbox.vis : (wpc' = "ready" /\ cur' = m) \/ UNCHANGED <<wpc, cur>>
      BY ZenonT(30), <1>8 DEF NextRead
    <3>2. m \in Msgs
      BY ZenonT(30), <1>0, <3>1 DEF SpoolTypeOK, SpoolType
    <3> QED
      BY ZenonT(30), <1>0, <1>8, <3>1, <3>2 DEF NextRead, WorkerTypeOK
  <2>4. LinkTypeOK'
    BY ZenonT(30), <1>0, <1>8 DEF NextRead, LinkTypeOK
  <2>5. CollectorTypeOK'
    BY ZenonT(30), <1>0, <1>8 DEF NextRead, CollectorTypeOK
  <2>6. BoundTypeOK'
    BY ZenonT(30), <1>0, <1>8 DEF NextRead, BoundTypeOK
  <2> QED
    BY ZenonT(30), <2>1, <2>2, <2>3, <2>4, <2>5, <2>6 DEF TypeOK
<1>9. CASE TakeWork
  <2>1. SpoolTypeOK'
    BY ZenonT(30), <1>0, <1>9 DEF TakeWork, SpoolTypeOK
  <2>2. ReporterTypeOK'
    BY ZenonT(30), <1>0, <1>9 DEF TakeWork, ReporterTypeOK
  <2>3. WorkerTypeOK'
    BY ZenonT(30), <1>0, <1>9 DEF TakeWork, WorkerTypeOK
  <2>4. LinkTypeOK'
    BY ZenonT(30), <1>0, <1>9 DEF TakeWork, LinkTypeOK
  <2>5. CollectorTypeOK'
    BY ZenonT(30), <1>0, <1>9 DEF TakeWork, CollectorTypeOK
  <2>6. BoundTypeOK'
    BY ZenonT(30), <1>0, <1>9 DEF TakeWork, BoundTypeOK
  <2> QED
    BY ZenonT(30), <2>1, <2>2, <2>3, <2>4, <2>5, <2>6 DEF TypeOK
<1>10. CASE IdleStopped
  BY <1>0, <1>10
     DEF IdleStopped, Go, TypeOK, SpoolTypeOK, ReporterTypeOK, WorkerTypeOK, LinkTypeOK,
         CollectorTypeOK, BoundTypeOK
<1>11. CASE SendPing
  BY <1>0, <1>11
     DEF SendPing, Go, Requests, Ping, TypeOK, SpoolTypeOK, ReporterTypeOK, WorkerTypeOK,
         LinkTypeOK, CollectorTypeOK, BoundTypeOK
<1>12. CASE ReceivePong
  BY <1>0, <1>12
     DEF ReceivePong, Go, Replies, TypeOK, SpoolTypeOK, ReporterTypeOK, WorkerTypeOK,
         LinkTypeOK, CollectorTypeOK, BoundTypeOK
<1>13. CASE PingFails
  <2>1. SpoolTypeOK'
    BY ZenonT(30), <1>0, <1>13 DEF PingFails, SpoolTypeOK
  <2>2. ReporterTypeOK'
    BY ZenonT(30), <1>0, <1>13 DEF PingFails, ReporterTypeOK
  <2>3. WorkerTypeOK'
    BY ZenonT(30), <1>0, <1>13 DEF PingFails, Go, WorkerTypeOK
  <2>4. LinkTypeOK'
    BY ZenonT(30), <1>0, <1>13, CloseSocketType DEF PingFails, LinkTypeOK
  <2>5. CollectorTypeOK'
    BY ZenonT(30), <1>0, <1>13, CloseSocketType DEF PingFails, CollectorTypeOK
  <2>6. BoundTypeOK'
    BY <1>0, <1>13 DEF PingFails, Fault, ConnectionLost, BoundTypeOK
  <2> QED
    BY ZenonT(30), <2>1, <2>2, <2>3, <2>4, <2>5, <2>6 DEF TypeOK
<1>14. CASE Connect
  BY ZenonT(30), <1>0, <1>14
     DEF Connect, Requests, Replies, TypeOK, SpoolTypeOK, ReporterTypeOK, WorkerTypeOK,
         LinkTypeOK, CollectorTypeOK, BoundTypeOK
<1>15. CASE ConnectFails
  BY <1>0, <1>15
     DEF ConnectFails, Go, Fault, TypeOK, SpoolTypeOK, ReporterTypeOK, WorkerTypeOK, LinkTypeOK,
         CollectorTypeOK, BoundTypeOK
<1>16. CASE SendAlarm
  BY <1>0, <1>16
     DEF SendAlarm, Go, Requests, TypeOK, SpoolTypeOK, ReporterTypeOK, WorkerTypeOK, LinkTypeOK,
         CollectorTypeOK, BoundTypeOK
<1>17. CASE ReceiveAck
  BY <1>0, <1>17
     DEF ReceiveAck, Go, Replies, TypeOK, SpoolTypeOK, ReporterTypeOK, WorkerTypeOK, LinkTypeOK,
         CollectorTypeOK, BoundTypeOK
<1>18. CASE DeliveryFails
  <2>1. SpoolTypeOK'
    BY ZenonT(30), <1>0, <1>18 DEF DeliveryFails, SpoolTypeOK
  <2>2. ReporterTypeOK'
    BY ZenonT(30), <1>0, <1>18 DEF DeliveryFails, ReporterTypeOK
  <2>3. WorkerTypeOK'
    BY ZenonT(30), <1>0, <1>18 DEF DeliveryFails, Go, WorkerTypeOK
  <2>4. LinkTypeOK'
    BY ZenonT(30), <1>0, <1>18, CloseSocketType DEF DeliveryFails, LinkTypeOK
  <2>5. CollectorTypeOK'
    BY ZenonT(30), <1>0, <1>18, CloseSocketType DEF DeliveryFails, CollectorTypeOK
  <2>6. BoundTypeOK'
    BY <1>0, <1>18 DEF DeliveryFails, Fault, ConnectionLost, BoundTypeOK
  <2> QED
    BY ZenonT(30), <2>1, <2>2, <2>3, <2>4, <2>5, <2>6 DEF TypeOK
<1>19. CASE UnlinkAcked
  BY <1>0, <1>19, SpoolFields
     DEF UnlinkAcked, Go, TypeOK, SpoolTypeOK, ReporterTypeOK, WorkerTypeOK, LinkTypeOK,
         CollectorTypeOK, BoundTypeOK
<1>20. CASE UnlinkFails
  BY <1>0, <1>20
     DEF UnlinkFails, Go, Fault, TypeOK, SpoolTypeOK, ReporterTypeOK, WorkerTypeOK, LinkTypeOK,
         CollectorTypeOK, BoundTypeOK
<1>21. CASE RemoveSynced
  BY <1>0, <1>21, SpoolFields
     DEF RemoveSynced, TypeOK, SpoolTypeOK, ReporterTypeOK, WorkerTypeOK, LinkTypeOK,
         CollectorTypeOK, BoundTypeOK
<1>22. CASE RemoveSyncFails
  BY <1>0, <1>22, SpoolFieldsAfterFailure
     DEF RemoveSyncFails, Go, Fault, TypeOK, SpoolTypeOK, ReporterTypeOK, WorkerTypeOK,
         LinkTypeOK, CollectorTypeOK, BoundTypeOK
<1>23. CASE BackoffOver
  BY <1>0, <1>23
     DEF BackoffOver, TypeOK, SpoolTypeOK, ReporterTypeOK, WorkerTypeOK, LinkTypeOK,
         CollectorTypeOK, BoundTypeOK
<1>24. CASE AnswerPing
  BY <1>0, <1>24
     DEF AnswerPing, Requests, Replies, TypeOK, SpoolTypeOK, ReporterTypeOK, WorkerTypeOK,
         LinkTypeOK, CollectorTypeOK, BoundTypeOK
<1>25. CASE AckAgain
  <2>1. SpoolTypeOK'
    BY ZenonT(30), <1>0, <1>25 DEF AckAgain, SpoolTypeOK
  <2>2. ReporterTypeOK'
    BY ZenonT(30), <1>0, <1>25 DEF AckAgain, ReporterTypeOK
  <2>3. WorkerTypeOK'
    BY ZenonT(30), <1>0, <1>25 DEF AckAgain, WorkerTypeOK
  <2>4. LinkTypeOK'
    BY ZenonT(30), <1>0, <1>25, ReplyType DEF AckAgain, Replies, CollectorTypeOK, LinkTypeOK
  <2>5. CollectorTypeOK'
    BY ZenonT(30), <1>0, <1>25 DEF AckAgain, Done, CollectorTypeOK
  <2>6. BoundTypeOK'
    BY ZenonT(30), <1>0, <1>25 DEF AckAgain, BoundTypeOK
  <2> QED
    BY ZenonT(30), <2>1, <2>2, <2>3, <2>4, <2>5, <2>6 DEF TypeOK
<1>26. CASE StoreDuplicate
  <2>1. SpoolTypeOK'
    <3>1. CASE UNCHANGED <<inbox, orphaned>>
      BY ZenonT(30), <1>0, <1>26, <3>1 DEF StoreDuplicate, SpoolTypeOK
    <3>2. CASE inbox' = Quarantine(inbox, cmsg) /\ Orphan({})
      <4>1. inbox' \in SpoolType(Msgs)
        BY ZenonT(30), <1>0, <3>2 DEF SpoolTypeOK, SpoolType, Quarantine, SyncDir, Unlink
      <4> QED
        BY ZenonT(30), <1>0, <1>26, <3>2, <4>1, OrphanType DEF StoreDuplicate, SpoolTypeOK
    <3> QED
      BY ZenonT(30), <1>26, <3>1, <3>2 DEF StoreDuplicate
  <2>2. ReporterTypeOK'
    BY ZenonT(30), <1>0, <1>26 DEF StoreDuplicate, ReporterTypeOK
  <2>3. WorkerTypeOK'
    BY ZenonT(30), <1>0, <1>26 DEF StoreDuplicate, WorkerTypeOK
  <2>4. LinkTypeOK'
    BY ZenonT(30), <1>0, <1>26, ClosePeerType DEF StoreDuplicate, LinkTypeOK
  <2>5. CollectorTypeOK'
    BY ZenonT(30), <1>0, <1>26 DEF StoreDuplicate, Done, CollectorTypeOK
  <2>6. BoundTypeOK'
    BY ZenonT(30), <1>0, <1>26 DEF StoreDuplicate, BoundTypeOK
  <2> QED
    BY ZenonT(30), <2>1, <2>2, <2>3, <2>4, <2>5, <2>6 DEF TypeOK
<1>27. CASE StoreNew
  <2>1. SpoolTypeOK'
    BY ZenonT(30), <1>0, <1>27, SpoolFields DEF StoreNew, CollectorTypeOK, SpoolTypeOK
  <2>2. ReporterTypeOK'
    BY ZenonT(30), <1>0, <1>27 DEF StoreNew, ReporterTypeOK
  <2>3. WorkerTypeOK'
    BY ZenonT(30), <1>0, <1>27 DEF StoreNew, WorkerTypeOK
  <2>4. LinkTypeOK'
    BY ZenonT(30), <1>0, <1>27 DEF StoreNew, LinkTypeOK
  <2>5. CollectorTypeOK'
    BY ZenonT(30), <1>0, <1>27 DEF StoreNew, CollectorTypeOK
  <2>6. BoundTypeOK'
    BY ZenonT(30), <1>0, <1>27 DEF StoreNew, BoundTypeOK
  <2> QED
    BY ZenonT(30), <2>1, <2>2, <2>3, <2>4, <2>5, <2>6 DEF TypeOK
<1>28. CASE InboxSynced
  <2>1. SpoolTypeOK'
    <3>1. inbox' \in SpoolType(Msgs)
      BY ZenonT(30), <1>0, <1>28 DEF InboxSynced, SpoolTypeOK, SpoolType, SyncDir
    <3> QED
      BY ZenonT(30), <1>0, <1>28, <3>1, OrphanType DEF InboxSynced, SpoolTypeOK
  <2>2. ReporterTypeOK'
    BY ZenonT(30), <1>0, <1>28 DEF InboxSynced, ReporterTypeOK
  <2>3. WorkerTypeOK'
    BY ZenonT(30), <1>0, <1>28 DEF InboxSynced, WorkerTypeOK
  <2>4. LinkTypeOK'
    BY ZenonT(30), <1>0, <1>28 DEF InboxSynced, LinkTypeOK
  <2>5. CollectorTypeOK'
    BY ZenonT(30), <1>0, <1>28 DEF InboxSynced, CollectorTypeOK
  <2>6. BoundTypeOK'
    BY ZenonT(30), <1>0, <1>28 DEF InboxSynced, BoundTypeOK
  <2> QED
    BY ZenonT(30), <2>1, <2>2, <2>3, <2>4, <2>5, <2>6 DEF TypeOK
<1>29. CASE InboxFails
  <2>1. SpoolTypeOK'
    <3>1. CASE UNCHANGED <<inbox, orphaned>>
      BY ZenonT(30), <1>0, <1>29, <3>1 DEF InboxFails, SpoolTypeOK
    <3>2. CASE cmsg \in Msgs /\ inbox' \in StoreUndone(inbox, cmsg) /\ Orphan({cmsg})
      <4>1. inbox' \in SpoolType(Msgs)
        BY ZenonT(30), <1>0, <3>2, SpoolFieldsAfterFailure DEF SpoolTypeOK
      <4> QED
        BY ZenonT(30), <1>0, <1>29, <3>2, <4>1, OrphanType DEF InboxFails, SpoolTypeOK
    <3> QED
      BY ZenonT(30), <1>0, <1>29, <3>1, <3>2 DEF InboxFails, CollectorTypeOK
  <2>2. ReporterTypeOK'
    BY ZenonT(30), <1>0, <1>29 DEF InboxFails, ReporterTypeOK
  <2>3. WorkerTypeOK'
    BY ZenonT(30), <1>0, <1>29 DEF InboxFails, WorkerTypeOK
  <2>4. LinkTypeOK'
    BY ZenonT(30), <1>0, <1>29, ClosePeerType DEF InboxFails, LinkTypeOK
  <2>5. CollectorTypeOK'
    BY ZenonT(30), <1>0, <1>29 DEF InboxFails, Done, CollectorTypeOK
  <2>6. BoundTypeOK'
    BY <1>0, <1>29 DEF InboxFails, Fault, BoundTypeOK
  <2> QED
    BY ZenonT(30), <2>1, <2>2, <2>3, <2>4, <2>5, <2>6 DEF TypeOK
<1>30. CASE IngestAndAck
  <2>1. SpoolTypeOK'
    BY ZenonT(30), <1>0, <1>30 DEF IngestAndAck, SpoolTypeOK
  <2>2. ReporterTypeOK'
    BY ZenonT(30), <1>0, <1>30 DEF IngestAndAck, ReporterTypeOK
  <2>3. WorkerTypeOK'
    BY ZenonT(30), <1>0, <1>30 DEF IngestAndAck, WorkerTypeOK
  <2>4. LinkTypeOK'
    BY ZenonT(30), <1>0, <1>30, ReplyType DEF IngestAndAck, Replies, CollectorTypeOK, LinkTypeOK
  <2>5. CollectorTypeOK'
    BY ZenonT(30), <1>0, <1>30 DEF IngestAndAck, Done, Msgs, CollectorTypeOK
  <2>6. BoundTypeOK'
    BY ZenonT(30), <1>0, <1>30 DEF IngestAndAck, BoundTypeOK
  <2> QED
    BY ZenonT(30), <2>1, <2>2, <2>3, <2>4, <2>5, <2>6 DEF TypeOK
<1>31. CASE Stop
  BY <1>0, <1>31
     DEF Stop, Crashing, TypeOK, SpoolTypeOK, ReporterTypeOK, WorkerTypeOK, LinkTypeOK,
         CollectorTypeOK, BoundTypeOK
<1>32. CASE PublisherStart
  <2>1. SpoolTypeOK'
    BY ZenonT(30), <1>0, <1>32 DEF PublisherStart, SpoolTypeOK
  <2>2. ReporterTypeOK'
    BY ZenonT(30), <1>0, <1>32 DEF PublisherStart, ReporterTypeOK
  <2>3. WorkerTypeOK'
    BY ZenonT(30), <1>0, <1>32 DEF PublisherStart, WorkerTypeOK
  <2>4. LinkTypeOK'
    BY ZenonT(30), <1>0, <1>32 DEF PublisherStart, LinkTypeOK
  <2>5. CollectorTypeOK'
    BY ZenonT(30), <1>0, <1>32 DEF PublisherStart, CollectorTypeOK
  <2>6. BoundTypeOK'
    BY ZenonT(30), <1>0, <1>32 DEF PublisherStart, BoundTypeOK
  <2> QED
    BY ZenonT(30), <2>1, <2>2, <2>3, <2>4, <2>5, <2>6 DEF TypeOK
<1>33. CASE CollectorStart
  <2>1. SpoolTypeOK'
    <3>1. inbox' \in SpoolType(Msgs)
      BY ZenonT(30), <1>0, <1>33 DEF CollectorStart, SpoolTypeOK, SpoolType
    <3> QED
      BY ZenonT(30), <1>0, <1>33, <3>1, OrphanType DEF CollectorStart, SpoolTypeOK
  <2>2. ReporterTypeOK'
    BY ZenonT(30), <1>0, <1>33 DEF CollectorStart, ReporterTypeOK
  <2>3. WorkerTypeOK'
    BY ZenonT(30), <1>0, <1>33 DEF CollectorStart, WorkerTypeOK
  <2>4. LinkTypeOK'
    BY ZenonT(30), <1>0, <1>33 DEF CollectorStart, LinkTypeOK
  <2>5. CollectorTypeOK'
    BY ZenonT(30), <1>0, <1>33 DEF CollectorStart, CollectorTypeOK, SpoolTypeOK, SpoolType
  <2>6. BoundTypeOK'
    BY ZenonT(30), <1>0, <1>33 DEF CollectorStart, BoundTypeOK
  <2> QED
    BY ZenonT(30), <2>1, <2>2, <2>3, <2>4, <2>5, <2>6 DEF TypeOK
<1>34. CASE CollectorStop
  <2>1. SpoolTypeOK'
    BY ZenonT(30), <1>0, <1>34 DEF CollectorStop, CollectorGone, SpoolTypeOK
  <2>2. ReporterTypeOK'
    BY ZenonT(30), <1>0, <1>34 DEF CollectorStop, CollectorGone, ReporterTypeOK
  <2>3. WorkerTypeOK'
    BY ZenonT(30), <1>0, <1>34 DEF CollectorStop, CollectorGone, WorkerTypeOK
  <2>4. LinkTypeOK'
    BY ZenonT(30), <1>0, <1>34 DEF CollectorStop, CollectorGone, Requests, Replies, LinkTypeOK
  <2>5. CollectorTypeOK'
    BY ZenonT(30), <1>0, <1>34 DEF CollectorStop, CollectorGone, CollectorTypeOK
  <2>6. BoundTypeOK'
    BY <1>0, <1>34 DEF CollectorStop, Crashing, BoundTypeOK
  <2> QED
    BY ZenonT(30), <2>1, <2>2, <2>3, <2>4, <2>5, <2>6 DEF TypeOK
<1>35. CASE DropClient
  <2>1. SpoolTypeOK'
    BY ZenonT(30), <1>0, <1>35 DEF DropClient, SpoolTypeOK
  <2>2. ReporterTypeOK'
    BY ZenonT(30), <1>0, <1>35 DEF DropClient, ReporterTypeOK
  <2>3. WorkerTypeOK'
    BY ZenonT(30), <1>0, <1>35 DEF DropClient, WorkerTypeOK
  <2>4. LinkTypeOK'
    BY ZenonT(30), <1>0, <1>35 DEF DropClient, Requests, Replies, LinkTypeOK
  <2>5. CollectorTypeOK'
    BY ZenonT(30), <1>0, <1>35 DEF DropClient, CollectorTypeOK
  <2>6. BoundTypeOK'
    BY <1>0, <1>35 DEF DropClient, Fault, BoundTypeOK
  <2> QED
    BY ZenonT(30), <2>1, <2>2, <2>3, <2>4, <2>5, <2>6 DEF TypeOK
<1>36. CASE Damage
  BY <1>0, <1>36
     DEF Damage, Fault, SpoolType, TypeOK, SpoolTypeOK, ReporterTypeOK, WorkerTypeOK,
         LinkTypeOK, CollectorTypeOK, BoundTypeOK
<1>37. ASSUME NEW m \in Msgs, ReadAlarm(m) PROVE TypeOK'
  <2>1. SpoolTypeOK'
    BY ZenonT(30), <1>0, <1>37 DEF ReadAlarm, SpoolTypeOK
  <2>2. ReporterTypeOK'
    BY ZenonT(30), <1>0, <1>37 DEF ReadAlarm, ReporterTypeOK
  <2>3. WorkerTypeOK'
    BY ZenonT(30), <1>0, <1>37 DEF ReadAlarm, WorkerTypeOK
  <2>4. LinkTypeOK'
    BY ZenonT(30), <1>0, <1>37 DEF ReadAlarm, Requests, LinkTypeOK
  <2>5. CollectorTypeOK'
    BY ZenonT(30), <1>0, <1>37 DEF ReadAlarm, CollectorTypeOK
  <2>6. BoundTypeOK'
    BY ZenonT(30), <1>0, <1>37 DEF ReadAlarm, BoundTypeOK
  <2> QED
    BY ZenonT(30), <2>1, <2>2, <2>3, <2>4, <2>5, <2>6 DEF TypeOK
<1>38. ASSUME NEW kind \in CrashKinds, PublisherCrash(kind) PROVE TypeOK'
  <2>1. SpoolTypeOK'
    BY ZenonT(30), <1>0, <1>38, SpoolAfterCrash DEF PublisherCrash, SpoolTypeOK
  <2>2. ReporterTypeOK'
    BY ZenonT(30), <1>0, <1>38 DEF PublisherCrash, ReporterTypeOK
  <2>3. WorkerTypeOK'
    BY ZenonT(30), <1>0, <1>38 DEF PublisherCrash, WorkerTypeOK
  <2>4. LinkTypeOK'
    BY ZenonT(30), <1>0, <1>38, CloseSocketType DEF PublisherCrash, LinkTypeOK
  <2>5. CollectorTypeOK'
    BY ZenonT(30), <1>0, <1>38, CloseSocketType DEF PublisherCrash, CollectorTypeOK
  <2>6. BoundTypeOK'
    BY <1>0, <1>38 DEF PublisherCrash, Crashing, BoundTypeOK
  <2> QED
    BY ZenonT(30), <2>1, <2>2, <2>3, <2>4, <2>5, <2>6 DEF TypeOK
<1>39. ASSUME NEW kind \in CrashKinds, CollectorCrash(kind) PROVE TypeOK'
  <2>1. SpoolTypeOK'
    <3>1. EmptySpool \in SpoolType(Msgs)
      BY ZenonT(30) DEF EmptySpool, SpoolType
    <3>2. inbox' \in AfterCrash(inbox, kind) \/ inbox' = EmptySpool
      BY ZenonT(30), <1>39 DEF CollectorCrash
    <3>3. inbox' \in SpoolType(Msgs)
      BY ZenonT(30), <1>0, <3>1, <3>2, SpoolAfterCrash DEF SpoolTypeOK
    <3> QED
      BY ZenonT(30), <1>0, <1>39, <3>3, OrphanType DEF CollectorCrash, CollectorGone, SpoolTypeOK
  <2>2. ReporterTypeOK'
    BY ZenonT(30), <1>0, <1>39 DEF CollectorCrash, CollectorGone, ReporterTypeOK
  <2>3. WorkerTypeOK'
    BY ZenonT(30), <1>0, <1>39 DEF CollectorCrash, CollectorGone, WorkerTypeOK
  <2>4. LinkTypeOK'
    BY ZenonT(30), <1>0, <1>39 DEF CollectorCrash, CollectorGone, Requests, Replies, LinkTypeOK
  <2>5. CollectorTypeOK'
    BY ZenonT(30), <1>0, <1>39 DEF CollectorCrash, CollectorGone, CollectorTypeOK
  <2>6. BoundTypeOK'
    <3>1. Crashing
      BY ZenonT(30), <1>39 DEF CollectorCrash
    <3> QED
      BY <1>0, <3>1 DEF Crashing, BoundTypeOK
  <2> QED
    BY ZenonT(30), <2>1, <2>2, <2>3, <2>4, <2>5, <2>6 DEF TypeOK
<1>40. CASE UNCHANGED vars
  BY <1>0, <1>40
     DEF vars, TypeOK, SpoolTypeOK, ReporterTypeOK, WorkerTypeOK, LinkTypeOK, CollectorTypeOK,
         BoundTypeOK
<1>41. CASE IterationThrows
  <2>1. SpoolTypeOK'
    BY ZenonT(30), <1>0, <1>41 DEF IterationThrows, SpoolTypeOK
  <2>2. ReporterTypeOK'
    BY ZenonT(30), <1>0, <1>41 DEF IterationThrows, ReporterTypeOK
  <2>3. WorkerTypeOK'
    BY ZenonT(30), <1>0, <1>41 DEF IterationThrows, Go, WorkerTypeOK
  <2>4. LinkTypeOK'
    BY ZenonT(30), <1>0, <1>41, CloseSocketType DEF IterationThrows, LinkTypeOK
  <2>5. CollectorTypeOK'
    BY ZenonT(30), <1>0, <1>41, CloseSocketType DEF IterationThrows, CollectorTypeOK
  <2>6. BoundTypeOK'
    BY <1>0, <1>41 DEF IterationThrows, Fault, BoundTypeOK
  <2> QED
    BY ZenonT(30), <2>1, <2>2, <2>3, <2>4, <2>5, <2>6 DEF TypeOK
<1>42. CASE NextFails
  BY <1>0, <1>42
     DEF NextFails, Go, Fault, TypeOK, SpoolTypeOK, ReporterTypeOK, WorkerTypeOK, LinkTypeOK,
         CollectorTypeOK, BoundTypeOK
<1> QED
  BY ZenonT(30), <1>1, <1>2, <1>3, <1>4, <1>5, <1>6, <1>7, <1>8, <1>9, <1>10, <1>11, <1>12,
     <1>13, <1>14, <1>15, <1>16, <1>17, <1>18, <1>19, <1>20, <1>21, <1>22, <1>23, <1>24,
     <1>25, <1>26, <1>27, <1>28, <1>29, <1>30, <1>31, <1>32, <1>33, <1>34, <1>35, <1>36,
     <1>37, <1>38, <1>39, <1>40, <1>41, <1>42
     DEF Next, ReporterStep, WorkerStep, CollectorStep


(* The initial states have their types. *)
LEMMA InitType == Init => TypeOK
<1> SUFFICES ASSUME Init PROVE TypeOK
  OBVIOUS
<1> USE NoneAssumption, BoundAssumption, FlagAssumption DEF Init
<1>1. SpoolTypeOK
  BY ZenonT(30) DEF SpoolTypeOK, EmptySpool, SpoolType
<1>2. ReporterTypeOK
  BY DEF ReporterTypeOK
<1>3. WorkerTypeOK
  BY ZenonT(30) DEF WorkerTypeOK
<1>4. LinkTypeOK
  BY ZenonT(30) DEF LinkTypeOK, Requests, Replies
<1>5. CollectorTypeOK
  BY ZenonT(30) DEF CollectorTypeOK
<1>6. BoundTypeOK
  BY DEF BoundTypeOK
<1> QED
  BY ZenonT(30), <1>1, <1>2, <1>3, <1>4, <1>5, <1>6 DEF TypeOK

(* Type correctness, for every value of the constants. *)
THEOREM TypeCorrect == Spec => []TypeOK
BY InitType, TypeStep, PTL DEF Spec

-----------------------------------------------------------------------------
(* The invariant by which no promised alarm is lost, and the publisher's   *)
(* half of its proof: the steps that change the outbox, and the steps that *)
(* change neither spool.                                                   *)

(* What the channel does not answer for. *)
Excused == damaged \cup swept

(* The file survives every crash; or it would, but for a power loss after  *)
(* an earlier process left it unsynchronised.                              *)
Kept(s, m) == m \in s.vis /\ m \in s.dur
Held(s, left, m) == m \in s.vis /\ m \in s.dur \cup left

(* Where a promised alarm is. *)
PromiseKept == \A m \in promised \ Excused : Kept(outbox, m) \/ Held(inbox, orphaned, m)

(* What the collector has acknowledged, is about to acknowledge, or the    *)
(* worker takes for acknowledged, is in the inbox.                         *)
AcceptedKept == \A m \in accepted \ Excused : Held(inbox, orphaned, m)
StoredKept == cpc = "stored" /\ cmsg \notin Excused => Held(inbox, orphaned, cmsg)
AckKept == \A m \in Msgs \ Excused : resp = Ack(m) => Held(inbox, orphaned, m)
RemoveKept ==
    wpc \in {"remove", "unlinked"} /\ cur \notin Excused => Held(inbox, orphaned, cur)

(* An alarm between rename() and sync in the inbox may still be unlinked,  *)
(* so nobody counts on it yet and the outbox still has it.                 *)
RenamedUncounted ==
    cpc = "renamed" =>
        /\ cmsg \in inbox.vis
        /\ cmsg \notin Excused =>
             /\ cmsg \notin accepted /\ resp # Ack(cmsg)
             /\ ~(wpc \in {"remove", "unlinked"} /\ cur = cmsg)
             /\ cmsg \in promised => Kept(outbox, cmsg)

(* Only that alarm's inbox entry and the orphaned ones can be missing on   *)
(* the disk, and a directory that was there stays there.                   *)
InboxOnDisk ==
    /\ InboxDirKnown => dirOnDisk
    /\ \A m \in inbox.vis \ inbox.dur : m \in orphaned \/ (cpc = "renamed" /\ m = cmsg)

(* The outbox entry being made is new. *)
ReportNew == rpc = "renamed" => rmsg \in outbox.vis /\ rmsg \notin promised

BadIsDamaged == outbox.bad \subseteq damaged /\ inbox.bad \subseteq damaged

Safe ==
    /\ PromiseKept /\ AcceptedKept /\ StoredKept /\ AckKept /\ RemoveKept
    /\ RenamedUncounted /\ InboxOnDisk /\ ReportNew /\ BadIsDamaged

IInv == TypeOK /\ Safe

-----------------------------------------------------------------------------
(* An ACK is no other reply. *)
LEMMA AckIsAck == \A m : Ack(m) # Nothing /\ Ack(m) # Pong
BY DEF Ack, Nothing, Pong

(* The publisher's side: a step that leaves the inbox and what the         *)
(* collector has accepted alone keeps the safety part, provided that the   *)
(* outbox keeps what is promised except an acknowledged file being         *)
(* removed, that no ACK is invented, and that the worker reaches the       *)
(* removal of a file only with its ACK.                                    *)
LEMMA PublisherFrame ==
    ASSUME IInv, SpoolTypeOK',
           UNCHANGED <<inbox, damaged, orphaned, swept, accepted, dirOnDisk>>,
           cpc = "renamed" => cpc' = cpc,
           cpc' \in {"renamed", "stored"} => cpc' = cpc /\ cmsg' = cmsg,
           resp' \in {resp, Nothing, Pong},
           wpc' \in {"remove", "unlinked"} =>
               \/ wpc \in {"remove", "unlinked"} /\ cur' = cur
               \/ resp = Ack(cur') /\ cur' \in Msgs,
           outbox'.bad \subseteq outbox.bad,
           \A m \in promised' \ Excused :
               Kept(outbox, m) \/ m \notin promised =>
                   Kept(outbox', m) \/ (wpc = "remove" /\ m = cur),
           rpc' = "renamed" => rmsg' \in outbox'.vis /\ rmsg' \notin promised'
    PROVE  Safe'
<1>0. \A m : resp' = Ack(m) => resp = Ack(m)
  BY ZenonT(30), AckIsAck
<1>a. /\ Excused' = Excused
      /\ \A m : Held(inbox, orphaned, m)' <=> Held(inbox, orphaned, m)
  BY ZenonT(30) DEF Excused, Held
<1>b. /\ PromiseKept /\ AcceptedKept /\ StoredKept /\ AckKept /\ RemoveKept
      /\ RenamedUncounted /\ InboxOnDisk /\ BadIsDamaged
  BY ZenonT(30) DEF IInv, Safe
<1>1. PromiseKept'
  <2> SUFFICES ASSUME NEW m \in promised' \ Excused
               PROVE  Kept(outbox', m) \/ Held(inbox, orphaned, m)
    BY ZenonT(30), <1>a DEF PromiseKept, Kept
  <2> QED
    BY ZenonT(30), <1>b DEF PromiseKept, RemoveKept
<1>2. AcceptedKept' /\ StoredKept' /\ InboxOnDisk'
  BY <1>a, <1>b DEF AcceptedKept, StoredKept, InboxOnDisk
<1>3. AckKept'
  BY ZenonT(30), <1>0, <1>a, <1>b DEF AckKept
<1>4. RemoveKept'
  BY ZenonT(30), <1>a, <1>b DEF RemoveKept, AckKept
<1>5. RenamedUncounted'
  <2> SUFFICES ASSUME cpc' = "renamed"
               PROVE  /\ cmsg' \in inbox.vis
                      /\ cmsg' \notin Excused =>
                           /\ cmsg' \notin accepted /\ resp' # Ack(cmsg')
                           /\ ~(wpc' \in {"remove", "unlinked"} /\ cur' = cmsg')
                           /\ cmsg' \in promised' => Kept(outbox', cmsg')
    BY ZenonT(30), <1>a DEF RenamedUncounted, Kept
  <2>1. cpc = "renamed" /\ cmsg' = cmsg
    OBVIOUS
  <2>2. /\ cmsg \in inbox.vis
        /\ cmsg \notin Excused =>
             /\ cmsg \notin accepted /\ resp # Ack(cmsg)
             /\ ~(wpc \in {"remove", "unlinked"} /\ cur = cmsg)
             /\ cmsg \in promised => Kept(outbox, cmsg)
    BY ZenonT(30), <1>b, <2>1 DEF RenamedUncounted
  <2> QED
    BY <1>0, <2>1, <2>2
<1>6. ReportNew'
  BY DEF ReportNew
<1>7. BadIsDamaged'
  BY ZenonT(30), <1>b DEF BadIsDamaged
<1> QED
  BY ZenonT(30), <1>1, <1>2, <1>3, <1>4, <1>5, <1>6, <1>7 DEF Safe


(* Steps that leave both spools and what is promised alone. *)
LEMMA SpoolsUnchanged ==
    ASSUME IInv, SpoolTypeOK',
           UNCHANGED <<outbox, inbox, promised, damaged, orphaned, swept, accepted, dirOnDisk>>,
           cpc = "renamed" => cpc' = cpc,
           cpc' \in {"renamed", "stored"} => cpc' = cpc /\ cmsg' = cmsg,
           resp' \in {resp, Nothing, Pong},
           wpc' \in {"remove", "unlinked"} =>
               \/ wpc \in {"remove", "unlinked"} /\ cur' = cur
               \/ resp = Ack(cur') /\ cur' \in Msgs,
           rpc' = "renamed" => rpc = "renamed" /\ rmsg' = rmsg
    PROVE  Safe'
<1>1. rpc' = "renamed" => rmsg' \in outbox'.vis /\ rmsg' \notin promised'
  BY DEF IInv, Safe, ReportNew
<1>2. \A m \in promised' \ Excused :
        Kept(outbox, m) \/ m \notin promised => Kept(outbox', m) \/ (wpc = "remove" /\ m = cur)
  OBVIOUS
<1> QED
  BY <1>1, <1>2, PublisherFrame

(* Every step of the reporter, the worker or the network keeps Safe. *)
LEMMA QuietStep ==
    ASSUME IInv, SpoolTypeOK',
           SignalWork \/ CommitLocal \/ Exit \/ NextEmpty \/ TakeWork \/ IdleStopped \/
             SendPing \/ ReceivePong \/ PingFails \/ Connect \/ ConnectFails \/ SendAlarm \/
             ReceiveAck \/ DeliveryFails \/ UnlinkFails \/ BackoffOver \/ Stop \/ AnswerPing \/
             DropClient \/ PublisherStart \/ IterationThrows \/ NextFails
    PROVE  Safe'
<1> USE DEF reporterVars, workerVars, linkVars, collectorVars, historyVars, boundVars
<1>1. CASE SignalWork
  BY <1>1, SpoolsUnchanged DEF SignalWork
<1>2. CASE CommitLocal
  BY <1>2, SpoolsUnchanged DEF CommitLocal
<1>3. CASE Exit
  BY <1>3, SpoolsUnchanged DEF Exit, Go, CloseSocket
<1>4. CASE NextEmpty
  BY <1>4, SpoolsUnchanged DEF NextEmpty, Go
<1>5. CASE TakeWork
  BY <1>5, SpoolsUnchanged DEF TakeWork
<1>6. CASE IdleStopped
  BY <1>6, SpoolsUnchanged DEF IdleStopped, Go
<1>7. CASE SendPing
  BY <1>7, SpoolsUnchanged DEF SendPing, Go
<1>8. CASE ReceivePong
  BY <1>8, SpoolsUnchanged DEF ReceivePong, Go
<1>9. CASE PingFails
  BY <1>9, SpoolsUnchanged DEF PingFails, Go, CloseSocket
<1>10. CASE Connect
  BY <1>10, SpoolsUnchanged DEF Connect
<1>11. CASE ConnectFails
  BY <1>11, SpoolsUnchanged DEF ConnectFails, Go
<1>12. CASE SendAlarm
  BY ZenonT(30), <1>12, SpoolsUnchanged DEF SendAlarm, Go
<1>13. CASE ReceiveAck
  BY ZenonT(30), <1>13, SpoolsUnchanged DEF ReceiveAck, Go, AckMatches, IInv, TypeOK, WorkerTypeOK
<1>14. CASE DeliveryFails
  BY <1>14, SpoolsUnchanged DEF DeliveryFails, Go, CloseSocket
<1>15. CASE UnlinkFails
  BY <1>15, SpoolsUnchanged DEF UnlinkFails, Go
<1>16. CASE BackoffOver
  BY <1>16, SpoolsUnchanged DEF BackoffOver
<1>17. CASE Stop
  BY <1>17, SpoolsUnchanged DEF Stop
<1>18. CASE AnswerPing
  BY <1>18, SpoolsUnchanged DEF AnswerPing
<1>19. CASE DropClient
  BY <1>19, SpoolsUnchanged DEF DropClient
<1>20. CASE PublisherStart
  BY <1>20, SpoolsUnchanged DEF PublisherStart
<1>21. CASE IterationThrows
  BY <1>21, SpoolsUnchanged DEF IterationThrows, Go, CloseSocket
<1>22. CASE NextFails
  BY <1>22, SpoolsUnchanged DEF NextFails, Go
<1> QED
  BY <1>1, <1>2, <1>3, <1>4, <1>5, <1>6, <1>7, <1>8, <1>9, <1>10, <1>11, <1>12,
     <1>13, <1>14, <1>15, <1>16, <1>17, <1>18, <1>19, <1>20, <1>21, <1>22

(* The steps that change the outbox. *)
LEMMA OutboxStep ==
    ASSUME IInv, SpoolTypeOK', CrashKinds \subseteq {"process", "power"},
           \/ \E v \in Vals, i \in Ids : Report(v, i)
           \/ StoreSynced \/ StoreSyncFails
           \/ NextRead \/ UnlinkAcked \/ RemoveSynced \/ RemoveSyncFails
           \/ \E kind \in CrashKinds : PublisherCrash(kind)
    PROVE  Safe'
<1> USE DEF reporterVars, workerVars, linkVars, collectorVars, historyVars, boundVars
<1>0. /\ outbox \in SpoolType(Msgs) /\ promised \subseteq Msgs
      /\ rpc = "renamed" => rmsg \in Msgs /\ rmsg \in outbox.vis /\ rmsg \notin promised
      /\ wpc \in {"remove", "unlinked"} => cur \in Msgs
      /\ outbox.vis \subseteq Msgs
      /\ outbox.bad \subseteq damaged
  BY ZenonT(30) DEF IInv, TypeOK, SpoolTypeOK, ReporterTypeOK, WorkerTypeOK, Safe, ReportNew, SpoolType,
         BadIsDamaged
<1>1. ASSUME NEW v \in Vals, NEW i \in Ids, Report(v, i) PROVE Safe'
  <2>1. NewMsg(v, i) \in Msgs
    BY SMTT(30), <1>1, BoundAssumption DEF Report, NewMsg, Msgs, IInv, TypeOK, ReporterTypeOK
  <2>2. NewMsg(v, i) \notin promised
    <3>1. NewMsg(v, i).id = i
      BY DEF NewMsg
    <3> QED
      BY <1>1, <3>1 DEF Report, UsedIds
  <2>3. /\ outbox'.vis = outbox.vis \cup {NewMsg(v, i)} /\ outbox'.dur = outbox.dur
        /\ outbox'.bad = outbox.bad
    BY ZenonT(30), <1>0, <1>1 DEF Report, Rename, SpoolType
  <2>4. \A m \in promised' \ Excused :
          Kept(outbox, m) \/ m \notin promised => Kept(outbox', m) \/ (wpc = "remove" /\ m = cur)
    BY <1>1, <2>3 DEF Report, Kept
  <2> QED
    BY ZenonT(30), <1>1, <2>2, <2>3, <2>4, PublisherFrame DEF Report
<1>2. CASE StoreSynced
  <2>1. outbox'.vis = outbox.vis /\ outbox'.dur = outbox.vis /\ outbox'.bad = outbox.bad
    BY <1>0, <1>2, SpoolFields DEF StoreSynced
  <2>2. \A m \in promised' \ Excused :
          Kept(outbox, m) \/ m \notin promised => Kept(outbox', m) \/ (wpc = "remove" /\ m = cur)
    BY ZenonT(30), <1>0, <1>2, <2>1 DEF StoreSynced, Kept
  <2> QED
    BY ZenonT(30), <1>2, <2>1, <2>2, PublisherFrame DEF StoreSynced
<1>3. CASE StoreSyncFails
  <2>1. /\ outbox.vis \ {rmsg} \subseteq outbox'.vis
        /\ outbox'.dur \in {outbox.dur, outbox.vis, outbox.vis \ {rmsg}}
        /\ outbox'.bad \subseteq outbox.bad
    <3>1. rmsg \in Msgs /\ outbox' \in StoreUndone(outbox, rmsg)
      BY ZenonT(30), <1>0, <1>3 DEF StoreSyncFails
    <3>2. /\ outbox'.vis \in {outbox.vis, outbox.vis \ {rmsg}}
          /\ outbox'.dur \in {outbox.dur, outbox.vis, outbox.vis \ {rmsg}}
          /\ outbox'.bad \subseteq outbox.bad
      BY ZenonT(30), <1>0, <3>1, SpoolFieldsAfterFailure
    <3> QED
      BY ZenonT(30), <3>2
  <2>2. \A m \in promised' \ Excused :
          Kept(outbox, m) \/ m \notin promised => Kept(outbox', m) \/ (wpc = "remove" /\ m = cur)
    BY <1>0, <1>3, <2>1 DEF StoreSyncFails, Kept
  <2> QED
    BY ZenonT(30), <1>3, <2>1, <2>2, PublisherFrame DEF StoreSyncFails
<1>4. CASE NextRead
  <2>1. PICK n \in outbox.vis :
           \/ wpc' = "ready" /\ UNCHANGED outbox
           \/ n \in outbox.bad /\ outbox' = Quarantine(outbox, n) /\ UNCHANGED <<wpc, cur>>
    BY ZenonT(30), <1>4 DEF NextRead
  <2>2. CASE wpc' = "ready" /\ UNCHANGED outbox
    BY ZenonT(30), <1>4, <2>2, SpoolsUnchanged DEF NextRead
  <2>3. CASE n \in outbox.bad /\ outbox' = Quarantine(outbox, n) /\ UNCHANGED <<wpc, cur>>
    <3>1. /\ outbox'.vis = outbox.vis \ {n} /\ outbox'.dur = outbox.vis \ {n}
          /\ outbox'.bad = outbox.bad \ {n}
      BY ZenonT(30), <1>0, <2>3 DEF Quarantine, SyncDir, Unlink, SpoolType
    <3>2. \A m \in promised' \ Excused :
            Kept(outbox, m) \/ m \notin promised => Kept(outbox', m) \/ (wpc = "remove" /\ m = cur)
      BY ZenonT(30), <1>0, <1>4, <2>3, <3>1 DEF NextRead, Kept, Excused
    <3> QED
      BY <1>0, <1>4, <2>3, <3>1, <3>2, PublisherFrame DEF NextRead, OutboxFree
  <2> QED
    BY ZenonT(30), <2>1, <2>2, <2>3
<1>5. CASE UnlinkAcked
  <2>1. /\ outbox'.vis = outbox.vis \ {cur} /\ outbox'.dur = outbox.dur
        /\ outbox'.bad \subseteq outbox.bad
    BY ZenonT(30), <1>0, <1>5 DEF UnlinkAcked, Unlink, SpoolType
  <2>2. \A m \in promised' \ Excused :
          Kept(outbox, m) \/ m \notin promised => Kept(outbox', m) \/ (wpc = "remove" /\ m = cur)
    BY ZenonT(30), <1>0, <1>5, <2>1 DEF UnlinkAcked, Kept
  <2> QED
    BY ZenonT(30), <1>0, <1>5, <2>1, <2>2, PublisherFrame DEF UnlinkAcked, OutboxFree, Go
<1>6. CASE RemoveSynced
  <2>1. outbox'.vis = outbox.vis /\ outbox'.dur = outbox.vis /\ outbox'.bad = outbox.bad
    BY ZenonT(30), <1>0, <1>6 DEF RemoveSynced, SyncDir, SpoolType
  <2>2. \A m \in promised' \ Excused :
          Kept(outbox, m) \/ m \notin promised => Kept(outbox', m) \/ (wpc = "remove" /\ m = cur)
    BY ZenonT(30), <1>6, <2>1 DEF RemoveSynced, Kept
  <2> QED
    BY ZenonT(30), <1>0, <1>6, <2>1, <2>2, PublisherFrame DEF RemoveSynced
<1>7. CASE RemoveSyncFails
  <2>1. /\ outbox'.vis = outbox.vis /\ outbox'.dur \in {outbox.dur, outbox.vis}
        /\ outbox'.bad = outbox.bad
    BY ZenonT(30), <1>0, <1>7 DEF RemoveSyncFails, RemoveUnsynced, SyncDir, SpoolType
  <2>2. \A m \in promised' \ Excused :
          Kept(outbox, m) \/ m \notin promised => Kept(outbox', m) \/ (wpc = "remove" /\ m = cur)
    BY ZenonT(30), <1>7, <2>1 DEF RemoveSyncFails, Kept
  <2> QED
    BY ZenonT(30), <1>0, <1>7, <2>1, <2>2, PublisherFrame DEF RemoveSyncFails, Go
<1>8. ASSUME NEW kind \in CrashKinds, PublisherCrash(kind) PROVE Safe'
  <2>1. /\ outbox'.bad \subseteq outbox.bad
        /\ kind = "process" => outbox' = outbox
        /\ kind # "process" => /\ outbox'.dur = outbox'.vis
                               /\ outbox.vis \cap outbox.dur \subseteq outbox'.vis
    BY ZenonT(30), <1>0, <1>8, SpoolAfterCrash DEF PublisherCrash
  <2>3. \A m \in promised' \ Excused :
          Kept(outbox, m) \/ m \notin promised => Kept(outbox', m) \/ (wpc = "remove" /\ m = cur)
    BY ZenonT(30), <1>8, <2>1 DEF PublisherCrash, Kept
  <2> QED
    BY ZenonT(30), <1>8, <2>1, <2>3, PublisherFrame DEF PublisherCrash, CloseSocket
<1> QED
  BY <1>1, <1>2, <1>3, <1>4, <1>5, <1>6, <1>7, <1>8

-----------------------------------------------------------------------------
(* The collector's half of the invariant's proof, and the theorems: no     *)
(* alarm the publisher promised is lost, for any number of messages,       *)
(* reports, crashes and faults.                                            *)

(* The collector's side: a step that leaves the publisher alone keeps the  *)
(* safety part, provided that the inbox loses at most the file whose       *)
(* rename() is being undone and files it is excused for, that an excuse    *)
(* ends only with the file in the inbox, that a new ACK is for such a      *)
(* file, and that the collector's own parts hold again.                    *)
LEMMA CollectorFrame ==
    ASSUME IInv,
           UNCHANGED <<outbox, promised, rpc, rmsg, wpc, cur, damaged>>,
           inbox'.bad \subseteq damaged,
           \A m \in Msgs \ Excused' : m \in Excused => Held(inbox', orphaned', m),
           \A m \in Msgs \ Excused' :
               Held(inbox, orphaned, m) =>
                   Held(inbox', orphaned', m) \/ (cpc = "renamed" /\ m = cmsg),
           \A m \in Msgs \ Excused' :
               resp' = Ack(m) => resp = Ack(m) \/ Held(inbox', orphaned', m),
           AcceptedKept', StoredKept', InboxOnDisk', RenamedUncounted'
    PROVE  Safe'
<1>0. promised \subseteq Msgs /\ (wpc \in {"remove", "unlinked"} => cur \in Msgs)
  BY ZenonT(30) DEF IInv, TypeOK, SpoolTypeOK, WorkerTypeOK
<1>a. PromiseKept /\ AckKept /\ RemoveKept /\ RenamedUncounted /\ ReportNew /\ BadIsDamaged
  BY ZenonT(30) DEF IInv, Safe
<1>1. PromiseKept'
  <2> SUFFICES ASSUME NEW m \in promised \ Excused'
               PROVE  Kept(outbox, m) \/ Held(inbox', orphaned', m)
    BY ZenonT(30) DEF PromiseKept, Kept, Held
  <2>1. m \in Msgs /\ (m \in Excused => Held(inbox', orphaned', m))
    BY ZenonT(30), <1>0
  <2>2. m \notin Excused => Kept(outbox, m) \/ Held(inbox, orphaned, m)
    BY ZenonT(30), <1>a DEF PromiseKept
  <2>3. m \notin Excused /\ cpc = "renamed" /\ m = cmsg => Kept(outbox, m)
    BY ZenonT(30), <1>a DEF RenamedUncounted
  <2> QED
    BY ZenonT(30), <2>1, <2>2, <2>3
<1>2. AckKept'
  <2> SUFFICES ASSUME NEW m \in Msgs \ Excused', resp' = Ack(m)
               PROVE  Held(inbox', orphaned', m)
    BY ZenonT(30) DEF AckKept, Held
  <2> QED
    BY ZenonT(30), <1>a DEF AckKept, RenamedUncounted
<1>3. RemoveKept'
  <2> SUFFICES ASSUME wpc \in {"remove", "unlinked"}, cur \notin Excused'
               PROVE  Held(inbox', orphaned', cur)
    BY ZenonT(30) DEF RemoveKept, Held
  <2> QED
    BY ZenonT(30), <1>0, <1>a DEF RemoveKept, RenamedUncounted
<1>4. ReportNew' /\ BadIsDamaged'
  BY ZenonT(30), <1>a DEF ReportNew, BadIsDamaged
<1> QED
  BY ZenonT(30), <1>1, <1>2, <1>3, <1>4 DEF Safe

(* The same for a step that leaves the inbox alone. *)
LEMMA InboxUnchanged ==
    ASSUME IInv,
           UNCHANGED <<outbox, promised, rpc, rmsg, wpc, cur, damaged>>,
           UNCHANGED <<inbox, orphaned, swept, dirOnDisk>>,
           cpc # "renamed", cpc' # "renamed",
           \A m \in Msgs \ Excused :
               resp' = Ack(m) => resp = Ack(m) \/ Held(inbox, orphaned, m),
           \A m \in accepted' \ Excused : Held(inbox, orphaned, m),
           cpc' = "stored" /\ cmsg' \notin Excused => Held(inbox, orphaned, cmsg')
    PROVE  Safe'
<1>1. Excused' = Excused
  BY ZenonT(30) DEF Excused
<1>2. inbox'.bad \subseteq damaged
  BY ZenonT(30) DEF IInv, Safe, BadIsDamaged
<1>3. AcceptedKept' /\ StoredKept'
  BY ZenonT(30), <1>1 DEF AcceptedKept, StoredKept, Held
<1>4. InboxOnDisk' /\ RenamedUncounted'
  BY ZenonT(30) DEF IInv, Safe, InboxOnDisk, RenamedUncounted
<1> QED
  BY ZenonT(30), <1>1, <1>2, <1>3, <1>4, CollectorFrame

(* The steps of the collector. *)
LEMMA CollectorKeeps ==
    ASSUME IInv, SpoolTypeOK', ToleratedFaults,
           \/ \E m \in Msgs : ReadAlarm(m)
           \/ AckAgain \/ StoreDuplicate \/ StoreNew \/ InboxSynced \/ InboxFails
           \/ IngestAndAck \/ CollectorStop \/ CollectorStart
           \/ \E kind \in CrashKinds : CollectorCrash(kind)
    PROVE  Safe'
<1> USE DEF reporterVars, workerVars, linkVars, collectorVars, historyVars, boundVars
<1>0. /\ inbox \in SpoolType(Msgs) /\ inbox.vis \subseteq Msgs /\ inbox.bad \subseteq damaged
      /\ cpc \in {"alarm", "renamed", "stored"} => cmsg \in Msgs
      /\ accepted \subseteq Msgs
  BY DEF IInv, TypeOK, SpoolTypeOK, CollectorTypeOK, Safe, BadIsDamaged, SpoolType
<1>a. AcceptedKept /\ StoredKept /\ InboxOnDisk /\ RenamedUncounted /\ AckKept /\ PromiseKept
      /\ RemoveKept
  BY ZenonT(30) DEF IInv, Safe
<1>1. ASSUME NEW m \in Msgs, ReadAlarm(m) PROVE Safe'
  BY ZenonT(30), <1>1, SpoolsUnchanged DEF ReadAlarm
<1>2. CASE AckAgain
  <2>1. /\ resp' \in {resp, Ack(cmsg)} /\ cpc = "alarm" /\ cpc' = "poll" /\ cmsg \in accepted
        /\ UNCHANGED accepted
    BY ZenonT(30), <1>2 DEF AckAgain, Reply, Done
  <2>2. \A m \in Msgs \ Excused : resp' = Ack(m) => resp = Ack(m) \/ Held(inbox, orphaned, m)
    BY <1>a, <2>1 DEF AcceptedKept, Ack
  <2> QED
    BY ZenonT(30), <1>2, <1>a, <2>1, <2>2, InboxUnchanged DEF AckAgain, AcceptedKept
<1>3. CASE StoreDuplicate
  <2>1. CASE cmsg \notin inbox.bad /\ cpc' = "stored"
             /\ UNCHANGED <<inbox, cmsg, cfrom, linkVars, orphaned>>
    <3>1. cpc = "alarm" /\ Held(inbox, orphaned, cmsg)
      BY ZenonT(30), <1>3, <1>a DEF StoreDuplicate, InboxOnDisk, Held
    <3> QED
      BY ZenonT(30), <1>3, <1>a, <2>1, <3>1, InboxUnchanged DEF StoreDuplicate, AcceptedKept
  <2>2. CASE cmsg \in inbox.bad /\ inbox' = Quarantine(inbox, cmsg) /\ ClosePeer /\ Done
             /\ Orphan({})
    <3>1. /\ inbox'.vis = inbox.vis \ {cmsg} /\ inbox'.dur = inbox.vis \ {cmsg}
          /\ inbox'.bad \subseteq damaged
      BY ZenonT(30), <1>0, <2>2 DEF Quarantine, SyncDir, Unlink, SpoolType
    <3>2. /\ cmsg \in Excused /\ cpc = "alarm" /\ cpc' = "poll" /\ resp' \in {resp, Nothing}
          /\ Excused' = Excused /\ UNCHANGED <<accepted, dirOnDisk>>
      BY ZenonT(30), <1>0, <1>3, <2>2 DEF StoreDuplicate, ClosePeer, Done, Excused
    <3>3. \A m \in Msgs \ Excused : Held(inbox, orphaned, m) => Held(inbox', orphaned', m)
      BY ZenonT(30), <3>1, <3>2 DEF Held
    <3>4. AcceptedKept' /\ StoredKept' /\ InboxOnDisk' /\ RenamedUncounted'
      BY ZenonT(30), <1>0, <1>a, <3>1, <3>2, <3>3
         DEF AcceptedKept, StoredKept, InboxOnDisk, RenamedUncounted, Held
    <3>5. \A m \in Msgs : resp' = Ack(m) => resp = Ack(m)
      BY ZenonT(30), <3>2, AckIsAck
    <3> QED
      BY ZenonT(30), <1>3, <3>1, <3>2, <3>3, <3>4, <3>5, CollectorFrame DEF StoreDuplicate
  <2> QED
    BY ZenonT(30), <1>3, <2>1, <2>2 DEF StoreDuplicate
<1>4. CASE StoreNew
  <2>1. /\ inbox'.vis = inbox.vis \cup {cmsg} /\ inbox'.dur = inbox.dur /\ inbox'.bad = inbox.bad
        /\ cmsg \in Msgs /\ cmsg \notin inbox.vis /\ cmsg \notin accepted
        /\ cpc = "alarm" /\ cpc' = "renamed"
    BY <1>0, <1>4 DEF StoreNew, Rename, SpoolType
  <2>2. UNCHANGED <<outbox, resp, wpc, cur, cmsg, accepted, promised, damaged, orphaned, swept,
                    dirOnDisk>>
    BY ZenonT(30), <1>4 DEF StoreNew
  <2>3. Excused' = Excused
    BY ZenonT(30), <2>2 DEF Excused
  <2>4. \A m : Held(inbox, orphaned, m) => Held(inbox', orphaned', m)
    BY ZenonT(30), <2>1, <2>2 DEF Held
  <2>5. AcceptedKept' /\ StoredKept' /\ InboxOnDisk'
    BY ZenonT(30), <1>a, <2>1, <2>2, <2>3, <2>4 DEF AcceptedKept, StoredKept, InboxOnDisk
  <2>6. RenamedUncounted'
    <3>1. ~Held(inbox, orphaned, cmsg)
      BY ZenonT(30), <2>1 DEF Held
    <3>2. cmsg \notin Excused =>
            /\ resp # Ack(cmsg) /\ ~(wpc \in {"remove", "unlinked"} /\ cur = cmsg)
            /\ cmsg \in promised => Kept(outbox, cmsg)
      BY ZenonT(30), <1>a, <2>1, <3>1 DEF AckKept, RemoveKept, PromiseKept
    <3> QED
      BY ZenonT(30), <2>1, <2>2, <2>3, <3>2 DEF RenamedUncounted, Kept
  <2> QED
    BY ZenonT(30), <1>0, <1>4, <2>1, <2>2, <2>3, <2>4, <2>5, <2>6, CollectorFrame DEF StoreNew
<1>5. CASE InboxSynced
  <2>1. /\ inbox'.vis = inbox.vis /\ inbox'.dur = inbox.vis /\ inbox'.bad = inbox.bad
        /\ cpc = "renamed" /\ cpc' = "stored" /\ swept' = swept \ inbox.vis
        /\ UNCHANGED <<resp, cmsg, accepted, damaged, dirOnDisk>>
    BY ZenonT(30), <1>0, <1>5 DEF InboxSynced, SyncDir, SpoolType
  <2>2. cmsg \in inbox.vis
    BY ZenonT(30), <1>a, <2>1 DEF RenamedUncounted
  <2>3. \A m \in inbox.vis : Held(inbox', orphaned', m)
    BY ZenonT(30), <2>1 DEF Held
  <2>4. \A m \in Excused : m \in Excused' \/ m \in inbox.vis
    BY ZenonT(30), <2>1 DEF Excused
  <2>5. \A m : Held(inbox, orphaned, m) => m \in inbox.vis
    BY ZenonT(30) DEF Held
  <2>6. AcceptedKept' /\ StoredKept' /\ InboxOnDisk' /\ RenamedUncounted'
    BY ZenonT(30), <1>a, <2>1, <2>2, <2>3, <2>4, <2>5
       DEF AcceptedKept, StoredKept, InboxOnDisk, RenamedUncounted
  <2> QED
    BY ZenonT(30), <1>0, <1>5, <2>1, <2>3, <2>4, <2>5, <2>6, CollectorFrame DEF InboxSynced
<1>6. CASE InboxFails
  <2>1. /\ cpc' = "poll" /\ resp' \in {resp, Nothing} /\ Excused' = Excused
        /\ UNCHANGED <<accepted, damaged, swept, dirOnDisk>>
    BY ZenonT(30), <1>6 DEF InboxFails, ClosePeer, Done, Excused
  <2>2. \A m \in Msgs : resp' = Ack(m) => resp = Ack(m)
    BY ZenonT(30), <2>1, AckIsAck
  <2>3. CASE cpc \in {"alarm", "stored"} /\ UNCHANGED <<inbox, orphaned>>
    BY ZenonT(30), <1>6, <1>a, <2>1, <2>2, <2>3, InboxUnchanged DEF InboxFails, AcceptedKept
  <2>4. CASE cpc = "renamed" /\ inbox' \in StoreUndone(inbox, cmsg) /\ Orphan({cmsg})
    <3>1. /\ inbox'.vis \in {inbox.vis, inbox.vis \ {cmsg}}
          /\ inbox'.dur \in {inbox.dur, inbox.vis, inbox.vis \ {cmsg}}
          /\ inbox'.bad \subseteq inbox.bad
      BY ZenonT(30), <1>0, <2>4, SpoolFieldsAfterFailure
    <3>2. orphaned' = (orphaned \cup {cmsg}) \cap (inbox'.vis \ inbox'.dur)
      BY ZenonT(30), <2>4 DEF Orphan
    <3>3. \A m : Held(inbox, orphaned, m) /\ m # cmsg => Held(inbox', orphaned', m)
      BY ZenonT(30), <3>1, <3>2 DEF Held
    <3>4. AcceptedKept'
      BY ZenonT(30), <1>0, <1>a, <2>1, <2>4, <3>3 DEF AcceptedKept, RenamedUncounted
    <3>5. StoredKept' /\ InboxOnDisk' /\ RenamedUncounted'
      BY ZenonT(30), <1>a, <2>1, <2>4, <3>1, <3>2 DEF StoredKept, InboxOnDisk, RenamedUncounted
    <3> QED
      BY ZenonT(30), <1>0, <1>6, <2>1, <2>2, <2>4, <3>1, <3>3, <3>4, <3>5, CollectorFrame
         DEF InboxFails
  <2> QED
    BY ZenonT(30), <1>6, <2>3, <2>4 DEF InboxFails
<1>7. CASE IngestAndAck
  <2>1. /\ resp' \in {resp, Ack(cmsg)} /\ cpc = "stored" /\ cpc' = "poll"
        /\ accepted' = accepted \cup {cmsg}
    BY ZenonT(30), <1>7 DEF IngestAndAck, Reply, Done
  <2>2. \A m \in Msgs \ Excused : resp' = Ack(m) => resp = Ack(m) \/ Held(inbox, orphaned, m)
    BY <1>a, <2>1 DEF StoredKept, Ack
  <2>3. \A m \in accepted' \ Excused : Held(inbox, orphaned, m)
    BY ZenonT(30), <1>a, <2>1 DEF StoredKept, AcceptedKept
  <2> QED
    BY ZenonT(30), <1>7, <2>1, <2>2, <2>3, InboxUnchanged DEF IngestAndAck
<1>8. CASE CollectorStop
  <2>1. cpc = "poll" /\ cpc' = "down" /\ accepted' = {} /\ resp' \in {resp, Nothing}
    BY ZenonT(30), <1>8 DEF CollectorStop, CollectorGone
  <2>2. \A m \in Msgs : resp' = Ack(m) => resp = Ack(m)
    BY ZenonT(30), <2>1, AckIsAck
  <2> QED
    BY ZenonT(30), <1>8, <2>1, <2>2, InboxUnchanged DEF CollectorStop, CollectorGone
<1>9. CASE CollectorStart
  <2>1. /\ inbox'.vis = inbox.vis \ inbox.bad
        /\ inbox'.dur \in {inbox.dur, inbox.vis \ inbox.bad}
        /\ inbox'.bad \subseteq damaged
        /\ accepted' = inbox.vis \ inbox.bad
        /\ cpc = "down" /\ cpc' = "poll" /\ UNCHANGED <<resp, damaged, swept, dirOnDisk>>
    BY ZenonT(30), <1>0, <1>9 DEF CollectorStart, SpoolType
  <2>2. orphaned' = orphaned \cap (inbox'.vis \ inbox'.dur)
    BY ZenonT(30), <1>9 DEF CollectorStart, Orphan
  <2>3. \A m \in inbox.vis \ inbox.dur : m \in orphaned
    BY ZenonT(30), <1>a, <2>1 DEF InboxOnDisk
  <2>4. \A m \in inbox'.vis : Held(inbox', orphaned', m)
    BY ZenonT(30), <2>1, <2>2, <2>3 DEF Held
  <2>5. Excused' = Excused /\ inbox.bad \subseteq Excused
    BY ZenonT(30), <1>0, <2>1 DEF Excused
  <2>6. AcceptedKept' /\ StoredKept' /\ InboxOnDisk' /\ RenamedUncounted'
    BY ZenonT(30), <1>a, <2>1, <2>4 DEF AcceptedKept, StoredKept, InboxOnDisk, RenamedUncounted, Held
  <2>7. \A m \in Msgs \ Excused : Held(inbox, orphaned, m) => Held(inbox', orphaned', m)
    BY ZenonT(30), <2>1, <2>4, <2>5 DEF Held
  <2> QED
    BY ZenonT(30), <1>9, <2>1, <2>5, <2>6, <2>7, CollectorFrame DEF CollectorStart
<1>10. ASSUME NEW kind \in CrashKinds, CollectorCrash(kind) PROVE Safe'
  <2>1. /\ cpc' = "down" /\ accepted' = {} /\ resp' \in {resp, Nothing} /\ UNCHANGED damaged
        /\ swept' = swept \cup (orphaned \ inbox'.vis)
        /\ dirOnDisk => dirOnDisk'
    BY ZenonT(30), <1>10 DEF CollectorCrash, CollectorGone
  <2>2. \A m \in Msgs : resp' = Ack(m) => resp = Ack(m)
    BY ZenonT(30), <2>1, AckIsAck
  <2>3. inbox' \in AfterCrash(inbox, kind)
    BY <1>10, <1>a DEF CollectorCrash, InboxOnDisk, ToleratedFaults
  <2>4. /\ inbox'.bad \subseteq inbox.bad
        /\ kind = "process" => inbox' = inbox
        /\ kind # "process" => /\ inbox'.dur = inbox'.vis
                               /\ inbox.vis \cap inbox.dur \subseteq inbox'.vis
    BY ZenonT(30), <1>0, <2>3, SpoolAfterCrash
  <2>5. orphaned' = (orphaned \cup inbox.vis) \cap (inbox'.vis \ inbox'.dur)
    BY ZenonT(30), <1>10 DEF CollectorCrash, Orphan
  <2>6. /\ Excused \subseteq Excused'
        /\ \A m \in orphaned : m \in inbox'.vis \/ m \in Excused'
    BY ZenonT(30), <2>1 DEF Excused
  <2>7. \A m \in inbox.vis \cap inbox'.vis : Held(inbox', orphaned', m)
    BY ZenonT(30), <2>4, <2>5 DEF Held
  <2>8. \A m \in Msgs \ Excused' : Held(inbox, orphaned, m) => Held(inbox', orphaned', m)
    BY ZenonT(30), <2>4, <2>6, <2>7 DEF Held
  <2>9. AcceptedKept' /\ StoredKept' /\ RenamedUncounted'
    BY <2>1 DEF AcceptedKept, StoredKept, RenamedUncounted
  <2>10. InboxOnDisk'
    BY ZenonT(30), <1>a, <2>1, <2>4, <2>5 DEF InboxOnDisk
  <2> QED
    BY ZenonT(30), <1>0, <1>10, <2>1, <2>2, <2>4, <2>6, <2>8, <2>9, <2>10, CollectorFrame
       DEF CollectorCrash, CollectorGone
<1> QED
  BY <1>1, <1>2, <1>3, <1>4, <1>5, <1>6, <1>7, <1>8, <1>9, <1>10

(* Damage on a disk only takes an alarm out of the promise. *)
LEMMA DamageKeeps ==
    ASSUME IInv, Damage
    PROVE  Safe'
<1>1. /\ outbox'.vis = outbox.vis /\ outbox'.dur = outbox.dur
      /\ inbox'.vis = inbox.vis /\ inbox'.dur = inbox.dur
      /\ damaged \subseteq damaged' /\ outbox'.bad \subseteq damaged' /\ inbox'.bad \subseteq damaged'
  BY DEF Damage, IInv, TypeOK, SpoolTypeOK, SpoolType, Safe, BadIsDamaged
<1>2. UNCHANGED <<rpc, rmsg, wpc, cur, resp, cpc, cmsg, accepted, dirOnDisk, promised, orphaned,
                  swept>>
  BY ZenonT(30) DEF Damage, reporterVars, workerVars, linkVars, collectorVars
<1>a. /\ Excused \subseteq Excused'
      /\ \A m : Held(inbox, orphaned, m) => Held(inbox', orphaned', m)
      /\ \A m : Kept(outbox, m) => Kept(outbox', m)
  BY ZenonT(30), <1>1, <1>2 DEF Excused, Held, Kept
<1>3. PromiseKept' /\ AcceptedKept' /\ StoredKept'
  BY ZenonT(30), <1>a, <1>2 DEF IInv, Safe, PromiseKept, AcceptedKept, StoredKept
<1>4. AckKept' /\ RemoveKept' /\ InboxOnDisk'
  BY ZenonT(30), <1>a, <1>1, <1>2 DEF IInv, Safe, AckKept, RemoveKept, InboxOnDisk
<1>5. RenamedUncounted' /\ ReportNew' /\ BadIsDamaged'
  BY ZenonT(30), <1>a, <1>1, <1>2 DEF IInv, Safe, RenamedUncounted, ReportNew, BadIsDamaged
<1> QED
  BY <1>3, <1>4, <1>5 DEF Safe

-----------------------------------------------------------------------------
(* The initial states satisfy the inductive invariant. *)
LEMMA InitInv == Init => IInv
<1> SUFFICES ASSUME Init PROVE IInv
  OBVIOUS
<1>2. TypeOK
  BY ZenonT(30), InitType
<1>3. Safe
  BY DEF Init, EmptySpool, Safe, PromiseKept, AcceptedKept, StoredKept, AckKept, RemoveKept,
         RenamedUncounted, InboxOnDisk, ReportNew, BadIsDamaged, Nothing, Ack
<1> QED
  BY <1>2, <1>3 DEF IInv

(* Every step keeps it. *)
LEMMA StepInv == ToleratedFaults /\ IInv /\ [Next]_vars => IInv'
<1> SUFFICES ASSUME ToleratedFaults, IInv, [Next]_vars PROVE IInv'
  OBVIOUS
<1>1. TypeOK'
  BY TypeStep DEF IInv
<1>2. SpoolTypeOK'
  BY <1>1 DEF TypeOK
<1>3. Safe'
  <2>1. CASE UNCHANGED vars
    BY ZenonT(30), <1>2, <2>1, SpoolsUnchanged DEF vars, reporterVars, workerVars, linkVars, collectorVars,
       historyVars
  <2>2. CASE Next
    BY <1>2, <2>2, CrashAssumption, QuietStep, OutboxStep, CollectorKeeps, DamageKeeps
       DEF Next, ReporterStep, WorkerStep, CollectorStep
  <2> QED
    BY ZenonT(30), <2>1, <2>2
<1> QED
  BY <1>1, <1>3 DEF IInv

(* No alarm whose enqueue() returned SUCCESS is lost, whatever the number  *)
(* of crashes, failed syncs, lost ACKs and retries, under the tolerated    *)
(* faults; an inbox file swept away by a power loss after its collector    *)
(* died before the sync is the exception the statement names.              *)
THEOREM NoPromisedAlarmLost ==
    ASSUME ToleratedFaults
    PROVE  Spec => []NoLoss
<1>1. IInv => NoLoss
  BY DEF IInv, Safe, PromiseKept, Kept, Held, Excused, NoLoss
<1>2. IInv /\ [Next]_vars => IInv'
  BY StepInv
<1> QED
  BY <1>1, <1>2, InitInv, PTL DEF Spec

(* Whatever dies or loses power, an ACK in flight or acted upon names an   *)
(* alarm that is in the inbox and synchronised, or that an earlier process *)
(* left there unsynchronised; so the ACK of a file this collector stored   *)
(* itself does mean that it is persisted.                                  *)
THEOREM AckImpliesStored ==
    ASSUME InboxDirKnown
    PROVE  Spec => []AckMeansStored
<1>1. IInv => AckMeansStored
  <2> SUFFICES ASSUME IInv, NEW m \in Msgs \ (damaged \cup swept), Acknowledged(m)
               PROVE  m \in inbox.vis /\ m \in inbox.dur \cup orphaned /\ dirOnDisk
    BY ZenonT(30) DEF AckMeansStored
  <2>1. Held(inbox, orphaned, m) /\ dirOnDisk
    BY ZenonT(30) DEF IInv, Safe, AckKept, RemoveKept, InboxOnDisk, Excused, Acknowledged
  <2> QED
    BY ZenonT(30), <2>1 DEF Held
<1>2. IInv /\ [Next]_vars => IInv'
  BY StepInv DEF ToleratedFaults
<1> QED
  BY <1>1, <1>2, InitInv, PTL DEF Spec

-----------------------------------------------------------------------------
(* The receiving Store. An alarm goes to the Store only if its identity is *)
(* not among the accepted ones, and a process that has accepted nothing    *)
(* has written nothing.                                                    *)
WritesOnce ==
    /\ cpc \in {"renamed", "stored"} => cmsg \notin accepted
    /\ accepted = {} => storeC = None
    /\ cpc = "down" => accepted = {}

(* What the collector's thread alone changes. *)
LEMMA ElsewhereSame ==
    ASSUME NEW kind,
           \/ ReporterStep \/ WorkerStep \/ AnswerPing
           \/ Stop \/ PublisherStart \/ PublisherCrash(kind) \/ DropClient \/ Damage
    PROVE  UNCHANGED <<cpc, cmsg, accepted, storeC>>
<1> USE DEF collectorVars
<1>1. CASE ReporterStep
  BY ZenonT(30), <1>1 DEF ReporterStep, Report, StoreSynced, StoreSyncFails, SignalWork, CommitLocal
<1>2. CASE Exit \/ IterationThrows \/ NextEmpty \/ NextRead \/ NextFails \/ TakeWork \/ IdleStopped
  BY ZenonT(30), <1>2 DEF Exit, IterationThrows, NextEmpty, NextRead, NextFails, TakeWork, IdleStopped,
     CloseSocket
<1>3. CASE SendPing \/ ReceivePong \/ PingFails \/ Connect \/ ConnectFails
  BY ZenonT(30), <1>3 DEF SendPing, ReceivePong, PingFails, Connect, ConnectFails, CloseSocket
<1>4. CASE SendAlarm \/ ReceiveAck \/ DeliveryFails
  BY ZenonT(30), <1>4 DEF SendAlarm, ReceiveAck, DeliveryFails, CloseSocket
<1>5. CASE UnlinkAcked \/ UnlinkFails \/ RemoveSynced \/ RemoveSyncFails \/ BackoffOver
  BY ZenonT(30), <1>5 DEF UnlinkAcked, UnlinkFails, RemoveSynced, RemoveSyncFails, BackoffOver
<1>6. CASE AnswerPing \/ Stop \/ PublisherStart \/ PublisherCrash(kind) \/ DropClient \/ Damage
  BY ZenonT(30), <1>6 DEF AnswerPing, Stop, PublisherStart, PublisherCrash, DropClient, Damage, CloseSocket
<1> QED
  BY ZenonT(30), <1>1, <1>2, <1>3, <1>4, <1>5, <1>6 DEF WorkerStep

(* Every step keeps WritesOnce, and writes the store only with a message it accepts. *)
LEMMA WritesOnceStep ==
    WritesOnce /\ [Next]_vars => WritesOnce' /\ (storeC' # storeC => accepted' # accepted)
<1> DEFINE Goal == WritesOnce' /\ (storeC' # storeC => accepted' # accepted)
<1> SUFFICES ASSUME WritesOnce, [Next]_vars PROVE Goal
  OBVIOUS
<1>1. CASE UNCHANGED <<cpc, cmsg, accepted, storeC>>
  BY ZenonT(30), <1>1 DEF WritesOnce
<1>2. CASE \E m \in Msgs : ReadAlarm(m)
  BY <1>2 DEF ReadAlarm, WritesOnce
<1>3. CASE AckAgain \/ InboxFails
  BY ZenonT(30), <1>3 DEF AckAgain, InboxFails, Done, WritesOnce
<1>4. CASE StoreDuplicate \/ StoreNew \/ InboxSynced
  BY ZenonT(30), <1>4 DEF StoreDuplicate, StoreNew, InboxSynced, Done, WritesOnce
<1>5. CASE IngestAndAck
  BY <1>5 DEF IngestAndAck, Done, WritesOnce
<1>6. CASE CollectorGone
  BY <1>6 DEF CollectorGone, WritesOnce
<1>7. CASE CollectorStart
  <2>1. PICK good : accepted' = good /\ RecoversTo(good, storeC') /\ cpc' = "poll" /\ cpc = "down"
    BY <1>7 DEF CollectorStart
  <2>2. good = {} => storeC' = None
    BY <2>1 DEF RecoversTo
  <2> QED
    BY <2>1, <2>2 DEF WritesOnce
<1>8. CASE UNCHANGED vars
  BY <1>1, <1>8 DEF vars, collectorVars
<1>9. CASE CollectorStep
  BY ZenonT(30), <1>1, <1>2, <1>3, <1>4, <1>5, <1>9, ElsewhereSame DEF CollectorStep
<1>10. CASE \E kind \in CrashKinds : PublisherCrash(kind) \/ CollectorCrash(kind)
  BY ZenonT(30), <1>1, <1>6, <1>10, ElsewhereSame DEF CollectorCrash
<1>11. CASE CollectorStop
  BY ZenonT(30), <1>6, <1>11 DEF CollectorStop
<1>12. CASE ReporterStep \/ WorkerStep \/ Stop \/ PublisherStart \/ DropClient \/ Damage
  BY ZenonT(30), <1>1, <1>12, ElsewhereSame
<1> QED
  BY ZenonT(30), <1>7, <1>8, <1>9, <1>10, <1>11, <1>12 DEF Next

(* No retransmission, however late and after whatever crashes, writes the  *)
(* receiving Store: IngestAndAck always adds an identity to _accepted.     *)
(* Unlike the theorems above, this one holds whatever the faults.          *)
THEOREM StoreNeverRewritten == Spec => RetransmissionNeverRewrites
<1>1. Init => WritesOnce
  BY DEF Init, WritesOnce
<1>2. WritesOnce /\ [Next]_vars => WritesOnce'
  BY WritesOnceStep
<1>3. WritesOnce /\ [Next]_vars => [storeC' # storeC => accepted' # accepted]_vars
  BY WritesOnceStep
<1> QED
  BY <1>1, <1>2, <1>3, PTL DEF Spec, RetransmissionNeverRewrites
=============================================================================
