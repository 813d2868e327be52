----------------------------- MODULE AlarmSpool -----------------------------
(***************************************************************************)
(* The durable directory of alarm files that both ends of the reliable     *)
(* alarm channel keep (src/monitor/alarm_spool.cpp): pending/ on the       *)
(* sender, accepted/<source>/ on the receiver.                             *)
(*                                                                         *)
(* A spool is a record:                                                    *)
(*   vis  the files the process sees now (the kernel's view);              *)
(*   dur  the directory entries known to be on the disk, which is what a   *)
(*        fsync of the directory establishes;                              *)
(*   bad  the files whose contents no longer decode (damage on the disk).  *)
(* The contents of a file are synchronised before it is renamed into the   *)
(* directory, so only the directory entry can be missing after a power     *)
(* loss. Files under tmp/ are never alarms: initialize() moves them to     *)
(* corrupt/, and they are left out of the model.                           *)
(***************************************************************************)
EXTENDS Naturals

(* The spools of a set of messages. *)
SpoolType(M) == [vis : SUBSET M, dur : SUBSET M, bad : SUBSET M]

EmptySpool == [vis |-> {}, dur |-> {}, bad |-> {}]

(* store() up to rename(): the file exists under its final name, its       *)
(* directory entry is not yet synchronised.                                *)
Rename(s, m) == [s EXCEPT !.vis = @ \cup {m}]

(* sync_directory(): what is visible is on the disk. *)
SyncDir(s) == [s EXCEPT !.dur = s.vis]

(* unlink() of a data file; the removal is not yet synchronised. *)
Unlink(s, m) == [s EXCEPT !.vis = @ \ {m}, !.bad = @ \ {m}]

(* move_to_corrupt(): rename into corrupt/ and sync both directories. *)
Quarantine(s, m) == SyncDir(Unlink(s, m))

(* store() when a sync_directory() fails: the entry may have reached the   *)
(* disk (the sync of tmp/ is the one that failed) or not. The file is      *)
(* unlinked and the directory synchronised once more; the results of both  *)
(* are ignored, so the file may stay when unlink() fails too.              *)
StoreUndone(s, m) ==
    {Unlink(s, m), Unlink(SyncDir(s), m), SyncDir(Unlink(s, m)), s, SyncDir(s)}

(* remove() when the sync after unlink() fails. *)
RemoveUnsynced(s) == {s, SyncDir(s)}

(* scan_regular_files(): next() returns the smallest file name. The name   *)
(* is the source id followed by the random message id.                     *)
IsFirst(s, m) == m \in s.vis /\ \A n \in s.vis : m.id <= n.id

(* What the next process finds. A process crash leaves the kernel's view;  *)
(* after a power loss every entry on which memory and disk differ may be   *)
(* in either state.                                                        *)
AfterCrash(s, kind) ==
    IF kind = "process"
      THEN {s}
      ELSE {[vis |-> v, dur |-> v, bad |-> s.bad \cap v] :
              v \in {w \in SUBSET (s.vis \cup s.dur) : s.vis \cap s.dur \subseteq w}}

=============================================================================
