----------------------------- MODULE ObjectStore -----------------------------
(***************************************************************************)
(* The content-addressed object store (src/ftp/object_storage_engine.cpp)  *)
(* and the registration of uploads in the metadata table, in the order the *)
(* upload's finalizer gives them (src/ftp/upload_engine.cpp): uploads of   *)
(* equal or different content and name, a failure at every step, clients   *)
(* that go away, death of the process and loss of power.                   *)
(*                                                                         *)
(* What was not synchronised may be gone after a power failure: the        *)
(* content of a file that was not synced, and the directory entry of an    *)
(* object made since the last sync_directory(). The table is durable.      *)
(* Assumed on the disk: the directories object_root() creates, whose       *)
(* parents no code synchronises.                                           *)
(***************************************************************************)
EXTENDS Naturals, FiniteSets

CONSTANTS
    Uploads,        \* uploads, each of one client request
    HashOf,         \* upload -> SHA-256 of its content
    NameOf,         \* upload -> path of the file
    Blocks,         \* blocks of a body
    MaxCrashes      \* bound: crashes

Hashes == {HashOf[u] : u \in Uploads}
FileNames == {NameOf[u] : u \in Uploads}
Nothing == "nothing"
Damaged == "damaged"
NoFile == Blocks + 1

(* No hash is taken for the mark of an absent or of a spoilt object. *)
ASSUME StoreAssumption ==
    Nothing \notin Hashes /\ Damaged \notin Hashes /\ Blocks \in Nat /\ MaxCrashes \in Nat

VARIABLES
    step,       \* upload -> the next step of its task
    temps,      \* upload -> blocks in its temporary file, or NoFile
    synced,     \* uploads whose temporary file is on the disk
    objects,    \* hash -> content of the object of that name, or Nothing
    safe,       \* hashes of objects whose content is on the disk
    entries,    \* hashes of objects whose directory entry is on the disk
    rows,       \* name -> hash in virtual_files, or Nothing
    reply,      \* upload -> what its client was told: "none", "done" or "failed"; "lost" once gone
    crashes

taskVars == <<step, temps, synced, reply>>
objectDirVars == <<objects, safe, entries>>
storeVars == <<taskVars, objectDirVars, rows, crashes>>

StoreInit ==
    /\ step = [u \in Uploads |-> "prepare"] /\ temps = [u \in Uploads |-> NoFile] /\ synced = {}
    /\ objects = [h \in Hashes |-> Nothing] /\ safe = {} /\ entries = {}
    /\ rows = [n \in FileNames |-> Nothing] /\ reply = [u \in Uploads |-> "none"] /\ crashes = 0

Goes(u, from, to) == step[u] = from /\ step' = [step EXCEPT ![u] = to]

Tell(u, what) == reply' = [reply EXCEPT ![u] = IF @ = "none" THEN what ELSE @]

(* TemporaryPath::remove() and ~TemporaryPath() *)
RemoveTemporary(u) == temps' = [temps EXCEPT ![u] = NoFile] /\ synced' = synced \ {u}

(* An exception ends the task; the loop has yet to tell the client. *)
Fail(u) == step' = [step EXCEPT ![u] = "failed"] /\ RemoveTemporary(u) /\ UNCHANGED reply

(* prepare_upload(): the name must be free. *)
prepare_upload(u) ==
    /\ step[u] = "prepare"
    /\ \/ /\ rows[NameOf[u]] = Nothing /\ Goes(u, "prepare", "create")
          /\ UNCHANGED <<temps, synced, reply>>
       \/ Fail(u)
    /\ UNCHANGED <<rows, objectDirVars, crashes>>

create_temporary(u) ==
    /\ Goes(u, "create", "append") /\ temps' = [temps EXCEPT ![u] = 0]
    /\ UNCHANGED <<synced, reply, rows, objectDirVars, crashes>>

(* Receiver::append() of a block *)
AppendBlock(u) ==
    /\ step[u] = "append" /\ temps[u] < Blocks
    /\ temps' = [temps EXCEPT ![u] = @ + 1]
    /\ UNCHANGED <<step, synced, reply, rows, objectDirVars, crashes>>

(* The finalizer: publish(), whose hash() wants a complete file. *)
hash(u) ==
    /\ temps[u] = Blocks /\ Goes(u, "append", "sync")
    /\ UNCHANGED <<temps, synced, reply, rows, objectDirVars, crashes>>

(* fchmod() and sync_file() *)
sync_file(u) ==
    /\ Goes(u, "sync", "link") /\ synced' = synced \cup {u}
    /\ UNCHANGED <<temps, reply, rows, objectDirVars, crashes>>

(* link(): the file appears under its hash. An object that exists already  *)
(* is kept, and must have this content. *)
Link(u) ==
    LET h == HashOf[u] IN
    /\ step[u] = "link"
    /\ \/ /\ objects[h] = Nothing /\ objects' = [objects EXCEPT ![h] = h]
          /\ safe' = IF u \in synced THEN safe \cup {h} ELSE safe
          /\ Goes(u, "link", "unlink") /\ UNCHANGED <<temps, synced, reply>>
       \/ /\ objects[h] = h /\ Goes(u, "link", "unlink")
          /\ UNCHANGED <<objects, safe, temps, synced, reply>>
       \/ objects[h] \notin {h, Nothing} /\ Fail(u) /\ UNCHANGED <<objects, safe>>
    /\ UNCHANGED <<entries, rows, crashes>>

Unlink(u) ==
    /\ Goes(u, "unlink", "syncdir") /\ RemoveTemporary(u)
    /\ UNCHANGED <<reply, rows, objectDirVars, crashes>>

(* Variant: the directory is not synchronised. *)
sync_directory_Skipped(u) ==
    /\ Goes(u, "syncdir", "register")
    /\ UNCHANGED <<temps, synced, reply, rows, objectDirVars, crashes>>

(* sync_directory(): every entry made so far is on the disk. *)
sync_directory(u) ==
    /\ Goes(u, "syncdir", "register") /\ entries' = {h \in Hashes : objects[h] # Nothing}
    /\ UNCHANGED <<temps, synced, reply, objects, safe, rows, crashes>>

(* commit_upload(): the unique index admits one file of a name. A failure  *)
(* may be reported after the row was inserted. *)
commit_upload(u) ==
    /\ step[u] = "register"
    /\ \/ /\ rows[NameOf[u]] = Nothing /\ rows' = [rows EXCEPT ![NameOf[u]] = HashOf[u]]
          /\ \/ Goes(u, "register", "stored") /\ UNCHANGED <<temps, synced, reply>>
             \/ Fail(u)
       \/ Fail(u) /\ UNCHANGED rows
    /\ UNCHANGED <<objectDirVars, crashes>>

(* on_result() on the loop, with on_done() or on_failed(): the client is   *)
(* told, unless it is gone. *)
on_result(u) ==
    /\ step[u] \in {"stored", "failed"} /\ step' = [step EXCEPT ![u] = "over"]
    /\ Tell(u, IF step[u] = "stored" THEN "done" ELSE "failed")
    /\ UNCHANGED <<temps, synced, rows, objectDirVars, crashes>>

(* A system call fails before registration. *)
TaskFails(u) ==
    /\ step[u] \in {"create", "append", "sync", "link", "unlink", "syncdir"}
    /\ Fail(u) /\ UNCHANGED <<rows, objectDirVars, crashes>>

(* The connection closes: what has not reached the finalizer is cancelled, *)
(* and the finalizer runs on. *)
Disconnect(u) ==
    /\ reply[u] = "none" /\ reply' = [reply EXCEPT ![u] = "lost"]
    /\ IF step[u] \in {"prepare", "create", "append"}
         THEN step' = [step EXCEPT ![u] = "over"] /\ RemoveTemporary(u)
         ELSE UNCHANGED <<step, temps, synced>>
    /\ UNCHANGED <<rows, objectDirVars, crashes>>

(* The server dies and is started again: its temporary files stay, and     *)
(* nothing looks at them; a client that had no reply sends its file anew. *)
Restart ==
    /\ crashes < MaxCrashes /\ crashes' = crashes + 1
    /\ step' = [u \in Uploads |-> IF reply[u] = "none" THEN "prepare" ELSE "over"]
    /\ temps' = [u \in Uploads |-> NoFile] /\ synced' = {}
    /\ UNCHANGED <<rows, reply>>

ProcessDies == Restart /\ UNCHANGED <<objects, safe, entries>>

PowerFails ==
    /\ Restart
    /\ \E lost \in SUBSET {h \in Hashes : objects[h] # Nothing /\ h \notin entries} :
         objects' = [h \in Hashes |-> IF h \in lost \/ objects[h] = Nothing THEN Nothing
                                       ELSE IF h \in safe THEN objects[h] ELSE Damaged]
    /\ entries' = {h \in Hashes : objects'[h] # Nothing}
    /\ safe' = entries'

StoreNext ==
    \/ \E u \in Uploads :
         \/ prepare_upload(u) \/ create_temporary(u) \/ AppendBlock(u) \/ hash(u) \/ sync_file(u)
         \/ Link(u) \/ Unlink(u) \/ sync_directory(u) \/ commit_upload(u) \/ TaskFails(u)
         \/ on_result(u) \/ Disconnect(u)
    \/ ProcessDies \/ PowerFails

StoreSpec == StoreInit /\ [][StoreNext]_storeVars

(* What a download would get: the content of the object the file's row     *)
(* names, or Damaged where a loss of power could take it away. *)
Served ==
    [n \in FileNames |-> IF rows[n] = Nothing THEN Nothing
                      ELSE IF rows[n] \in entries \cap safe THEN objects[rows[n]] ELSE Damaged]

Files == INSTANCE FileTable WITH files <- Served, told <- reply

(***************************************************************************)
(* Properties                                                              *)
(***************************************************************************)

(* A registered file can be downloaded: the object its row names has the   *)
(* content of that hash, and neither the content nor the directory entry   *)
(* is lost with power (publish() synchronises the file and the directory   *)
(* before commit_upload(), also for an object another upload linked). *)
RegisteredIsDurable ==
    \A n \in FileNames : rows[n] # Nothing =>
        objects[rows[n]] = rows[n] /\ rows[n] \in entries \cap safe

(* The store implements FileTable: an upload's file appears in one step,   *)
(* whole, and no step of another upload, failure, restart or loss of power *)
(* changes what a download of it gets; "done" is said only of a file that  *)
(* is stored with this content (upload_engine.cpp:92, :98). *)
FilesKept == Files!FileTableSpec
==============================================================================
