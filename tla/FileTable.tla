------------------------------ MODULE FileTable ------------------------------
(***************************************************************************)
(* What the storage service promises of uploads, whatever fails: a file    *)
(* appears under its name whole and at once, is never changed or lost, and *)
(* a client is told "done" only once the file of that name has its         *)
(* content. A client told "failed", or gone, may find its file stored.     *)
(***************************************************************************)
CONSTANTS
    Uploads,
    HashOf,     \* upload -> its content
    NameOf,     \* upload -> its name
    Nothing

VARIABLES
    files,      \* name -> the content a download would get, or Nothing
    told        \* upload -> "none", "done", "failed" or "lost"

FileTableInit ==
    /\ files = [n \in {NameOf[u] : u \in Uploads} |-> Nothing]
    /\ told = [u \in Uploads |-> "none"]

Answer(u, what) == told[u] = "none" /\ told' = [told EXCEPT ![u] = what]

Store(u) ==
    /\ files[NameOf[u]] = Nothing /\ UNCHANGED told
    /\ files' = [files EXCEPT ![NameOf[u]] = HashOf[u]]

Done(u) == files[NameOf[u]] = HashOf[u] /\ Answer(u, "done") /\ UNCHANGED files

Refuse(u) == Answer(u, "failed") /\ UNCHANGED files

Leave(u) == Answer(u, "lost") /\ UNCHANGED files

FileTableNext == \E u \in Uploads : Store(u) \/ Done(u) \/ Refuse(u) \/ Leave(u)

FileTableSpec == FileTableInit /\ [][FileTableNext]_<<files, told>>
==============================================================================
