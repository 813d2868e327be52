------------------------------ MODULE MCStorage ------------------------------
(***************************************************************************)
(* Small instances of the storage side for TLC: transfers on one disk      *)
(* executor, and the object store. They share no state, so they are        *)
(* explored side by side: a behaviour moves one subject, the other keeps   *)
(* its initial state.                                                      *)
(***************************************************************************)
EXTENDS DiskTransfers, ObjectStore

VARIABLE subject

(* A file that is read in two chunks. *)
MCMaxReads == [s \in Sources |-> 2]

(* Three uploads: two of one content under different names, and two of one *)
(* name with different contents. *)
MCUploads == 1..3
MCHashOf == <<"a", "a", "b">>
MCNameOf == <<"x", "y", "x">>

StorageInit ==
    /\ subject \in {"transfers", "objects"} /\ Init /\ StoreInit
    /\ subject # "transfers" => size = [r \in Receivers |-> 0]

StorageNext ==
    \/ subject = "transfers" /\ Next /\ UNCHANGED <<subject, storeVars>>
    \/ subject = "objects" /\ StoreNext /\ UNCHANGED <<subject, vars>>

(* The fairness of DiskTransfers, for its subject. *)
StorageFairness == WF_vars(subject = "transfers" /\ Runs)

StorageSpec == StorageInit /\ [][StorageNext]_<<subject, vars, storeVars>> /\ StorageFairness
==============================================================================
