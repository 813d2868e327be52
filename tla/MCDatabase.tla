----------------------------- MODULE MCDatabase ------------------------------
(***************************************************************************)
(* Small instances of the layers over the database for TLC: the pool of    *)
(* connections, the metadata cache and its replacement policy. They share  *)
(* no state, so they are explored side by side: a behaviour moves one      *)
(* subject, the others keep their initial states.                          *)
(***************************************************************************)
EXTENDS MetadataCache, DbPool, ArcCache, TLC

VARIABLE subject

CONSTANTS d1, d2, a, b, gate

(* Two directories whose namespace keys hash to the same gate. *)
MCGateOf == [d \in Dirs |-> gate]

MCKeys ==
    {[kind |-> "list", dir |-> d1, wants |-> Names],
     [kind |-> "download", dir |-> d2, wants |-> {a}],
     [kind |-> "cd", dir |-> d1, wants |-> {b}]}

(* Every bank configured, or only the listings. *)
MCBankChoices == {Kinds, {"list"}}

MCSymmetry == Permutations(Threads)

DatabaseInit ==
    /\ subject \in {"connections", "metadata", "policy"} /\ Init /\ DbInit /\ CacheInit
    /\ subject # "metadata" => banks = Kinds
    /\ subject # "policy" => capacity = 0

(* A pool that is destroyed, or aborted the program, does nothing more. *)
DatabaseNext ==
    \/ subject = "metadata" /\ Next /\ UNCHANGED <<subject, dbVars, arcVars>>
    \/ subject = "connections" /\ DbNext /\ UNCHANGED <<subject, vars, arcVars>>
    \/ subject = "policy" /\ CacheNext /\ UNCHANGED <<subject, vars, dbVars>>
    \/ /\ subject = "connections" /\ destroyed \in {"yes", "abort"}
       /\ UNCHANGED <<subject, vars, dbVars, arcVars>>

DatabaseSpec == DatabaseInit /\ [][DatabaseNext]_<<subject, vars, dbVars, arcVars>>
==============================================================================
