------------------------------- MODULE MCPools -------------------------------
(***************************************************************************)
(* Small instances of the two pools of threads for TLC: the worker threads *)
(* and the threads of the parallel copy. They share no state, so they are  *)
(* explored side by side: a behaviour moves one subject, the other keeps   *)
(* its initial state.                                                      *)
(***************************************************************************)
EXTENDS ThreadPool, CopyPool

VARIABLE subject

(* The body of eight bytes, one of them before an aligned address, has     *)
(* three blocks for two workers; two bytes are too few to share.           *)
MCPlans == {<<1, 2>>}
MCRequests == {<<1, 8>>, <<0, 2>>}

PoolsInit == subject \in {"threads", "copies"} /\ Init /\ CopyInit

PoolsNext ==
    \/ subject = "threads" /\ Next /\ UNCHANGED <<subject, copyVars>>
    \/ subject = "copies" /\ CopyNext /\ UNCHANGED <<subject, vars>>

(* The fairness of the two specifications, each for its own subject. *)
PoolsFairness ==
    /\ WF_vars(subject = "threads" /\ TimeStep)
    /\ WF_copyVars(subject = "copies" /\ CopyStep)

PoolsSpec == PoolsInit /\ [][PoolsNext]_<<subject, vars, copyVars>> /\ PoolsFairness
==============================================================================
