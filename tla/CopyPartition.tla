---------------------------- MODULE CopyPartition ----------------------------
(***************************************************************************)
(* How a copy is cut (src/common/memory/internal/copy_partition.cpp and    *)
(* the loop of ParallelCopyPool::dispatch_copy()): a prefix up to the next *)
(* aligned address, a body of whole blocks, a tail; and the blocks of the  *)
(* body shared out to the workers, the first ones getting one more.        *)
(***************************************************************************)
EXTENDS Naturals

CONSTANTS
    k_nt_alignment,     \* 32 in the code
    k_nt_block_size     \* 8192 in the code, a multiple of the alignment

ASSUME PartitionAssumption ==
    /\ k_nt_alignment \in Nat \ {0} /\ k_nt_block_size \in Nat \ {0}
    /\ k_nt_block_size % k_nt_alignment = 0

(* make_copy_partition() of a destination that lies misalignment bytes     *)
(* after an aligned address *)
make_copy_partition(misalignment, size, worker_count) ==
    LET gap == IF misalignment = 0 THEN 0 ELSE k_nt_alignment - misalignment
        prefix == IF gap > size THEN size ELSE gap
        blocks == (size - prefix) \div k_nt_block_size
        body == IF blocks < worker_count THEN 0 ELSE blocks * k_nt_block_size
    IN  IF size = 0 \/ worker_count = 0
          THEN [prefix_size |-> 0, body_size |-> 0, tail_size |-> 0]
          ELSE [prefix_size |-> prefix, body_size |-> body, tail_size |-> size - prefix - body]

(* The blocks the worker of a rank, counted from zero, gets ... *)
worker_block_count(blocks, n, rank) ==
    blocks \div n + (IF rank < blocks % n THEN 1 ELSE 0)

(* ... and the number of blocks before them, current_offset of the loop. *)
block_offset(blocks, n, rank) ==
    rank * (blocks \div n) + (IF rank < blocks % n THEN rank ELSE blocks % n)
==============================================================================
