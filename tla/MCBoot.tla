------------------------------- MODULE MCBoot -------------------------------
(***************************************************************************)
(* Instances of Boot.  What it does depends on the number of blocks of the *)
(* file and on whether the last one is full: the sizes are the multiples   *)
(* of a block, up to what an inode holds, and their neighbours.            *)
(***************************************************************************)
EXTENDS Boot

Around(S) == {n \in {k * BLOCK_SIZE + d : k \in S, d \in {-32, -1, 0, 1}} : 0 <= n /\ n <= MaxSize}

AllSizes == Around(0 .. NDirect + NIndirect)
FullZones == {NDirect * BLOCK_SIZE}
LargeSizes == {n \in AllSizes : n >= (Stack - LOADER_BASE) * BLOCK_SIZE}
SmallSizes == Around(0 .. 1)
=============================================================================
