------------------------------ MODULE BlockPool ------------------------------
(***************************************************************************)
(* What libfs/balloc.c promises to the rest of the file system: a durable  *)
(* pool of data blocks.  A block is handed out at most once until it is    *)
(* given back, nothing that is not in the pool is ever handed out, and the *)
(* pool breaks only when it is asked for a block while it is empty.        *)
(*                                                                         *)
(* `nodes' are the blocks that the list itself keeps: the blocks that hold *)
(* the rest of the list, and the block at its bottom.  They are given up   *)
(* by fs_bfree and never handed out again.                                 *)
(***************************************************************************)
CONSTANT Block

VARIABLES free,    \* blocks fs_balloc can hand out
          used,    \* blocks that callers hold
          nodes,   \* blocks absorbed by the list
          broken   \* a block was asked for when `free' was empty

vars == <<free, used, nodes, broken>>

(* Formatting starts with every data block in the hands of mkfs.           *)
Init ==
  /\ free = {}
  /\ used = Block
  /\ nodes = {}
  /\ broken = FALSE

(* A caller receives a block; a list block that became empty on the way    *)
(* may be dropped for good.                                                *)
Alloc(b) ==
  /\ ~broken
  /\ b \in free
  /\ free' = free \ {b}
  /\ used' = used \union {b}
  /\ \/ nodes' = nodes
     \/ \E c \in nodes : nodes' = nodes \ {c}
  /\ UNCHANGED broken

(* A caller gives a block back: it can be handed out again, or the list    *)
(* keeps it for itself.                                                    *)
Free(b) ==
  /\ ~broken
  /\ b \in used
  /\ used' = used \ {b}
  /\ \/ free' = free \union {b} /\ UNCHANGED nodes
     \/ nodes' = nodes \union {b} /\ UNCHANGED free
  /\ UNCHANGED broken

(* A crash can make callers forget blocks, never the pool.                 *)
Forget(S) ==
  /\ S \subseteq used
  /\ used' = used \ S
  /\ UNCHANGED <<free, nodes, broken>>

(* A request to the empty pool: nothing is promised from here on.          *)
Exhaust ==
  /\ ~broken
  /\ free = {}
  /\ broken' = TRUE
  /\ nodes' = {}
  /\ UNCHANGED <<free, used>>

Next ==
  \/ \E b \in Block : Alloc(b) \/ Free(b)
  \/ \E S \in SUBSET used : Forget(S)
  \/ Exhaust

Spec == Init /\ [][Next]_vars
=============================================================================
