------------------------------- MODULE Layout -------------------------------
(***************************************************************************)
(* Where the parts of a volume are: the sizes mkfs derives from its        *)
(* arguments (tools/mkfs/main.c), the blocks it and the programs after it  *)
(* write, and the byte offset raw.c turns a block number into.  The device *)
(* is told by position, a block by number: position p is where every block *)
(* b with b % Wrap = p is.                                                 *)
(***************************************************************************)
EXTENDS Integers, Sequences, FiniteSets

CONSTANTS Args,      \* the runs of mkfs: [device, blocks, inodes, bootable],
                     \* -1 for an argument that is missing
          PerBlock,  \* STPDFS_INODES_PER_BLOCK, 7 in the code
          ListLen,   \* entries of a free list, 100 in the code
          Large,     \* 512 * 1024 in the code
          Wrap       \* 2^32 / STPDFS_BLOCK_SIZE, the positions of raw.c

ASSUME LayoutAssumption ==
  /\ Args \subseteq [device : Nat, blocks : Int, inodes : Int, bootable : BOOLEAN]
  /\ PerBlock \in Nat \ {0, 1} /\ ListLen \in Nat \ {0, 1}
  /\ Large \in Nat /\ Wrap \in Nat /\ Wrap > 2

VARIABLES args,   \* of mkfs
          sb,     \* super->sb: isize, fsize and the free list
          store,  \* the device: what each position holds
          held,   \* the data blocks that fs_balloc has returned
          pc,     \* what comes next
          idx     \* of the loops of mkfs

vars == <<args, sb, store, held, pc, idx>>

Held(b, kind, list) == [block |-> b, kind |-> kind, list |-> list]
Zero(b) == Held(b, "zero", <<>>)

(* fs_bio_raw_write of what block b is to hold: blocknum *                 *)
(* STPDFS_BLOCK_SIZE is computed in 32 bits.                               *)
Position(b) == b % Wrap
Put(d, b, kind, list) == [d EXCEPT ![Position(b)] = Held(b, kind, list)]
At(b) == store[Position(b)]

PutSuper(d) == Put(d, 1, "super", <<>>)
IBlock(inum) == (inum \div PerBlock) + 2      \* IBLOCK
PutInode(d, inum) == Put(d, IBlock(inum), "inodes", <<>>)

-----------------------------------------------------------------------------
(* The sizes.                                                              *)
Blocks(a) == IF a.blocks < 0 THEN a.device ELSE a.blocks
Inodes(a) ==
  IF a.inodes > 0 THEN a.inodes
  ELSE IF Large < Blocks(a) THEN Blocks(a) \div 8 ELSE Blocks(a) \div 3

ISizeInInodes(a) == Inodes(a)                 \* mutant: not divided
ISize(a) == Inodes(a) \div PerBlock

(* The volumes mkfs should make: as many inodes as leave room for the      *)
(* blocks before the data, none that raw.c folds onto another block.       *)
(* Nothing in the code asks for either.                                    *)
Fits(a) == Inodes(a) \div PerBlock + 3 <= Blocks(a) /\ Blocks(a) <= Wrap

Init ==
  /\ args \in Args
  /\ sb = [isize |-> 0, fsize |-> 0, list |-> <<>>]
  /\ store = [p \in 0 .. Wrap - 1 |-> Zero(p)]
  /\ held = {} /\ pc = "create" /\ idx = 0

(* create_create_super.                                                    *)
Create ==
  /\ pc = "create" /\ pc' = "inodes" /\ idx' = 2
  /\ sb' = [isize |-> ISize(args), fsize |-> Blocks(args), list |-> <<>>]
  /\ UNCHANGED <<args, store, held>>

MkfsInodes ==
  /\ pc = "inodes" /\ idx < sb.isize + 2
  /\ store' = Put(store, idx, "inodes", <<>>)
  /\ idx' = idx + 1
  /\ UNCHANGED <<args, sb, held, pc>>

FirstFreeEarly == sb.isize                    \* mutant: blocks 0 and 1 are forgotten
FirstFree == sb.isize + 3

InodesEnd ==
  /\ pc = "inodes" /\ idx >= sb.isize + 2
  /\ pc' = "free" /\ idx' = FirstFree
  /\ UNCHANGED <<args, sb, store, held>>

(* fs_bfree: a full list goes into the block, which starts the next one.   *)
Full == Len(sb.list) = ListLen
MkfsFree ==
  /\ pc = "free" /\ idx < sb.fsize
  /\ sb' = [sb EXCEPT !.list = IF Full THEN <<idx>> ELSE Append(@, idx)]
  /\ store' = PutSuper(IF Full THEN Put(store, idx, "list", sb.list) ELSE store)
  /\ idx' = idx + 1
  /\ UNCHANGED <<args, held, pc>>

(* fs_balloc: the list that is left after the block is taken, from memory  *)
(* or from the block the last entry names, whatever that block holds.      *)
Refill == Len(sb.list) = 1
Source == IF Refill THEN At(sb.list[1]).list ELSE sb.list

Taken == Source[Len(Source)]
Balloc == Put(PutSuper(store), Taken, "data", <<>>)
Allocate(device) ==                 \* the device after the call and what follows
  /\ Len(Source) > 1
  /\ sb' = [sb EXCEPT !.list = SubSeq(Source, 1, Len(Source) - 1)]
  /\ held' = held \union {Taken}
  /\ store' = device

(* The root inode and the block of its two entries.                        *)
MkfsRoot ==
  /\ pc = "free" /\ idx >= sb.fsize
  /\ Allocate(PutInode(Balloc, 1))
  /\ pc' = "kill"
  /\ UNCHANGED <<args, idx>>

(* The boot block, and fs_super_kill: mkfs exits with success.             *)
Boot(d) == IF args.bootable THEN Put(d, 0, "boot", <<>>) ELSE d
MkfsEnd ==
  /\ pc = "kill" /\ pc' = "closed"
  /\ store' = PutSuper(Boot(store))
  /\ UNCHANGED <<args, sb, held, idx>>

-----------------------------------------------------------------------------
(* fs_super_valide, on the fields mkfs does not set to constants.          *)
Valid == At(1).kind = "super" /\ sb.fsize # 0 /\ sb.isize # 0 /\ sb.isize <= sb.fsize

Open ==
  /\ pc = "closed"
  /\ pc' = IF Valid THEN "open" ELSE "refused"
  /\ UNCHANGED <<args, sb, store, held, idx>>

(* fs_inode_alloc and fs_inode_update of any inode it looks at.            *)
WriteInode ==
  /\ pc = "open"
  /\ \E inum \in 1 .. sb.isize - 1 : store' = PutInode(store, inum)
  /\ UNCHANGED <<args, sb, held, pc, idx>>

(* fs_write that needs a block.                                            *)
WriteData ==
  /\ pc = "open"
  /\ Allocate(Balloc)
  /\ UNCHANGED <<args, pc, idx>>

Kill ==
  /\ pc = "open" /\ pc' = "closed"
  /\ store' = PutSuper(store)
  /\ UNCHANGED <<args, sb, held, idx>>

Next ==
  \/ Create \/ MkfsInodes \/ InodesEnd \/ MkfsFree \/ MkfsRoot \/ MkfsEnd
  \/ Open \/ WriteInode \/ WriteData \/ Kill

Spec == Init /\ [][Next]_vars

-----------------------------------------------------------------------------
InodeBlocks == 2 .. sb.isize + 1
Formatted == pc \in {"kill", "closed", "open", "refused"}
Written == {p \in 0 .. Wrap - 1 : store[p].kind # "zero"}

(* Every variable has its type.  On a volume that fits, nothing is written *)
(* beyond it, and an inode only where mkfs has made room for inodes or, on *)
(* a volume without an inode block, where the root inode goes.             *)
TypeOK ==
  /\ args \in Args /\ idx \in Nat /\ sb.isize \in Nat /\ sb.fsize \in Nat
  /\ pc \in {"create", "inodes", "free", "kill", "closed", "open", "refused"}
  /\ Fits(args) =>
       /\ Len(sb.list) <= ListLen /\ held \subseteq 0 .. sb.fsize - 1
       /\ \A p \in Written :
            /\ store[p].block < sb.fsize
            /\ store[p].kind = "inodes" => store[p].block \in InodeBlocks \union {IBlock(1)}

(* Every block that means something holds what was written to it: the      *)
(* superblock, the inodes, the data blocks that are allocated, and the     *)
(* list a block at the end of the free list holds.  No part of the volume  *)
(* is laid over another one.                                               *)
Whole ==
  LET Holds(b, kind) == At(b).block = b /\ At(b).kind = kind
  IN /\ Holds(1, "super")
     /\ \A b \in InodeBlocks \union {IBlock(1)} : Holds(b, "inodes")
     /\ \A b \in held : Holds(b, "data")
     /\ sb.list[1] # FirstFree => Holds(sb.list[1], "list")

(* A formatted volume that fits is whole, after mkfs and whatever the      *)
(* programs write to it.                                                   *)
Kept == Formatted /\ Fits(args) => Whole

(* Every formatted volume is, also beyond the blocks that raw.c addresses. *)
KeptAtAnySize == Formatted => Whole

(* mkfs and the programs write to blocks of the volume only (once mkfs has *)
(* computed its size).                                                     *)
InVolume == \A p \in Written : store[p].block < sb.fsize

(* fs_super_open takes every volume that mkfs has made with success.       *)
MountsWhatItMade == pc # "refused"

(* Boot block, superblock, inodes and data are the whole volume.           *)
NoGap ==
  Formatted => \A b \in 0 .. sb.fsize - 1 :
                 b < 2 \/ b \in InodeBlocks \/ b >= FirstFree
=============================================================================
