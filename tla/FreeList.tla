------------------------------- MODULE FreeList -------------------------------
(***************************************************************************)
(* The free-block list of StupidFS: fs_balloc and fs_bfree                 *)
(* (libfs/balloc.c), the loop of mkfs that fills the list, and a process   *)
(* that dies between two block writes and is followed by another one that  *)
(* reads the superblock again (fs_super_open).                             *)
(*                                                                         *)
(* The superblock holds up to Cap block numbers.  When it is full, the     *)
(* next block freed receives a copy of the list and becomes entry 0 of a   *)
(* new list of length one, so entry 0 is the link of a chain of lists.     *)
(* One action is the code between two writes to the device; write(2) is    *)
(* taken to be atomic for one block.                                       *)
(***************************************************************************)
EXTENDS Naturals, Sequences

CONSTANTS Cap,     \* entries of stpdfs_free.free, 100 in the code
          ISize,   \* sb.isize, blocks of the inode list
          FSize,   \* sb.fsize, blocks of the volume
          Former   \* what the data blocks may hold before mkfs

ASSUME CapAssumption == Cap \in 2 .. 254
ASSUME SizeAssumption == ISize \in Nat \ {0} /\ FSize \in Nat /\ FSize > ISize + 3

FirstData == ISize + 3             \* the first block mkfs frees
Data == FirstData .. FSize - 1     \* every block mkfs frees
SuperBlock == 1                    \* STPDFS_SB_BLOCK
NFreeMax == 255                    \* nfree is a uint8_t
List == [nfree : 0 .. NFreeMax, free : [0 .. Cap - 1 -> Nat]]

(* mkfs writes no data block: an image that was used before keeps there    *)
(* what it held, here read as a struct stpdfs_free.                        *)
ASSUME FormerAssumption == Former \subseteq [Data -> List]

VARIABLES
  sb,      \* super->sb.freelist in the memory of the process
  dsb,     \* the same structure in block 1 of the device
  blk,     \* each data block, read as a struct stpdfs_free
  held,    \* blocks in the hands of the callers (mkfs at first, then files)
  pc,      \* where the process is between two writes
  arg,     \* the block number the current call works on
  next,    \* mkfs's loop index; FSize once the loop is over
  (* History variables: the chain blocks, oldest first, that the list in   *)
  (* memory and the list on the device lead to, and whether a request to   *)
  (* an empty list has filled them with something else.  Only the point    *)
  (* where the model ends reads them.                                      *)
  chain, dchain, origin, dorigin

(* The chain without its newest block.                                     *)
Front(ch) == SubSeq(ch, 1, Len(ch) - 1)

vars == <<sb, dsb, blk, held, pc, arg, next, chain, dchain, origin, dorigin>>

ZeroList == [nfree |-> 0, free |-> [i \in 0 .. Cap - 1 |-> 0]]
Top(l) == l.free[l.nfree - 1]
Pop(l) == [nfree |-> l.nfree - 1, free |-> l.free]

(* The inode list and the superblock count as unwritten until mkfs writes  *)
(* them, the data blocks hold what they held.  The entries of mkfs's       *)
(* uninitialized super.sb.freelist.free are never read before they are     *)
(* written, so they start at 0 here.                                       *)
Init ==
  /\ sb = ZeroList
  /\ dsb = ZeroList
  /\ blk \in Former
  /\ held = Data
  /\ pc = "idle"
  /\ arg = 0
  /\ next = FirstData
  /\ chain = <<>>
  /\ dchain = <<>>
  /\ origin = "pool"
  /\ dorigin = "pool"

-----------------------------------------------------------------------------
(* fs_bfree, up to its write of the superblock.  The copy of a full list   *)
(* goes to the device before the superblock that points to it.             *)
FullLate(l) == l.nfree = Cap + 1           \* mutant: one entry too many
Full(l) == l.nfree = Cap
Push(l, b) == [nfree |-> l.nfree + 1, free |-> [l.free EXCEPT ![l.nfree] = b]]
StartListKeepsLink(l, b) == [l EXCEPT !.nfree = 1]   \* mutant: no new link
StartList(l, b) == [nfree |-> 1, free |-> [l.free EXCEPT ![0] = b]]

(* Mutant: the list starts again without a copy of the full one.           *)
BfreeDropsList(b) ==
  /\ sb' = IF Full(sb) THEN StartList(sb, b) ELSE Push(sb, b)
  /\ chain' = IF Full(sb) THEN Append(chain, b) ELSE chain
  /\ held' = held \ {b}
  /\ arg' = b
  /\ pc' = "free_sb"
  /\ UNCHANGED <<blk, dsb, dchain, origin, dorigin>>

Bfree(b) ==
  /\ b # 0 /\ b < FSize
  /\ \/ /\ Full(sb)
        /\ blk' = [blk EXCEPT ![b] = sb]
        /\ sb' = StartList(sb, b)
        /\ chain' = Append(chain, b)
     \/ /\ ~Full(sb)
        /\ sb' = Push(sb, b)
        /\ UNCHANGED <<blk, chain>>
  /\ held' = held \ {b}
  /\ arg' = b
  /\ pc' = "free_sb"
  /\ UNCHANGED <<dsb, dchain, origin, dorigin>>

(* One turn of mkfs's "set free blocks" loop.                              *)
MkfsFree ==
  /\ pc = "idle" /\ next < FSize
  /\ Bfree(next)
  /\ next' = next + 1

(* A caller of libfs frees a block that it holds.                          *)
CallerFree(b) ==
  /\ pc = "idle" /\ next = FSize
  /\ b \in held
  /\ Bfree(b)
  /\ UNCHANGED next

-----------------------------------------------------------------------------
(* fs_balloc, up to its write of the superblock: the three ways through    *)
(* the loop at `redo'.                                                     *)
Idle == pc = "idle" /\ next = FSize

AtLink == sb.nfree = 1 /\ sb.free[0] # 0   \* nfree reaches 0 on a link
Loaded == blk[sb.free[0]]                  \* the list the link leads to

BallocPop ==
  /\ Idle /\ sb.nfree \in 1 .. Cap /\ ~AtLink
  /\ sb' = Pop(sb)
  /\ arg' = Top(sb)
  /\ pc' = "alloc_sb"
  /\ UNCHANGED <<dsb, blk, held, next, chain, dchain, origin, dorigin>>

(* Mutant: the list is loaded and its block is returned, without `redo'.   *)
BallocRefillNoRedo ==
  /\ Idle /\ AtLink
  /\ sb' = Loaded
  /\ arg' = sb.free[0]
  /\ chain' = Front(chain)
  /\ origin' = IF chain = <<>> THEN "junk" ELSE origin
  /\ pc' = "alloc_sb"
  /\ UNCHANGED <<dsb, blk, held, next, dchain, dorigin>>

(* The list block itself is neither returned nor freed.  Entry 0 of the    *)
(* oldest list is a link as well: the block it names was never written by  *)
(* fs_bfree, and the list loaded from it is whatever the image held there. *)
BallocRefill ==
  /\ Idle /\ AtLink
  /\ Loaded.nfree \in 2 .. Cap
  /\ sb' = Pop(Loaded)
  /\ arg' = Top(Loaded)
  /\ chain' = Front(chain)
  /\ origin' = IF chain = <<>> THEN "junk" ELSE origin
  /\ pc' = "alloc_sb"
  /\ UNCHANGED <<dsb, blk, held, next, dchain, dorigin>>

(* nfree is 0, in the superblock or in the block that was loaded as a      *)
(* list: it wraps to 255 and free[255] is read past the array.  A loaded   *)
(* nfree above Cap reads past it as well, and one of 1 is another link,    *)
(* followed to any block.  The block number that comes back is whatever    *)
(* the memory holds; one beyond the volume would change nothing here and   *)
(* is left out, like the list that is in memory after another link.        *)
BallocOverrun ==
  /\ Idle
  /\ LET l == IF AtLink THEN Loaded ELSE sb IN
       /\ l.nfree \notin IF AtLink THEN 2 .. Cap ELSE 1 .. Cap
       /\ sb' = [nfree |-> (l.nfree + NFreeMax) % (NFreeMax + 1), free |-> l.free]
  /\ arg' \in 0 .. FSize - 1
  /\ origin' = "junk"
  /\ pc' = "alloc_sb"
  /\ UNCHANGED <<dsb, blk, held, next, chain, dchain, dorigin>>

(* Mutant: fs_balloc leaves the superblock to be written later.            *)
WriteSuperOnFree ==
  /\ pc \in {"alloc_sb", "free_sb"}
  /\ IF pc = "free_sb" THEN dsb' = sb /\ dchain' = chain /\ dorigin' = origin
                       ELSE UNCHANGED <<dsb, dchain, dorigin>>
  /\ pc' = IF pc = "alloc_sb" THEN "alloc_zero" ELSE "idle"
  /\ UNCHANGED <<sb, blk, held, arg, next, chain, origin>>

(* The write of the superblock that ends fs_bfree, and the first of the    *)
(* two writes that end fs_balloc.                                          *)
WriteSuper ==
  /\ pc \in {"alloc_sb", "free_sb"}
  /\ dsb' = sb
  /\ dchain' = chain
  /\ dorigin' = origin
  /\ pc' = IF pc = "alloc_sb" THEN "alloc_zero" ELSE "idle"
  /\ UNCHANGED <<sb, blk, held, arg, next, chain, origin>>

(* The second write of fs_balloc clears the block, which may be any block  *)
(* of the volume after a request to the empty list, and the call returns.  *)
(* Nothing is modelled after the return of such a call.                    *)
ZeroBlock ==
  /\ pc = "alloc_zero"
  /\ blk' = IF arg \in Data THEN [blk EXCEPT ![arg] = ZeroList] ELSE blk
  /\ dsb' = IF arg = SuperBlock THEN ZeroList ELSE dsb
  /\ IF origin = "junk"
       THEN held' = held /\ pc' = "broken"
       ELSE held' = held \union {arg} /\ pc' = "idle"
  /\ UNCHANGED <<sb, arg, next, chain, dchain, origin, dorigin>>

-----------------------------------------------------------------------------
(* The process dies between two writes and another one opens the volume.   *)
(* Until mkfs has written a superblock there is nothing to open, and mkfs  *)
(* is run again; after that the rest of its loop is never done.            *)
Crash ==
  /\ pc # "broken"
  /\ sb' = dsb
  /\ chain' = dchain
  /\ origin' = dorigin
  /\ pc' = IF dorigin = "junk" THEN "broken" ELSE "idle"
  /\ arg' = 0
  /\ IF dsb.nfree = 0 /\ dorigin # "junk"
       THEN next' = FirstData /\ held' = Data
       ELSE next' = FSize /\ held' = held \ (next .. FSize - 1)
  /\ UNCHANGED <<dsb, blk, dchain, dorigin>>

Next ==
  \/ MkfsFree
  \/ \E b \in held : CallerFree(b)
  \/ BallocPop
  \/ BallocRefill
  \/ BallocOverrun
  \/ WriteSuper
  \/ ZeroBlock
  \/ Crash

Spec == Init /\ [][Next]_vars

-----------------------------------------------------------------------------
(* A list l with a chain ch is a stack of lists: number k is in chain      *)
(* block ch[k] of the device content B, the newest one is l itself.        *)
Lists(ch) == 1 .. Len(ch) + 1
ListAt(l, ch, B, k) == IF k = Len(ch) + 1 THEN l ELSE B[ch[k]]
Slots(l, ch, B, k) == 0 .. ListAt(l, ch, B, k).nfree - 1
Entry(l, ch, B, k, i) == ListAt(l, ch, B, k).free[i]

(* fs_balloc returns every entry but entry 0 of each list, which names the *)
(* block the list before it is in, or the first block mkfs freed.          *)
FreeSet(l, ch, B) ==
  UNION {{Entry(l, ch, B, k, i) : i \in Slots(l, ch, B, k) \ {0}} : k \in Lists(ch)}

Nodes(l, ch, B) ==
  {Entry(l, ch, B, k, 0) : k \in {m \in Lists(ch) : 0 \in Slots(l, ch, B, m)}}

Broken == pc = "broken" \/ dorigin = "junk"

(* The block of a call that has passed its superblock write, or has not    *)
(* reached it: its caller, on either side of the call, accounts for it.    *)
InFlight == IF pc \in {"alloc_zero", "free_sb"} /\ ~Broken THEN {arg} ELSE {}

(* The pool is the list that a new process would find on the device.       *)
PoolFree == IF Broken THEN {} ELSE FreeSet(dsb, dchain, blk)
PoolUsed == held \union InFlight
PoolNodes == IF Broken THEN {} ELSE Nodes(dsb, dchain, blk)

Pool == INSTANCE BlockPool WITH
  Block <- Data, free <- PoolFree, used <- PoolUsed, nodes <- PoolNodes,
  broken <- Broken

-----------------------------------------------------------------------------
(* Every variable has its type, and nfree stays within the array as long   *)
(* as no block is asked of an empty list.                                  *)
TypeOK ==
  /\ sb \in List /\ (origin # "junk" => sb.nfree <= Cap)
  /\ dsb \in List /\ (dorigin # "junk" => dsb.nfree <= Cap)
  /\ blk \in [Data -> List]
  /\ held \subseteq Data
  /\ pc \in {"idle", "alloc_sb", "alloc_zero", "free_sb", "broken"}
  /\ arg \in Nat
  /\ next \in FirstData .. FSize
  /\ chain \in Seq(Data) /\ dchain \in Seq(Data)
  /\ origin \in {"pool", "junk"} /\ dorigin \in {"pool", "junk"}

(* No entry of the stack is in the hands of a caller of set H, and no      *)
(* block is an entry twice.                                                *)
OnceEach(l, ch, B, H) ==
  /\ \A k \in Lists(ch) : \A i \in Slots(l, ch, B, k) :
       Entry(l, ch, B, k, i) \in Data \ H
  /\ \A k, m \in Lists(ch) :
       \A i \in Slots(l, ch, B, k), j \in Slots(l, ch, B, m) :
         Entry(l, ch, B, k, i) = Entry(l, ch, B, m, j) => k = m /\ i = j

(* No block in the hands of a caller is in the list, be it the list in     *)
(* memory or the one a new process would find on the device, and no block  *)
(* is in the list twice: two files never receive the same block, whatever  *)
(* the order of calls, wherever the process dies and whatever the image    *)
(* held before mkfs, until a block is asked of the empty list.             *)
NoDoubleAllocation ==
  ~Broken /\ origin # "junk" =>
    OnceEach(sb, chain, blk, held) /\ OnceEach(dsb, dchain, blk, held)

(* What the request to the empty list does on an image that was used       *)
(* before: a list left in the first data block hands out blocks that       *)
(* callers hold.  FreeList_used_image.cfg shows it.                        *)
HandsOutNoHeldBlock == pc = "alloc_zero" => arg \notin held

(* Every step of the code is a step of BlockPool, or none: the call that   *)
(* writes the superblock is the one that moves a block, blocks are handed  *)
(* out only from the pool, and what entry 0 of the oldest list leads to is *)
(* used as a list only once every block of the pool is out; from there on  *)
(* BlockPool promises nothing.                                             *)
RefinesPool == Pool!Spec

(* Every data block is in the pool, kept by the list, or with a caller,    *)
(* unless a crash forgot it or a refill dropped its list block: no call    *)
(* loses more than one block.                                              *)
Accounted == PoolFree \union PoolUsed \union PoolNodes

OneLostPerRefill ==
  [][ \/ Crash
      \/ Broken'
      \/ Accounted' = Accounted
      \/ /\ dchain' = Front(dchain)
         /\ Accounted' = Accounted \ {dchain[Len(dchain)]} ]_vars

(* include/stupidfs.h:63, of stpdfs_free.free: "index 0 point to next      *)
(* freelist".  The code never ends the chain this way: the first block     *)
(* that mkfs frees is entry 0 of the oldest list and holds no list, which  *)
(* is why a request to the empty pool does not fail.                       *)
IndexZeroIsNextFreelist ==
  dsb.nfree \in 1 .. Cap /\ dsb.free[0] # 0 => blk[dsb.free[0]].nfree > 0

-----------------------------------------------------------------------------
(* The inductive invariant.                                                *)

(* Every list below the newest one is full, and entry 0 links the lists.   *)
WellFormed(l, ch, B, H) ==
  /\ l.nfree \in 0 .. Cap
  /\ l.nfree = 0 => ch = <<>>
  /\ \A k \in 1 .. Len(ch) : B[ch[k]].nfree = Cap
  /\ \A k \in 1 .. Len(ch) : Entry(l, ch, B, k + 1, 0) = ch[k]
  /\ l.nfree > 0 => Entry(l, ch, B, 1, 0) = FirstData
  /\ OnceEach(l, ch, B, H)

(* What a call has done between its change of the list in memory and its   *)
(* write of the superblock.                                                *)
Freeing ==
  /\ arg \in Data \ held
  /\ \/ ~Full(dsb) /\ sb = Push(dsb, arg) /\ chain = dchain
     \/ /\ Full(dsb) /\ sb = StartList(dsb, arg)
        /\ chain = Append(dchain, arg) /\ blk[arg] = dsb

Allocating ==
  \/ origin = "junk" /\ dsb.nfree = 1 /\ dchain = <<>>
  \/ /\ origin # "junk" /\ dsb.nfree > 1 /\ sb = Pop(dsb) /\ arg = Top(dsb)
     /\ chain = dchain
  \/ /\ origin # "junk" /\ dsb.nfree = 1 /\ dchain # <<>> /\ chain = Front(dchain)
     /\ LET l == blk[dchain[Len(dchain)]] IN sb = Pop(l) /\ arg = Top(l)

(* Both copies of the list are stacks as above over the same blocks, and   *)
(* they differ by what the call in progress has done: this is what makes   *)
(* NoDoubleAllocation and RefinesPool inductive.                           *)
IInv ==
  /\ TypeOK
  /\ next .. FSize - 1 \subseteq held
  /\ next < FSize => pc \in {"idle", "free_sb"}
  /\ pc # "broken" /\ origin # "junk" /\ sb.nfree = 0 => next = FirstData
  /\ pc # "broken" =>
       /\ origin # "junk" => WellFormed(sb, chain, blk, held)
       /\ dorigin # "junk" => WellFormed(dsb, dchain, blk, held)
       /\ pc # "alloc_zero" => dorigin # "junk"
  /\ pc \in {"idle", "alloc_zero"} => sb = dsb /\ chain = dchain /\ origin = dorigin
  /\ pc = "idle" => origin # "junk"
  /\ pc = "free_sb" => origin # "junk" /\ Freeing
  /\ pc = "alloc_sb" => Allocating
  /\ pc = "alloc_zero" /\ origin # "junk" =>
       /\ arg \in Data \ held
       /\ \A k \in Lists(chain) : \A i \in Slots(sb, chain, blk, k) :
            Entry(sb, chain, blk, k, i) # arg
=============================================================================
