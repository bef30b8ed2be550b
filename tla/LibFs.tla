-------------------------------- MODULE LibFs --------------------------------
(***************************************************************************)
(* The operations of libfs as functions: inode.c, rw.c, dir.c, super.c and *)
(* fs_balloc.  A program that runs them is a record                        *)
(*                                                                         *)
(*   dev     the content of the volume                                     *)
(*   ino     the inodes in the memory of the program                       *)
(*   log     the contents the volume had after each block write            *)
(*   r       the result of the last call                                   *)
(*   status  how the run goes: "ok", "dies" (a null pointer is used) or    *)
(*           "wild" (the empty free list is read past its array)           *)
(*                                                                         *)
(* Every write of libfs goes straight to the device, one block at a time.  *)
(* A block is a function to cells: directory entries (inode number and     *)
(* name) or units of file data (number and source), CPB of them, or the    *)
(* NInd addresses of an indirect block.  Sizes count cells.                *)
(***************************************************************************)
EXTENDS Integers, SequencesExt

CONSTANTS NDir,      \* direct zones of an inode, 7 in the code
          NInd,      \* addresses in an indirect block, 128 in the code
          CPB,       \* cells per block: 16 directory entries in the code
          ISize,     \* sb.isize
          NData      \* data blocks that mkfs frees and fs_balloc can return

ASSUME GeometryAssumption ==
  /\ NDir \in Nat \ {0} /\ NInd \in Nat \ {0} /\ CPB \in Nat \ {0}
  /\ ISize \in Nat /\ ISize > 1
  /\ NData \in Nat \ {0}

Root == 1                           \* STPDFS_ROOTINO
Inum == 1 .. ISize - 1              \* the inodes fs_inode_alloc looks at
Block == 1 .. NData                 \* 0 is no block
SInd == NDir                        \* STPDFS_SIND
MaxCells == (NDir + NInd) * CPB     \* the most a file or directory holds

ALOC == 32768                       \* STPDFS_INO_FLAG_ALOC, 1 << 15
IFDIR == 4                          \* STPDFS_S_IFDIR >> 12
IFREG == 8                          \* STPDFS_S_IFREG >> 12
DirMode == IFDIR * 4096
RegMode == IFREG * 4096
Type(x) == (x \div 4096) % 16       \* x & STPDFS_S_IFMT

Cell(n, s) == [n |-> n, s |-> s]
ZeroCell == Cell(0, "")
ZeroBlock == [c \in 0 .. Max({CPB, NInd}) - 1 |-> ZeroCell]
ZeroInode == [flags |-> 0, mode |-> 0, nlink |-> 0, size |-> 0,
              zones |-> [z \in 0 .. SInd |-> 0]]

(* One write to the device.  A run that has died or gone wild writes       *)
(* nothing any more.                                                       *)
Emit(v, d) ==
  IF v.status # "ok" THEN v ELSE [v EXCEPT !.dev = d, !.log = Append(@, d)]

WriteBlk(v, b, cells) ==
  Emit(v, [v.dev EXCEPT !.blk = [@ EXCEPT ![b] = cells]])
WriteIno(v, i, p) ==
  Emit(v, [v.dev EXCEPT !.ino = [@ EXCEPT ![i] = p]])

(* A change of inode i in the memory of the program.                       *)
SetIno(v, i, p) == [v EXCEPT !.ino = [@ EXCEPT ![i] = p]]

-----------------------------------------------------------------------------
BallocKeepsContent(v) ==  \* mutant: the block is not cleared
  IF v.dev.free = {}
    THEN [v EXCEPT !.status = "wild", !.r = 0]
    ELSE LET b == Max(v.dev.free)
         IN [Emit(v, [v.dev EXCEPT !.free = @ \ {b}, !.clean = FALSE]) EXCEPT !.r = b]

(* fs_balloc, as far as its callers see it: BlockPool!Alloc.  Which block  *)
(* is returned does not matter to them.                                    *)
Balloc(v) ==
  IF v.dev.free = {}
    THEN [v EXCEPT !.status = "wild", !.r = 0]
    ELSE LET b == Max(v.dev.free)
             w == Emit(v, [v.dev EXCEPT !.free = @ \ {b}, !.clean = FALSE])
         IN [WriteBlk(w, b, ZeroBlock) EXCEPT !.r = b]

(* The block just allocated becomes zone z of inode i.                     *)
SetZone(w, i, z) == SetIno(w, i, [w.ino[i] EXCEPT !.zones = [@ EXCEPT ![z] = w.r]])

ZoneOfAnew(v, i, z) ==    \* mutant: a block is allocated on every use
  SetZone(Balloc(v), i, z)

(* bmap, for a zone of the inode: it is allocated on first use.            *)
ZoneOf(v, i, z) ==
  IF v.ino[i].zones[z] # 0 THEN [v EXCEPT !.r = v.ino[i].zones[z]]
                           ELSE SetZone(Balloc(v), i, z)

(* The block just allocated becomes address k of the indirect block p.     *)
SetAddress(w, p, k) == WriteBlk(w, p, [w.dev.blk[p] EXCEPT ![k] = Cell(w.r, "")])

AddressUnwritten(v, k) == \* mutant: the indirect block is not written
  IF v.r = 0 THEN v
  ELSE IF v.dev.blk[v.r][k].n # 0 THEN [v EXCEPT !.r = v.dev.blk[v.r][k].n]
  ELSE Balloc(v)

(* bmap, for an address of the indirect block, which it has just found:    *)
(* allocated on first use too.                                             *)
AddressOf(v, k) ==
  IF v.r = 0 THEN v
  ELSE IF v.dev.blk[v.r][k].n # 0 THEN [v EXCEPT !.r = v.dev.blk[v.r][k].n]
  ELSE SetAddress(Balloc(v), v.r, k)

BmapFar(v, i, n) ==       \* mutant: one address more than the block has
  IF n < NDir THEN ZoneOf(v, i, n)
  ELSE IF n > NDir + NInd THEN [v EXCEPT !.r = 0]
  ELSE AddressOf(ZoneOf(v, i, SInd), n - NDir)

Bmap(v, i, n) ==
  IF n < NDir THEN ZoneOf(v, i, n)
  ELSE IF n >= NDir + NInd THEN [v EXCEPT !.r = 0]
  ELSE AddressOf(ZoneOf(v, i, SInd), n - NDir)

(* fs_inode_update.                                                        *)
Update(v, i) == WriteIno(v, i, v.ino[i])

(* fs_write of cells that do not cross a block, as its callers' do not:    *)
(* the block bmap has found is filled, then the inode is written.          *)
Filled(old, at, cells) ==
  [c \in DOMAIN old |-> IF c \in at .. at + Len(cells) - 1 THEN cells[c - at + 1] ELSE old[c]]

FillBlock(w, at, cells) == WriteBlk(w, w.r, Filled(w.dev.blk[w.r], at, cells))

Grow(w, i, size) == SetIno(w, i, [w.ino[i] EXCEPT !.size = Max({@, size})])

WriteCells(w, i, off, cells) ==
  IF w.r = 0 THEN [Update(w, i) EXCEPT !.r = 0]
  ELSE [Update(Grow(FillBlock(w, off % CPB, cells), i, off + Len(cells)), i)
          EXCEPT !.r = Len(cells)]

FsWrite(v, i, off, cells) ==
  IF off > v.ino[i].size THEN [v EXCEPT !.r = 0]
  ELSE WriteCells(Bmap(v, i, off \div CPB), i, off, cells)

(* Block n of a file whose inode is p, 0 where it has none; fs_read of one *)
(* cell of it.                                                             *)
BlockAt(d, p, n) ==
  IF n < NDir THEN p.zones[n]
  ELSE IF p.zones[SInd] = 0 \/ n >= NDir + NInd THEN 0
  ELSE d.blk[p.zones[SInd]][n - NDir].n

CellAt(d, p, off) ==
  LET b == BlockAt(d, p, off \div CPB) IN
    IF b = 0 THEN ZeroCell ELSE d.blk[b][off % CPB]

-----------------------------------------------------------------------------
(* fs_inode_alloc and the fs_inode_get and fs_inode_read that follow it:   *)
(* an inode that is already in memory (the root) is not read again.        *)
InodeAlloc(v) ==
  LET avail == {i \in Inum : v.dev.ino[i].flags < ALOC}
      i == Min(avail)
      fresh == [ZeroInode EXCEPT !.flags = ALOC]
      w == WriteIno(v, i, fresh)
  IN IF avail = {} THEN [v EXCEPT !.r = 0]
     ELSE [(IF i = Root THEN w ELSE SetIno(w, i, fresh)) EXCEPT !.r = i]

(* fs_dir_lookup, as it is written: the type is looked for in the flags of *)
(* the inode, and a name that differs is a hit.                            *)
Lookup(v, dp, name) ==
  LET hits == {off \in 0 .. v.ino[dp].size - 1 :
                 /\ CellAt(v.dev, v.ino[dp], off).n # 0
                 /\ CellAt(v.dev, v.ino[dp], off).s # name}
  IN IF Type(v.ino[dp].flags) # IFDIR \/ hits = {} THEN 0
     ELSE CellAt(v.dev, v.ino[dp], Min(hits)).n

(* The link count of an inode that a directory names once more.            *)
CountLink(w, i) == Update(SetIno(w, i, [w.ino[i] EXCEPT !.nlink = @ + 1]), i)

AddEntry(v, dp, off, name, i) == FsWrite(v, dp, off, <<Cell(i, name)>>)

DirLinkCountFirst(v, dp, name, i) ==      \* mutant: the count comes first
  LET Result(w) == [w EXCEPT !.r = IF @ = 1 THEN 0 ELSE -1]
  IN Result(AddEntry(CountLink(v, i), dp, v.ino[dp].size, name, i))

(* fs_dir_link: the first free entry or the end of the directory, then the *)
(* link count of the inode.                                                *)
DirLink(v, dp, name, i) ==
  LET Off == {o \in 0 .. v.ino[dp].size :
                o = v.ino[dp].size \/ CellAt(v.dev, v.ino[dp], o).n = 0}
      Count(w) == IF w.r # 1 THEN [w EXCEPT !.r = -1]
                  ELSE [CountLink(w, i) EXCEPT !.r = 0]
  IN IF Lookup(v, dp, name) # 0 THEN [v EXCEPT !.r = -17]
     ELSE Count(AddEntry(v, dp, Min(Off), name, i))

(* Inode i of fs_mkdir, with its type.                                     *)
SetMode(w, i, mode) == SetIno(w, i, [w.ino[i] EXCEPT !.mode = mode])

FsMkdirParentFirst(v, dp, name) ==        \* mutant: the parent comes first
  LET Make(w, i) ==
        IF i = 0 THEN v
        ELSE DirLink(DirLink(DirLink(SetMode(w, i, DirMode), dp, name, i), i, ".", i),
                     i, "..", dp)
      w == InodeAlloc(v)
  IN Make(w, w.r)

(* fs_mkdir, which looks at the result of no call but the allocation.      *)
FsMkdir(v, dp, name) ==
  LET Make(w, i) ==
        IF Type(v.ino[dp].mode) # IFDIR \/ i = 0 THEN v
        ELSE DirLink(DirLink(DirLink(SetMode(w, i, DirMode), i, ".", i), i, "..", dp),
                     dp, name, i)
      w == InodeAlloc(v)
  IN Make(w, w.r)

(* fs_super_kill.                                                          *)
SuperKill(v) == Emit(v, [v.dev EXCEPT !.clean = TRUE])
=============================================================================
