------------------------------ MODULE FileMap -------------------------------
(***************************************************************************)
(* The loops of fs_read and fs_write (libfs/rw.c) over the blocks of one   *)
(* file, on top of the bmap, fs_balloc and fs_inode_update of LibFs.  A    *)
(* cell of LibFs is a byte here.  One call is one step.                    *)
(***************************************************************************)
EXTENDS LibFs

CONSTANTS Data,      \* what is written in one call
          MaxWrites  \* bound on the writes

ASSUME WritesAssumption == MaxWrites \in Nat

VARIABLES dev,       \* the volume
          ino,       \* the inodes in memory
          result,    \* of the last call: a count, and the bytes read
          status,    \* "ok", or "wild": a call found no free block
          writes     \* history: the writes so far

vars == <<dev, ino, result, status, writes>>

File == Root         \* the one file of the volume

Init ==
  /\ dev = [free |-> Block, clean |-> TRUE,
            ino |-> [i \in Inum |-> [ZeroInode EXCEPT !.flags = ALOC]],
            blk |-> [b \in Block |-> ZeroBlock]]
  /\ ino = dev.ino
  /\ result = [count |-> 0, bytes |-> <<>>]
  /\ status = "ok"
  /\ writes = 0

Now == [dev |-> dev, ino |-> ino, log |-> <<>>, r |-> 0, status |-> "ok"]

(* A call in progress: the state v it has led to, the offset, the bytes    *)
(* still to write or the number still to read, and the bytes read.         *)
Begin(v, off, todo) == [v |-> v, off |-> off, todo |-> todo, bytes |-> <<>>, stop |-> FALSE]

Part(s, left) == Min({left, CPB - (s.off % CPB)})

PutAll(s, w) ==           \* mutant: the block's end is not looked at
  IF w.r = 0 THEN [s EXCEPT !.v = w, !.stop = TRUE]
  ELSE [s EXCEPT !.v = FillBlock(w, s.off % CPB, SubSeq(s.todo, 1, Min({Len(s.todo), CPB}))),
                 !.off = @ + Min({Len(s.todo), CPB}),
                 !.todo = SubSeq(@, Min({Len(@), CPB}) + 1, Len(@))]

(* One turn of the loop of fs_write, on the block that bmap has found.     *)
Put(s, w) ==
  IF w.r = 0 THEN [s EXCEPT !.v = w, !.stop = TRUE]
  ELSE [s EXCEPT !.v = FillBlock(w, s.off % CPB, SubSeq(s.todo, 1, Part(s, Len(s.todo)))),
                 !.off = @ + Part(s, Len(s.todo)),
                 !.todo = SubSeq(@, Part(s, Len(@)) + 1, Len(@))]

WriteTurn(s, k) ==
  IF s.stop \/ s.todo = <<>> THEN s ELSE Put(s, Bmap(s.v, File, s.off \div CPB))

WriteLoopUnsaved(v, off, data) ==  \* mutant: fs_inode_update is left out
  LET End(s) == [Grow(s.v, File, s.off) EXCEPT !.r = Len(data) - Len(s.todo)]
  IN IF off > v.ino[File].size THEN [v EXCEPT !.r = 0]
     ELSE End(FoldLeft(WriteTurn, Begin(v, off, data), [k \in 1 .. Len(data) |-> k]))

WriteLoop(v, off, data) ==
  LET End(s) == [Update(Grow(s.v, File, s.off), File) EXCEPT !.r = Len(data) - Len(s.todo)]
  IN IF off > v.ino[File].size THEN [v EXCEPT !.r = 0]
     ELSE End(FoldLeft(WriteTurn, Begin(v, off, data), [k \in 1 .. Len(data) |-> k]))

TakeFromStart(s, w) ==    \* mutant: offset % STPDFS_BLOCK_SIZE is left out
  IF w.r = 0 THEN [s EXCEPT !.v = w, !.stop = TRUE]
  ELSE [s EXCEPT !.v = w,
                 !.bytes = @ \o [k \in 1 .. Part(s, s.todo) |-> w.dev.blk[w.r][k - 1]],
                 !.off = @ + Part(s, s.todo),
                 !.todo = @ - Part(s, @)]

(* One turn of the loop of fs_read.                                        *)
Take(s, w) ==
  IF w.r = 0 THEN [s EXCEPT !.v = w, !.stop = TRUE]
  ELSE [s EXCEPT !.v = w,
                 !.bytes = @ \o [k \in 1 .. Part(s, s.todo) |->
                                   w.dev.blk[w.r][(s.off % CPB) + k - 1]],
                 !.off = @ + Part(s, s.todo),
                 !.todo = @ - Part(s, @)]

ReadTurn(s, k) ==
  IF s.stop \/ s.todo = 0 THEN s ELSE Take(s, Bmap(s.v, File, s.off \div CPB))

ReadLoop(v, off, n) ==
  IF off > v.ino[File].size THEN Begin(v, off, n)
  ELSE FoldLeft(ReadTurn, Begin(v, off, n), [k \in 1 .. n |-> k])

-----------------------------------------------------------------------------
(* A call ends in state v.  When it found no free block nothing is said of *)
(* the volume any more.                                                    *)
Return(v, count, bytes) ==
  IF v.status = "ok"
    THEN dev' = v.dev /\ ino' = v.ino /\ result' = [count |-> count, bytes |-> bytes]
         /\ UNCHANGED status
    ELSE status' = v.status /\ UNCHANGED <<dev, ino, result>>

Write(off, data) ==
  /\ writes < MaxWrites /\ writes' = writes + 1
  /\ LET Written(v) == Return(v, v.r, <<>>)
     IN Written(WriteLoop(Now, off, data))

(* fs_read looks at the size only for the offset: the blocks it meets      *)
(* behind the last one are allocated, in the memory of the program.        *)
Read(off, n) ==
  /\ LET Got(s) == Return(s.v, Len(s.bytes), s.bytes)
     IN Got(ReadLoop(Now, off, n))
  /\ UNCHANGED writes

(* Another process opens the volume.                                       *)
Reopen == ino' = dev.ino /\ UNCHANGED <<dev, result, status, writes>>

Next ==
  /\ status = "ok"
  /\ \/ \E off \in 0 .. MaxCells + 1 :
          \/ \E data \in Data : Write(off, data)
          \/ \E n \in 0 .. MaxCells + 1 : Read(off, n)
     \/ Reopen

Spec == Init /\ [][Next]_vars

-----------------------------------------------------------------------------
(* The file as a new process finds it.                                     *)
Content == [k \in 1 .. dev.ino[File].size |-> CellAt(dev, dev.ino[File], k - 1)]

Plain == INSTANCE PlainFile WITH Limit <- MaxCells, Zero <- ZeroCell, content <- Content

(* Every variable has its type.  In memory the inode has the blocks it has *)
(* on the volume, and maybe some behind them; they are the first blocks of *)
(* the file, at least as many as its size needs, all different and none of *)
(* them free.                                                              *)
Mapped(p) == {n \in 0 .. NDir + NInd - 1 : BlockAt(dev, p, n) # 0}
TypeOK ==
  /\ dev.free \subseteq Block /\ writes \in 0 .. MaxWrites /\ status \in {"ok", "wild"}
  /\ ino[File].size = dev.ino[File].size /\ ino[File].size \in 0 .. MaxCells
  /\ result.count \in 0 .. MaxCells
  /\ \A z \in 0 .. SInd : dev.ino[File].zones[z] \in {0, ino[File].zones[z]}
  /\ \A p \in {ino[File], dev.ino[File]} :
       LET Of(n) == BlockAt(dev, p, n) IN
       /\ Mapped(p) = 0 .. Cardinality(Mapped(p)) - 1
       /\ Cardinality(Mapped(p)) * CPB >= p.size
       /\ \A n \in Mapped(p) : Of(n) \in Block \ (dev.free \union {p.zones[SInd]})
       /\ \A m, n \in Mapped(p) : Of(m) = Of(n) => m = n

(* The loops over blocks, addresses and offsets make a plain file.         *)
RefinesPlainFile == Plain!Spec

(* Within a block, the loop of fs_write is the single step that LibFs and  *)
(* the tools modelled with it take for it.                                 *)
AsInLibFs ==
  \A off \in 0 .. MaxCells : \A data \in Data :
    (off % CPB) + Len(data) <= CPB /\ data # <<>> =>
      LET Same(a, b) == a.dev = b.dev /\ a.ino = b.ino /\ a.r = b.r /\ a.status = b.status
      IN Same(WriteLoop(Now, off, data), FsWrite(Now, File, off, data))
=============================================================================
