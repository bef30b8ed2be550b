-------------------------------- MODULE Tools --------------------------------
(***************************************************************************)
(* The command line tools on a volume: mkfs.stpd, tools.stpd mkdir, copy   *)
(* and ls, and inspect.stpd.  A run is computed when it starts and is then *)
(* played one block write at a time, so that it can be killed between any  *)
(* two writes.  Runs do not overlap.                                       *)
(***************************************************************************)
EXTENDS LibFs

CONSTANTS IPB,        \* inodes per block, 7 in the code
          Names,      \* names for new entries of the root directory
          Paths,      \* the paths mkdir is given, sequences of names
          Sources,    \* host files: records with a name, a kind and a length
          Garbage,    \* what uninitialized memory may hold
          Former,     \* what the blocks of an image may hold before mkfs
          MaxRuns     \* bound on the runs of a behaviour

(* Memory holds numbers, a block cells; a path names something; only files  *)
(* can be read.                                                            *)
ASSUME VolumeAssumption ==
  /\ IPB \in Nat \ {0} /\ MaxRuns \in Nat
  /\ Garbage \subseteq Nat
  /\ \A old \in Former :
       /\ old = [c \in DOMAIN ZeroBlock |-> Cell(old[c].n, old[c].s)]
       /\ \A c \in DOMAIN ZeroBlock : old[c].n \in Nat
  /\ Paths \subseteq Seq(Names) \ {<<>>}
  /\ \A src \in Sources :
       /\ src = [name |-> src.name, kind |-> src.kind, len |-> src.len]
       /\ src.kind \in {"file", "dir", "missing"}
       /\ src.len \in Nat /\ (src.kind # "file" => src.len = 0)

VARIABLES disk,       \* the volume
          todo,       \* the contents the run in progress will still write
          ending,     \* how it ends: "ok", "format", "dies" or "wild"
          (* History: "raw" until mkfs has run to its end, then "whole" as *)
          (* long as every run reaches its end ("busy" while one writes),  *)
          (* "torn" once one was killed or died after a write, and "lost"  *)
          (* after one that went wild.                                     *)
          health,
          runs    \* the runs started so far

vars == <<disk, todo, ending, health, runs>>

(* The image is created full of zeroes (tools/tests/mkfs.test), or it was  *)
(* used before: mkfs clears the inode blocks, and the data blocks keep     *)
(* what they hold.                                                         *)
Init ==
  /\ \E old \in Former :
       disk = [valid |-> FALSE, clean |-> TRUE, free |-> {},
               ino |-> [i \in Inum |-> ZeroInode], blk |-> [b \in Block |-> old]]
  /\ todo = <<>>
  /\ ending = "ok"
  /\ health = "raw"
  /\ runs = 0

Open == [dev |-> disk, ino |-> disk.ino, log |-> <<>>, r |-> 0, status |-> "ok"]

Idle == todo = <<>> /\ health # "lost"

Start(v) ==
  /\ Idle /\ v.log # <<>>
  /\ runs < MaxRuns /\ runs' = runs + 1
  /\ todo' = v.log
  /\ ending' = v.status

-----------------------------------------------------------------------------
(* mkfs: zero the inode blocks, free the data blocks, then make the root   *)
(* directory.  The first call of fs_bfree is the one that writes a valid   *)
(* superblock, and its block is the one the free list keeps; those of      *)
(* Block follow.  The link count of the root is uninitialized memory (g)   *)
(* until it is set to 2.                                                   *)
ZeroInodes(v, k) ==
  LET Zero(ino, i) == IF i \div IPB = k - 1 THEN [ino EXCEPT ![i] = ZeroInode] ELSE ino
  IN Emit(v, [v.dev EXCEPT !.ino = FoldLeft(Zero, @, [i \in Inum |-> i])])

MkfsOpen(v) == Emit(v, [v.dev EXCEPT !.valid = TRUE, !.clean = FALSE, !.free = {}])

MkfsFree(v, b) == Emit(v, [v.dev EXCEPT !.free = @ \union {b}])

MkfsRoot(v, g) ==
  Update(SetIno(v, Root, [ZeroInode EXCEPT !.flags = ALOC, !.mode = DirMode, !.nlink = g]),
         Root)

MkfsLink(v, name) == DirLink(v, Root, name, Root)

MkfsCount(v) == Update(SetIno(v, Root, [v.ino[Root] EXCEPT !.nlink = 2]), Root)

MkfsRun(g) ==
  LET zeroed == FoldLeft(ZeroInodes, Open, [k \in 1 .. ISize |-> k])
      freed == FoldLeft(MkfsFree, MkfsOpen(zeroed), [b \in Block |-> b])
  IN SuperKill(MkfsCount(FoldLeft(MkfsLink, MkfsRoot(freed, g), <<".", "..">>)))

Mkfs ==
  /\ \E g \in Garbage :
       Start([MkfsRun(g) EXCEPT !.status = IF @ = "ok" THEN "format" ELSE @])
  /\ health' = "raw"
  /\ UNCHANGED disk

-----------------------------------------------------------------------------
(* do_mkdir never leaves the root directory: only the last name of a path  *)
(* counts.  A lookup that succeeds ends the loop of cmd_mkdir.             *)
DoMkdir(v, path) ==
  IF v.r # 0 \/ Lookup(v, Root, Last(path)) # 0
    THEN [v EXCEPT !.r = -1]
    ELSE [FsMkdir(v, Root, Last(path)) EXCEPT !.r = 0]

MkdirRun(paths) == SuperKill(FoldLeft(DoMkdir, Open, paths))

Mkdir ==
  /\ disk.valid
  /\ \E n \in 1 .. 2 : \E paths \in [1 .. n -> Paths] : Start(MkdirRun(paths))
  /\ UNCHANGED <<disk, health>>

-----------------------------------------------------------------------------
(* The data of a source, and do_copy's loop over its chunks of one block.  *)
Data(src) == [k \in 1 .. src.len |-> Cell(k, src.name)]

CopyChunks(v, i, src) ==
  LET Chunk(w, k) ==
        FsWrite(w, i, (k - 1) * CPB,
                SubSeq(Data(src), (k - 1) * CPB + 1, Min({k * CPB, src.len})))
  IN FoldLeft(Chunk, v, [k \in 1 .. (src.len + CPB - 1) \div CPB |-> k])

(* do_copy.  It uses a null pointer when no inode is free or the source    *)
(* cannot be opened; mode is what stat said of it.                         *)
CopyRun(src, dest, mode) ==
  LET Fresh(v, i) == [v.ino[i] EXCEPT !.mode = mode, !.flags = ALOC]
      Made(v, i) == Update(SetIno(v, i, Fresh(v, i)), i)
      Into(v, i) ==
        IF i = 0 THEN [v EXCEPT !.status = "dies"]
        ELSE IF src.kind = "missing" THEN [Made(v, i) EXCEPT !.status = "dies"]
        ELSE SuperKill(DirLink(CopyChunks(Made(v, i), i, src), Root, dest, i))
      v == InodeAlloc(Open)
  IN Into(v, v.r)

(* stat does not set the mode of a source that does not exist; a directory *)
(* can be opened but not read.                                             *)
StatModes(src) ==
  CASE src.kind = "file" -> {RegMode}
    [] src.kind = "dir" -> {DirMode}
    [] src.kind = "missing" -> {g * 4096 : g \in Garbage}

Copy ==
  /\ disk.valid
  /\ \E src \in Sources, dest \in Names : \E mode \in StatModes(src) :
       Start(CopyRun(src, dest, mode))
  /\ UNCHANGED <<disk, health>>

(* ls and inspect only read, and end with fs_super_kill.                   *)
LsRun == SuperKill(Open)
InspectRun == SuperKill(Open)

Browse ==
  /\ disk.valid
  /\ Start(LsRun) \/ Start(InspectRun)
  /\ UNCHANGED <<disk, health>>

-----------------------------------------------------------------------------
WriteBlock ==
  /\ todo # <<>>
  /\ disk' = Head(todo)
  /\ todo' = Tail(todo)
  /\ \/ /\ Len(todo) > 1
        /\ health' = IF health = "whole" THEN "busy" ELSE health
        /\ UNCHANGED ending
     \/ /\ Len(todo) = 1
        /\ health' = CASE ending = "format" -> "whole"
                       [] ending = "wild" -> "lost"
                       [] ending = "ok" /\ health = "busy" -> "whole"
                       [] ending = "dies" /\ health # "raw" -> "torn"
                       [] OTHER -> health
        /\ ending' = "ok"
  /\ UNCHANGED runs

(* The process is killed.                                                  *)
Die ==
  /\ todo # <<>>
  /\ todo' = <<>>
  /\ ending' = "ok"
  /\ health' = IF health = "busy" THEN "torn" ELSE health
  /\ UNCHANGED <<disk, runs>>

Next == Mkfs \/ Mkdir \/ Copy \/ Browse \/ WriteBlock \/ Die

Spec == Init /\ [][Next]_vars

-----------------------------------------------------------------------------
(* The directory entries of the volume, <<directory, cell>>, and the       *)
(* blocks its inodes lead to, <<inode, file block>>, with the indirect     *)
(* block as number -1.                                                     *)
IsDir(d, i) == Type(d.ino[i].mode) = IFDIR
Cells(d, i) == [k \in 1 .. d.ino[i].size |-> CellAt(d, d.ino[i], k - 1)]

Entries(d) == {e \in Inum \X (1 .. MaxCells) :
                 /\ IsDir(d, e[1]) /\ e[2] <= d.ino[e[1]].size
                 /\ CellAt(d, d.ino[e[1]], e[2] - 1).n # 0}

Owned(d, x) == IF x[2] = -1 THEN d.ino[x[1]].zones[SInd]
               ELSE BlockAt(d, d.ino[x[1]], x[2])

InUse(d) == {x \in Inum \X (-1 .. NDir + NInd - 1) : Owned(d, x) # 0}

(* The root directory, as a new process finds it, after the two entries    *)
(* that mkfs makes.                                                        *)
Shown(d, c) ==
  [name |-> c.s, type |-> Type(d.ino[c.n].mode), data |-> Cells(d, c.n)]

Visible(d) ==
  LET seen == IF IsDir(d, Root) THEN Cells(d, Root) ELSE <<>>
  IN [k \in 1 .. Len(seen) - 2 |-> Shown(d, seen[k + 2])]

(* The entries that mkdir and copy can mean to make: a directory with its  *)
(* two entries, and as much of the source as an inode can hold.            *)
CompleteEntries ==
       {[name |-> s, type |-> IFDIR, data |-> <<Cell(i, "."), Cell(Root, "..")>>] :
          s \in Names, i \in Inum}
  \union {[name |-> s, type |-> IF src.kind = "dir" THEN IFDIR ELSE IFREG,
           data |-> SubSeq(Data(src), 1, Min({src.len, MaxCells}))] :
          s \in Names, src \in {x \in Sources : x.kind # "missing"}}

-----------------------------------------------------------------------------
InodeRecord == [flags : {0, ALOC}, mode : {g * 4096 : g \in Garbage} \union {0, DirMode, RegMode},
                nlink : Nat, size : 0 .. MaxCells, zones : [0 .. SInd -> {0} \union Block]]

(* Every inode of the volume has its type, whichever write a run stops at; *)
(* no directory or file outgrows its zones.                                *)
TypeOK ==
  /\ disk.valid \in BOOLEAN /\ disk.clean \in BOOLEAN
  /\ disk.free \subseteq Block
  /\ disk.ino \in [Inum -> InodeRecord]
  /\ ending \in {"ok", "format", "dies", "wild"}
  /\ health \in {"raw", "whole", "busy", "torn", "lost"}
  /\ runs \in 0 .. MaxRuns

(* No two zones or addresses of the inodes on the device lead to the same  *)
(* block, and none leads to a free block, at whichever write a run stops.  *)
NoSharedBlock ==
  \A x \in InUse(disk) :
    /\ Owned(disk, x) \notin disk.free
    /\ \A y \in InUse(disk) : Owned(disk, x) = Owned(disk, y) => x = y

(* An inode on the device has a block for every cell below its size, so    *)
(* that no read of it allocates one.                                       *)
NoHoles ==
  \A i \in Inum : \A off \in 0 .. disk.ino[i].size - 1 :
    BlockAt(disk, disk.ino[i], off \div CPB) # 0

(* As long as every run reached its end, every block is free or an inode   *)
(* leads to it.                                                            *)
NothingLost ==
  health = "whole" =>
    disk.free \union {Owned(disk, x) : x \in InUse(disk)} = Block

(* The link count of an inode never exceeds the number of entries that     *)
(* name it, and it is that number as long as every run reached its end.    *)
LinkCounts ==
  LET Named(i) == {e \in Entries(disk) : Cells(disk, e[1])[e[2]].n = i}
  IN health \notin {"raw", "lost"} => \A i \in Inum :
       /\ disk.ino[i].nlink <= Cardinality(Named(i))
       /\ health = "whole" => disk.ino[i].nlink = Cardinality(Named(i))

Listing == IF health \in {"raw", "lost"} THEN <<>> ELSE Visible(disk)

(* Whatever write a run is killed at, the root directory shows the entry   *)
(* it was to make complete or not at all, and no other entry changes.      *)
Tree == INSTANCE Namespace WITH Complete <- CompleteEntries, entries <- Listing
RefinesNamespace == Tree!Spec

-----------------------------------------------------------------------------
(* What the code says of itself and does not do.                           *)

(* tools/tools/mkdir.c:78: "mkdir: cannot create directory '%s': File      *)
(* exists".  A name appears once in the root directory.                    *)
UniqueNames ==
  health = "whole" => \A j, k \in DOMAIN Visible(disk) :
    Visible(disk)[j].name = Visible(disk)[k].name => j = k

(* include/stupidfs.h:68, STPDFS_CLEANLY_UNMOUNTED: a volume in that state *)
(* was left by runs that reached their fs_super_kill.                      *)
CleanMeansUnmounted == disk.clean /\ todo = <<>> => health # "torn"

(* tools/tools/mkdir.c:49, of -p: "no error if existing, make parent       *)
(* directories as needed".  After a run of mkdir that succeeds, each name  *)
(* of the path is there, in the directory before it.                       *)
Resolve(d, i, name) ==
  {Cells(d, i)[k].n : k \in {j \in 1 .. d.ino[i].size : Cells(d, i)[j].s = name}}

PathsAreMade ==
  health = "whole" /\ Idle => \A p \in Paths :
    LET v == MkdirRun(<<p>>)
        Walk(S, name) == UNION {Resolve(v.dev, i, name) : i \in {j \in S : IsDir(v.dev, j)}}
    IN v.status = "ok" /\ v.r = 0 => FoldLeft(Walk, {Root}, p) # {}

(* tools/mkfs/mkfs.stpd.8:18, of -i: "Number of inodes for the             *)
(* filesystem"; include/stupidfs.h:78: sb.isize is the "Size in block of   *)
(* the I list".  fs_inode_alloc fails only when every inode of the list    *)
(* but number 0 is in use.                                                 *)
EveryInodeUsable ==
  health = "whole" /\ (\A i \in Inum : disk.ino[i].flags >= ALOC)
    => Cardinality(Inum) >= ISize * IPB - 1
=============================================================================
