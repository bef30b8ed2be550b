-------------------------------- MODULE Boot --------------------------------
(***************************************************************************)
(* The boot block, tools/mkfs/boot.asm: it loads the file of inode 2 to    *)
(* LOADER_BASE and jumps there.  Memory is in units of 512 bytes.  The     *)
(* code runs in memory that it may itself load into: its own block, the    *)
(* stack below it and DISK_BUFFER are all above LOADER_BASE.               *)
(***************************************************************************)
EXTENDS Integers

CONSTANT Sizes       \* the sizes of the loader, in bytes

BLOCK_SIZE == 512
LOADER_BASE == 8     \* 0x1000
Stack == 61          \* below sp = 0x7c00
Code == 62           \* 0x7c00
DISK_BUFFER == 64    \* 0x8000
InodeBlock == DISK_BUFFER + 1
NDirect == 7
NIndirect == 128
MaxSize == BLOCK_SIZE * (NDirect + NIndirect)     \* what the zones of an inode reach

ASSUME SizesAssumption == Sizes \subseteq 0 .. MaxSize

VARIABLES volume,    \* what the disk holds: no StupidFS, or what inode 2 is
          disk,      \* "small", or "large": it has the block NoSector
          uFsize,    \* the size of inode 2
          pc,        \* the label that is reached
          ebx, edx,  \* bytes loaded, turns of the loop
          mem,       \* what a block of memory holds
          fault      \* history: the disk failed to read a block it has

given == <<volume, disk, uFsize>>
vars == <<given, pc, ebx, edx, mem, fault>>

Memory == LOADER_BASE .. LOADER_BASE + 127

Is(what, k) == <<what, k>>
File(k) == Is("file", k)
Junk == Is("junk", 0)

(* Inode 2 is free, the loader or, after a mkdir, a directory of entries   *)
(* of 32 bytes.  Its size is 0 if copy was killed early, or had no more.   *)
Init ==
  /\ volume \in {"other", "empty", "loader", "directory"}
  /\ disk \in {"small", "large"}
  /\ uFsize \in {n \in Sizes : volume = "directory" => n % 32 = 0}
  /\ pc = "start"
  /\ ebx = 0 /\ edx = 0
  /\ mem = [a \in Memory |-> CASE a = Code -> Is("code", 0)
                               [] a = Stack -> Is("stack", 0)
                               [] OTHER -> Junk]
  /\ fault = FALSE

-----------------------------------------------------------------------------
(* The file on the disk, as copy writes it: zone z of inode 2 and entry k  *)
(* of the indirect block; 0 is the boot block, where no zone was mapped.   *)
FileBlocks == (uFsize + BLOCK_SIZE - 1) \div BLOCK_SIZE
BootBlock == Is("lba", 0)
Zone(z) ==
  IF z < NDirect THEN (IF z < FileBlocks THEN File(z) ELSE BootBlock)
  ELSE (IF FileBlocks > NDirect THEN Is("indirect", 0) ELSE BootBlock)

(* The entry of what was read as the indirect block.  The first bytes of   *)
(* the boot block are a jump, EB 3F 90 00: only a disk of more than 4.8 GB *)
(* has a sector of that number.                                            *)
NoSector == Is("lba", 9453547)
Entry(k) ==
  IF mem[DISK_BUFFER] # Is("indirect", 0) THEN NoSector
  ELSE IF NDirect + k < FileBlocks THEN File(NDirect + k) ELSE BootBlock

(* disk_read_sectors, of one block to address a.  The return address and   *)
(* the frame of the BIOS call are on the stack: a block that is read over  *)
(* them, or over the code, takes control with it.                          *)
ReadFails ==
  /\ pc' = "err_read"
  /\ UNCHANGED <<ebx, edx, mem>>

ReadTo(a, block, next, bytes, turns) ==
  \/ /\ block = NoSector => disk = "large"
     /\ mem' = [mem EXCEPT ![a] = block]
     /\ pc' = IF a \in {Stack, Code} THEN "lost" ELSE next
     /\ ebx' = bytes /\ edx' = turns
     /\ UNCHANGED fault
  \/ ReadFails /\ fault' = (block # NoSector \/ disk = "large")

-----------------------------------------------------------------------------
(* LBA is supported or not.                                                *)
CheckLba ==
  /\ pc = "start"
  /\ pc' \in {"reset_disk", "err_lba"}
  /\ UNCHANGED <<given, ebx, edx, mem, fault>>

(* The disk is reset until that succeeds.                                  *)
Reset ==
  /\ pc = "reset_disk"
  /\ pc' \in {"reset_disk", "read_super"}
  /\ UNCHANGED <<given, ebx, edx, mem, fault>>

(* The superblock and the first inodes.                                    *)
ReadSuper ==
  /\ pc = "read_super"
  /\ \/ /\ mem' = [mem EXCEPT ![DISK_BUFFER] = Is("super", 0), ![InodeBlock] = Is("inodes", 0)]
        /\ pc' = CASE volume = "other" -> "err_magic"
                   [] volume = "empty" -> "err_no_loader"
                   [] volume \in {"loader", "directory"} -> "direct_loop"
        /\ UNCHANGED <<ebx, edx, fault>>
     \/ ReadFails /\ fault' = TRUE
  /\ UNCHANGED given

AllReadNever == FALSE                         \* mutant: no look at the size

AllRead == ebx > uFsize                       \* cmp ebx, [uFsize]; jg

AllReadLeaves ==
  /\ AllRead
  /\ pc' = "all_read"
  /\ UNCHANGED <<given, ebx, edx, mem, fault>>

(* One block of the loader.  Its offset in the segment of LOADER_BASE has  *)
(* 16 bits.                                                                *)
Load(block, next) ==
  /\ ~AllRead
  /\ ReadTo(LOADER_BASE + ((ebx \div BLOCK_SIZE) % 128), block, next, ebx + BLOCK_SIZE, edx + 1)
  /\ UNCHANGED given

DirectLoopLong ==           \* mutant: jbe, one zone too many
  /\ pc = "direct_loop"
  /\ \/ AllReadLeaves
     \/ Load(Zone(edx), IF edx + 1 <= NDirect THEN "direct_loop" ELSE "indirect_read")

DirectLoop ==
  /\ pc = "direct_loop"
  /\ \/ AllReadLeaves
     \/ Load(Zone(edx), IF edx + 1 < NDirect THEN "direct_loop" ELSE "indirect_read")

IndirectReadLosesCount ==   \* mutant: ebx is not saved around the read
  /\ pc = "indirect_read"
  /\ ReadTo(DISK_BUFFER, Zone(NDirect), "indirect_loop", 0, 0)
  /\ UNCHANGED given

(* Without a look at the size: the file may have no indirect block.        *)
IndirectRead ==
  /\ pc = "indirect_read"
  /\ ReadTo(DISK_BUFFER, Zone(NDirect), "indirect_loop", ebx, 0)
  /\ UNCHANGED given

IndirectLoop ==
  /\ pc = "indirect_loop"
  /\ \/ AllReadLeaves
     \/ Load(Entry(edx), IF edx + 1 <= NIndirect THEN "indirect_loop" ELSE "all_read")

(* It hangs with a message, runs the loader, or does what nobody knows.    *)
Ends == {"all_read", "err_lba", "err_read", "err_magic", "err_no_loader", "lost"}
Ended == pc \in Ends /\ UNCHANGED vars

Turn == CheckLba \/ ReadSuper \/ DirectLoop \/ IndirectRead \/ IndirectLoop

Next == Turn \/ Reset \/ Ended

(* The processor goes on; nothing makes a reset of the disk succeed.       *)
Spec == Init /\ [][Next]_vars /\ WF_vars(Turn)

-----------------------------------------------------------------------------
(* Every variable has its type; no turn of a loop is more than the inode   *)
(* has zones or the indirect block has entries.                            *)
TypeOK ==
  /\ volume \in {"other", "empty", "loader", "directory"} /\ uFsize \in Sizes
  /\ disk \in {"small", "large"}
  /\ pc \in Ends \union {"start", "reset_disk", "read_super", "direct_loop",
                        "indirect_read", "indirect_loop"}
  /\ ebx \in 0 .. MaxSize /\ edx \in 0 .. NIndirect
  /\ pc = "direct_loop" => edx < NDirect
  /\ mem \in [Memory -> {"file", "lba", "indirect", "super", "inodes", "code", "stack", "junk"} \X Nat]
  /\ fault \in BOOLEAN

(* The jump to LOADER_BASE finds the whole file there, its blocks in       *)
(* order, and nothing in between.                                          *)
LoaderComplete ==
  pc = "all_read" => \A k \in 0 .. FileBlocks - 1 : mem[LOADER_BASE + k] = File(k)

(* What is still needed is the code of the boot block, its stack and the   *)
(* zones of inode 2.  Nothing is read over them, but a block over the      *)
(* stack: by that read the boot block is lost at once, before it runs      *)
(* overwritten code or follows overwritten zones, and only a file that     *)
(* does reach the stack makes it.                                          *)
ReachesStack == uFsize >= (Stack - LOADER_BASE) * BLOCK_SIZE
NeededMemory == IF pc = "all_read" THEN {} ELSE {Stack, Code, InodeBlock}
CodeIntact ==
  [][\A a \in NeededMemory : mem[a] # Junk /\ mem'[a] # mem[a] =>
       a = Stack /\ pc' = "lost" /\ ReachesStack]_vars

(* How the boot ends on a disk that can be read: with a message if there   *)
(* is no file to load, else in the file, whatever it is.  A file of seven  *)
(* full blocks ends in a read error, as a block more is read, which is not *)
(* there.  A file that reaches the stack ends nobody knows where.          *)
End ==
  CASE volume = "other" -> "err_magic"
    [] volume = "empty" -> "err_no_loader"
    [] volume \in {"loader", "directory"} ->
         CASE ReachesStack -> "lost"
           [] uFsize = NDirect * BLOCK_SIZE /\ disk = "small" -> "err_read"
           [] OTHER -> "all_read"

(* The boot ends, and ends so, or it resets the disk for ever.             *)
Boots ==
  \/ <>(pc \in Ends /\ (~fault /\ pc # "err_lba" => pc = End))
  \/ <>[](pc = "reset_disk")

(* boot.asm:10: a loader of up to 69632 bytes is supported.  Two configs,  *)
(* Boot_full_zones.cfg and Boot_large_loader.cfg, refute it.               *)
SupportsLoader == ~fault /\ volume = "loader" /\ uFsize > 0 => pc \notin {"err_read", "lost"}

(* boot.asm:7: the boot block checks that there is a loader in inode 2.    *)
(* Boot_no_loader.cfg refutes it, with a directory or with an empty file.  *)
RunsLoader == pc = "all_read" => volume = "loader" /\ uFsize > 0
=============================================================================
