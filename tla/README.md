# StupidFS in TLA+

TLA+ modules that model StupidFS, TLC runs that check them on small instances,
and TLAPS proofs for every size. Paths are relative to the repository root
(`src/`), line numbers to its files.

## The system

StupidFS is a small Unix-like file system and the user-space programs that
handle an image of it. An image is an array of 512-byte blocks:

    block 0   boot block
    block 1   superblock: sizes, free list (up to 100 block numbers), state, time
    block 2   isize blocks of inodes, seven in each
    isize+3   data blocks: file data, directories, indirect blocks, free lists

One program uses a volume at a time, and there is no journal. All programs have
one thread, but the FUSE client, whose threads share everything without a lock.
Every change is written through to the device, one block at a time, in the order
of the code.

| Component | State | Operations | Used by |
|---|---|---|---|
| free-block list, `libfs/balloc.c` | the list in the superblock, in memory and on the device, chained through data blocks | `fs_balloc`, `fs_bfree` | mkfs, bmap |
| block buffers, `libfs/bio/` | a list of reference-counted buffers | `fs_bio_bread`, `bwrite`, `brelse`, `fs_bio_raw_*` | all of libfs |
| inodes, `libfs/inode.c` | inode blocks; a list of inodes in memory | `fs_inode_alloc`, `get`, `read`, `update`, `release` | directories, tools, FUSE |
| file data, `libfs/rw.c` | `zones` and `size` of an inode, indirect blocks | `bmap`, `fs_read`, `fs_write` | directories, copy, ls |
| directories, `libfs/dir.c` | entries in the data of an inode, link counts | `fs_dir_lookup`, `link`, `unlink`, `fs_mkdir` | mkfs, mkdir, copy |
| superblock, `libfs/super.c` | the superblock in memory | `fs_super_open`, `fs_super_kill` | every program |
| mkfs, `tools/mkfs/main.c` | none | formats an image | the user |
| tools, `tools/tools/*.c`, `tools/inspect` | none | mkdir, copy, ls, inspect | the user |
| FUSE client, `fuse/main.c` | one open superblock | init, getattr, destroy; the rest are stubs | the kernel, on several threads |
| LZP, `liblzp/` | none | compress, decompress | nothing yet |
| ChaCha, `libcrypto/` | none | hchacha, xchacha, random | nothing yet |
| image offset, `libfs/offset.c` | none | a number with a unit | `fs_super_open` |
| boot block, `tools/mkfs/boot.asm` | none | loads inode 2 | the firmware |
| Linux module, Windows driver | none | registration only | the kernels |

What makes each of them correct:

- free-block list: a block is handed out once until it is freed; nothing is
  handed out that is not in the list, whichever write a process dies at; the
  list is used up before what lies behind it is taken for a list.
- block buffers: one buffer per block, never freed while held, so that the code
  above sees one content per block.
- inodes and file data: no block belongs to two inodes, or to one and the free
  list; every cell below the size of an inode has a block.
- directories: the entries of a directory name inodes; a new entry appears
  whole; the link count of an inode is the number of its entries.
- superblock: what it says of the volume (sizes, clean or dirty) is true.
- FUSE client: every getattr returns, with the attributes of the root inode.
- boot block: it jumps to the whole loader, or ends in a message (which it does
  for most loaders; see the findings for the others).
- mkfs: no part of a volume lies over another one, and programs open what it made.
- LZP, ChaCha: decompression, and a second encryption, restore the original.

What is hard: the order of the writes when a program is killed between two of
them; the boundary between two lists of the free-block list; limits that no
caller tests (an empty list, a full root directory, no free inode, a file that is
too large); blocks that still hold old content; and the unlocked inode and
buffer lists under FUSE's threads. `PROJECT.json` lists each hazard at its line.

## Modules

    BlockPool          abstract: a durable pool of blocks
    FreeList           balloc.c, mkfs's loop, processes that die    refines BlockPool
    FreeListProofs     theorems about FreeList, the refinement among them
    MCFreeList         instances of FreeList

    BlockStore         abstract: one content per block
    BufCache           bio.c, one call at a time                    refines BlockStore
    BufCacheProofs     theorems about BufCache, the refinement among them

    LibFs              rw.c, inode.c, dir.c, super.c as operators
    Tools              the programs, one block write per step       refines Namespace
    ToolsProofs        theorems about Tools and the operators of LibFs
    Namespace          abstract: entries of the root directory
    MCTools            instances of Tools

    PlainFile          abstract: a sequence of bytes
    FileMap            rw.c's loops over blocks, on top of LibFs    refines PlainFile
    MCFileMap          instance of FileMap

    InodeCache         inode.c's list, call by call of every program
    Layout, MCLayout   mkfs's sizes, and raw.c's byte offsets
    LayoutProofs       theorems about Layout

    Fuse               fuse/main.c, inode.c and bio.c on several threads
    FuseProofs         theorems about Fuse

    Boot               boot.asm, one disk read per step
    BootProofs         theorems about Boot
    MCBoot             instances of Boot

    Lzp                lzp.c, one turn of the inner loops per step
    LzpProofs          theorems about Lzp
    MCLzp              instance of Lzp
    ChaCha             xchacha.c's stream and counter
    ChaChaProofs       theorems about ChaCha

Operators whose comment says *mutant* are the code with a plausible bug; no
specification uses them. Each shows that the property named in `PROJECT.json`
finds that bug.

### FreeList

`sb` is `super->sb.freelist` in memory, `dsb` the one in block 1, `blk` the data
blocks read as free lists. A step is the code between two writes to the device.
`fs_bfree` has one (`Bfree`, with the copy of a full list) and then `WriteSuper`;
`fs_balloc` has `BallocPop` or `BallocRefill` (one turn through `redo`), then
`WriteSuper` and `ZeroBlock`. In `Bfree` the write of the copied list and the
change of the list in memory are one step: a process that dies before the copy
has changed nothing durable, and one that dies after it is in the state this
step leads to.

Formatting is `MkfsFree`, block by block from `isize + 3`. `held` are the blocks
callers have; it is what the caller of the last completed call knows, and a
process that dies keeps its blocks (files keep theirs) except those mkfs had not
freed yet. `Crash` is the death of a process and the `fs_super_open` of the next
one.

mkfs writes the superblock and the inode blocks and clears no data block, so
`Init` takes the content of the data blocks from `Former`: anything that can be
read as a `struct stpdfs_free`. (The superblock counts as unwritten until mkfs
writes it; until then no program but mkfs uses the volume.)

A request to the empty list does not fail. Entry 0 of the oldest list names the
first data block, and `BallocRefill` loads whatever that block held before mkfs
as a list. On an image used before, that may be a list, and the call hands out
one of its entries, a block that others hold or the superblock. If the `nfree`
found there is 0, or beyond the array, `free[...]` is read outside the array:
`BallocOverrun` returns any block number. Either way `origin`, and with the next
write of the superblock `dorigin`, becomes `"junk"`, the block is cleared on the
device, and nothing is modelled after that call returns (`pc = "broken"`).
`NoDoubleAllocation` and `RefinesPool` promise what they say up to that request
and not beyond; `FreeList_used_image.cfg` shows what it does.

`chain` and `dchain` are history variables, the chain blocks the two lists lead
to. Only `origin` is read by a guard, the one that ends the model.

### BufCache

`list` is the list from `head`, `mem` the memory at an address, `live` the
addresses not freed. The environment is any nesting of the calls that follows
the one rule all callers in libfs follow: a buffer that was changed is written
before it is released. A reference may be kept for ever, as `fs_balloc` does
with the block it loads a list from (balloc.c:22).

### LibFs and Tools

`LibFs` writes each function of libfs as an operator on a record: the volume,
the inodes in memory, the log of volumes after each block write, the result of
the call. `Tools` computes the log of a run when it starts and then plays it one
write per `WriteBlock` step; `Die` drops what is left. So a run can be killed
between any two writes, and the next one starts from what it left. This is
exact because runs do not overlap and read nothing that another one writes.

Abstractions, and why they are safe here:

- A block holds *cells*: directory entries, units of file data, or addresses.
  Sizes count cells. No caller of `fs_write` crosses a block: entries are 32
  bytes, and copy writes chunks of 512 bytes at multiples of 512. `FileMap` has
  the loops for calls that do, and its `AsInLibFs` says that on calls that do
  not they are what `LibFs` takes them for.
- `fs_balloc` is `BlockPool!Alloc`: a set of free blocks, and the highest is
  returned. `FreeList` shows that the list implements the pool. The block a
  refill drops (see below) does not occur, so `NothingLost` is about volumes of
  at most one list.
- `fs_read` never allocates. In the code it does when it meets no block, in a
  hole or behind the last block; `NoHoles` shows there is no hole, and no tool
  reads past the blocks a file has. `FileMap` has the reads that do.
- Inodes in memory are read once, at the start of a run, and never released.
  `InodeCache` shows that this is exact: whatever a program releases, the copy
  it works on is the newest. The exception is a volume whose mkfs was killed
  before it wrote the root: there `fs_inode_alloc` takes inode 1 of the device
  while copy works on the inode 1 it has in memory. `Tools` (`InodeAlloc`) does
  the same.
- `bmap` reads an address from a buffer it has released (rw.c:44). The buffer's
  memory is freed, but glibc only overwrites the first 16 bytes of a freed chunk
  of this size, and the address is beyond them.
- Times, owners and permission bits are left out; of the mode only the file
  type is kept. The type test of `fs_dir_lookup` is kept as written: it looks at
  `flags`, never finds a directory, and so every lookup fails.
- Uninitialized memory is a choice among the values in `Garbage`: mkfs's root
  inode has a link count from `malloc`, and copy takes the mode of a source
  that does not exist from a `struct stat` that was never filled.
- When the free list is empty the run goes *wild*: its writes up to there are
  kept, and the volume is not used again.

### FileMap

A cell is a byte here. `WriteTurn` and `ReadTurn` are one turn of the loops of
`fs_write` and `fs_read`, `FoldLeft` is the loop, and `bmap` is `LibFs!Bmap`. A
step is one call, of any offset and length, or the end of a program and the
start of the next one, which reads the inode from the device (`Reopen`).
`PlainFile`, the specification it refines, is a sequence of bytes: a write
overwrites or appends and is cut at what an inode can reach, a read returns what
was written. `fs_read` refuses an offset beyond the size (rw.c:59) and nothing
else: it goes on past the size to the end of the request, lets `bmap` allocate
the blocks it misses, and returns their bytes. In `PlainFile` these are `Zero`
bytes behind the file's own (`Got`). The blocks are taken from the free list for
good, but the inode that leads to them is written only by the next `fs_write`,
so `TypeOK` lets the inode in memory have blocks that the one on the volume does
not have. A call that finds no free block makes `status` wild, and nothing is
modelled after it.

### InodeCache

What fs_inode_release leaves in the list depends on the order in which a program
gets and releases inodes, so each program is here as its sequence of calls
(`MkfsCalls`, `MkdirCalls`, `CopyCalls`, `LsCalls`, `InspectCalls`), and a step
plays one. `root` is the root inode of the device: allocated, or free where mkfs
was killed before it wrote it, or taken by the `fs_inode_alloc` of a program
that found it free. In the last case alone a copy in memory may be older than
the device, and only that of the root (`Current`). `Place` is the list as a loop
meets it, whatever was freed; a loop that meets freed memory, or has no end,
sets `lost`. `data` counts the changes made to an inode, in memory and on the
device.

### Fuse

A step of a thread reads or writes one place that the threads share: reading the
head of a list, storing it, reading a count, writing it back and reading it
again for the test (bio.c:70 and 71) are steps of their own. Five steps combine
accesses. A new inode or buffer is allocated and filled in one, with its `next`
read from the head: nobody else knows its address yet. Unlinking the first
element reads its `next` and writes the head in one (`Pop`), `Splice` reads
`next` of a buffer and writes that of the one before, `Walk` reads `tmp->next`
once where the code reads it for the test and again to go on, and `read(2)`
fills the buffer and moves the file offset. A change by another thread between the
accesses of these is not modelled.

Both lists are walked up to the first element, because every inode in
the one is the root and every buffer in the other is of the block with the root;
the walk of `fs_bio_brelse` for the element before a buffer is there turn by turn
(`Walk`: it reads the head once to compare it and once to start, and then each
`next`). `pool` are the threads that answer, chosen when the file system is
mounted: all of them, or one (libfuse's option `-s`). `pos` is the file offset
that `lseek` and `read` of all threads share. An access to freed memory sets
`lost`, and nothing is modelled after it.

The buffer list can become a circle without any use of freed memory: a thread
links its new buffer to the head it has read, another one frees that head before
the new buffer takes its place, and the same memory, allocated again, links to
the new buffer (`Circular`, shown by `Fuse_circle.cfg` with two threads and
three calls). A walk on such a list does not end as long as the circle lasts, so
`Answered` promises an answer unless freed memory is used or the list stays
circular for good. `StaysSettled` says that a loaded inode at the head of the
inode list stays, once no thread is loading another; it does not say that this
is ever so.

### Layout

The device is a function from positions to what was last written there;
`Position` is the 32-bit product of raw.c, as `b % Wrap`. mkfs runs with one of
`Args`, then programs open the volume, write inodes, allocate blocks and close
it. A write of a part over another one shows in `Kept`.

mkfs tests none of its arguments, so the model runs with all of them, and what
the properties need is written into them: `Fits`, room for the inodes before the
data and no block beyond `Wrap` (4 GiB). No inode block at all still fits; on a
volume of more than 4 GiB, or with more inodes than blocks, `TypeOK` and `Kept`
say nothing but the types, and `Layout_wrap.cfg` and `Layout_inodes.cfg` show
what happens. Where the list is empty or has one block left, the model stops;
FreeList has what the code does then.

### Boot

Memory is in blocks of 512 bytes from `LOADER_BASE`: the loader is read there,
the stack is at 0x7a00, the code at 0x7c00, the superblock and the inodes at
0x8000. A block read over the stack or the code takes control with it (`pc =
"lost"`), since the return address of the read is on that stack. The numbers are
those of the assembly, not of an instance. Inode 2 may be free, a loader of any
size from 0 on, or a directory: boot.asm looks only at its allocation flag. (A
volume without an inode block, where block 2 holds nothing that mkfs wrote
before the root, is left out.) `Zone` is the file as `copy` writes it: zone 7 is
the indirect block, or 0, the boot block, when the file needs none. What is read
as an entry of that boot block is block number 9453547, the bytes EB 3F 90 00 of
its first jump; only a disk of more than 4.8 GB has it (`disk`). `fault`
remembers that the disk failed to read a block it has.

### Lzp

`HASH`, `SetBit` and `Bit` are constants with the laws that matter to the code
as assumptions; MCLzp gives them their bitwise meaning, at a smaller width.
`data` is compressed by `CompressByte` and `CompressGroup` and the result is
decompressed by `ReadMask`, `GuessByte`, `ReadByte` and `WriteGroup`.

### ChaCha

A byte is the set of the message byte and the pads it is the exclusive or of, and
a pad is a counter and an index. So a byte that got two pads, the pad of another
position, or one pad twice is told from what it should be, without the rounds.

## Runs

| Run | Instance | Shows |
|---|---|---|
| `freelist_calls` | lists of 3, 7 data blocks: up to three chained lists; an image of zeroes and four used ones | 733,641 states: no block handed out twice before a request to the empty list, the inductive invariant, refinement of BlockPool, at most one block lost per call |
| `bufcache_calls` | 3 blocks, 3 buffers, 2 references each | 435,240 states: list, counts, coherence, refinement of BlockStore |
| `tools_crash` | a used image; inodes of 1 direct zone and 1 indirect address, blocks of 2 cells, 4 inodes, 6 data blocks, 3 runs | 459,526 states: block ownership, no holes, nothing lost, link counts, refinement of Namespace |
| `lzp_roundtrip` | 3,280 inputs of up to 7 bytes, groups of 3 | 78,606 states: round trip, size bound |
| `inodecache_programs` | 3 inodes, 4 addresses, up to 4 paths or entries, a root that is there or not | 45,264 states: no freed memory, no old copy (but of a root taken anew), no change left unwritten |
| `filemap_calls` | blocks of 2 bytes, 2 direct zones, 2 indirect addresses, 6 data blocks, two writes, reads of any offset and length | 29,358 states: refinement of PlainFile, agreement with LibFs |
| `layout_volumes` | devices of 0 to 44 blocks with `Wrap` 41, volumes that fit and ones that do not | 19,228 states: no part over another one on a volume that fits |
| `fuse_calls` | 2 threads, one or both in the pool, 3 calls, 2 buffers | 946,826 states: every request is answered unless freed memory is used or the list stays a circle, a loaded root inode stays; with one thread the right answers and nothing leaked |
| `boot_loads` | files around every multiple of 512 bytes from 0 to what an inode holds, on a small and a large disk | 167,512 states: what is run is the whole file, nothing is overwritten but by a file that reaches the stack, how each boot ends |
| `chacha_calls` | blocks of 3 bytes, 4 counters, messages up to 14 bytes | 307 states: one pad per position, round trip |
| `fuse_shared_offset` | 2 threads, 2 calls, 3 buffers | **violated**: attributes from another block |
| `tools_unique_names` | as `tools_crash`, an image of zeroes | **violated**: two entries of one name |

Thirteen more configurations have one property each that TLC refutes. They are not
among the runs of `PROJECT.json`; `tlc -config <file> <module>` shows them.

| Configuration | Module | Refuted |
|---|---|---|
| `FreeList_index_zero.cfg` | MCFreeList | `IndexZeroIsNextFreelist`: entry 0 of the oldest list is not a list |
| `FreeList_used_image.cfg` | MCFreeList | `HandsOutNoHeldBlock`: an old list in the first data block |
| `Tools_clean_state.cfg` | MCTools | `CleanMeansUnmounted`: clean state, interrupted run |
| `Tools_parents.cfg` | MCTools | `PathsAreMade`: `mkdir -p` of two names |
| `Tools_inode_count.cfg` | MCTools | `EveryInodeUsable`: inodes that can never be allocated |
| `Layout_small.cfg` | MCLayout | `MountsWhatItMade`: mkfs succeeds, nothing opens the volume |
| `Layout_gap.cfg` | MCLayout | `NoGap`: a block of no region |
| `Layout_wrap.cfg` | MCLayout | `KeptAtAnySize`: data over the superblock, one to five blocks beyond `Wrap` |
| `Layout_inodes.cfg` | MCLayout | `InVolume`: mkfs clears inode blocks beyond the volume |
| `Fuse_circle.cfg` | Fuse | `NoCircle`: the buffer list becomes a circle |
| `Boot_full_zones.cfg` | MCBoot | `SupportsLoader`: a loader of 3584 bytes ends in a read error |
| `Boot_large_loader.cfg` | MCBoot | `SupportsLoader`: loaders from 27136 bytes on are read over the boot block |
| `Boot_no_loader.cfg` | MCBoot | `RunsLoader`: an empty file or a directory in inode 2 is run |

Why the bounds are enough. `freelist_calls` needs a list that fills up, one that
is copied, and a refill that meets a chain block that leads to another: seven
blocks with lists of three give all of them, and exhaustion. The used images
have, in every data block, a full list, a shorter one, one that is only a link
and one with an `nfree` beyond the array. The proofs cover the rest. In
`tools_crash` three runs are mkfs and two more, mkdir may get two paths in one
run, and within that the root directory fills up (4 cells, two of them taken),
the inodes run out, the blocks run out, a file is larger than an inode, and
every interrupted mkfs is followed by every other program. The image was used
before (`Former`): every block holds an entry, so a block that is handed out
without being cleared shows. In `bufcache_calls` two references to a buffer
suffice to tell the last release from another, and three blocks give a buffer at
the head, in the middle and at the end of the list. In `lzp_roundtrip` seven
bytes make two full groups and a short one, and a table of four entries collides
all the time.

In `inodecache_programs` four paths are more than the inodes that mkdir can
allocate, and four entries let ls meet each inode again after it was released.
In `filemap_calls` the lengths written are nothing, more than a block, the
direct zones and one byte more, all that an inode reaches and one byte more, at
every offset, and a write of a second kind overwrites; reads have every offset
and length; six data blocks are more than one file can have, so that reads
before a reopening leave too few. In `layout_volumes` the size passes `Large`
and `Wrap`, the inodes take no block, some, and more than there are, lists fill
up and are chained, and a refill meets a stored list. In `fuse_calls` two
threads give every pair of accesses, and three calls let one thread free a
buffer, allocate it again and free it while the other is in the middle of a
call. With more threads there are more such interleavings than these; what the
theorems say holds for any number, `Answered` is checked for two. What boot.asm
does depends only on the number of blocks and on whether the last one is full,
which the sizes of `boot_loads` cover up to the largest file. In `chacha_calls`
messages have up to five blocks and the counter wraps.

`MaxRuns`, `MaxRefs`, `MaxCalls`, `MaxWrites`, `MaxEntries` and `MaxLen` are
bounds of the instances, not of the code.

Deadlock is not checked where the model ends on purpose: after a request to the
empty free list, when `MaxRuns` or `MaxCalls` is reached, when a program has
exited or lzp_decompress has returned.

### Fairness

`Lzp` and `ChaCha` state `WF_vars(Next)`: calls of sequential code that does not
wait for anything. `Boot` states it of all but the reset of the disk
(`WF_vars(Turn)`): the processor runs, and nothing makes a reset succeed, so
`Boots` has the boot that resets for ever as an outcome of its own. `Fuse` states
`WF_vars(Work(t))` for every thread: a thread that has a request is scheduled
again, as the kernel's scheduler does; requests need not come. All other
properties are safety properties; a process that may die at any time promises no
progress.

## What the runs found

Listed as findings, with a run each:

1. `mkdir` never reports "File exists" (mkdir.c:78): `fs_dir_lookup` tests the
   type in `flags` (dir.c:14) (`UniqueNames`, `tools_unique_names`).
2. Two threads of the FUSE client share one file offset: an `lseek` of one
   between `lseek` and `read` of the other gives it another block, and the inode
   filled from it stays (`RootAttributes`, `fuse_shared_offset`).

Shown by the further configurations:

3. An empty free list is not detected. stupidfs.h:63 says entry 0 points to the
   next free list, but mkfs leaves no end mark, so the last step follows entry 0
   to the first data block and takes what it held before mkfs for a list: zeroes
   wrap `nfree` (`IndexZeroIsNextFreelist`), an old list hands out blocks that
   files have (`HandsOutNoHeldBlock`).
4. The state is written as dirty only by `fs_balloc` and `fs_bfree`: a run
   killed after it wrote an inode leaves a volume marked cleanly unmounted
   (`CleanMeansUnmounted`).
5. `mkdir -p a/b` makes `b` in the root directory (`PathsAreMade`).
6. `fs_inode_alloc` takes `isize`, a number of blocks, for a number of inodes:
   one inode in seven is usable (`EveryInodeUsable`).
7. On a device of less than 21 blocks `isize` is 0, and mkfs succeeds with a
   volume that no program opens (`MountsWhatItMade`).
8. Block `isize + 2` is neither inode nor data (`NoGap`).
9. From 4 GiB on, the byte offset of a block wraps (`KeptAtAnySize`), and an
   inode count larger than the volume is written beyond it (`InVolume`).
10. A loader of exactly seven blocks is not booted, where no disk block has the
    number that is read from the boot block (`SupportsLoader`).
11. A loader of 27136 bytes or more is read over the boot block that reads it,
    below the limit of 69632 bytes that its comment names (`SupportsLoader`).
12. Inode 2 is run whatever it is: of a file of size 0, as a copy that was killed
    or had no more leaves it, the boot block itself is loaded and run; of a
    directory, its entries (`RunsLoader`; boot.asm:7 says the loader is checked).
13. Two threads of the FUSE client can make the buffer list a circle (`NoCircle`).

Noted on the way and kept in the model: a refill of the free list loses the
block the list was in (`OneLostPerRefill` shows that no call loses more), and
the block at the bottom of the list is never handed out.

## Proofs

`FreeListProofs` proves, for every `Cap` in 2..254, every `ISize` and `FSize`
that leave mkfs at least one data block, and whatever the data blocks held
before mkfs:

- `TypeCorrect`: `Spec => []TypeOK`
- `NeverAllocatedTwice`: `Spec => []NoDoubleAllocation`
- `Invariance`: `Spec => []IInv`, from which both follow.

Assumptions: `CapAssumption` (two entries, so that a list can hold a link and a
block, and room for `nfree` in a byte with 255 to spare), `SizeAssumption` and
`FormerAssumption` (what a block held can be read as a list, whatever it is).
TLC evaluates them in every run of FreeList. The theorems are about the time
before a request to the empty list: `NoDoubleAllocation` and the pool end there
(`origin`, `Broken`). That it comes only when every block of the pool is out is
part of `ImplementsPool`.

`NoDoubleAllocation` is not inductive. It speaks of the entries of the lists,
and says nothing of the blocks the lists are in: a write to a chain block would
change what a list contains. `IInv` adds

- `WellFormed`, for the list in memory and the one on the device: every chained
  list is full, its entry 0 is the chain block below it, and the bottom entry is
  the first data block. So the chain blocks are entries too, and no caller holds
  them;
- `Freeing` and `Allocating`: between its change in memory and its write of the
  superblock, a call has made exactly one change, which `WriteSuper` makes
  durable and `Crash` takes back;
- the block an allocation is about to clear is in no list, so `ZeroBlock`
  changes no list.

The proof has a lemma for each way the stack of lists changes (push, start of a
new list, pop, refill, a write to a block that is in no list) and one theorem
per action of `Next`.

It also proves, from the same assumptions,

- `ImplementsPool`: `Spec => RefinesPool`, the refinement of `BlockPool`;
- `LosesOnePerRefill`: `Spec => OneLostPerRefill`.

Both are about the entries of the two stacks of lists, which the same lemmas
follow through each action. They need one more invariant, `Formatting`: until
mkfs has written its first superblock it holds every data block but the one it
is freeing, so a crash there gives all of them back.

`BufCacheProofs` proves, for any number of blocks, addresses and references,

- `TypeCorrect`, `ListAlwaysLive` and `AlwaysCoherent`: `Spec => []P` for
  `TypeOK`, `ListIsLive` and `Coherent`;
- `ImplementsStore`: `Spec => RefinesStore`, the refinement of `BlockStore`.

The conjunction of the three invariants is inductive: a hit finds the only
buffer of a block because the list holds all of them, and it holds all of them
because a buffer leaves it with its last reference. Under the refinement mapping
a block's content is that of its buffer, or of the device where it has none;
`SeenFacts` says how each step changes that.

`LayoutProofs` proves, for every run of mkfs,

- `TypeCorrect`: `Spec => []TypeOK`; `AlwaysKept`: `Spec => []Kept`.

They assume nothing of the arguments but their types. The volumes that do not
fit (more than `Wrap` blocks, 4 GiB in the code, or no room for the inodes) are
left out by the properties themselves (`Fits`); `Layout_wrap.cfg` and
`Layout_inodes.cfg` show that they must be, and mkfs tests neither. Volumes
without an inode block are in. The invariant divides the device in two at
`FirstFree` and says what each part may hold (`DeviceOK`). Of the upper part,
`Sound` says that the list in the superblock is a run of consecutive blocks,
that below it lie only stored lists, each the run below its own block, and that
what was allocated lies above it; so a refill reads a list that is there, and an
allocation clears a block that nothing else uses.

`LzpProofs` proves, for every input, group size, width of the hash and hash
function,

- `TypeCorrect`, `AlwaysRestored` and `AlwaysBounded`: `Spec => []P` for `TypeOK`,
  `PrefixRestored` and `PackedBound`;
- `RestoredInTheEnd`: `Spec => [](phase = "done" => plain = data)`, the safety half
  of `RoundTrip`.

Its only assumptions are those of `Lzp`: the laws of `SetBit` and `Bit`, and that
`HASH` is an index of the table. The compressor and the decompressor guess with a table
each, at different times, so no relation of the two states is inductive. What is
inductive is that both agree with a third one: a run *R* of the guessing over the
whole input, which records before each byte the hash, the table, where the group of
the byte starts, and how many bytes and masks are written until then. `IInv` says
that there is an *R* of which the compressor has followed the part up to
its byte, and the decompressor that up to its own. The bytes of a group in the
packed data are those that *R* did not guess, in order (`Written`, `Held`); the
masks decide for each position whether one follows, and the bits beyond a short
last group are what ends the decompression there. For `PackedBound` the masks
are counted: one for each group begun, and no byte of the input is written twice.

`ChaChaProofs` proves, for blocks of any number of bytes, counters of any width
and messages of any length,

- `TypeCorrect`, `PadAlwaysOfPosition`: `Spec => []P` for `TypeOK` and `PadOfPosition`;
- `DecryptsEncrypted`: the safety half of `RoundTrip`, also when the counter wraps.

The invariant relates the counter and the index to the position in the message,
where the loop is, with the division that `PadOfPosition` makes (`InBlock`).

`FuseProofs` proves, for any number of threads, buffers and calls,

- `SettledForEver`: `Spec => StaysSettled`;
- `TypeCorrect`: `Spec => []TypeOK`, for a finite set of threads;
- `AloneIsRight` and `AloneReturnsBuffers`: `Spec => []P` for `AloneAnswersRoot` and
  `BuffersReturned`, for a finite set of threads of which one is in the pool.

Its other assumptions are `NullAssumption` and `MaxCallsAssumption`. The invariant
of the first, `IInv`, is that pointers point to inodes that exist and that everything
has its type; with that, each step of a thread is shown to leave a settled inode alone.
The second needs that the inode list has at most one copy per thread, which is a
matter of who made them: `Makers` says that each copy has a thread of its own that
is not about to make another, and as long as none is in the list, that is about to
put it there. A count is at most the calls because each reference is of a call that
is over or past the counting (`Counted`). For one thread, `Only` says at each of its
labels what the two lists are (`InodeAt`, `BufferAt`): both have at most one element,
the inode is valid only with the data of the root, and the labels of a second
reference, of the walk and of the splice are never reached.

`ToolsProofs` proves, for inodes, blocks and volumes of every size, any former
content of the image, any paths and host files, and any number of runs killed at any
of their writes,

- `TypeCorrect`, `BlocksNotShared`, `FilesHaveNoHoles`, `NoBlockLost` and
  `LinksCounted`: `Spec => []P` for `TypeOK`, `NoSharedBlock`, `NoHoles`,
  `NothingLost` and `LinkCounts`;
- `ImplementsNamespace`: `Spec => RefinesNamespace`, the refinement of `Namespace`: at
  whichever write a tool is killed, the root directory shows the entry that it was to
  make complete or not at all, no entry changes, and only mkfs removes one. The
  refinement mapping is `Listing`: each entry behind the first two with its name, the
  type of its inode and its data, and nothing while there is no finished mkfs;
- `Invariance`: `Spec => []IInv`, from which the six follow.

It assumes `GeometryAssumption` (an inode with a direct zone and an indirect one, at
least one inode, one cell and one data block) and `VolumeAssumption` (what the
environment is made of: paths name something, only files can be read, the cells of
a used image are cells). TLC evaluates both in `tools_crash`.

None of the six is inductive: each is about the device, while a run works on inodes
in memory and was computed when it started. `IInv` is about the volume and about
all that the run in progress will still write. Each of these contents is `Good`:

- `Sound`: no block has two owners or is free and owned. A block is taken from the
  free ones and cleared (`BallocIs`) before an inode or an indirect block leads to
  it; without the clearing, old content read as addresses would give it
  owners (the mutant `BallocKeepsContent`);
- `NoHole`: the inode with the larger size is written after the block;
- `Unused`: inodes that are not allocated have no size, zones or links, because
  `fs_inode_alloc` hands them out as they are, and `mkfs` zeroes them;
- `Linked`, of volumes that have a root: no inode counts more links than entries
  name it. The entry is written before the count, and only over cells that are
  zero (`PlaceIs`), so no other inode loses one;
- `Rooted`, of the same volumes: the root directory begins with the two entries of
  mkfs, and each one behind them leads to an allocated inode other than the root.

The last content is `Whole` (no block lost, counts exact), if the run reaches
its end and found a whole volume or made one. For the refinement, `Tells` adds
that each content shows what the one before it shows, or one complete entry more
(`Follows`). Whether a write shows depends on its inode (`Admits`): an inode
that no entry of the root names is `Hidden`, and whatever is written to it shows
nothing; the write of a cell behind those of the root shows one entry, and it is
complete if the inode it names is. So the order of the calls decides. mkdir
makes the two entries of a directory first (`Furnished`) and do_copy the data of
a file, chunk by chunk as far as the inode has room (`Copied`), and both link it
in the root last; a link the other way round is the mutant `FsMkdirParentFirst`.
Memory enters between the calls of libfs: `Synced` says that an inode there is
the one on the device, but for a mode that is not written yet. There is a lemma
for each operator of `LibFs` (`BmapIs`, `FsWriteIs`, `DirLinkIs`, `AllocIs`,
`FsMkdirIs`), one that says that a run which died or went wild writes nothing
more (`EndedBmap` and its like), and one for each program (`MkfsRunIs`,
`MkdirRunIs`, `CopyRunIs`, `BrowseRunIs`). The steps that play a run, and `Die`,
then follow without looking at what is written.

The loops of the programs are folds, and a fold is chosen by its recursion, so its
value must be shown to exist before anything follows from it. `FoldExists` does so for
lists of any length, with an induction written as a set of numbers
(`SetInduction`); `FoldPath` turns a fold into the sequence of its intermediate
results. `MkdirFold`, `CopyFold`, `ZeroFold` and `FreeFold` are their uses.

`BootProofs` proves, for loaders of every size an inode can hold,

- `TypeCorrect`: `Spec => []TypeOK`: no loop makes a turn too many;
- `AlwaysComplete`: `Spec => []LoaderComplete`;
- `KeepsWhatItNeeds`: `Spec => CodeIntact`: a block is read over something that is
  still needed only by a file that reaches the stack, and by that read the boot
  block is lost, before it runs overwritten code or follows overwritten zones.

The assumption is `SizesAssumption` (sizes from 0 to what an inode holds). Which
files do not arrive is in `End`, which TLC checks. The invariant says, at the head
of each loop, that `ebx` is 512 times the blocks loaded, that these are the first
of the file, and that the loop over the indirect block never gets past the
stack: it is lost with the block that is read over it, long before the jbe at
line 170 could be one turn too many.

Only model-checked, and why:

- `RoundTrip`, `Boots` and `Answered`: liveness under fairness is out of reach of
  TLAPS. The safety halves of the two `RoundTrip` are theorems.
- FileMap (`TypeOK`, `AsInLibFs`, the refinement of `PlainFile`) and InodeCache
  (`TypeOK`, `NoFreedMemory`, `Current`, `AllSaved`): nothing about them is proved.
  A turn of FileMap's loops writes part of a block, which `FsWriteIs` would have to
  be restated for; where a program of InodeCache releases its inodes is a fact about
  the sequence of its calls, built by folds over its arguments.

## Assumptions of the models

- A process dies, the machine does not: writes reach the device in program order
  and a write of one block is atomic.
- Reads, writes and `malloc` succeed, but for the disk under the boot block.
- One program uses a volume at a time.
- The image is smaller than 4 GiB: in all models but Layout, and there in what
  `TypeOK`, `Kept` and their theorems say.
- An image is full of zeroes or was used before, every block alike in the runs
  (`Former` of Tools and of FreeList).
- In Fuse, memory accesses of different threads happen in one order.

## Not modelled

- `fs_dir_unlink` has no caller, and with a lookup that always fails it returns
  at once; what follows in it is not reached.
- `fs_str2offset`: a function of a string whose result nobody reads.
- The rounds of ChaCha, hchacha and random.c: word arithmetic with known test
  vectors, and a system call.
- FUSE's other operations, `rm.c`, the Linux module, the Windows driver: stubs.
- The dispatcher, colours, options, owners, times and output: no state of the
  volume depends on them.

## Plan

1. FreeList, BlockPool, FreeListProofs. Done.
2. LibFs, Tools, Namespace. Done.
3. BufCache with BlockStore, and Lzp. Done.
4. InodeCache, Fuse and FuseProofs. Done.
5. FileMap with PlainFile. Done.
6. Layout, Boot with BootProofs, ChaCha. Done.
7. Proofs: the refinements of BlockPool and BlockStore, and the invariants of
   BufCache, Fuse, Layout, Lzp and ChaCha. Done.
8. Proofs about LibFs and Tools: what one allocation, one `bmap`, one `fs_write` and
   one entry of a directory do to the owners of blocks and the link counts, as lemmas
   about the operators, the invariants of Tools and its refinement of `Namespace`. Done.
9. FileMap and InodeCache, as theorems. Not done.
