----------------------------- MODULE BootProofs -----------------------------
(***************************************************************************)
(* Theorems about Boot, for files of every size from 0 to 69120 bytes.     *)
(* What is known at the head of a loop is how many blocks are loaded, and  *)
(* that they are the first blocks of the file.                             *)
(***************************************************************************)
EXTENDS Boot, TLAPS

Kinds == {"file", "lba", "indirect", "super", "inodes", "code", "stack", "junk"}
MemType == mem \in [Memory -> Kinds \X Nat]

(* Memory m holds the first n blocks of the file, those that it has.       *)
LoadedIn(m, n) == \A k \in 0 .. n - 1 : k < FileBlocks => m[LOADER_BASE + k] = File(k)
Loaded(n) == LoadedIn(mem, n)

Early == {"start", "reset_disk", "read_super"}

(* The loops never load up to the stack and go on: the block that is read  *)
(* over the stack is the last one.                                         *)
MaxLoaded == Stack - LOADER_BASE

IInv ==
  /\ volume \in {"other", "empty", "loader", "directory"} /\ disk \in {"small", "large"}
  /\ uFsize \in Sizes /\ fault \in BOOLEAN
  /\ MemType
  /\ pc \in Ends \union Early \union {"direct_loop", "indirect_read", "indirect_loop"}
  /\ ebx \in 0 .. MaxSize /\ edx \in 0 .. NIndirect
  /\ pc \in Early => ebx = 0 /\ edx = 0 /\ mem[InodeBlock] = Junk
  /\ pc = "direct_loop" =>
       edx < NDirect /\ ebx = BLOCK_SIZE * edx /\ Loaded(edx)
  /\ pc = "indirect_read" => ebx = BLOCK_SIZE * NDirect /\ Loaded(NDirect)
  /\ pc = "indirect_loop" =>
       /\ edx + NDirect <= MaxLoaded
       /\ ebx = BLOCK_SIZE * (edx + NDirect) /\ Loaded(edx + NDirect)
       /\ FileBlocks > NDirect => mem[DISK_BUFFER] = Is("indirect", 0)
  /\ pc = "all_read" => Loaded(FileBlocks)

-----------------------------------------------------------------------------
(* A file of FileBlocks blocks fills the last one at least in part.        *)
LEMMA Blocks ==
  ASSUME uFsize \in Sizes
  PROVE  /\ FileBlocks \in Nat /\ uFsize \in 0 .. MaxSize
         /\ BLOCK_SIZE * (FileBlocks - 1) < uFsize
<1>1. uFsize \in 0 .. MaxSize
  BY SizesAssumption
<1>2. FileBlocks = (uFsize + 511) \div 512
  <2>1. uFsize + 512 - 1 = uFsize + 511
    BY <1>1
  <2>. QED BY <2>1 DEF FileBlocks, BLOCK_SIZE
<1>3. \A n \in 0 .. MaxSize : /\ (n + 511) \div 512 \in Nat
                            /\ 512 * (((n + 511) \div 512) - 1) < n
  OBVIOUS
<1>. QED BY <1>1, <1>2, <1>3 DEF BLOCK_SIZE

(* The address that block number n is loaded to.                           *)
LEMMA Address ==
  ASSUME NEW n \in 0 .. 127
  PROVE  LOADER_BASE + (((BLOCK_SIZE * n) \div BLOCK_SIZE) % 128) = LOADER_BASE + n
BY DEF BLOCK_SIZE, LOADER_BASE

(* As far as the stack, what is loaded is within what an inode can reach.  *)
LEMMA WithinReach ==
  ASSUME NEW n \in 0 .. 54
  PROVE  BLOCK_SIZE * n \in 0 .. MaxSize
<1>1. NDirect + NIndirect = 135
  BY DEF NDirect, NIndirect
<1>2. 512 * n \in Nat /\ 512 * n <= 512 * 135
  OBVIOUS
<1>. QED BY <1>1, <1>2 DEF BLOCK_SIZE, MaxSize

LEMMA SameFile == uFsize' = uFsize => FileBlocks' = FileBlocks
BY DEF FileBlocks

(* What a read leaves in memory.                                           *)
LEMMA ReadType ==
  ASSUME MemType, NEW a \in Memory, NEW block \in Kinds \X Nat, NEW next, NEW bytes, NEW turns,
         ReadTo(a, block, next, bytes, turns)
  PROVE  /\ MemType'
         /\ \A b \in Memory : b # a => mem'[b] = mem[b]
         /\ \/ /\ mem'[a] = block
               /\ pc' = IF a \in {Stack, Code} THEN "lost" ELSE next
               /\ ebx' = bytes /\ edx' = turns /\ UNCHANGED fault
            \/ pc' = "err_read" /\ UNCHANGED <<ebx, edx, mem>> /\ fault' \in BOOLEAN
BY DEF ReadTo, ReadFails, MemType

(* Block number n of the file is loaded after the ones before it.          *)
LEMMA LoadOne ==
  ASSUME IInv, NEW n \in 0 .. MaxLoaded, ebx = BLOCK_SIZE * n, Loaded(n),
         NEW block \in Kinds \X Nat, n < FileBlocks => block = File(n),
         NEW next, Load(block, next)
  PROVE  /\ MemType' /\ UNCHANGED given /\ fault' \in BOOLEAN
         /\ \A b \in Memory : b # LOADER_BASE + n => mem'[b] = mem[b]
         /\ \/ pc' = "err_read" /\ UNCHANGED <<ebx, edx, mem>>
            \/ /\ pc' = IF n = MaxLoaded THEN "lost" ELSE next
               /\ ebx' = BLOCK_SIZE * (n + 1) /\ edx' = edx + 1 /\ LoadedIn(mem', n + 1)
<1>. DEFINE a == LOADER_BASE + n
<1>1. a \in Memory /\ (a \in {Stack, Code} <=> n = MaxLoaded)
  BY DEF Memory, LOADER_BASE, Stack, Code, MaxLoaded
<1>2. a = LOADER_BASE + ((ebx \div BLOCK_SIZE) % 128)
  <2>1. n \in 0 .. 127
    BY DEF MaxLoaded, Stack, LOADER_BASE
  <2>. QED BY <2>1, Address
<1>3. ReadTo(a, block, next, ebx + BLOCK_SIZE, edx + 1) /\ UNCHANGED given
  BY <1>2 DEF Load
<1>. HIDE DEF a
<1>4. /\ MemType'
      /\ \A b \in Memory : b # a => mem'[b] = mem[b]
      /\ \/ /\ mem'[a] = block
            /\ pc' = IF a \in {Stack, Code} THEN "lost" ELSE next
            /\ ebx' = ebx + BLOCK_SIZE /\ edx' = edx + 1 /\ UNCHANGED fault
         \/ pc' = "err_read" /\ UNCHANGED <<ebx, edx, mem>> /\ fault' \in BOOLEAN
  BY <1>1, <1>3, ReadType DEF IInv
<1>5. BLOCK_SIZE * n + BLOCK_SIZE = BLOCK_SIZE * (n + 1)
  BY DEF BLOCK_SIZE, MaxLoaded, Stack, LOADER_BASE
<1>6. ASSUME mem'[a] = block
      PROVE  LoadedIn(mem', n + 1)
  <2>1. ASSUME NEW k \in 0 .. n, k < FileBlocks
        PROVE  mem'[LOADER_BASE + k] = File(k)
    <3>1. CASE k = n
      BY <1>6, <2>1, <3>1 DEF a
    <3>2. CASE k # n
      <4>1. k \in 0 .. n - 1 /\ LOADER_BASE + k \in Memory /\ LOADER_BASE + k # a
        BY <3>2 DEF LOADER_BASE, Memory, MaxLoaded, Stack, a
      <4>. QED BY <1>4, <2>1, <4>1 DEF Loaded, LoadedIn
    <3>. QED BY <3>1, <3>2
  <2>2. 0 .. (n + 1) - 1 = 0 .. n
    BY DEF MaxLoaded, Stack, LOADER_BASE
  <2>. QED BY <2>1, <2>2 DEF LoadedIn
<1>. QED BY <1>1, <1>3, <1>4, <1>5, <1>6 DEF IInv, a

(* When the size says that all is read, all is loaded.                     *)
LEMMA AllLoaded ==
  ASSUME IInv, NEW n \in 0 .. MaxLoaded, ebx = BLOCK_SIZE * n, Loaded(n)
  PROVE  /\ AllRead => Loaded(FileBlocks) /\ FileBlocks <= n
         /\ ~AllRead => BLOCK_SIZE * n <= uFsize
<1>1. FileBlocks \in Nat /\ uFsize \in 0 .. MaxSize /\ BLOCK_SIZE * (FileBlocks - 1) < uFsize
  BY Blocks DEF IInv
<1>2. n \in Nat
  BY DEF MaxLoaded, Stack, LOADER_BASE
<1>3. ASSUME AllRead
      PROVE  FileBlocks <= n
  BY <1>1, <1>2, <1>3 DEF AllRead, BLOCK_SIZE
<1>4. ASSUME AllRead
      PROVE  Loaded(FileBlocks)
  BY <1>1, <1>2, <1>3, <1>4 DEF Loaded, LoadedIn
<1>5. ASSUME ~AllRead
      PROVE  BLOCK_SIZE * n <= uFsize
  BY <1>1, <1>2, <1>5 DEF AllRead, BLOCK_SIZE
<1>. QED BY <1>3, <1>4, <1>5

-----------------------------------------------------------------------------
LEMMA InitInvariant == Init => IInv
<1>. SUFFICES ASSUME Init PROVE IInv
  OBVIOUS
<1>1. MemType
  BY DEF Init, MemType, Kinds, Is, Junk
<1>2. mem[InodeBlock] = Junk
  BY DEF Init, Memory, InodeBlock, DISK_BUFFER, LOADER_BASE, Code, Stack
<1>3. 0 \in 0 .. MaxSize /\ 0 \in 0 .. NIndirect
  BY DEF MaxSize, NIndirect, NDirect, BLOCK_SIZE
<1>4. volume \in {"other", "empty", "loader", "directory"} /\ disk \in {"small", "large"}
      /\ uFsize \in Sizes /\ fault \in BOOLEAN
      /\ pc = "start" /\ ebx = 0 /\ edx = 0
  BY DEF Init
<1>. QED BY <1>1, <1>2, <1>3, <1>4 DEF IInv, Early, Ends

LEMMA StutterInvariant == IInv /\ UNCHANGED vars => IInv'
BY DEF IInv, vars, given, MemType, Loaded, LoadedIn, FileBlocks, File, Is

LEMMA CheckLbaInvariant == IInv /\ CheckLba => IInv'
BY DEF IInv, CheckLba, given, MemType, Early, Ends

LEMMA ResetInvariant == IInv /\ Reset => IInv'
BY DEF IInv, Reset, given, MemType, Early, Ends

LEMMA ReadSuperInvariant == IInv /\ ReadSuper => IInv'
<1>. SUFFICES ASSUME IInv, ReadSuper PROVE IInv'
  OBVIOUS
<1>1. /\ fault' \in BOOLEAN /\ UNCHANGED <<given, ebx, edx>>
      /\ ebx = 0 /\ edx = 0 /\ MemType
      /\ \/ mem' = [mem EXCEPT ![DISK_BUFFER] = Is("super", 0), ![InodeBlock] = Is("inodes", 0)]
         \/ mem' = mem
  BY DEF IInv, ReadSuper, ReadFails, Early
<1>5. MemType'
  <2>1. Is("super", 0) \in Kinds \X Nat /\ Is("inodes", 0) \in Kinds \X Nat
    BY DEF Is, Kinds
  <2>. QED BY <1>1, <2>1 DEF MemType
<1>2. Loaded(0)' /\ Loaded(edx)'
  BY <1>1 DEF Loaded, LoadedIn
<1>3. pc' \in {"err_magic", "err_no_loader", "direct_loop", "err_read"}
  BY DEF ReadSuper, ReadFails, IInv
<1>4. BLOCK_SIZE * 0 = 0
  BY DEF BLOCK_SIZE
<1>. QED BY <1>1, <1>2, <1>3, <1>4, <1>5 DEF IInv, given, Early, Ends, NDirect

(* The end of either loop.                                                 *)
LEMMA AllReadInvariant ==
  ASSUME IInv, NEW n \in 0 .. MaxLoaded, ebx = BLOCK_SIZE * n, Loaded(n), AllReadLeaves
  PROVE  IInv'
<1>1. Loaded(FileBlocks)'
  BY AllLoaded, SameFile DEF AllReadLeaves, given, Loaded, LoadedIn, File, Is
<1>. QED BY <1>1 DEF IInv, AllReadLeaves, given, MemType, Ends, Early

LEMMA ZoneBlock ==
  ASSUME NEW z \in 0 .. NDirect
  PROVE  Zone(z) \in Kinds \X Nat /\ (z < NDirect /\ z < FileBlocks => Zone(z) = File(z))
BY DEF Zone, Kinds, File, Is, BootBlock, NDirect

LEMMA EntryBlock ==
  ASSUME NEW k \in 0 .. NIndirect, FileBlocks \in Nat,
         FileBlocks > NDirect => mem[DISK_BUFFER] = Is("indirect", 0)
  PROVE  Entry(k) \in Kinds \X Nat /\ (k + NDirect < FileBlocks => Entry(k) = File(k + NDirect))
BY DEF Entry, Kinds, File, Is, BootBlock, NoSector, NDirect, NIndirect

LEMMA DirectLoopInvariant == IInv /\ DirectLoop => IInv'
<1>. SUFFICES ASSUME IInv, DirectLoop PROVE IInv'
  OBVIOUS
<1>1. edx \in 0 .. 6 /\ edx \in 0 .. MaxLoaded /\ edx \in 0 .. NDirect /\ edx # MaxLoaded /\ edx < NDirect
      /\ ebx = BLOCK_SIZE * edx /\ Loaded(edx) /\ pc = "direct_loop"
  BY DEF DirectLoop, IInv, NDirect, NIndirect, MaxLoaded, Stack, LOADER_BASE
<1>2. CASE AllReadLeaves
  BY <1>1, <1>2, AllReadInvariant
<1>3. CASE Load(Zone(edx), IF edx + 1 < NDirect THEN "direct_loop" ELSE "indirect_read")
  <2>1. Zone(edx) \in Kinds \X Nat /\ (edx < FileBlocks => Zone(edx) = File(edx))
    BY <1>1, ZoneBlock
  <2>2. /\ MemType' /\ UNCHANGED given /\ fault' \in BOOLEAN
        /\ \/ pc' = "err_read" /\ UNCHANGED <<ebx, edx>>
           \/ /\ pc' = IF edx + 1 < NDirect THEN "direct_loop" ELSE "indirect_read"
              /\ ebx' = BLOCK_SIZE * (edx + 1) /\ edx' = edx + 1 /\ LoadedIn(mem', edx + 1)
    BY <1>1, <1>3, <2>1, LoadOne
  <2>3. CASE pc' = "err_read" /\ UNCHANGED <<ebx, edx>>
    BY <2>2, <2>3 DEF IInv, given, Ends, Early
  <2>4. CASE /\ pc' = IF edx + 1 < NDirect THEN "direct_loop" ELSE "indirect_read"
             /\ ebx' = BLOCK_SIZE * (edx + 1) /\ edx' = edx + 1 /\ LoadedIn(mem', edx + 1)
    <3>1. edx' \in 0 .. NIndirect /\ (~(edx + 1 < NDirect) => edx + 1 = NDirect) /\ edx + 1 \in 0 .. 54
      BY <1>1, <2>4 DEF NIndirect, NDirect
    <3>5. ebx' \in 0 .. MaxSize
      BY <2>4, <3>1, WithinReach
    <3>2. Loaded(edx)'
      BY <2>2, <2>4, SameFile DEF given, Loaded, LoadedIn, File, Is
    <3>3. CASE edx + 1 < NDirect
      BY <2>2, <2>4, <3>1, <3>2, <3>3, <3>5 DEF IInv, given, Ends, Early
    <3>4. CASE ~(edx + 1 < NDirect)
      BY <2>2, <2>4, <3>1, <3>2, <3>4, <3>5 DEF IInv, given, Ends, Early
    <3>. QED BY <3>3, <3>4
  <2>. QED BY <2>2, <2>3, <2>4
<1>. QED BY <1>2, <1>3 DEF DirectLoop

(* The indirect block is read to DISK_BUFFER, beyond all that is loaded.   *)
LEMMA IndirectReadInvariant == IInv /\ IndirectRead => IInv'
<1>. SUFFICES ASSUME IInv, IndirectRead PROVE IInv'
  OBVIOUS
<1>1. Zone(NDirect) \in Kinds \X Nat /\ DISK_BUFFER \in Memory /\ DISK_BUFFER \notin {Stack, Code}
  BY ZoneBlock DEF NDirect, DISK_BUFFER, Memory, LOADER_BASE, Stack, Code
<1>2. /\ MemType' /\ UNCHANGED given
      /\ \A b \in Memory : b # DISK_BUFFER => mem'[b] = mem[b]
      /\ \/ /\ pc' = "indirect_loop" /\ ebx' = ebx /\ edx' = 0 /\ UNCHANGED fault
            /\ mem'[DISK_BUFFER] = Zone(NDirect)
         \/ pc' = "err_read" /\ UNCHANGED <<ebx, edx>> /\ fault' \in BOOLEAN
  BY <1>1, ReadType DEF IndirectRead, IInv
<1>3. ebx = BLOCK_SIZE * NDirect /\ Loaded(NDirect)
  BY DEF IInv, IndirectRead
<1>4. Loaded(NDirect)'
  <2>1. \A k \in 0 .. NDirect - 1 : LOADER_BASE + k \in Memory /\ LOADER_BASE + k # DISK_BUFFER
    BY DEF LOADER_BASE, NDirect, Memory, DISK_BUFFER
  <2>. QED BY <1>2, <1>3, <2>1, SameFile DEF given, Loaded, LoadedIn, File, Is, NDirect
<1>5. 0 + NDirect = NDirect /\ NDirect <= MaxLoaded /\ 0 \in 0 .. NIndirect
  BY DEF NDirect, MaxLoaded, Stack, LOADER_BASE, NIndirect
<1>6. fault' \in BOOLEAN
  BY <1>2 DEF IInv
<1>7. CASE pc' = "err_read" /\ UNCHANGED <<ebx, edx>>
  BY <1>2, <1>6, <1>7 DEF IInv, given, Ends, Early
<1>8. CASE pc' = "indirect_loop" /\ ebx' = ebx /\ edx' = 0 /\ mem'[DISK_BUFFER] = Zone(NDirect)
  <2>1. Loaded(edx + NDirect)'
    BY <1>4, <1>5, <1>8 DEF Loaded, LoadedIn, NDirect
  <2>2. FileBlocks' > NDirect => mem'[DISK_BUFFER] = Is("indirect", 0)
    BY <1>2, <1>8, SameFile DEF given, Zone, NDirect
  <2>. QED BY <1>2, <1>3, <1>5, <1>6, <1>8, <2>1, <2>2 DEF IInv, given, Ends, Early
<1>. QED BY <1>2, <1>7, <1>8

LEMMA IndirectLoopInvariant == IInv /\ IndirectLoop => IInv'
<1>. SUFFICES ASSUME IInv, IndirectLoop PROVE IInv'
  OBVIOUS
<1>. DEFINE n == edx + NDirect
<1>1. /\ pc = "indirect_loop" /\ ebx = BLOCK_SIZE * n /\ Loaded(n) /\ n \in 0 .. MaxLoaded
      /\ FileBlocks > NDirect => mem[DISK_BUFFER] = Is("indirect", 0)
  BY DEF IInv, IndirectLoop, NDirect, NIndirect
<1>2. edx \in 0 .. 46 /\ n = edx + 7 /\ MaxLoaded = 53 /\ edx \in 0 .. NIndirect
  BY <1>1 DEF IInv, NIndirect, NDirect, MaxLoaded, Stack, LOADER_BASE
<1>3. edx + 1 <= NIndirect
  BY <1>2 DEF NIndirect
<1>4. CASE AllReadLeaves
  BY <1>1, <1>4, AllReadInvariant
<1>5. CASE Load(Entry(edx), "indirect_loop")
  <2>0. FileBlocks \in Nat
    BY Blocks DEF IInv
  <2>1. Entry(edx) \in Kinds \X Nat /\ (n < FileBlocks => Entry(edx) = File(n))
    BY <1>1, <1>2, <2>0, EntryBlock
  <2>. HIDE DEF n
  <2>2. /\ MemType' /\ UNCHANGED given /\ fault' \in BOOLEAN
        /\ \A b \in Memory : b # LOADER_BASE + n => mem'[b] = mem[b]
        /\ \/ pc' = "err_read" /\ UNCHANGED <<ebx, edx>>
           \/ /\ pc' = IF n = MaxLoaded THEN "lost" ELSE "indirect_loop"
              /\ ebx' = BLOCK_SIZE * (n + 1) /\ edx' = edx + 1 /\ LoadedIn(mem', n + 1)
    BY <1>1, <1>5, <2>1, LoadOne
  <2>3. CASE pc' = "err_read" /\ UNCHANGED <<ebx, edx>>
    BY <2>2, <2>3 DEF IInv, given, Ends, Early
  <2>4. CASE /\ pc' = IF n = MaxLoaded THEN "lost" ELSE "indirect_loop"
             /\ ebx' = BLOCK_SIZE * (n + 1) /\ edx' = edx + 1 /\ LoadedIn(mem', n + 1)
    <3>1. /\ edx' \in 0 .. NIndirect /\ n + 1 \in 0 .. 54
          /\ edx' + NDirect = n + 1 /\ (n # MaxLoaded => n + 1 <= MaxLoaded)
      BY <1>1, <1>2, <2>4 DEF NIndirect, NDirect
    <3>5. ebx' \in 0 .. MaxSize
      BY <2>4, <3>1, WithinReach
    <3>2. Loaded(edx + NDirect)'
      BY <2>2, <2>4, <3>1, SameFile DEF given, Loaded, LoadedIn, File, Is
    <3>3. CASE n = MaxLoaded
      BY <2>2, <2>4, <3>1, <3>3, <3>5 DEF IInv, given, Ends, Early
    <3>6. FileBlocks' > NDirect => mem'[DISK_BUFFER] = Is("indirect", 0)
      <4>1. DISK_BUFFER \in Memory /\ DISK_BUFFER # LOADER_BASE + n
        BY <1>1, <1>2 DEF DISK_BUFFER, Memory, LOADER_BASE
      <4>. QED BY <1>1, <2>2, <4>1, SameFile DEF given
    <3>4. CASE n # MaxLoaded
      BY <2>2, <2>4, <3>1, <3>2, <3>4, <3>5, <3>6 DEF IInv, given, Ends, Early
    <3>. QED BY <3>3, <3>4
  <2>. QED BY <2>2, <2>3, <2>4
<1>. QED BY <1>3, <1>4, <1>5 DEF IndirectLoop

LEMMA StepInvariant == IInv /\ [Next]_vars => IInv'
BY CheckLbaInvariant, ResetInvariant, ReadSuperInvariant, DirectLoopInvariant,
   IndirectReadInvariant, IndirectLoopInvariant, StutterInvariant DEF Next, Turn, Ended

-----------------------------------------------------------------------------
(* IInv holds in every state, for files of every size.                     *)
THEOREM Invariance == Spec => []IInv
BY InitInvariant, StepInvariant, PTL DEF Spec

(* Every variable has its type: no turn of a loop is one too many.         *)
THEOREM TypeCorrect == Spec => []TypeOK
<1>1. IInv => TypeOK
  BY DEF IInv, TypeOK, MemType, Kinds, Early
<1>. QED BY <1>1, Invariance, PTL

(* all_read is reached only with the whole file in place, also by a file   *)
(* that is larger than the memory before the stack.                        *)
THEOREM AlwaysComplete == Spec => []LoaderComplete
<1>1. IInv => LoaderComplete
  <2>1. IInv => FileBlocks \in Nat
    BY Blocks DEF IInv
  <2>. QED BY <2>1 DEF IInv, LoaderComplete, Loaded, LoadedIn
<1>. QED BY <1>1, Invariance, PTL

(* A read of block number n changes what is needed only if it is the block *)
(* that falls on the stack.                                                *)
LEMMA LoadElsewhere ==
  ASSUME IInv, NEW n \in 0 .. MaxLoaded, ebx = BLOCK_SIZE * n, Loaded(n),
         NEW block \in Kinds \X Nat, n < FileBlocks => block = File(n),
         NEW next, Load(block, next)
  PROVE  \A a \in NeededMemory : mem'[a] # mem[a] => a = Stack /\ pc' = "lost" /\ ReachesStack
<1>1. /\ \A b \in Memory : b # LOADER_BASE + n => mem'[b] = mem[b]
      /\ mem' = mem \/ pc' = IF n = MaxLoaded THEN "lost" ELSE next
  BY LoadOne
<1>2. \A a \in NeededMemory : a \in Memory /\ (a = LOADER_BASE + n => a = Stack /\ n = MaxLoaded)
  BY DEF NeededMemory, Stack, Code, InodeBlock, DISK_BUFFER, Memory, LOADER_BASE, MaxLoaded
<1>3. BLOCK_SIZE * n <= uFsize
  BY AllLoaded DEF Load
<1>4. n = MaxLoaded => ReachesStack
  BY <1>3 DEF ReachesStack, MaxLoaded, BLOCK_SIZE, Stack, LOADER_BASE
<1>. QED BY <1>1, <1>2, <1>4

(* Nothing that is still needed is overwritten and then used, whatever the *)
(* size of the file: a file that reaches the stack loses the boot block by *)
(* the read that does so, and no other file overwrites anything.           *)
THEOREM KeepsWhatItNeeds == Spec => CodeIntact
<1>. DEFINE Kept == \A a \in NeededMemory : mem[a] # Junk /\ mem'[a] # mem[a] =>
                      a = Stack /\ pc' = "lost" /\ ReachesStack
<1>1. ASSUME IInv, [Next]_vars
      PROVE  [Kept]_vars
  <2>1. CASE CheckLba \/ Reset \/ Ended
    BY <2>1 DEF CheckLba, Reset, Ended, vars
  <2>2. CASE ReadSuper
    <3>1. mem[InodeBlock] = Junk
      BY <1>1, <2>2 DEF IInv, ReadSuper, Early
    <3>2. \A a \in {Stack, Code} : a # DISK_BUFFER /\ a # InodeBlock /\ a \in Memory
      BY DEF Stack, Code, DISK_BUFFER, InodeBlock, Memory, LOADER_BASE
    <3>3. MemType /\ (\/ mem' = [mem EXCEPT ![DISK_BUFFER] = Is("super", 0), ![InodeBlock] = Is("inodes", 0)]
                      \/ mem' = mem)
      BY <1>1, <2>2 DEF IInv, ReadSuper, ReadFails
    <3>4. \A a \in {Stack, Code} : mem'[a] = mem[a]
      BY <3>2, <3>3 DEF MemType
    <3>. QED BY <3>1, <3>4 DEF NeededMemory
  <2>3. CASE DirectLoop
    <3>1. CASE AllReadLeaves
      BY <3>1 DEF AllReadLeaves
    <3>2. CASE Load(Zone(edx), IF edx + 1 < NDirect THEN "direct_loop" ELSE "indirect_read")
      <4>1. edx \in 0 .. MaxLoaded /\ edx \in 0 .. NDirect /\ edx < NDirect
            /\ ebx = BLOCK_SIZE * edx /\ Loaded(edx)
        BY <1>1, <2>3 DEF DirectLoop, IInv, NDirect, NIndirect, MaxLoaded, Stack, LOADER_BASE
      <4>2. Zone(edx) \in Kinds \X Nat /\ (edx < FileBlocks => Zone(edx) = File(edx))
        BY <4>1, ZoneBlock
      <4>. QED BY <1>1, <3>2, <4>1, <4>2, LoadElsewhere
    <3>. QED BY <2>3, <3>1, <3>2 DEF DirectLoop
  <2>4. CASE IndirectRead
    <3>1. Zone(NDirect) \in Kinds \X Nat /\ DISK_BUFFER \in Memory
      BY ZoneBlock DEF NDirect, DISK_BUFFER, Memory, LOADER_BASE
    <3>2. \A b \in Memory : b # DISK_BUFFER => mem'[b] = mem[b]
      BY <1>1, <2>4, <3>1, ReadType DEF IndirectRead, IInv
    <3>3. \A a \in NeededMemory : a \in Memory /\ a # DISK_BUFFER
      BY DEF NeededMemory, Stack, Code, InodeBlock, DISK_BUFFER, Memory, LOADER_BASE
    <3>. QED BY <3>2, <3>3
  <2>5. CASE IndirectLoop
    <3>1. CASE AllReadLeaves
      BY <3>1 DEF AllReadLeaves
    <3>2. CASE Load(Entry(edx), "indirect_loop")
      <4>1. edx + NDirect \in 0 .. MaxLoaded /\ edx \in 0 .. NIndirect
            /\ ebx = BLOCK_SIZE * (edx + NDirect) /\ Loaded(edx + NDirect)
        BY <1>1, <2>5 DEF IndirectLoop, IInv, NDirect, NIndirect
      <4>2. Entry(edx) \in Kinds \X Nat
            /\ (edx + NDirect < FileBlocks => Entry(edx) = File(edx + NDirect))
        <5>1. FileBlocks \in Nat /\ (FileBlocks > NDirect => mem[DISK_BUFFER] = Is("indirect", 0))
          BY <1>1, <2>5, Blocks DEF IInv, IndirectLoop
        <5>. QED BY <4>1, <5>1, EntryBlock
      <4>. QED BY <1>1, <3>2, <4>1, <4>2, LoadElsewhere
    <3>3. edx + 1 <= NIndirect
      BY <1>1, <2>5 DEF IndirectLoop, IInv, NDirect, NIndirect, MaxLoaded, Stack, LOADER_BASE
    <3>. QED BY <2>5, <3>1, <3>2, <3>3 DEF IndirectLoop
  <2>. QED BY <1>1, <2>1, <2>2, <2>3, <2>4, <2>5 DEF Next, Turn
<1>. HIDE DEF Kept
<1>2. Spec => [][Kept]_vars
  BY <1>1, Invariance, PTL DEF Spec
<1>. QED BY <1>2 DEF CodeIntact, Kept
=============================================================================
