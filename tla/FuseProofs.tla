----------------------------- MODULE FuseProofs -----------------------------
(***************************************************************************)
(* Theorems about Fuse, for any number of threads, of buffers and of       *)
(* calls: what the threads can still do to each other once one of them has *)
(* loaded the root inode, that the inode list stays sound whatever they    *)
(* do, and that with one thread every answer is right.                     *)
(***************************************************************************)
EXTENDS Fuse, FiniteSetTheorems, TLAPS

InodeRecord == [next : Int, refcount : Int, valid : BOOLEAN, data : Data]
ThreadRecord == [pc : Labels, ip : Nat, bp : Buffer \union {NULL},
                 tmp : Buffer \union {NULL}, reg : Int, answer : Data \union {"none"}]
BufferRecord == [refcount : Int, valid : BOOLEAN, next : Buffer \union {NULL}, data : Data]

(* Labels at which a thread has a pointer to an inode.                     *)
Pointed == Labels \ {"idle", "find_inode", "new_inode"}

(* The pointers of the threads and of the list are inodes that exist.      *)
IInv ==
  /\ inodes \in Seq(InodeRecord)
  /\ ihead \in 0 .. Len(inodes)
  /\ thread \in [Threads -> ThreadRecord]
  /\ buf \in [Buffer -> BufferRecord]
  /\ live \subseteq Buffer
  /\ bhead \in Buffer \union {NULL}
  /\ \A t \in Threads : thread[t].pc \in Pointed => thread[t].ip \in 1 .. Len(inodes)

-----------------------------------------------------------------------------
(* Writing a field of an inode keeps the list of inodes.                   *)
LEMMA SetInodeType ==
  ASSUME inodes \in Seq(InodeRecord), NEW i \in 1 .. Len(inodes), NEW field, NEW x,
         \/ field = "refcount" /\ x \in Int
         \/ field = "valid" /\ x \in BOOLEAN
         \/ field = "data" /\ x \in Data,
         SetInode(i, field, x)
  PROVE  /\ inodes' \in Seq(InodeRecord) /\ Len(inodes') = Len(inodes)
         /\ \A k \in 1 .. Len(inodes) : k # i => inodes'[k] = inodes[k]
         /\ field # "valid" => inodes'[i].valid = inodes[i].valid
         /\ field # "data" => inodes'[i].data = inodes[i].data
<1>1. inodes[i] \in InodeRecord
  OBVIOUS
<1>2. [inodes[i] EXCEPT ![field] = x] \in InodeRecord
  BY <1>1 DEF InodeRecord
<1>3. inodes' = [inodes EXCEPT ![i] = [inodes[i] EXCEPT ![field] = x]]
  BY DEF SetInode
<1>4. inodes' \in Seq(InodeRecord) /\ Len(inodes') = Len(inodes)
  BY <1>2, <1>3
<1>5. \A k \in 1 .. Len(inodes) : k # i => inodes'[k] = inodes[k]
  BY <1>3
<1>6. inodes'[i] = [inodes[i] EXCEPT ![field] = x]
  BY <1>3
<1>. QED BY <1>1, <1>4, <1>5, <1>6 DEF InodeRecord

(* Writing a field of a buffer keeps the type of the buffers.              *)
LEMMA SetBufType ==
  ASSUME buf \in [Buffer -> BufferRecord], NEW a \in Buffer, NEW field, NEW x,
         \/ field = "refcount" /\ x \in Int
         \/ field = "valid" /\ x \in BOOLEAN
         \/ field = "next" /\ x \in Buffer \union {NULL}
         \/ field = "data" /\ x \in Data,
         SetBuf(a, field, x)
  PROVE  buf' \in [Buffer -> BufferRecord]
<1>1. buf[a] \in BufferRecord
  OBVIOUS
<1>2. [buf[a] EXCEPT ![field] = x] \in BufferRecord
  BY <1>1 DEF BufferRecord
<1>. QED BY <1>2 DEF SetBuf

(* A thread that only goes on keeps its pointers.                          *)
LEMMA GoType ==
  ASSUME thread \in [Threads -> ThreadRecord], NEW t \in Threads, NEW label \in Labels,
         Go(t, label)
  PROVE  /\ thread' \in [Threads -> ThreadRecord]
         /\ thread'[t].pc = label /\ thread'[t].ip = thread[t].ip
         /\ \A u \in Threads : u # t => thread'[u] = thread[u]
<1>1. thread[t] \in ThreadRecord
  OBVIOUS
<1>2. thread' = [thread EXCEPT ![t] = [thread[t] EXCEPT !.pc = label]]
  BY DEF Go
<1>3. [thread[t] EXCEPT !.pc = label] \in ThreadRecord
  BY <1>1 DEF ThreadRecord
<1>4. thread'[t] = [thread[t] EXCEPT !.pc = label]
  BY <1>2
<1>. QED BY <1>1, <1>2, <1>3, <1>4 DEF ThreadRecord

(* A thread that loads a field and goes on.                                *)
LEMMA LoadType ==
  ASSUME thread \in [Threads -> ThreadRecord], NEW t \in Threads, NEW label \in Labels,
         NEW field, NEW x,
         \/ field = "ip" /\ x \in Nat
         \/ field \in {"bp", "tmp"} /\ x \in Buffer \union {NULL}
         \/ field = "reg" /\ x \in Int
         \/ field = "answer" /\ x \in Data,
         Load(t, field, x, label)
  PROVE  /\ thread' \in [Threads -> ThreadRecord]
         /\ thread'[t].pc = label
         /\ thread'[t].ip = IF field = "ip" THEN x ELSE thread[t].ip
         /\ \A u \in Threads : u # t => thread'[u] = thread[u]
<1>1. thread[t] \in ThreadRecord
  OBVIOUS
<1>2. thread' = [thread EXCEPT ![t] = [thread[t] EXCEPT ![field] = x, !.pc = label]]
  BY DEF Load
<1>3. [thread[t] EXCEPT ![field] = x, !.pc = label] \in ThreadRecord
  BY <1>1 DEF ThreadRecord
<1>4. thread'[t] = [thread[t] EXCEPT ![field] = x, !.pc = label]
  BY <1>2
<1>5. thread'[t].pc = label
  BY <1>1, <1>4 DEF ThreadRecord
<1>6. thread'[t].ip = IF field = "ip" THEN x ELSE thread[t].ip
  BY <1>1, <1>4 DEF ThreadRecord
<1>. QED BY <1>2, <1>3, <1>5, <1>6

-----------------------------------------------------------------------------
(* A step is good if it keeps the invariant, and what is settled.          *)
Good ==
  /\ IInv'
  /\ Settled => Settled' /\ inodes'[ihead'].data = inodes[ihead].data

(* A step that changes none of the memory the threads share is good.       *)
LEMMA Stutter ==
  ASSUME IInv, UNCHANGED <<thread, buf, bhead, live, inodes, ihead>>
  PROVE  Good
BY DEF Good, IInv, Settled, ReadsHead, ip

(* A step of thread t that puts no inode into the list is good, if it      *)
(* keeps the types, and leaves a settled inode alone.                      *)
LEMMA Quiet ==
  ASSUME IInv, NEW t \in Threads,
         thread' \in [Threads -> ThreadRecord],
         \A u \in Threads : u # t => thread'[u] = thread[u],
         ihead' = ihead, inodes' \in Seq(InodeRecord), Len(inodes') = Len(inodes),
         buf' \in [Buffer -> BufferRecord], live' \subseteq Buffer,
         bhead' \in Buffer \union {NULL},
         thread'[t].pc \in Pointed => thread'[t].ip \in 1 .. Len(inodes),
         Settled => /\ thread'[t].pc \notin Loading /\ ~ReadsHead(t)'
                    /\ inodes'[ihead].valid /\ inodes'[ihead].data = inodes[ihead].data
  PROVE  Good
<1>1. IInv'
  <2>1. ihead' \in 0 .. Len(inodes')
    BY DEF IInv
  <2>2. ASSUME NEW u \in Threads, thread'[u].pc \in Pointed
        PROVE  thread'[u].ip \in 1 .. Len(inodes')
    BY <2>2 DEF IInv
  <2>. QED BY <2>1, <2>2 DEF IInv
<1>2. ASSUME Settled
      PROVE  Settled' /\ inodes'[ihead'].data = inodes[ihead].data
  <2>1. ihead' # 0 /\ inodes'[ihead'].valid
    BY <1>2 DEF Settled
  <2>2. ASSUME NEW u \in Threads
        PROVE  thread'[u].pc \notin Loading /\ ~ReadsHead(u)'
    <3>1. CASE u = t
      BY <3>1, <1>2
    <3>2. CASE u # t
      BY <3>2, <1>2 DEF Settled, ReadsHead, ip
    <3>. QED BY <3>1, <3>2
  <2>. QED BY <1>2, <2>1, <2>2 DEF Settled
<1>. QED BY <1>1, <1>2 DEF Good

(* The same, for a step that changes no inode.                             *)
LEMMA QuietOnBuffers ==
  ASSUME IInv, NEW t \in Threads,
         thread' \in [Threads -> ThreadRecord],
         \A u \in Threads : u # t => thread'[u] = thread[u],
         ihead' = ihead, inodes' = inodes,
         buf' \in [Buffer -> BufferRecord], live' \subseteq Buffer,
         bhead' \in Buffer \union {NULL},
         thread'[t].pc \in Pointed => thread'[t].ip \in 1 .. Len(inodes),
         Settled => thread'[t].pc \notin Loading /\ ~ReadsHead(t)'
  PROVE  Good
<1>1. inodes' \in Seq(InodeRecord) /\ Len(inodes') = Len(inodes)
  BY DEF IInv
<1>2. Settled => inodes'[ihead].valid /\ inodes'[ihead].data = inodes[ihead].data
  BY DEF Settled
<1>. QED BY <1>1, <1>2, Quiet

(* In the middle of a call, past the test of ip->valid, a thread goes on   *)
(* with the inode it has, and does not touch any inode.                    *)
Middle == Pointed \ {"ref_inode", "count_inode", "head_inode", "valid_inode", "answer"}

LEMMA QuietInTheMiddle ==
  ASSUME IInv, NEW t \in Threads, thread[t].pc \in Middle,
         thread' \in [Threads -> ThreadRecord],
         \A u \in Threads : u # t => thread'[u] = thread[u],
         thread'[t].pc \in Middle, thread'[t].ip = thread[t].ip,
         ihead' = ihead, inodes' = inodes,
         buf' \in [Buffer -> BufferRecord], live' \subseteq Buffer,
         bhead' \in Buffer \union {NULL}
  PROVE  Good
<1>1. thread'[t].pc \in Pointed => thread'[t].ip \in 1 .. Len(inodes)
  BY DEF IInv, Middle
<1>2. Settled => thread'[t].pc \notin Loading /\ ~ReadsHead(t)'
  BY DEF Settled, ReadsHead, Loading, Middle, Pointed, Labels, ip
<1>. QED BY <1>1, <1>2, QuietOnBuffers

-----------------------------------------------------------------------------
(* One theorem per action.                                                 *)
LEMMA FindInodeGood ==
  ASSUME IInv, NEW t \in Threads, FindInode(t)
  PROVE  Good
<1>. USE DEF Labels
<1>0. UNCHANGED <<ihead, inodes, bhead, buf, live>>
  BY DEF FindInode, icache, bcache
<1>1. CASE At(t, "find_inode")
  <2>. DEFINE label == IF ihead = 0 THEN "new_inode" ELSE "ref_inode"
  <2>1. Load(t, "ip", ihead, label) /\ ihead \in Nat
    BY <1>1 DEF FindInode, At, IInv
  <2>2. /\ thread' \in [Threads -> ThreadRecord]
        /\ thread'[t].pc = label /\ thread'[t].ip = ihead
        /\ \A u \in Threads : u # t => thread'[u] = thread[u]
    BY <2>1, LoadType DEF IInv
  <2>3. thread'[t].pc \in Pointed => thread'[t].ip \in 1 .. Len(inodes)
    BY <2>2 DEF Pointed, IInv
  <2>4. Settled => thread'[t].pc \notin Loading /\ ~ReadsHead(t)'
    BY <2>2, <1>0 DEF Settled, Loading, ReadsHead
  <2>. QED BY <1>0, <2>2, <2>3, <2>4, QuietOnBuffers DEF IInv
<1>2. CASE At(t, "ref_inode")
  <2>1. thread[t].ip \in 1 .. Len(inodes) /\ inodes[thread[t].ip] \in InodeRecord
    BY <1>2 DEF At, IInv, Pointed
  <2>2. Load(t, "reg", inodes[thread[t].ip].refcount, "count_inode")
    BY <1>2 DEF FindInode, At, ip
  <2>3. inodes[thread[t].ip].refcount \in Int
    BY <2>1 DEF InodeRecord
  <2>4. /\ thread' \in [Threads -> ThreadRecord]
        /\ thread'[t].pc = "count_inode" /\ thread'[t].ip = thread[t].ip
        /\ \A u \in Threads : u # t => thread'[u] = thread[u]
    BY <2>2, <2>3, LoadType DEF IInv
  <2>5. Settled => thread'[t].pc \notin Loading /\ ~ReadsHead(t)'
    BY <2>4 DEF Loading, ReadsHead
  <2>. QED BY <1>0, <2>1, <2>4, <2>5, QuietOnBuffers DEF IInv
<1>. QED BY <1>1, <1>2 DEF FindInode

LEMMA CountInodeGood ==
  ASSUME IInv, NEW t \in Threads, CountInode(t)
  PROVE  Good
<1>. DEFINE i == thread[t].ip
<1>1. UNCHANGED <<ihead, bhead, buf, live>> /\ thread[t].pc = "count_inode"
  BY DEF CountInode, At, bcache
<1>2. i \in 1 .. Len(inodes)
  BY <1>1 DEF IInv, Pointed, Labels
<1>3. SetInode(i, "refcount", thread[t].reg + 1) /\ thread[t].reg + 1 \in Int
  BY DEF CountInode, ip, reg, IInv, ThreadRecord
<1>4. /\ inodes' \in Seq(InodeRecord) /\ Len(inodes') = Len(inodes)
      /\ \A k \in 1 .. Len(inodes) : k # i => inodes'[k] = inodes[k]
      /\ inodes'[i].valid = inodes[i].valid /\ inodes'[i].data = inodes[i].data
  <2>. HIDE DEF i
  <2>. QED BY <1>2, <1>3, SetInodeType DEF IInv
<1>5. /\ thread' \in [Threads -> ThreadRecord]
      /\ thread'[t].pc = "valid_inode" /\ thread'[t].ip = i
      /\ \A u \in Threads : u # t => thread'[u] = thread[u]
  BY GoType DEF CountInode, IInv, Labels
<1>6. Settled => /\ thread'[t].pc \notin Loading /\ ~ReadsHead(t)'
                 /\ inodes'[ihead].valid /\ inodes'[ihead].data = inodes[ihead].data
  <2>1. Settled => ihead \in 1 .. Len(inodes) /\ inodes[ihead].valid
    BY DEF Settled, IInv
  <2>2. thread'[t].pc \notin Loading /\ ~ReadsHead(t)'
    BY <1>5 DEF Loading, ReadsHead
  <2>. QED BY <1>4, <2>1, <2>2
<1>. QED BY <1>1, <1>2, <1>4, <1>5, <1>6, Quiet DEF IInv

LEMMA NewInodeGood ==
  ASSUME IInv, NEW t \in Threads, NewInode(t)
  PROVE  Good
<1>. USE DEF Labels
<1>0. UNCHANGED <<bhead, buf, live>> /\ thread[t].pc \in Loading
  BY DEF NewInode, At, bcache, Loading
<1>1. ~Settled
  BY <1>0 DEF Settled
<1>2. CASE At(t, "new_inode")
  <2>. DEFINE new == [next |-> ihead, refcount |-> 1, valid |-> FALSE, data |-> "junk"]
              n == Len(inodes)
  <2>1. /\ Load(t, "ip", n + 1, "head_inode")
        /\ inodes' = Append(inodes, new)
        /\ ihead' = ihead
    BY <1>2 DEF NewInode, At
  <2>2. n \in Nat /\ new \in InodeRecord
    BY DEF IInv, InodeRecord, Data
  <2>. HIDE DEF new
  <2>3. inodes' \in Seq(InodeRecord) /\ Len(inodes') = n + 1
    BY <2>1, <2>2 DEF IInv
  <2>4. /\ thread' \in [Threads -> ThreadRecord]
        /\ thread'[t].pc = "head_inode" /\ thread'[t].ip = n + 1
        /\ \A u \in Threads : u # t => thread'[u] = thread[u]
    BY <2>1, <2>2, LoadType DEF IInv
  <2>5. ASSUME NEW u \in Threads, thread'[u].pc \in Pointed
        PROVE  thread'[u].ip \in 1 .. Len(inodes')
    BY <2>2, <2>3, <2>4, <2>5 DEF IInv
  <2>6. ihead' \in 0 .. Len(inodes')
    BY <2>1, <2>2, <2>3 DEF IInv
  <2>. QED BY <1>0, <1>1, <2>3, <2>4, <2>5, <2>6 DEF Good, IInv
<1>3. CASE At(t, "head_inode")
  <2>1. Go(t, "valid_inode") /\ ihead' = thread[t].ip /\ inodes' = inodes
    BY <1>3 DEF NewInode, At, ip
  <2>2. /\ thread' \in [Threads -> ThreadRecord]
        /\ thread'[t].pc = "valid_inode" /\ thread'[t].ip = thread[t].ip
        /\ \A u \in Threads : u # t => thread'[u] = thread[u]
    BY <2>1, GoType DEF IInv
  <2>3. thread[t].ip \in 1 .. Len(inodes)
    BY <1>3 DEF At, IInv, Pointed
  <2>4. ASSUME NEW u \in Threads, thread'[u].pc \in Pointed
        PROVE  thread'[u].ip \in 1 .. Len(inodes')
    BY <2>1, <2>2, <2>3, <2>4 DEF IInv
  <2>. QED BY <1>0, <1>1, <2>1, <2>2, <2>3, <2>4 DEF Good, IInv
<1>. QED BY <1>2, <1>3 DEF NewInode

LEMMA FindBufferGood ==
  ASSUME IInv, NEW t \in Threads, FindBuffer(t)
  PROVE  Good
<1>. USE DEF Labels
<1>0. UNCHANGED <<ihead, inodes, bhead, buf, live>>
  BY DEF FindBuffer, icache, bcache
<1>1. CASE At(t, "valid_inode")
  <2>. DEFINE label == IF inodes[thread[t].ip].valid THEN "answer" ELSE "find_buffer"
  <2>1. Go(t, label) /\ thread[t].ip \in 1 .. Len(inodes)
    BY <1>1 DEF FindBuffer, At, ip, IInv, Pointed
  <2>2. /\ thread' \in [Threads -> ThreadRecord]
        /\ thread'[t].pc = label /\ thread'[t].ip = thread[t].ip
        /\ \A u \in Threads : u # t => thread'[u] = thread[u]
    BY <2>1, GoType DEF IInv
  <2>3. Settled => thread'[t].pc \notin Loading /\ ~ReadsHead(t)'
    BY <1>0, <2>2 DEF Settled, Loading, ReadsHead, ip
  <2>. QED BY <1>0, <2>1, <2>2, <2>3, QuietOnBuffers DEF IInv
<1>2. CASE At(t, "find_buffer")
  <2>. DEFINE label == IF bhead = NULL THEN "new_buffer" ELSE "ref_buffer"
  <2>1. Load(t, "bp", bhead, label) /\ label \in Middle /\ thread[t].pc \in Middle
    BY <1>2 DEF FindBuffer, At, Middle, Pointed
  <2>2. /\ thread' \in [Threads -> ThreadRecord]
        /\ thread'[t].pc = label /\ thread'[t].ip = thread[t].ip
        /\ \A u \in Threads : u # t => thread'[u] = thread[u]
    BY <2>1, LoadType DEF IInv
  <2>. QED BY <1>0, <2>1, <2>2, QuietInTheMiddle DEF IInv
<1>3. CASE At(t, "ref_buffer")
  <2>1. CASE bp(t) \in live
    <3>1. Load(t, "reg", buf[bp(t)].refcount, "count_buffer") /\ thread[t].pc \in Middle
      BY <1>3, <2>1 DEF FindBuffer, At, Access, Accesses, Middle, Pointed
    <3>2. buf[bp(t)].refcount \in Int
      BY <2>1 DEF IInv, BufferRecord
    <3>3. /\ thread' \in [Threads -> ThreadRecord]
          /\ thread'[t].pc = "count_buffer" /\ thread'[t].ip = thread[t].ip
          /\ \A u \in Threads : u # t => thread'[u] = thread[u]
      BY <3>1, <3>2, LoadType DEF IInv
    <3>. QED BY <1>0, <3>1, <3>3, QuietInTheMiddle DEF IInv, Middle, Pointed
  <2>2. CASE bp(t) \notin live
    BY <1>0, <1>3, <2>2, Stutter DEF FindBuffer, At, Access, Accesses
  <2>. QED BY <2>1, <2>2
<1>. QED BY <1>1, <1>2, <1>3 DEF FindBuffer

LEMMA CountBufferGood ==
  ASSUME IInv, NEW t \in Threads, CountBuffer(t)
  PROVE  Good
<1>1. UNCHANGED <<ihead, inodes, bhead, live>> /\ thread[t].pc = "count_buffer"
  BY DEF CountBuffer, At, icache
<1>2. CASE bp(t) \in live
  <2>1. /\ SetBuf(bp(t), "refcount", thread[t].reg + 1) /\ Go(t, "valid_buffer")
        /\ thread[t].reg + 1 \in Int /\ bp(t) \in Buffer
    BY <1>2 DEF CountBuffer, Access, Accesses, reg, IInv, ThreadRecord
  <2>2. buf' \in [Buffer -> BufferRecord]
    BY <2>1, SetBufType DEF IInv
  <2>3. /\ thread' \in [Threads -> ThreadRecord]
        /\ thread'[t].pc = "valid_buffer" /\ thread'[t].ip = thread[t].ip
        /\ \A u \in Threads : u # t => thread'[u] = thread[u]
    BY <2>1, GoType DEF IInv, Labels
  <2>. QED BY <1>1, <2>2, <2>3, QuietInTheMiddle DEF IInv, Middle, Pointed, Labels
<1>3. CASE bp(t) \notin live
  BY <1>1, <1>3, Stutter DEF CountBuffer, Access, Accesses
<1>. QED BY <1>2, <1>3

LEMMA NewBufferGood ==
  ASSUME IInv, NEW t \in Threads, NewBuffer(t)
  PROVE  Good
<1>. USE DEF Labels
<1>1. UNCHANGED <<ihead, inodes>>
  BY DEF NewBuffer, icache
<1>2. CASE At(t, "new_buffer")
  <2>1. PICK a \in Buffer \ live :
          /\ live' = live \union {a}
          /\ buf' = [buf EXCEPT ![a] = [refcount |-> 1, valid |-> FALSE, next |-> bhead, data |-> @.data]]
          /\ Load(t, "bp", a, "head_buffer")
    BY <1>2 DEF NewBuffer, At
  <2>2. bhead' = bhead
    BY <1>2 DEF NewBuffer, At
  <2>3. [refcount |-> 1, valid |-> FALSE, next |-> bhead, data |-> buf[a].data] \in BufferRecord
    BY DEF IInv, BufferRecord
  <2>4. buf' \in [Buffer -> BufferRecord]
    BY <2>1, <2>3 DEF IInv
  <2>5. /\ thread' \in [Threads -> ThreadRecord]
        /\ thread'[t].pc = "head_buffer" /\ thread'[t].ip = thread[t].ip
        /\ \A u \in Threads : u # t => thread'[u] = thread[u]
    BY <2>1, LoadType DEF IInv
  <2>6. thread[t].pc \in Middle /\ thread'[t].pc \in Middle /\ live' \subseteq Buffer
    BY <1>2, <2>1, <2>5 DEF At, Middle, Pointed, IInv
  <2>. QED BY <1>1, <2>2, <2>4, <2>5, <2>6, QuietInTheMiddle DEF IInv
<1>3. CASE At(t, "head_buffer")
  <2>1. Go(t, "valid_buffer") /\ bhead' = bp(t) /\ UNCHANGED <<buf, live>>
    BY <1>3 DEF NewBuffer, At
  <2>2. /\ thread' \in [Threads -> ThreadRecord]
        /\ thread'[t].pc = "valid_buffer" /\ thread'[t].ip = thread[t].ip
        /\ \A u \in Threads : u # t => thread'[u] = thread[u]
    BY <2>1, GoType DEF IInv
  <2>3. bp(t) \in Buffer \union {NULL}
    BY DEF bp, IInv, ThreadRecord
  <2>4. thread[t].pc \in Middle /\ thread'[t].pc \in Middle
    BY <1>3, <2>2 DEF At, Middle, Pointed
  <2>. QED BY <1>1, <2>1, <2>2, <2>3, <2>4, QuietInTheMiddle DEF IInv
<1>. QED BY <1>2, <1>3 DEF NewBuffer

LEMMA SeekGood ==
  ASSUME IInv, NEW t \in Threads, Seek(t)
  PROVE  Good
<1>1. UNCHANGED <<ihead, inodes, bhead, buf, live>> /\ thread[t].pc = "seek" /\ Go(t, "read")
  BY DEF Seek, At, icache, bcache
<1>2. /\ thread' \in [Threads -> ThreadRecord]
      /\ thread'[t].pc = "read" /\ thread'[t].ip = thread[t].ip
      /\ \A u \in Threads : u # t => thread'[u] = thread[u]
  BY <1>1, GoType DEF IInv, Labels
<1>. QED BY <1>1, <1>2, QuietInTheMiddle DEF IInv, Middle, Pointed, Labels

LEMMA ReadBlockGood ==
  ASSUME IInv, NEW t \in Threads, ReadBlock(t)
  PROVE  Good
<1>. USE DEF Labels
<1>1. UNCHANGED <<ihead, bhead, live>>
  BY DEF ReadBlock
<1>2. CASE bp(t) \notin live
  BY <1>1, <1>2, Stutter DEF ReadBlock, Access, Accesses
<1>3. CASE bp(t) \in live
  <2>. USE <1>1, <1>3
  <2>0. bp(t) \in Buffer
    BY DEF IInv
  <2>1. CASE At(t, "valid_buffer")
    <3>. DEFINE label == IF buf[bp(t)].valid THEN "copy" ELSE "seek"
    <3>1. Go(t, label) /\ UNCHANGED <<buf, inodes>>
      BY <2>1 DEF ReadBlock, At, Access, Accesses
    <3>2. /\ thread' \in [Threads -> ThreadRecord]
          /\ thread'[t].pc = label /\ thread'[t].ip = thread[t].ip
          /\ \A u \in Threads : u # t => thread'[u] = thread[u]
      BY <3>1, GoType DEF IInv
    <3>3. thread[t].pc \in Middle /\ thread'[t].pc \in Middle
      BY <2>1, <3>2 DEF At, Middle, Pointed
    <3>. QED BY <3>1, <3>2, <3>3, QuietInTheMiddle DEF IInv
  <2>2. CASE At(t, "read")
    <3>. DEFINE what == IF pos = RootBlock THEN "root" ELSE "other"
    <3>1. SetBuf(bp(t), "data", what) /\ Go(t, "set_buffer") /\ UNCHANGED inodes
      BY <2>2 DEF ReadBlock, At, Access, Accesses
    <3>2. buf' \in [Buffer -> BufferRecord]
      BY <2>0, <3>1, SetBufType DEF IInv, Data
    <3>3. /\ thread' \in [Threads -> ThreadRecord]
          /\ thread'[t].pc = "set_buffer" /\ thread'[t].ip = thread[t].ip
          /\ \A u \in Threads : u # t => thread'[u] = thread[u]
      BY <3>1, GoType DEF IInv
    <3>4. thread[t].pc \in Middle /\ thread'[t].pc \in Middle
      BY <2>2, <3>3 DEF At, Middle, Pointed
    <3>. QED BY <3>1, <3>2, <3>3, <3>4, QuietInTheMiddle DEF IInv
  <2>3. CASE At(t, "set_buffer")
    <3>1. SetBuf(bp(t), "valid", TRUE) /\ Go(t, "copy") /\ UNCHANGED inodes
      BY <2>3 DEF ReadBlock, At, Access, Accesses
    <3>2. buf' \in [Buffer -> BufferRecord]
      BY <2>0, <3>1, SetBufType DEF IInv
    <3>3. /\ thread' \in [Threads -> ThreadRecord]
          /\ thread'[t].pc = "copy" /\ thread'[t].ip = thread[t].ip
          /\ \A u \in Threads : u # t => thread'[u] = thread[u]
      BY <3>1, GoType DEF IInv
    <3>4. thread[t].pc \in Middle /\ thread'[t].pc \in Middle
      BY <2>3, <3>3 DEF At, Middle, Pointed
    <3>. QED BY <3>1, <3>2, <3>3, <3>4, QuietInTheMiddle DEF IInv
  <2>4. CASE At(t, "copy")
    <3>. DEFINE i == thread[t].ip
    <3>1. SetInode(i, "data", buf[bp(t)].data) /\ Go(t, "unref_buffer") /\ UNCHANGED buf
      BY <2>4 DEF ReadBlock, At, Access, Accesses, ip
    <3>2. i \in 1 .. Len(inodes) /\ buf[bp(t)].data \in Data
      BY <2>0, <2>4 DEF At, IInv, Pointed, BufferRecord
    <3>3. /\ inodes' \in Seq(InodeRecord) /\ Len(inodes') = Len(inodes)
          /\ \A k \in 1 .. Len(inodes) : k # i => inodes'[k] = inodes[k]
      <4>. HIDE DEF i
      <4>. QED BY <3>1, <3>2, SetInodeType DEF IInv
    <3>4. /\ thread' \in [Threads -> ThreadRecord]
          /\ thread'[t].pc = "unref_buffer" /\ thread'[t].ip = i
          /\ \A u \in Threads : u # t => thread'[u] = thread[u]
      BY <3>1, GoType DEF IInv
    <3>5. Settled => /\ thread'[t].pc \notin Loading /\ ~ReadsHead(t)'
                     /\ inodes'[ihead].valid /\ inodes'[ihead].data = inodes[ihead].data
      <4>1. Settled => ihead \in 1 .. Len(inodes) /\ inodes[ihead].valid /\ i # ihead
        BY <2>4 DEF Settled, IInv, ReadsHead, At, ip
      <4>2. thread'[t].pc \notin Loading /\ (Settled => ~ReadsHead(t)')
        BY <3>4, <4>1 DEF Loading, ReadsHead, ip
      <4>. QED BY <3>3, <4>1, <4>2
    <3>. QED BY <3>1, <3>2, <3>3, <3>4, <3>5, Quiet DEF IInv
  <2>. QED BY <2>1, <2>2, <2>3, <2>4 DEF ReadBlock
<1>. QED BY <1>2, <1>3

LEMMA UnrefBufferGood ==
  ASSUME IInv, NEW t \in Threads, UnrefBuffer(t)
  PROVE  Good
<1>. USE DEF Labels
<1>1. UNCHANGED <<ihead, inodes, bhead, live>>
  BY DEF UnrefBuffer, icache
<1>2. CASE bp(t) \notin live
  BY <1>1, <1>2, Stutter DEF UnrefBuffer, Access, Accesses
<1>3. CASE bp(t) \in live
  <2>0. bp(t) \in Buffer /\ buf[bp(t)].refcount \in Int /\ thread[t].reg \in Int
    BY <1>3 DEF IInv, BufferRecord, ThreadRecord
  <2>1. CASE At(t, "unref_buffer")
    <3>1. Load(t, "reg", buf[bp(t)].refcount, "uncount_buffer") /\ UNCHANGED buf
      BY <1>3, <2>1 DEF UnrefBuffer, At, Access, Accesses
    <3>2. /\ thread' \in [Threads -> ThreadRecord]
          /\ thread'[t].pc = "uncount_buffer" /\ thread'[t].ip = thread[t].ip
          /\ \A u \in Threads : u # t => thread'[u] = thread[u]
      BY <2>0, <3>1, LoadType DEF IInv
    <3>3. thread[t].pc \in Middle /\ thread'[t].pc \in Middle
      BY <2>1, <3>2 DEF At, Middle, Pointed
    <3>. QED BY <1>1, <3>1, <3>2, <3>3, QuietInTheMiddle DEF IInv
  <2>2. CASE At(t, "uncount_buffer")
    <3>1. SetBuf(bp(t), "refcount", thread[t].reg - 1) /\ Go(t, "test_buffer")
      BY <1>3, <2>2 DEF UnrefBuffer, At, Access, Accesses, reg
    <3>2. buf' \in [Buffer -> BufferRecord]
      BY <2>0, <3>1, SetBufType DEF IInv
    <3>3. /\ thread' \in [Threads -> ThreadRecord]
          /\ thread'[t].pc = "test_buffer" /\ thread'[t].ip = thread[t].ip
          /\ \A u \in Threads : u # t => thread'[u] = thread[u]
      BY <3>1, GoType DEF IInv
    <3>4. thread[t].pc \in Middle /\ thread'[t].pc \in Middle
      BY <2>2, <3>3 DEF At, Middle, Pointed
    <3>. QED BY <1>1, <3>2, <3>3, <3>4, QuietInTheMiddle DEF IInv
  <2>3. CASE At(t, "test_buffer")
    <3>. DEFINE label == IF buf[bp(t)].refcount > 0 THEN "set_inode" ELSE "is_head"
    <3>1. Go(t, label) /\ UNCHANGED buf
      BY <1>3, <2>3 DEF UnrefBuffer, At, Access, Accesses
    <3>2. /\ thread' \in [Threads -> ThreadRecord]
          /\ thread'[t].pc = label /\ thread'[t].ip = thread[t].ip
          /\ \A u \in Threads : u # t => thread'[u] = thread[u]
      BY <3>1, GoType DEF IInv
    <3>3. thread[t].pc \in Middle /\ thread'[t].pc \in Middle
      BY <2>3, <3>2 DEF At, Middle, Pointed
    <3>. QED BY <1>1, <3>1, <3>2, <3>3, QuietInTheMiddle DEF IInv
  <2>. QED BY <2>1, <2>2, <2>3 DEF UnrefBuffer
<1>. QED BY <1>2, <1>3

LEMMA PopGood ==
  ASSUME IInv, NEW t \in Threads, Pop(t)
  PROVE  Good
<1>1. UNCHANGED <<ihead, inodes, buf, live>> /\ thread[t].pc = "pop"
  BY DEF Pop, At, icache
<1>2. CASE bp(t) \in live
  <2>1. bhead' = buf[bp(t)].next /\ Go(t, "free") /\ bp(t) \in Buffer
    BY <1>2 DEF Pop, Access, Accesses, IInv
  <2>2. bhead' \in Buffer \union {NULL}
    BY <2>1 DEF IInv, BufferRecord
  <2>3. /\ thread' \in [Threads -> ThreadRecord]
        /\ thread'[t].pc = "free" /\ thread'[t].ip = thread[t].ip
        /\ \A u \in Threads : u # t => thread'[u] = thread[u]
    BY <2>1, GoType DEF IInv, Labels
  <2>. QED BY <1>1, <2>2, <2>3, QuietInTheMiddle DEF IInv, Middle, Pointed, Labels
<1>3. CASE bp(t) \notin live
  BY <1>1, <1>3, Stutter DEF Pop, Access, Accesses
<1>. QED BY <1>2, <1>3

LEMMA WalkGood ==
  ASSUME IInv, NEW t \in Threads, Walk(t)
  PROVE  Good
<1>. USE DEF Labels
<1>1. UNCHANGED <<ihead, inodes, bhead, buf, live>>
  BY DEF Walk, icache, bcache
<1>2. CASE At(t, "is_head")
  <2>. DEFINE label == IF bp(t) = bhead THEN "pop" ELSE "first"
  <2>1. Go(t, label)
    BY <1>2 DEF Walk, First, At
  <2>2. /\ thread' \in [Threads -> ThreadRecord]
        /\ thread'[t].pc = label /\ thread'[t].ip = thread[t].ip
        /\ \A u \in Threads : u # t => thread'[u] = thread[u]
    BY <2>1, GoType DEF IInv
  <2>3. thread[t].pc \in Middle /\ thread'[t].pc \in Middle
    BY <1>2, <2>2 DEF At, Middle, Pointed
  <2>. QED BY <1>1, <2>2, <2>3, QuietInTheMiddle DEF IInv
<1>4. CASE At(t, "first")
  <2>1. Load(t, "tmp", bhead, "walk")
    BY <1>4 DEF Walk, First, At
  <2>2. /\ thread' \in [Threads -> ThreadRecord]
        /\ thread'[t].pc = "walk" /\ thread'[t].ip = thread[t].ip
        /\ \A u \in Threads : u # t => thread'[u] = thread[u]
    BY <2>1, LoadType DEF IInv
  <2>3. thread[t].pc \in Middle /\ thread'[t].pc \in Middle
    BY <1>4, <2>2 DEF At, Middle, Pointed
  <2>. QED BY <1>1, <2>2, <2>3, QuietInTheMiddle DEF IInv
<1>3. CASE At(t, "walk")
  <2>1. ASSUME NEW label \in {"free", "splice"}, Go(t, label)
        PROVE  Good
    <3>1. /\ thread' \in [Threads -> ThreadRecord]
          /\ thread'[t].pc = label /\ thread'[t].ip = thread[t].ip
          /\ \A u \in Threads : u # t => thread'[u] = thread[u]
      BY <2>1, GoType DEF IInv
    <3>2. thread[t].pc \in Middle /\ thread'[t].pc \in Middle
      BY <1>3, <3>1 DEF At, Middle, Pointed
    <3>. QED BY <1>1, <3>1, <3>2, QuietInTheMiddle DEF IInv
  <2>2. CASE tmp(t) \in live /\ Load(t, "tmp", buf[tmp(t)].next, "walk")
    <3>1. buf[tmp(t)].next \in Buffer \union {NULL}
      BY <2>2 DEF IInv, BufferRecord
    <3>2. /\ thread' \in [Threads -> ThreadRecord]
          /\ thread'[t].pc = "walk" /\ thread'[t].ip = thread[t].ip
          /\ \A u \in Threads : u # t => thread'[u] = thread[u]
      BY <2>2, <3>1, LoadType DEF IInv
    <3>3. thread[t].pc \in Middle /\ thread'[t].pc \in Middle
      BY <1>3, <3>2 DEF At, Middle, Pointed
    <3>. QED BY <1>1, <3>2, <3>3, QuietInTheMiddle DEF IInv
  <2>3. CASE UNCHANGED thread
    BY <1>1, <2>3, Stutter
  <2>. QED BY <1>3, <2>1, <2>2, <2>3 DEF Walk, First, Visit, At, Access, Accesses
<1>. QED BY <1>2, <1>3, <1>4 DEF Walk, First

LEMMA SpliceGood ==
  ASSUME IInv, NEW t \in Threads, Splice(t)
  PROVE  Good
<1>1. UNCHANGED <<ihead, inodes, bhead, live>> /\ thread[t].pc = "splice"
  BY DEF Splice, Accesses, At, icache
<1>2. CASE {tmp(t), bp(t)} \subseteq live
  <2>1. /\ SetBuf(tmp(t), "next", buf[bp(t)].next) /\ Go(t, "free")
        /\ tmp(t) \in Buffer /\ bp(t) \in Buffer
    BY <1>2 DEF Splice, Accesses, IInv
  <2>2. buf[bp(t)].next \in Buffer \union {NULL}
    BY <2>1 DEF IInv, BufferRecord
  <2>3. buf' \in [Buffer -> BufferRecord]
    BY <2>1, <2>2, SetBufType DEF IInv
  <2>4. /\ thread' \in [Threads -> ThreadRecord]
        /\ thread'[t].pc = "free" /\ thread'[t].ip = thread[t].ip
        /\ \A u \in Threads : u # t => thread'[u] = thread[u]
    BY <2>1, GoType DEF IInv, Labels
  <2>. QED BY <1>1, <2>3, <2>4, QuietInTheMiddle DEF IInv, Middle, Pointed, Labels
<1>3. CASE ~({tmp(t), bp(t)} \subseteq live)
  BY <1>1, <1>3, Stutter DEF Splice, Accesses
<1>. QED BY <1>2, <1>3

LEMMA FreeGood ==
  ASSUME IInv, NEW t \in Threads, Free(t)
  PROVE  Good
<1>1. UNCHANGED <<ihead, inodes, bhead, buf>> /\ thread[t].pc = "free"
  BY DEF Free, At, icache
<1>2. CASE bp(t) \in live
  <2>1. live' = live \ {bp(t)} /\ Go(t, "set_inode")
    BY <1>2 DEF Free, Access, Accesses
  <2>2. /\ thread' \in [Threads -> ThreadRecord]
        /\ thread'[t].pc = "set_inode" /\ thread'[t].ip = thread[t].ip
        /\ \A u \in Threads : u # t => thread'[u] = thread[u]
    BY <2>1, GoType DEF IInv, Labels
  <2>. QED BY <1>1, <2>1, <2>2, QuietInTheMiddle DEF IInv, Middle, Pointed, Labels
<1>3. CASE bp(t) \notin live
  BY <1>1, <1>3, Stutter DEF Free, Access, Accesses
<1>. QED BY <1>2, <1>3

LEMMA ValidateInodeGood ==
  ASSUME IInv, NEW t \in Threads, ValidateInode(t)
  PROVE  Good
<1>. DEFINE i == thread[t].ip
<1>1. UNCHANGED <<ihead, bhead, buf, live>> /\ thread[t].pc = "set_inode"
  BY DEF ValidateInode, At, bcache
<1>2. SetInode(i, "valid", TRUE) /\ Go(t, "answer")
  BY DEF ValidateInode, ip
<1>3. i \in 1 .. Len(inodes)
  BY <1>1 DEF IInv, Pointed, Labels
<1>4. /\ inodes' \in Seq(InodeRecord) /\ Len(inodes') = Len(inodes)
      /\ \A k \in 1 .. Len(inodes) : k # i => inodes'[k] = inodes[k]
  <2>. HIDE DEF i
  <2>. QED BY <1>2, <1>3, SetInodeType DEF IInv
<1>5. /\ thread' \in [Threads -> ThreadRecord]
      /\ thread'[t].pc = "answer" /\ thread'[t].ip = i
      /\ \A u \in Threads : u # t => thread'[u] = thread[u]
  BY <1>2, GoType DEF IInv, Labels
<1>6. Settled => /\ thread'[t].pc \notin Loading /\ ~ReadsHead(t)'
                 /\ inodes'[ihead].valid /\ inodes'[ihead].data = inodes[ihead].data
  <2>1. Settled => ihead \in 1 .. Len(inodes) /\ inodes[ihead].valid /\ i # ihead
    BY <1>1 DEF Settled, IInv, ReadsHead, ip
  <2>2. thread'[t].pc \notin Loading /\ ~ReadsHead(t)'
    BY <1>5 DEF Loading, ReadsHead
  <2>. QED BY <1>4, <2>1, <2>2
<1>. QED BY <1>1, <1>3, <1>4, <1>5, <1>6, Quiet DEF IInv

LEMMA AnswerGood ==
  ASSUME IInv, NEW t \in Threads, Answer(t)
  PROVE  Good
<1>1. UNCHANGED <<ihead, inodes, bhead, buf, live>> /\ thread[t].pc = "answer"
  BY DEF Answer, At, icache, bcache
<1>2. thread[t].ip \in 1 .. Len(inodes)
  BY <1>1 DEF IInv, Pointed, Labels
<1>3. Load(t, "answer", inodes[thread[t].ip].data, "idle") /\ inodes[thread[t].ip].data \in Data
  <2>1. inodes[thread[t].ip] \in InodeRecord
    BY <1>2 DEF IInv
  <2>. QED BY <2>1 DEF Answer, ip, InodeRecord
<1>4. /\ thread' \in [Threads -> ThreadRecord]
      /\ thread'[t].pc = "idle"
      /\ \A u \in Threads : u # t => thread'[u] = thread[u]
  BY <1>3, LoadType DEF IInv, Labels
<1>5. thread'[t].pc \notin Pointed /\ thread'[t].pc \notin Loading /\ ~ReadsHead(t)'
  BY <1>4 DEF Pointed, Loading, ReadsHead
<1>. QED BY <1>1, <1>4, <1>5, QuietOnBuffers DEF IInv

LEMMA GetattrGood ==
  ASSUME IInv, NEW t \in Threads, Getattr(t)
  PROVE  Good
<1>1. UNCHANGED <<ihead, inodes, bhead, buf, live>> /\ Go(t, "find_inode")
  BY DEF Getattr, icache, bcache
<1>2. /\ thread' \in [Threads -> ThreadRecord]
      /\ thread'[t].pc = "find_inode"
      /\ \A u \in Threads : u # t => thread'[u] = thread[u]
  BY <1>1, GoType DEF IInv, Labels
<1>3. thread'[t].pc \notin Pointed /\ thread'[t].pc \notin Loading /\ ~ReadsHead(t)'
  BY <1>2 DEF Pointed, Loading, ReadsHead
<1>. QED BY <1>1, <1>2, <1>3, QuietOnBuffers DEF IInv

-----------------------------------------------------------------------------
LEMMA EveryStepGood == IInv /\ [Next]_vars => Good
<1>. SUFFICES ASSUME IInv, [Next]_vars PROVE Good
  OBVIOUS
<1>1. CASE Mount
  BY <1>1, Stutter DEF Mount, icache, bcache
<1>2. CASE Unmount
  BY <1>2, Stutter DEF Unmount, icache, bcache
<1>3. ASSUME NEW t \in Threads, Getattr(t)
      PROVE  Good
  BY <1>3, GetattrGood
<1>4. ASSUME NEW t \in Threads, Work(t)
      PROVE  Good
  BY <1>4, FindInodeGood, CountInodeGood, NewInodeGood, FindBufferGood, CountBufferGood,
     NewBufferGood, SeekGood, ReadBlockGood, UnrefBufferGood, PopGood, WalkGood, SpliceGood,
     FreeGood, ValidateInodeGood, AnswerGood
     DEF Work
<1>5. CASE UNCHANGED vars
  BY <1>5, Stutter DEF vars, icache, bcache
<1>. QED BY <1>1, <1>2, <1>3, <1>4, <1>5 DEF Next

LEMMA InitGood == Init => IInv
<1>. SUFFICES ASSUME Init PROVE IInv
  OBVIOUS
<1>1. inodes \in Seq(InodeRecord) /\ ihead \in 0 .. Len(inodes)
  BY DEF Init
<1>2. thread \in [Threads -> ThreadRecord]
  BY DEF Init, ThreadRecord, Labels, Data
<1>3. buf \in [Buffer -> BufferRecord]
  BY DEF Init, BufferRecord, Data
<1>4. \A t \in Threads : thread[t].pc \notin Pointed
  BY DEF Init, Pointed
<1>. QED BY <1>1, <1>2, <1>3, <1>4 DEF Init, IInv

(* For any number of threads: every pointer of the client to an inode is   *)
(* one to an inode that exists, and everything has its type.               *)
THEOREM Invariance == Spec => []IInv
<1>1. Init => IInv
  BY InitGood
<1>2. IInv /\ [Next]_vars => IInv'
  BY EveryStepGood DEF Good
<1>. QED BY <1>1, <1>2, PTL DEF Spec

(* getattr of fuse/main.c, on any number of threads: once the root inode   *)
(* is loaded and no thread is still about to load it, it stays, and every  *)
(* later call answers from it.                                             *)
THEOREM SettledForEver == Spec => StaysSettled
<1>1. IInv /\ [Next]_vars =>
        [Settled => Settled' /\ inodes'[ihead'].data = inodes[ihead].data]_vars
  BY EveryStepGood DEF Good
<1>. QED BY <1>1, Invariance, PTL DEF Spec, StaysSettled

-----------------------------------------------------------------------------
(* The inode list.  A thread that is still to count its reference has not  *)
(* changed a count in this call, so no count is above the number of calls  *)
(* that are past that.  Every inode was made by a thread of its own: one   *)
(* that has made an inode finds the list empty only until it has put that  *)
(* inode there.                                                            *)
Early == {"find_inode", "ref_inode", "count_inode", "new_inode"}
Counting == {t \in Threads : thread[t].pc \in Early}
Counted == calls - Cardinality(Counting)

Made(t) == thread[t].pc # "new_inode" /\ (ihead # 0 \/ thread[t].pc = "head_inode")
Makers ==
  \E f \in Injection(1 .. Len(inodes), Threads) :
    \A i \in 1 .. Len(inodes) : Made(f[i])

Flags ==
  /\ up \in {"no", "mounted", "unmounted"} /\ clean \in BOOLEAN /\ lost \in BOOLEAN
  /\ pool \subseteq Threads /\ calls \in 0 .. MaxCalls

ListInv ==
  /\ IInv /\ Flags /\ Makers /\ Counted \in Nat
  /\ \A t \in Threads :
       /\ thread[t].ip \in 0 .. Len(inodes)
       /\ thread[t].pc = "count_inode" => thread[t].reg \in 1 .. Counted
  /\ \A i \in 1 .. Len(inodes) :
       inodes[i].next \in 0 .. i - 1 /\ inodes[i].refcount \in 1 .. Counted

(* How a step changes the number of the counted calls.                     *)
LEMMA CountingFinite ==
  ASSUME IsFiniteSet(Threads)
  PROVE  IsFiniteSet(Counting) /\ Cardinality(Counting) \in Nat
<1>1. Counting \in SUBSET Threads
  BY DEF Counting
<1>. QED  BY <1>1, FS_Subset, FS_CardinalityType

LEMMA CountedSame ==
  ASSUME calls' = calls,
         \A u \in Threads : thread'[u].pc \in Early <=> thread[u].pc \in Early
  PROVE  Counted' = Counted
<1>1. Counting' = Counting
  BY DEF Counting
<1>. QED  BY <1>1 DEF Counted

LEMMA CountedMore ==
  ASSUME IsFiniteSet(Threads), calls' = calls, calls \in Int, NEW t \in Threads,
         thread[t].pc \in Early, thread'[t].pc \notin Early,
         \A u \in Threads : u # t => thread'[u] = thread[u]
  PROVE  Counted' = Counted + 1 /\ Counted \in Int
<1>1. Counting' = Counting \ {t} /\ t \in Counting
  BY DEF Counting
<1>2. IsFiniteSet(Counting) /\ Cardinality(Counting) \in Nat
  BY CountingFinite
<1>3. Cardinality(Counting \ {t}) = Cardinality(Counting) - 1
  BY <1>1, <1>2, FS_RemoveElement
<1>. QED  BY <1>1, <1>2, <1>3 DEF Counted

LEMMA CountedCall ==
  ASSUME IsFiniteSet(Threads), calls' = calls + 1, calls \in Int, NEW t \in Threads,
         thread[t].pc \notin Early, thread'[t].pc \in Early,
         \A u \in Threads : u # t => thread'[u] = thread[u]
  PROVE  Counted' = Counted
<1>1. Counting' = Counting \cup {t} /\ t \notin Counting
  BY DEF Counting
<1>2. IsFiniteSet(Counting) /\ Cardinality(Counting) \in Nat
  BY CountingFinite
<1>3. Cardinality(Counting \cup {t}) = Cardinality(Counting) + 1
  BY <1>1, <1>2, FS_AddElement
<1>. QED  BY <1>1, <1>2, <1>3 DEF Counted

-----------------------------------------------------------------------------
(* Most steps of a thread leave the inode list and its counts alone.       *)
Late == Labels \ (Early \union {"head_inode"})

Moves(t) ==
  \/ thread' = thread
  \/ \E label \in Late :
       \/ Go(t, label)
       \/ \E field \in {"bp", "tmp", "reg", "answer"} : \E x : Load(t, field, x, label)

KeepsList ==
  /\ ihead' = ihead /\ Len(inodes') = Len(inodes)
  /\ \A i \in 1 .. Len(inodes) : /\ inodes'[i].next = inodes[i].next
                                 /\ inodes'[i].refcount = inodes[i].refcount

LateStep(t) ==
  \/ FindBuffer(t) \/ CountBuffer(t) \/ NewBuffer(t) \/ Seek(t) \/ ReadBlock(t)
  \/ UnrefBuffer(t) \/ Pop(t) \/ Walk(t) \/ Splice(t) \/ Free(t) \/ ValidateInode(t)
  \/ Answer(t)

LEMMA MovesShape ==
  ASSUME thread \in [Threads -> ThreadRecord], NEW t \in Threads, thread[t].pc \in Late, Moves(t)
  PROVE  /\ thread'[t].pc \in Late /\ thread'[t].ip = thread[t].ip
         /\ \A u \in Threads : u # t => thread'[u] = thread[u]
<1>1. thread[t] \in ThreadRecord
  OBVIOUS
<1>2. CASE thread' = thread
  BY <1>2
<1>3. ASSUME NEW label \in Late, Go(t, label)
      PROVE  /\ thread'[t].pc \in Late /\ thread'[t].ip = thread[t].ip
             /\ \A u \in Threads : u # t => thread'[u] = thread[u]
  <2>1. thread' = [thread EXCEPT ![t] = [thread[t] EXCEPT !.pc = label]]
    BY <1>3 DEF Go
  <2>2. thread'[t] = [thread[t] EXCEPT !.pc = label]
    BY <2>1
  <2>. QED  BY <1>1, <2>1, <2>2 DEF ThreadRecord
<1>4. ASSUME NEW label \in Late, NEW field \in {"bp", "tmp", "reg", "answer"}, NEW x,
             Load(t, field, x, label)
      PROVE  /\ thread'[t].pc \in Late /\ thread'[t].ip = thread[t].ip
             /\ \A u \in Threads : u # t => thread'[u] = thread[u]
  <2>1. thread' = [thread EXCEPT ![t] = [thread[t] EXCEPT ![field] = x, !.pc = label]]
    BY <1>4 DEF Load
  <2>2. thread'[t] = [thread[t] EXCEPT ![field] = x, !.pc = label]
    BY <2>1
  <2>. QED  BY <1>1, <2>1, <2>2 DEF ThreadRecord
<1>. QED  BY <1>2, <1>3, <1>4 DEF Moves

LEMMA SetInodeKeeps ==
  ASSUME inodes \in Seq(InodeRecord), NEW i \in 1 .. Len(inodes),
         NEW field \in {"valid", "data"}, NEW x, SetInode(i, field, x), ihead' = ihead
  PROVE  KeepsList
<1>1. inodes[i] \in InodeRecord
  OBVIOUS
<1>2. inodes' = [inodes EXCEPT ![i] = [inodes[i] EXCEPT ![field] = x]]
  BY DEF SetInode
<1>3. Len(inodes') = Len(inodes) /\ \A k \in 1 .. Len(inodes) : k # i => inodes'[k] = inodes[k]
  BY <1>2
<1>4. inodes'[i] = [inodes[i] EXCEPT ![field] = x]
  BY <1>2
<1>5. inodes'[i].next = inodes[i].next /\ inodes'[i].refcount = inodes[i].refcount
  BY <1>1, <1>4 DEF InodeRecord
<1>. QED  BY <1>3, <1>5 DEF KeepsList

LEMMA LateShape ==
  ASSUME IInv, lost \in BOOLEAN, NEW t \in Threads, LateStep(t)
  PROVE  thread[t].pc \in Late /\ Moves(t) /\ KeepsList /\ lost' \in BOOLEAN
<1>. USE DEF Late, Labels, Early, At, Access, Accesses
<1>0. UNCHANGED <<inodes, ihead>> => KeepsList
  BY DEF KeepsList
<1>1. CASE FindBuffer(t)
  BY <1>0, <1>1 DEF FindBuffer, Moves, icache
<1>2. CASE CountBuffer(t)
  BY <1>0, <1>2 DEF CountBuffer, Moves, icache
<1>3. CASE NewBuffer(t)
  BY <1>0, <1>3 DEF NewBuffer, Moves, icache
<1>4. CASE Seek(t)
  BY <1>0, <1>4 DEF Seek, Moves, icache
<1>5. CASE ReadBlock(t)
  <2>1. thread[t].pc \in Late /\ Moves(t) /\ lost' \in BOOLEAN
    <3>1. CASE ~(bp(t) \in live)
      BY <1>5, <3>1 DEF ReadBlock, Moves
    <3>2. CASE bp(t) \in live
      <4>1. CASE thread[t].pc = "valid_buffer"
        BY <1>5, <3>2, <4>1 DEF ReadBlock, Moves
      <4>2. CASE thread[t].pc = "read"
        BY <1>5, <3>2, <4>2 DEF ReadBlock, Moves
      <4>3. CASE thread[t].pc = "set_buffer"
        BY <1>5, <3>2, <4>3 DEF ReadBlock, Moves
      <4>4. CASE thread[t].pc = "copy"
        BY <1>5, <3>2, <4>4 DEF ReadBlock, Moves
      <4>5. \/ thread[t].pc = "valid_buffer" \/ thread[t].pc = "read"
            \/ thread[t].pc = "set_buffer" \/ thread[t].pc = "copy"
        BY ONLY <1>5 DEF ReadBlock, At
      <4>. QED  BY <4>1, <4>2, <4>3, <4>4, <4>5
    <3>. QED  BY <3>1, <3>2
  <2>2. CASE inodes' = inodes
    <3>1. ihead' = ihead
      BY ONLY <1>5 DEF ReadBlock
    <3>. QED  BY <1>0, <2>1, <2>2, <3>1
  <2>3. CASE inodes' # inodes
    <3>1. SetInode(ip(t), "data", buf[bp(t)].data) /\ thread[t].pc = "copy" /\ ihead' = ihead
      BY <1>5, <2>3 DEF ReadBlock
    <3>2. ip(t) \in 1 .. Len(inodes)
      BY <3>1 DEF IInv, Pointed, ip
    <3>. QED  BY <2>1, <3>1, <3>2, SetInodeKeeps DEF IInv
  <2>. QED  BY <2>1, <2>2, <2>3
<1>6. CASE UnrefBuffer(t)
  BY <1>0, <1>6 DEF UnrefBuffer, Moves, icache
<1>7. CASE Pop(t)
  BY <1>0, <1>7 DEF Pop, Moves, icache
<1>8. CASE Walk(t)
  BY <1>0, <1>8 DEF Walk, First, Visit, Moves, icache
<1>9. CASE Splice(t)
  BY <1>0, <1>9 DEF Splice, Moves, icache
<1>10. CASE Free(t)
  BY <1>0, <1>10 DEF Free, Moves, icache
<1>11. CASE ValidateInode(t)
  <2>1. SetInode(ip(t), "valid", TRUE) /\ Go(t, "answer") /\ thread[t].pc = "set_inode"
        /\ ihead' = ihead /\ lost' = lost
    BY <1>11 DEF ValidateInode
  <2>2. ip(t) \in 1 .. Len(inodes)
    BY <2>1 DEF IInv, Pointed, ip
  <2>3. KeepsList
    BY <2>1, <2>2, SetInodeKeeps DEF IInv
  <2>. QED  BY <2>1, <2>3 DEF Moves
<1>12. CASE Answer(t)
  BY <1>0, <1>12 DEF Answer, Moves, icache
<1>. QED  BY <1>1, <1>2, <1>3, <1>4, <1>5, <1>6, <1>7, <1>8, <1>9, <1>10, <1>11, <1>12
          DEF LateStep

-----------------------------------------------------------------------------
(* A late step, and every other one that leaves the list alone.            *)
LEMMA LateKeeps ==
  ASSUME ListInv, IInv', Flags', calls' = calls, KeepsList, NEW t \in Threads,
         thread[t].pc \in Late, thread'[t].pc \in Late, thread'[t].ip = thread[t].ip,
         \A u \in Threads : u # t => thread'[u] = thread[u]
  PROVE  ListInv'
<1>1. Counted' = Counted
  BY CountedSame DEF Late
<1>2. Makers'
  <2>1. PICK f \in Injection(1 .. Len(inodes), Threads) :
          \A i \in 1 .. Len(inodes) : Made(f[i])
    BY DEF ListInv, Makers
  <2>2. ASSUME NEW u \in Threads, Made(u)
        PROVE  Made(u)'
    BY <2>2 DEF Made, KeepsList, Late, Early, Labels
  <2>3. \A i \in 1 .. Len(inodes) : f[i] \in Threads
    BY <2>1 DEF Injection
  <2>. QED  BY <2>1, <2>2, <2>3 DEF Makers, KeepsList
<1>3. ASSUME NEW u \in Threads
      PROVE  /\ thread'[u].ip \in 0 .. Len(inodes')
             /\ thread'[u].pc = "count_inode" => thread'[u].reg \in 1 .. Counted
  BY DEF ListInv, KeepsList, Late, Early, Labels
<1>4. \A i \in 1 .. Len(inodes') :
        inodes'[i].next \in 0 .. i - 1 /\ inodes'[i].refcount \in 1 .. Counted
  BY DEF ListInv, KeepsList
<1>. QED  BY <1>1, <1>2, <1>3, <1>4 DEF ListInv

(* A step that changes no thread and no inode.                             *)
LEMMA StillKeeps ==
  ASSUME ListInv, IInv', Flags', UNCHANGED <<thread, ihead, calls>>, KeepsList
  PROVE  ListInv'
<1>1. Counted' = Counted
  BY CountedSame
<1>2. Makers'
  BY DEF ListInv, Makers, Made, KeepsList
<1>3. \A i \in 1 .. Len(inodes') :
        inodes'[i].next \in 0 .. i - 1 /\ inodes'[i].refcount \in 1 .. Counted
  BY DEF ListInv, KeepsList
<1>. QED  BY <1>1, <1>2, <1>3 DEF ListInv, KeepsList

LEMMA LateList ==
  ASSUME ListInv, NEW t \in Threads, LateStep(t), IInv', UNCHANGED <<mount, calls>>
  PROVE  ListInv'
<1>1. thread[t].pc \in Late /\ Moves(t) /\ KeepsList /\ lost' \in BOOLEAN
  BY LateShape DEF ListInv, Flags
<1>2. /\ thread'[t].pc \in Late /\ thread'[t].ip = thread[t].ip
      /\ \A u \in Threads : u # t => thread'[u] = thread[u]
  BY <1>1, MovesShape DEF ListInv, IInv
<1>3. Flags'
  BY <1>1 DEF ListInv, Flags, mount
<1>. QED  BY <1>1, <1>2, <1>3, LateKeeps

LEMMA GetattrList ==
  ASSUME IsFiniteSet(Threads), ListInv, NEW t \in Threads, Getattr(t), IInv'
  PROVE  ListInv'
<1>1. /\ UNCHANGED <<mount, ihead, inodes, lost>> /\ calls' = calls + 1 /\ calls < MaxCalls
      /\ thread[t].pc = "idle" /\ Go(t, "find_inode")
  BY DEF Getattr, At, icache
<1>2. /\ thread'[t].pc = "find_inode" /\ thread'[t].ip = thread[t].ip
      /\ \A u \in Threads : u # t => thread'[u] = thread[u]
  BY <1>1, GoType DEF ListInv, IInv, Labels
<1>3. calls \in Int /\ Flags'
  BY <1>1, MaxCallsAssumption DEF ListInv, Flags, mount
<1>4. Counted' = Counted
  BY <1>1, <1>2, <1>3, CountedCall DEF Early
<1>5. Makers'
  <2>1. PICK f \in Injection(1 .. Len(inodes), Threads) :
          \A i \in 1 .. Len(inodes) : Made(f[i])
    BY DEF ListInv, Makers
  <2>2. ASSUME NEW u \in Threads, Made(u)
        PROVE  Made(u)'
    BY <1>1, <1>2, <2>2 DEF Made
  <2>3. \A i \in 1 .. Len(inodes) : f[i] \in Threads
    BY <2>1 DEF Injection
  <2>. QED  BY <1>1, <2>1, <2>2, <2>3 DEF Makers
<1>6. ASSUME NEW u \in Threads
      PROVE  /\ thread'[u].ip \in 0 .. Len(inodes')
             /\ thread'[u].pc = "count_inode" => thread'[u].reg \in 1 .. Counted
  BY <1>1, <1>2 DEF ListInv
<1>7. \A i \in 1 .. Len(inodes') :
        inodes'[i].next \in 0 .. i - 1 /\ inodes'[i].refcount \in 1 .. Counted
  BY <1>1 DEF ListInv
<1>. QED  BY <1>3, <1>4, <1>5, <1>6, <1>7 DEF ListInv

LEMMA FindInodeList ==
  ASSUME ListInv, NEW t \in Threads, FindInode(t), IInv', UNCHANGED <<mount, calls>>
  PROVE  ListInv'
<1>. USE DEF Labels
<1>1. UNCHANGED <<ihead, inodes, lost>> /\ Flags'
  BY DEF FindInode, icache, ListInv, Flags, mount
<1>2. /\ thread[t].pc \in Early /\ thread'[t].pc \in Early
      /\ \A u \in Threads : u # t => thread'[u] = thread[u]
      /\ thread'[t].ip \in 0 .. Len(inodes)
      /\ thread'[t].pc = "new_inode" => thread[t].pc = "find_inode" /\ ihead = 0
      /\ thread'[t].pc = "count_inode" => thread'[t].reg \in 1 .. Counted
  <2>1. CASE At(t, "find_inode")
    <3>. DEFINE label == IF ihead = 0 THEN "new_inode" ELSE "ref_inode"
    <3>1. Load(t, "ip", ihead, label) /\ ihead \in 0 .. Len(inodes) /\ ihead \in Nat
      BY <2>1 DEF FindInode, At, ListInv, IInv
    <3>2. /\ thread'[t].pc = label /\ thread'[t].ip = ihead
          /\ \A u \in Threads : u # t => thread'[u] = thread[u]
      BY <3>1, LoadType DEF ListInv, IInv
    <3>. QED  BY <2>1, <3>1, <3>2 DEF At, Early
  <2>2. CASE At(t, "ref_inode")
    <3>1. thread[t].ip \in 1 .. Len(inodes) /\ inodes[thread[t].ip].refcount \in 1 .. Counted
      BY <2>2 DEF At, ListInv, IInv, Pointed
    <3>2. Load(t, "reg", inodes[thread[t].ip].refcount, "count_inode")
      BY <2>2 DEF FindInode, At, ip
    <3>3. /\ thread'[t].pc = "count_inode" /\ thread'[t].ip = thread[t].ip
          /\ \A u \in Threads : u # t => thread'[u] = thread[u]
      BY <3>1, <3>2, LoadType DEF ListInv, IInv
    <3>4. thread'[t].reg = inodes[thread[t].ip].refcount
      <4>1. thread[t] \in ThreadRecord
        BY DEF ListInv, IInv
      <4>2. thread'[t] = [thread[t] EXCEPT !.reg = inodes[thread[t].ip].refcount,
                                           !.pc = "count_inode"]
        BY <3>2 DEF Load, ListInv, IInv
      <4>. QED  BY <4>1, <4>2 DEF ThreadRecord
    <3>. QED  BY <2>2, <3>1, <3>3, <3>4 DEF At, Early
  <2>. QED  BY <2>1, <2>2 DEF FindInode
<1>3. Counted' = Counted
  BY <1>2, CountedSame
<1>4. Makers'
  <2>1. PICK f \in Injection(1 .. Len(inodes), Threads) :
          \A i \in 1 .. Len(inodes) : Made(f[i])
    BY DEF ListInv, Makers
  <2>2. ASSUME NEW u \in Threads, Made(u)
        PROVE  Made(u)'
    BY <1>1, <1>2, <2>2 DEF Made, Early
  <2>3. \A i \in 1 .. Len(inodes) : f[i] \in Threads
    BY <2>1 DEF Injection
  <2>. QED  BY <1>1, <2>1, <2>2, <2>3 DEF Makers
<1>5. ASSUME NEW u \in Threads
      PROVE  /\ thread'[u].ip \in 0 .. Len(inodes')
             /\ thread'[u].pc = "count_inode" => thread'[u].reg \in 1 .. Counted
  BY <1>1, <1>2 DEF ListInv
<1>6. \A i \in 1 .. Len(inodes') :
        inodes'[i].next \in 0 .. i - 1 /\ inodes'[i].refcount \in 1 .. Counted
  BY <1>1 DEF ListInv
<1>. QED  BY <1>1, <1>3, <1>4, <1>5, <1>6 DEF ListInv

LEMMA CountInodeList ==
  ASSUME IsFiniteSet(Threads), ListInv, NEW t \in Threads, CountInode(t), IInv',
         UNCHANGED <<mount, calls>>
  PROVE  ListInv'
<1>. DEFINE i == thread[t].ip
<1>1. UNCHANGED <<ihead, lost>> /\ thread[t].pc = "count_inode" /\ Flags'
  BY DEF CountInode, At, ListInv, Flags, mount
<1>2. i \in 1 .. Len(inodes)
  BY <1>1 DEF ListInv, IInv, Pointed, Labels
<1>3. thread[t].reg \in 1 .. Counted
  BY <1>1 DEF ListInv
<1>4. /\ thread'[t].pc = "valid_inode" /\ thread'[t].ip = i
      /\ \A u \in Threads : u # t => thread'[u] = thread[u]
  BY GoType DEF CountInode, ListInv, IInv, Labels
<1>5. Counted' = Counted + 1 /\ Counted \in Int
  BY <1>1, <1>4, CountedMore DEF Early, ListInv, Flags
<1>6. /\ Len(inodes') = Len(inodes)
      /\ \A k \in 1 .. Len(inodes) : k # i => inodes'[k] = inodes[k]
      /\ inodes'[i].next = inodes[i].next /\ inodes'[i].refcount = thread[t].reg + 1
  <2>1. inodes[i] \in InodeRecord /\ inodes \in Seq(InodeRecord)
    BY <1>2 DEF ListInv, IInv
  <2>2. inodes' = [inodes EXCEPT ![i] = [inodes[i] EXCEPT !["refcount"] = thread[t].reg + 1]]
    BY DEF CountInode, SetInode, ip, reg
  <2>. HIDE DEF i
  <2>3. inodes'[i] = [inodes[i] EXCEPT !["refcount"] = thread[t].reg + 1]
    BY <1>2, <2>1, <2>2
  <2>. QED  BY <1>2, <2>1, <2>2, <2>3 DEF InodeRecord
<1>. HIDE DEF i
<1>7. Makers'
  <2>1. PICK f \in Injection(1 .. Len(inodes), Threads) :
          \A k \in 1 .. Len(inodes) : Made(f[k])
    BY DEF ListInv, Makers
  <2>2. ASSUME NEW u \in Threads, Made(u)
        PROVE  Made(u)'
    BY <1>1, <1>4, <2>2 DEF Made
  <2>3. \A k \in 1 .. Len(inodes) : f[k] \in Threads
    BY <2>1 DEF Injection
  <2>. QED  BY <1>6, <2>1, <2>2, <2>3 DEF Makers
<1>8. ASSUME NEW u \in Threads
      PROVE  /\ thread'[u].ip \in 0 .. Len(inodes')
             /\ thread'[u].pc = "count_inode" => thread'[u].reg \in 1 .. Counted'
  <2>1. thread'[u].ip \in 0 .. Len(inodes')
    BY <1>4, <1>6 DEF ListInv, i
  <2>2. thread'[u].pc = "count_inode" => thread[u].pc = "count_inode" /\ thread'[u] = thread[u]
    BY <1>4
  <2>3. thread[u].pc = "count_inode" => thread[u].reg \in 1 .. Counted
    BY DEF ListInv
  <2>. QED  BY <1>5, <2>1, <2>2, <2>3
<1>9. ASSUME NEW k \in 1 .. Len(inodes')
      PROVE  inodes'[k].next \in 0 .. k - 1 /\ inodes'[k].refcount \in 1 .. Counted'
  <2>1. inodes[k].next \in 0 .. k - 1 /\ inodes[k].refcount \in 1 .. Counted
    BY <1>6 DEF ListInv
  <2>2. CASE k = i
    BY <1>3, <1>5, <1>6, <2>1, <2>2
  <2>3. CASE k # i
    BY <1>5, <1>6, <2>1, <2>3
  <2>. QED  BY <2>2, <2>3
<1>10. Counted' \in Nat
  BY <1>5 DEF ListInv
<1>. QED  BY <1>1, <1>7, <1>8, <1>9, <1>10 DEF ListInv

LEMMA NewInodeList ==
  ASSUME IsFiniteSet(Threads), ListInv, NEW t \in Threads, NewInode(t), IInv',
         UNCHANGED <<mount, calls>>
  PROVE  ListInv'
<1>. DEFINE n == Len(inodes)
<1>1. lost' = lost /\ Flags' /\ n \in Nat
  BY DEF NewInode, ListInv, Flags, mount, IInv
<1>2. PICK f \in Injection(1 .. n, Threads) : \A k \in 1 .. n : Made(f[k])
  BY DEF ListInv, Makers
<1>3. f \in [1 .. n -> Threads] /\ \A j, k \in 1 .. n : f[j] = f[k] => j = k
  BY <1>2 DEF Injection, IsInjective
<1>4. CASE At(t, "new_inode")
  <2>. DEFINE new == [next |-> ihead, refcount |-> 1, valid |-> FALSE, data |-> "junk"]
              g == [k \in 1 .. n + 1 |-> IF k = n + 1 THEN t ELSE f[k]]
  <2>1. /\ Load(t, "ip", n + 1, "head_inode") /\ inodes' = Append(inodes, new)
        /\ ihead' = ihead /\ thread[t].pc = "new_inode"
    BY <1>4 DEF NewInode, At
  <2>2. new.next = ihead /\ new.refcount = 1 /\ new \in InodeRecord /\ ihead \in 0 .. n
    BY DEF ListInv, IInv, InodeRecord, Data
  <2>. HIDE DEF new
  <2>3. /\ Len(inodes') = n + 1 /\ inodes'[n + 1] = new
        /\ \A k \in 1 .. n : inodes'[k] = inodes[k]
    BY <2>1, <2>2 DEF ListInv, IInv
  <2>4. /\ thread'[t].pc = "head_inode" /\ thread'[t].ip = n + 1
        /\ \A u \in Threads : u # t => thread'[u] = thread[u]
    <3>1. thread \in [Threads -> ThreadRecord] /\ n + 1 \in Nat /\ "head_inode" \in Labels
      BY <1>1 DEF ListInv, IInv, Labels
    <3>. HIDE DEF n
    <3>. QED  BY <2>1, <3>1, LoadType
  <2>5. Counted' = Counted + 1 /\ Counted \in Nat
    BY <2>1, <2>4, CountedMore DEF Early, ListInv, Flags
  <2>. HIDE DEF n
  <2>6. Makers'
    <3>1. \A k \in 1 .. n : f[k] # t /\ f[k] \in Threads
      BY <1>2, <1>3, <2>1 DEF Made
    <3>3. /\ n + 1 \in 1 .. n + 1
          /\ \A k \in 1 .. n : k \in 1 .. n + 1 /\ k # n + 1
          /\ \A k \in 1 .. n + 1 : k = n + 1 \/ k \in 1 .. n
      BY <1>1
    <3>7. PICK h \in [1 .. n + 1 -> Threads] :
            h[n + 1] = t /\ \A k \in 1 .. n : h[k] = f[k]
      <4>1. \A k \in 1 .. n + 1 : g[k] \in Threads
        BY <3>1, <3>3
      <4>2. g \in [1 .. n + 1 -> Threads]
        BY <4>1
      <4>3. g[n + 1] = t /\ \A k \in 1 .. n : g[k] = f[k]
        BY <3>3
      <4>. HIDE DEF g
      <4>. QED  BY <4>2, <4>3
    <3>4. ASSUME NEW j \in 1 .. n + 1, NEW k \in 1 .. n + 1, h[j] = h[k]
          PROVE  j = k
      BY <1>3, <3>1, <3>3, <3>4, <3>7
    <3>5. h \in Injection(1 .. n + 1, Threads)
      BY <3>4, <3>7 DEF Injection, IsInjective
    <3>6. ASSUME NEW k \in 1 .. n + 1
          PROVE  Made(h[k])'
      <4>1. CASE k = n + 1
        BY <2>4, <3>7, <4>1 DEF Made
      <4>2. CASE k \in 1 .. n
        <5>1. h[k] = f[k]
          BY <3>7, <4>2
        <5>2. Made(f[k]) /\ f[k] # t /\ f[k] \in Threads
          BY <1>2, <3>1, <4>2
        <5>. QED  BY <2>1, <2>4, <5>1, <5>2 DEF Made
      <4>. QED  BY <3>3, <4>1, <4>2
    <3>. QED  BY <2>3, <3>5, <3>6 DEF Makers
  <2>7. ASSUME NEW u \in Threads
        PROVE  /\ thread'[u].ip \in 0 .. Len(inodes')
               /\ thread'[u].pc = "count_inode" => thread'[u].reg \in 1 .. Counted'
    <3>1. CASE u = t
      BY <1>1, <2>3, <2>4, <3>1
    <3>2. CASE u # t
      <4>1. thread'[u] = thread[u]
        BY <2>4, <3>2
      <4>2. /\ thread[u].ip \in 0 .. n
            /\ thread[u].pc = "count_inode" => thread[u].reg \in 1 .. Counted
        BY DEF ListInv, n
      <4>. QED  BY <1>1, <2>3, <2>5, <4>1, <4>2
    <3>. QED  BY <3>1, <3>2
  <2>8. ASSUME NEW k \in 1 .. Len(inodes')
        PROVE  inodes'[k].next \in 0 .. k - 1 /\ inodes'[k].refcount \in 1 .. Counted'
    <3>1. CASE k = n + 1
      BY <1>1, <2>2, <2>3, <2>5, <3>1 DEF n
    <3>2. CASE k \in 1 .. n
      <4>1. inodes[k].next \in 0 .. k - 1 /\ inodes[k].refcount \in 1 .. Counted
        BY <3>2 DEF ListInv, n
      <4>. QED  BY <2>3, <2>5, <3>2, <4>1
    <3>. QED  BY <1>1, <2>3, <3>1, <3>2
  <2>9. Counted' \in Nat
    BY <2>5
  <2>. QED  BY <1>1, <2>6, <2>7, <2>8, <2>9 DEF ListInv
<1>5. CASE At(t, "head_inode")
  <2>1. Go(t, "valid_inode") /\ ihead' = thread[t].ip /\ inodes' = inodes
        /\ thread[t].pc = "head_inode"
    BY <1>5 DEF NewInode, At, ip
  <2>2. /\ thread'[t].pc = "valid_inode" /\ thread'[t].ip = thread[t].ip
        /\ \A u \in Threads : u # t => thread'[u] = thread[u]
    BY <2>1, GoType DEF ListInv, IInv, Labels
  <2>3. ihead' # 0
    <3>1. thread[t].pc \in Pointed
      BY <2>1 DEF Pointed, Labels
    <3>2. thread[t].ip \in 1 .. Len(inodes) /\ Len(inodes) \in Nat
      BY <3>1 DEF ListInv, IInv
    <3>. QED  BY <2>1, <3>2
  <2>4. Counted' = Counted
    BY <2>1, <2>2, CountedSame DEF Early
  <2>5. \A k \in 1 .. n : Made(f[k])'
    <3>1. \A k \in 1 .. n : f[k] \in Threads /\ Made(f[k])
      BY <1>2, <1>3
    <3>. QED  BY <2>1, <2>2, <2>3, <3>1 DEF Made
  <2>6. Makers'
    BY <1>2, <2>1, <2>5 DEF Makers
  <2>7. ASSUME NEW u \in Threads
        PROVE  /\ thread'[u].ip \in 0 .. Len(inodes')
               /\ thread'[u].pc = "count_inode" => thread'[u].reg \in 1 .. Counted
    BY <2>1, <2>2 DEF ListInv
  <2>. QED  BY <1>1, <2>1, <2>4, <2>6, <2>7 DEF ListInv
<1>. QED  BY <1>4, <1>5 DEF NewInode

LEMMA EveryStepList ==
  ASSUME IsFiniteSet(Threads), ListInv, [Next]_vars
  PROVE  ListInv'
<1>1. IInv'
  BY EveryStepGood DEF ListInv, Good
<1>2. UNCHANGED inodes /\ UNCHANGED ihead => KeepsList
  BY DEF KeepsList
<1>3. CASE Mount
  <2>1. Flags' /\ UNCHANGED <<thread, ihead, calls, inodes>>
    BY <1>3 DEF Mount, ListInv, Flags, icache
  <2>. QED  BY <1>1, <1>2, <2>1, StillKeeps
<1>4. CASE Unmount
  <2>1. Flags' /\ UNCHANGED <<thread, ihead, calls, inodes>>
    BY <1>4 DEF Unmount, ListInv, Flags, icache, mount
  <2>. QED  BY <1>1, <1>2, <2>1, StillKeeps
<1>5. ASSUME NEW t \in Threads, Getattr(t)
      PROVE  ListInv'
  BY <1>1, <1>5, GetattrList
<1>6. ASSUME NEW t \in Threads, Work(t)
      PROVE  ListInv'
  <2>1. UNCHANGED <<mount, calls>>
    BY <1>6 DEF Work
  <2>2. LateStep(t) \/ FindInode(t) \/ CountInode(t) \/ NewInode(t)
    BY <1>6 DEF Work, LateStep
  <2>. QED  BY <1>1, <2>1, <2>2, LateList, FindInodeList, CountInodeList, NewInodeList
<1>7. CASE UNCHANGED vars
  <2>1. Flags' /\ UNCHANGED <<thread, ihead, calls, inodes>>
    BY <1>7 DEF vars, ListInv, Flags, icache, mount
  <2>. QED  BY <1>1, <1>2, <2>1, StillKeeps
<1>. QED  BY <1>3, <1>4, <1>5, <1>6, <1>7 DEF Next

(* However many threads interleave in fs_inode_get, without a lock: there  *)
(* is at most one inode per thread, each leads to an older one, and no     *)
(* count is below 1 or above the calls.                                    *)
THEOREM TypeCorrect ==
  ASSUME IsFiniteSet(Threads)
  PROVE  Spec => []TypeOK
<1>1. Init => ListInv
  <2>. SUFFICES ASSUME Init PROVE ListInv
    OBVIOUS
  <2>1. IInv
    BY InitGood
  <2>2. Flags
    <3>1. 0 \in 0 .. MaxCalls
      BY MaxCallsAssumption
    <3>. QED  BY <3>1 DEF Init, Flags
  <2>3. Len(inodes) = 0 /\ 1 .. Len(inodes) = {}
    BY DEF Init
  <2>4. Makers
    <3>. DEFINE f == [k \in 1 .. Len(inodes) |-> k]
    <3>1. f \in Injection(1 .. Len(inodes), Threads)
      BY <2>3 DEF Injection, IsInjective
    <3>. QED  BY <2>3, <3>1 DEF Makers
  <2>5. \A t \in Threads : thread[t].pc = "idle" /\ thread[t].ip = 0
    BY DEF Init
  <2>6. Counted = 0
    <3>1. Counting = {} /\ calls = 0
      BY <2>5 DEF Counting, Early, Init
    <3>. QED  BY <3>1, FS_EmptySet DEF Counted
  <2>. QED  BY <2>1, <2>2, <2>3, <2>4, <2>5, <2>6 DEF ListInv
<1>2. ListInv /\ [Next]_vars => ListInv'
  BY EveryStepList
<1>3. ListInv => TypeOK
  <2>. SUFFICES ASSUME ListInv PROVE TypeOK
    OBVIOUS
  <2>1. Len(inodes) <= Cardinality(Threads)
    <3>1. PICK f \in Injection(1 .. Len(inodes), Threads) : TRUE
      BY DEF ListInv, Makers
    <3>2. Cardinality(1 .. Len(inodes)) <= Cardinality(Threads)
      BY <3>1, FS_Injection
    <3>3. Len(inodes) \in Nat
      BY DEF ListInv, IInv
    <3>4. Cardinality(1 .. Len(inodes)) = Len(inodes)
      <4>. DEFINE n == Len(inodes)
      <4>1. n \in Int /\ 1 \in Int /\ n >= 0
        BY <3>3
      <4>. HIDE DEF n
      <4>2. Cardinality(1 .. n) = n
        BY <4>1, FS_Interval
      <4>. QED  BY <4>2 DEF n
    <3>. QED  BY <3>2, <3>4
  <2>2. \A t \in Threads :
          /\ thread[t].pc \in Labels /\ thread[t].answer \in Data \union {"none"}
          /\ ip(t) \in 0 .. Len(inodes) /\ {bp(t), tmp(t)} \subseteq Buffer \union {NULL}
    <3>. SUFFICES ASSUME NEW t \in Threads
                  PROVE  /\ thread[t].pc \in Labels /\ thread[t].answer \in Data \union {"none"}
                         /\ ip(t) \in 0 .. Len(inodes)
                         /\ {bp(t), tmp(t)} \subseteq Buffer \union {NULL}
      OBVIOUS
    <3>1. thread[t] \in ThreadRecord /\ thread[t].ip \in 0 .. Len(inodes)
      BY DEF ListInv, IInv
    <3>. QED  BY <3>1 DEF ThreadRecord, ip, bp, tmp
  <2>3. Counted <= calls /\ Counted \in Nat /\ calls \in Nat
    BY CountingFinite DEF Counted, ListInv, Flags
  <2>4. ASSUME NEW i \in DOMAIN inodes
        PROVE  /\ inodes[i].next \in 0 .. i - 1 /\ inodes[i].refcount \in 1 .. calls
               /\ inodes[i].valid \in BOOLEAN /\ inodes[i].data \in Data
    <3>1. i \in 1 .. Len(inodes) /\ inodes[i] \in InodeRecord
      BY DEF ListInv, IInv
    <3>2. inodes[i].next \in 0 .. i - 1 /\ inodes[i].refcount \in 1 .. Counted
      BY <3>1 DEF ListInv
    <3>3. inodes[i].valid \in BOOLEAN /\ inodes[i].data \in Data
      BY <3>1 DEF InodeRecord
    <3>. QED  BY <2>3, <3>2, <3>3
  <2>5. /\ live \subseteq Buffer /\ bhead \in Buffer \union {NULL} /\ ihead \in 0 .. Len(inodes)
        /\ buf \in [Buffer -> [refcount : Int, valid : BOOLEAN, next : Buffer \union {NULL},
                               data : Data]]
    BY DEF ListInv, IInv, BufferRecord
  <2>6. Flags
    BY DEF ListInv
  <2>. QED  BY <2>1, <2>2, <2>4, <2>5, <2>6 DEF TypeOK, Flags
<1>. QED  BY <1>1, <1>2, <1>3, PTL DEF Spec

-----------------------------------------------------------------------------
(* One thread, the option -s of libfuse: where it is says what the two     *)
(* lists are.  While it is Filling it holds the only buffer, to load the   *)
(* inode from, while Releasing it gives it back.                           *)
Before == {"idle", "find_inode", "ref_inode", "count_inode", "new_inode", "head_inode",
           "valid_inode", "find_buffer", "new_buffer"}
Filling == {"head_buffer", "valid_buffer", "seek", "read", "set_buffer", "copy"}
Releasing == {"unref_buffer", "uncount_buffer", "test_buffer", "is_head", "pop", "free"}
After == {"set_inode", "answer"}

(* The inode list, of head h and inodes ns: empty, or with the root alone. *)
None(h, ns) == h = 0 /\ ns = <<>>
One(h, k, ns) == h = k /\ Len(ns) = 1
Ready(h, ns) == One(h, 1, ns) /\ ns[1].valid /\ ns[1].data = "root"
Empty(h, ns) == One(h, 1, ns) /\ ~ns[1].valid

(* The inode list when the thread is at pc, with inode i.                  *)
InodeAt(pc, i, h, ns) ==
  /\ pc \in {"idle", "find_inode"} => None(h, ns) \/ Ready(h, ns)
  /\ pc = "new_inode" => None(h, ns)
  /\ pc = "head_inode" => One(h, 0, ns) /\ ~ns[1].valid /\ i = 1
  /\ pc \in {"ref_inode", "count_inode", "answer"} => Ready(h, ns) /\ i = 1
  /\ pc = "valid_inode" => (Empty(h, ns) \/ Ready(h, ns)) /\ i = 1
  /\ pc \in Filling \union {"find_buffer", "new_buffer"} => Empty(h, ns) /\ i = 1
  /\ pc \in Releasing \union {"set_inode"} => One(h, 1, ns) /\ ns[1].data = "root" /\ i = 1

(* The buffer list, of head h, when the thread is at pc, with buffer b and *)
(* register r: lv are the live buffers, bf their memory, p the offset.     *)
BufferAt(pc, b, r, h, lv, bf, p) ==
  /\ pc \in Before \union After => h = NULL /\ lv = {}
  /\ pc \in Filling \union Releasing =>
       /\ b \in Buffer /\ lv = {b} /\ bf[b].next = NULL
       /\ h = IF pc \in {"head_buffer", "free"} THEN NULL ELSE b
  /\ pc \in Filling \union {"unref_buffer"} => bf[b].refcount = 1
  /\ pc = "uncount_buffer" => r = 1
  /\ pc = "test_buffer" => bf[b].refcount = 0
  /\ pc \in {"head_buffer", "valid_buffer"} => ~bf[b].valid
  /\ pc = "read" => p = RootBlock
  /\ pc \in {"set_buffer", "copy"} => bf[b].data = "root"

Only(t) ==
  /\ ~lost
  /\ thread[t].pc \in Before \union Filling \union Releasing \union After
  /\ thread[t].answer \in {"none", "root"}
  /\ \A u \in Threads : u # t => thread[u].pc = "idle" /\ thread[u].answer = "none"
  /\ InodeAt(thread[t].pc, thread[t].ip, ihead, inodes)
  /\ BufferAt(thread[t].pc, thread[t].bp, thread[t].reg, bhead, live, buf, pos)

(* Before the file system is mounted, nothing was read.                    *)
Fresh ==
  /\ pool = {} /\ ihead = 0 /\ inodes = <<>> /\ bhead = NULL /\ live = {} /\ ~lost
  /\ \A t \in Threads : thread[t].pc = "idle" /\ thread[t].answer = "none"

Solo ==
  /\ IInv /\ pool \subseteq Threads
  /\ up = "no" => Fresh
  /\ \A t \in Threads : pool = {t} => Only(t)

(* Thread t goes to a label, and ends with these pointers and this answer. *)
Moved(t, label, i, b, r, a) ==
  /\ thread'[t].pc = label /\ thread'[t].ip = i /\ thread'[t].bp = b
  /\ thread'[t].reg = r /\ thread'[t].answer = a
  /\ \A u \in Threads : u # t => thread'[u] = thread[u]

LEMMA GoMoves ==
  ASSUME thread \in [Threads -> ThreadRecord], NEW t \in Threads, NEW label, Go(t, label)
  PROVE  Moved(t, label, thread[t].ip, thread[t].bp, thread[t].reg, thread[t].answer)
<1>1. thread[t] \in ThreadRecord
  OBVIOUS
<1>2. thread' = [thread EXCEPT ![t] = [thread[t] EXCEPT !.pc = label]]
  BY DEF Go
<1>3. thread'[t] = [thread[t] EXCEPT !.pc = label]
  BY <1>2
<1>. QED  BY <1>1, <1>2, <1>3 DEF ThreadRecord, Moved

LEMMA LoadMoves ==
  ASSUME thread \in [Threads -> ThreadRecord], NEW t \in Threads, NEW label,
         NEW field \in {"ip", "bp", "tmp", "reg", "answer"}, NEW x, Load(t, field, x, label)
  PROVE  Moved(t, label,
               IF field = "ip" THEN x ELSE thread[t].ip,
               IF field = "bp" THEN x ELSE thread[t].bp,
               IF field = "reg" THEN x ELSE thread[t].reg,
               IF field = "answer" THEN x ELSE thread[t].answer)
<1>1. thread[t] \in ThreadRecord
  OBVIOUS
<1>2. thread' = [thread EXCEPT ![t] = [thread[t] EXCEPT ![field] = x, !.pc = label]]
  BY DEF Load
<1>3. thread'[t] = [thread[t] EXCEPT ![field] = x, !.pc = label]
  BY <1>2
<1>. QED  BY <1>1, <1>2, <1>3 DEF ThreadRecord, Moved

(* A step of the only thread that leaves the lists as its new label says.  *)
LEMMA OnlyMoved ==
  ASSUME NEW t \in Threads, Only(t), ~lost', NEW label, NEW i, NEW b, NEW r, NEW a,
         Moved(t, label, i, b, r, a),
         label \in Before \union Filling \union Releasing \union After,
         a \in {"none", "root"},
         InodeAt(label, i, ihead', inodes'),
         BufferAt(label, b, r, bhead', live', buf', pos')
  PROVE  Only(t)'
BY DEF Only, Moved

(* Buffer a has this content after a step.                                 *)
Stored(a, count, valid, next, data) ==
  /\ buf'[a].refcount = count /\ buf'[a].valid = valid
  /\ buf'[a].next = next /\ buf'[a].data = data

LEMMA SetBufStores ==
  ASSUME buf \in [Buffer -> BufferRecord], NEW a \in Buffer,
         NEW field \in {"refcount", "valid", "data"}, NEW x, SetBuf(a, field, x)
  PROVE  Stored(a, IF field = "refcount" THEN x ELSE buf[a].refcount,
                   IF field = "valid" THEN x ELSE buf[a].valid, buf[a].next,
                   IF field = "data" THEN x ELSE buf[a].data)
<1>1. buf[a] \in BufferRecord
  OBVIOUS
<1>2. buf' = [buf EXCEPT ![a] = [buf[a] EXCEPT ![field] = x]]
  BY DEF SetBuf
<1>3. buf'[a] = [buf[a] EXCEPT ![field] = x]
  BY <1>2
<1>. QED  BY <1>1, <1>3 DEF BufferRecord, Stored

LEMMA SetTheInode ==
  ASSUME inodes \in Seq(InodeRecord), Len(inodes) = 1,
         NEW field \in {"refcount", "valid", "data"}, NEW x, SetInode(1, field, x)
  PROVE  /\ Len(inodes') = 1
         /\ inodes'[1].valid = IF field = "valid" THEN x ELSE inodes[1].valid
         /\ inodes'[1].data = IF field = "data" THEN x ELSE inodes[1].data
<1>1. 1 \in 1 .. Len(inodes) /\ inodes[1] \in InodeRecord
  OBVIOUS
<1>2. inodes' = [inodes EXCEPT ![1] = [inodes[1] EXCEPT ![field] = x]]
  BY DEF SetInode
<1>3. Len(inodes') = 1
  BY <1>2
<1>4. inodes'[1] = [inodes[1] EXCEPT ![field] = x]
  BY <1>1, <1>2
<1>. QED  BY <1>1, <1>3, <1>4 DEF InodeRecord

-----------------------------------------------------------------------------
LEMMA FindInodeAlone ==
  ASSUME IInv, NEW t \in Threads, Only(t), FindInode(t)
  PROVE  Only(t)'
<1>1. /\ UNCHANGED <<ihead, inodes, bhead, live, buf, pos, lost>>
      /\ thread \in [Threads -> ThreadRecord] /\ ~lost /\ thread[t].answer \in {"none", "root"}
  BY DEF FindInode, icache, bcache, IInv, Only
<1>2. CASE At(t, "find_inode")
  <2>. DEFINE label == IF ihead = 0 THEN "new_inode" ELSE "ref_inode"
  <2>1. Moved(t, label, ihead, thread[t].bp, thread[t].reg, thread[t].answer)
    <3>1. Load(t, "ip", ihead, label)
      BY <1>2 DEF FindInode, At
    <3>. HIDE DEF label
    <3>. QED  BY <1>1, <3>1, LoadMoves
  <2>2. None(ihead, inodes) \/ Ready(ihead, inodes)
    BY <1>2 DEF At, Only, InodeAt
  <2>3. InodeAt(label, ihead, ihead, inodes)
    BY <2>2 DEF InodeAt, None, Ready, One, Filling, Releasing
  <2>4. bhead = NULL /\ live = {}
    BY <1>2 DEF At, Only, BufferAt, Before
  <2>5. BufferAt(label, thread[t].bp, thread[t].reg, bhead, live, buf, pos)
    BY <2>4 DEF BufferAt, Filling, Releasing
  <2>6. label \in Before
    BY DEF Before
  <2>. HIDE DEF label
  <2>. QED  BY <1>1, <2>1, <2>3, <2>5, <2>6, OnlyMoved
<1>3. CASE At(t, "ref_inode")
  <2>1. \E r : Moved(t, "count_inode", thread[t].ip, thread[t].bp, r, thread[t].answer)
    <3>. DEFINE r == inodes[ip(t)].refcount
    <3>1. Load(t, "reg", r, "count_inode")
      BY <1>3 DEF FindInode, At
    <3>. HIDE DEF r
    <3>. QED  BY <1>1, <3>1, LoadMoves
  <2>2. PICK r : Moved(t, "count_inode", thread[t].ip, thread[t].bp, r, thread[t].answer)
    BY <2>1
  <2>3. Ready(ihead, inodes) /\ thread[t].ip = 1
    BY <1>3 DEF At, Only, InodeAt
  <2>4. InodeAt("count_inode", thread[t].ip, ihead, inodes)
    BY <2>3 DEF InodeAt, Filling, Releasing
  <2>5. bhead = NULL /\ live = {}
    BY <1>3 DEF At, Only, BufferAt, Before
  <2>6. BufferAt("count_inode", thread[t].bp, r, bhead, live, buf, pos)
    BY <2>5 DEF BufferAt, Filling, Releasing
  <2>7. "count_inode" \in Before
    BY DEF Before
  <2>. QED  BY <1>1, <2>2, <2>4, <2>6, <2>7, OnlyMoved
<1>. QED  BY <1>2, <1>3 DEF FindInode

LEMMA CountInodeAlone ==
  ASSUME IInv, NEW t \in Threads, Only(t), CountInode(t)
  PROVE  Only(t)'
<1>1. /\ UNCHANGED <<ihead, bhead, live, buf, pos, lost>> /\ thread[t].pc = "count_inode"
      /\ thread \in [Threads -> ThreadRecord] /\ ~lost /\ thread[t].answer \in {"none", "root"}
  BY DEF CountInode, At, bcache, IInv, Only
<1>2. Moved(t, "valid_inode", thread[t].ip, thread[t].bp, thread[t].reg, thread[t].answer)
  BY <1>1, GoMoves DEF CountInode
<1>3. Ready(ihead, inodes) /\ thread[t].ip = 1
  BY <1>1 DEF Only, InodeAt
<1>4. Ready(ihead', inodes')
  <2>1. \E x : SetInode(1, "refcount", x)
    BY <1>3 DEF CountInode, ip
  <2>2. PICK x : SetInode(1, "refcount", x)
    BY <2>1
  <2>. QED  BY <1>1, <1>3, <2>2, SetTheInode DEF Ready, One, IInv
<1>5. InodeAt("valid_inode", thread[t].ip, ihead', inodes')
  BY <1>3, <1>4 DEF InodeAt, Filling, Releasing
<1>6. bhead = NULL /\ live = {}
  BY <1>1 DEF Only, BufferAt, Before
<1>7. BufferAt("valid_inode", thread[t].bp, thread[t].reg, bhead', live', buf', pos')
  BY <1>1, <1>6 DEF BufferAt, Filling, Releasing
<1>8. "valid_inode" \in Before
  BY DEF Before
<1>. QED  BY <1>1, <1>2, <1>5, <1>7, <1>8, OnlyMoved

LEMMA NewInodeAlone ==
  ASSUME IInv, NEW t \in Threads, Only(t), NewInode(t)
  PROVE  Only(t)'
<1>1. /\ UNCHANGED <<bhead, live, buf, pos, lost>>
      /\ thread \in [Threads -> ThreadRecord] /\ ~lost /\ thread[t].answer \in {"none", "root"}
  BY DEF NewInode, bcache, IInv, Only
<1>2. CASE At(t, "new_inode")
  <2>1. ihead = 0 /\ inodes = <<>>
    BY <1>2 DEF At, Only, InodeAt, None
  <2>2. Moved(t, "head_inode", 1, thread[t].bp, thread[t].reg, thread[t].answer)
    <3>1. Load(t, "ip", 1, "head_inode")
      BY <1>2, <2>1 DEF NewInode, At
    <3>. QED  BY <1>1, <3>1, LoadMoves
  <2>3. ihead' = 0 /\ Len(inodes') = 1 /\ inodes'[1].valid = FALSE
    BY <1>2, <2>1 DEF NewInode, At
  <2>4. InodeAt("head_inode", 1, ihead', inodes')
    BY <2>3 DEF InodeAt, One, Filling, Releasing
  <2>5. bhead = NULL /\ live = {}
    BY <1>2 DEF At, Only, BufferAt, Before
  <2>6. BufferAt("head_inode", thread[t].bp, thread[t].reg, bhead', live', buf', pos')
    BY <1>1, <2>5 DEF BufferAt, Filling, Releasing
  <2>7. "head_inode" \in Before
    BY DEF Before
  <2>. QED  BY <1>1, <2>2, <2>4, <2>6, <2>7, OnlyMoved
<1>3. CASE At(t, "head_inode")
  <2>1. Moved(t, "valid_inode", thread[t].ip, thread[t].bp, thread[t].reg, thread[t].answer)
    BY <1>1, <1>3, GoMoves DEF NewInode, At
  <2>2. Len(inodes) = 1 /\ ~inodes[1].valid /\ thread[t].ip = 1
    BY <1>3 DEF At, Only, InodeAt, One
  <2>3. ihead' = 1 /\ inodes' = inodes
    BY <1>3, <2>2 DEF NewInode, At, ip
  <2>4. InodeAt("valid_inode", thread[t].ip, ihead', inodes')
    BY <2>2, <2>3 DEF InodeAt, Empty, One, Filling, Releasing
  <2>5. bhead = NULL /\ live = {}
    BY <1>3 DEF At, Only, BufferAt, Before
  <2>6. BufferAt("valid_inode", thread[t].bp, thread[t].reg, bhead', live', buf', pos')
    BY <1>1, <2>5 DEF BufferAt, Filling, Releasing
  <2>7. "valid_inode" \in Before
    BY DEF Before
  <2>. QED  BY <1>1, <2>1, <2>4, <2>6, <2>7, OnlyMoved
<1>. QED  BY <1>2, <1>3 DEF NewInode

LEMMA FindBufferAlone ==
  ASSUME IInv, NEW t \in Threads, Only(t), FindBuffer(t)
  PROVE  Only(t)'
<1>1. /\ UNCHANGED <<ihead, inodes, bhead, live, buf, pos>>
      /\ thread \in [Threads -> ThreadRecord] /\ ~lost /\ thread[t].answer \in {"none", "root"}
  BY DEF FindBuffer, icache, bcache, IInv, Only
<1>2. bhead = NULL /\ live = {} /\ thread[t].pc # "ref_buffer"
  BY DEF FindBuffer, At, Only, BufferAt, Before, Filling, Releasing, After
<1>3. CASE At(t, "valid_inode")
  <2>. DEFINE label == IF inodes[thread[t].ip].valid THEN "answer" ELSE "find_buffer"
  <2>1. Go(t, label) /\ ~lost'
    BY <1>1, <1>3 DEF FindBuffer, At, ip
  <2>2. Moved(t, label, thread[t].ip, thread[t].bp, thread[t].reg, thread[t].answer)
    <3>. HIDE DEF label
    <3>. QED  BY <1>1, <2>1, GoMoves
  <2>3. (Empty(ihead, inodes) \/ Ready(ihead, inodes)) /\ thread[t].ip = 1
    BY <1>3 DEF At, Only, InodeAt
  <2>4. InodeAt(label, thread[t].ip, ihead, inodes)
    BY <2>3 DEF InodeAt, Empty, Ready, Filling, Releasing
  <2>5. BufferAt(label, thread[t].bp, thread[t].reg, bhead, live, buf, pos)
    BY <1>2 DEF BufferAt, Filling, Releasing
  <2>6. label \in Before \union After
    BY DEF Before, After
  <2>. HIDE DEF label
  <2>. QED  BY <1>1, <2>1, <2>2, <2>4, <2>5, <2>6, OnlyMoved
<1>4. CASE At(t, "find_buffer")
  <2>1. Load(t, "bp", bhead, "new_buffer") /\ ~lost'
    BY <1>1, <1>2, <1>4 DEF FindBuffer, At
  <2>2. Moved(t, "new_buffer", thread[t].ip, bhead, thread[t].reg, thread[t].answer)
    BY <1>1, <2>1, LoadMoves
  <2>3. Empty(ihead, inodes) /\ thread[t].ip = 1
    BY <1>4 DEF At, Only, InodeAt
  <2>4. InodeAt("new_buffer", thread[t].ip, ihead, inodes)
    BY <2>3 DEF InodeAt, Filling, Releasing
  <2>5. BufferAt("new_buffer", bhead, thread[t].reg, bhead, live, buf, pos)
    BY <1>2 DEF BufferAt, Filling, Releasing
  <2>6. "new_buffer" \in Before
    BY DEF Before
  <2>. QED  BY <1>1, <2>1, <2>2, <2>4, <2>5, <2>6, OnlyMoved
<1>. QED  BY <1>2, <1>3, <1>4 DEF FindBuffer, At

LEMMA NewBufferAlone ==
  ASSUME IInv, NEW t \in Threads, Only(t), NewBuffer(t)
  PROVE  Only(t)'
<1>1. /\ UNCHANGED <<ihead, inodes, pos, lost>>
      /\ thread \in [Threads -> ThreadRecord] /\ ~lost /\ thread[t].answer \in {"none", "root"}
  BY DEF NewBuffer, icache, IInv, Only
<1>2. Empty(ihead, inodes) /\ thread[t].ip = 1
  BY DEF NewBuffer, At, Only, InodeAt, Filling
<1>3. CASE At(t, "new_buffer")
  <2>1. bhead = NULL /\ live = {}
    BY <1>3 DEF At, Only, BufferAt, Before
  <2>2. PICK a \in Buffer \ live :
          /\ live' = live \union {a}
          /\ buf' = [buf EXCEPT ![a] = [refcount |-> 1, valid |-> FALSE, next |-> bhead, data |-> @.data]]
          /\ Load(t, "bp", a, "head_buffer")
    BY <1>3 DEF NewBuffer, At
  <2>3. bhead' = NULL /\ live' = {a} /\ a \in Buffer
    BY <1>3, <2>1, <2>2 DEF NewBuffer, At
  <2>4. Moved(t, "head_buffer", thread[t].ip, a, thread[t].reg, thread[t].answer)
    BY <1>1, <2>2, LoadMoves
  <2>5. buf'[a].refcount = 1 /\ ~buf'[a].valid /\ buf'[a].next = NULL
    <3>1. buf'[a] = [refcount |-> 1, valid |-> FALSE, next |-> bhead, data |-> buf[a].data]
      BY <2>2 DEF IInv
    <3>. QED  BY <2>1, <3>1
  <2>6. InodeAt("head_buffer", thread[t].ip, ihead', inodes')
    BY <1>1, <1>2 DEF InodeAt, Releasing
  <2>7. BufferAt("head_buffer", a, thread[t].reg, bhead', live', buf', pos')
    BY <2>3, <2>5 DEF BufferAt, Before, After
  <2>8. "head_buffer" \in Filling
    BY DEF Filling
  <2>. QED  BY <1>1, <2>4, <2>6, <2>7, <2>8, OnlyMoved
<1>4. CASE At(t, "head_buffer")
  <2>1. Go(t, "valid_buffer") /\ bhead' = thread[t].bp /\ UNCHANGED <<buf, live>>
    BY <1>4 DEF NewBuffer, At, bp
  <2>2. Moved(t, "valid_buffer", thread[t].ip, thread[t].bp, thread[t].reg, thread[t].answer)
    BY <1>1, <2>1, GoMoves
  <2>3. InodeAt("valid_buffer", thread[t].ip, ihead', inodes')
    BY <1>1, <1>2 DEF InodeAt, Releasing
  <2>4. BufferAt("head_buffer", thread[t].bp, thread[t].reg, bhead, live, buf, pos)
    BY <1>4 DEF At, Only
  <2>5. BufferAt("valid_buffer", thread[t].bp, thread[t].reg, bhead', live', buf', pos')
    BY <2>1, <2>4 DEF BufferAt, Before, After, Filling
  <2>6. "valid_buffer" \in Filling
    BY DEF Filling
  <2>. QED  BY <1>1, <2>2, <2>3, <2>5, <2>6, OnlyMoved
<1>. QED  BY <1>3, <1>4 DEF NewBuffer

LEMMA SeekAlone ==
  ASSUME IInv, NEW t \in Threads, Only(t), Seek(t)
  PROVE  Only(t)'
<1>1. /\ UNCHANGED <<ihead, inodes, bhead, buf, live, lost>> /\ thread[t].pc = "seek"
      /\ Go(t, "read") /\ pos' = RootBlock
      /\ thread \in [Threads -> ThreadRecord] /\ ~lost /\ thread[t].answer \in {"none", "root"}
  BY DEF Seek, At, icache, bcache, IInv, Only
<1>2. Moved(t, "read", thread[t].ip, thread[t].bp, thread[t].reg, thread[t].answer)
  BY <1>1, GoMoves
<1>3. InodeAt("seek", thread[t].ip, ihead, inodes)
      /\ BufferAt("seek", thread[t].bp, thread[t].reg, bhead, live, buf, pos)
  BY <1>1 DEF Only
<1>4. InodeAt("read", thread[t].ip, ihead', inodes')
  BY <1>1, <1>3 DEF InodeAt, Filling, Releasing
<1>5. BufferAt("read", thread[t].bp, thread[t].reg, bhead', live', buf', pos')
  BY <1>1, <1>3 DEF BufferAt, Before, After, Filling
<1>6. "read" \in Filling
  BY DEF Filling
<1>. QED  BY <1>1, <1>2, <1>4, <1>5, <1>6, OnlyMoved

(* The buffer that the thread holds is its own, so no access to it fails.  *)
LEMMA Holding ==
  ASSUME NEW t \in Threads, Only(t), thread[t].pc \in Filling \union Releasing
  PROVE  bp(t) \in live /\ bp(t) \in Buffer /\ ~lost
BY DEF Only, BufferAt, bp

LEMMA ReadBlockAlone ==
  ASSUME IInv, NEW t \in Threads, Only(t), ReadBlock(t)
  PROVE  Only(t)'
<1>. DEFINE b == thread[t].bp
<1>1. /\ UNCHANGED <<ihead, bhead, live>>
      /\ thread \in [Threads -> ThreadRecord] /\ thread[t].answer \in {"none", "root"}
  BY DEF ReadBlock, IInv, Only
<1>2. b \in live /\ b \in Buffer /\ ~lost /\ b = bp(t)
  BY Holding DEF ReadBlock, At, Filling, bp
<1>3. /\ InodeAt(thread[t].pc, thread[t].ip, ihead, inodes)
      /\ BufferAt(thread[t].pc, b, thread[t].reg, bhead, live, buf, pos)
  BY DEF Only
<1>4. Empty(ihead, inodes) /\ thread[t].ip = 1
  BY <1>3 DEF ReadBlock, At, InodeAt, Filling
<1>5. CASE At(t, "valid_buffer")
  <2>1. ~buf[b].valid
    BY <1>3, <1>5 DEF At, BufferAt
  <2>2. Go(t, "seek") /\ UNCHANGED <<buf, pos, inodes, lost>>
    BY <1>2, <1>5, <2>1 DEF ReadBlock, At, Access, Accesses
  <2>3. Moved(t, "seek", thread[t].ip, b, thread[t].reg, thread[t].answer)
    BY <1>1, <2>2, GoMoves
  <2>4. InodeAt("seek", thread[t].ip, ihead', inodes')
    BY <1>1, <1>4, <2>2 DEF InodeAt, Releasing
  <2>5. BufferAt("seek", b, thread[t].reg, bhead', live', buf', pos')
    BY <1>1, <1>3, <1>5, <2>2 DEF At, BufferAt, Before, After, Filling
  <2>6. "seek" \in Filling
    BY DEF Filling
  <2>. QED  BY <1>1, <1>2, <2>2, <2>3, <2>4, <2>5, <2>6, OnlyMoved
<1>6. CASE At(t, "read")
  <2>1. pos = RootBlock
    BY <1>3, <1>6 DEF At, BufferAt
  <2>2. SetBuf(b, "data", "root") /\ Go(t, "set_buffer") /\ UNCHANGED <<inodes, lost>>
    BY <1>2, <1>6, <2>1 DEF ReadBlock, At, Access, Accesses
  <2>3. Moved(t, "set_buffer", thread[t].ip, b, thread[t].reg, thread[t].answer)
    BY <1>1, <2>2, GoMoves
  <2>4. Stored(b, buf[b].refcount, buf[b].valid, buf[b].next, "root")
    <3>. HIDE DEF b
    <3>. QED  BY <1>2, <2>2, SetBufStores DEF IInv
  <2>5. InodeAt("set_buffer", thread[t].ip, ihead', inodes')
    BY <1>1, <1>4, <2>2 DEF InodeAt, Releasing
  <2>6. BufferAt("set_buffer", b, thread[t].reg, bhead', live', buf', pos')
    BY <1>1, <1>3, <1>6, <2>4 DEF At, BufferAt, Stored, Before, After, Filling
  <2>7. "set_buffer" \in Filling
    BY DEF Filling
  <2>. QED  BY <1>1, <1>2, <2>2, <2>3, <2>5, <2>6, <2>7, OnlyMoved
<1>7. CASE At(t, "set_buffer")
  <2>1. SetBuf(b, "valid", TRUE) /\ Go(t, "copy") /\ UNCHANGED <<pos, inodes, lost>>
    BY <1>2, <1>7 DEF ReadBlock, At, Access, Accesses
  <2>2. Moved(t, "copy", thread[t].ip, b, thread[t].reg, thread[t].answer)
    BY <1>1, <2>1, GoMoves
  <2>3. Stored(b, buf[b].refcount, TRUE, buf[b].next, buf[b].data)
    <3>. HIDE DEF b
    <3>. QED  BY <1>2, <2>1, SetBufStores DEF IInv
  <2>4. InodeAt("copy", thread[t].ip, ihead', inodes')
    BY <1>1, <1>4, <2>1 DEF InodeAt, Releasing
  <2>5. BufferAt("copy", b, thread[t].reg, bhead', live', buf', pos')
    BY <1>1, <1>3, <1>7, <2>3 DEF At, BufferAt, Stored, Before, After, Filling
  <2>6. "copy" \in Filling
    BY DEF Filling
  <2>. QED  BY <1>1, <1>2, <2>1, <2>2, <2>4, <2>5, <2>6, OnlyMoved
<1>8. CASE At(t, "copy")
  <2>1. buf[b].data = "root"
    BY <1>3, <1>8 DEF At, BufferAt
  <2>2. SetInode(1, "data", "root") /\ Go(t, "unref_buffer") /\ UNCHANGED <<buf, pos, lost>>
    BY <1>2, <1>4, <1>8, <2>1 DEF ReadBlock, At, Access, Accesses, ip
  <2>3. Moved(t, "unref_buffer", thread[t].ip, b, thread[t].reg, thread[t].answer)
    BY <1>1, <2>2, GoMoves
  <2>4. Len(inodes') = 1 /\ inodes'[1].data = "root"
    BY <1>4, <2>2, SetTheInode DEF IInv, Empty, One
  <2>5. InodeAt("unref_buffer", thread[t].ip, ihead', inodes')
    BY <1>1, <1>4, <2>4 DEF InodeAt, Empty, One, Filling
  <2>6. BufferAt("unref_buffer", b, thread[t].reg, bhead', live', buf', pos')
    BY <1>1, <1>3, <1>8, <2>2 DEF At, BufferAt, Before, After, Filling, Releasing
  <2>7. "unref_buffer" \in Releasing
    BY DEF Releasing
  <2>. QED  BY <1>1, <1>2, <2>2, <2>3, <2>5, <2>6, <2>7, OnlyMoved
<1>. QED  BY <1>5, <1>6, <1>7, <1>8 DEF ReadBlock

(* The inode list while the buffer is given back.                          *)
LEMMA ReleasingInode ==
  ASSUME NEW t \in Threads, Only(t), thread[t].pc \in Releasing,
         UNCHANGED <<ihead, inodes>>, NEW label \in Releasing \union {"set_inode"}
  PROVE  InodeAt(label, thread[t].ip, ihead', inodes')
<1>1. One(ihead, 1, inodes) /\ inodes[1].data = "root" /\ thread[t].ip = 1
  BY DEF Only, InodeAt
<1>. QED  BY <1>1 DEF InodeAt, Filling, Releasing

LEMMA UnrefBufferAlone ==
  ASSUME IInv, NEW t \in Threads, Only(t), UnrefBuffer(t)
  PROVE  Only(t)'
<1>. DEFINE b == thread[t].bp
<1>1. /\ UNCHANGED <<ihead, inodes, bhead, live, pos>>
      /\ thread \in [Threads -> ThreadRecord] /\ thread[t].answer \in {"none", "root"}
      /\ thread[t].pc \in Releasing
  BY DEF UnrefBuffer, At, icache, IInv, Only, Releasing
<1>2. b \in live /\ b \in Buffer /\ ~lost /\ b = bp(t)
  BY <1>1, Holding DEF bp
<1>3. BufferAt(thread[t].pc, b, thread[t].reg, bhead, live, buf, pos)
  BY DEF Only
<1>4. CASE At(t, "unref_buffer")
  <2>1. buf[b].refcount = 1
    BY <1>3, <1>4 DEF At, BufferAt
  <2>2. Load(t, "reg", 1, "uncount_buffer") /\ UNCHANGED <<buf, lost>>
    BY <1>2, <1>4, <2>1 DEF UnrefBuffer, At, Access, Accesses
  <2>3. Moved(t, "uncount_buffer", thread[t].ip, b, 1, thread[t].answer)
    BY <1>1, <2>2, LoadMoves
  <2>4. BufferAt("uncount_buffer", b, 1, bhead', live', buf', pos')
    BY <1>1, <1>3, <1>4, <2>2 DEF At, BufferAt, Before, After, Filling, Releasing
  <2>5. "uncount_buffer" \in Releasing
    BY DEF Releasing
  <2>6. InodeAt("uncount_buffer", thread[t].ip, ihead', inodes')
    BY <1>1, <2>5, ReleasingInode
  <2>. QED  BY <1>1, <1>2, <2>2, <2>3, <2>4, <2>5, <2>6, OnlyMoved
<1>5. CASE At(t, "uncount_buffer")
  <2>1. thread[t].reg = 1
    BY <1>3, <1>5 DEF At, BufferAt
  <2>2. SetBuf(b, "refcount", 0) /\ Go(t, "test_buffer") /\ UNCHANGED lost
    BY <1>2, <1>5, <2>1 DEF UnrefBuffer, At, Access, Accesses, reg
  <2>3. Moved(t, "test_buffer", thread[t].ip, b, thread[t].reg, thread[t].answer)
    BY <1>1, <2>2, GoMoves
  <2>4. Stored(b, 0, buf[b].valid, buf[b].next, buf[b].data)
    <3>. HIDE DEF b
    <3>. QED  BY <1>2, <2>2, SetBufStores DEF IInv
  <2>5. BufferAt("test_buffer", b, thread[t].reg, bhead', live', buf', pos')
    BY <1>1, <1>3, <1>5, <2>4 DEF At, BufferAt, Stored, Before, After, Filling, Releasing
  <2>6. "test_buffer" \in Releasing
    BY DEF Releasing
  <2>7. InodeAt("test_buffer", thread[t].ip, ihead', inodes')
    BY <1>1, <2>6, ReleasingInode
  <2>. QED  BY <1>1, <1>2, <2>2, <2>3, <2>5, <2>6, <2>7, OnlyMoved
<1>6. CASE At(t, "test_buffer")
  <2>1. buf[b].refcount = 0
    BY <1>3, <1>6 DEF At, BufferAt
  <2>2. Go(t, "is_head") /\ UNCHANGED <<buf, lost>>
    BY <1>2, <1>6, <2>1 DEF UnrefBuffer, At, Access, Accesses
  <2>3. Moved(t, "is_head", thread[t].ip, b, thread[t].reg, thread[t].answer)
    BY <1>1, <2>2, GoMoves
  <2>4. BufferAt("is_head", b, thread[t].reg, bhead', live', buf', pos')
    BY <1>1, <1>3, <1>6, <2>2 DEF At, BufferAt, Before, After, Filling, Releasing
  <2>5. "is_head" \in Releasing
    BY DEF Releasing
  <2>6. InodeAt("is_head", thread[t].ip, ihead', inodes')
    BY <1>1, <2>5, ReleasingInode
  <2>. QED  BY <1>1, <1>2, <2>2, <2>3, <2>4, <2>5, <2>6, OnlyMoved
<1>. QED  BY <1>4, <1>5, <1>6 DEF UnrefBuffer

LEMMA PopAlone ==
  ASSUME IInv, NEW t \in Threads, Only(t), Pop(t)
  PROVE  Only(t)'
<1>. DEFINE b == thread[t].bp
<1>1. /\ UNCHANGED <<ihead, inodes, live, buf, pos>> /\ thread[t].pc = "pop"
      /\ thread \in [Threads -> ThreadRecord] /\ thread[t].answer \in {"none", "root"}
      /\ thread[t].pc \in Releasing /\ "free" \in Releasing
  BY DEF Pop, At, icache, IInv, Only, Releasing
<1>2. b \in live /\ b \in Buffer /\ ~lost /\ b = bp(t)
  BY <1>1, Holding DEF bp
<1>3. BufferAt("pop", b, thread[t].reg, bhead, live, buf, pos)
  BY <1>1 DEF Only
<1>4. bhead' = buf[b].next /\ Go(t, "free") /\ UNCHANGED lost
  BY <1>2 DEF Pop, Access, Accesses
<1>5. Moved(t, "free", thread[t].ip, b, thread[t].reg, thread[t].answer)
  BY <1>1, <1>4, GoMoves
<1>6. BufferAt("free", b, thread[t].reg, bhead', live', buf', pos')
  BY <1>1, <1>3, <1>4 DEF BufferAt, Before, After, Filling, Releasing
<1>7. InodeAt("free", thread[t].ip, ihead', inodes')
  BY <1>1, ReleasingInode
<1>. QED  BY <1>1, <1>2, <1>4, <1>5, <1>6, <1>7, OnlyMoved

(* The buffer is the head of the list: there is no walk.                   *)
LEMMA WalkAlone ==
  ASSUME IInv, NEW t \in Threads, Only(t), Walk(t)
  PROVE  Only(t)'
<1>. DEFINE b == thread[t].bp
<1>1. thread[t].pc = "is_head"
  BY DEF Walk, First, At, Only, Before, Filling, Releasing, After
<1>2. /\ UNCHANGED <<ihead, inodes, bhead, live, buf, pos, lost>>
      /\ thread \in [Threads -> ThreadRecord] /\ thread[t].answer \in {"none", "root"}
      /\ thread[t].pc \in Releasing /\ "pop" \in Releasing /\ ~lost
  BY <1>1 DEF Walk, First, At, icache, bcache, IInv, Only, Releasing
<1>3. BufferAt("is_head", b, thread[t].reg, bhead, live, buf, pos)
  BY <1>1 DEF Only
<1>4. bhead = b
  BY <1>3 DEF BufferAt, Releasing
<1>5. Go(t, "pop")
  BY <1>1, <1>4 DEF Walk, First, At, bp
<1>6. Moved(t, "pop", thread[t].ip, b, thread[t].reg, thread[t].answer)
  BY <1>2, <1>5, GoMoves
<1>7. BufferAt("pop", b, thread[t].reg, bhead', live', buf', pos')
  BY <1>2, <1>3 DEF BufferAt, Before, After, Filling, Releasing
<1>8. InodeAt("pop", thread[t].ip, ihead', inodes')
  BY <1>2, ReleasingInode
<1>. QED  BY <1>2, <1>6, <1>7, <1>8, OnlyMoved

LEMMA FreeAlone ==
  ASSUME IInv, NEW t \in Threads, Only(t), Free(t)
  PROVE  Only(t)'
<1>. DEFINE b == thread[t].bp
<1>1. /\ UNCHANGED <<ihead, inodes, bhead, buf, pos>> /\ thread[t].pc = "free"
      /\ thread \in [Threads -> ThreadRecord] /\ thread[t].answer \in {"none", "root"}
      /\ thread[t].pc \in Releasing /\ "set_inode" \in After
  BY DEF Free, At, icache, IInv, Only, Releasing, After
<1>2. b \in live /\ b \in Buffer /\ ~lost /\ b = bp(t)
  BY <1>1, Holding DEF bp
<1>3. BufferAt("free", b, thread[t].reg, bhead, live, buf, pos)
  BY <1>1 DEF Only
<1>4. live' = live \ {b} /\ Go(t, "set_inode") /\ UNCHANGED lost
  BY <1>2 DEF Free, Access, Accesses
<1>5. Moved(t, "set_inode", thread[t].ip, b, thread[t].reg, thread[t].answer)
  BY <1>1, <1>4, GoMoves
<1>6. bhead = NULL /\ live' = {}
  BY <1>3, <1>4 DEF BufferAt, Releasing
<1>7. BufferAt("set_inode", b, thread[t].reg, bhead', live', buf', pos')
  BY <1>1, <1>6 DEF BufferAt, Filling, Releasing
<1>8. InodeAt("set_inode", thread[t].ip, ihead', inodes')
  BY <1>1, ReleasingInode
<1>. QED  BY <1>1, <1>2, <1>4, <1>5, <1>7, <1>8, OnlyMoved

LEMMA ValidateInodeAlone ==
  ASSUME IInv, NEW t \in Threads, Only(t), ValidateInode(t)
  PROVE  Only(t)'
<1>1. /\ UNCHANGED <<ihead, bhead, buf, live, pos, lost>> /\ thread[t].pc = "set_inode"
      /\ thread \in [Threads -> ThreadRecord] /\ thread[t].answer \in {"none", "root"}
      /\ ~lost /\ thread[t].pc \in After /\ "answer" \in After
  BY DEF ValidateInode, At, bcache, IInv, Only, After
<1>2. One(ihead, 1, inodes) /\ inodes[1].data = "root" /\ thread[t].ip = 1
  BY <1>1 DEF Only, InodeAt
<1>3. SetInode(1, "valid", TRUE) /\ Go(t, "answer")
  BY <1>2 DEF ValidateInode, ip
<1>4. Ready(ihead', inodes')
  BY <1>1, <1>2, <1>3, SetTheInode DEF IInv, Ready, One
<1>5. Moved(t, "answer", thread[t].ip, thread[t].bp, thread[t].reg, thread[t].answer)
  BY <1>1, <1>3, GoMoves
<1>6. InodeAt("answer", thread[t].ip, ihead', inodes')
  BY <1>2, <1>4 DEF InodeAt, Filling, Releasing
<1>7. bhead = NULL /\ live = {}
  BY <1>1 DEF Only, BufferAt
<1>8. BufferAt("answer", thread[t].bp, thread[t].reg, bhead', live', buf', pos')
  BY <1>1, <1>7 DEF BufferAt, Filling, Releasing
<1>. QED  BY <1>1, <1>5, <1>6, <1>8, OnlyMoved

LEMMA AnswerAlone ==
  ASSUME IInv, NEW t \in Threads, Only(t), Answer(t)
  PROVE  Only(t)'
<1>1. /\ UNCHANGED <<ihead, inodes, bhead, buf, live, pos, lost>> /\ thread[t].pc = "answer"
      /\ thread \in [Threads -> ThreadRecord] /\ ~lost
      /\ thread[t].pc \in After /\ "idle" \in Before
  BY DEF Answer, At, icache, bcache, IInv, Only, After, Before
<1>2. Ready(ihead, inodes) /\ thread[t].ip = 1
  BY <1>1 DEF Only, InodeAt
<1>3. Load(t, "answer", "root", "idle")
  BY <1>2 DEF Answer, ip, Ready
<1>4. Moved(t, "idle", thread[t].ip, thread[t].bp, thread[t].reg, "root")
  BY <1>1, <1>3, LoadMoves
<1>5. InodeAt("idle", thread[t].ip, ihead', inodes')
  BY <1>1, <1>2 DEF InodeAt, Filling, Releasing
<1>6. bhead = NULL /\ live = {}
  BY <1>1 DEF Only, BufferAt
<1>7. BufferAt("idle", thread[t].bp, thread[t].reg, bhead', live', buf', pos')
  BY <1>1, <1>6 DEF BufferAt, Filling, Releasing
<1>. QED  BY <1>1, <1>4, <1>5, <1>7, OnlyMoved

LEMMA GetattrAlone ==
  ASSUME IInv, NEW t \in Threads, Only(t), Getattr(t)
  PROVE  Only(t)'
<1>1. /\ UNCHANGED <<ihead, inodes, bhead, buf, live, pos, lost>> /\ thread[t].pc = "idle"
      /\ thread \in [Threads -> ThreadRecord] /\ thread[t].answer \in {"none", "root"} /\ ~lost
      /\ thread[t].pc \in Before /\ "find_inode" \in Before /\ Go(t, "find_inode")
  BY DEF Getattr, At, icache, bcache, IInv, Only, Before
<1>2. Moved(t, "find_inode", thread[t].ip, thread[t].bp, thread[t].reg, thread[t].answer)
  BY <1>1, GoMoves
<1>3. None(ihead, inodes) \/ Ready(ihead, inodes)
  BY <1>1 DEF Only, InodeAt
<1>4. InodeAt("find_inode", thread[t].ip, ihead', inodes')
  BY <1>1, <1>3 DEF InodeAt, Filling, Releasing
<1>5. bhead = NULL /\ live = {}
  BY <1>1 DEF Only, BufferAt
<1>6. BufferAt("find_inode", thread[t].bp, thread[t].reg, bhead', live', buf', pos')
  BY <1>1, <1>5 DEF BufferAt, Filling, Releasing
<1>. QED  BY <1>1, <1>2, <1>4, <1>6, OnlyMoved

LEMMA WorkAlone ==
  ASSUME IInv, NEW t \in Threads, Only(t), Work(t)
  PROVE  Only(t)'
<1>1. ~CountBuffer(t) /\ ~Splice(t)
  BY DEF CountBuffer, Splice, At, Only, Before, Filling, Releasing, After
<1>. QED  BY <1>1, FindInodeAlone, CountInodeAlone, NewInodeAlone, FindBufferAlone, NewBufferAlone,
             SeekAlone, ReadBlockAlone, UnrefBufferAlone, PopAlone, WalkAlone, FreeAlone,
             ValidateInodeAlone, AnswerAlone DEF Work

(* A thread works on a request, after the file system was mounted.         *)
LEMMA WorkBusy ==
  ASSUME NEW t \in Threads, Work(t)
  PROVE  thread[t].pc # "idle" /\ up = "mounted"
BY DEF Work, FindInode, CountInode, NewInode, FindBuffer, CountBuffer, NewBuffer, Seek, ReadBlock,
       UnrefBuffer, Pop, Walk, First, Splice, Free, ValidateInode, Answer, At

(* fs_super_kill finds an empty list.                                      *)
LEMMA NothingToWalk ==
  ASSUME bhead = NULL
  PROVE  Walked = {NULL}
<1>1. Closed({NULL})
  BY DEF Closed
<1>2. \A S : Closed(S) => NULL \in S
  BY DEF Closed
<1>. QED  BY <1>1, <1>2 DEF Walked

LEMMA EveryStepSolo ==
  ASSUME Solo, [Next]_vars
  PROVE  Solo'
<1>1. IInv'
  BY EveryStepGood DEF Solo, Good
<1>2. CASE Mount
  <2>1. /\ Fresh /\ up' # "no" /\ pool' \subseteq Threads
        /\ UNCHANGED <<ihead, inodes, bhead, live, buf, thread, lost>>
    BY <1>2 DEF Mount, Solo, icache, bcache
  <2>2. ASSUME NEW t \in Threads
        PROVE  Only(t)'
    <3>1. /\ thread'[t].pc = "idle" /\ ~lost' /\ ihead' = 0 /\ inodes' = <<>>
          /\ bhead' = NULL /\ live' = {}
          /\ \A u \in Threads : thread'[u].pc = "idle" /\ thread'[u].answer = "none"
      BY <2>1 DEF Fresh
    <3>2. InodeAt("idle", thread'[t].ip, ihead', inodes')
      BY <3>1 DEF InodeAt, None, Filling, Releasing
    <3>3. BufferAt("idle", thread'[t].bp, thread'[t].reg, bhead', live', buf', pos')
      BY <3>1 DEF BufferAt, Filling, Releasing
    <3>. QED  BY <3>1, <3>2, <3>3 DEF Only, Before
  <2>. QED  BY <1>1, <2>1, <2>2 DEF Solo
<1>3. CASE Unmount
  <2>1. /\ up = "mounted" /\ up' # "no" /\ pool' = pool
        /\ UNCHANGED <<ihead, inodes, bhead, live, buf, pos, thread>>
        /\ \A t \in Threads : thread[t].pc = "idle"
    BY <1>3 DEF Unmount, mount, icache, bcache
  <2>2. ASSUME NEW t \in Threads, pool = {t}
        PROVE  Only(t)'
    <3>1. Only(t)
      BY <2>2 DEF Solo
    <3>2. bhead = NULL
      BY <2>1, <3>1 DEF Only, BufferAt, Before
    <3>3. Walked \subseteq live \union {NULL} /\ NULL \in Walked
      BY <3>2, NothingToWalk
    <3>4. lost' = lost
      BY <1>3, <3>3 DEF Unmount
    <3>. QED  BY <2>1, <3>1, <3>4 DEF Only
  <2>. QED  BY <1>1, <2>1, <2>2 DEF Solo
<1>4. ASSUME NEW u \in Threads, Getattr(u)
      PROVE  Solo'
  <2>1. up = "mounted" /\ up' = up /\ pool' = pool /\ u \in pool
    BY <1>4 DEF Getattr, At, mount
  <2>2. ASSUME NEW t \in Threads, pool = {t}
        PROVE  Only(t)'
    <3>1. u = t /\ Only(t)
      BY <2>1, <2>2 DEF Solo
    <3>. QED  BY <1>4, <3>1, GetattrAlone DEF Solo
  <2>. QED  BY <1>1, <2>1, <2>2 DEF Solo
<1>5. ASSUME NEW u \in Threads, Work(u)
      PROVE  Solo'
  <2>1. up = "mounted" /\ up' = up /\ pool' = pool /\ thread[u].pc # "idle"
    BY <1>5, WorkBusy DEF Work, mount
  <2>2. ASSUME NEW t \in Threads, pool = {t}
        PROVE  Only(t)'
    <3>1. u = t /\ Only(t)
      BY <2>1, <2>2 DEF Solo, Only
    <3>. QED  BY <1>5, <3>1, WorkAlone DEF Solo
  <2>. QED  BY <1>1, <2>1, <2>2 DEF Solo
<1>6. CASE UNCHANGED vars
  <2>1. /\ UNCHANGED <<ihead, inodes, bhead, live, buf, pos, thread, lost>>
        /\ up' = up /\ pool' = pool
    BY <1>6 DEF vars, mount, icache, bcache
  <2>2. \A t \in Threads : Only(t) => Only(t)'
    BY <2>1 DEF Only
  <2>3. Fresh => Fresh'
    BY <2>1 DEF Fresh
  <2>. QED  BY <1>1, <2>1, <2>2, <2>3 DEF Solo
<1>. QED  BY <1>2, <1>3, <1>4, <1>5, <1>6 DEF Next

LEMMA AlwaysSolo == Spec => []Solo
<1>1. Init => Solo
  <2>. SUFFICES ASSUME Init PROVE Solo
    OBVIOUS
  <2>1. Init => IInv
    BY InitGood
  <2>2. Fresh /\ pool = {}
    BY DEF Init, Fresh
  <2>. QED  BY <2>1, <2>2 DEF Solo
<1>2. Solo /\ [Next]_vars => Solo'
  BY EveryStepSolo
<1>. QED  BY <1>1, <1>2, PTL DEF Spec

LEMMA AloneIsOne ==
  ASSUME IsFiniteSet(Threads), Solo, Alone
  PROVE  \E t \in Threads : Only(t)
<1>1. IsFiniteSet(pool) /\ pool \subseteq Threads
  BY FS_Subset DEF Solo
<1>2. \E t : pool = {t}
  BY <1>1, FS_Singleton DEF Alone
<1>. QED  BY <1>1, <1>2 DEF Solo

(* With one thread (option -s), getattr of fuse/main.c always answers with *)
(* the attributes of the root inode, however often the kernel asks.        *)
THEOREM AloneIsRight ==
  ASSUME IsFiniteSet(Threads)
  PROVE  Spec => []AloneAnswersRoot
<1>1. Solo => AloneAnswersRoot
  <2>. SUFFICES ASSUME Solo, Alone PROVE RootAttributes
    BY DEF AloneAnswersRoot
  <2>1. PICK t \in Threads : Only(t)
    BY AloneIsOne
  <2>. QED  BY <2>1 DEF Only, RootAttributes
<1>. QED  BY <1>1, AlwaysSolo, PTL

(* With one thread, fs_bio_brelse gives back every buffer that the reading *)
(* of an inode took, no freed memory is used, and fs_super_kill meets an   *)
(* empty list.                                                             *)
THEOREM AloneReturnsBuffers ==
  ASSUME IsFiniteSet(Threads)
  PROVE  Spec => []BuffersReturned
<1>1. Solo => BuffersReturned
  <2>. SUFFICES ASSUME Solo, Alone
                PROVE  /\ ~lost
                       /\ (\A t \in Threads : thread[t].pc = "idle") => live = {} /\ bhead = NULL
    BY DEF BuffersReturned
  <2>1. PICK t \in Threads : Only(t)
    BY AloneIsOne
  <2>2. thread[t].pc = "idle" => live = {} /\ bhead = NULL
    BY <2>1 DEF Only, BufferAt, Before
  <2>. QED  BY <2>1, <2>2 DEF Only
<1>. QED  BY <1>1, AlwaysSolo, PTL
=============================================================================
