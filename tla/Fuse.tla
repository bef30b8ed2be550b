-------------------------------- MODULE Fuse --------------------------------
(***************************************************************************)
(* The FUSE client, fuse/main.c.  The kernel asks for attributes, and a    *)
(* pool of threads answers: fuse_stpdfs_getattr takes the root inode from  *)
(* libfs/inode.c, which loads it through libfs/bio.  Nothing is locked.    *)
(*                                                                         *)
(* A step of a thread is one access to memory that the threads share: the  *)
(* two lists, a field of an inode or of a buffer, the offset of the image  *)
(* file.  Every inode in the list is the root, and every buffer is of the  *)
(* block it is in: no other path asks for more.                            *)
(***************************************************************************)
EXTENDS Integers, Sequences, FiniteSets

CONSTANTS Threads,   \* the worker threads of libfuse
          Buffer,    \* where malloc can put a buffer
          NULL,      \* no buffer
          MaxCalls   \* bound on the calls

ASSUME NullAssumption == NULL \notin Buffer
ASSUME MaxCallsAssumption == MaxCalls \in Nat \ {0}

VARIABLES up,        \* "no", "mounted" or "unmounted"
          pool,      \* the threads that answer: one with the option -s
          clean,     \* the state in the superblock of the device
          ihead,     \* head of the inode list, 0 is null
          inodes,    \* the inodes that were allocated; none is ever freed
          bhead,     \* head of the buffer list
          buf, live, \* the memory of the buffers, those not freed
          pos,       \* the offset of the image file, in blocks
          thread,    \* of each thread: label, pointers, register, answer
          lost,      \* freed memory was used
          calls      \* history: the calls so far

mount == <<up, pool, clean>>
icache == <<ihead, inodes>>
bcache == <<bhead, buf, live>>
vars == <<mount, icache, bcache, pos, thread, lost, calls>>

RootBlock == 2       \* IBLOCK(STPDFS_ROOTINO)

Init ==
  /\ up = "no" /\ pool = {} /\ clean \in BOOLEAN
  /\ ihead = 0 /\ inodes = <<>>
  /\ bhead = NULL /\ live = {}
  /\ buf = [a \in Buffer |-> [refcount |-> 0, valid |-> FALSE, next |-> NULL, data |-> "junk"]]
  /\ pos = 0
  /\ thread = [t \in Threads |-> [pc |-> "idle", ip |-> 0, bp |-> NULL, tmp |-> NULL,
                                 reg |-> 0, answer |-> "none"]]
  /\ lost = FALSE
  /\ calls = 0

-----------------------------------------------------------------------------
(* fuse_stpdfs_init runs before the threads: fs_super_open, whose buffer   *)
(* is freed again.  The process exits when it fails.                       *)
Mount ==
  /\ up = "no"
  /\ up' \in {"mounted", "unmounted"}
  /\ pool' \in {Threads} \union {{t} : t \in Threads}
  /\ pos' = RootBlock
  /\ UNCHANGED <<clean, icache, bcache, thread, lost, calls>>

(* What the walk over the buffer list meets: the least set that the head   *)
(* is in, and the next of every buffer.                                    *)
Closed(S) == bhead \in S /\ \A a \in S \ {NULL} : buf[a].next \in S
Walked ==
  LET Places == Buffer \union {NULL}
  IN {a \in Places : \A S \in SUBSET Places : Closed(S) => a \in S}

(* fuse_stpdfs_destroy runs after the threads: fs_super_kill looks for the *)
(* buffer of the superblock, and writes it.                                *)
Unmount ==
  /\ up = "mounted" /\ \A t \in Threads : thread[t].pc = "idle"
  /\ IF Walked \subseteq live \union {NULL} /\ NULL \in Walked
       THEN up' = "unmounted" /\ clean' = TRUE /\ UNCHANGED <<pool, lost>>
       ELSE lost' = TRUE /\ UNCHANGED mount
  /\ UNCHANGED <<icache, bcache, pos, thread, calls>>

-----------------------------------------------------------------------------
(* The fields of thread t.                                                 *)
At(t, label) == up = "mounted" /\ thread[t].pc = label
ip(t) == thread[t].ip
bp(t) == thread[t].bp
tmp(t) == thread[t].tmp
reg(t) == thread[t].reg

Go(t, label) == thread' = [thread EXCEPT ![t] = [@ EXCEPT !.pc = label]]
Load(t, field, x, label) ==
  thread' = [thread EXCEPT ![t] = [@ EXCEPT ![field] = x, !.pc = label]]

SetInode(i, field, x) == inodes' = [inodes EXCEPT ![i] = [@ EXCEPT ![field] = x]]
SetBuf(a, field, x) == buf' = [buf EXCEPT ![a] = [@ EXCEPT ![field] = x]]

(* An access to buffers S: A if they are allocated; nothing is known after *)
(* the use of freed memory.                                                *)
Accesses(S, A) ==
  IF S \subseteq live THEN A /\ UNCHANGED lost
  ELSE lost' = TRUE /\ UNCHANGED <<thread, buf, bhead, live, pos, inodes>>
Access(a, A) == Accesses({a}, A)

(* The kernel's request; its path is not looked at.                        *)
Getattr(t) ==
  /\ At(t, "idle") /\ t \in pool /\ calls < MaxCalls
  /\ calls' = calls + 1
  /\ Go(t, "find_inode")
  /\ UNCHANGED <<mount, icache, bcache, pos, lost>>

-----------------------------------------------------------------------------
(* fs_inode_get.  The first inode of the list is a hit, whose count is     *)
(* read and written.                                                       *)
FindInodeNever(t) ==                \* mutant: the list is not searched
  At(t, "find_inode") /\ Go(t, "new_inode") /\ UNCHANGED <<icache, bcache, pos, lost>>

FindInode(t) ==
  /\ \/ /\ At(t, "find_inode")
        /\ Load(t, "ip", ihead, IF ihead = 0 THEN "new_inode" ELSE "ref_inode")
     \/ At(t, "ref_inode") /\ Load(t, "reg", inodes[ip(t)].refcount, "count_inode")
  /\ UNCHANGED <<icache, bcache, pos, lost>>

CountInode(t) ==
  /\ At(t, "count_inode") /\ Go(t, "valid_inode")
  /\ SetInode(ip(t), "refcount", reg(t) + 1)
  /\ UNCHANGED <<ihead, bcache, pos, lost>>

NewInodeUncounted(t) ==             \* mutant: the first reference is not counted
  /\ \/ /\ At(t, "new_inode") /\ Load(t, "ip", Len(inodes) + 1, "head_inode")
        /\ inodes' = Append(inodes, [next |-> ihead, refcount |-> 0, valid |-> FALSE, data |-> "junk"])
        /\ UNCHANGED ihead
     \/ At(t, "head_inode") /\ Go(t, "valid_inode") /\ ihead' = ip(t) /\ UNCHANGED inodes
  /\ UNCHANGED <<bcache, pos, lost>>

NewInode(t) ==                      \* malloc, ip->next = head; head = ip
  /\ \/ /\ At(t, "new_inode") /\ Load(t, "ip", Len(inodes) + 1, "head_inode")
        /\ inodes' = Append(inodes, [next |-> ihead, refcount |-> 1, valid |-> FALSE, data |-> "junk"])
        /\ UNCHANGED ihead
     \/ At(t, "head_inode") /\ Go(t, "valid_inode") /\ ihead' = ip(t) /\ UNCHANGED inodes
  /\ UNCHANGED <<bcache, pos, lost>>

-----------------------------------------------------------------------------
(* fs_inode_read, if ip->valid == 0: fs_bio_bread and bget.  The first     *)
(* buffer of the list is a hit.                                            *)
FindBuffer(t) ==
  /\ \/ /\ At(t, "valid_inode")
        /\ Go(t, IF inodes[ip(t)].valid THEN "answer" ELSE "find_buffer")
        /\ UNCHANGED lost
     \/ /\ At(t, "find_buffer")
        /\ Load(t, "bp", bhead, IF bhead = NULL THEN "new_buffer" ELSE "ref_buffer")
        /\ UNCHANGED lost
     \/ /\ At(t, "ref_buffer")
        /\ Access(bp(t), Load(t, "reg", buf[bp(t)].refcount, "count_buffer"))
  /\ UNCHANGED <<icache, bcache, pos>>

CountBuffer(t) ==
  /\ At(t, "count_buffer")
  /\ Access(bp(t), SetBuf(bp(t), "refcount", reg(t) + 1) /\ Go(t, "valid_buffer"))
  /\ UNCHANGED <<icache, bhead, live, pos>>

NewBuffer(t) ==                     \* malloc, buff->next = head; head = buff
  /\ \/ /\ At(t, "new_buffer")
        /\ \E a \in Buffer \ live :
             /\ live' = live \union {a}
             /\ buf' = [buf EXCEPT ![a] = [refcount |-> 1, valid |-> FALSE, next |-> bhead, data |-> @.data]]
             /\ Load(t, "bp", a, "head_buffer")
        /\ UNCHANGED bhead
     \/ /\ At(t, "head_buffer") /\ Go(t, "valid_buffer")
        /\ bhead' = bp(t)
        /\ UNCHANGED <<buf, live>>
  /\ UNCHANGED <<icache, pos, lost>>

SeekNext(t) ==                      \* mutant: x / IPB + 3
  /\ At(t, "seek") /\ Go(t, "read")
  /\ pos' = RootBlock + 1
  /\ UNCHANGED <<icache, bcache, lost>>

Seek(t) ==                          \* lseek, for a buffer that is not valid
  /\ At(t, "seek") /\ Go(t, "read")
  /\ pos' = RootBlock
  /\ UNCHANGED <<icache, bcache, lost>>

(* read, where the offset is by then; buff->valid = 1; the inode is copied *)
(* from the buffer.                                                        *)
ReadBlock(t) ==
  /\ \/ /\ At(t, "valid_buffer")
        /\ Access(bp(t), Go(t, IF buf[bp(t)].valid THEN "copy" ELSE "seek")
                           /\ UNCHANGED <<buf, pos, inodes>>)
     \/ /\ At(t, "read")
        /\ Access(bp(t), /\ SetBuf(bp(t), "data", IF pos = RootBlock THEN "root" ELSE "other")
                         /\ pos' = pos + 1 /\ Go(t, "set_buffer") /\ UNCHANGED inodes)
     \/ /\ At(t, "set_buffer")
        /\ Access(bp(t), SetBuf(bp(t), "valid", TRUE) /\ Go(t, "copy") /\ UNCHANGED <<pos, inodes>>)
     \/ /\ At(t, "copy")
        /\ Access(bp(t), /\ SetInode(ip(t), "data", buf[bp(t)].data)
                         /\ Go(t, "unref_buffer") /\ UNCHANGED <<buf, pos>>)
  /\ UNCHANGED <<ihead, bhead, live>>

-----------------------------------------------------------------------------
(* fs_bio_brelse.  Its count is read and written, and read again for the   *)
(* test; at zero the buffer is unlinked, as the head of the list or behind *)
(* another buffer, and freed.                                              *)
UnrefBuffer(t) ==
  /\ \/ /\ At(t, "unref_buffer")
        /\ Access(bp(t), Load(t, "reg", buf[bp(t)].refcount, "uncount_buffer") /\ UNCHANGED buf)
     \/ /\ At(t, "uncount_buffer")
        /\ Access(bp(t), SetBuf(bp(t), "refcount", reg(t) - 1) /\ Go(t, "test_buffer"))
     \/ /\ At(t, "test_buffer")
        /\ Access(bp(t), /\ Go(t, IF buf[bp(t)].refcount > 0 THEN "set_inode" ELSE "is_head")
                         /\ UNCHANGED buf)
  /\ UNCHANGED <<icache, bhead, live, pos>>

PopNot(t) ==                        \* mutant: the head stays
  At(t, "pop") /\ Go(t, "free") /\ UNCHANGED <<icache, bcache, pos, lost>>

Pop(t) ==                           \* head = buff->next
  /\ At(t, "pop")
  /\ Access(bp(t), bhead' = buf[bp(t)].next /\ Go(t, "free"))
  /\ UNCHANGED <<icache, buf, live, pos>>

(* buff == head; tmp = head, which may be another one by then.             *)
First(t) ==
  \/ At(t, "is_head") /\ Go(t, IF bp(t) = bhead THEN "pop" ELSE "first")
  \/ At(t, "first") /\ Load(t, "tmp", bhead, "walk")

(* tmp->next == buff, or tmp = tmp->next.                                  *)
Visit(t) ==
  Access(tmp(t), IF buf[tmp(t)].next = bp(t) THEN Go(t, "splice")
                 ELSE Load(t, "tmp", buf[tmp(t)].next, "walk"))

WalkNoEnd(t) ==                     \* mutant: no test for the end of the list
  /\ \/ First(t) /\ UNCHANGED lost
     \/ At(t, "walk") /\ tmp(t) # NULL /\ Visit(t)
  /\ UNCHANGED <<icache, bcache, pos>>

Walk(t) ==
  /\ \/ First(t) /\ UNCHANGED lost
     \/ At(t, "walk") /\ tmp(t) = NULL /\ Go(t, "free") /\ UNCHANGED lost
     \/ At(t, "walk") /\ tmp(t) # NULL /\ Visit(t)
  /\ UNCHANGED <<icache, bcache, pos>>

Splice(t) ==                        \* tmp->next = buff->next
  /\ At(t, "splice")
  /\ Accesses({tmp(t), bp(t)}, SetBuf(tmp(t), "next", buf[bp(t)].next) /\ Go(t, "free"))
  /\ UNCHANGED <<icache, bhead, live, pos>>

Free(t) ==
  /\ At(t, "free")
  /\ Access(bp(t), live' = live \ {bp(t)} /\ Go(t, "set_inode"))
  /\ UNCHANGED <<icache, bhead, buf, pos>>

-----------------------------------------------------------------------------
(* ip->valid = 1, at the end of fs_inode_read.                             *)
ValidateInode(t) ==
  /\ At(t, "set_inode") /\ Go(t, "answer")
  /\ SetInode(ip(t), "valid", TRUE)
  /\ UNCHANGED <<ihead, bcache, pos, lost>>

(* The attributes are copied to the answer; the reference is kept.         *)
Answer(t) ==
  /\ At(t, "answer")
  /\ Load(t, "answer", inodes[ip(t)].data, "idle")
  /\ UNCHANGED <<icache, bcache, pos, lost>>

(* What a thread does between a request and its answer.                    *)
Work(t) ==
  /\ ~lost
  /\ \/ FindInode(t) \/ CountInode(t) \/ NewInode(t) \/ FindBuffer(t) \/ CountBuffer(t)
     \/ NewBuffer(t) \/ Seek(t) \/ ReadBlock(t) \/ UnrefBuffer(t) \/ Pop(t) \/ Walk(t)
     \/ Splice(t) \/ Free(t) \/ ValidateInode(t) \/ Answer(t)
  /\ UNCHANGED <<mount, calls>>

Next == ~lost /\ (Mount \/ Unmount \/ \E t \in Threads : Getattr(t) \/ Work(t))

(* The scheduler runs every thread; the kernel need not ask.               *)
Spec == Init /\ [][Next]_vars /\ \A t \in Threads : WF_vars(Work(t))

-----------------------------------------------------------------------------
Labels == {"idle", "find_inode", "ref_inode", "count_inode", "new_inode", "head_inode",
           "valid_inode", "find_buffer", "ref_buffer", "count_buffer", "new_buffer",
           "head_buffer", "valid_buffer", "seek", "read", "set_buffer", "copy",
           "unref_buffer", "uncount_buffer", "test_buffer", "is_head", "pop", "first",
           "walk", "splice", "free", "set_inode", "answer"}
Data == {"junk", "root", "other"}

(* Every variable has its type.  However the threads interleave, the inode *)
(* list is sound: there is at most one copy per thread, each copy leads to *)
(* an older one, and its count is at least 1 and at most the calls.        *)
TypeOK ==
  /\ up \in {"no", "mounted", "unmounted"} /\ clean \in BOOLEAN /\ lost \in BOOLEAN
  /\ pool \subseteq Threads /\ calls \in 0 .. MaxCalls
  /\ \A t \in Threads :
       /\ thread[t].pc \in Labels /\ thread[t].answer \in Data \union {"none"}
       /\ ip(t) \in 0 .. Len(inodes) /\ {bp(t), tmp(t)} \subseteq Buffer \union {NULL}
  /\ Len(inodes) <= Cardinality(Threads)
  /\ ihead \in 0 .. Len(inodes)
  /\ \A i \in DOMAIN inodes :
       /\ inodes[i].next \in 0 .. i - 1
       /\ inodes[i].refcount \in 1 .. calls
       /\ inodes[i].valid \in BOOLEAN /\ inodes[i].data \in Data
  /\ live \subseteq Buffer /\ bhead \in Buffer \union {NULL}
  /\ buf \in [Buffer -> [refcount : Int, valid : BOOLEAN, next : Buffer \union {NULL}, data : Data]]

(* include/stupidfs.h:32: inode 1 is the root inode, which fuse/main.c:29  *)
(* gives the path "/".  What getattr answers are the attributes of that    *)
(* inode.                                                                  *)
RootAttributes == \A t \in Threads : thread[t].answer \in {"none", "root"}

(* With one thread, the option -s of libfuse, that is so; and the buffers  *)
(* a call needed are gone when it returns: no freed memory is used, and    *)
(* fs_super_kill meets an empty list.                                      *)
Alone == Cardinality(pool) = 1
AloneAnswersRoot == Alone => RootAttributes
BuffersReturned ==
  Alone => ~lost /\ ((\A t \in Threads : thread[t].pc = "idle") => live = {} /\ bhead = NULL)

(* The next pointers of buffers that are not freed run in a circle.        *)
Circular == \E S \in SUBSET live \ {{}} : \A a \in S : buf[a].next \in S

(* A request is answered, unless freed memory is used or the list runs in  *)
(* a circle for good: no thread waits for another, and the walk of         *)
(* fs_bio_brelse ends on every other list.  A circle does come about: a    *)
(* thread that reads the head of the list and writes it later can meet a   *)
(* buffer that was freed and allocated again in between.                   *)
Answered ==
  \A t \in Threads :
    thread[t].pc = "find_inode" ~> (thread[t].pc = "idle" \/ lost \/ []Circular)

(* Fuse_circle.cfg shows such a circle.                                    *)
NoCircle == ~Circular

(* Once the inode at the head of the list is valid, and no thread is about *)
(* to put another one there or to load this one, it never changes: the     *)
(* threads no longer interfere, and every later call answers the same.     *)
(* This is why a volume whose first getattr is answered alone is safe, and *)
(* why a wrong copy of the root, once made, is what it stays.              *)
Loading == {"new_inode", "head_inode"}
ReadsHead(t) ==
  ip(t) = ihead /\ thread[t].pc \notin {"idle", "find_inode", "ref_inode", "count_inode", "valid_inode", "answer"}
Settled ==
  /\ ihead # 0 /\ inodes[ihead].valid
  /\ \A t \in Threads : thread[t].pc \notin Loading /\ ~ReadsHead(t)

StaysSettled ==
  [][Settled => Settled' /\ inodes'[ihead'].data = inodes[ihead].data]_vars
=============================================================================
