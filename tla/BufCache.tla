------------------------------ MODULE BufCache ------------------------------
(***************************************************************************)
(* The block buffers of libfs/bio/bio.c: a list of reference-counted       *)
(* buffers, one call at a time.  The callers (balloc.c, inode.c, rw.c and  *)
(* super.c) read a block, may change the bytes of its buffer, write it     *)
(* back before they release it, and may hold other blocks meanwhile; a     *)
(* reference that is never released (fs_balloc's, of a block it loads as a *)
(* list) is one that is held for ever.                                     *)
(***************************************************************************)
EXTENDS Naturals, SequencesExt

CONSTANTS Block,      \* block numbers
          Addr,       \* where malloc can put a buffer
          Content,    \* what a block can hold
          Blank,      \* what a fresh device holds
          MaxRefs     \* bound on the references to a buffer

ASSUME BlankAssumption == Blank \in Content
ASSUME MaxRefsAssumption == MaxRefs \in Nat \ {0}

VARIABLES device,     \* the blocks of the image
          list,       \* the addresses from `head' on
          mem,        \* what is at an address that malloc returned
          live,       \* addresses that were not freed
          held,       \* references in the hands of callers, per address
          unsaved     \* buffers changed since they were last written

vars == <<device, list, mem, live, held, unsaved>>

Buffer == [blocknum : Block, refcount : Nat, data : Content]

Init ==
  /\ device = [b \in Block |-> Blank]
  /\ list = <<>>
  /\ \E b \in Block :
       mem = [a \in Addr |-> [blocknum |-> b, refcount |-> 0, data |-> Blank]]
  /\ live = {}
  /\ held = [a \in Addr |-> 0]
  /\ unsaved = {}

-----------------------------------------------------------------------------
(* bget and fs_bio_bread: the first buffer of the list that has the block  *)
(* number, or a new one at the head, read from the device.  A buffer that  *)
(* is in the list has been read.                                           *)
Hits(b) == {k \in DOMAIN list : mem[list[k]].blocknum = b}

Hold(a) == held' = [held EXCEPT ![a] = @ + 1]

BgetFound(b) ==
  /\ Hits(b) # {}
  /\ LET a == list[Min(Hits(b))] IN
       /\ mem[a].refcount < MaxRefs
       /\ mem' = [mem EXCEPT ![a].refcount = @ + 1]
       /\ Hold(a)
  /\ UNCHANGED <<device, list, live, unsaved>>

NewBuffer(a, b) ==
  /\ a \notin live
  /\ mem' = [mem EXCEPT ![a] = [blocknum |-> b, refcount |-> 1, data |-> device[b]]]
  /\ live' = live \union {a}
  /\ list' = <<a>> \o list
  /\ Hold(a)
  /\ UNCHANGED <<device, unsaved>>

BgetNewAlways(b) == \E a \in Addr : NewBuffer(a, b)   \* mutant: no search

BgetNew(b) == Hits(b) = {} /\ \E a \in Addr : NewBuffer(a, b)

(* A caller that holds the buffer changes its bytes.                       *)
Change(a, c) ==
  /\ held[a] > 0
  /\ mem' = [mem EXCEPT ![a].data = c]
  /\ unsaved' = unsaved \union {a}
  /\ UNCHANGED <<device, list, live, held>>

BwriteNothing(a) ==    \* mutant: the write is lost
  /\ held[a] > 0
  /\ unsaved' = unsaved \ {a}
  /\ UNCHANGED <<device, list, mem, live, held>>

(* fs_bio_bwrite.                                                          *)
Bwrite(a) ==
  /\ held[a] > 0
  /\ device' = [device EXCEPT ![mem[a].blocknum] = mem[a].data]
  /\ unsaved' = unsaved \ {a}
  /\ UNCHANGED <<list, mem, live, held>>

UnlinkHeadOnly(a) ==   \* mutant: tmp->next == tmp, as in fs_inode_release
  IF list # <<>> /\ Head(list) = a THEN Tail(list) ELSE list

(* The loop over tmp->next, up to the first that is the buffer.            *)
Places(a) == {k \in DOMAIN list : list[k] = a}
Unlink(a) == IF Places(a) = {} THEN list ELSE RemoveAt(list, Min(Places(a)))

BrelseAlways(a) ==     \* mutant: no test of the count
  /\ held[a] > 0 /\ a \notin unsaved
  /\ held' = [held EXCEPT ![a] = @ - 1]
  /\ mem' = [mem EXCEPT ![a].refcount = @ - 1]
  /\ list' = Unlink(a) /\ live' = live \ {a}
  /\ UNCHANGED <<device, unsaved>>

(* fs_bio_brelse.  The last release takes the buffer out of the list and   *)
(* frees it.                                                               *)
Brelse(a) ==
  /\ held[a] > 0 /\ a \notin unsaved
  /\ held' = [held EXCEPT ![a] = @ - 1]
  /\ mem' = [mem EXCEPT ![a].refcount = @ - 1]
  /\ IF mem[a].refcount > 1
       THEN UNCHANGED <<list, live>>
       ELSE list' = Unlink(a) /\ live' = live \ {a}
  /\ UNCHANGED <<device, unsaved>>

(* The process is killed, and another one starts with no buffer.           *)
Crash ==
  /\ list' = <<>>
  /\ live' = {}
  /\ held' = [a \in Addr |-> 0]
  /\ unsaved' = {}
  /\ UNCHANGED <<device, mem>>

Next ==
  \/ \E b \in Block : BgetFound(b) \/ BgetNew(b)
  \/ \E a \in Addr : Bwrite(a) \/ Brelse(a) \/ \E c \in Content : Change(a, c)
  \/ Crash

Spec == Init /\ [][Next]_vars

-----------------------------------------------------------------------------
(* What a holder of the block sees, or would see.                          *)
Seen == [b \in Block |-> IF Hits(b) = {} THEN device[b] ELSE mem[list[Min(Hits(b))]].data]

Store == INSTANCE BlockStore WITH
  content <- Seen, durable <- device, open <- {mem[a].blocknum : a \in live}

(* Every variable has its type, and only a live buffer is unsaved.         *)
TypeOK ==
  /\ device \in [Block -> Content]
  /\ list \in Seq(Addr)
  /\ mem \in [Addr -> Buffer]
  /\ live \subseteq Addr /\ unsaved \subseteq live
  /\ held \in [Addr -> Nat]

(* The list holds the buffers that are not freed, each once, and the count *)
(* of a buffer is the number of references its callers have: no call can   *)
(* walk into freed memory, and a buffer that is held is never freed.       *)
ListIsLive ==
  /\ ToSet(list) = live /\ IsInjective(list)
  /\ \A a \in Addr : held[a] = IF a \in live THEN mem[a].refcount ELSE 0

(* No block has two buffers, and a buffer differs from the block on the    *)
(* device only while its change is unwritten.                              *)
Coherent ==
  /\ \A a, b \in live : mem[a].blocknum = mem[b].blocknum => a = b
  /\ \A a \in live \ unsaved : mem[a].data = device[mem[a].blocknum]

(* The code above the buffers sees one content per block.                  *)
RefinesStore == Store!Spec
=============================================================================
