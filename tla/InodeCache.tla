----------------------------- MODULE InodeCache -----------------------------
(***************************************************************************)
(* The inodes in the memory of a tool, libfs/inode.c: a list of reference- *)
(* counted copies, from which an inode that is not at the head is freed    *)
(* without being unlinked.  Nothing in inode.c makes that safe: it depends *)
(* on the order in which each program gets and releases its inodes.  So    *)
(* the programs are here as the calls they make, one call per step.        *)
(***************************************************************************)
EXTENDS Integers, SequencesExt

CONSTANTS Inum,      \* inode numbers
          Root,      \* STPDFS_ROOTINO
          Addr,      \* where malloc can put an inode
          NULL,      \* no inode
          MaxEntries \* bound on the entries of the root directory, or paths

ASSUME RootAssumption == Root \in Inum /\ NULL \notin Addr
ASSUME MaxEntriesAssumption == MaxEntries \in Nat

VARIABLES device,    \* the inodes of the volume: a number per change
          root,      \* the root inode of the volume: "allocated"; "free", where
                     \* mkfs was killed; "taken", if fs_inode_alloc found it so
          head,      \* the list
          mem, live, \* the memory of the inodes, those not freed
          unsaved,   \* inodes changed in memory and not written since
          todo,      \* the calls the program will still make
          at,        \* the pointer the program has to an inode
          lost       \* it used freed memory, or a list without an end

vars == <<device, root, head, mem, live, unsaved, todo, at, lost>>

-----------------------------------------------------------------------------
(* The programs.                                                           *)
Call(op, i) == <<[op |-> op, inum |-> i]>>

(* fs_inode_get, and fs_inode_read where it is not valid.                  *)
Fetch(i) == Call("get", i) \o Call("check", i)

AddEntryUnsaved(d) == Call("use", d) \o Call("change", d)  \* mutant: no update

(* The end of fs_write: the size grows, and the inode is written.          *)
AddEntry(d) == Call("use", d) \o Call("change", d) \o Call("update", d)

(* fs_dir_link of inode i in directory d, and one that finds no room.      *)
Link(d, i) ==
  AddEntry(d) \o Fetch(i) \o Call("change", i) \o Call("update", i) \o Call("release", i)

LinkFull(d) == Call("use", d) \o Call("update", d)

(* The root inode is filled in without being read.                         *)
MkfsCalls ==
  Call("get", Root) \o Call("fill", Root) \o Call("update", Root)
    \o Link(Root, Root) \o Link(Root, Root)
    \o Call("change", Root) \o Call("update", Root) \o Call("release", Root)

(* One path of mkdir, of a directory that becomes inode i; or no inode, for *)
(* a path without a name, a root that is not a directory or a volume that  *)
(* has no inode left.  Nothing is released.                                *)
MkdirCalls(i) ==
  Fetch(Root)
    \o (IF i = NULL THEN <<>>
        ELSE Call("alloc", i) \o Call("check", i) \o Call("change", i)
               \o Link(i, i) \o Link(i, Root) \o Link(Root, i))

CopyReleasesFirst(i, room) ==   \* mutant: the directory is released too early
  Fetch(Root) \o Call("alloc", i) \o Call("check", i) \o Call("change", i) \o Call("update", i)
    \o AddEntry(i) \o Call("release", Root)
    \o (IF room THEN Link(Root, i) ELSE LinkFull(Root)) \o Call("release", i)

(* copy of a file of one chunk.                                            *)
CopyCalls(i, room) ==
  Fetch(Root) \o Call("alloc", i) \o Call("check", i) \o Call("change", i) \o Call("update", i)
    \o AddEntry(i) \o (IF room THEN Link(Root, i) ELSE LinkFull(Root))
    \o Call("release", Root) \o Call("release", i)

(* ls of a directory with these entries, and inspect of an inode.          *)
LsCalls(entries) ==
  Fetch(Root) \o FlattenSeq([k \in DOMAIN entries |->
                    Call("use", Root) \o Fetch(entries[k])
                      \o Call("use", entries[k]) \o Call("release", entries[k])])

InspectCalls(i) == Fetch(i) \o Call("use", i)

UpTo(S, n) == UNION {[1 .. k -> S] : k \in 0 .. n}

(* The inodes fs_inode_alloc can return: the root, where mkfs was killed   *)
(* before it wrote that one.                                               *)
Fresh == IF root = "free" THEN {Root} ELSE Inum \ {Root}

(* A root that is free is all zero: no directory, and without entries.     *)
Paths == {NULL} \union (Fresh \ {Root})
Entries == IF root = "free" THEN {} ELSE Inum

Programs ==
       {MkfsCalls}
  \union {FlattenSeq([k \in DOMAIN made |-> MkdirCalls(made[k])]) :
            made \in {s \in UpTo(Paths, MaxEntries) :
                       \A j, k \in DOMAIN s : s[j] = s[k] => s[j] = NULL \/ j = k}}
  \union {CopyCalls(i, room) : i \in Fresh, room \in BOOLEAN}
  \union {LsCalls(entries) : entries \in UpTo(Entries, MaxEntries)}
  \union {InspectCalls(i) : i \in Inum}

Init ==
  /\ device = [i \in Inum |-> 0]
  /\ root \in {"allocated", "free"}
  /\ head = NULL /\ live = {}
  /\ mem = [p \in Addr |-> [inum |-> Root, refcount |-> 0, valid |-> FALSE, next |-> NULL, data |-> 0]]
  /\ unsaved = {}
  /\ todo \in Programs
  /\ at = [i \in Inum |-> NULL]
  /\ lost = FALSE

-----------------------------------------------------------------------------
(* The list as a loop over it meets it, whatever was freed: place k of it. *)
Place[k \in 0 .. Cardinality(Addr)] ==
  IF k = 0 THEN head
  ELSE IF Place[k - 1] = NULL THEN NULL ELSE mem[Place[k - 1]].next

(* Where a search ends: at a place that has P, at the end of the list, or  *)
(* in freed memory.                                                        *)
Stops(P(_)) == {k \in DOMAIN Place : Place[k] \notin live \/ P(Place[k])}
Ending(P(_)) == Place[Min(Stops(P))]
Lost(P(_)) == Stops(P) = {} \/ (Ending(P) # NULL /\ Ending(P) \notin live)

Doing(op) == ~lost /\ todo # <<>> /\ Head(todo).op = op
Arg == Head(todo).inum
Done == todo' = Tail(todo)

Set(p, field, x) == mem' = [mem EXCEPT ![p] = [@ EXCEPT ![field] = x]]

(* fs_inode_get.                                                           *)
GetHit(p) ==
  /\ Set(p, "refcount", mem[p].refcount + 1)
  /\ at' = [at EXCEPT ![Arg] = p]
  /\ UNCHANGED <<head, live>>

GetNewUncounted(p) ==   \* mutant: the first reference is not counted
  /\ live' = live \union {p}
  /\ mem' = [mem EXCEPT ![p] = [@ EXCEPT !.next = head, !.inum = Arg, !.refcount = 0, !.valid = FALSE]]
  /\ head' = p
  /\ at' = [at EXCEPT ![Arg] = p]

GetNew(p) ==
  /\ live' = live \union {p}
  /\ mem' = [mem EXCEPT ![p] = [@ EXCEPT !.next = head, !.inum = Arg, !.refcount = 1, !.valid = FALSE]]
  /\ head' = p
  /\ at' = [at EXCEPT ![Arg] = p]

InodeGet ==
  LET Wanted(p) == mem[p].inum = Arg IN
    IF Lost(Wanted) THEN lost' = TRUE /\ UNCHANGED <<head, mem, live, at>>
    ELSE /\ UNCHANGED lost
         /\ \/ Ending(Wanted) # NULL /\ GetHit(Ending(Wanted))
            \/ Ending(Wanted) = NULL /\ \E p \in Addr \ live : GetNew(p)

Get == Doing("get") /\ InodeGet /\ Done /\ UNCHANGED <<device, root, unsaved>>

(* fs_inode_alloc writes the new inode to the device, then gets it: a copy *)
(* that is in memory already is not read again.                            *)
Alloc ==
  /\ Doing("alloc")
  /\ device' = [device EXCEPT ![Arg] = @ + 1]
  /\ root' = IF Arg = Root THEN "taken" ELSE root
  /\ InodeGet /\ Done
  /\ UNCHANGED unsaved

(* The program uses its pointer: A is what it does.                        *)
Using(op, A) ==
  /\ Doing(op) /\ Done
  /\ IF at[Arg] \in live
       THEN A /\ UNCHANGED lost
       ELSE lost' = TRUE /\ UNCHANGED <<device, root, head, mem, live, unsaved>>
  /\ UNCHANGED at

CheckUnread ==      \* mutant: the inode is not read
  Using("check", Set(at[Arg], "valid", TRUE) /\ UNCHANGED <<device, root, head, live, unsaved>>)

(* if (ip->valid == 0) fs_inode_read(ip)                                   *)
Check ==
  Using("check",
    /\ mem' = IF mem[at[Arg]].valid THEN mem
              ELSE [mem EXCEPT ![at[Arg]] = [@ EXCEPT !.valid = TRUE, !.data = device[Arg]]]
    /\ UNCHANGED <<device, root, head, live, unsaved>>)

Fill ==             \* mkfs: valid = 1
  Using("fill",
    /\ mem' = [mem EXCEPT ![at[Arg]] = [@ EXCEPT !.valid = TRUE, !.data = device[Arg] + 1]]
    /\ unsaved' = unsaved \union {Arg}
    /\ UNCHANGED <<device, root, head, live>>)

Use == Using("use", UNCHANGED <<device, root, head, mem, live, unsaved>>)

Change ==
  Using("change",
    /\ Set(at[Arg], "data", mem[at[Arg]].data + 1)
    /\ unsaved' = unsaved \union {Arg}
    /\ UNCHANGED <<device, root, head, live>>)

Update ==           \* fs_inode_update
  Using("update",
    /\ device' = [device EXCEPT ![mem[at[Arg]].inum] = mem[at[Arg]].data]
    /\ root' = IF mem[at[Arg]].inum = Root THEN "allocated" ELSE root
    /\ unsaved' = unsaved \ {Arg}
    /\ UNCHANGED <<head, mem, live>>)

(* fs_inode_release.  The loop looks for an inode that is its own next.    *)
Selfish(q) == mem[q].next = q
Unlinked(m, p) ==
  IF Lost(Selfish) \/ Ending(Selfish) = NULL THEN m
  ELSE [m EXCEPT ![Ending(Selfish)] = [@ EXCEPT !.next = mem[p].next]]

LastRelease(p, m) ==
  /\ live' = live \ {p}
  /\ IF p = head THEN head' = mem[p].next /\ mem' = m /\ UNCHANGED lost
     ELSE mem' = Unlinked(m, p) /\ lost' = Lost(Selfish) /\ UNCHANGED head

Release ==
  LET p == at[Arg]
      m == [mem EXCEPT ![p] = [@ EXCEPT !.refcount = @ - 1]]
  IN /\ Doing("release") /\ Done
     /\ IF p \notin live THEN lost' = TRUE /\ UNCHANGED <<head, mem, live>>
        ELSE IF mem[p].refcount > 1 THEN mem' = m /\ UNCHANGED <<head, live, lost>>
        ELSE LastRelease(p, m)
     /\ UNCHANGED <<device, root, unsaved, at>>

Next == Get \/ Alloc \/ Check \/ Fill \/ Use \/ Change \/ Update \/ Release

Spec == Init /\ [][Next]_vars

-----------------------------------------------------------------------------
Calls == [op : {"get", "alloc", "check", "fill", "use", "change", "update", "release"}, inum : Inum]

(* Every variable has its type, and an inode that is not freed has a       *)
(* reference.                                                              *)
TypeOK ==
  /\ device \in [Inum -> Nat] /\ root \in {"allocated", "free", "taken"}
  /\ head \in Addr \union {NULL} /\ live \subseteq Addr
  /\ \A p \in Addr : /\ mem[p].inum \in Inum /\ mem[p].refcount \in Nat
                      /\ mem[p].valid \in BOOLEAN /\ mem[p].next \in Addr \union {NULL}
                      /\ p \in live => mem[p].refcount > 0
  /\ unsaved \subseteq Inum
  /\ todo \in Seq(Calls)
  /\ at \in [Inum -> Addr \union {NULL}]

(* inode.c:124 leaves a freed inode in the list, but no program of the     *)
(* repository walks over it, or uses a pointer to it, before it exits.     *)
NoFreedMemory == ~lost

(* An inode has one copy in memory, and it differs from the volume only    *)
(* while a change of it is unwritten.  fs_inode_alloc writes to the volume *)
(* past the copies, and meets one only where mkfs was killed and left the  *)
(* root free: copy then works on the root as it was, until it writes that. *)
Current ==
  /\ \A p, q \in live : mem[p].inum = mem[q].inum => p = q
  /\ \A p \in live :
       mem[p].valid /\ mem[p].inum \notin unsaved =>
         \/ mem[p].data = device[mem[p].inum]
         \/ mem[p].inum = Root /\ root = "taken"

(* Whatever a program changed in memory is on the volume when it exits:    *)
(* fs_inode_release writes nothing, and fs_mkdir relies on the fs_write of *)
(* the first entry to save the mode it set.                                *)
AllSaved == todo = <<>> => unsaved = {}
=============================================================================
