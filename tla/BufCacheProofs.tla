--------------------------- MODULE BufCacheProofs ---------------------------
(***************************************************************************)
(* Proofs about BufCache, for every number of blocks, of places for        *)
(* buffers and of references to one: the list and its counts are sound,    *)
(* and the buffers are a store with one content per block.                 *)
(***************************************************************************)
EXTENDS BufCache, SequenceTheorems, TLAPS

(* What the proofs need of a state: every part of it is checked by the     *)
(* runs, and together the parts are inductive.                             *)
IInv == TypeOK /\ ListIsLive /\ Coherent

-----------------------------------------------------------------------------
(* The list.                                                               *)

(* Every element is at some place, and the first place of an element that  *)
(* is there once is the only one.                                          *)
LEMMA ListFacts ==
  ASSUME TypeOK, ListIsLive
  PROVE  /\ Len(list) \in Nat /\ DOMAIN list = 1 .. Len(list)
         /\ \A k \in DOMAIN list : list[k] \in live
         /\ \A a \in live : \E k \in DOMAIN list : list[k] = a
         /\ \A k, m \in DOMAIN list : list[k] = list[m] => k = m
<1>1. Len(list) \in Nat /\ DOMAIN list = 1 .. Len(list)
  BY LenProperties DEF TypeOK
<1>2. live = {list[k] : k \in DOMAIN list}
  BY DEF ListIsLive, ToSet
<1>3. \A k, m \in DOMAIN list : list[k] = list[m] => k = m
  BY DEF ListIsLive, IsInjective
<1>. QED  BY <1>1, <1>2, <1>3

LEMMA MinOfOne ==
  ASSUME NEW k \in Nat
  PROVE  Min({k}) = k
BY DEF Min

(* A new buffer at the head.                                               *)
LEMMA HeadAdded ==
  ASSUME TypeOK, ListIsLive, NEW a \in Addr \ live, NEW s, s = <<a>> \o list
  PROVE  /\ s \in Seq(Addr)
         /\ ToSet(s) = live \union {a}
         /\ IsInjective(s)
<1>1. <<a>> \in Seq(Addr) /\ Len(<<a>>) = 1 /\ <<a>>[1] = a
  OBVIOUS
<1>2. /\ s \in Seq(Addr) /\ Len(s) = Len(list) + 1
      /\ \A k \in 1 .. Len(list) + 1 : s[k] = IF k = 1 THEN a ELSE list[k - 1]
  <2>1. list \in Seq(Addr) /\ Len(list) \in Nat
    BY ListFacts DEF TypeOK
  <2>2. /\ s \in Seq(Addr) /\ Len(s) = 1 + Len(list)
        /\ \A k \in 1 .. 1 + Len(list) : s[k] = IF k <= 1 THEN <<a>>[k] ELSE list[k - 1]
    BY <1>1, <2>1, ConcatProperties
  <2>. QED  BY <1>1, <2>1, <2>2
<1>3. DOMAIN s = 1 .. Len(list) + 1 /\ Len(list) \in Nat /\ DOMAIN list = 1 .. Len(list)
  BY <1>2, LenProperties, ListFacts
<1>4. ToSet(s) = live \union {a}
  <2>1. ASSUME NEW k \in DOMAIN s PROVE s[k] \in live \union {a}
    <3>1. CASE k = 1
      BY <3>1, <1>2, <1>3
    <3>2. CASE k # 1
      <4>1. k - 1 \in DOMAIN list /\ s[k] = list[k - 1]
        BY <3>2, <1>2, <1>3
      <4>. QED  BY <4>1, ListFacts
    <3>. QED  BY <3>1, <3>2
  <2>2. ASSUME NEW x \in live \union {a} PROVE \E k \in DOMAIN s : s[k] = x
    <3>1. CASE x = a
      BY <3>1, <1>2, <1>3
    <3>2. CASE x \in live
      <4>1. PICK k \in DOMAIN list : list[k] = x
        BY <3>2, ListFacts
      <4>2. k + 1 \in DOMAIN s /\ s[k + 1] = list[k]
        BY <1>2, <1>3
      <4>. QED  BY <4>1, <4>2
    <3>. QED  BY <3>1, <3>2
  <2>. QED  BY <2>1, <2>2 DEF ToSet
<1>5. ASSUME NEW k \in DOMAIN s, NEW m \in DOMAIN s, s[k] = s[m] PROVE k = m
  <2>1. \A n \in DOMAIN list : list[n] # a
    BY ListFacts
  <2>2. \A n \in DOMAIN s : n = 1 \/ (n - 1 \in DOMAIN list /\ s[n] = list[n - 1] /\ n \in Nat)
    BY <1>2, <1>3
  <2>3. s[1] = a
    BY <1>2, <1>3
  <2>4. CASE k = 1 \/ m = 1
    BY <2>1, <2>2, <2>3, <2>4, <1>5
  <2>5. CASE k # 1 /\ m # 1
    <3>1. k - 1 = m - 1
      BY <2>2, <2>5, <1>5, ListFacts
    <3>. QED  BY <3>1, <2>2, <2>5
  <2>. QED  BY <2>4, <2>5
<1>. QED  BY <1>2, <1>4, <1>5 DEF IsInjective

(* The list without a buffer that was in it.                               *)
LEMMA Unlinked ==
  ASSUME TypeOK, ListIsLive, NEW a \in live, NEW s, s = Unlink(a)
  PROVE  /\ s \in Seq(Addr)
         /\ ToSet(s) = live \ {a}
         /\ IsInjective(s)
<1>1. PICK p \in DOMAIN list : list[p] = a
  BY ListFacts
<1>2. Places(a) = {p} /\ p \in Nat
  BY <1>1, ListFacts DEF Places
<1>. DEFINE n == Len(list)
            l == SubSeq(list, 1, p - 1)
            r == SubSeq(list, p + 1, n)
<1>3. n \in Nat /\ p \in 1 .. n /\ DOMAIN list = 1 .. n
  BY <1>1, ListFacts
<1>4. \A k \in 1 .. n : list[k] \in Addr
  BY <1>3, ElementOfSeq DEF TypeOK
<1>5. s = l \o r
  BY <1>2, MinOfOne DEF Unlink, RemoveAt
<1>6. /\ l \in Seq(Addr) /\ Len(l) = p - 1
      /\ \A k \in 1 .. p - 1 : l[k] = list[k]
  <2>. DEFINE e == p - 1
  <2>1. 1 \in Int /\ e \in Int /\ \A k \in 1 .. e : list[k] \in Addr
    BY <1>3, <1>4
  <2>2. /\ SubSeq(list, 1, e) \in Seq(Addr)
        /\ Len(SubSeq(list, 1, e)) = IF 1 <= e THEN e - 1 + 1 ELSE 0
        /\ \A k \in 1 .. e - 1 + 1 : SubSeq(list, 1, e)[k] = list[1 + k - 1]
    <3>. HIDE DEF e
    <3>. QED  BY <2>1, SubSeqProperties
  <2>3. \A k \in 1 .. e : 1 + k - 1 = k /\ k \in 1 .. e - 1 + 1
    BY <1>3
  <2>. HIDE DEF l
  <2>4. l = SubSeq(list, 1, e)
    BY DEF l
  <2>5. (IF 1 <= e THEN e - 1 + 1 ELSE 0) = p - 1
    BY <1>3
  <2>. QED  BY <2>2, <2>3, <2>4, <2>5
<1>7. /\ r \in Seq(Addr) /\ Len(r) = n - p
      /\ \A k \in 1 .. n - p : r[k] = list[p + k]
  <2>. DEFINE e == p + 1
  <2>1. n \in Int /\ e \in Int /\ \A k \in e .. n : list[k] \in Addr
    BY <1>3, <1>4
  <2>2. /\ SubSeq(list, e, n) \in Seq(Addr)
        /\ Len(SubSeq(list, e, n)) = IF e <= n THEN n - e + 1 ELSE 0
        /\ \A k \in 1 .. n - e + 1 : SubSeq(list, e, n)[k] = list[e + k - 1]
    <3>. HIDE DEF e, n
    <3>. QED  BY <2>1, SubSeqProperties
  <2>3. \A k \in 1 .. n - p : e + k - 1 = p + k /\ k \in 1 .. n - e + 1
    BY <1>3
  <2>. HIDE DEF r
  <2>4. r = SubSeq(list, e, n)
    BY DEF r
  <2>5. (IF e <= n THEN n - e + 1 ELSE 0) = n - p
    BY <1>3
  <2>. QED  BY <2>2, <2>3, <2>4, <2>5
<1>. HIDE DEF l, r, n
<1>8. /\ s \in Seq(Addr) /\ Len(s) = n - 1
      /\ \A k \in 1 .. n - 1 : s[k] = IF k < p THEN list[k] ELSE list[k + 1]
  <2>1. /\ s \in Seq(Addr) /\ Len(s) = p - 1 + (n - p)
        /\ \A k \in 1 .. p - 1 + (n - p) : s[k] = IF k <= p - 1 THEN l[k] ELSE r[k - (p - 1)]
    BY <1>5, <1>6, <1>7, ConcatProperties
  <2>2. ASSUME NEW k \in 1 .. n - 1 PROVE s[k] = IF k < p THEN list[k] ELSE list[k + 1]
    <3>1. CASE k < p
      BY <3>1, <2>1, <1>3, <1>6
    <3>2. CASE ~(k < p)
      <4>1. k - (p - 1) \in 1 .. n - p /\ p + (k - (p - 1)) = k + 1
        BY <3>2, <1>3
      <4>. QED  BY <3>2, <4>1, <2>1, <1>3, <1>7
    <3>. QED  BY <3>1, <3>2
  <2>. QED  BY <2>1, <2>2, <1>3
<1>9. DOMAIN s = 1 .. n - 1
  BY <1>8, LenProperties
<1>. DEFINE from(k) == IF k < p THEN k ELSE k + 1
<1>10. \A k \in DOMAIN s : from(k) \in DOMAIN list \ {p} /\ s[k] = list[from(k)]
  BY <1>3, <1>8, <1>9
<1>11. ToSet(s) = live \ {a}
  <2>1. \A k \in DOMAIN s : s[k] \in live \ {a}
    BY <1>1, <1>10, ListFacts
  <2>2. ASSUME NEW x \in live \ {a} PROVE \E k \in DOMAIN s : s[k] = x
    <3>1. PICK m \in DOMAIN list : list[m] = x
      BY ListFacts
    <3>2. CASE m < p
      BY <3>1, <3>2, <1>3, <1>8, <1>9
    <3>3. CASE ~(m < p)
      <4>1. m - 1 \in DOMAIN s /\ ~(m - 1 < p) /\ m - 1 + 1 = m
        BY <3>1, <3>3, <1>1, <1>3, <1>9
      <4>. QED  BY <3>1, <4>1, <1>8, <1>9
    <3>. QED  BY <3>2, <3>3
  <2>. QED  BY <2>1, <2>2 DEF ToSet
<1>12. IsInjective(s)
  <2>1. \A k, m \in DOMAIN s : s[k] = s[m] => from(k) = from(m)
    BY <1>10, ListFacts
  <2>2. \A k, m \in DOMAIN s : from(k) = from(m) => k = m
    BY <1>3, <1>9
  <2>. QED  BY <2>1, <2>2 DEF IsInjective
<1>. QED  BY <1>8, <1>11, <1>12

-----------------------------------------------------------------------------
(* The invariant, step by step.                                            *)

LEMMA InitInv == Init => IInv
<1>. SUFFICES ASSUME Init PROVE IInv
  OBVIOUS
<1>1. TypeOK
  <2>1. list \in Seq(Addr)
    BY EmptySeq DEF Init
  <2>. QED  BY <2>1, BlankAssumption DEF Init, TypeOK, Buffer
<1>2. ListIsLive
  BY DEF Init, ListIsLive, ToSet, IsInjective
<1>3. Coherent
  BY DEF Init, Coherent
<1>. QED  BY <1>1, <1>2, <1>3 DEF IInv

(* A hit is a live buffer of that block.                                   *)
LEMMA HitIsLive ==
  ASSUME IInv, NEW b \in Block, Hits(b) # {}
  PROVE  /\ list[Min(Hits(b))] \in live
         /\ mem[list[Min(Hits(b))]].blocknum = b
<1>. USE DEF IInv
<1>1. PICK k \in DOMAIN list : mem[list[k]].blocknum = b
  BY DEF Hits
<1>2. \A m \in DOMAIN list : mem[list[m]].blocknum = b => m = k
  BY <1>1, ListFacts DEF Coherent
<1>3. Hits(b) = {k} /\ k \in Nat
  BY <1>1, <1>2, ListFacts DEF Hits
<1>. QED  BY <1>1, <1>3, MinOfOne, ListFacts

LEMMA BgetFoundInv ==
  ASSUME IInv, NEW b \in Block, BgetFound(b)
  PROVE  IInv'
<1>. USE DEF IInv
<1>1. PICK a \in live : /\ mem' = [mem EXCEPT ![a].refcount = @ + 1]
                        /\ held' = [held EXCEPT ![a] = @ + 1]
                        /\ UNCHANGED <<device, list, live, unsaved>>
  BY HitIsLive DEF BgetFound, Hold
<1>2. TypeOK'
  <2>1. a \in Addr /\ mem[a] \in Buffer /\ held[a] \in Nat
    BY DEF TypeOK
  <2>2. [mem[a] EXCEPT !.refcount = @ + 1] \in Buffer
    BY <2>1 DEF Buffer
  <2>3. mem' \in [Addr -> Buffer]
    BY <1>1, <2>1, <2>2 DEF TypeOK
  <2>4. held' \in [Addr -> Nat]
    BY <1>1, <2>1 DEF TypeOK
  <2>. QED  BY <1>1, <2>3, <2>4 DEF TypeOK
<1>3. ListIsLive'
  BY <1>1 DEF ListIsLive, TypeOK, Buffer, ToSet, IsInjective
<1>4. Coherent'
  BY <1>1 DEF Coherent, TypeOK, Buffer
<1>. QED  BY <1>2, <1>3, <1>4

LEMMA BgetNewInv ==
  ASSUME IInv, NEW b \in Block, BgetNew(b)
  PROVE  IInv'
<1>. USE DEF IInv
<1>1. PICK a \in Addr : NewBuffer(a, b)
  BY DEF BgetNew
<1>2. /\ a \in Addr \ live /\ held[a] = 0
      /\ mem' = [mem EXCEPT ![a] = [blocknum |-> b, refcount |-> 1, data |-> device[b]]]
      /\ live' = live \union {a} /\ list' = <<a>> \o list
      /\ held' = [held EXCEPT ![a] = @ + 1]
      /\ UNCHANGED <<device, unsaved>>
  BY <1>1 DEF NewBuffer, Hold, ListIsLive
<1>3. list' \in Seq(Addr) /\ ToSet(list') = live' /\ IsInjective(list')
  BY <1>2, HeadAdded
<1>4. \A c \in live : mem[c].blocknum # b
  BY ListFacts DEF BgetNew, Hits
<1>5. TypeOK'
  BY <1>2, <1>3 DEF TypeOK, Buffer
<1>6. ListIsLive'
  <2>1. /\ a \in live' /\ held'[a] = 1 /\ mem'[a].refcount = 1
        /\ \A c \in Addr \ {a} : /\ held'[c] = held[c] /\ mem'[c] = mem[c]
                                 /\ c \in live' <=> c \in live
    BY <1>2 DEF TypeOK
  <2>2. \A c \in Addr : held'[c] = IF c \in live' THEN mem'[c].refcount ELSE 0
    BY <2>1 DEF ListIsLive
  <2>. QED  BY <1>3, <2>2 DEF ListIsLive
<1>7. Coherent'
  BY <1>2, <1>4 DEF Coherent, TypeOK, Buffer
<1>. QED  BY <1>5, <1>6, <1>7

(* What is held is live.                                                   *)
LEMMA HeldIsLive ==
  ASSUME IInv, NEW a \in Addr, held[a] > 0
  PROVE  a \in live /\ held[a] = mem[a].refcount
BY DEF IInv, ListIsLive

LEMMA ChangeInv ==
  ASSUME IInv, NEW a \in Addr, NEW c \in Content, Change(a, c)
  PROVE  IInv'
<1>. USE DEF IInv
<1>1. a \in live
  BY HeldIsLive DEF Change
<1>2. TypeOK'
  BY <1>1 DEF Change, TypeOK, Buffer
<1>3. ListIsLive'
  BY DEF Change, ListIsLive, TypeOK, Buffer, ToSet, IsInjective
<1>4. Coherent'
  BY DEF Change, Coherent, TypeOK, Buffer
<1>. QED  BY <1>2, <1>3, <1>4

LEMMA BwriteInv ==
  ASSUME IInv, NEW a \in Addr, Bwrite(a)
  PROVE  IInv'
<1>. USE DEF IInv
<1>1. a \in live
  BY HeldIsLive DEF Bwrite
<1>2. TypeOK'
  BY <1>1 DEF Bwrite, TypeOK, Buffer
<1>3. ListIsLive'
  BY DEF Bwrite, ListIsLive, ToSet, IsInjective
<1>4. Coherent'
  BY <1>1 DEF Bwrite, Coherent, TypeOK, Buffer
<1>. QED  BY <1>2, <1>3, <1>4

LEMMA BrelseInv ==
  ASSUME IInv, NEW a \in Addr, Brelse(a)
  PROVE  IInv'
<1>. USE DEF IInv
<1>1. /\ a \in live /\ a \notin unsaved /\ held[a] = mem[a].refcount /\ held[a] > 0
      /\ held' = [held EXCEPT ![a] = @ - 1]
      /\ mem' = [mem EXCEPT ![a].refcount = @ - 1]
      /\ UNCHANGED <<device, unsaved>>
  BY HeldIsLive DEF Brelse
<1>2. held[a] \in Nat /\ held[a] - 1 \in Nat
  BY <1>1 DEF TypeOK
<1>3. CASE mem[a].refcount > 1
  <2>1. UNCHANGED <<list, live>>
    BY <1>3 DEF Brelse
  <2>2. TypeOK'
    BY <1>1, <1>2, <2>1 DEF TypeOK, Buffer
  <2>3. ListIsLive'
    BY <1>1, <2>1 DEF ListIsLive, TypeOK, Buffer, ToSet, IsInjective
  <2>4. Coherent'
    BY <1>1, <2>1 DEF Coherent, TypeOK, Buffer
  <2>. QED  BY <2>2, <2>3, <2>4
<1>4. CASE ~(mem[a].refcount > 1)
  <2>1. list' = Unlink(a) /\ live' = live \ {a}
    BY <1>4 DEF Brelse
  <2>2. list' \in Seq(Addr) /\ ToSet(list') = live' /\ IsInjective(list')
    BY <1>1, <2>1, Unlinked
  <2>3. TypeOK'
    BY <1>1, <1>2, <2>1, <2>2 DEF TypeOK, Buffer
  <2>4. held[a] - 1 = 0
    BY <1>1, <1>2, <1>4
  <2>5. ListIsLive'
    BY <1>1, <2>1, <2>2, <2>4 DEF ListIsLive, TypeOK, Buffer
  <2>6. Coherent'
    BY <1>1, <2>1 DEF Coherent, TypeOK, Buffer
  <2>. QED  BY <2>3, <2>5, <2>6
<1>. QED  BY <1>3, <1>4

LEMMA CrashInv ==
  ASSUME IInv, Crash
  PROVE  IInv'
<1>. USE DEF IInv
<1>1. TypeOK'
  BY EmptySeq DEF Crash, TypeOK
<1>2. ListIsLive'
  BY DEF Crash, ListIsLive, ToSet, IsInjective
<1>3. Coherent'
  BY DEF Crash, Coherent
<1>. QED  BY <1>1, <1>2, <1>3

LEMMA StepInv == IInv /\ [Next]_vars => IInv'
<1>. SUFFICES ASSUME IInv, [Next]_vars PROVE IInv'
  OBVIOUS
<1>1. ASSUME NEW b \in Block, BgetFound(b) PROVE IInv'
  BY <1>1, BgetFoundInv
<1>2. ASSUME NEW b \in Block, BgetNew(b) PROVE IInv'
  BY <1>2, BgetNewInv
<1>3. ASSUME NEW a \in Addr, Bwrite(a) PROVE IInv'
  BY <1>3, BwriteInv
<1>4. ASSUME NEW a \in Addr, Brelse(a) PROVE IInv'
  BY <1>4, BrelseInv
<1>5. ASSUME NEW a \in Addr, NEW c \in Content, Change(a, c) PROVE IInv'
  BY <1>5, ChangeInv
<1>6. CASE Crash
  BY <1>6, CrashInv
<1>7. CASE UNCHANGED vars
  BY <1>7 DEF vars, IInv, TypeOK, ListIsLive, Coherent, ToSet, IsInjective
<1>. QED  BY <1>1, <1>2, <1>3, <1>4, <1>5, <1>6, <1>7 DEF Next

(* The parts of IInv hold in every reachable state.                        *)
THEOREM Invariance == Spec => []IInv
<1>. QED  BY InitInv, StepInv, PTL DEF Spec

(* Every variable keeps its type, and only a live buffer is unsaved.       *)
THEOREM TypeCorrect == Spec => []TypeOK
<1>1. IInv => TypeOK
  BY DEF IInv
<1>. QED  BY <1>1, Invariance, PTL

(* However calls of fs_bio_bread and fs_bio_brelse are nested, a buffer is *)
(* freed with its last reference and not before, and no freed buffer stays *)
(* in the list.                                                            *)
THEOREM ListAlwaysLive == Spec => []ListIsLive
<1>1. IInv => ListIsLive
  BY DEF IInv
<1>. QED  BY <1>1, Invariance, PTL

(* No block ever has two buffers, and only a buffer with an unwritten      *)
(* change differs from its block.                                          *)
THEOREM AlwaysCoherent == Spec => []Coherent
<1>1. IInv => Coherent
  BY DEF IInv
<1>. QED  BY <1>1, Invariance, PTL

-----------------------------------------------------------------------------
(* The refinement.                                                         *)

(* What is seen of a block: the data of its buffer, or the device.         *)
SeenFacts ==
  /\ Seen = [b \in Block |-> Seen[b]]
  /\ \A b \in Block : (\A a \in live : mem[a].blocknum # b) => Seen[b] = device[b]
  /\ \A a \in live : mem[a].blocknum \in Block /\ Seen[mem[a].blocknum] = mem[a].data

LEMMA SeenIs == IInv => SeenFacts
<1>. SUFFICES ASSUME IInv PROVE SeenFacts
  OBVIOUS
<1>1. ASSUME NEW b \in Block, \A a \in live : mem[a].blocknum # b
      PROVE  Seen[b] = device[b]
  <2>1. Hits(b) = {}
    BY <1>1, ListFacts DEF Hits, IInv
  <2>. QED  BY <2>1 DEF Seen
<1>2. ASSUME NEW a \in live
      PROVE  mem[a].blocknum \in Block /\ Seen[mem[a].blocknum] = mem[a].data
  <2>. DEFINE b == mem[a].blocknum
  <2>1. b \in Block
    BY DEF IInv, TypeOK, Buffer
  <2>2. Hits(b) # {}
    BY ListFacts DEF Hits, IInv
  <2>3. list[Min(Hits(b))] = a
    BY <2>1, <2>2, HitIsLive DEF IInv, Coherent
  <2>. QED  BY <2>1, <2>2, <2>3 DEF Seen
<1>3. Seen = [b \in Block |-> Seen[b]]
  BY DEF Seen
<1>. QED  BY <1>1, <1>2, <1>3 DEF SeenFacts

LEMMA SeenIsNext == IInv' => SeenFacts'
BY SeenIs, PTL

Opened == {mem[a].blocknum : a \in live}

(* Nothing seen changes when each block keeps its device contents or its   *)
(* data in a buffer.                                                       *)
LEMMA SameSeen ==
  ASSUME SeenFacts, SeenFacts', \A b \in Block : Seen'[b] = Seen[b]
  PROVE  Seen' = Seen
BY DEF SeenFacts

(* A hit adds a reference and opens nothing.                               *)
LEMMA BgetFoundStep ==
  ASSUME IInv, SeenFacts, SeenFacts', NEW b \in Block, BgetFound(b)
  PROVE  Seen' = Seen /\ device' = device /\ Opened' = Opened
<1>1. PICK a \in live : /\ mem' = [mem EXCEPT ![a].refcount = @ + 1]
                        /\ UNCHANGED <<device, live>>
  BY HitIsLive DEF BgetFound
<1>2. \A c \in live : mem'[c].blocknum = mem[c].blocknum /\ mem'[c].data = mem[c].data
  BY <1>1 DEF IInv, TypeOK, Buffer
<1>3. Seen' = Seen
  <2>1. ASSUME NEW d \in Block PROVE Seen'[d] = Seen[d]
    BY <1>1, <1>2 DEF SeenFacts
  <2>. QED  BY <2>1, SameSeen
<1>. QED  BY <1>1, <1>2, <1>3 DEF Opened

(* A miss opens the block, and its new buffer shows what the device holds. *)
LEMMA BgetNewStep ==
  ASSUME IInv, SeenFacts, SeenFacts', NEW b \in Block, BgetNew(b)
  PROVE  Seen' = Seen /\ device' = device /\ Opened' = Opened \union {b}
<1>1. PICK a \in Addr : NewBuffer(a, b)
  BY DEF BgetNew
<1>2. /\ mem'[a].blocknum = b /\ mem'[a].data = device[b]
      /\ \A c \in live : mem'[c] = mem[c]
      /\ live' = live \union {a} /\ device' = device
  BY <1>1 DEF NewBuffer, IInv, TypeOK
<1>3. \A c \in live : mem[c].blocknum # b
  BY ListFacts DEF BgetNew, Hits, IInv
<1>4. Seen' = Seen
  <2>1. ASSUME NEW d \in Block PROVE Seen'[d] = Seen[d]
    BY <1>2, <1>3 DEF SeenFacts
  <2>. QED  BY <2>1, SameSeen
<1>. QED  BY <1>2, <1>4 DEF Opened

(* Whoever holds a buffer of the block changes what all see of it.         *)
LEMMA ChangeStep ==
  ASSUME IInv, SeenFacts, SeenFacts', NEW a \in Addr, NEW c \in Content, Change(a, c)
  PROVE  /\ mem[a].blocknum \in Opened
         /\ Seen' = [Seen EXCEPT ![mem[a].blocknum] = c]
         /\ device' = device /\ Opened' = Opened
<1>. DEFINE b == mem[a].blocknum
<1>1. a \in live /\ b \in Block
  BY HeldIsLive DEF Change, IInv, TypeOK, Buffer
<1>2. /\ mem'[a].data = c
      /\ \A d \in live : mem'[d].blocknum = mem[d].blocknum
      /\ \A d \in live \ {a} : mem'[d].data = mem[d].data
      /\ UNCHANGED <<device, live>>
  BY <1>1 DEF Change, IInv, TypeOK, Buffer
<1>3. Seen'[b] = c
  BY <1>1, <1>2 DEF SeenFacts
<1>4. ASSUME NEW d \in Block \ {b} PROVE Seen'[d] = Seen[d]
  BY <1>1, <1>2 DEF SeenFacts
<1>. HIDE DEF b
<1>5. Seen' = [Seen EXCEPT ![b] = c]
  <2>1. Seen' = [d \in Block |-> Seen'[d]] /\ Seen = [d \in Block |-> Seen[d]]
    BY DEF SeenFacts
  <2>. QED  BY <2>1, <1>1, <1>3, <1>4
<1>. QED  BY <1>1, <1>2, <1>5 DEF Opened, b

(* A write puts on the device what the holder sees.                        *)
LEMMA BwriteStep ==
  ASSUME IInv, SeenFacts, SeenFacts', NEW a \in Addr, Bwrite(a)
  PROVE  /\ mem[a].blocknum \in Opened /\ mem[a].blocknum \in Block
         /\ device' = [device EXCEPT ![mem[a].blocknum] = Seen[mem[a].blocknum]]
         /\ Seen' = Seen /\ Opened' = Opened
<1>1. a \in live /\ Seen[mem[a].blocknum] = mem[a].data
  BY HeldIsLive DEF Bwrite, SeenFacts
<1>2. UNCHANGED <<mem, live>> /\ device' = [device EXCEPT ![mem[a].blocknum] = mem[a].data]
  BY DEF Bwrite
<1>3. Seen' = Seen
  <2>1. ASSUME NEW d \in Block PROVE Seen'[d] = Seen[d]
    BY <1>1, <1>2 DEF SeenFacts, IInv, TypeOK
  <2>. QED  BY <2>1, SameSeen
<1>. QED  BY <1>1, <1>2, <1>3 DEF Opened, SeenFacts

(* Only the last release closes the block, and it shows no other content:  *)
(* the buffer was written.                                                 *)
LEMMA BrelseStep ==
  ASSUME IInv, SeenFacts, SeenFacts', NEW a \in Addr, Brelse(a)
  PROVE  /\ mem[a].blocknum \in Block
         /\ Seen' = Seen /\ device' = device
         /\ Opened' \in {Opened, Opened \ {mem[a].blocknum}}
<1>1. /\ a \in live /\ mem[a].blocknum \in Block
      /\ device[mem[a].blocknum] = mem[a].data
      /\ \A c \in live \ {a} : mem[c].blocknum # mem[a].blocknum
  BY HeldIsLive DEF Brelse, IInv, Coherent, TypeOK, Buffer
<1>2. /\ \A c \in live : mem'[c].blocknum = mem[c].blocknum /\ mem'[c].data = mem[c].data
      /\ live' \in {live, live \ {a}} /\ device' = device
  BY <1>1 DEF Brelse, IInv, TypeOK, Buffer
<1>3. Seen' = Seen
  <2>1. ASSUME NEW d \in Block PROVE Seen'[d] = Seen[d]
    BY <1>1, <1>2 DEF SeenFacts
  <2>. QED  BY <2>1, SameSeen
<1>4. CASE live' = live
  BY <1>1, <1>2, <1>3, <1>4 DEF Opened
<1>5. CASE live' = live \ {a}
  <2>1. Opened' = Opened \ {mem[a].blocknum}
    BY <1>1, <1>2, <1>5 DEF Opened
  <2>. QED  BY <1>1, <1>2, <1>3, <2>1
<1>. QED  BY <1>2, <1>4, <1>5

LEMMA CrashStep ==
  ASSUME IInv, SeenFacts, SeenFacts', Crash
  PROVE  Seen' = device /\ device' = device /\ Opened' = {}
<1>1. live' = {} /\ device' = device
  BY DEF Crash
<1>2. \A d \in Block : Seen'[d] = device[d]
  BY <1>1 DEF SeenFacts
<1>3. Seen' = device
  BY <1>2 DEF SeenFacts, IInv, TypeOK
<1>. QED  BY <1>1, <1>3 DEF Opened

(* Every step of the buffers is a step of the store, or changes nothing    *)
(* that the store has.                                                     *)
LEMMA StoreStep == IInv /\ IInv' /\ [Next]_vars => [Store!Next]_Store!vars
<1>. SUFFICES ASSUME IInv, IInv', [Next]_vars PROVE [Store!Next]_Store!vars
  OBVIOUS
<1>. USE SeenIs, SeenIsNext DEF Opened
<1>1. ASSUME NEW b \in Block, BgetFound(b) PROVE UNCHANGED Store!vars
  BY <1>1, BgetFoundStep DEF Store!vars
<1>2. ASSUME NEW b \in Block, BgetNew(b) PROVE Store!Open(b)
  BY <1>2, BgetNewStep DEF Store!Open
<1>3. ASSUME NEW a \in Addr, Bwrite(a)
      PROVE  mem[a].blocknum \in Block /\ Store!Write(mem[a].blocknum)
  BY <1>3, BwriteStep DEF Store!Write
<1>4. ASSUME NEW a \in Addr, Brelse(a)
      PROVE  Store!Next \/ UNCHANGED Store!vars
  BY <1>4, BrelseStep DEF Store!Next, Store!Close, Store!vars
<1>5. ASSUME NEW a \in Addr, NEW c \in Content, Change(a, c)
      PROVE  mem[a].blocknum \in Block /\ Store!Change(mem[a].blocknum, c)
  <2>1. mem[a].blocknum \in Block
    BY DEF IInv, TypeOK, Buffer
  <2>. QED  BY <1>5, <2>1, ChangeStep DEF Store!Change
<1>6. CASE Crash
  <2>1. Store!Crash
    BY <1>6, CrashStep DEF Store!Crash
  <2>. QED  BY <2>1 DEF Store!Next
<1>7. CASE UNCHANGED vars
  <2>1. UNCHANGED <<device, Seen, Opened>>
    BY <1>7 DEF vars, Seen, Hits
  <2>. QED  BY <2>1 DEF Store!vars
<1>. QED  BY <1>1, <1>2, <1>3, <1>4, <1>5, <1>6, <1>7 DEF Next, Store!Next

LEMMA StoreInit == Init => Store!Init
<1>. SUFFICES ASSUME Init PROVE Store!Init
  OBVIOUS
<1>1. SeenFacts
  BY InitInv, SeenIs
<1>2. Seen = device
  BY <1>1 DEF Init, SeenFacts
<1>. QED  BY <1>2 DEF Init, Store!Init

(* The code above libfs/bio sees one content per block: every holder reads *)
(* the last change, a write reaches the device whole, and a crash goes     *)
(* back to what was written.                                               *)
THEOREM ImplementsStore == Spec => RefinesStore
<1>. QED  BY StoreInit, StoreStep, Invariance, PTL DEF Spec, RefinesStore, Store!Spec
=============================================================================
