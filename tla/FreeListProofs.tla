---------------------------- MODULE FreeListProofs ----------------------------
(***************************************************************************)
(* Proofs about FreeList, for every length of the list and every size of   *)
(* the volume.  The lemmas of the first part are about a stack of lists    *)
(* held in any device content B with any set H of blocks in the hands of   *)
(* callers; the second part applies them to the steps of the code, and the *)
(* last maps these to the steps of BlockPool.                              *)
(***************************************************************************)
EXTENDS FreeList, SequenceTheorems, TLAPS

LEMMA Constants ==
  /\ Cap \in Nat /\ Cap > 1 /\ Cap < NFreeMax /\ NFreeMax \in Nat
  /\ FirstData \in Nat \ {0} /\ FSize \in Nat /\ FirstData \in Data
  /\ 0 \notin Data
  /\ Data \subseteq 0 .. FSize - 1
BY CapAssumption, SizeAssumption DEF FirstData, Data, NFreeMax

(* Sequences of blocks: what Append and Front do to them.                  *)
LEMMA SeqOps ==
  ASSUME NEW ch \in Seq(Data)
  PROVE  /\ Len(ch) \in Nat
         /\ \A k \in 1 .. Len(ch) : ch[k] \in Data
         /\ \A b \in Data : /\ Append(ch, b) \in Seq(Data)
                            /\ Len(Append(ch, b)) = Len(ch) + 1
                            /\ Append(ch, b)[Len(ch) + 1] = b
                            /\ \A k \in 1 .. Len(ch) : Append(ch, b)[k] = ch[k]
         /\ ch # <<>> => /\ Len(ch) > 0
                         /\ Front(ch) \in Seq(Data)
                         /\ Len(Front(ch)) = Len(ch) - 1
                         /\ \A k \in 1 .. Len(ch) - 1 : Front(ch)[k] = ch[k]
<1>1. /\ Len(ch) \in Nat
      /\ \A k \in 1 .. Len(ch) : ch[k] \in Data
  BY LenProperties, ElementOfSeq
<1>2. ASSUME NEW b \in Data
      PROVE  /\ Append(ch, b) \in Seq(Data)
             /\ Len(Append(ch, b)) = Len(ch) + 1
             /\ Append(ch, b)[Len(ch) + 1] = b
             /\ \A k \in 1 .. Len(ch) : Append(ch, b)[k] = ch[k]
  BY <1>1, AppendProperties
<1>3. ASSUME ch # <<>>
      PROVE  /\ Len(ch) > 0
             /\ Front(ch) \in Seq(Data)
             /\ Len(Front(ch)) = Len(ch) - 1
             /\ \A k \in 1 .. Len(ch) - 1 : Front(ch)[k] = ch[k]
  <2>1. Len(ch) \in Nat \ {0}
    BY <1>3, EmptySeq
  <2>2. \A i \in 1 .. Len(ch) - 1 : ch[i] \in Data
    BY <1>1
  <2>. DEFINE n == Len(ch) - 1
             f == SubSeq(ch, 1, n)
  <2>3. n \in Nat /\ n - 1 + 1 = n /\ \A i \in 1 .. n : 1 + i - 1 = i /\ ch[i] \in Data
    BY <2>1, <2>2
  <2>4. n = 0 <=> ~(1 <= n)
    BY <2>3
  <2>. HIDE DEF n
  <2>5. /\ f \in Seq(Data)
        /\ Len(f) = IF 1 <= n THEN n - 1 + 1 ELSE 0
        /\ \A i \in 1 .. n - 1 + 1 : f[i] = ch[1 + i - 1]
    BY <2>3, SubSeqProperties
  <2>. HIDE DEF f
  <2>6. Len(f) = n /\ \A i \in 1 .. n : f[i] = ch[i]
    BY <2>3, <2>4, <2>5
  <2>7. Front(ch) = f
    BY DEF Front, f, n
  <2>. QED  BY <2>1, <2>5, <2>6, <2>7 DEF n
<1>. QED  BY <1>1, <1>2, <1>3

-----------------------------------------------------------------------------
(* Facts about well-formed stacks.                                         *)

Content == [Data -> List]

(* A chain block is an entry of the list above it: no caller holds it, and *)
(* it appears once in the chain.                                           *)
LEMMA ChainNotHeld ==
  ASSUME NEW l \in List, NEW ch \in Seq(Data), NEW B \in Content, NEW H,
         WellFormed(l, ch, B, H)
  PROVE  /\ \A k \in 1 .. Len(ch) : ch[k] \in Data \ H
         /\ \A k, m \in 1 .. Len(ch) : ch[k] = ch[m] => k = m
<1>1. Len(ch) \in Nat
  BY SeqOps
<1>2. ASSUME NEW k \in 1 .. Len(ch)
      PROVE  k + 1 \in Lists(ch) /\ 0 \in Slots(l, ch, B, k + 1)
  <2>1. k + 1 \in Lists(ch)
    BY <1>1 DEF Lists
  <2>2. ListAt(l, ch, B, k + 1).nfree > 0
    <3>1. CASE k = Len(ch)
      <4>1. l.nfree # 0
        BY <3>1, <1>1 DEF WellFormed
      <4>2. ListAt(l, ch, B, k + 1) = l
        BY <3>1 DEF ListAt
      <4>. QED  BY <4>1, <4>2, Constants DEF WellFormed, List
    <3>2. CASE k # Len(ch)
      <4>1. k + 1 \in 1 .. Len(ch) /\ ListAt(l, ch, B, k + 1) = B[ch[k + 1]]
        BY <3>2, <1>1 DEF ListAt
      <4>. QED  BY <4>1, Constants DEF WellFormed
    <3>. QED  BY <3>1, <3>2
  <2>3. ListAt(l, ch, B, k + 1).nfree \in Nat
    <3>1. ListAt(l, ch, B, k + 1) \in List
      BY <2>1, SeqOps DEF ListAt, Content, Lists
    <3>. QED  BY <3>1 DEF List
  <2>. QED  BY <2>1, <2>2, <2>3 DEF Slots
<1>3. \A k \in 1 .. Len(ch) : Entry(l, ch, B, k + 1, 0) = ch[k]
  BY DEF WellFormed
<1>4. \A k \in 1 .. Len(ch) : ch[k] \in Data \ H
  BY <1>2, <1>3 DEF WellFormed, OnceEach
<1>5. ASSUME NEW k \in 1 .. Len(ch), NEW m \in 1 .. Len(ch), ch[k] = ch[m]
      PROVE  k = m
  <2>1. k + 1 = m + 1
    BY <1>2, <1>3, <1>5 DEF WellFormed, OnceEach
  <2>. QED  BY <2>1, <1>1
<1>. QED  BY <1>4, <1>5

(* Every slot of a stack has an index below Cap.                           *)
LEMMA SlotRange ==
  ASSUME NEW l \in List, NEW ch \in Seq(Data), NEW B \in Content, NEW H,
         WellFormed(l, ch, B, H), NEW k \in Lists(ch)
  PROVE  /\ ListAt(l, ch, B, k) \in List
         /\ ListAt(l, ch, B, k).nfree \in 0 .. Cap
         /\ Slots(l, ch, B, k) \subseteq 0 .. Cap - 1
         /\ k # Len(ch) + 1 => k \in 1 .. Len(ch)
         /\ k \in Nat
<1>1. Len(ch) \in Nat /\ \A m \in 1 .. Len(ch) : ch[m] \in Data
  BY SeqOps
<1>2. k \in Nat /\ (k # Len(ch) + 1 => k \in 1 .. Len(ch))
  BY <1>1 DEF Lists
<1>3. ListAt(l, ch, B, k) \in List /\ ListAt(l, ch, B, k).nfree \in 0 .. Cap
  <2>1. CASE k = Len(ch) + 1
    BY <2>1 DEF ListAt, WellFormed
  <2>2. CASE k # Len(ch) + 1
    <3>1. ListAt(l, ch, B, k) = B[ch[k]] /\ k \in 1 .. Len(ch) /\ ch[k] \in Data
      BY <1>1, <1>2, <2>2 DEF ListAt
    <3>2. B[ch[k]].nfree = Cap
      BY <3>1 DEF WellFormed
    <3>. QED  BY <3>1, <3>2, Constants DEF Content
  <2>. QED  BY <2>1, <2>2
<1>. QED  BY <1>2, <1>3, Constants DEF Slots

(* Writes to blocks outside the stack, and callers that receive blocks     *)
(* outside it, leave it well formed.                                       *)
LEMMA Frame ==
  ASSUME NEW l \in List, NEW ch \in Seq(Data), NEW B \in Content, NEW H,
         WellFormed(l, ch, B, H),
         NEW C \in Content, NEW G,
         \A k \in 1 .. Len(ch) : C[ch[k]] = B[ch[k]],
         \A k \in Lists(ch) : \A i \in Slots(l, ch, B, k) :
           Entry(l, ch, B, k, i) \notin G
  PROVE  /\ WellFormed(l, ch, C, G)
         /\ \A k \in Lists(ch) : ListAt(l, ch, C, k) = ListAt(l, ch, B, k)
<1>1. Len(ch) \in Nat
  BY SeqOps
<1>2. \A k \in Lists(ch) : ListAt(l, ch, C, k) = ListAt(l, ch, B, k)
  BY <1>1 DEF Lists, ListAt
<1>3. \A k \in Lists(ch) : /\ Slots(l, ch, C, k) = Slots(l, ch, B, k)
                           /\ \A i : Entry(l, ch, C, k, i) = Entry(l, ch, B, k, i)
  BY <1>2 DEF Slots, Entry
<1>4. OnceEach(l, ch, C, G)
  BY <1>3 DEF OnceEach, WellFormed
<1>5. 1 \in Lists(ch) /\ \A k \in 1 .. Len(ch) : k + 1 \in Lists(ch)
  BY <1>1 DEF Lists
<1>. QED  BY <1>2, <1>3, <1>4, <1>5 DEF WellFormed

(* Taking the last entry of the newest list leaves a well-formed stack     *)
(* that the entry is not in.                                               *)
LEMMA PopOK ==
  ASSUME NEW l \in List, NEW ch \in Seq(Data), NEW B \in Content, NEW H,
         WellFormed(l, ch, B, H), l.nfree > 1, NEW q, q = Pop(l)
  PROVE  /\ q \in List /\ q.nfree \in 1 .. Cap
         /\ WellFormed(q, ch, B, H)
         /\ Top(l) \in Data \ H
         /\ \A k \in Lists(ch) : \A i \in Slots(q, ch, B, k) :
              Entry(q, ch, B, k, i) # Top(l)
<1>. DEFINE t == Len(ch) + 1
<1>1. Len(ch) \in Nat /\ t \in Lists(ch) /\ 1 \in Lists(ch)
  BY SeqOps DEF Lists
<1>2. l.nfree \in 2 .. Cap /\ q \in List /\ q.nfree = l.nfree - 1
      /\ q.free = l.free
  BY Constants DEF WellFormed, Pop, List, NFreeMax
<1>3. \A k \in Lists(ch) : \A i : Entry(q, ch, B, k, i) = Entry(l, ch, B, k, i)
  BY <1>2 DEF Entry, ListAt
<1>4. \A k \in Lists(ch) \ {t} : Slots(q, ch, B, k) = Slots(l, ch, B, k)
  BY DEF Slots, ListAt
<1>5. /\ Slots(q, ch, B, t) = 0 .. l.nfree - 2
      /\ Slots(l, ch, B, t) = 0 .. l.nfree - 1
      /\ l.nfree - 1 \in Slots(l, ch, B, t)
      /\ Top(l) = Entry(l, ch, B, t, l.nfree - 1)
  BY <1>2 DEF Slots, ListAt, Top, Entry
<1>6. \A k \in Lists(ch) : \A i \in Slots(q, ch, B, k) :
        /\ i \in Slots(l, ch, B, k)
        /\ k = t => i # l.nfree - 1
  BY <1>2, <1>4, <1>5
<1>7. OnceEach(q, ch, B, H)
  <2>1. \A k \in Lists(ch) : \A i \in Slots(q, ch, B, k) :
          Entry(q, ch, B, k, i) \in Data \ H
    BY <1>3, <1>6 DEF WellFormed, OnceEach
  <2>2. \A k, m \in Lists(ch) :
          \A i \in Slots(q, ch, B, k), j \in Slots(q, ch, B, m) :
            Entry(q, ch, B, k, i) = Entry(q, ch, B, m, j) => k = m /\ i = j
    BY <1>3, <1>6 DEF WellFormed, OnceEach
  <2>. QED  BY <2>1, <2>2 DEF OnceEach
<1>8. \A k \in 1 .. Len(ch) : k + 1 \in Lists(ch)
  BY <1>1 DEF Lists
<1>9. WellFormed(q, ch, B, H)
  <2>1. q.nfree \in 0 .. Cap /\ q.nfree # 0
    BY <1>2, Constants
  <2>2. l.nfree > 0
    BY <1>2, Constants
  <2>3. \A k \in 1 .. Len(ch) : Entry(q, ch, B, k + 1, 0) = ch[k]
    BY <1>3, <1>8 DEF WellFormed
  <2>4. Entry(q, ch, B, 1, 0) = FirstData
    BY <1>1, <1>3, <2>2 DEF WellFormed
  <2>. QED  BY <1>7, <2>1, <2>3, <2>4 DEF WellFormed
<1>10. Top(l) \in Data \ H
  BY <1>1, <1>5 DEF WellFormed, OnceEach
<1>11. \A k \in Lists(ch) : \A i \in Slots(q, ch, B, k) :
         Entry(q, ch, B, k, i) # Top(l)
  BY <1>1, <1>3, <1>5, <1>6 DEF WellFormed, OnceEach
<1>. QED  BY <1>2, Constants, <1>9, <1>10, <1>11

(* The list stored in the newest chain block is full, and with the rest of *)
(* the chain it is a well-formed stack whose slots are those of the older  *)
(* lists.                                                                  *)
LEMMA RefillOK ==
  ASSUME NEW l \in List, NEW ch \in Seq(Data), NEW B \in Content, NEW H,
         WellFormed(l, ch, B, H), ch # <<>>,
         NEW m, m = B[ch[Len(ch)]], NEW f, f = Front(ch)
  PROVE  /\ m \in List /\ m.nfree = Cap
         /\ f \in Seq(Data) /\ Lists(f) = 1 .. Len(ch)
         /\ \A k \in 1 .. Len(ch) : ListAt(m, f, B, k) = ListAt(l, ch, B, k)
         /\ WellFormed(m, f, B, H)
<1>1. /\ Len(ch) \in Nat /\ Len(ch) > 0 /\ f \in Seq(Data) /\ Len(f) = Len(ch) - 1
      /\ \A k \in 1 .. Len(f) : f[k] = ch[k]
      /\ \A k \in 1 .. Len(ch) : ch[k] \in Data
  BY SeqOps
<1>2. m \in List /\ m.nfree = Cap
  BY <1>1 DEF Content, WellFormed
<1>3. Lists(f) = 1 .. Len(ch) /\ Lists(f) \subseteq Lists(ch)
  BY <1>1 DEF Lists
<1>4. \A k \in Lists(f) : ListAt(m, f, B, k) = ListAt(l, ch, B, k)
  BY <1>1, <1>3 DEF ListAt
<1>5. \A k \in Lists(f) : /\ Slots(m, f, B, k) = Slots(l, ch, B, k)
                          /\ \A i : Entry(m, f, B, k, i) = Entry(l, ch, B, k, i)
  BY <1>4 DEF Slots, Entry
<1>6. OnceEach(m, f, B, H)
  BY <1>3, <1>5 DEF OnceEach, WellFormed
<1>8. \A k \in 1 .. Len(f) : B[f[k]].nfree = Cap
  BY <1>1 DEF WellFormed
<1>9. \A k \in 1 .. Len(f) : Entry(m, f, B, k + 1, 0) = f[k]
  <2>1. \A k \in 1 .. Len(f) : k + 1 \in Lists(f) /\ k \in 1 .. Len(ch)
    BY <1>1, <1>3
  <2>. QED  BY <1>1, <1>5, <2>1 DEF WellFormed
<1>10. Entry(m, f, B, 1, 0) = FirstData
  <2>1. 1 \in Lists(f)
    BY <1>1, <1>3
  <2>2. l.nfree > 0
    BY Constants DEF WellFormed, List
  <2>. QED  BY <1>5, <2>1, <2>2 DEF WellFormed
<1>11. m.nfree \in 0 .. Cap /\ m.nfree # 0
  BY <1>2, Constants
<1>12. WellFormed(m, f, B, H)
  BY <1>6, <1>8, <1>9, <1>10, <1>11 DEF WellFormed
<1>. QED  BY <1>1, <1>2, <1>3, <1>4, <1>12

(* A block in the hands of a caller can be added to a list with room.      *)
LEMMA PushOK ==
  ASSUME NEW l \in List, NEW ch \in Seq(Data), NEW B \in Content,
         NEW H \in SUBSET Data, NEW b \in H,
         WellFormed(l, ch, B, H), ~Full(l), l.nfree = 0 => b = FirstData,
         NEW q, q = Push(l, b), NEW G, G = H \ {b}
  PROVE  q \in List /\ q.nfree \in 1 .. Cap /\ WellFormed(q, ch, B, G)
<1>. DEFINE t == Len(ch) + 1
<1>1. Len(ch) \in Nat /\ t \in Lists(ch) /\ 1 \in Lists(ch)
      /\ \A k \in 1 .. Len(ch) : k + 1 \in Lists(ch)
  BY SeqOps DEF Lists
<1>2. l.nfree \in 0 .. Cap - 1 /\ l.free \in [0 .. Cap - 1 -> Nat] /\ b \in Nat
  BY Constants DEF WellFormed, List, Full
<1>3. /\ q.nfree = l.nfree + 1 /\ q.free[l.nfree] = b
      /\ \A i \in 0 .. l.nfree - 1 : q.free[i] = l.free[i]
      /\ q.free \in [0 .. Cap - 1 -> Nat]
  BY <1>2, Constants DEF Push
<1>4. q \in List
  BY <1>2, <1>3, Constants DEF Push, List
<1>5. /\ Slots(l, ch, B, t) = 0 .. l.nfree - 1
      /\ Slots(q, ch, B, t) = 0 .. l.nfree
      /\ Entry(q, ch, B, t, l.nfree) = b
      /\ \A i \in 0 .. l.nfree - 1 : Entry(q, ch, B, t, i) = Entry(l, ch, B, t, i)
  BY <1>2, <1>3 DEF Slots, ListAt, Entry
<1>6. \A k \in Lists(ch) \ {t} :
        /\ Slots(q, ch, B, k) = Slots(l, ch, B, k)
        /\ \A i : Entry(q, ch, B, k, i) = Entry(l, ch, B, k, i)
  BY DEF Slots, ListAt, Entry
<1>7. \A k \in Lists(ch) : \A i \in Slots(q, ch, B, k) :
        \/ k = t /\ i = l.nfree /\ Entry(q, ch, B, k, i) = b
        \/ i \in Slots(l, ch, B, k) /\ Entry(q, ch, B, k, i) = Entry(l, ch, B, k, i)
  BY <1>2, <1>5, <1>6
<1>8. OnceEach(q, ch, B, G)
  <2>1. \A k \in Lists(ch) : \A i \in Slots(l, ch, B, k) :
          Entry(l, ch, B, k, i) \in Data \ H /\ Entry(l, ch, B, k, i) # b
    BY DEF WellFormed, OnceEach
  <2>2. \A k \in Lists(ch) : \A i \in Slots(q, ch, B, k) :
          Entry(q, ch, B, k, i) \in Data \ (G)
    BY <1>7, <2>1
  <2>3. ASSUME NEW k \in Lists(ch), NEW m \in Lists(ch),
               NEW i \in Slots(q, ch, B, k), NEW j \in Slots(q, ch, B, m),
               Entry(q, ch, B, k, i) = Entry(q, ch, B, m, j)
        PROVE  k = m /\ i = j
    <3>1. CASE Entry(q, ch, B, k, i) = b
      BY <1>7, <2>1, <2>3, <3>1, ZenonT(30)
    <3>2. CASE Entry(q, ch, B, k, i) # b
      <4>1. /\ i \in Slots(l, ch, B, k) /\ j \in Slots(l, ch, B, m)
            /\ Entry(l, ch, B, k, i) = Entry(l, ch, B, m, j)
        BY <1>7, <2>3, <3>2
      <4>. QED  BY <4>1 DEF WellFormed, OnceEach
    <3>. QED  BY <3>1, <3>2
  <2>. QED  BY <2>2, <2>3 DEF OnceEach
<1>9. \A k \in 1 .. Len(ch) : Entry(q, ch, B, k + 1, 0) = ch[k]
  <2>. SUFFICES ASSUME NEW k \in 1 .. Len(ch)
                PROVE  Entry(q, ch, B, k + 1, 0) = ch[k]
    OBVIOUS
  <2>1. l.nfree > 0
    BY <1>1, <1>2 DEF WellFormed
  <2>2. Entry(q, ch, B, k + 1, 0) = Entry(l, ch, B, k + 1, 0)
    BY <1>1, <1>2, <1>5, <1>6, <2>1
  <2>. QED  BY <2>2 DEF WellFormed
<1>10. Entry(q, ch, B, 1, 0) = FirstData
  <2>1. CASE l.nfree = 0
    <3>1. ch = <<>> /\ t = 1
      BY <2>1, <1>1, EmptySeq DEF WellFormed
    <3>. QED  BY <2>1, <3>1, <1>5
  <2>2. CASE l.nfree # 0
    <3>1. l.nfree > 0 /\ Entry(l, ch, B, 1, 0) = FirstData
      BY <2>2, <1>2 DEF WellFormed
    <3>. QED  BY <1>1, <1>2, <1>5, <1>6, <3>1
  <2>. QED  BY <2>1, <2>2
<1>11. q.nfree = l.nfree + 1 /\ q.nfree \in 1 .. Cap /\ q.nfree # 0
  <2>1. l.nfree + 1 \in 1 .. Cap /\ l.nfree + 1 # 0
    BY <1>2, Constants
  <2>. QED  BY <1>3, <2>1
<1>12. WellFormed(q, ch, B, G)
  BY <1>8, <1>9, <1>10, <1>11 DEF WellFormed
<1>. QED  BY <1>4, <1>11, <1>12

(* A full list can be stored in a block that a caller gives up, which      *)
(* becomes entry 0 of a new list.                                          *)
LEMMA StartOK ==
  ASSUME NEW l \in List, NEW ch \in Seq(Data), NEW B \in Content,
         NEW H \in SUBSET Data, NEW b \in H,
         WellFormed(l, ch, B, H), Full(l),
         NEW q \in List, q.nfree = 1, q.free[0] = b,
         NEW a \in Seq(Data), Len(a) = Len(ch) + 1, a[Len(ch) + 1] = b,
         \A k \in 1 .. Len(ch) : a[k] = ch[k],
         NEW C \in Content, C[b] = l, \A d \in Data \ {b} : C[d] = B[d],
         NEW G, G = H \ {b}
  PROVE  /\ WellFormed(l, ch, C, G)
         /\ WellFormed(q, a, C, G)
<1>1. /\ Len(ch) \in Nat
      /\ a \in Seq(Data) /\ Len(a) = Len(ch) + 1 /\ a[Len(ch) + 1] = b
      /\ \A k \in 1 .. Len(ch) : a[k] = ch[k] /\ ch[k] \in Data
  BY SeqOps
<1>2. b \in Nat /\ b \in Data /\ l.nfree = Cap
  BY Constants DEF Full
<1>3. q \in List /\ q.nfree = 1 /\ q.free[0] = b
  OBVIOUS
<1>4. C \in Content /\ C[b] = l /\ \A d \in Data \ {b} : C[d] = B[d]
  OBVIOUS
<1>5. \A k \in 1 .. Len(ch) : C[ch[k]] = B[ch[k]] /\ ch[k] # b
  BY <1>1, <1>4, ChainNotHeld
<1>6. /\ WellFormed(l, ch, C, H)
      /\ \A k \in Lists(ch) : ListAt(l, ch, C, k) = ListAt(l, ch, B, k)
  <2>1. \A k \in Lists(ch) : \A i \in Slots(l, ch, B, k) : Entry(l, ch, B, k, i) \notin H
    BY DEF WellFormed, OnceEach
  <2>. QED  BY <1>4, <1>5, <2>1, Frame
<1>7. /\ Lists(a) = Lists(ch) \union {Len(ch) + 2} /\ Len(ch) + 2 \notin Lists(ch)
      /\ ListAt(q, a, C, Len(ch) + 2) = q
      /\ Slots(q, a, C, Len(ch) + 2) = {0}
      /\ Entry(q, a, C, Len(ch) + 2, 0) = b
  BY <1>1, <1>3 DEF Lists, ListAt, Slots, Entry
<1>8. \A k \in Lists(ch) : ListAt(q, a, C, k) = ListAt(l, ch, C, k)
  <2>. SUFFICES ASSUME NEW k \in Lists(ch)
                PROVE  ListAt(q, a, C, k) = ListAt(l, ch, C, k)
    OBVIOUS
  <2>1. CASE k = Len(ch) + 1
    BY <2>1, <1>1, <1>4 DEF ListAt
  <2>2. CASE k # Len(ch) + 1
    <3>1. k \in 1 .. Len(ch) /\ k # Len(a) + 1
      BY <2>2, <1>1 DEF Lists
    <3>. QED  BY <3>1, <2>2, <1>1 DEF ListAt
  <2>. QED  BY <2>1, <2>2
<1>9. \A k \in Lists(ch) : /\ Slots(q, a, C, k) = Slots(l, ch, C, k)
                           /\ \A i : Entry(q, a, C, k, i) = Entry(l, ch, C, k, i)
  BY <1>8 DEF Slots, Entry
<1>10. OnceEach(q, a, C, G)
  <2>1. \A k \in Lists(ch) : \A i \in Slots(q, a, C, k) :
          Entry(q, a, C, k, i) \in Data \ H /\ Entry(q, a, C, k, i) # b
    BY <1>6, <1>9 DEF WellFormed, OnceEach
  <2>2. \A k \in Lists(a) : \A i \in Slots(q, a, C, k) :
          Entry(q, a, C, k, i) \in Data \ (G)
    BY <1>2, <1>7, <2>1
  <2>3. ASSUME NEW k \in Lists(a), NEW m \in Lists(a),
               NEW i \in Slots(q, a, C, k), NEW j \in Slots(q, a, C, m),
               Entry(q, a, C, k, i) = Entry(q, a, C, m, j)
        PROVE  k = m /\ i = j
    <3>1. CASE Entry(q, a, C, k, i) = b
      <4>1. k \notin Lists(ch) /\ m \notin Lists(ch)
        BY <2>1, <2>3, <3>1
      <4>. QED  BY <1>7, <4>1
    <3>2. CASE Entry(q, a, C, k, i) # b
      <4>1. k \in Lists(ch) /\ m \in Lists(ch)
        BY <1>7, <2>3, <3>2
      <4>. QED  BY <1>6, <1>9, <2>3, <4>1 DEF WellFormed, OnceEach
    <3>. QED  BY <3>1, <3>2
  <2>. QED  BY <2>2, <2>3 DEF OnceEach
<1>11. \A k \in 1 .. Len(a) : C[a[k]].nfree = Cap
  <2>. SUFFICES ASSUME NEW k \in 1 .. Len(a) PROVE C[a[k]].nfree = Cap
    OBVIOUS
  <2>1. CASE k = Len(ch) + 1
    BY <2>1, <1>1, <1>2, <1>4
  <2>2. CASE k # Len(ch) + 1
    <3>1. k \in 1 .. Len(ch)
      BY <2>2, <1>1
    <3>. QED  BY <3>1, <1>1, <1>6 DEF WellFormed
  <2>. QED  BY <2>1, <2>2
<1>12. \A k \in 1 .. Len(a) : Entry(q, a, C, k + 1, 0) = a[k]
  <2>. SUFFICES ASSUME NEW k \in 1 .. Len(a) PROVE Entry(q, a, C, k + 1, 0) = a[k]
    OBVIOUS
  <2>1. CASE k = Len(ch) + 1
    BY <2>1, <1>1, <1>7
  <2>2. CASE k # Len(ch) + 1
    <3>1. k \in 1 .. Len(ch) /\ k + 1 \in Lists(ch)
      BY <2>2, <1>1 DEF Lists
    <3>. QED  BY <3>1, <1>1, <1>6, <1>9 DEF WellFormed
  <2>. QED  BY <2>1, <2>2
<1>13. Entry(q, a, C, 1, 0) = FirstData
  <2>1. 1 \in Lists(ch) /\ l.nfree > 0
    BY <1>1, <1>2, Constants DEF Lists
  <2>. QED  BY <1>6, <1>9, <2>1 DEF WellFormed
<1>14. q.nfree \in 0 .. Cap /\ q.nfree # 0
  BY <1>3, Constants
<1>15. WellFormed(q, a, C, G)
  BY <1>10, <1>11, <1>12, <1>13, <1>14 DEF WellFormed
<1>16. WellFormed(l, ch, C, G)
  BY <1>6 DEF WellFormed, OnceEach
<1>. QED  BY <1>15, <1>16

(* Shrinking the set of blocks in the hands of callers is harmless.        *)
LEMMA FewerHeld ==
  ASSUME NEW l \in List, NEW ch \in Seq(Data), NEW B \in Content,
         NEW H, NEW G \in SUBSET H, WellFormed(l, ch, B, H)
  PROVE  WellFormed(l, ch, B, G)
BY DEF WellFormed, OnceEach

(* Entry 0 of the newest list is a data block, the newest chain block or   *)
(* the first block mkfs freed.                                             *)
LEMMA NewestLink ==
  ASSUME NEW l \in List, NEW ch \in Seq(Data), NEW B \in Content, NEW H,
         WellFormed(l, ch, B, H), l.nfree > 0
  PROVE  /\ l.free[0] \in Data \ H
         /\ ch = <<>> => l.free[0] = FirstData
         /\ ch # <<>> => l.free[0] = ch[Len(ch)]
<1>. DEFINE t == Len(ch) + 1
<1>1. Len(ch) \in Nat /\ t \in Lists(ch)
  BY SeqOps DEF Lists
<1>2. Entry(l, ch, B, t, 0) = l.free[0]
  BY DEF Entry, ListAt
<1>3. 0 \in Slots(l, ch, B, t)
  BY DEF WellFormed, Slots, ListAt
<1>4. l.free[0] \in Data \ H
  BY <1>1, <1>2, <1>3 DEF WellFormed, OnceEach
<1>5. ASSUME ch = <<>> PROVE l.free[0] = FirstData
  <2>1. t = 1
    BY <1>5, EmptySeq
  <2>. QED  BY <1>2, <2>1 DEF WellFormed
<1>6. ASSUME ch # <<>> PROVE l.free[0] = ch[Len(ch)]
  <2>1. Len(ch) \in 1 .. Len(ch)
    BY <1>6, SeqOps
  <2>. QED  BY <1>2, <2>1 DEF WellFormed
<1>. QED  BY <1>4, <1>5, <1>6

(* The first block mkfs freed is not a chain block and no caller holds it. *)
LEMMA BottomNotHeld ==
  ASSUME NEW l \in List, NEW ch \in Seq(Data), NEW B \in Content, NEW H,
         WellFormed(l, ch, B, H), l.nfree > 0
  PROVE  FirstData \notin H
<1>1. Len(ch) \in Nat /\ 1 \in Lists(ch)
  BY SeqOps DEF Lists
<1>2. Entry(l, ch, B, 1, 0) = FirstData
  BY DEF WellFormed
<1>3. ListAt(l, ch, B, 1).nfree > 0
  <2>1. CASE Len(ch) = 0
    BY <2>1 DEF ListAt
  <2>2. CASE Len(ch) # 0
    <3>1. 1 \in 1 .. Len(ch) /\ 1 # Len(ch) + 1
      BY <1>1, <2>2
    <3>. QED  BY <3>1, Constants DEF ListAt, WellFormed
  <2>. QED  BY <2>1, <2>2
<1>4. 0 \in Slots(l, ch, B, 1)
  BY <1>1, <1>3, SlotRange DEF Slots
<1>. QED  BY <1>1, <1>2, <1>4 DEF WellFormed, OnceEach

-----------------------------------------------------------------------------
(* The invariant and the steps of the code.                                *)

LEMMA InitInv == Init => IInv
<1>. SUFFICES ASSUME Init PROVE IInv
  OBVIOUS
<1>1. ZeroList \in List /\ ZeroList.nfree = 0
  BY Constants DEF ZeroList, List
<1>2. TypeOK
  BY <1>1, Constants, EmptySeq, FormerAssumption DEF Init, TypeOK, Data
<1>3. next .. FSize - 1 = held
  BY <1>1, Constants DEF Init, Data
<1>4. WellFormed(sb, chain, blk, held)
  <2>1. chain = <<>> /\ Len(chain) = 0 /\ sb.nfree = 0
    BY <1>1, EmptySeq DEF Init
  <2>2. \A k \in Lists(chain) : Slots(sb, chain, blk, k) = {}
    BY <2>1 DEF Lists, Slots, ListAt
  <2>3. OnceEach(sb, chain, blk, held)
    BY <2>2 DEF OnceEach
  <2>. QED  BY <2>1, <2>3, Constants DEF WellFormed
<1>5. sb = dsb /\ chain = dchain /\ pc = "idle" /\ next = FirstData
      /\ origin = "pool" /\ dorigin = "pool"
  BY <1>1, Constants DEF Init
<1>. QED  BY <1>2, <1>3, <1>4, <1>5 DEF IInv

LEMMA BfreeInv ==
  ASSUME IInv, pc = "idle", NEW b \in held, Bfree(b),
         next' \in FirstData .. FSize, next' .. FSize - 1 \subseteq held \ {b},
         sb.nfree = 0 => b = FirstData
  PROVE  IInv'
<1>1. /\ TypeOK /\ sb = dsb /\ chain = dchain
      /\ WellFormed(sb, chain, blk, held)
  BY DEF IInv
<1>2. /\ sb \in List /\ chain \in Seq(Data) /\ blk \in Content
      /\ held \in SUBSET Data /\ b \in held /\ b \in Data /\ b \in 0 .. FSize - 1
  BY <1>1, Constants DEF TypeOK, Content
<1>3. /\ held' = held \ {b} /\ arg' = b /\ pc' = "free_sb"
      /\ dsb' = sb /\ dchain' = chain
  BY <1>1 DEF Bfree
<1>4. /\ sb' \in List /\ sb'.nfree \in 1 .. Cap
      /\ blk' \in Content
      /\ chain' \in Seq(Data)
      /\ WellFormed(sb', chain', blk', held')
      /\ WellFormed(sb, chain, blk', held')
      /\ \/ ~Full(sb) /\ sb' = Push(sb, b) /\ chain' = chain
         \/ /\ Full(sb) /\ sb' = StartList(sb, b)
            /\ chain' = Append(chain, b) /\ blk'[b] = sb
  <2>1. CASE ~Full(sb)
    <3>1. sb' = Push(sb, b) /\ blk' = blk /\ chain' = chain
      BY <2>1 DEF Bfree
    <3>2. WellFormed(sb, chain, blk, held')
      BY <1>1, <1>2, <1>3, FewerHeld
    <3>3. sb' \in List /\ sb'.nfree \in 1 .. Cap /\ WellFormed(sb', chain, blk, held')
      <4>1. /\ sb \in List /\ chain \in Seq(Data) /\ blk \in Content
            /\ held \in SUBSET Data /\ b \in held /\ WellFormed(sb, chain, blk, held)
            /\ ~Full(sb) /\ (sb.nfree = 0 => b = FirstData)
            /\ sb' = Push(sb, b) /\ held' = held \ {b}
        BY <1>1, <1>2, <1>3, <2>1, <3>1
      <4>. QED  BY ONLY <4>1, PushOK
    <3>. QED  BY <1>1, <1>2, <2>1, <3>1, <3>2, <3>3 DEF TypeOK
  <2>2. CASE Full(sb)
    <3>1. /\ sb' = StartList(sb, b) /\ blk' = [blk EXCEPT ![b] = sb]
          /\ chain' = Append(chain, b)
      BY <2>2 DEF Bfree
    <3>2. /\ chain' \in Seq(Data) /\ Len(chain') = Len(chain) + 1
          /\ chain'[Len(chain) + 1] = b
          /\ \A k \in 1 .. Len(chain) : chain'[k] = chain[k]
      BY <1>2, <3>1, SeqOps
    <3>3. sb' \in List /\ sb'.nfree = 1 /\ sb'.free[0] = b
      BY <1>2, <3>1, Constants DEF StartList, List
    <3>4. /\ blk' \in Content /\ blk'[b] = sb /\ sb.nfree = Cap
          /\ \A d \in Data \ {b} : blk'[d] = blk[d]
      BY <1>2, <2>2, <3>1 DEF Full, Content
    <3>5. WellFormed(sb, chain, blk', held') /\ WellFormed(sb', chain', blk', held')
      BY <1>1, <1>2, <1>3, <2>2, <3>2, <3>3, <3>4, StartOK
    <3>6. sb'.nfree \in 1 .. Cap
      BY <3>3, Constants
    <3>. QED  BY <2>2, <3>1, <3>2, <3>3, <3>4, <3>5, <3>6
  <2>. QED  BY <2>1, <2>2
<1>5. sb'.nfree <= Cap /\ sb'.nfree # 0
  BY <1>4, Constants
<1>6. /\ dorigin' # "junk" /\ origin' # "junk"
      /\ origin' \in {"pool", "junk"} /\ dorigin' \in {"pool", "junk"}
  BY <1>1 DEF Bfree, IInv, TypeOK
<1>7. TypeOK'
  <2>1. /\ sb' \in List /\ dsb' \in List /\ dsb'.nfree <= Cap /\ held' \subseteq Data
        /\ arg' \in Nat /\ pc' \in {"idle", "alloc_sb", "alloc_zero", "free_sb", "broken"}
    BY <1>1, <1>2, <1>3, <1>4, Constants DEF WellFormed
  <2>2. chain' \in Seq(Data) /\ dchain' \in Seq(Data) /\ blk' \in [Data -> List]
    BY <1>2, <1>3, <1>4 DEF Content
  <2>. QED  BY <1>5, <1>6, <2>1, <2>2 DEF TypeOK
<1>8. Freeing'
  BY <1>2, <1>3, <1>4 DEF Freeing
<1>. QED  BY <1>3, <1>4, <1>5, <1>6, <1>7, <1>8 DEF IInv

(* The steps of fs_balloc up to its superblock write.                      *)
LEMMA BallocInv ==
  ASSUME IInv, BallocPop \/ BallocRefill \/ BallocOverrun
  PROVE  IInv'
<1>1. /\ TypeOK /\ sb = dsb /\ chain = dchain /\ origin # "junk"
      /\ WellFormed(sb, chain, blk, held)
      /\ pc = "idle" /\ next = FSize /\ sb.nfree # 0
  BY Constants DEF IInv, BallocPop, BallocRefill, BallocOverrun, Idle, Data
<1>2. /\ sb \in List /\ chain \in Seq(Data) /\ blk \in Content
      /\ held \in SUBSET Data /\ sb.nfree \in 1 .. Cap
  BY <1>1 DEF TypeOK, Content, WellFormed, List
<1>3. sb.nfree > 0 /\ sb.free[0] \in Data
  <2>1. sb.nfree > 0
    BY <1>2, Constants
  <2>. QED  BY <1>1, <1>2, <2>1, NewestLink
<1>4. /\ pc' = "alloc_sb" /\ arg' \in Nat /\ next' = FSize
      /\ UNCHANGED <<dsb, dchain, blk, held, dorigin>>
      /\ sb' \in List /\ origin' \in {"pool", "junk"}
      /\ chain' \in Seq(Data)
      /\ origin' # "junk" => /\ sb'.nfree # 0 /\ sb'.nfree <= Cap
                   /\ WellFormed(sb', chain', blk, held)
      /\ \/ origin' = "junk" /\ sb.nfree = 1 /\ chain = <<>>
         \/ /\ origin' # "junk" /\ sb.nfree > 1 /\ sb' = Pop(sb) /\ arg' = Top(sb)
            /\ chain' = chain
         \/ /\ origin' # "junk" /\ sb.nfree = 1 /\ chain # <<>> /\ chain' = Front(chain)
            /\ sb' = Pop(blk[chain[Len(chain)]]) /\ arg' = Top(blk[chain[Len(chain)]])
  <2>1. CASE BallocPop
    <3>1. /\ sb' = Pop(sb) /\ arg' = Top(sb) /\ chain' = chain
          /\ pc' = "alloc_sb" /\ next' = next /\ ~AtLink /\ origin' # "junk"
          /\ origin' \in {"pool", "junk"}
          /\ UNCHANGED <<dsb, dchain, blk, held, dorigin>>
      BY <1>1, <2>1 DEF BallocPop, TypeOK
    <3>2. sb.nfree > 1
      <4>1. sb.free[0] # 0
        BY <1>3, Constants
      <4>. QED  BY <1>2, <3>1, <4>1 DEF AtLink
    <3>3. /\ sb' \in List /\ sb'.nfree \in 1 .. Cap
          /\ WellFormed(sb', chain, blk, held) /\ Top(sb) \in Data \ held
      BY <1>1, <1>2, <3>1, <3>2, PopOK
    <3>4. sb'.nfree # 0 /\ sb'.nfree <= Cap /\ arg' \in Nat
      <4>1. sb'.nfree # 0 /\ sb'.nfree <= Cap
        BY ONLY <3>3, Constants
      <4>2. arg' \in Data
        BY <3>1, <3>3
      <4>. QED  BY <4>1, <4>2, Constants
    <3>. QED  BY <1>1, <1>2, <3>1, <3>2, <3>3, <3>4
  <2>2. CASE BallocRefill
    <3>. DEFINE l == Loaded
    <3>1. /\ sb' = Pop(l) /\ arg' = Top(l) /\ chain' = Front(chain)
          /\ l.nfree \in 2 .. Cap
          /\ chain = <<>> => origin' = "junk"
          /\ chain # <<>> => origin' # "junk" /\ origin' \in {"pool", "junk"}
          /\ pc' = "alloc_sb" /\ next' = next /\ sb.nfree = 1
          /\ UNCHANGED <<dsb, dchain, blk, held, dorigin>>
      BY <1>1, <2>2 DEF BallocRefill, AtLink, TypeOK
    <3>2. l = blk[sb.free[0]] /\ l \in List
      BY <1>2, <1>3 DEF Loaded, Content
    <3>3. ASSUME chain # <<>> PROVE l = blk[chain[Len(chain)]]
      BY <1>1, <1>2, <1>3, <3>2, <3>3, NewestLink
    <3>. HIDE DEF l
    <3>4. CASE chain = <<>>
      <4>1. chain' \in Seq(Data)
        BY <3>1, <3>4, EmptySeq DEF Front
      <4>2. l.nfree - 1 \in 0 .. Cap - 1 /\ l.nfree - 1 \in 0 .. NFreeMax
        BY <3>1, Constants
      <4>3. sb' \in List /\ arg' \in Nat
        BY <3>1, <3>2, <4>2 DEF Pop, Top, List
      <4>. QED  BY <1>1, <3>1, <3>4, <4>1, <4>3
    <3>5. CASE chain # <<>>
      <4>1. l \in List /\ chain' \in Seq(Data) /\ WellFormed(l, chain', blk, held)
        BY <1>1, <1>2, <3>1, <3>3, <3>5, RefillOK
      <4>2. l.nfree > 1
        BY <3>1, Constants
      <4>3. /\ sb' \in List /\ sb'.nfree \in 1 .. Cap
            /\ WellFormed(sb', chain', blk, held) /\ Top(l) \in Data \ held
        BY <1>2, <3>1, <4>1, <4>2, PopOK
      <4>4. sb'.nfree # 0 /\ sb'.nfree <= Cap
        BY ONLY <4>3, Constants
      <4>5. arg' \in Nat
        <5>1. arg' \in Data
          BY <3>1, <4>3
        <5>. QED  BY <5>1, Constants
      <4>. QED  BY <1>1, <3>1, <3>3, <3>5, <4>1, <4>3, <4>4, <4>5
    <3>. QED  BY <3>4, <3>5
  <2>3. CASE BallocOverrun
    <3>. DEFINE l == IF AtLink THEN Loaded ELSE sb
    <3>1. /\ arg' \in 0 .. FSize - 1 /\ pc' = "alloc_sb" /\ origin' = "junk"
          /\ UNCHANGED <<dsb, blk, held, next, chain, dchain, dorigin>>
          /\ l.nfree \notin IF AtLink THEN 2 .. Cap ELSE 1 .. Cap
          /\ sb' = [nfree |-> (l.nfree + NFreeMax) % (NFreeMax + 1), free |-> l.free]
      BY <2>3 DEF BallocOverrun
    <3>2. AtLink /\ l = blk[sb.free[0]]
      BY <1>2, <3>1 DEF Loaded
    <3>3. sb.nfree = 1 /\ l \in List
      BY <1>2, <1>3, <3>2 DEF AtLink, Content
    <3>4. chain = <<>>
      <4>1. CASE chain # <<>>
        <5>1. l = blk[chain[Len(chain)]]
          BY <1>1, <1>2, <1>3, <3>2, <4>1, NewestLink
        <5>2. l.nfree = Cap
          BY <1>1, <1>2, <4>1, <5>1, SeqOps DEF WellFormed
        <5>3. l.nfree \notin 2 .. Cap
          BY <3>1, <3>2
        <5>. QED  BY ONLY <5>2, <5>3, Constants
      <4>. QED  BY <4>1
    <3>. HIDE DEF l
    <3>5. sb' \in List
      <4>1. l.nfree \in 0 .. 255
        BY <3>3 DEF NFreeMax, List
      <4>2. (l.nfree + 255) % 256 \in 0 .. 255
        BY ONLY <4>1
      <4>. QED  BY <3>1, <3>3, <4>2 DEF List, NFreeMax
    <3>. QED  BY <1>1, <1>2, <3>1, <3>3, <3>4, <3>5
  <2>. QED  BY <2>1, <2>2, <2>3
<1>5. TypeOK'
  BY <1>1, <1>2, <1>4 DEF TypeOK
<1>6. Allocating'
  BY <1>1, <1>4 DEF Allocating
<1>7. WellFormed(dsb, dchain, blk, held)' /\ dorigin' # "junk"
  BY <1>1, <1>4 DEF IInv
<1>8. (origin # "junk" => WellFormed(sb, chain, blk, held))'
  BY <1>4
<1>9. next' .. FSize - 1 = {} /\ ~(next' < FSize)
  BY <1>4, Constants
<1>. QED  BY <1>1, <1>4, <1>5, <1>6, <1>7, <1>8, <1>9 DEF IInv

(* What fs_balloc is about to write, and the block it is about to return.  *)
LEMMA AllocatingOK ==
  ASSUME IInv, pc = "alloc_sb", origin # "junk"
  PROVE  /\ arg \in Data \ held
         /\ \A k \in Lists(chain) : \A i \in Slots(sb, chain, blk, k) :
              Entry(sb, chain, blk, k, i) # arg
<1>1. /\ dsb \in List /\ dchain \in Seq(Data) /\ blk \in Content
      /\ dorigin # "junk" /\ WellFormed(dsb, dchain, blk, held) /\ Allocating
  BY DEF IInv, TypeOK, Content
<1>2. CASE dsb.nfree > 1 /\ sb = Pop(dsb) /\ arg = Top(dsb) /\ chain = dchain
  BY <1>1, <1>2, PopOK
<1>3. CASE /\ dsb.nfree = 1 /\ dchain # <<>> /\ chain = Front(dchain)
           /\ LET l == blk[dchain[Len(dchain)]] IN sb = Pop(l) /\ arg = Top(l)
  <2>. DEFINE l == blk[dchain[Len(dchain)]]
  <2>1. sb = Pop(l) /\ arg = Top(l)
    BY <1>3
  <2>2. l = blk[dchain[Len(dchain)]]
    OBVIOUS
  <2>. HIDE DEF l
  <2>3. l \in List /\ l.nfree = Cap /\ chain \in Seq(Data) /\ WellFormed(l, chain, blk, held)
    BY <1>1, <1>3, <2>2, RefillOK
  <2>4. l.nfree > 1
    BY <2>3, Constants
  <2>. QED  BY <1>1, <2>1, <2>3, <2>4, PopOK
<1>. QED  BY <1>1, <1>2, <1>3 DEF Allocating

LEMMA WriteSuperInv ==
  ASSUME IInv, WriteSuper
  PROVE  IInv'
<1>1. /\ TypeOK /\ pc \in {"alloc_sb", "free_sb"}
      /\ origin # "junk" => WellFormed(sb, chain, blk, held)
      /\ UNCHANGED <<sb, blk, held, arg, next, chain, origin>>
      /\ dsb' = sb /\ dchain' = chain /\ dorigin' = origin
  BY DEF IInv, WriteSuper
<1>2. TypeOK'
  BY <1>1 DEF TypeOK, WriteSuper
<1>3. CASE pc = "free_sb"
  <2>1. pc' = "idle"
    BY <1>3 DEF WriteSuper
  <2>2. origin # "junk"
    BY <1>3 DEF IInv
  <2>. QED  BY <1>1, <1>2, <2>1, <2>2 DEF IInv
<1>4. CASE pc = "alloc_sb"
  <2>1. pc' = "alloc_zero" /\ ~(next < FSize)
    BY <1>4 DEF WriteSuper, IInv
  <2>2. (origin # "junk" =>
          /\ arg \in Data \ held
          /\ \A k \in Lists(chain) : \A i \in Slots(sb, chain, blk, k) :
               Entry(sb, chain, blk, k, i) # arg)'
    BY <1>1, <1>4, AllocatingOK
  <2>. QED  BY <1>1, <1>2, <2>1, <2>2 DEF IInv
<1>. QED  BY <1>1, <1>3, <1>4

LEMMA ZeroBlockInv ==
  ASSUME IInv, ZeroBlock
  PROVE  IInv'
<1>1. /\ TypeOK /\ pc = "alloc_zero" /\ sb = dsb /\ chain = dchain
      /\ origin # "junk" => WellFormed(sb, chain, blk, held)
      /\ next .. FSize - 1 \subseteq held /\ ~(next < FSize)
      /\ UNCHANGED <<sb, arg, next, chain, dchain, origin, dorigin>>
      /\ origin = dorigin
      /\ origin # "junk" /\ sb.nfree = 0 => next = FirstData
  BY DEF IInv, ZeroBlock
<1>2. ZeroList \in List /\ ZeroList.nfree = 0
  BY Constants DEF ZeroList, List
<1>3. /\ blk' \in [Data -> List]
      /\ \A b \in Data : blk'[b] = IF b = arg THEN ZeroList ELSE blk[b]
  BY <1>1, <1>2 DEF ZeroBlock, TypeOK
<1>4. CASE origin = "junk"
  <2>1. pc' = "broken" /\ held' = held /\ (dsb' = dsb \/ dsb' = ZeroList)
    BY <1>4 DEF ZeroBlock
  <2>2. TypeOK'
    BY <1>1, <1>2, <1>3, <1>4, <2>1, Constants DEF TypeOK
  <2>. QED  BY <1>1, <2>1, <2>2 DEF IInv
<1>5. CASE origin # "junk"
  <2>1. /\ arg \in Data \ held
        /\ \A k \in Lists(chain) : \A i \in Slots(sb, chain, blk, k) :
             Entry(sb, chain, blk, k, i) # arg
    BY <1>1, <1>5 DEF IInv
  <2>2. pc' = "idle" /\ held' = held \union {arg} /\ dsb' = dsb
    <3>1. arg # SuperBlock
      BY <2>1, SizeAssumption DEF SuperBlock, Data, FirstData
    <3>. QED  BY <1>5, <3>1 DEF ZeroBlock
  <2>3. /\ sb \in List /\ chain \in Seq(Data) /\ blk \in Content /\ blk' \in Content
        /\ WellFormed(sb, chain, blk, held)
    BY <1>1, <1>3, <1>5 DEF TypeOK, Content
  <2>4. \A k \in 1 .. Len(chain) : blk'[chain[k]] = blk[chain[k]]
    <3>1. WellFormed(sb, chain, blk, held \union {arg})
      <4>1. OnceEach(sb, chain, blk, held \union {arg})
        BY <2>1, <2>3 DEF WellFormed, OnceEach
      <4>. QED  BY <2>3, <4>1 DEF WellFormed
    <3>2. \A k \in 1 .. Len(chain) : chain[k] \in Data \ (held \union {arg})
      BY <2>3, <3>1, ChainNotHeld
    <3>. QED  BY <1>3, <3>2
  <2>5. \A k \in Lists(chain) : \A i \in Slots(sb, chain, blk, k) :
          Entry(sb, chain, blk, k, i) \notin held'
    BY <2>1, <2>2, <2>3 DEF WellFormed, OnceEach
  <2>6. WellFormed(sb, chain, blk', held')
    BY <2>3, <2>4, <2>5, Frame
  <2>7. TypeOK'
    BY <1>1, <1>3, <2>1, <2>2 DEF TypeOK
  <2>8. next' .. FSize - 1 \subseteq held'
    BY <1>1, <2>2
  <2>. QED  BY <1>1, <1>5, <2>2, <2>6, <2>7, <2>8 DEF IInv
<1>. QED  BY <1>4, <1>5

LEMMA CrashInv ==
  ASSUME IInv, Crash
  PROVE  IInv'
<1>1. /\ TypeOK /\ pc # "broken"
      /\ dorigin # "junk" => WellFormed(dsb, dchain, blk, held)
      /\ UNCHANGED <<dsb, blk, dchain, dorigin>>
      /\ sb' = dsb /\ chain' = dchain /\ origin' = dorigin /\ arg' = 0
      /\ pc' = IF dorigin = "junk" THEN "broken" ELSE "idle"
  BY DEF IInv, Crash
<1>2. /\ dsb \in List /\ dchain \in Seq(Data) /\ blk \in Content /\ held \in SUBSET Data
  BY <1>1 DEF TypeOK, Content
<1>3. CASE dsb.nfree = 0 /\ dorigin # "junk"
  <2>1. next' = FirstData /\ held' = Data /\ dorigin # "junk"
    BY <1>3, Constants DEF Crash
  <2>2. dchain = <<>> /\ Len(dchain) = 0 /\ WellFormed(dsb, dchain, blk, held)
    BY <1>1, <1>3, <2>1, EmptySeq DEF WellFormed
  <2>3. \A k \in Lists(dchain) : Slots(dsb, dchain, blk, k) = {}
    BY <1>3, <2>2 DEF Lists, Slots, ListAt
  <2>4. OnceEach(dsb, dchain, blk, Data)
    BY <2>3 DEF OnceEach
  <2>5. WellFormed(dsb, dchain, blk, Data)
    BY <2>2, <2>4 DEF WellFormed
  <2>6. TypeOK'
    BY <1>1, <2>1, Constants DEF TypeOK
  <2>7. next' .. FSize - 1 \subseteq held'
    BY <2>1 DEF Data
  <2>. QED  BY <1>1, <2>1, <2>5, <2>6, <2>7 DEF IInv
<1>4. CASE ~(dsb.nfree = 0 /\ dorigin # "junk")
  <2>1. next' = FSize /\ held' = held \ (next .. FSize - 1)
    BY <1>4 DEF Crash
  <2>2. dorigin # "junk" => WellFormed(dsb, dchain, blk, held')
    <3>1. held' \in SUBSET held
      BY <2>1
    <3>. QED  BY <1>1, <1>2, <3>1, FewerHeld
  <2>3. TypeOK'
    BY <1>1, <1>2, <2>1, Constants DEF TypeOK
  <2>4. next' .. FSize - 1 = {} /\ ~(next' < FSize)
    BY <2>1, Constants
  <2>. QED  BY <1>1, <1>4, <2>2, <2>3, <2>4 DEF IInv
<1>. QED  BY <1>3, <1>4

LEMMA StepInv == IInv /\ [Next]_vars => IInv'
<1>. SUFFICES ASSUME IInv, [Next]_vars PROVE IInv'
  OBVIOUS
<1>1. CASE MkfsFree
  <2>1. /\ pc = "idle" /\ next < FSize /\ Bfree(next) /\ next' = next + 1
        /\ next \in FirstData .. FSize /\ next .. FSize - 1 \subseteq held
        /\ sb.nfree = 0 => next = FirstData
    BY <1>1 DEF MkfsFree, IInv, TypeOK
  <2>. DEFINE b == next
  <2>2. b \in held /\ Bfree(b) /\ (sb.nfree = 0 => b = FirstData)
    BY <2>1, Constants
  <2>3. next' \in FirstData .. FSize /\ next' .. FSize - 1 \subseteq held \ {b}
    BY <2>1, Constants
  <2>. HIDE DEF b
  <2>. QED  BY <2>1, <2>2, <2>3, BfreeInv
<1>2. ASSUME NEW b \in held, CallerFree(b) PROVE IInv'
  <2>1. /\ pc = "idle" /\ next = FSize /\ Bfree(b) /\ next' = next
        /\ sb.nfree = 0 => next = FirstData
    BY <1>2 DEF CallerFree, IInv
  <2>2. sb.nfree # 0 /\ next' \in FirstData .. FSize /\ next' .. FSize - 1 = {}
    BY <2>1, Constants DEF Data
  <2>. QED  BY <2>1, <2>2, BfreeInv
<1>3. CASE BallocPop \/ BallocRefill \/ BallocOverrun
  BY <1>3, BallocInv
<1>4. CASE WriteSuper
  BY <1>4, WriteSuperInv
<1>5. CASE ZeroBlock
  BY <1>5, ZeroBlockInv
<1>6. CASE Crash
  BY <1>6, CrashInv
<1>7. CASE UNCHANGED vars
  <2>1. /\ TypeOK' /\ (WellFormed(sb, chain, blk, held) => WellFormed(sb, chain, blk, held)')
        /\ (WellFormed(dsb, dchain, blk, held) => WellFormed(dsb, dchain, blk, held)')
    BY <1>7 DEF vars, IInv, TypeOK, WellFormed, OnceEach, Lists, Slots, Entry, ListAt
  <2>2. (Freeing => Freeing') /\ (Allocating => Allocating')
    BY <1>7 DEF vars, Freeing, Allocating
  <2>3. \A k \in Lists(chain) : Slots(sb, chain, blk, k)' = Slots(sb, chain, blk, k)
                               /\ \A i : Entry(sb, chain, blk, k, i)' = Entry(sb, chain, blk, k, i)
    BY <1>7 DEF vars, Slots, Entry, ListAt
  <2>. QED  BY <1>7, <2>1, <2>2, <2>3 DEF vars, IInv, Lists
<1>. QED  BY <1>1, <1>2, <1>3, <1>4, <1>5, <1>6, <1>7 DEF Next

(* In every behaviour of the calls, the dying processes and their          *)
(* successors, both copies of the free list stay well-formed stacks.       *)
THEOREM Invariance == Spec => []IInv
<1>. QED  BY InitInv, StepInv, PTL DEF Spec

(* Every variable keeps its type, for every length of the list, size of    *)
(* the volume and content of the image: nfree stays within the array as    *)
(* long as no block is asked of the empty list.                            *)
THEOREM TypeCorrect == Spec => []TypeOK
<1>1. IInv => TypeOK
  BY DEF IInv
<1>. QED  BY <1>1, Invariance, PTL

(* Until a block is asked of the empty list, fs_balloc never returns one   *)
(* that a caller holds, and no crash makes it do so, whatever the image    *)
(* held before mkfs: no block in use is in either copy of the list.        *)
THEOREM NeverAllocatedTwice == Spec => []NoDoubleAllocation
<1>1. IInv => NoDoubleAllocation
  BY DEF IInv, NoDoubleAllocation, Broken, WellFormed
<1>. QED  BY <1>1, Invariance, PTL

-----------------------------------------------------------------------------
(* FreeList implements BlockPool.  First what each change of a stack of    *)
(* lists does to the blocks it offers (FreeSet) and keeps (Nodes); then    *)
(* every step of the code is mapped to a step of the pool, or to none.     *)

(* The two sets, entry by entry.                                           *)
LEMMA Members ==
  ASSUME NEW l, NEW ch, NEW B, NEW x
  PROVE  /\ x \in FreeSet(l, ch, B) <=>
              \E k \in Lists(ch) : \E i \in Slots(l, ch, B, k) \ {0} :
                x = Entry(l, ch, B, k, i)
         /\ x \in Nodes(l, ch, B) <=>
              \E k \in Lists(ch) : 0 \in Slots(l, ch, B, k) /\ x = Entry(l, ch, B, k, 0)
BY DEF FreeSet, Nodes

(* What a stack offers it does not keep, and callers hold neither.         *)
LEMMA Disjoint ==
  ASSUME NEW l \in List, NEW ch \in Seq(Data), NEW B \in Content, NEW H,
         WellFormed(l, ch, B, H)
  PROVE  /\ FreeSet(l, ch, B) \subseteq Data \ H
         /\ Nodes(l, ch, B) \subseteq Data \ H
         /\ FreeSet(l, ch, B) \cap Nodes(l, ch, B) = {}
<1>1. OnceEach(l, ch, B, H)
  BY DEF WellFormed
<1>2. FreeSet(l, ch, B) \subseteq Data \ H /\ Nodes(l, ch, B) \subseteq Data \ H
  BY <1>1, Members DEF OnceEach
<1>3. ASSUME NEW x, x \in FreeSet(l, ch, B), x \in Nodes(l, ch, B) PROVE FALSE
  <2>1. PICK k \in Lists(ch) : \E i \in Slots(l, ch, B, k) \ {0} : x = Entry(l, ch, B, k, i)
    BY <1>3, Members
  <2>2. PICK i \in Slots(l, ch, B, k) \ {0} : x = Entry(l, ch, B, k, i)
    BY <2>1
  <2>3. PICK m \in Lists(ch) : 0 \in Slots(l, ch, B, m) /\ x = Entry(l, ch, B, m, 0)
    BY <1>3, Members
  <2>. QED  BY <1>1, <2>2, <2>3 DEF OnceEach
<1>. QED  BY <1>2, <1>3

(* A write to a block that holds no list of the stack changes neither set. *)
LEMMA SameSets ==
  ASSUME NEW l, NEW ch, NEW B, NEW C,
         \A k \in Lists(ch) : ListAt(l, ch, C, k) = ListAt(l, ch, B, k)
  PROVE  /\ FreeSet(l, ch, C) = FreeSet(l, ch, B)
         /\ Nodes(l, ch, C) = Nodes(l, ch, B)
<1>1. \A k \in Lists(ch) : /\ Slots(l, ch, C, k) = Slots(l, ch, B, k)
                           /\ \A i : Entry(l, ch, C, k, i) = Entry(l, ch, B, k, i)
  BY DEF Slots, Entry
<1>2. ASSUME NEW x
      PROVE  /\ x \in FreeSet(l, ch, C) <=> x \in FreeSet(l, ch, B)
             /\ x \in Nodes(l, ch, C) <=> x \in Nodes(l, ch, B)
  BY <1>1, Members
<1>. QED  BY <1>2

(* fs_balloc takes one block of the stack, that it offered.                *)
LEMMA PopSets ==
  ASSUME NEW l \in List, NEW ch \in Seq(Data), NEW B \in Content, NEW H,
         WellFormed(l, ch, B, H), l.nfree > 1, NEW q, q = Pop(l)
  PROVE  /\ Top(l) \in FreeSet(l, ch, B)
         /\ FreeSet(q, ch, B) = FreeSet(l, ch, B) \ {Top(l)}
         /\ Nodes(q, ch, B) = Nodes(l, ch, B)
<1>. DEFINE n == Len(ch) + 1
            t == l.nfree - 1
<1>1. n \in Lists(ch) /\ \A k \in Lists(ch) : k \in Nat
  BY SeqOps DEF Lists
<1>2. l.nfree \in Nat /\ t \in Nat /\ t > 0 /\ q.nfree = t /\ q.free = l.free
  BY Constants DEF Pop, List
<1>3. /\ Slots(l, ch, B, n) = 0 .. t /\ Slots(q, ch, B, n) = 0 .. t - 1
      /\ \A k \in Lists(ch) \ {n} : Slots(q, ch, B, k) = Slots(l, ch, B, k)
      /\ \A k \in Lists(ch), i \in Nat : Entry(q, ch, B, k, i) = Entry(l, ch, B, k, i)
      /\ Entry(l, ch, B, n, t) = Top(l)
  BY <1>2 DEF Slots, Entry, ListAt, Top
<1>4. \A k \in Lists(ch) : Slots(l, ch, B, k) \subseteq Nat
  BY SlotRange, Constants
<1>. HIDE DEF n, t
<1>5. 0 .. t \subseteq Nat /\ t \in (0 .. t) \ {0} /\ 0 .. t - 1 = (0 .. t) \ {t}
  BY <1>2
<1>6. \A k \in Lists(ch) : \A i \in Slots(q, ch, B, k) :
        Entry(q, ch, B, k, i) # Top(l)
  BY PopOK
<1>7. Top(l) \in FreeSet(l, ch, B)
  BY <1>1, <1>3, <1>5, Members
<1>8. ASSUME NEW x, x \in FreeSet(q, ch, B) PROVE x \in FreeSet(l, ch, B) \ {Top(l)}
  <2>1. PICK k \in Lists(ch) : \E i \in Slots(q, ch, B, k) \ {0} : x = Entry(q, ch, B, k, i)
    BY <1>8, Members
  <2>2. PICK i \in Slots(q, ch, B, k) \ {0} : x = Entry(q, ch, B, k, i)
    BY <2>1
  <2>3. i \in Slots(l, ch, B, k) \ {0}
    BY <1>3, <1>5, <2>2
  <2>4. x = Entry(l, ch, B, k, i)
    BY <1>3, <1>4, <2>2, <2>3
  <2>5. x \in FreeSet(l, ch, B)
    BY <2>3, <2>4, Members
  <2>6. x # Top(l)
    BY <1>6, <2>2
  <2>. QED  BY <2>5, <2>6
<1>9. ASSUME NEW x \in FreeSet(l, ch, B) \ {Top(l)} PROVE x \in FreeSet(q, ch, B)
  <2>1. PICK k \in Lists(ch) : \E i \in Slots(l, ch, B, k) \ {0} : x = Entry(l, ch, B, k, i)
    BY Members
  <2>2. PICK i \in Slots(l, ch, B, k) \ {0} : x = Entry(l, ch, B, k, i)
    BY <2>1
  <2>3. i \in Slots(q, ch, B, k) \ {0}
    BY <1>3, <1>5, <2>2
  <2>4. x = Entry(q, ch, B, k, i)
    BY <1>3, <1>4, <2>2
  <2>. QED  BY <2>3, <2>4, Members
<1>10. ASSUME NEW k \in Lists(ch)
       PROVE  /\ 0 \in Slots(q, ch, B, k) <=> 0 \in Slots(l, ch, B, k)
              /\ Entry(q, ch, B, k, 0) = Entry(l, ch, B, k, 0)
  BY <1>2, <1>3, <1>5
<1>11. Nodes(q, ch, B) = Nodes(l, ch, B)
  <2>1. ASSUME NEW x PROVE x \in Nodes(q, ch, B) <=> x \in Nodes(l, ch, B)
    BY <1>10, Members
  <2>. QED  BY <2>1
<1>. QED  BY <1>7, <1>8, <1>9, <1>11

(* fs_balloc drops the newest list when only its link is left: the same    *)
(* blocks are offered, and the chain block is no longer kept.              *)
LEMMA RefillSets ==
  ASSUME NEW l \in List, NEW ch \in Seq(Data), NEW B \in Content, NEW H,
         WellFormed(l, ch, B, H), ch # <<>>, l.nfree = 1,
         NEW m, m = B[ch[Len(ch)]], NEW f, f = Front(ch)
  PROVE  /\ FreeSet(m, f, B) = FreeSet(l, ch, B)
         /\ ch[Len(ch)] \in Nodes(l, ch, B)
         /\ Nodes(m, f, B) = Nodes(l, ch, B) \ {ch[Len(ch)]}
<1>. DEFINE n == Len(ch)
            c == ch[n]
<1>1. /\ n \in Nat /\ n > 0
      /\ Lists(f) = 1 .. n /\ Lists(ch) = (1 .. n) \union {n + 1} /\ n + 1 \notin 1 .. n
      /\ \A k \in 1 .. n : ListAt(m, f, B, k) = ListAt(l, ch, B, k)
  <2>1. n \in Nat /\ n > 0
    BY SeqOps
  <2>2. Lists(ch) = (1 .. n) \union {n + 1} /\ n + 1 \notin 1 .. n
    BY <2>1 DEF Lists
  <2>. QED  BY <2>1, <2>2, RefillOK
<1>2. \A k \in 1 .. n : /\ Slots(m, f, B, k) = Slots(l, ch, B, k)
                        /\ \A i : Entry(m, f, B, k, i) = Entry(l, ch, B, k, i)
  BY <1>1 DEF Slots, Entry
<1>3. Slots(l, ch, B, n + 1) = {0} /\ Entry(l, ch, B, n + 1, 0) = c
  <2>1. Slots(l, ch, B, n + 1) = 0 .. 0
    BY DEF Slots, ListAt
  <2>2. Entry(l, ch, B, n + 1, 0) = c
    <3>1. n \in 1 .. Len(ch)
      BY <1>1
    <3>. QED  BY <3>1 DEF WellFormed
  <2>. QED  BY <2>1, <2>2
<1>. HIDE DEF n
<1>4. \A k \in 1 .. n : 0 \in Slots(l, ch, B, k) => Entry(l, ch, B, k, 0) # c
  BY <1>1, <1>3 DEF WellFormed, OnceEach
<1>5. FreeSet(m, f, B) = FreeSet(l, ch, B)
  <2>1. ASSUME NEW x PROVE x \in FreeSet(m, f, B) => x \in FreeSet(l, ch, B)
    BY <1>1, <1>2, Members
  <2>2. ASSUME NEW x PROVE x \in FreeSet(l, ch, B) => x \in FreeSet(m, f, B)
    BY <1>1, <1>2, <1>3, Members
  <2>. QED  BY <2>1, <2>2
<1>6. c \in Nodes(l, ch, B)
  BY <1>1, <1>3, Members
<1>7. Nodes(m, f, B) = Nodes(l, ch, B) \ {c}
  <2>1. ASSUME NEW x PROVE x \in Nodes(m, f, B) => x \in Nodes(l, ch, B) \ {c}
    BY <1>1, <1>2, <1>4, Members
  <2>2. ASSUME NEW x PROVE x \in Nodes(l, ch, B) \ {c} => x \in Nodes(m, f, B)
    BY <1>1, <1>2, <1>3, Members
  <2>. QED  BY <2>1, <2>2
<1>. QED  BY <1>5, <1>6, <1>7 DEF n

(* fs_bfree adds a block to a list that is not full: to the blocks the     *)
(* stack offers, unless it is the very first one.                          *)
LEMMA PushSets ==
  ASSUME NEW l \in List, NEW ch \in Seq(Data), NEW B \in Content, NEW H,
         WellFormed(l, ch, B, H), ~Full(l), NEW b, NEW q, q = Push(l, b)
  PROVE  /\ FreeSet(q, ch, B) = IF l.nfree = 0 THEN FreeSet(l, ch, B)
                                               ELSE FreeSet(l, ch, B) \union {b}
         /\ Nodes(q, ch, B) = IF l.nfree = 0 THEN Nodes(l, ch, B) \union {b}
                                             ELSE Nodes(l, ch, B)
<1>. DEFINE n == Len(ch) + 1
            t == l.nfree
<1>1. n \in Lists(ch) /\ n \in Nat /\ \A k \in Lists(ch) \ {n} : k # n
  BY SeqOps DEF Lists
<1>2. /\ t \in 0 .. Cap - 1 /\ q.nfree = t + 1 /\ q.free[t] = b
      /\ \A i \in 0 .. t - 1 : q.free[i] = l.free[i]
  <2>1. t \in 0 .. Cap - 1 /\ l.free \in [0 .. Cap - 1 -> Nat]
    BY Constants DEF WellFormed, Full, List
  <2>. QED  BY <2>1, Constants DEF Push
<1>3. /\ Slots(l, ch, B, n) = 0 .. t - 1 /\ Slots(q, ch, B, n) = (0 .. t - 1) \union {t}
      /\ Entry(q, ch, B, n, t) = b
      /\ \A i \in 0 .. t - 1 : Entry(q, ch, B, n, i) = Entry(l, ch, B, n, i)
  <2>1. t \in Nat /\ 0 .. t + 1 - 1 = (0 .. t - 1) \union {t}
    BY <1>2, Constants
  <2>2. ListAt(l, ch, B, n) = l /\ ListAt(q, ch, B, n) = q
    BY DEF ListAt
  <2>. QED  BY <1>2, <2>1, <2>2 DEF Slots, Entry
<1>4. \A k \in Lists(ch) \ {n} :
        /\ Slots(q, ch, B, k) = Slots(l, ch, B, k)
        /\ \A i : Entry(q, ch, B, k, i) = Entry(l, ch, B, k, i)
  BY DEF Slots, Entry, ListAt
<1>5. t = 0 => 0 .. t - 1 = {}
  OBVIOUS
<1>6. t # 0 => 0 \in 0 .. t - 1
  BY <1>2, Constants
<1>. HIDE DEF n, t
<1>7. ASSUME NEW x
      PROVE  x \in FreeSet(q, ch, B) <=> x \in FreeSet(l, ch, B) \/ (t # 0 /\ x = b)
  <2>1. ASSUME x \in FreeSet(q, ch, B)
        PROVE  x \in FreeSet(l, ch, B) \/ (t # 0 /\ x = b)
    <3>1. PICK k \in Lists(ch) : \E i \in Slots(q, ch, B, k) \ {0} : x = Entry(q, ch, B, k, i)
      BY <2>1, Members
    <3>2. PICK i \in Slots(q, ch, B, k) \ {0} : x = Entry(q, ch, B, k, i)
      BY <3>1
    <3>3. CASE k = n /\ i = t
      BY <1>3, <3>2, <3>3
    <3>4. CASE ~(k = n /\ i = t)
      <4>1. i \in Slots(l, ch, B, k) \ {0} /\ x = Entry(l, ch, B, k, i)
        BY <1>3, <1>4, <3>2, <3>4
      <4>. QED  BY <4>1, Members
    <3>. QED  BY <3>3, <3>4
  <2>2. ASSUME x \in FreeSet(l, ch, B) PROVE x \in FreeSet(q, ch, B)
    <3>1. PICK k \in Lists(ch) : \E i \in Slots(l, ch, B, k) \ {0} : x = Entry(l, ch, B, k, i)
      BY <2>2, Members
    <3>2. PICK i \in Slots(l, ch, B, k) \ {0} : x = Entry(l, ch, B, k, i)
      BY <3>1
    <3>3. i \in Slots(q, ch, B, k) \ {0} /\ x = Entry(q, ch, B, k, i)
      BY <1>3, <1>4, <3>2
    <3>. QED  BY <3>3, Members
  <2>3. ASSUME t # 0, x = b PROVE x \in FreeSet(q, ch, B)
    <3>1. t \in Slots(q, ch, B, n) \ {0} /\ x = Entry(q, ch, B, n, t)
      BY <1>3, <2>3
    <3>. QED  BY <1>1, <3>1, Members
  <2>. QED  BY <2>1, <2>2, <2>3
<1>8. ASSUME NEW x
      PROVE  x \in Nodes(q, ch, B) <=> x \in Nodes(l, ch, B) \/ (t = 0 /\ x = b)
  <2>1. \A k \in Lists(ch) \ {n} :
          /\ 0 \in Slots(q, ch, B, k) <=> 0 \in Slots(l, ch, B, k)
          /\ Entry(q, ch, B, k, 0) = Entry(l, ch, B, k, 0)
    BY <1>4
  <2>2. CASE t = 0
    <3>1. /\ 0 \notin Slots(l, ch, B, n) /\ 0 \in Slots(q, ch, B, n)
          /\ Entry(q, ch, B, n, 0) = b
      BY <1>3, <1>5, <2>2
    <3>. QED  BY <1>1, <2>1, <2>2, <3>1, Members
  <2>3. CASE t # 0
    <3>1. /\ 0 \in Slots(l, ch, B, n) /\ 0 \in Slots(q, ch, B, n)
          /\ Entry(q, ch, B, n, 0) = Entry(l, ch, B, n, 0)
      BY <1>3, <1>6, <2>3
    <3>. QED  BY <1>1, <2>1, <2>3, <3>1, Members
  <2>. QED  BY <2>2, <2>3
<1>. QED  BY <1>7, <1>8 DEF t

(* fs_bfree starts a list on top of a full one: the same blocks are        *)
(* offered, and the block that now holds the full list is kept.            *)
LEMMA StartSets ==
  ASSUME NEW l \in List, NEW ch \in Seq(Data), NEW C \in Content, NEW G,
         NEW q \in List, q.nfree = 1,
         NEW a \in Seq(Data), Len(a) = Len(ch) + 1,
         \A k \in 1 .. Len(ch) : a[k] = ch[k],
         NEW b, a[Len(a)] = b, C[b] = l, WellFormed(q, a, C, G)
  PROVE  /\ FreeSet(q, a, C) = FreeSet(l, ch, C)
         /\ Nodes(q, a, C) = Nodes(l, ch, C) \union {b}
<1>1. /\ Len(ch) \in Nat /\ a \in Seq(Data) /\ Len(a) = Len(ch) + 1 /\ a[Len(a)] = b
      /\ \A k \in 1 .. Len(ch) : a[k] = ch[k]
  BY SeqOps
<1>2. a # <<>> /\ l = C[a[Len(a)]] /\ q.nfree = 1
  BY <1>1, EmptySeq
<1>3. ch = Front(a)
  <2>1. /\ Front(a) \in Seq(Data) /\ Len(Front(a)) = Len(a) - 1
        /\ \A k \in 1 .. Len(a) - 1 : Front(a)[k] = a[k]
    BY <1>1, <1>2, SeqOps
  <2>2. Len(a) - 1 = Len(ch)
    BY <1>1
  <2>3. Front(a) \in Seq(Data) /\ Len(ch) = Len(Front(a))
    BY <2>1, <2>2
  <2>4. \A k \in 1 .. Len(ch) : ch[k] = Front(a)[k]
    BY <1>1, <2>1, <2>2
  <2>. QED  BY <2>3, <2>4, SeqEqual
<1>4. /\ FreeSet(l, ch, C) = FreeSet(q, a, C)
      /\ a[Len(a)] \in Nodes(q, a, C)
      /\ Nodes(l, ch, C) = Nodes(q, a, C) \ {a[Len(a)]}
  <2>. DEFINE n == Len(a)
              f == Front(a)
  <2>1. a \in Seq(Data) /\ a # <<>> /\ l = C[a[n]] /\ q.nfree = 1 /\ f = Front(a)
    BY <1>1, <1>2
  <2>2. /\ FreeSet(l, f, C) = FreeSet(q, a, C)
        /\ a[n] \in Nodes(q, a, C)
        /\ Nodes(l, f, C) = Nodes(q, a, C) \ {a[n]}
    <3>. HIDE DEF f
    <3>. QED  BY ONLY <2>1, RefillSets, q \in List, C \in Content, WellFormed(q, a, C, G)
  <2>. QED  BY <1>3, <2>2
<1>. QED  BY <1>1, <1>4

-----------------------------------------------------------------------------
(* The steps.                                                              *)

(* mkfs holds every data block until it has written a superblock, but for  *)
(* the one it is freeing.  Crash needs it: it gives mkfs all of them back. *)
Formatting == pc = "free_sb" /\ dsb.nfree = 0 => held \union {arg} = Data

LEMMA FormattingStep == IInv /\ Formatting /\ [Next]_vars => Formatting'
<1>. SUFFICES ASSUME IInv, Formatting, [Next]_vars PROVE Formatting'
  OBVIOUS
<1>1. ASSUME pc = "idle", NEW b \in held, Bfree(b) PROVE Formatting'
  <2>1. /\ dsb' = dsb /\ held' = held \ {b} /\ arg' = b /\ dsb = sb
        /\ held \subseteq Data /\ next .. FSize - 1 \subseteq held
        /\ sb.nfree = 0 => next = FirstData
    BY <1>1 DEF Bfree, IInv, TypeOK
  <2>2. sb.nfree = 0 => held = Data
    BY <2>1 DEF Data
  <2>. QED  BY <2>1, <2>2 DEF Formatting
<1>2. CASE MkfsFree
  <2>1. next \in held
    BY <1>2, Constants DEF MkfsFree, IInv, TypeOK
  <2>. QED  BY <1>1, <1>2, <2>1 DEF MkfsFree
<1>3. ASSUME NEW b \in held, CallerFree(b) PROVE Formatting'
  BY <1>1, <1>3 DEF CallerFree
<1>4. CASE BallocPop \/ BallocRefill \/ BallocOverrun
  BY <1>4 DEF BallocPop, BallocRefill, BallocOverrun, Formatting
<1>5. CASE WriteSuper \/ ZeroBlock \/ Crash
  BY <1>5 DEF WriteSuper, ZeroBlock, Crash, Formatting
<1>6. CASE UNCHANGED vars
  BY <1>6 DEF vars, Formatting
<1>. QED  BY <1>2, <1>3, <1>4, <1>5, <1>6 DEF Next

LEMMA AlwaysFormatting == Spec => [](IInv /\ Formatting)
<1>1. Init => Formatting
  BY DEF Init, Formatting
<1>. QED  BY <1>1, InitInv, StepInv, FormattingStep, PTL DEF Spec

PoolSame == UNCHANGED <<PoolFree, PoolUsed, PoolNodes, Broken>>

(* What the list on the device is, in a state that is not broken.          *)
LEMMA OnDevice ==
  ASSUME IInv, ~Broken
  PROVE  /\ dsb \in List /\ dchain \in Seq(Data) /\ blk \in Content
         /\ held \in SUBSET Data /\ WellFormed(dsb, dchain, blk, held)
         /\ PoolFree = FreeSet(dsb, dchain, blk)
         /\ PoolNodes = Nodes(dsb, dchain, blk)
BY DEF IInv, TypeOK, Content, Broken, PoolFree, PoolNodes

(* fs_bfree in memory: the block is still its caller's.                    *)
LEMMA BfreeStep ==
  ASSUME IInv, pc = "idle", NEW b \in held, Bfree(b)
  PROVE  PoolSame
<1>1. ~Broken /\ InFlight = {}
  BY DEF IInv, Broken, InFlight
<1>2. /\ pc' = "free_sb" /\ arg' = b /\ held' = held \ {b}
      /\ dsb' = dsb /\ dchain' = dchain /\ dorigin' = dorigin
  BY DEF Bfree
<1>3. ~Broken' /\ InFlight' = {b}
  BY <1>1, <1>2 DEF Broken, InFlight
<1>4. PoolUsed' = PoolUsed
  BY <1>1, <1>2, <1>3 DEF PoolUsed
<1>5. /\ dsb \in List /\ dchain \in Seq(Data) /\ blk \in Content
      /\ held \in SUBSET Data /\ WellFormed(dsb, dchain, blk, held)
  BY <1>1, OnDevice
<1>6. /\ blk' \in Content
      /\ \A k \in 1 .. Len(dchain) : blk'[dchain[k]] = blk[dchain[k]]
  <2>1. sb \in List /\ b \in Data
    BY <1>5 DEF IInv, TypeOK
  <2>2. blk' = [blk EXCEPT ![b] = sb] \/ blk' = blk
    BY DEF Bfree
  <2>3. \A k \in 1 .. Len(dchain) : dchain[k] \in Data /\ dchain[k] # b
    BY <1>5, ChainNotHeld
  <2>. QED  BY <1>5, <2>1, <2>2, <2>3 DEF Content
<1>7. \A k \in Lists(dchain) : \A i \in Slots(dsb, dchain, blk, k) :
        Entry(dsb, dchain, blk, k, i) \notin held
  BY <1>5 DEF WellFormed, OnceEach
<1>8. \A k \in Lists(dchain) : ListAt(dsb, dchain, blk', k) = ListAt(dsb, dchain, blk, k)
  BY <1>5, <1>6, <1>7, Frame
<1>9. /\ FreeSet(dsb, dchain, blk') = FreeSet(dsb, dchain, blk)
      /\ Nodes(dsb, dchain, blk') = Nodes(dsb, dchain, blk)
  BY <1>8, SameSets
<1>10. /\ PoolFree' = FreeSet(dsb, dchain, blk') /\ PoolFree = FreeSet(dsb, dchain, blk)
       /\ PoolNodes' = Nodes(dsb, dchain, blk') /\ PoolNodes = Nodes(dsb, dchain, blk)
  BY <1>1, <1>2, <1>3 DEF PoolFree, PoolNodes
<1>. QED  BY <1>1, <1>3, <1>4, <1>9, <1>10 DEF PoolSame, Broken

(* fs_balloc in memory: nothing has left the device's list.                *)
LEMMA BallocStep ==
  ASSUME IInv, BallocPop \/ BallocRefill \/ BallocOverrun
  PROVE  PoolSame
<1>1. /\ pc = "idle" /\ pc' = "alloc_sb"
      /\ UNCHANGED <<dsb, dchain, blk, held, dorigin>>
  BY DEF BallocPop, BallocRefill, BallocOverrun, Idle
<1>2. ~Broken /\ ~Broken' /\ InFlight = {} /\ InFlight' = {}
  BY <1>1 DEF IInv, Broken, InFlight
<1>3. PoolFree' = PoolFree /\ PoolNodes' = PoolNodes
  BY <1>1, <1>2 DEF PoolFree, PoolNodes
<1>4. PoolUsed' = PoolUsed
  BY <1>1, <1>2 DEF PoolUsed
<1>. QED  BY <1>2, <1>3, <1>4 DEF PoolSame, Broken

(* The superblock write of fs_bfree gives the block to the pool.           *)
LEMMA WriteFreeStep ==
  ASSUME IInv, WriteSuper, pc = "free_sb"
  PROVE  /\ arg \in Data /\ ~Broken /\ ~Broken'
         /\ PoolUsed = held \union {arg} /\ PoolUsed' = PoolUsed \ {arg}
         /\ \/ PoolFree' = PoolFree \union {arg} /\ PoolNodes' = PoolNodes
            \/ PoolNodes' = PoolNodes \union {arg} /\ PoolFree' = PoolFree
<1>1. /\ ~Broken /\ Freeing /\ sb \in List /\ chain \in Seq(Data)
      /\ origin # "junk" => WellFormed(sb, chain, blk, held)
      /\ InFlight = {arg} /\ arg \in Data \ held
  BY DEF IInv, Broken, InFlight, TypeOK, Freeing
<1>2. /\ pc' = "idle" /\ dsb' = sb /\ dchain' = chain /\ dorigin' = origin
      /\ UNCHANGED <<blk, held>>
  BY DEF WriteSuper
<1>3. /\ dsb \in List /\ dchain \in Seq(Data) /\ blk \in Content
      /\ WellFormed(dsb, dchain, blk, held)
      /\ PoolFree = FreeSet(dsb, dchain, blk) /\ PoolNodes = Nodes(dsb, dchain, blk)
  BY <1>1, OnDevice
<1>4. origin # "junk"
  BY DEF IInv
<1>5. ~Broken' /\ InFlight' = {}
  BY <1>2, <1>4 DEF Broken, InFlight
<1>6. PoolFree' = FreeSet(sb, chain, blk) /\ PoolNodes' = Nodes(sb, chain, blk)
  BY <1>2, <1>5 DEF PoolFree, PoolNodes
<1>7. PoolUsed = held \union {arg} /\ PoolUsed' = PoolUsed \ {arg}
  BY <1>1, <1>2, <1>5 DEF PoolUsed
<1>8. CASE ~Full(dsb) /\ sb = Push(dsb, arg) /\ chain = dchain
  <2>1. /\ FreeSet(sb, dchain, blk) = IF dsb.nfree = 0 THEN PoolFree
                                                       ELSE PoolFree \union {arg}
        /\ Nodes(sb, dchain, blk) = IF dsb.nfree = 0 THEN PoolNodes \union {arg}
                                                     ELSE PoolNodes
    BY <1>3, <1>8, PushSets
  <2>. QED  BY <1>1, <1>5, <1>6, <1>7, <1>8, <2>1
<1>9. CASE /\ Full(dsb) /\ sb = StartList(dsb, arg)
           /\ chain = Append(dchain, arg) /\ blk[arg] = dsb
  <2>1. FreeSet(sb, chain, blk) = PoolFree /\ Nodes(sb, chain, blk) = PoolNodes \union {arg}
    <3>1. WellFormed(sb, chain, blk, held) /\ arg \in Data
      BY <1>1, <1>4
    <3>2. /\ chain \in Seq(Data) /\ Len(chain) = Len(dchain) + 1 /\ chain[Len(chain)] = arg
          /\ \A k \in 1 .. Len(dchain) : chain[k] = dchain[k]
      BY <1>1, <1>3, <1>9, <3>1, SeqOps
    <3>3. sb.nfree = 1 /\ blk[arg] = dsb
      BY <1>9 DEF StartList
    <3>4. /\ FreeSet(sb, chain, blk) = FreeSet(dsb, dchain, blk)
          /\ Nodes(sb, chain, blk) = Nodes(dsb, dchain, blk) \union {arg}
      BY <1>1, <1>3, <3>1, <3>2, <3>3, StartSets
    <3>. QED  BY <1>3, <3>4
  <2>. QED  BY <1>1, <1>5, <1>6, <1>7, <2>1
<1>. QED  BY <1>1, <1>8, <1>9 DEF Freeing

(* The superblock write of fs_balloc takes the block from the pool, or     *)
(* breaks a pool that has nothing left.                                    *)
LEMMA WriteAllocStep ==
  ASSUME IInv, WriteSuper, pc = "alloc_sb"
  PROVE  /\ ~Broken
         /\ \/ /\ Broken' /\ PoolFree = {} /\ PoolFree' = {} /\ PoolNodes' = {}
               /\ PoolUsed' = PoolUsed
            \/ /\ ~Broken' /\ arg \in Data /\ arg \in PoolFree
               /\ PoolFree' = PoolFree \ {arg} /\ PoolUsed' = PoolUsed \union {arg}
               /\ PoolUsed = held
               /\ \/ PoolNodes' = PoolNodes
                  \/ /\ dchain # <<>> /\ dchain' = Front(dchain)
                     /\ dchain[Len(dchain)] \in PoolNodes
                     /\ PoolNodes' = PoolNodes \ {dchain[Len(dchain)]}
<1>1. ~Broken /\ Allocating /\ InFlight = {}
  BY DEF IInv, Broken, InFlight
<1>2. /\ pc' = "alloc_zero" /\ dsb' = sb /\ dchain' = chain /\ dorigin' = origin
      /\ UNCHANGED <<blk, held, arg>>
  BY DEF WriteSuper
<1>3. /\ dsb \in List /\ dchain \in Seq(Data) /\ blk \in Content
      /\ held \in SUBSET Data /\ WellFormed(dsb, dchain, blk, held)
      /\ PoolFree = FreeSet(dsb, dchain, blk) /\ PoolNodes = Nodes(dsb, dchain, blk)
  BY <1>1, OnDevice
<1>4. PoolUsed = held
  BY <1>1 DEF PoolUsed
<1>5. Broken' <=> origin = "junk"
  BY <1>2 DEF Broken
<1>6. CASE origin = "junk" /\ dsb.nfree = 1 /\ dchain = <<>>
  <2>1. PoolFree = {}
    <3>1. Lists(dchain) = {1} /\ Slots(dsb, dchain, blk, 1) = {0}
      BY <1>6, EmptySeq DEF Lists, Slots, ListAt
    <3>2. \A x : x \notin PoolFree
      BY <1>3, <3>1, Members
    <3>. QED  BY <3>2
  <2>2. Broken' /\ PoolFree' = {} /\ PoolNodes' = {} /\ PoolUsed' = PoolUsed
    BY <1>2, <1>4, <1>5, <1>6 DEF PoolFree, PoolNodes, PoolUsed, InFlight
  <2>. QED  BY <1>1, <2>1, <2>2
<1>7. ASSUME NEW l \in List, NEW ch \in Seq(Data), WellFormed(l, ch, blk, held), l.nfree > 1,
             origin # "junk", sb = Pop(l), arg = Top(l), chain = ch
      PROVE  /\ ~Broken' /\ arg \in FreeSet(l, ch, blk) /\ arg \in Data
             /\ PoolFree' = FreeSet(l, ch, blk) \ {arg}
             /\ PoolNodes' = Nodes(l, ch, blk)
             /\ PoolUsed' = PoolUsed \union {arg}
  <2>1. sb.nfree \in 1 .. Cap /\ arg \in Data
    BY <1>3, <1>7, PopOK
  <2>2. ~Broken'
    BY <1>5, <1>7
  <2>3. PoolUsed' = PoolUsed \union {arg}
    BY <1>2, <1>4, <2>2 DEF PoolUsed, InFlight
  <2>4. PoolFree' = FreeSet(sb, ch, blk) /\ PoolNodes' = Nodes(sb, ch, blk)
    BY <1>2, <1>7, <2>2 DEF PoolFree, PoolNodes
  <2>5. /\ arg \in FreeSet(l, ch, blk)
        /\ FreeSet(sb, ch, blk) = FreeSet(l, ch, blk) \ {arg}
        /\ Nodes(sb, ch, blk) = Nodes(l, ch, blk)
    BY <1>3, <1>7, PopSets
  <2>. QED  BY <2>1, <2>2, <2>3, <2>4, <2>5
<1>8. CASE /\ origin # "junk" /\ dsb.nfree > 1 /\ sb = Pop(dsb) /\ arg = Top(dsb)
           /\ chain = dchain
  BY <1>1, <1>3, <1>4, <1>7, <1>8
<1>9. CASE /\ origin # "junk" /\ dsb.nfree = 1 /\ dchain # <<>>
           /\ chain = Front(dchain)
           /\ LET l == blk[dchain[Len(dchain)]] IN sb = Pop(l) /\ arg = Top(l)
  <2>. DEFINE l == blk[dchain[Len(dchain)]]
  <2>1. sb = Pop(l) /\ arg = Top(l) /\ l = blk[dchain[Len(dchain)]]
    BY <1>9
  <2>. HIDE DEF l
  <2>2. l \in List /\ l.nfree = Cap /\ chain \in Seq(Data) /\ WellFormed(l, chain, blk, held)
    BY <1>3, <1>9, <2>1, RefillOK
  <2>3. l.nfree > 1
    BY <2>2, Constants
  <2>4. /\ FreeSet(l, chain, blk) = PoolFree
        /\ dchain[Len(dchain)] \in PoolNodes
        /\ Nodes(l, chain, blk) = PoolNodes \ {dchain[Len(dchain)]}
    BY <1>3, <1>9, <2>1, RefillSets
  <2>5. /\ ~Broken' /\ arg \in PoolFree /\ arg \in Data
        /\ PoolFree' = PoolFree \ {arg}
        /\ PoolNodes' = PoolNodes \ {dchain[Len(dchain)]}
        /\ PoolUsed' = PoolUsed \union {arg}
    BY <1>7, <1>9, <2>1, <2>2, <2>3, <2>4
  <2>. QED  BY <1>1, <1>2, <1>4, <1>9, <2>4, <2>5
<1>. QED  BY <1>1, <1>6, <1>8, <1>9 DEF Allocating

(* Clearing the block that is handed out changes no list.                  *)
LEMMA ZeroBlockStep ==
  ASSUME IInv, ZeroBlock
  PROVE  PoolSame
<1>1. /\ pc = "alloc_zero" /\ sb = dsb /\ chain = dchain /\ origin = dorigin
      /\ UNCHANGED <<sb, chain, dchain, arg, origin, dorigin>> /\ TypeOK
  BY DEF IInv, ZeroBlock
<1>2. CASE origin = "junk"
  <2>1. Broken /\ Broken' /\ held' = held
    BY <1>1, <1>2 DEF Broken, ZeroBlock
  <2>. QED  BY <2>1 DEF PoolSame, PoolFree, PoolUsed, PoolNodes, InFlight
<1>3. CASE origin # "junk"
  <2>1. ~Broken /\ arg \in Data \ held
    BY <1>1, <1>3 DEF Broken, IInv
  <2>2. pc' = "idle" /\ held' = held \union {arg} /\ dsb' = dsb
    <3>1. arg # SuperBlock
      BY <2>1, SizeAssumption DEF SuperBlock, Data, FirstData
    <3>. QED  BY <1>3, <3>1 DEF ZeroBlock
  <2>3. ~Broken' /\ InFlight = {arg} /\ InFlight' = {}
    BY <1>1, <1>3, <2>1, <2>2 DEF Broken, InFlight
  <2>4. PoolUsed' = PoolUsed
    BY <2>2, <2>3 DEF PoolUsed
  <2>5. /\ dsb \in List /\ dchain \in Seq(Data) /\ blk \in Content
        /\ WellFormed(dsb, dchain, blk, held)
    BY <2>1, OnDevice
  <2>6. \A k \in Lists(dchain) : \A i \in Slots(dsb, dchain, blk, k) :
          Entry(dsb, dchain, blk, k, i) \notin {arg}
    BY <1>1, <1>3 DEF IInv
  <2>7. /\ blk' \in Content
        /\ \A k \in 1 .. Len(dchain) : blk'[dchain[k]] = blk[dchain[k]]
    <3>1. WellFormed(dsb, dchain, blk, {arg})
      BY <2>5, <2>6, Frame
    <3>2. \A k \in 1 .. Len(dchain) : dchain[k] \in Data /\ dchain[k] # arg
      BY <2>5, <3>1, ChainNotHeld
    <3>3. blk' = [blk EXCEPT ![arg] = ZeroList] /\ ZeroList \in List
      BY <2>1, Constants DEF ZeroBlock, ZeroList, List
    <3>. QED  BY <2>5, <3>2, <3>3 DEF Content
  <2>8. \A k \in Lists(dchain) : ListAt(dsb, dchain, blk', k) = ListAt(dsb, dchain, blk, k)
    BY <2>5, <2>6, <2>7, Frame
  <2>9. /\ FreeSet(dsb, dchain, blk') = FreeSet(dsb, dchain, blk)
        /\ Nodes(dsb, dchain, blk') = Nodes(dsb, dchain, blk)
    BY <2>8, SameSets
  <2>10. /\ PoolFree' = FreeSet(dsb, dchain, blk') /\ PoolFree = FreeSet(dsb, dchain, blk)
         /\ PoolNodes' = Nodes(dsb, dchain, blk') /\ PoolNodes = Nodes(dsb, dchain, blk)
    BY <1>1, <2>1, <2>2, <2>3 DEF PoolFree, PoolNodes
  <2>. QED  BY <2>1, <2>3, <2>4, <2>9, <2>10 DEF PoolSame, Broken
<1>. QED  BY <1>2, <1>3

(* A crash makes callers forget blocks, and changes no list.               *)
LEMMA CrashStep ==
  ASSUME IInv, Formatting, Crash
  PROVE  /\ UNCHANGED <<PoolFree, PoolNodes, Broken>>
         /\ PoolUsed' \subseteq PoolUsed
<1>1. /\ pc # "broken" /\ UNCHANGED <<dsb, dchain, blk, dorigin>> /\ TypeOK
      /\ pc' = IF dorigin = "junk" THEN "broken" ELSE "idle"
  BY DEF Crash, IInv
<1>2. Broken' = Broken /\ InFlight' = {}
  BY <1>1 DEF Broken, InFlight
<1>3. PoolFree' = PoolFree /\ PoolNodes' = PoolNodes
  BY <1>1, <1>2 DEF PoolFree, PoolNodes
<1>4. held' \subseteq PoolUsed
  <2>1. CASE dsb.nfree = 0 /\ dorigin # "junk"
    <3>1. held' = Data /\ dorigin # "junk"
      BY <2>1, Constants DEF Crash
    <3>2. ~Broken
      BY <1>1, <3>1 DEF Broken
    <3>3. CASE pc = "free_sb"
      BY <2>1, <3>1, <3>2, <3>3 DEF Formatting, PoolUsed, InFlight
    <3>4. CASE pc # "free_sb"
      <4>1. pc # "alloc_sb"
        BY <2>1 DEF IInv, Allocating
      <4>2. sb = dsb /\ next = FirstData /\ next .. FSize - 1 \subseteq held
        BY <1>1, <2>1, <3>4, <4>1 DEF IInv, TypeOK
      <4>. QED  BY <3>1, <4>2 DEF Data, PoolUsed
    <3>. QED  BY <3>3, <3>4
  <2>2. CASE ~(dsb.nfree = 0 /\ dorigin # "junk")
    BY <2>2 DEF Crash, PoolUsed
  <2>. QED  BY <2>1, <2>2
<1>. QED  BY <1>2, <1>3, <1>4 DEF PoolUsed

-----------------------------------------------------------------------------
(* The refinement.                                                         *)

LEMMA PoolInit == Init => Pool!Init
<1>. SUFFICES ASSUME Init PROVE Pool!Init
  OBVIOUS
<1>1. ~Broken /\ InFlight = {}
  BY Constants DEF Init, Broken, InFlight, ZeroList
<1>2. Lists(dchain) = {1} /\ Slots(dsb, dchain, blk, 1) = {}
  BY EmptySeq DEF Init, Lists, Slots, ListAt, ZeroList
<1>3. PoolFree = {} /\ PoolNodes = {}
  <2>1. \A x : x \notin FreeSet(dsb, dchain, blk) /\ x \notin Nodes(dsb, dchain, blk)
    BY <1>2, Members
  <2>. QED  BY <1>1, <2>1 DEF PoolFree, PoolNodes
<1>4. PoolUsed = Data
  BY <1>1 DEF PoolUsed, Init
<1>. QED  BY <1>1, <1>3, <1>4 DEF Pool!Init, Broken

(* Every step of the code, by what it does to the pool.                    *)
LEMMA Cases ==
  ASSUME IInv, Formatting, [Next]_vars
  PROVE  \/ PoolSame
         \/ WriteSuper /\ pc \in {"alloc_sb", "free_sb"}
         \/ Crash
<1>1. CASE MkfsFree
  <2>1. next \in held
    BY <1>1, Constants DEF MkfsFree, IInv, TypeOK
  <2>. QED  BY <1>1, <2>1, BfreeStep DEF MkfsFree
<1>2. ASSUME NEW b \in held, CallerFree(b) PROVE PoolSame
  BY <1>2, BfreeStep DEF CallerFree
<1>3. CASE BallocPop \/ BallocRefill \/ BallocOverrun
  BY <1>3, BallocStep
<1>4. CASE WriteSuper
  BY <1>4 DEF WriteSuper
<1>5. CASE ZeroBlock
  BY <1>5, ZeroBlockStep
<1>6. CASE UNCHANGED vars
  BY <1>6 DEF vars, PoolSame, PoolFree, PoolUsed, PoolNodes, Broken, InFlight,
              FreeSet, Nodes, Lists, Slots, Entry, ListAt
<1>. QED  BY <1>1, <1>2, <1>3, <1>4, <1>5, <1>6 DEF Next

LEMMA PoolStep == IInv /\ Formatting /\ [Next]_vars => [Pool!Next]_Pool!vars
<1>. SUFFICES ASSUME IInv, Formatting, [Next]_vars PROVE [Pool!Next]_Pool!vars
  OBVIOUS
<1>1. CASE PoolSame
  BY <1>1 DEF PoolSame, Pool!vars
<1>2. CASE WriteSuper /\ pc = "free_sb"
  <2>1. arg \in Data /\ Pool!Free(arg)
    BY <1>2, WriteFreeStep DEF Pool!Free, Broken
  <2>. QED  BY <2>1 DEF Pool!Next
<1>3. CASE WriteSuper /\ pc = "alloc_sb"
  <2>1. CASE Broken'
    <3>1. Pool!Exhaust
      BY <1>3, <2>1, WriteAllocStep DEF Pool!Exhaust, Broken
    <3>. QED  BY <3>1 DEF Pool!Next
  <2>2. CASE ~Broken'
    <3>1. arg \in Data /\ Pool!Alloc(arg)
      BY <1>3, <2>2, WriteAllocStep DEF Pool!Alloc, Broken
    <3>. QED  BY <3>1 DEF Pool!Next
  <2>. QED  BY <2>1, <2>2
<1>4. CASE Crash
  <2>. DEFINE S == PoolUsed \ PoolUsed'
  <2>1. /\ UNCHANGED <<PoolFree, PoolNodes, Broken>>
        /\ S \in SUBSET PoolUsed /\ PoolUsed' = PoolUsed \ S
    BY <1>4, CrashStep
  <2>2. Pool!Forget(S)
    <3>. HIDE DEF S
    <3>. QED  BY <2>1 DEF Pool!Forget
  <2>. QED  BY <2>1, <2>2 DEF Pool!Next
<1>. QED  BY <1>1, <1>2, <1>3, <1>4, Cases

(* fs_balloc and fs_bfree, with every interleaving of crashes, are a       *)
(* durable pool, whatever the image held before mkfs: a block is handed    *)
(* out at most once until it is given back, and the pool breaks only when  *)
(* it is asked for a block while it is empty.  After that BlockPool        *)
(* promises nothing, and on a used image blocks in use are handed out.     *)
THEOREM ImplementsPool == Spec => RefinesPool
<1>. QED  BY PoolInit, PoolStep, AlwaysFormatting, PTL DEF Spec, RefinesPool, Pool!Spec

LostOne ==
  \/ Crash
  \/ Broken'
  \/ Accounted' = Accounted
  \/ dchain' = Front(dchain) /\ Accounted' = Accounted \ {dchain[Len(dchain)]}

LEMMA LostStep == IInv /\ Formatting /\ [Next]_vars => [LostOne]_vars
<1>. SUFFICES ASSUME IInv, Formatting, [Next]_vars PROVE LostOne
  OBVIOUS
<1>1. CASE PoolSame
  BY <1>1 DEF PoolSame, LostOne, Accounted
<1>2. CASE WriteSuper /\ pc = "free_sb"
  <2>1. Accounted' = Accounted
    BY <1>2, WriteFreeStep DEF Accounted
  <2>. QED  BY <2>1 DEF LostOne
<1>3. CASE WriteSuper /\ pc = "alloc_sb" /\ ~Broken'
  <2>. DEFINE c == dchain[Len(dchain)]
  <2>1. /\ arg \in PoolFree /\ PoolUsed = held
        /\ PoolFree' = PoolFree \ {arg} /\ PoolUsed' = PoolUsed \union {arg}
        /\ \/ PoolNodes' = PoolNodes
           \/ /\ dchain # <<>> /\ dchain' = Front(dchain) /\ c \in PoolNodes
              /\ PoolNodes' = PoolNodes \ {c}
        /\ ~Broken
    BY <1>3, WriteAllocStep
  <2>2. CASE PoolNodes' = PoolNodes
    <3>1. Accounted' = Accounted
      BY <2>1, <2>2 DEF Accounted
    <3>. QED  BY <3>1 DEF LostOne
  <2>3. CASE /\ dchain' = Front(dchain) /\ c \in PoolNodes
             /\ PoolNodes' = PoolNodes \ {c}
    <3>1. c \notin PoolFree /\ c \notin PoolUsed
      BY <2>1, <2>3, OnDevice, Disjoint
    <3>. HIDE DEF c
    <3>2. Accounted' = Accounted \ {c}
      BY <2>1, <2>3, <3>1 DEF Accounted
    <3>. QED  BY <2>3, <3>2 DEF LostOne, c
  <2>. QED  BY <2>1, <2>2, <2>3
<1>4. CASE Crash \/ Broken'
  BY <1>4 DEF LostOne
<1>. QED  BY <1>1, <1>2, <1>3, <1>4, Cases

(* No step but a crash, or a request to the empty list, loses a block,     *)
(* except that a refill of fs_balloc loses the one block that held the     *)
(* list it loads.                                                          *)
THEOREM LosesOnePerRefill == Spec => OneLostPerRefill
<1>1. [LostOne]_vars <=> [ \/ Crash
                           \/ Broken'
                           \/ Accounted' = Accounted
                           \/ /\ dchain' = Front(dchain)
                              /\ Accounted' = Accounted \ {dchain[Len(dchain)]} ]_vars
  BY DEF LostOne
<1>. QED  BY <1>1, LostStep, AlwaysFormatting, PTL DEF Spec, OneLostPerRefill
===============================================================================
