---------------------------- MODULE LayoutProofs ----------------------------
(***************************************************************************)
(* Proofs about Layout, for every run of mkfs: a volume that fits keeps    *)
(* its parts apart, whatever its size, its number of inodes (none at all   *)
(* included) and the length of its free lists.  Whether it fits is part of *)
(* the properties; of a volume that does not, only the types are known.    *)
(***************************************************************************)
EXTENDS Layout, SequenceTheorems, TLAPS

Kinds == {"zero", "super", "inodes", "boot", "list", "data"}
Device == [0 .. Wrap - 1 -> [block : Nat, kind : Kinds, list : Seq(Nat)]]

LEMMA Constants ==
  /\ PerBlock \in Nat /\ PerBlock > 1 /\ ListLen \in Nat /\ ListLen > 1
  /\ Wrap \in Nat /\ Wrap > 2
BY LayoutAssumption

LEMMA PositionIs ==
  ASSUME NEW b \in 0 .. Wrap - 1
  PROVE  Position(b) = b
BY Constants DEF Position

(* A write changes the block it is for and no other.                       *)
LEMMA PutFacts ==
  ASSUME NEW d \in Device, NEW b \in 0 .. Wrap - 1, NEW kind \in Kinds, NEW list \in Seq(Nat)
  PROVE  /\ Put(d, b, kind, list) \in Device
         /\ Put(d, b, kind, list)[b] = Held(b, kind, list)
         /\ \A p \in 0 .. Wrap - 1 : p # b => Put(d, b, kind, list)[p] = d[p]
<1>1. Put(d, b, kind, list) = [d EXCEPT ![b] = Held(b, kind, list)]
  BY PositionIs DEF Put
<1>2. Held(b, kind, list) \in [block : Nat, kind : Kinds, list : Seq(Nat)]
  BY Constants DEF Held
<1>. QED  BY <1>1, <1>2 DEF Device

LEMMA IBlockFacts ==
  ASSUME NEW inum \in Nat \ {0}
  PROVE  /\ IBlock(inum) \in Nat /\ IBlock(inum) >= 2 /\ IBlock(inum) <= inum + 2
         /\ IBlock(1) = 2
BY Constants DEF IBlock

(* The sizes mkfs computes are numbers, for each of its arguments.         *)
LEMMA ArgsFacts ==
  ASSUME args \in Args
  PROVE  ISize(args) \in Nat /\ Blocks(args) \in Nat
<1>1. args \in [device : Nat, blocks : Int, inodes : Int, bootable : BOOLEAN]
  BY LayoutAssumption
<1>2. args.device \in Nat /\ args.blocks \in Int /\ args.inodes \in Int
  BY <1>1
<1>3. Blocks(args) \in Nat
  BY <1>2 DEF Blocks
<1>4. Inodes(args) \in Nat
  BY <1>2, <1>3 DEF Inodes
<1>5. ISize(args) \in Nat
  BY <1>4, Constants DEF ISize
<1>. QED  BY <1>3, <1>5

-----------------------------------------------------------------------------
(* What the parts of a device d of n blocks hold, with the data from F on. *)
DeviceOK(F, n, d) ==
  /\ d \in Device
  /\ \A p \in 0 .. Wrap - 1 : d[p].block = p /\ (d[p].kind # "list" => d[p].list = <<>>)
  /\ \A p \in 0 .. F - 1 : /\ d[p].kind \in {"zero", "super", "inodes", "boot"}
                           /\ d[p].kind = "inodes" => p \in (2 .. F - 2) \union {2}
  /\ \A p \in F .. Wrap - 1 : /\ d[p].kind \in {"zero", "list", "data"}
                              /\ d[p].kind # "zero" => p < n

(* Block b holds the ListLen numbers below it.                             *)
HoldsList(F, d, b) ==
  /\ b - ListLen >= F
  /\ Len(d[b].list) = ListLen
  /\ \A k \in 1 .. ListLen : d[b].list[k] = b - ListLen + k - 1
  /\ b - ListLen = F \/ d[b - ListLen].kind = "list"

(* The free list l: consecutive numbers, on top of a chain of blocks that  *)
(* hold lists, with every allocated block above it.                        *)
Sound(F, n, l, d, H) ==
  /\ l \in Seq(Nat) /\ Len(l) \in 1 .. ListLen
  /\ l[1] >= F /\ l[1] + Len(l) <= n
  /\ \A k \in 1 .. Len(l) : l[k] = l[1] + k - 1
  /\ l[1] = F \/ d[l[1]].kind = "list"
  /\ \A b \in F .. l[1] : d[b].kind = "list" => HoldsList(F, d, b)
  /\ \A h \in H : h \in l[1] + Len(l) .. n - 1 /\ d[h].kind = "data"

(* A write below the data leaves the free list sound.                      *)
LEMMA LowWrite ==
  ASSUME NEW F \in Nat, NEW n \in Nat, n <= Wrap, NEW l, NEW d, NEW e, NEW H,
         Sound(F, n, l, d, H), \A p \in F .. Wrap - 1 : e[p] = d[p]
  PROVE  Sound(F, n, l, e, H)
<1>1. l[1] \in Nat /\ l[1] >= F /\ l[1] < n /\ Len(l) \in Nat
  <2>1. Len(l) \in Nat /\ 1 \in 1 .. Len(l) /\ l \in Seq(Nat)
    BY Constants DEF Sound
  <2>2. l[1] \in Nat
    BY <2>1, ElementOfSeq
  <2>. QED  BY <2>1, <2>2 DEF Sound
<1>2. \A b \in F .. l[1] : e[b] = d[b]
  BY <1>1, Constants
<1>3. \A b \in F .. l[1] : d[b].kind = "list" => HoldsList(F, e, b)
  <2>. SUFFICES ASSUME NEW b \in F .. l[1], d[b].kind = "list"
                PROVE  HoldsList(F, e, b)
    OBVIOUS
  <2>1. HoldsList(F, d, b)
    BY DEF Sound
  <2>2. b - ListLen \in F .. l[1]
    BY <1>1, <2>1, Constants DEF HoldsList
  <2>. QED  BY <1>2, <2>1, <2>2 DEF HoldsList
<1>4. \A h \in H : e[h] = d[h]
  BY <1>1, Constants, SMTT(30) DEF Sound
<1>5. l[1] \in F .. l[1]
  BY <1>1
<1>. QED  BY <1>2, <1>3, <1>4, <1>5 DEF Sound

(* S holds the numbers from a on.                                          *)
From(S, a) == S \in Seq(Nat) /\ \A k \in 1 .. Len(S) : S[k] = a + k - 1

LEMMA WithoutLast ==
  ASSUME NEW a \in Nat, NEW S, From(S, a), Len(S) > 1
  PROVE  /\ Len(S) \in Nat /\ S[Len(S)] = a + Len(S) - 1
         /\ From(SubSeq(S, 1, Len(S) - 1), a)
         /\ Len(SubSeq(S, 1, Len(S) - 1)) = Len(S) - 1
         /\ SubSeq(S, 1, Len(S) - 1)[1] = a
<1>1. Len(S) \in Nat
  BY DEF From
<1>. DEFINE s == Len(S)
            r == s - 1
            m == SubSeq(S, 1, r)
<1>2. s \in Nat /\ s \in 1 .. s /\ r \in Nat /\ 1 \in 1 .. r /\ 1 <= r /\ r - 1 + 1 = r
  BY <1>1
<1>3. \A i \in 1 .. r : i \in 1 .. s /\ 1 + i - 1 = i
  BY <1>2
<1>4. \A k \in 1 .. s : S[k] = a + k - 1
  BY DEF From
<1>5. \A i \in 1 .. r : S[i] \in Nat
  BY <1>3, ElementOfSeq DEF From
<1>6. m \in Seq(Nat) /\ Len(m) = r /\ \A i \in 1 .. r : m[i] = S[1 + i - 1]
  <2>. HIDE DEF r, s
  <2>1. 1 \in Int /\ r \in Int
    BY <1>2
  <2>. QED  BY <1>2, <1>5, <2>1, SubSeqProperties
<1>7. S[s] = a + s - 1
  <2>. HIDE DEF s
  <2>. QED  BY <1>2, <1>4
<1>8. \A i \in 1 .. r : m[i] = a + i - 1
  <2>. HIDE DEF s, r, m
  <2>. QED  BY <1>3, <1>4, <1>6
<1>9. m[1] = a
  <2>. HIDE DEF s, r, m
  <2>. QED  BY <1>2, <1>8
<1>. QED  BY <1>1, <1>6, <1>7, <1>8, <1>9 DEF From

(* The list S that is in use, l or the one that l leads to, is a run from  *)
(* a block that is a stored list, or the first of the data.                *)
LoadedFrom(F, n, l, d, S) ==
  /\ l[1] \in Nat /\ l[1] < n /\ Len(l) \in Nat /\ l[1] + Len(l) <= n
  /\ \E a \in F .. l[1] :
       /\ From(S, a) /\ Len(S) \in 2 .. ListLen
       /\ a + Len(S) <= l[1] + Len(l)
       /\ a = F \/ d[a].kind = "list"

(* The list fs_balloc takes from starts at a block that is the first of the *)
(* data, or one that holds a list.                                         *)
LEMMA Loaded ==
  ASSUME NEW F \in Nat, NEW n \in Nat, n <= Wrap, NEW l, NEW d, NEW H,
         DeviceOK(F, n, d), Sound(F, n, l, d, H),
         NEW S, S = IF Len(l) = 1 THEN d[l[1]].list ELSE l, Len(S) > 1
  PROVE  LoadedFrom(F, n, l, d, S)
<1>. SUFFICES /\ l[1] \in Nat /\ l[1] < n /\ Len(l) \in Nat /\ l[1] + Len(l) <= n
              /\ \E a \in F .. l[1] :
                   /\ From(S, a) /\ Len(S) \in 2 .. ListLen
                   /\ a + Len(S) <= l[1] + Len(l)
                   /\ a = F \/ d[a].kind = "list"
  BY DEF LoadedFrom
<1>1. l[1] \in Nat /\ l[1] >= F /\ l[1] < n /\ Len(l) \in Nat /\ l[1] + Len(l) <= n
  <2>1. Len(l) \in Nat /\ 1 \in 1 .. Len(l) /\ l \in Seq(Nat)
    BY Constants DEF Sound
  <2>2. l[1] \in Nat
    BY <2>1, ElementOfSeq
  <2>. QED  BY <2>1, <2>2 DEF Sound
<1>2. CASE Len(l) # 1
  <2>1. S = l
    BY <1>2
  <2>2. From(l, l[1]) /\ (l[1] = F \/ d[l[1]].kind = "list")
    BY DEF Sound, From
  <2>3. Len(l) \in 2 .. ListLen
    BY <1>1, <1>2, Constants DEF Sound
  <2>4. l[1] \in F .. l[1] /\ l[1] + Len(l) <= l[1] + Len(l)
    BY <1>1
  <2>. QED  BY <1>1, <2>1, <2>2, <2>3, <2>4
<1>3. CASE Len(l) = 1
  <2>1. S = d[l[1]].list /\ l[1] \in 0 .. Wrap - 1 /\ l[1] \in F .. l[1]
    BY <1>1, <1>3, Constants
  <2>2. d[l[1]].kind = "list"
    <3>1. S # <<>>
      BY EmptySeq
    <3>. QED  BY <2>1, <3>1 DEF DeviceOK
  <2>3. HoldsList(F, d, l[1]) /\ S \in Seq(Nat)
    BY <2>1, <2>2 DEF Sound, DeviceOK, Device
  <2>. DEFINE b == l[1]
              a == b - ListLen
              s == d[b].list
  <2>4. /\ a >= F /\ Len(s) = ListLen /\ (a = F \/ d[a].kind = "list")
        /\ \A k \in 1 .. ListLen : s[k] = a + k - 1
    BY <2>3 DEF HoldsList
  <2>5. b \in Nat
    BY <1>1
  <2>6. S = s
    BY <2>1
  <2>7. a \in F .. b /\ a + ListLen <= b + 1 /\ ListLen \in 2 .. ListLen
    <3>. HIDE DEF b
    <3>. QED  BY ONLY <2>4, <2>5, Constants, F \in Nat
  <2>8. From(s, a)
    <3>. HIDE DEF a, s
    <3>. QED  BY <2>3, <2>4, <2>6 DEF From
  <2>. HIDE DEF a, s
  <2>. QED  BY <1>1, <1>3, <2>4, <2>6, <2>7, <2>8
<1>. QED  BY <1>2, <1>3

(* Up to block o the lists are what they should be, and the allocated      *)
(* blocks are beyond the c numbers from o on.                              *)
Stack(F, n, o, c, d, H) ==
  /\ o < n /\ o + c <= n
  /\ \A b \in F .. o : d[b].kind = "list" => HoldsList(F, d, b)
  /\ \A h \in H : h \in o + c .. n - 1 /\ d[h].kind = "data"

(* Of the blocks from F on, a write of data to block t changes only t.     *)
DataWritten(F, d, e, t) ==
  /\ e[t].kind = "data"
  /\ \A p \in F .. Wrap - 1 : p # t => e[p] = d[p]

(* fs_balloc: what it takes is above the list that is left, which is sound *)
(* again; a list is loaded only from a block that holds one.               *)
LEMMA Allocated ==
  ASSUME NEW F \in Nat, NEW n \in Nat, n <= Wrap, NEW o \in Nat, NEW c \in Nat,
         NEW d, NEW e, NEW H, Stack(F, n, o, c, d, H),
         NEW a \in F .. o, NEW t \in Nat, t - a \in 1 .. ListLen, t < o + c,
         a = F \/ d[a].kind = "list",
         NEW m, From(m, a), Len(m) = t - a, m[1] = a,
         DataWritten(F, d, e, t)
  PROVE  /\ t \in F + 1 .. n - 1
         /\ Sound(F, n, m, e, H \union {t})
<1>1. /\ a \in Nat /\ a <= o /\ a >= F /\ t > a /\ t < o + c
      /\ Wrap \in Nat /\ ListLen \in Nat /\ o < n /\ o + c <= n
  BY Constants DEF Stack
<1>2. \A b \in F .. a : e[b] = d[b] /\ b \in F .. o
  BY <1>1 DEF DataWritten
<1>3. \A b \in F .. a : e[b].kind = "list" => HoldsList(F, e, b)
  <2>. SUFFICES ASSUME NEW b \in F .. a, d[b].kind = "list"
                PROVE  HoldsList(F, e, b)
    BY <1>2
  <2>1. HoldsList(F, d, b)
    BY <1>2 DEF Stack
  <2>2. b - ListLen \in F .. a
    <3>1. b - ListLen >= F
      BY <2>1 DEF HoldsList
    <3>2. b \in Int /\ b <= a /\ F \in Int
      BY <1>1
    <3>. QED  BY ONLY <1>1, <3>1, <3>2
  <2>3. e[b] = d[b] /\ e[b - ListLen] = d[b - ListLen]
    BY <1>2, <2>2
  <2>. QED  BY ONLY <2>1, <2>3 DEF HoldsList
<1>4. \A h \in H \union {t} : h \in t .. n - 1 /\ e[h].kind = "data"
  <2>1. ASSUME NEW h \in H PROVE h \in t .. n - 1 /\ e[h].kind = "data"
    <3>1. h \in o + c .. n - 1 /\ d[h].kind = "data"
      BY DEF Stack
    <3>2. h \in t .. n - 1 /\ h # t /\ h \in F .. Wrap - 1
      BY <1>1, <3>1
    <3>. QED  BY <3>1, <3>2 DEF DataWritten
  <2>2. t \in t .. n - 1
    BY <1>1
  <2>. QED  BY <2>1, <2>2 DEF DataWritten
<1>5. a = F \/ e[a].kind = "list"
  <2>1. a \in F .. a
    BY <1>1
  <2>. QED  BY <1>2, <2>1
<1>6. a >= F /\ t <= n /\ t \in F + 1 .. n - 1
  BY <1>1
<1>. QED  BY <1>3, <1>4, <1>5, <1>6 DEF Sound, From

(* e is d after a write of a part of this kind to block b.                 *)
PutBelow(F, n, d, b, kind, e) ==
  /\ DeviceOK(F, n, e) /\ e[b].kind = kind
  /\ \A p \in 0 .. Wrap - 1 : p # b => e[p] = d[p]

(* A write of a part before the data, and one of a data block.             *)
LEMMA LowPut ==
  ASSUME NEW F \in Nat, NEW n \in Nat, F <= Wrap, NEW d, DeviceOK(F, n, d),
         NEW b \in 0 .. F - 1, NEW kind \in {"super", "inodes", "boot"},
         kind = "inodes" => b \in (2 .. F - 2) \union {2}, NEW e, e = Put(d, b, kind, <<>>)
  PROVE  PutBelow(F, n, d, b, kind, e)
<1>1. b \in 0 .. Wrap - 1 /\ kind \in Kinds /\ <<>> \in Seq(Nat) /\ d \in Device
  BY Constants DEF Kinds, DeviceOK
<1>2. /\ e \in Device /\ e[b] = Held(b, kind, <<>>)
      /\ \A p \in 0 .. Wrap - 1 : p # b => e[p] = d[p]
  BY <1>1, PutFacts
<1>3. e[b].block = b /\ e[b].kind = kind /\ e[b].list = <<>>
  BY <1>2 DEF Held
<1>4. \A p \in 0 .. Wrap - 1 : e[p].block = p /\ (e[p].kind # "list" => e[p].list = <<>>)
  BY <1>2, <1>3 DEF DeviceOK
<1>5. \A p \in 0 .. F - 1 : p \in 0 .. Wrap - 1
  BY Constants
<1>6. \A p \in 0 .. F - 1 : /\ e[p].kind \in {"zero", "super", "inodes", "boot"}
                            /\ e[p].kind = "inodes" => p \in (2 .. F - 2) \union {2}
  BY <1>2, <1>3, <1>5 DEF DeviceOK
<1>7. \A p \in F .. Wrap - 1 : p # b /\ p \in 0 .. Wrap - 1
  BY Constants
<1>8. \A p \in F .. Wrap - 1 : /\ e[p].kind \in {"zero", "list", "data"}
                               /\ e[p].kind # "zero" => p < n
  BY <1>2, <1>7 DEF DeviceOK
<1>9. DeviceOK(F, n, e)
  BY <1>2, <1>4, <1>6, <1>8 DEF DeviceOK
<1>. QED  BY <1>2, <1>3, <1>9 DEF PutBelow

(* What a block that is no list is read as.                                *)
Nothing == <<>>

LEMMA DataPut ==
  ASSUME NEW F \in Nat, NEW n \in Nat, n <= Wrap, NEW d, DeviceOK(F, n, d),
         NEW b \in F .. n - 1, NEW kind \in {"list", "data"}, NEW list \in Seq(Nat),
         kind = "data" => list = Nothing
  PROVE  /\ DeviceOK(F, n, Put(d, b, kind, list))
         /\ Put(d, b, kind, list)[b] = Held(b, kind, list)
         /\ \A p \in 0 .. Wrap - 1 : p # b => Put(d, b, kind, list)[p] = d[p]
<1>. DEFINE e == Put(d, b, kind, list)
<1>1. b \in 0 .. Wrap - 1 /\ kind \in Kinds /\ d \in Device
  BY Constants DEF Kinds, DeviceOK
<1>2. /\ e \in Device /\ e[b] = Held(b, kind, list)
      /\ \A p \in 0 .. Wrap - 1 : p # b => e[p] = d[p]
  BY <1>1, PutFacts
<1>. HIDE DEF e
<1>3. e[b].block = b /\ e[b].kind = kind /\ e[b].list = list
  BY <1>2 DEF Held
<1>4. \A p \in 0 .. Wrap - 1 : e[p].block = p /\ (e[p].kind # "list" => e[p].list = <<>>)
  BY <1>2, <1>3 DEF DeviceOK, Nothing
<1>5. \A p \in 0 .. F - 1 : p # b /\ p \in 0 .. Wrap - 1
  BY Constants
<1>6. \A p \in 0 .. F - 1 : /\ e[p].kind \in {"zero", "super", "inodes", "boot"}
                            /\ e[p].kind = "inodes" => p \in (2 .. F - 2) \union {2}
  BY <1>2, <1>5 DEF DeviceOK
<1>7. b < n /\ \A p \in F .. Wrap - 1 : p \in 0 .. Wrap - 1
  BY Constants
<1>8. \A p \in F .. Wrap - 1 : /\ e[p].kind \in {"zero", "list", "data"}
                               /\ e[p].kind # "zero" => p < n
  BY <1>2, <1>3, <1>7 DEF DeviceOK
<1>9. DeviceOK(F, n, e)
  BY <1>2, <1>4, <1>6, <1>8 DEF DeviceOK
<1>. QED  BY <1>2, <1>9 DEF e

LEMMA SuperPut ==
  ASSUME NEW F \in Nat, NEW n \in Nat, F <= Wrap, F >= 3, NEW d, DeviceOK(F, n, d)
  PROVE  /\ DeviceOK(F, n, PutSuper(d)) /\ PutSuper(d)[1].kind = "super"
         /\ \A p \in 0 .. Wrap - 1 : p # 1 => PutSuper(d)[p] = d[p]
<1>1. 1 \in 0 .. F - 1 /\ "super" \in {"super", "inodes", "boot"}
  OBVIOUS
<1>2. PutBelow(F, n, d, 1, "super", PutSuper(d))
  BY <1>1, LowPut DEF PutSuper
<1>. QED  BY <1>2 DEF PutBelow

(* fs_bfree in mkfs: the first block, one more block, and the block after  *)
(* a full list, which holds that list from then on.                        *)
LEMMA FirstFreed ==
  ASSUME NEW F \in Nat, NEW n \in Nat, F < n, n <= Wrap, NEW d, d[F].kind # "list"
  PROVE  Sound(F, n, <<F>>, d, {}) /\ <<F>>[1] = F /\ Len(<<F>>) = 1
<1>1. <<F>> \in Seq(Nat) /\ Len(<<F>>) = 1 /\ <<F>>[1] = F
  OBVIOUS
<1>. DEFINE l == <<F>>
<1>2. l \in Seq(Nat) /\ Len(l) = 1 /\ l[1] = F
  BY <1>1
<1>. HIDE DEF l
<1>3. Len(l) \in 1 .. ListLen /\ \A k \in 1 .. Len(l) : l[k] = l[1] + k - 1
  BY <1>2, Constants
<1>4. \A b \in F .. l[1] : d[b].kind # "list"
  BY <1>2
<1>5. Sound(F, n, l, d, {})
  BY <1>2, <1>3, <1>4 DEF Sound
<1>. QED  BY <1>1, <1>5 DEF l

LEMMA OneFreed ==
  ASSUME NEW F \in Nat, NEW n \in Nat, NEW l, NEW d, NEW q \in Nat,
         Sound(F, n, l, d, {}), Len(l) # ListLen, q = l[1] + Len(l), q < n
  PROVE  /\ Sound(F, n, Append(l, q), d, {})
         /\ Append(l, q)[1] = l[1] /\ Len(Append(l, q)) = Len(l) + 1
<1>1. l \in Seq(Nat) /\ Len(l) \in Nat /\ l[1] \in Nat /\ Len(l) >= 1 /\ Len(l) < ListLen
  <2>1. l \in Seq(Nat) /\ Len(l) \in Nat /\ 1 \in 1 .. Len(l) /\ Len(l) <= ListLen
    BY Constants DEF Sound
  <2>2. l[1] \in Nat
    BY <2>1, ElementOfSeq
  <2>. QED  BY <2>1, <2>2, Constants
<1>. DEFINE m == Append(l, q)
<1>2. /\ m \in Seq(Nat) /\ Len(m) = Len(l) + 1 /\ m[Len(l) + 1] = q
      /\ \A k \in 1 .. Len(l) : m[k] = l[k]
  BY <1>1, AppendProperties
<1>. HIDE DEF m
<1>3. m[1] = l[1]
  BY <1>1, <1>2
<1>4. \A k \in 1 .. Len(m) : m[k] = m[1] + k - 1
  <2>. SUFFICES ASSUME NEW k \in 1 .. Len(m)
                PROVE  m[k] = m[1] + k - 1
    OBVIOUS
  <2>1. CASE k = Len(l) + 1
    BY <1>1, <1>2, <1>3, <2>1
  <2>2. CASE k # Len(l) + 1
    <3>1. k \in 1 .. Len(l)
      BY <1>1, <1>2, <2>2
    <3>2. l[k] = l[1] + k - 1
      BY <3>1 DEF Sound
    <3>. QED  BY <1>2, <1>3, <3>1, <3>2
  <2>. QED  BY <2>1, <2>2
<1>5. Len(m) \in 1 .. ListLen /\ m[1] + Len(m) <= n
  BY <1>1, <1>2, <1>3, Constants
<1>6. /\ m[1] >= F /\ (m[1] = F \/ d[m[1]].kind = "list")
      /\ \A b \in F .. m[1] : d[b].kind = "list" => HoldsList(F, d, b)
  BY <1>3 DEF Sound
<1>7. Sound(F, n, m, d, {})
  BY <1>2, <1>4, <1>5, <1>6 DEF Sound
<1>. QED  BY <1>2, <1>3, <1>7 DEF m

LEMMA ListStored ==
  ASSUME NEW F \in Nat, NEW n \in Nat, n <= Wrap, NEW l, NEW d, NEW e, NEW q \in Nat,
         Sound(F, n, l, d, {}), Len(l) = ListLen, q = l[1] + Len(l), q < n,
         \A p \in l[1] + 1 .. Wrap - 1 : d[p].kind = "zero",
         e[q].kind = "list", e[q].list = l,
         \A p \in F .. Wrap - 1 : p # q => e[p] = d[p]
  PROVE  Sound(F, n, <<q>>, e, {}) /\ <<q>>[1] = q /\ Len(<<q>>) = 1
<1>1. l \in Seq(Nat) /\ l[1] \in Nat /\ l[1] >= F /\ q = l[1] + ListLen
  <2>1. l \in Seq(Nat) /\ 1 \in 1 .. Len(l)
    BY Constants DEF Sound
  <2>2. l[1] \in Nat
    BY <2>1, ElementOfSeq
  <2>. QED  BY <2>1, <2>2 DEF Sound
<1>. DEFINE o == l[1]
<1>2. o \in Nat /\ o >= F /\ q = o + ListLen /\ o < q /\ ListLen \in Nat /\ Wrap \in Nat
  BY <1>1, Constants
<1>3. /\ \A b \in F .. o : d[b].kind = "list" => HoldsList(F, d, b)
      /\ o = F \/ d[o].kind = "list"
      /\ \A k \in 1 .. ListLen : l[k] = o + k - 1
      /\ \A p \in o + 1 .. Wrap - 1 : d[p].kind = "zero"
  BY DEF Sound
<1>. HIDE DEF o
<1>4. \A b \in F .. o : b # q /\ b \in F .. Wrap - 1 /\ e[b] = d[b]
  BY <1>2
<1>5. HoldsList(F, e, q)
  <2>1. q - ListLen = o /\ o \in F .. o
    BY <1>2
  <2>2. o = F \/ e[o].kind = "list"
    BY <1>3, <1>4, <2>1
  <2>3. \A k \in 1 .. ListLen : e[q].list[k] = q - ListLen + k - 1
    BY <1>3, <2>1
  <2>4. Len(e[q].list) = ListLen /\ q - ListLen >= F
    BY <1>2, <2>1
  <2>. QED  BY <2>1, <2>2, <2>3, <2>4 DEF HoldsList
<1>6. ASSUME NEW b \in F .. q, e[b].kind = "list"
      PROVE  HoldsList(F, e, b)
  <2>1. CASE b = q
    BY <1>5, <2>1
  <2>2. CASE b # q /\ b > o
    <3>1. b \in o + 1 .. Wrap - 1 /\ b \in F .. Wrap - 1
      BY <1>2, <2>2
    <3>. QED  BY <1>3, <1>6, <2>2, <3>1
  <2>3. CASE b <= o
    <3>1. b \in F .. o /\ e[b] = d[b]
      BY <1>2, <1>4, <2>3
    <3>2. HoldsList(F, d, b)
      BY <1>3, <1>6, <3>1
    <3>3. b - ListLen >= F
      BY <3>2 DEF HoldsList
    <3>4. b - ListLen \in F .. o
      BY <1>2, <3>1, <3>3
    <3>5. e[b - ListLen] = d[b - ListLen]
      BY <1>4, <3>4
    <3>. QED  BY ONLY <3>1, <3>2, <3>5 DEF HoldsList
  <2>. QED  BY <1>2, <2>1, <2>2, <2>3
<1>. DEFINE m == <<q>>
<1>7. m \in Seq(Nat) /\ Len(m) = 1 /\ m[1] = q
  OBVIOUS
<1>. HIDE DEF m
<1>8. Len(m) \in 1 .. ListLen /\ \A k \in 1 .. Len(m) : m[k] = m[1] + k - 1
  BY <1>7, Constants
<1>9. m[1] >= F /\ m[1] + Len(m) <= n
  BY <1>2, <1>7
<1>10. Sound(F, n, m, e, {})
  BY <1>6, <1>7, <1>8, <1>9 DEF Sound
<1>. QED  BY <1>7, <1>10 DEF m

-----------------------------------------------------------------------------
(* The inductive invariant: the types; before Create, an empty device;     *)
(* while mkfs clears the inodes and frees the data blocks, what it has     *)
(* done; after that a sound list and the superblock in its place.          *)
Types ==
  /\ args \in Args /\ idx \in Nat /\ store \in Device
  /\ sb \in [isize : Nat, fsize : Nat, list : Seq(Nat)]
  /\ pc \in {"create", "inodes", "free", "kill", "closed", "open", "refused"}
Zeroed == \A p \in FirstFree .. Wrap - 1 : store[p].kind = "zero"
Empty ==
  /\ sb = [isize |-> 0, fsize |-> 0, list |-> <<>>] /\ held = {}
  /\ \A p \in 0 .. Wrap - 1 : store[p] = Zero(p)
Sized ==
  /\ sb.isize = ISize(args) /\ sb.fsize = Blocks(args)
  /\ DeviceOK(FirstFree, sb.fsize, store)
Clearing ==
  /\ idx \in 2 .. sb.isize + 2 /\ sb.list = <<>> /\ held = {} /\ Zeroed
  /\ \A p \in 2 .. idx - 1 : store[p].kind = "inodes"
InodesMade == \A p \in InodeBlocks : store[p].kind = "inodes"
RootMade == store[2].kind = "inodes"
InodeArea == InodeBlocks \union {2}
GoodList ==
  /\ Sound(FirstFree, sb.fsize, sb.list, store, held)
  /\ store[1].kind = "super"
Filling ==
  /\ held = {} /\ idx \in FirstFree .. sb.fsize
  /\ \/ idx = FirstFree /\ sb.list = <<>> /\ Zeroed
     \/ /\ GoodList /\ sb.list[1] + Len(sb.list) = idx
        /\ \A p \in sb.list[1] + 1 .. Wrap - 1 : store[p].kind = "zero"

IInv ==
  /\ Types
  /\ pc = "create" => Empty
  /\ pc # "create" => Sized
  /\ pc = "inodes" => Clearing
  /\ pc \notin {"create", "inodes"} => InodesMade
  /\ pc = "free" => Filling
  /\ Formatted => GoodList /\ RootMade

LEMMA Sizes ==
  ASSUME Fits(args), Types, Sized
  PROVE  /\ sb.isize \in Nat /\ FirstFree = sb.isize + 3
         /\ FirstFree \in Nat /\ FirstFree >= 3 /\ sb.fsize \in Nat
         /\ FirstFree <= sb.fsize /\ sb.fsize <= Wrap /\ FirstFree <= Wrap
         /\ sb.list \in Seq(Nat) /\ Wrap \in Nat
BY ArgsFacts, Constants DEF Fits, ISize, Types, Sized, FirstFree

LEMMA Initially ==
  ASSUME Fits(args), Init
  PROVE  IInv
<1>1. Types
  <2>1. \A p \in 0 .. Wrap - 1 : Zero(p) \in [block : Nat, kind : Kinds, list : Seq(Nat)]
    BY Constants DEF Zero, Held, Kinds
  <2>2. store \in Device
    BY <2>1 DEF Init, Device
  <2>. QED  BY <2>2 DEF Init, Types
<1>2. Empty
  BY DEF Init, Empty
<1>. QED  BY <1>1, <1>2 DEF IInv, Init, Formatted

LEMMA CreateStep ==
  ASSUME Fits(args), IInv, Create
  PROVE  IInv'
<1>1. Types /\ Empty /\ pc = "create" /\ pc' = "inodes" /\ idx' = 2 /\ held' = {}
  BY DEF IInv, Create, Empty
<1>2. /\ sb' = [isize |-> ISize(args), fsize |-> Blocks(args), list |-> <<>>]
      /\ args' = args /\ store' = store /\ args \in Args
  BY <1>1 DEF Create, Types
<1>3. ISize(args) \in Nat /\ Blocks(args) \in Nat /\ FirstFree' = ISize(args) + 3
  BY <1>2, ArgsFacts DEF FirstFree
<1>4. Types'
  <2>1. sb' \in [isize : Nat, fsize : Nat, list : Seq(Nat)]
    BY <1>2, <1>3
  <2>. QED  BY <1>1, <1>2, <2>1 DEF Types
<1>5. \A p \in 0 .. Wrap - 1 : /\ store[p].block = p /\ store[p].kind = "zero"
                               /\ store[p].list = <<>>
  <2>1. \A p \in 0 .. Wrap - 1 : store[p] = Zero(p)
    BY <1>1 DEF Empty
  <2>2. \A p \in 0 .. Wrap - 1 : /\ Zero(p).block = p /\ Zero(p).kind = "zero"
                                 /\ Zero(p).list = <<>>
    BY ONLY Constants DEF Zero, Held
  <2>. QED  BY ONLY <2>1, <2>2
<1>6. ISize(args) + 3 <= Wrap
  BY <1>2, <1>3, Constants DEF Fits, ISize
<1>7. DeviceOK(FirstFree', Blocks(args), store)
  BY <1>1, <1>3, <1>5, <1>6, Constants DEF DeviceOK, Types
<1>8. Sized'
  BY <1>2, <1>7 DEF Sized, ISize, Blocks, Inodes
<1>9. Clearing'
  BY <1>1, <1>2, <1>3, <1>5, Constants DEF Clearing, Zeroed
<1>. QED  BY <1>1, <1>4, <1>8, <1>9 DEF IInv, Formatted

LEMMA InodesStep ==
  ASSUME Fits(args), IInv, MkfsInodes
  PROVE  IInv'
<1>1. /\ Types /\ Sized /\ Clearing /\ pc' = "inodes" /\ pc = "inodes"
      /\ UNCHANGED <<args, sb, held>> /\ idx' = idx + 1 /\ idx < sb.isize + 2
      /\ store' = Put(store, idx, "inodes", <<>>)
  BY DEF IInv, MkfsInodes
<1>2. idx \in 2 .. FirstFree - 2 /\ idx \in 0 .. FirstFree - 1
  BY <1>1, Sizes DEF Clearing
<1>3. /\ DeviceOK(FirstFree, sb.fsize, store') /\ store'[idx].kind = "inodes"
      /\ \A p \in 0 .. Wrap - 1 : p # idx => store'[p] = store[p]
  <2>1. /\ FirstFree \in Nat /\ sb.fsize \in Nat /\ FirstFree <= Wrap
        /\ DeviceOK(FirstFree, sb.fsize, store)
    BY <1>1, Sizes DEF Sized
  <2>2. "inodes" \in {"super", "inodes", "boot"}
    OBVIOUS
  <2>3. store' = Put(store, idx, "inodes", <<>>)
    BY <1>1
  <2>4. PutBelow(FirstFree, sb.fsize, store, idx, "inodes", store')
    BY ONLY <1>2, <2>1, <2>2, <2>3, LowPut
  <2>. QED  BY ONLY <2>4 DEF PutBelow
<1>4. FirstFree' = FirstFree /\ store' \in Device /\ args' = args /\ sb' = sb
  BY <1>1, <1>3 DEF FirstFree, DeviceOK
<1>5. Types' /\ Sized'
  BY <1>1, <1>2, <1>3, <1>4 DEF Types, Sized, ISize, Blocks, Inodes
<1>6. \A p \in FirstFree .. Wrap - 1 : store'[p] = store[p]
  BY <1>1, <1>2, <1>3, Sizes
<1>7. \A p \in 2 .. idx' - 1 : store'[p].kind = "inodes"
  <2>1. \A p \in 2 .. idx' - 1 : p = idx \/ (p \in 2 .. idx - 1 /\ p \in 0 .. Wrap - 1 /\ p # idx)
    BY <1>1, <1>2, Sizes
  <2>. QED  BY <1>1, <1>3, <2>1 DEF Clearing
<1>8. idx' \in 2 .. sb.isize + 2
  BY <1>1, <1>2, Sizes
<1>9. Clearing'
  BY <1>1, <1>4, <1>6, <1>7, <1>8 DEF Clearing, Zeroed
<1>. QED  BY <1>1, <1>5, <1>9 DEF IInv, Formatted

LEMMA InodesEndStep ==
  ASSUME Fits(args), IInv, InodesEnd
  PROVE  IInv'
<1>1. /\ Types /\ Sized /\ Clearing /\ pc' = "free" /\ pc = "inodes"
      /\ UNCHANGED <<args, sb, store, held>> /\ idx' = FirstFree /\ idx >= sb.isize + 2
  BY DEF IInv, InodesEnd
<1>2. FirstFree' = FirstFree /\ args' = args /\ sb' = sb /\ store' = store
  BY <1>1 DEF FirstFree
<1>3. Types' /\ Sized'
  BY <1>1, <1>2, Sizes DEF Types, Sized, ISize, Blocks, Inodes
<1>4. sb.isize + 1 = idx - 1
  BY <1>1, Sizes DEF Clearing
<1>5. InodesMade'
  BY <1>1, <1>2, <1>4 DEF Clearing, InodesMade, InodeBlocks
<1>6. Filling'
  BY <1>1, <1>2, Sizes DEF Clearing, Filling, Zeroed
<1>. QED  BY <1>1, <1>3, <1>5, <1>6 DEF IInv, Formatted

LEMMA FreeStep ==
  ASSUME Fits(args), IInv, MkfsFree
  PROVE  IInv'
<1>. DEFINE F == FirstFree
            n == sb.fsize
            l == sb.list
            d == IF Full THEN Put(store, idx, "list", l) ELSE store
            m == IF Full THEN <<idx>> ELSE Append(l, idx)
<1>1. /\ Types /\ Sized /\ Filling /\ InodesMade /\ pc = "free" /\ idx < n
      /\ sb' = [sb EXCEPT !.list = m] /\ store' = PutSuper(d) /\ idx' = idx + 1
      /\ args' = args /\ held' = held /\ pc' = pc
  BY DEF IInv, MkfsFree
<1>2. /\ F \in Nat /\ F >= 3 /\ n \in Nat /\ n <= Wrap /\ F <= Wrap /\ l \in Seq(Nat)
      /\ F = sb.isize + 3 /\ sb.isize \in Nat
  BY <1>1, Sizes
<1>3. idx \in Nat /\ idx \in F .. n - 1 /\ DeviceOK(F, n, store)
  BY <1>1, <1>2 DEF Filling, Sized
<1>4. /\ sb'.isize = sb.isize /\ sb'.fsize = sb.fsize /\ sb'.list = m
      /\ m \in Seq(Nat) => sb' \in [isize : Nat, fsize : Nat, list : Seq(Nat)]
  <2>. HIDE DEF m
  <2>. QED  BY <1>1 DEF Types
<1>. HIDE DEF m, d, l
<1>5. /\ DeviceOK(F, n, d)
      /\ Full => d[idx].kind = "list" /\ d[idx].list = l
      /\ \A p \in 0 .. Wrap - 1 : p # idx \/ ~ Full => d[p] = store[p]
  <2>1. CASE Full
    <3>1. "list" \in {"list", "data"} /\ d = Put(store, idx, "list", l)
      BY <2>1 DEF d
    <3>2. /\ DeviceOK(F, n, d) /\ d[idx] = Held(idx, "list", l)
          /\ \A p \in 0 .. Wrap - 1 : p # idx => d[p] = store[p]
      BY ONLY <1>2, <1>3, <3>1, DataPut
    <3>3. Held(idx, "list", l).kind = "list" /\ Held(idx, "list", l).list = l
      BY DEF Held
    <3>. QED  BY <2>1, <3>2, <3>3
  <2>2. CASE ~ Full
    BY <1>3, <2>2 DEF d
  <2>. QED  BY <2>1, <2>2
<1>6. /\ DeviceOK(F, n, store') /\ store'[1].kind = "super"
      /\ \A p \in 0 .. Wrap - 1 : p # 1 => store'[p] = d[p]
  BY <1>1, <1>2, <1>5, SuperPut
<1>7. \A p \in F .. Wrap - 1 : p # 1 /\ p \in 0 .. Wrap - 1 /\ store'[p] = d[p]
  BY <1>2, <1>6
<1>8. /\ Sound(F, n, m, d, {}) /\ m[1] + Len(m) = idx + 1
      /\ \A p \in m[1] + 1 .. Wrap - 1 : d[p].kind = "zero"
  <2>1. CASE idx = F /\ l = <<>> /\ Zeroed
    <3>1. ~ Full
      BY <2>1, Constants DEF Full, l
    <3>2. d = store /\ m = <<F>>
      BY <2>1, <3>1 DEF d, m
    <3>3. store[F].kind # "list"
      <4>1. F \in F .. Wrap - 1
        BY <1>2, <1>3, Constants
      <4>2. \A p \in F .. Wrap - 1 : store[p].kind = "zero"
        BY <2>1 DEF Zeroed
      <4>. QED  BY <4>1, <4>2
    <3>4. Sound(F, n, m, d, {}) /\ m[1] = F /\ Len(m) = 1
      BY <1>2, <1>3, <2>1, <3>2, <3>3, FirstFreed
    <3>5. \A p \in F + 1 .. Wrap - 1 : d[p].kind = "zero"
      BY <1>2, <2>1, <3>2 DEF Zeroed
    <3>. QED  BY <2>1, <3>4, <3>5
  <2>2. CASE /\ GoodList /\ l[1] + Len(l) = idx
             /\ \A p \in l[1] + 1 .. Wrap - 1 : store[p].kind = "zero"
    <3>1. Sound(F, n, l, store, {}) /\ l[1] \in Nat /\ l[1] >= F /\ Len(l) \in Nat
      <4>1. Sound(F, n, l, store, {})
        BY <1>1, <2>2 DEF GoodList, Filling, l
      <4>2. 1 \in 1 .. Len(l)
        BY <4>1, Constants DEF Sound
      <4>. QED  BY <1>2, <4>1, <4>2, ElementOfSeq DEF Sound
    <3>2. CASE Full
      <4>1. Len(l) = ListLen /\ m = <<idx>>
        BY <3>2 DEF Full, l, m
      <4>2. \A p \in F .. Wrap - 1 : p # idx => d[p] = store[p]
        BY <1>5, <1>7
      <4>3. Sound(F, n, m, d, {}) /\ m[1] = idx /\ Len(m) = 1
        <5>1. \A p \in l[1] + 1 .. Wrap - 1 : store[p].kind = "zero"
          BY <2>2
        <5>2. idx = l[1] + Len(l) /\ idx < n
          BY <1>1, <2>2
        <5>. HIDE DEF F, n
        <5>. QED  BY ONLY <1>2, <1>3, <1>5, <3>1, <3>2, <4>1, <4>2, <5>1, <5>2, ListStored
      <4>4. \A p \in idx + 1 .. Wrap - 1 : /\ p \in l[1] + 1 .. Wrap - 1 /\ p # idx
                                           /\ p \in 0 .. Wrap - 1
        BY <1>2, <1>3, <2>2, <3>1
      <4>. QED  BY <1>5, <2>2, <4>3, <4>4
    <3>3. CASE ~ Full
      <4>1. Len(l) # ListLen /\ m = Append(l, idx) /\ d = store
        BY <3>3 DEF Full, l, m, d
      <4>2. Sound(F, n, m, d, {}) /\ m[1] = l[1] /\ Len(m) = Len(l) + 1
        BY <1>2, <1>3, <2>2, <3>1, <4>1, OneFreed, SMTT(30)
      <4>3. m[1] + Len(m) = idx + 1
        BY <1>3, <2>2, <3>1, <4>2
      <4>. QED  BY <2>2, <4>1, <4>2, <4>3
    <3>. QED  BY <3>2, <3>3
  <2>. QED  BY <1>1, <2>1, <2>2 DEF Filling, l
<1>9. m \in Seq(Nat) /\ m[1] >= F
  BY <1>8 DEF Sound
<1>10. Sound(F, n, m, store', {})
  BY <1>2, <1>7, <1>8, LowWrite
<1>11. \A p \in m[1] + 1 .. Wrap - 1 : store'[p].kind = "zero"
  <2>1. m[1] \in Nat
    <3>1. 1 \in 1 .. Len(m)
      BY <1>8, Constants DEF Sound
    <3>. QED  BY <1>9, <3>1, ElementOfSeq
  <2>2. \A p \in m[1] + 1 .. Wrap - 1 : p \in F .. Wrap - 1
    BY <1>2, <1>9, <2>1
  <2>. QED  BY <1>7, <1>8, <2>2
<1>12. FirstFree' = F /\ store' \in Device
  BY <1>4, <1>6 DEF FirstFree, DeviceOK
<1>13. Types'
  BY <1>1, <1>3, <1>4, <1>9, <1>12 DEF Types
<1>14. Sized'
  BY <1>1, <1>4, <1>6, <1>12 DEF Sized, ISize, Blocks, Inodes
<1>15. InodesMade'
  <2>1. \A p \in InodeBlocks : /\ p \in 0 .. Wrap - 1 /\ p # 1 /\ p # idx
    <3>. SUFFICES ASSUME NEW p \in 2 .. sb.isize + 1
                  PROVE  p \in 0 .. Wrap - 1 /\ p # 1 /\ p # idx
      BY DEF InodeBlocks
    <3>1. p \in Int /\ p >= 2 /\ p <= F - 2
      BY <1>2
    <3>. QED  BY ONLY <1>2, <1>3, <3>1, Constants
  <2>. QED  BY <1>1, <1>4, <1>5, <1>6, <2>1 DEF InodesMade, InodeBlocks
<1>16. Filling'
  <2>1. held' = {} /\ idx' \in FirstFree' .. sb'.fsize
    BY <1>1, <1>2, <1>3, <1>4, <1>12 DEF Filling
  <2>2. GoodList'
    BY <1>4, <1>6, <1>10, <1>12, <2>1 DEF GoodList
  <2>. QED  BY <1>1, <1>4, <1>8, <1>11, <2>1, <2>2 DEF Filling
<1>. QED  BY <1>1, <1>13, <1>14, <1>15, <1>16 DEF IInv, Formatted

LEMMA AllocateFacts ==
  ASSUME Fits(args), Types, Sized, GoodList, Len(Source) > 1,
         NEW m, m = SubSeq(Source, 1, Len(Source) - 1)
  PROVE  /\ Taken \in FirstFree + 1 .. sb.fsize - 1
         /\ DeviceOK(FirstFree, sb.fsize, Balloc)
         /\ Sound(FirstFree, sb.fsize, m, Balloc, held \union {Taken})
         /\ Balloc[1].kind = "super"
         /\ \A p \in 0 .. Wrap - 1 : p # 1 /\ p # Taken => Balloc[p] = store[p]
<1>. DEFINE F == FirstFree
            n == sb.fsize
            l == sb.list
            S == Source
            o == l[1]
            c == Len(l)
            t == Taken
<1>1. /\ F \in Nat /\ F >= 3 /\ n \in Nat /\ n <= Wrap /\ F <= Wrap /\ l \in Seq(Nat)
      /\ Wrap \in Nat
  BY Sizes
<1>2. Sound(F, n, l, store, held) /\ DeviceOK(F, n, store) /\ store[1].kind = "super"
  BY DEF GoodList, Sized
<1>3. S = IF Len(l) = 1 THEN store[l[1]].list ELSE l
  <2>1. 1 \in 1 .. Len(l) /\ l[1] + Len(l) <= n
    BY <1>2, Constants DEF Sound
  <2>2. l[1] \in Nat /\ Len(l) >= 1 /\ Len(l) \in Nat
    BY <1>1, <2>1, ElementOfSeq
  <2>3. l[1] \in 0 .. Wrap - 1
    <3>. HIDE DEF l
    <3>. QED  BY <1>1, <2>1, <2>2
  <2>4. At(l[1]) = store[l[1]]
    BY <2>3, PositionIs DEF At
  <2>. QED  BY <2>4 DEF Source, Refill
<1>. HIDE DEF F, n, l, S
<1>4. Len(S) > 1
  BY DEF S
<1>5. /\ o \in Nat /\ o < n /\ c \in Nat /\ o + c <= n
      /\ \E a \in F .. o : /\ From(S, a) /\ Len(S) \in 2 .. ListLen
                           /\ a + Len(S) <= o + c
                           /\ a = F \/ store[a].kind = "list"
  <2>1. LoadedFrom(F, n, l, store, S)
    BY ONLY <1>1, <1>2, <1>3, <1>4, Loaded
  <2>. QED  BY ONLY <2>1 DEF LoadedFrom
<1>. HIDE DEF o, c
<1>6. PICK a \in F .. o : /\ From(S, a) /\ Len(S) \in 2 .. ListLen
                          /\ a + Len(S) <= o + c
                          /\ a = F \/ store[a].kind = "list"
  BY <1>5
<1>7. a \in Nat
  BY <1>1, <1>5
<1>8. /\ Len(S) \in Nat /\ S[Len(S)] = a + Len(S) - 1
      /\ From(m, a) /\ Len(m) = Len(S) - 1 /\ m[1] = a
  BY <1>4, <1>6, <1>7, WithoutLast DEF S
<1>9. t \in Nat /\ t - a \in 1 .. ListLen /\ t < o + c /\ Len(m) = t - a /\ t > a
  <2>. DEFINE k == Len(S)
  <2>1. t = a + k - 1
    BY <1>8 DEF Taken, S
  <2>2. k \in Nat /\ k \in 2 .. ListLen /\ a + k <= o + c /\ Len(m) = k - 1
    BY <1>6, <1>8
  <2>. HIDE DEF k, t
  <2>. QED  BY ONLY <1>5, <1>7, <2>1, <2>2, Constants
<1>. HIDE DEF t
<1>10. t \in F .. n - 1
  BY <1>1, <1>5, <1>7, <1>9, Constants
<1>11. /\ DeviceOK(F, n, PutSuper(store)) /\ PutSuper(store)[1].kind = "super"
       /\ \A p \in 0 .. Wrap - 1 : p # 1 => PutSuper(store)[p] = store[p]
  BY <1>1, <1>2, SuperPut
<1>. DEFINE e == Put(PutSuper(store), t, "data", <<>>)
<1>12. /\ DeviceOK(F, n, e) /\ e[t] = Held(t, "data", <<>>)
       /\ \A p \in 0 .. Wrap - 1 : p # t => e[p] = PutSuper(store)[p]
  <2>1. "data" \in {"list", "data"} /\ Nothing \in Seq(Nat)
    BY DEF Nothing
  <2>. DEFINE u == PutSuper(store)
  <2>2. DeviceOK(F, n, u)
    BY <1>11
  <2>. HIDE DEF u
  <2>3. /\ DeviceOK(F, n, Put(u, t, "data", Nothing))
        /\ Put(u, t, "data", Nothing)[t] = Held(t, "data", Nothing)
        /\ \A p \in 0 .. Wrap - 1 : p # t => Put(u, t, "data", Nothing)[p] = u[p]
    BY ONLY <1>1, <1>10, <2>1, <2>2, DataPut
  <2>. QED  BY <2>3 DEF u, Nothing
<1>13. e = Balloc
  BY DEF Balloc, t
<1>. HIDE DEF e
<1>14. e[t].kind = "data"
  BY <1>12 DEF Held
<1>15. \A p \in F .. Wrap - 1 : p # t => e[p] = store[p]
  <2>1. \A p \in F .. Wrap - 1 : p \in 0 .. Wrap - 1 /\ p # 1
    BY <1>1
  <2>. QED  BY <1>11, <1>12, <2>1
<1>16. e[1].kind = "super"
  <2>1. 1 \in 0 .. Wrap - 1 /\ 1 # t
    BY <1>1, <1>10, Constants
  <2>. QED  BY <1>11, <1>12, <2>1
<1>17. Stack(F, n, o, c, store, held)
  BY <1>2, <1>5 DEF Sound, Stack, o, c
<1>18. t \in F + 1 .. n - 1 /\ Sound(F, n, m, e, held \union {t})
  <2>1. DataWritten(F, store, e, t)
    BY <1>14, <1>15 DEF DataWritten
  <2>2. a \in F .. o
    OBVIOUS
  <2>. QED  BY ONLY <1>1, <1>5, <1>6, <1>8, <1>9, <1>17, <2>1, <2>2, Allocated
<1>. QED  BY <1>9, <1>11, <1>12, <1>13, <1>16, <1>18 DEF F, n, t

(* The steps of a formatted volume: the device is written below the data,  *)
(* the superblock and the inodes stay; or a block is taken.                *)
LEMMA KeptList ==
  ASSUME Fits(args), Types, Sized, InodesMade, GoodList,
         UNCHANGED <<args, sb, held>>, idx' \in Nat,
         pc' \in {"kill", "closed", "open", "refused"},
         DeviceOK(FirstFree, sb.fsize, store'), store'[1].kind = "super",
         \A p \in FirstFree .. Wrap - 1 : store'[p] = store[p],
         \A p \in InodeArea : store'[p].kind = "inodes"
  PROVE  IInv'
<1>1. FirstFree' = FirstFree /\ args' = args /\ sb' = sb /\ held' = held /\ store' \in Device
  BY DEF FirstFree, DeviceOK
<1>2. Sound(FirstFree, sb.fsize, sb.list, store, held)
  BY DEF GoodList
<1>3. Sound(FirstFree, sb.fsize, sb.list, store', held)
  BY <1>2, Sizes, LowWrite
<1>4. Types' /\ Sized' /\ InodesMade' /\ GoodList' /\ RootMade'
  BY <1>1, <1>3 DEF Types, Sized, InodesMade, RootMade, InodeArea, InodeBlocks, GoodList,
                    ISize, Blocks, Inodes
<1>5. pc' \notin {"create", "inodes", "free"}
  OBVIOUS
<1>. QED  BY <1>4, <1>5 DEF IInv

LEMMA TakenList ==
  ASSUME Fits(args), Types, Sized, InodesMade, GoodList, Len(Source) > 1,
         args' = args, idx' = idx, pc' \in {"kill", "open"},
         sb' = [sb EXCEPT !.list = SubSeq(Source, 1, Len(Source) - 1)],
         held' = held \union {Taken},
         (store' = Balloc /\ RootMade) \/ store' = PutInode(Balloc, 1)
  PROVE  IInv'
<1>. DEFINE m == SubSeq(Source, 1, Len(Source) - 1)
            F == FirstFree
            n == sb.fsize
<1>1. /\ sb.isize \in Nat /\ F = sb.isize + 3 /\ F \in Nat /\ F >= 3
      /\ n \in Nat /\ n <= Wrap /\ F <= Wrap
  BY Sizes
<1>2. /\ sb'.isize = sb.isize /\ sb'.fsize = sb.fsize /\ sb'.list = m
      /\ m \in Seq(Nat) => sb' \in [isize : Nat, fsize : Nat, list : Seq(Nat)]
  <2>1. sb' = [sb EXCEPT !.list = m] /\ sb \in [isize : Nat, fsize : Nat, list : Seq(Nat)]
    BY DEF Types
  <2>. HIDE DEF m
  <2>. QED  BY ONLY <2>1
<1>. HIDE DEF n
<1>3. /\ Taken \in F + 1 .. n - 1 /\ DeviceOK(F, n, Balloc)
      /\ Sound(F, n, m, Balloc, held') /\ Balloc[1].kind = "super"
      /\ \A p \in 0 .. Wrap - 1 : p # 1 /\ p # Taken => Balloc[p] = store[p]
  BY AllocateFacts DEF n
<1>. HIDE DEF F, m
<1>4. \A p \in 2 .. sb.isize + 1 : Balloc[p].kind = "inodes"
  <2>. SUFFICES ASSUME NEW p \in 2 .. sb.isize + 1
                PROVE  Balloc[p].kind = "inodes"
    OBVIOUS
  <2>1. p \in 0 .. Wrap - 1 /\ p # 1 /\ p # Taken
    BY ONLY <1>1, <1>3, p \in 2 .. sb.isize + 1, Constants
  <2>. QED  BY <1>3, <2>1 DEF InodesMade, InodeBlocks
<1>5. /\ DeviceOK(F, n, store') /\ Sound(F, n, m, store', held') /\ store'[1].kind = "super"
      /\ \A p \in 2 .. sb.isize + 1 : store'[p].kind = "inodes"
      /\ store'[2].kind = "inodes"
  <2>1. CASE store' = Balloc /\ RootMade
    <3>1. 2 \in 0 .. Wrap - 1 /\ 2 # 1 /\ 2 # Taken
      BY ONLY <1>1, <1>3, Constants
    <3>. QED  BY <1>3, <1>4, <2>1, <3>1 DEF RootMade
  <2>2. CASE store' = PutInode(Balloc, 1)
    <3>. DEFINE b == IBlock(1)
    <3>1. b = 2
      BY IBlockFacts
    <3>. HIDE DEF b
    <3>2. b \in 0 .. F - 1 /\ b \in (2 .. F - 2) \union {2} /\ "inodes" \in {"super", "inodes", "boot"}
      BY <1>1, <3>1
    <3>3. store' = Put(Balloc, b, "inodes", <<>>)
      BY <2>2 DEF PutInode, b
    <3>4. /\ DeviceOK(F, n, store') /\ store'[b].kind = "inodes"
          /\ \A p \in 0 .. Wrap - 1 : p # b => store'[p] = Balloc[p]
      <4>1. F \in Nat /\ n \in Nat /\ F <= Wrap /\ DeviceOK(F, n, Balloc)
        BY <1>1, <1>3
      <4>2. PutBelow(F, n, Balloc, b, "inodes", store')
        BY ONLY <3>2, <3>3, <4>1, LowPut
      <4>. QED  BY ONLY <4>2 DEF PutBelow
    <3>5. \A p \in F .. Wrap - 1 : store'[p] = Balloc[p]
      <4>1. \A p \in F .. Wrap - 1 : p \in 0 .. Wrap - 1 /\ p # b
        BY <1>1, <3>1
      <4>. QED  BY <3>4, <4>1
    <3>6. Sound(F, n, m, store', held')
      <4>1. Sound(F, n, m, Balloc, held')
        BY <1>3
      <4>. QED  BY ONLY <1>1, <3>5, <4>1, LowWrite
    <3>7. \A p \in 2 .. sb.isize + 1 : p \in 0 .. Wrap - 1
      BY <1>1, Constants
    <3>8. 1 \in 0 .. Wrap - 1 /\ 1 # b
      BY <3>1, Constants
    <3>. QED  BY <1>3, <1>4, <3>1, <3>4, <3>6, <3>7, <3>8
  <2>. QED  BY <2>1, <2>2
<1>6. FirstFree' = F /\ store' \in Device /\ m \in Seq(Nat)
  BY <1>2, <1>5 DEF FirstFree, F, DeviceOK, Sound
<1>7. Types'
  BY <1>2, <1>6 DEF Types
<1>8. Sized'
  BY <1>2, <1>5, <1>6 DEF Sized, ISize, Blocks, Inodes, n
<1>9. InodesMade' /\ GoodList' /\ RootMade'
  BY <1>2, <1>5, <1>6 DEF InodesMade, InodeBlocks, GoodList, RootMade, n
<1>10. pc' \notin {"create", "inodes", "free"}
  OBVIOUS
<1>. QED  BY <1>7, <1>8, <1>9, <1>10 DEF IInv

LEMMA RootStep ==
  ASSUME Fits(args), IInv, MkfsRoot
  PROVE  IInv'
<1>1. /\ Types /\ Sized /\ InodesMade /\ Filling /\ pc' = "kill" /\ args' = args /\ idx' = idx
      /\ Len(Source) > 1 /\ sb' = [sb EXCEPT !.list = SubSeq(Source, 1, Len(Source) - 1)]
      /\ held' = held \union {Taken} /\ store' = PutInode(Balloc, 1)
  BY DEF IInv, MkfsRoot, Allocate
<1>2. GoodList
  <2>1. CASE sb.list = <<>>
    <3>1. Source = sb.list
      BY <2>1 DEF Source, Refill
    <3>. QED  BY <1>1, <2>1, <3>1
  <2>2. CASE sb.list # <<>>
    BY <1>1, <2>2 DEF Filling
  <2>. QED  BY <2>1, <2>2
<1>. QED  BY <1>1, <1>2, TakenList

LEMMA DataStep ==
  ASSUME Fits(args), IInv, WriteData
  PROVE  IInv'
<1>1. /\ Types /\ Sized /\ InodesMade /\ GoodList /\ RootMade
      /\ pc' = "open" /\ args' = args /\ idx' = idx
      /\ Len(Source) > 1 /\ sb' = [sb EXCEPT !.list = SubSeq(Source, 1, Len(Source) - 1)]
      /\ held' = held \union {Taken} /\ store' = Balloc
  BY DEF IInv, WriteData, Allocate, Formatted
<1>. QED  BY <1>1, TakenList

(* One write of a block before the data, or none.                          *)
LEMMA LowPutStep ==
  ASSUME Fits(args), Types, Sized, InodesMade, GoodList,
         NEW d, DeviceOK(FirstFree, sb.fsize, d),
         NEW b \in 0 .. FirstFree - 1, NEW kind \in {"super", "inodes", "boot"},
         b = 1 => kind = "super", b \in InodeArea <=> kind = "inodes",
         d[1].kind = "super", \A p \in InodeArea : d[p].kind = "inodes",
         \A p \in FirstFree .. Wrap - 1 : d[p] = store[p]
  PROVE  LET e == Put(d, b, kind, <<>>)
         IN /\ DeviceOK(FirstFree, sb.fsize, e) /\ e[1].kind = "super"
            /\ \A p \in InodeArea : e[p].kind = "inodes"
            /\ \A p \in FirstFree .. Wrap - 1 : e[p] = store[p]
<1>. DEFINE e == Put(d, b, kind, <<>>)
            F == FirstFree
            n == sb.fsize
<1>1. /\ sb.isize \in Nat /\ F = sb.isize + 3 /\ F \in Nat /\ F >= 3
      /\ n \in Nat /\ n <= Wrap /\ F <= Wrap /\ Wrap \in Nat
  BY Sizes
<1>2. kind = "inodes" => b \in (2 .. F - 2) \union {2}
  BY <1>1 DEF InodeArea, InodeBlocks
<1>3. DeviceOK(F, n, d) /\ b \in 0 .. F - 1
  OBVIOUS
<1>. HIDE DEF F, n
<1>9. /\ DeviceOK(F, n, e) /\ e[b].kind = kind
      /\ \A p \in 0 .. Wrap - 1 : p # b => e[p] = d[p]
  <2>1. kind \in {"super", "inodes", "boot"}
    OBVIOUS
  <2>2. F \in Nat /\ n \in Nat /\ F <= Wrap
    BY <1>1
  <2>3. e = Put(d, b, kind, <<>>)
    OBVIOUS
  <2>4. PutBelow(F, n, d, b, kind, e)
    <3>. HIDE DEF e
    <3>. QED  BY ONLY <1>2, <1>3, <2>1, <2>2, <2>3, LowPut
  <2>. QED  BY ONLY <2>4 DEF PutBelow
<1>. HIDE DEF e
<1>4. \A p \in F .. Wrap - 1 : p \in 0 .. Wrap - 1 /\ p # b
  BY <1>1, <1>3
<1>5. \A p \in InodeArea : p \in 0 .. Wrap - 1
  BY <1>1 DEF InodeArea, InodeBlocks
<1>6. e[1].kind = "super"
  <2>1. 1 \in 0 .. Wrap - 1
    BY Constants
  <2>. QED  BY <1>9, <2>1
<1>7. \A p \in InodeArea : e[p].kind = "inodes"
  BY <1>9, <1>5
<1>8. \A p \in F .. Wrap - 1 : e[p] = store[p]
  BY <1>9, <1>4 DEF F
<1>. QED  BY <1>9, <1>6, <1>7, <1>8 DEF e, F, n

LEMMA SuperPutStep ==
  ASSUME Fits(args), Types, Sized, InodesMade, GoodList,
         NEW d, DeviceOK(FirstFree, sb.fsize, d),
         d[1].kind = "super", \A p \in InodeArea : d[p].kind = "inodes",
         \A p \in FirstFree .. Wrap - 1 : d[p] = store[p]
  PROVE  /\ DeviceOK(FirstFree, sb.fsize, PutSuper(d)) /\ PutSuper(d)[1].kind = "super"
         /\ \A p \in InodeArea : PutSuper(d)[p].kind = "inodes"
         /\ \A p \in FirstFree .. Wrap - 1 : PutSuper(d)[p] = store[p]
<1>1. /\ sb.isize \in Nat /\ FirstFree = sb.isize + 3 /\ FirstFree \in Nat
      /\ FirstFree >= 3 /\ sb.fsize \in Nat /\ FirstFree <= Wrap /\ Wrap \in Nat
  BY Sizes
<1>2. /\ DeviceOK(FirstFree, sb.fsize, PutSuper(d)) /\ PutSuper(d)[1].kind = "super"
      /\ \A p \in 0 .. Wrap - 1 : p # 1 => PutSuper(d)[p] = d[p]
  <2>1. FirstFree \in Nat /\ sb.fsize \in Nat /\ FirstFree <= Wrap /\ FirstFree >= 3
    BY <1>1
  <2>. QED  BY <2>1, SuperPut
<1>3. \A p \in InodeArea : p \in 0 .. Wrap - 1 /\ p # 1
  BY <1>1 DEF InodeArea, InodeBlocks
<1>4. \A p \in FirstFree .. Wrap - 1 : p \in 0 .. Wrap - 1 /\ p # 1
  BY <1>1
<1>. QED  BY <1>2, <1>3, <1>4

LEMMA EndStep ==
  ASSUME Fits(args), IInv, MkfsEnd
  PROVE  IInv'
<1>1. /\ Types /\ Sized /\ InodesMade /\ GoodList /\ RootMade /\ pc' = "closed"
      /\ UNCHANGED <<args, sb, held>> /\ idx' = idx /\ idx \in Nat
      /\ store' = PutSuper(Boot(store)) /\ DeviceOK(FirstFree, sb.fsize, store)
  BY DEF IInv, MkfsEnd, Formatted, Types, Sized
<1>. DEFINE d == Boot(store)
<1>2. /\ DeviceOK(FirstFree, sb.fsize, d)
      /\ d[1].kind = "super" /\ \A p \in InodeArea : d[p].kind = "inodes"
      /\ \A p \in FirstFree .. Wrap - 1 : d[p] = store[p]
  <2>1. CASE args.bootable
    <3>. DEFINE b == 0
    <3>1. /\ b \in 0 .. FirstFree - 1 /\ "boot" \in {"super", "inodes", "boot"}
          /\ b # 1 /\ b \notin InodeArea
      BY <1>1, Sizes DEF InodeArea, InodeBlocks
    <3>2. d = Put(store, b, "boot", <<>>)
      BY <2>1 DEF Boot
    <3>3. store[1].kind = "super" /\ \A p \in InodeArea : store[p].kind = "inodes"
      BY <1>1 DEF InodesMade, RootMade, InodeArea, GoodList
    <3>. HIDE DEF b, d
    <3>. QED  BY <1>1, <3>1, <3>2, <3>3, LowPutStep
  <2>2. CASE ~ args.bootable
    BY <1>1, <2>2 DEF Boot, InodesMade, RootMade, InodeArea, GoodList
  <2>. QED  BY <2>1, <2>2
<1>. HIDE DEF d
<1>3. store' = PutSuper(d)
  BY <1>1 DEF d
<1>4. /\ DeviceOK(FirstFree, sb.fsize, store') /\ store'[1].kind = "super"
      /\ \A p \in InodeArea : store'[p].kind = "inodes"
      /\ \A p \in FirstFree .. Wrap - 1 : store'[p] = store[p]
  BY <1>1, <1>2, <1>3, SuperPutStep
<1>. QED  BY <1>1, <1>4, KeptList

LEMMA KillStep ==
  ASSUME Fits(args), IInv, Kill
  PROVE  IInv'
<1>1. /\ Types /\ Sized /\ InodesMade /\ GoodList /\ RootMade /\ pc' = "closed"
      /\ UNCHANGED <<args, sb, held>> /\ idx' = idx /\ idx \in Nat
      /\ store' = PutSuper(store) /\ DeviceOK(FirstFree, sb.fsize, store)
  BY DEF IInv, Kill, Formatted, Types, Sized
<1>2. store[1].kind = "super" /\ \A p \in InodeArea : store[p].kind = "inodes"
  BY <1>1 DEF InodesMade, RootMade, InodeArea, GoodList
<1>3. /\ DeviceOK(FirstFree, sb.fsize, store') /\ store'[1].kind = "super"
      /\ \A p \in InodeArea : store'[p].kind = "inodes"
      /\ \A p \in FirstFree .. Wrap - 1 : store'[p] = store[p]
  BY <1>1, <1>2, SuperPutStep
<1>. QED  BY <1>1, <1>3, KeptList

LEMMA OpenStep ==
  ASSUME Fits(args), IInv, Open
  PROVE  IInv'
<1>1. /\ Types /\ Sized /\ InodesMade /\ GoodList /\ RootMade /\ pc' \in {"open", "refused"}
      /\ UNCHANGED <<args, sb, held>> /\ idx' = idx /\ idx \in Nat
      /\ store' = store /\ DeviceOK(FirstFree, sb.fsize, store)
  BY DEF IInv, Open, Formatted, Types, Sized
<1>2. store[1].kind = "super" /\ \A p \in InodeArea : store[p].kind = "inodes"
  BY <1>1 DEF InodesMade, RootMade, InodeArea, GoodList
<1>. QED  BY <1>1, <1>2, KeptList

LEMMA InodeStep ==
  ASSUME Fits(args), IInv, WriteInode
  PROVE  IInv'
<1>1. /\ Types /\ Sized /\ InodesMade /\ GoodList /\ RootMade /\ pc' = "open"
      /\ UNCHANGED <<args, sb, held>> /\ idx' = idx /\ idx \in Nat
      /\ DeviceOK(FirstFree, sb.fsize, store)
  BY DEF IInv, WriteInode, Formatted, Types, Sized
<1>2. PICK inum \in 1 .. sb.isize - 1 : store' = PutInode(store, inum)
  BY DEF WriteInode
<1>. DEFINE b == IBlock(inum)
<1>3. b \in InodeArea /\ b \in 0 .. FirstFree - 1 /\ b # 1
  <2>1. sb.isize \in Nat /\ FirstFree = sb.isize + 3
    BY <1>1, Sizes
  <2>2. inum \in Nat \ {0} /\ inum <= sb.isize - 1
    BY <2>1
  <2>3. b \in Nat /\ b >= 2 /\ b <= inum + 2
    BY <2>2, IBlockFacts
  <2>. HIDE DEF b
  <2>. QED  BY <2>1, <2>2, <2>3 DEF InodeArea, InodeBlocks
<1>4. store' = Put(store, b, "inodes", <<>>)
  BY <1>2 DEF PutInode
<1>. HIDE DEF b
<1>5. store[1].kind = "super" /\ \A p \in InodeArea : store[p].kind = "inodes"
  BY <1>1 DEF InodesMade, RootMade, InodeArea, GoodList
<1>6. /\ DeviceOK(FirstFree, sb.fsize, store') /\ store'[1].kind = "super"
      /\ \A p \in InodeArea : store'[p].kind = "inodes"
      /\ \A p \in FirstFree .. Wrap - 1 : store'[p] = store[p]
  <2>1. "inodes" \in {"super", "inodes", "boot"}
    OBVIOUS
  <2>. QED  BY <1>1, <1>3, <1>4, <1>5, <2>1, LowPutStep
<1>. QED  BY <1>1, <1>6, KeptList

LEMMA Step ==
  ASSUME Fits(args), IInv, [Next]_vars
  PROVE  IInv'
<1>1. CASE UNCHANGED vars
  BY <1>1 DEF vars, IInv, Types, Empty, Zeroed, Sized, Clearing, InodesMade, InodeBlocks,
              RootMade, GoodList, Filling, Formatted, FirstFree, ISize, Blocks, Inodes
<1>. QED  BY <1>1, CreateStep, InodesStep, InodesEndStep, FreeStep, RootStep, EndStep,
             OpenStep, InodeStep, DataStep, KillStep DEF Next

(* What is known of a volume that does not fit as well: mkfs's loops run   *)
(* over numbers.                                                           *)
Numbers ==
  /\ args \in Args /\ idx \in Nat
  /\ DOMAIN sb = {"isize", "fsize", "list"} /\ sb.isize \in Nat /\ sb.fsize \in Nat
  /\ pc \in {"create", "inodes", "free", "kill", "closed", "open", "refused"}

LEMMA NumbersStep ==
  ASSUME Numbers, [Next]_vars
  PROVE  Numbers' /\ args' = args
<1>1. CASE Create
  BY <1>1, ArgsFacts DEF Create, Numbers
<1>2. CASE MkfsInodes \/ MkfsEnd \/ Open \/ WriteInode \/ Kill
  BY <1>2 DEF Numbers, MkfsInodes, MkfsEnd, Open, WriteInode, Kill
<1>3. CASE InodesEnd
  BY <1>3 DEF Numbers, InodesEnd, FirstFree
<1>4. ASSUME NEW m, sb' = [sb EXCEPT !.list = m]
      PROVE  /\ DOMAIN sb' = {"isize", "fsize", "list"}
             /\ sb'.isize \in Nat /\ sb'.fsize \in Nat
  BY <1>4 DEF Numbers
<1>5. CASE MkfsFree
  BY <1>4, <1>5 DEF Numbers, MkfsFree
<1>6. CASE MkfsRoot \/ WriteData
  BY <1>4, <1>6 DEF Numbers, MkfsRoot, WriteData, Allocate
<1>7. CASE UNCHANGED vars
  BY <1>7 DEF vars, Numbers
<1>. QED  BY <1>1, <1>2, <1>3, <1>5, <1>6, <1>7 DEF Next

Volume == Numbers /\ (Fits(args) => IInv)

(* Of every run of mkfs: on a volume that fits, from mkfs's first write    *)
(* on, every part of the volume and of the free list is where it should be *)
(* (mkfs/main.c, balloc.c, raw.c).                                         *)
THEOREM Invariance == Spec => []Volume
<1>1. Init => Volume
  <2>. SUFFICES ASSUME Init
                PROVE  Volume
    OBVIOUS
  <2>1. Numbers
    BY DEF Init, Numbers
  <2>. QED  BY <2>1, Initially DEF Volume
<1>2. Volume /\ [Next]_vars => Volume'
  <2>. SUFFICES ASSUME Volume, [Next]_vars
                PROVE  Volume'
    OBVIOUS
  <2>1. Numbers' /\ args' = args
    BY NumbersStep DEF Volume
  <2>2. Fits(args)' <=> Fits(args)
    BY <2>1 DEF Fits, ISize, Blocks, Inodes
  <2>3. Fits(args) => IInv'
    BY Step DEF Volume
  <2>. QED  BY <2>1, <2>2, <2>3 DEF Volume
<1>. QED  BY <1>1, <1>2, PTL DEF Spec

-----------------------------------------------------------------------------
(* Whatever the arguments of mkfs: if the volume fits, nothing is written  *)
(* beyond it, and an inode only where mkfs has made room for inodes or     *)
(* puts the root (IBLOCK, fs_inode_alloc's bound on the search).           *)
THEOREM TypeCorrect == Spec => []TypeOK
<1>1. Volume => TypeOK
  <2>. SUFFICES ASSUME Numbers, Fits(args), IInv
                PROVE  /\ Len(sb.list) <= ListLen /\ held \subseteq 0 .. sb.fsize - 1
                       /\ \A p \in Written :
                            /\ store[p].block < sb.fsize
                            /\ store[p].kind = "inodes" =>
                                 store[p].block \in InodeBlocks \union {IBlock(1)}
    BY DEF Volume, Numbers, TypeOK
  <2>1. Types
    BY DEF IInv
  <2>2. CASE pc = "create"
    <3>1. Empty
      BY <2>2 DEF IInv
    <3>2. Len(sb.list) = 0 /\ held = {}
      <4>1. sb = [isize |-> 0, fsize |-> 0, list |-> <<>>] /\ held = {}
        BY <3>1 DEF Empty
      <4>. QED  BY ONLY <4>1
    <3>3. \A p \in 0 .. Wrap - 1 : store[p].kind = "zero"
      <4>1. \A p \in 0 .. Wrap - 1 : store[p] = Zero(p)
        BY <3>1 DEF Empty
      <4>2. \A p \in 0 .. Wrap - 1 : Zero(p).kind = "zero"
        BY ONLY TRUE DEF Zero, Held
      <4>. QED  BY ONLY <4>1, <4>2
    <3>. QED  BY <3>2, <3>3, Constants DEF Written
  <2>3. CASE pc # "create"
    <3>1. Sized
      BY <2>3 DEF IInv
    <3>2. /\ FirstFree = sb.isize + 3 /\ sb.isize \in Nat /\ sb.fsize \in Nat
          /\ FirstFree <= sb.fsize /\ DeviceOK(FirstFree, sb.fsize, store)
      BY <2>1, <3>1, Sizes DEF Sized
    <3>3. Len(sb.list) <= ListLen /\ held \subseteq 0 .. sb.fsize - 1
      <4>1. CASE sb.list = <<>> /\ held = {}
        BY <4>1, Constants
      <4>2. CASE Sound(FirstFree, sb.fsize, sb.list, store, held)
        <5>. DEFINE l == sb.list
        <5>1. Len(l) \in 1 .. ListLen /\ l \in Seq(Nat) /\ l[1] >= FirstFree
              /\ \A h \in held : h \in l[1] + Len(l) .. sb.fsize - 1
          BY <4>2 DEF Sound
        <5>2. l[1] \in Nat
          <6>1. 1 \in 1 .. Len(l)
            BY <5>1, Constants
          <6>. QED  BY <5>1, <6>1, ElementOfSeq
        <5>. HIDE DEF l
        <5>3. \A h \in held : h \in 0 .. sb.fsize - 1
          BY <3>2, <5>1, <5>2, Constants
        <5>. QED  BY <5>1, <5>3, Constants DEF l
      <4>3. pc = "inodes" \/ pc = "free" \/ Formatted
        BY <2>1, <2>3 DEF Types, Formatted
      <4>. QED  BY <4>1, <4>2, <4>3 DEF IInv, Clearing, Filling, GoodList
    <3>4. \A p \in Written :
            /\ store[p].block < sb.fsize
            /\ store[p].kind = "inodes" => store[p].block \in InodeBlocks \union {IBlock(1)}
      <4>. SUFFICES ASSUME NEW p \in 0 .. Wrap - 1
                    PROVE  /\ store[p].kind # "zero" => p < sb.fsize
                           /\ store[p].kind = "inodes" => p \in InodeBlocks \union {2}
        <5>1. IBlock(1) = 2
          BY IBlockFacts
        <5>2. \A p \in 0 .. Wrap - 1 : store[p].block = p
          BY <3>2 DEF DeviceOK
        <5>. QED  BY <5>1, <5>2 DEF Written
      <4>1. CASE p < FirstFree
        <5>1. p \in 0 .. FirstFree - 1
          BY <3>2, <4>1
        <5>2. store[p].kind = "inodes" => p \in (2 .. FirstFree - 2) \union {2}
          BY <3>2, <5>1 DEF DeviceOK
        <5>3. p < sb.fsize /\ FirstFree - 2 = sb.isize + 1
          BY <3>2, <4>1
        <5>. QED  BY <5>2, <5>3 DEF InodeBlocks
      <4>2. CASE p >= FirstFree
        <5>1. p \in FirstFree .. Wrap - 1
          BY <3>2, <4>2, Constants
        <5>2. store[p].kind \in {"zero", "list", "data"} /\ (store[p].kind # "zero" => p < sb.fsize)
          BY <3>2, <5>1 DEF DeviceOK
        <5>. QED  BY <5>2
      <4>. QED  BY <3>2, <4>1, <4>2
    <3>. QED  BY <3>3, <3>4
  <2>. QED  BY <2>2, <2>3
<1>. QED  BY <1>1, Invariance, PTL

(* Whatever the arguments of mkfs: a formatted volume that fits keeps its  *)
(* superblock, its inodes, the allocated data and the stored free lists;   *)
(* no part is laid over another one.                                       *)
THEOREM AlwaysKept == Spec => []Kept
<1>1. Volume => Kept
  <2>. SUFFICES ASSUME IInv, Fits(args), Formatted
                PROVE  LET Holds(b, kind) == At(b).block = b /\ At(b).kind = kind
                       IN /\ Holds(1, "super")
                          /\ \A b \in InodeBlocks \union {IBlock(1)} : Holds(b, "inodes")
                          /\ \A b \in held : Holds(b, "data")
                          /\ sb.list[1] # FirstFree => Holds(sb.list[1], "list")
    BY DEF Volume, Kept, Whole
  <2>1. Types /\ Sized /\ InodesMade /\ GoodList /\ RootMade
    BY DEF IInv, Formatted
  <2>2. /\ FirstFree = sb.isize + 3 /\ sb.isize \in Nat /\ sb.fsize \in Nat
        /\ sb.fsize <= Wrap /\ FirstFree <= sb.fsize
    BY <2>1, Sizes
  <2>3. \A b \in 0 .. Wrap - 1 : At(b) = store[b] /\ store[b].block = b
    BY <2>1, PositionIs DEF At, Sized, DeviceOK
  <2>4. 1 \in 0 .. Wrap - 1 /\ store[1].kind = "super"
    BY <2>1, Constants DEF GoodList
  <2>5. IBlock(1) = 2
    BY IBlockFacts
  <2>6. \A b \in InodeBlocks \union {IBlock(1)} : b \in 0 .. Wrap - 1 /\ store[b].kind = "inodes"
    <3>1. \A b \in InodeBlocks : b \in 0 .. Wrap - 1 /\ store[b].kind = "inodes"
      BY <2>1, <2>2, Constants DEF InodeBlocks, InodesMade
    <3>2. IBlock(1) \in 0 .. Wrap - 1 /\ store[IBlock(1)].kind = "inodes"
      BY <2>1, <2>2, <2>5, Constants DEF RootMade
    <3>. QED  BY <3>1, <3>2
  <2>. DEFINE l == sb.list
  <2>7. /\ l \in Seq(Nat) /\ Len(l) \in 1 .. ListLen /\ l[1] + Len(l) <= sb.fsize
        /\ l[1] = FirstFree \/ store[l[1]].kind = "list"
        /\ \A h \in held : h \in l[1] + Len(l) .. sb.fsize - 1 /\ store[h].kind = "data"
    BY <2>1 DEF GoodList, Sound
  <2>8. l[1] \in 0 .. Wrap - 1 /\ l[1] \in Nat /\ Len(l) \in Nat
    <3>1. 1 \in 1 .. Len(l) /\ Len(l) \in Nat /\ Len(l) >= 1
      BY <2>7, Constants
    <3>2. l[1] \in Nat
      BY <2>7, <3>1, ElementOfSeq
    <3>. HIDE DEF l
    <3>. QED  BY <2>2, <2>7, <3>1, <3>2, Constants
  <2>9. \A b \in held : b \in 0 .. Wrap - 1 /\ store[b].kind = "data"
    <3>. HIDE DEF l
    <3>. QED  BY <2>2, <2>7, <2>8, Constants
  <2>. QED  BY <2>3, <2>4, <2>6, <2>7, <2>8, <2>9
<1>. QED  BY <1>1, Invariance, PTL
=============================================================================
