------------------------------ MODULE LzpProofs ------------------------------
(***************************************************************************)
(* Proofs about Lzp: what lzp_decompress writes is at every step the       *)
(* beginning of the data, for any data, table, hash and size of a group.   *)
(* The argument is a third run of the guessing, that of the data alone:    *)
(* R[k] is the memory both loops have after k bytes, and the packed data   *)
(* is described from it byte by byte.                                      *)
(***************************************************************************)
EXTENDS Lzp, SequenceTheorems, TLAPS

-----------------------------------------------------------------------------
(* The memory after some bytes of the data: where the group of the next    *)
(* byte starts, the bytes written for the groups started so far and the    *)
(* number of their masks.                                                  *)
Memory == [hash : Slot, table : [Slot -> Byte], start : Nat, len : Nat, masks : Nat]

Start == [hash |-> 0, table |-> EmptyTable, start |-> 0, len |-> 0, masks |-> 0]

NextStart(k, s) == IF k + 1 - s = Group THEN k + 1 ELSE s
MaskAt(k, s) == IF s = k THEN 1 ELSE 0
Right(m, c) == m.table[m.hash] = c

(* Byte k of the data, c, after the k bytes before it.                     *)
Turn(k, m, c) ==
  [hash  |-> HASH(m.hash, c),
   table |-> [m.table EXCEPT ![m.hash] = c],
   start |-> NextStart(k, m.start),
   len   |-> m.len + MaskAt(k, m.start) + (IF Right(m, c) THEN 0 ELSE 1),
   masks |-> m.masks + MaskAt(k, m.start)]

Runs(d, n, R) ==
  /\ R \in [0 .. n -> Memory]
  /\ R[0] = Start
  /\ \A k \in 0 .. n - 1 : R[k + 1] = Turn(k, R[k], d[k + 1])

(* Every group starts where a group starts, and no byte is written twice.  *)
Grouped(n, R) ==
  /\ \A k \in 0 .. n : /\ R[k].start \in 0 .. k
                       /\ k - R[k].start < Group
                       /\ R[R[k].start].start = R[k].start
  /\ \A k, l \in 0 .. n : k <= l => R[k].len <= R[l].len

(* One mask per group of bytes, and at most one byte more per byte.        *)
Few(n, R) ==
  \A k \in 0 .. n :
    /\ R[k].len <= k + R[k].masks
    /\ Group * R[k].masks = R[k].start + (IF R[k].start = k THEN 0 ELSE Group)

Guess(d, R, k) == Right(R[k], d[k + 1])
MaskOf(R, pk, k) == pk[R[R[k].start].len + 1]

(* pk holds the groups of the first f bytes of d.                          *)
Written(d, R, pk, f) ==
  /\ Len(pk) = R[f].len
  /\ \A k \in 0 .. f - 1 :
       /\ MaskOf(R, pk, k) \in Mask
       /\ Bit(MaskOf(R, pk, k), k - R[k].start) <=> Guess(d, R, k)
       /\ ~Guess(d, R, k) => pk[R[k + 1].len] = d[k + 1]
  /\ R[f].start # f =>
       \A j \in f - R[f].start .. Group - 1 : ~Bit(MaskOf(R, pk, f), j)

(* The group in progress starts at byte f and has g bytes.                 *)
InGroup(R, f, g) ==
  /\ g > 0 => R[f].start = f
  /\ 0 < g /\ g < Group => R[f + g].start = f
  /\ g = Group => R[f + g].start = f + g

(* The mask and the bytes of that group, which are still to be written.    *)
Held(d, R, f, g, mk, bf) ==
  /\ \A k \in f .. f + g - 1 : R[k].start = f
  /\ \A j \in 0 .. g - 1 : Bit(mk, j) <=> Guess(d, R, f + j)
  /\ \A j \in g .. Group - 1 : ~Bit(mk, j)
  /\ Len(bf) = R[f + g].len - R[f].len - (IF g > 0 THEN 1 ELSE 0)
  /\ Len(bf) <= g
  /\ \A k \in f .. f + g - 1 :
       ~Guess(d, R, k) => bf[R[k + 1].len - R[f].len - 1] = d[k + 1]

(* lzp_compress has read g bytes of the group that starts at byte f.       *)
Compressing(R, f, g) ==
  /\ f \in Nat /\ f + g = inpos /\ inpos <= Len(data)
  /\ hash = R[inpos].hash /\ table = R[inpos].table
  /\ Written(data, R, packed, f)
  /\ InGroup(R, f, g)
  /\ g = 0 => R[f].start = f \/ f = Len(data)
  /\ Held(data, R, f, g, mask, buff)
  /\ plain = <<>>

(* lzp_decompress has written f bytes, and g bytes of the next group are   *)
(* in buff.                                                                *)
Restored(f, g) ==
  /\ f = Len(plain) /\ g = Len(buff) /\ f + g <= Len(data)
  /\ \A k \in 1 .. f : plain[k] = data[k]
  /\ \A k \in 1 .. g : buff[k] = data[f + k]

Decompressing(R, f, g) ==
  /\ Restored(f, g)
  /\ g = i
  /\ hash = R[f + g].hash /\ table = R[f + g].table
  /\ Written(data, R, packed, Len(data))
  /\ phase # "bytes" =>
       /\ g = 0
       /\ R[f].start = f \/ f = Len(data)
       /\ inpos = R[f].len
  /\ phase = "bytes" =>
       /\ R[f].start = f /\ f < Len(data)
       /\ InGroup(R, f, g)
       /\ mask = packed[R[f].len + 1]
       /\ inpos = R[f + g].len + (IF g = 0 THEN 1 ELSE 0)
  /\ phase = "done" => f = Len(data)

(* The bytes of the data that the loops have been through.                 *)
Covered == IF phase = "compress" THEN inpos ELSE Len(data)

Agrees(R) ==
  /\ Runs(data, Covered, R)
  /\ Grouped(Covered, R)
  /\ Few(Covered, R)
  /\ phase = "compress" => Compressing(R, inpos - i, i)
  /\ phase # "compress" => Decompressing(R, Len(plain), i)

IInv == TypeOK /\ \E R \in [0 .. Covered -> Memory] : Agrees(R)

-----------------------------------------------------------------------------
(* One turn.                                                               *)
LEMMA StartFacts ==
  /\ Start \in Memory
  /\ Start.hash = 0 /\ Start.table = EmptyTable
  /\ Start.start = 0 /\ Start.len = 0 /\ Start.masks = 0
BY ByteAssumption, HashAssumption DEF Start, Memory, EmptyTable

(* b is the memory after byte k, c, when a is the one before it.           *)
Turned(k, a, c, b) ==
  /\ b \in Memory
  /\ b.hash = HASH(a.hash, c)
  /\ b.table = [a.table EXCEPT ![a.hash] = c]
  /\ b.start = (IF k + 1 - a.start = Group THEN k + 1 ELSE a.start)
  /\ b.len = a.len + (IF a.start = k THEN 1 ELSE 0) + (IF Right(a, c) THEN 0 ELSE 1)
  /\ b.masks = a.masks + (IF a.start = k THEN 1 ELSE 0)

LEMMA TurnFacts ==
  ASSUME NEW k \in Nat, NEW m \in Memory, NEW c \in Byte
  PROVE  Turned(k, m, c, Turn(k, m, c))
<1>1. /\ m.hash \in Slot /\ m.table \in [Slot -> Byte]
      /\ m.start \in Nat /\ m.len \in Nat /\ m.masks \in Nat
  BY DEF Memory
<1>2. HASH(m.hash, c) \in Slot
  BY <1>1, HashAssumption
<1>3. [m.table EXCEPT ![m.hash] = c] \in [Slot -> Byte]
  BY <1>1
<1>4. NextStart(k, m.start) \in Nat /\ MaskAt(k, m.start) \in Nat
  BY <1>1 DEF NextStart, MaskAt
<1>5. m.len + MaskAt(k, m.start) + (IF Right(m, c) THEN 0 ELSE 1) \in Nat
  BY <1>1, <1>4
<1>6. m.masks + MaskAt(k, m.start) \in Nat
  BY <1>1, <1>4
<1>7. Turn(k, m, c) \in Memory
  BY <1>2, <1>3, <1>4, <1>5, <1>6 DEF Turn, Memory
<1>. QED  BY <1>7 DEF Turn, Turned, NextStart, MaskAt

(* The run of no bytes.                                                    *)
LEMMA NoBytes ==
  ASSUME NEW d
  PROVE  \E R \in [0 .. 0 -> Memory] :
           R[0] = Start /\ Runs(d, 0, R) /\ Grouped(0, R) /\ Few(0, R)
<1>. DEFINE R == [k \in 0 .. 0 |-> Start]
<1>1. R \in [0 .. 0 -> Memory] /\ R[0] = Start
  BY StartFacts
<1>2. \A k \in 0 .. 0 : k = 0
  OBVIOUS
<1>3. \A k \in 0 .. 0 - 1 : FALSE
  OBVIOUS
<1>. HIDE DEF R
<1>4. Runs(d, 0, R)
  BY <1>1, <1>3 DEF Runs
<1>5. Grouped(0, R)
  BY <1>1, <1>2, StartFacts, GroupAssumption DEF Grouped
<1>6. Group * 0 = 0
  BY GroupAssumption
<1>7. Few(0, R)
  BY <1>1, <1>2, <1>6, StartFacts DEF Few
<1>. QED  BY <1>1, <1>4, <1>5, <1>7

(* What each turn of a run does.                                           *)
LEMMA RunFacts ==
  ASSUME NEW d \in Seq(Byte), NEW n \in Nat, n <= Len(d), NEW R,
         Runs(d, n, R), Grouped(n, R)
  PROVE  /\ \A k \in 0 .. n :
              /\ R[k].hash \in Slot /\ R[k].table \in [Slot -> Byte]
              /\ R[k].start \in 0 .. k /\ R[k].len \in Nat /\ R[k].masks \in Nat
         /\ \A k \in 0 .. n - 1 : Turned(k, R[k], d[k + 1], R[k + 1])
<1>1. \A k \in 0 .. n : R[k] \in Memory /\ R[k].start \in 0 .. k
  BY DEF Runs, Grouped
<1>2. \A k \in 0 .. n : /\ R[k].hash \in Slot /\ R[k].table \in [Slot -> Byte]
                        /\ R[k].len \in Nat /\ R[k].masks \in Nat
  BY <1>1 DEF Memory
<1>3. ASSUME NEW k \in 0 .. n - 1
      PROVE  Turned(k, R[k], d[k + 1], R[k + 1])
  <2>1. k \in Nat /\ R[k] \in Memory
    BY <1>1
  <2>2. d[k + 1] \in Byte
    <3>1. k + 1 \in 1 .. Len(d)
      OBVIOUS
    <3>. QED  BY <3>1
  <2>3. R[k + 1] = Turn(k, R[k], d[k + 1])
    BY DEF Runs
  <2>. QED  BY <2>1, <2>2, <2>3, TurnFacts
<1>. QED  BY <1>1, <1>2, <1>3

(* A run goes on with the next byte of the data.                           *)
LEMMA OneMore ==
  ASSUME NEW n \in Nat, NEW R \in [0 .. n -> Memory], NEW m \in Memory
  PROVE  \E Q \in [0 .. n + 1 -> Memory] :
           Q[n + 1] = m /\ \A k \in 0 .. n : Q[k] = R[k]
<1>. DEFINE Q == [k \in 0 .. n + 1 |-> IF k = n + 1 THEN m ELSE R[k]]
<1>1. \A k \in 0 .. n + 1 : k # n + 1 => k \in 0 .. n
  OBVIOUS
<1>2. \A k \in 0 .. n : k \in 0 .. n + 1 /\ k # n + 1
  OBVIOUS
<1>3. Q \in [0 .. n + 1 -> Memory]
  BY <1>1
<1>4. n + 1 \in 0 .. n + 1
  OBVIOUS
<1>5. Q[n + 1] = m /\ \A k \in 0 .. n : Q[k] = R[k]
  BY <1>2, <1>4
<1>. QED  BY <1>3, <1>5

LEMMA RunGrows ==
  ASSUME NEW d \in Seq(Byte), NEW n \in Nat, n < Len(d), NEW R,
         Runs(d, n, R), Grouped(n, R), Few(n, R)
  PROVE  \E Q \in [0 .. n + 1 -> Memory] :
           /\ Runs(d, n + 1, Q) /\ Grouped(n + 1, Q) /\ Few(n + 1, Q)
           /\ \A k \in 0 .. n : Q[k] = R[k]
<1>0. PICK m : m = Turn(n, R[n], d[n + 1])
  OBVIOUS
<1>1. R[n] \in Memory /\ R[n].start \in 0 .. n /\ d[n + 1] \in Byte
  <2>1. n + 1 \in 1 .. Len(d) /\ n \in 0 .. n
    OBVIOUS
  <2>. QED  BY <2>1 DEF Runs, Grouped
<1>2. /\ m \in Memory
      /\ m.start = (IF n + 1 - R[n].start = Group THEN n + 1 ELSE R[n].start)
      /\ m.len = R[n].len + (IF R[n].start = n THEN 1 ELSE 0) + (IF Right(R[n], d[n + 1]) THEN 0 ELSE 1)
      /\ m.masks = R[n].masks + (IF R[n].start = n THEN 1 ELSE 0)
  <2>1. Turned(n, R[n], d[n + 1], m)
    BY <1>0, <1>1, TurnFacts
  <2>. QED  BY <2>1 DEF Turned
<1>3. PICK Q \in [0 .. n + 1 -> Memory] : Q[n + 1] = m /\ \A k \in 0 .. n : Q[k] = R[k]
  <2>1. R \in [0 .. n -> Memory]
    BY DEF Runs
  <2>2. m \in Memory
    BY <1>2
  <2>. QED  BY ONLY <2>1, <2>2, n \in Nat, OneMore, Zenon
<1>4. Runs(d, n + 1, Q)
  <2>1. Q[0] = Start
    BY <1>3 DEF Runs
  <2>2. ASSUME NEW k \in 0 .. (n + 1) - 1
        PROVE  Q[k + 1] = Turn(k, Q[k], d[k + 1])
    <3>1. CASE k = n
      <4>1. k + 1 = n + 1 /\ k \in 0 .. n
        BY <3>1
      <4>. QED  BY <4>1, <3>1, <1>0, <1>3
    <3>2. CASE k # n
      <4>1. k \in 0 .. n - 1 /\ k \in 0 .. n /\ k + 1 \in 0 .. n
        BY <3>2
      <4>. QED  BY <4>1, <1>3 DEF Runs
    <3>. QED  BY <3>1, <3>2
  <2>. QED  BY <2>1, <2>2 DEF Runs
<1>5. /\ R[n].len \in Nat /\ R[n].masks \in Nat /\ R[n].start \in Nat
      /\ m.start \in Nat /\ m.len \in Nat /\ m.masks \in Nat
  BY <1>1, <1>2 DEF Memory
<1>6. Grouped(n + 1, Q)
  <2>1. ASSUME NEW k \in 0 .. n + 1
        PROVE  /\ Q[k].start \in 0 .. k /\ k - Q[k].start < Group
               /\ Q[Q[k].start].start = Q[k].start
    <3>1. CASE k = n + 1
      <4>0. R[n].start \in 0 .. n /\ n - R[n].start < Group /\ R[R[n].start].start = R[n].start
        BY DEF Grouped
      <4>1. CASE n + 1 - R[n].start = Group
        BY <4>1, <3>1, <1>2, <1>3, GroupAssumption
      <4>2. CASE n + 1 - R[n].start # Group
        <5>1. Q[k].start = R[n].start
          BY <4>2, <3>1, <1>2, <1>3
        <5>2. Q[R[n].start] = R[R[n].start]
          BY <4>0, <1>3
        <5>. QED  BY <5>1, <5>2, <4>0, <4>2, <3>1, GroupAssumption
      <4>. QED  BY <4>1, <4>2
    <3>2. CASE k # n + 1
      <4>1. k \in 0 .. n
        BY <3>2
      <4>2. R[k].start \in 0 .. k /\ k - R[k].start < Group /\ R[R[k].start].start = R[k].start
        BY <4>1 DEF Grouped
      <4>3. R[k].start \in 0 .. n
        BY <4>1, <4>2
      <4>. QED  BY <4>1, <4>2, <4>3, <1>3
    <3>. QED  BY <3>1, <3>2
  <2>2. ASSUME NEW k \in 0 .. n + 1, NEW l \in 0 .. n + 1, k <= l
        PROVE  Q[k].len <= Q[l].len
    <3>1. R[n].len <= m.len
      BY <1>2, <1>5
    <3>2. \A a, b \in 0 .. n : a <= b => R[a].len <= R[b].len
      BY DEF Grouped
    <3>3. \A a \in 0 .. n : R[a].len \in Nat
      BY DEF Runs, Memory
    <3>4. CASE l # n + 1
      <4>1. k \in 0 .. n /\ l \in 0 .. n
        BY <3>4, <2>2
      <4>. QED  BY <4>1, <3>2, <2>2, <1>3
    <3>5. CASE l = n + 1 /\ k = n + 1
      BY <3>5, <1>3, <1>5
    <3>6. CASE l = n + 1 /\ k # n + 1
      <4>1. k \in 0 .. n /\ n \in 0 .. n /\ k <= n
        BY <3>6
      <4>2. R[k].len <= R[n].len
        BY <4>1, <3>2
      <4>3. Q[k].len = R[k].len /\ Q[l].len = m.len
        BY <4>1, <3>6, <1>3
      <4>. QED  BY <4>1, <4>2, <4>3, <3>1, <3>3, <1>5
    <3>. QED  BY <3>4, <3>5, <3>6
  <2>. QED  BY <2>1, <2>2 DEF Grouped
<1>7. Few(n + 1, Q)
  <2>1. ASSUME NEW k \in 0 .. n + 1
        PROVE  /\ Q[k].len <= k + Q[k].masks
               /\ Group * Q[k].masks = Q[k].start + (IF Q[k].start = k THEN 0 ELSE Group)
    <3>1. CASE k # n + 1
      <4>1. k \in 0 .. n
        BY <3>1
      <4>. QED  BY <4>1, <1>3 DEF Few
    <3>2. CASE k = n + 1
      <4>1. Q[k] = m
        BY <3>2, <1>3
      <4>2. /\ R[n].len <= n + R[n].masks
            /\ Group * R[n].masks = R[n].start + (IF R[n].start = n THEN 0 ELSE Group)
        <5>1. n \in 0 .. n
          OBVIOUS
        <5>2. Few(n, R)
          OBVIOUS
        <5>. QED  BY ONLY <5>1, <5>2, Zenon DEF Few
      <4>3. m.len <= k + m.masks
        <5>1. R[n].len <= n + R[n].masks
          BY <4>2
        <5>. QED  BY ONLY <5>1, <3>2, <1>2, <1>5, n \in Nat, SMTT(30)
      <4>4. Group * (R[n].masks + 1) = Group * R[n].masks + Group
        BY <1>5, GroupAssumption
      <4>5. CASE R[n].start = n
        <5>1. m.masks = R[n].masks + 1
          BY <4>5, <1>2
        <5>2. Group * m.masks = n + Group
          BY <5>1, <4>2, <4>4, <4>5, GroupAssumption
        <5>3. m.start = IF Group = 1 THEN n + 1 ELSE n
          BY <4>5, <1>2, GroupAssumption
        <5>4. m.start + (IF m.start = k THEN 0 ELSE Group) = n + Group
          BY <5>3, <3>2, GroupAssumption
        <5>. QED  BY <5>2, <5>4, <4>1, <4>3
      <4>6. CASE R[n].start # n
        <5>1. m.masks = R[n].masks
          BY <4>6, <1>2, <1>5
        <5>2. Group * m.masks = R[n].start + Group
          BY <5>1, <4>2, <4>6
        <5>3. m.start + (IF m.start = k THEN 0 ELSE Group) = R[n].start + Group
          BY <1>1, <1>2, <3>2, GroupAssumption
        <5>. QED  BY <5>2, <5>3, <4>1, <4>3
      <4>. QED  BY <4>5, <4>6
    <3>. QED  BY <3>1, <3>2
  <2>. QED  BY <2>1 DEF Few
<1>. QED  BY <1>3, <1>4, <1>6, <1>7

(* Where a byte of the data and the mask of its group lie.                 *)
LEMMA Places ==
  ASSUME NEW d \in Seq(Byte), NEW n \in Nat, n <= Len(d), NEW R,
         Runs(d, n, R), Grouped(n, R), NEW k \in 0 .. n - 1
  PROVE  /\ R[k].start \in 0 .. k
         /\ R[R[k].start].len \in Nat /\ R[k].len \in Nat /\ R[k + 1].len \in Nat
         /\ R[R[k].start].len + 1 <= R[k + 1].len
         /\ R[k].len <= R[k + 1].len
         /\ ~Guess(d, R, k) => R[k].len + 1 <= R[k + 1].len
         /\ ~Guess(d, R, k) => R[R[k].start].len + 2 <= R[k + 1].len
<1>1. PICK s \in 0 .. k : s = R[k].start /\ R[s].start = s
  <2>1. k \in 0 .. n
    OBVIOUS
  <2>. QED  BY <2>1 DEF Grouped
<1>2. \A l \in 0 .. n : R[l].len \in Nat
  BY RunFacts
<1>3. s \in 0 .. n /\ s + 1 \in 0 .. n /\ k \in 0 .. n /\ k + 1 \in 0 .. n /\ s \in 0 .. n - 1
  OBVIOUS
<1>4. \A a, b \in 0 .. n : a <= b => R[a].len <= R[b].len
  BY DEF Grouped
<1>5. Turned(s, R[s], d[s + 1], R[s + 1]) /\ Turned(k, R[k], d[k + 1], R[k + 1])
  BY <1>3, RunFacts
<1>6. PICK x \in Nat, y \in Nat, z \in Nat, w \in Nat :
         x = R[s].len /\ y = R[s + 1].len /\ z = R[k].len /\ w = R[k + 1].len
  BY <1>2, <1>3
<1>7. y = x + 1 + (IF Guess(d, R, s) THEN 0 ELSE 1)
  <2>1. y = x + (IF s = s THEN 1 ELSE 0) + (IF Guess(d, R, s) THEN 0 ELSE 1)
    BY <1>1, <1>5, <1>6 DEF Turned, Guess
  <2>. QED  BY <2>1
<1>8. w = z + (IF s = k THEN 1 ELSE 0) + (IF Guess(d, R, k) THEN 0 ELSE 1)
  BY <1>1, <1>5, <1>6 DEF Turned, Guess
<1>9. y <= w /\ z <= w
  BY <1>3, <1>4, <1>6
<1>10. s # k => y <= z
  <2>1. s # k => s + 1 <= k
    OBVIOUS
  <2>. QED  BY <2>1, <1>3, <1>4, <1>6
<1>11. s = k => x = z
  BY <1>6
<1>12. x + 1 <= w /\ z <= w
  BY <1>7, <1>9
<1>13. ~Guess(d, R, k) => z + 1 <= w /\ x + 2 <= w
  <2>1. CASE s = k
    BY <2>1, <1>8, <1>11
  <2>2. CASE s # k
    BY <2>2, <1>7, <1>8, <1>10
  <2>. QED  BY <2>1, <2>2
<1>. QED  BY <1>1, <1>6, <1>12, <1>13

(* A longer run describes the same packed data.                            *)
LEMMA SameWritten ==
  ASSUME NEW d, NEW n \in Nat, NEW R, NEW Q, Grouped(n, R),
         \A k \in 0 .. n : Q[k] = R[k],
         NEW f \in 0 .. n, NEW pk, Written(d, R, pk, f)
  PROVE  Written(d, Q, pk, f)
<1>1. \A k \in 0 .. f : /\ Q[k] = R[k]
                        /\ MaskOf(Q, pk, k) = MaskOf(R, pk, k)
                        /\ Guess(d, Q, k) = Guess(d, R, k)
  <2>1. ASSUME NEW k \in 0 .. f
        PROVE  Q[k] = R[k] /\ MaskOf(Q, pk, k) = MaskOf(R, pk, k)
    <3>1. k \in 0 .. n
      OBVIOUS
    <3>2. R[k].start \in 0 .. k
      BY <3>1 DEF Grouped
    <3>3. R[k].start \in 0 .. n
      BY <3>2
    <3>. QED  BY <3>1, <3>3 DEF MaskOf
  <2>. QED  BY <2>1 DEF Guess
<1>2. \A k \in 0 .. f - 1 : k \in 0 .. f /\ k + 1 \in 0 .. f
  OBVIOUS
<1>3. f \in 0 .. f
  OBVIOUS
<1>. QED  BY <1>1, <1>2, <1>3, Zenon DEF Written

-----------------------------------------------------------------------------
(* Writing a group adds its mask and its bytes.                            *)
LEMMA Packing ==
  ASSUME NEW S, NEW pk \in Seq(S), NEW mk \in S, NEW bf \in Seq(S), NEW new,
         new = Append(pk, mk) \o bf
  PROVE  /\ new \in Seq(S) /\ Len(new) = Len(pk) + 1 + Len(bf)
         /\ \A x \in 1 .. Len(pk) : new[x] = pk[x]
         /\ new[Len(pk) + 1] = mk
         /\ \A x \in 1 .. Len(bf) : new[Len(pk) + 1 + x] = bf[x]
<1>1. PICK a : a = Append(pk, mk)
  OBVIOUS
<1>2. /\ a \in Seq(S) /\ Len(a) = Len(pk) + 1
      /\ \A x \in 1 .. Len(pk) : a[x] = pk[x]
      /\ a[Len(pk) + 1] = mk
  BY <1>1
<1>3. /\ new \in Seq(S) /\ Len(new) = Len(a) + Len(bf)
      /\ \A x \in 1 .. Len(a) : new[x] = a[x]
      /\ \A x \in 1 .. Len(bf) : new[Len(a) + x] = bf[x]
  BY <1>1, <1>2
<1>4. Len(pk) \in Nat
  OBVIOUS
<1>. QED  BY <1>2, <1>3, <1>4

LEMMA GroupWritten ==
  ASSUME NEW d \in Seq(Byte), NEW n \in Nat, n <= Len(d), NEW R,
         Runs(d, n, R), Grouped(n, R),
         NEW f \in Nat, NEW g \in 1 .. Group, f + g = n,
         NEW pk \in Seq(Byte \union Mask), NEW mk \in Mask, NEW bf \in Seq(Byte),
         Written(d, R, pk, f), Held(d, R, f, g, mk, bf), InGroup(R, f, g),
         NEW new, new = Append(pk, mk) \o bf
  PROVE  Written(d, R, new, n) /\ new \in Seq(Byte \union Mask)
<1>1. /\ new \in Seq(Byte \union Mask) /\ Len(new) = Len(pk) + 1 + Len(bf)
      /\ \A x \in 1 .. Len(pk) : new[x] = pk[x]
      /\ new[Len(pk) + 1] = mk
      /\ \A x \in 1 .. Len(bf) : new[Len(pk) + 1 + x] = bf[x]
  <2>1. mk \in Byte \union Mask /\ bf \in Seq(Byte \union Mask)
    OBVIOUS
  <2>. QED  BY <2>1, Packing
<1>2. /\ Len(pk) = R[f].len /\ R[f].start = f
      /\ Len(bf) = R[n].len - R[f].len - 1
  <2>1. Len(bf) = R[f + g].len - R[f].len - (IF g > 0 THEN 1 ELSE 0)
    BY DEF Held
  <2>2. g > 0
    OBVIOUS
  <2>. QED  BY <2>1, <2>2 DEF Written, InGroup
<1>3. \A k \in 0 .. n : R[k].len \in Nat
  BY RunFacts
<1>4. \A a, b \in 0 .. n : a <= b => R[a].len <= R[b].len
  BY DEF Grouped
<1>5. f \in 0 .. n /\ n \in 0 .. n /\ Len(bf) \in Nat /\ Len(pk) \in Nat
  OBVIOUS
<1>6. PICK p \in Nat, q \in Nat : p = R[f].len /\ q = R[n].len
  BY <1>3, <1>5
<1>9. PICK lp \in Nat, lb \in Nat : lp = Len(pk) /\ lb = Len(bf)
  BY <1>5
<1>10. lp = p /\ lb = q - p - 1 /\ Len(new) = lp + 1 + lb
  BY <1>1, <1>2, <1>6, <1>9
<1>11. Len(new) = R[n].len
  <2>1. lp + 1 + lb = q
    BY <1>10
  <2>. QED  BY <2>1, <1>6, <1>10, Zenon
<1>7. ASSUME NEW k \in 0 .. n - 1
      PROVE  /\ MaskOf(R, new, k) \in Mask
             /\ Bit(MaskOf(R, new, k), k - R[k].start) <=> Guess(d, R, k)
             /\ ~Guess(d, R, k) => new[R[k + 1].len] = d[k + 1]
  <2>1. /\ R[k].start \in 0 .. k
        /\ R[R[k].start].len \in Nat /\ R[k].len \in Nat /\ R[k + 1].len \in Nat
        /\ R[R[k].start].len + 1 <= R[k + 1].len
        /\ ~Guess(d, R, k) => R[k].len + 1 <= R[k + 1].len
        /\ ~Guess(d, R, k) => R[R[k].start].len + 2 <= R[k + 1].len
    BY Places
  <2>2. k + 1 \in 0 .. n /\ k \in 0 .. n
    OBVIOUS
  <2>5. PICK a \in Nat, c \in Nat : a = R[R[k].start].len /\ c = R[k + 1].len
    BY <2>1
  <2>3. CASE k < f
    <3>1. k \in 0 .. f - 1 /\ k + 1 <= f
      BY <2>3
    <3>2. c <= lp
      BY <3>1, <2>2, <2>5, <1>4, <1>5, <1>6, <1>10
    <3>3. MaskOf(R, new, k) = MaskOf(R, pk, k)
      <4>1. a + 1 <= c
        BY <2>1, <2>5
      <4>2. a + 1 \in 1 .. lp
        BY ONLY <3>2, <4>1, a \in Nat, lp \in Nat, c \in Nat
      <4>3. new[a + 1] = pk[a + 1]
        BY <4>2, <1>1, <1>9
      <4>. QED  BY <4>3, <2>5 DEF MaskOf
    <3>4. ~Guess(d, R, k) => new[R[k + 1].len] = pk[R[k + 1].len]
      <4>1. a + 1 <= c
        BY <2>1, <2>5
      <4>2. c \in 1 .. lp
        BY ONLY <3>2, <4>1, a \in Nat, lp \in Nat, c \in Nat
      <4>. QED  BY <4>2, <2>5, <1>1, <1>9
    <3>5. /\ MaskOf(R, pk, k) \in Mask
          /\ Bit(MaskOf(R, pk, k), k - R[k].start) <=> Guess(d, R, k)
          /\ ~Guess(d, R, k) => pk[R[k + 1].len] = d[k + 1]
      BY <3>1 DEF Written
    <3>. QED  BY <3>3, <3>4, <3>5, Zenon
  <2>4. CASE f <= k
    <3>1. k \in f .. f + g - 1 /\ k - f \in 0 .. g - 1 /\ f + (k - f) = k
      BY <2>4
    <3>2. R[k].start = f
      BY <3>1 DEF Held
    <3>3. MaskOf(R, new, k) = mk
      BY <3>2, <1>1, <1>2 DEF MaskOf
    <3>4. Bit(mk, k - f) <=> Guess(d, R, k)
      <4>1. \A j \in 0 .. g - 1 : Bit(mk, j) <=> Guess(d, R, f + j)
        BY DEF Held
      <4>2. Bit(mk, k - f) <=> Guess(d, R, f + (k - f))
        BY <3>1, <4>1, Zenon
      <4>. QED  BY <3>1, <4>2, Zenon
    <3>5. ASSUME ~Guess(d, R, k)
          PROVE  new[R[k + 1].len] = d[k + 1]
      <4>1. bf[c - p - 1] = d[k + 1]
        BY <3>1, <3>5, <2>5, <1>6 DEF Held
      <4>2. p + 2 <= c
        BY <3>2, <3>5, <2>1, <2>5, <1>6
      <4>3. c <= q
        BY <2>2, <2>5, <1>4, <1>5, <1>6
      <4>4. PICK x \in 1 .. lb : x = c - p - 1
        BY <4>2, <4>3, <1>10
      <4>5. new[lp + 1 + x] = bf[x]
        BY <1>1, <1>9
      <4>6. lp + 1 + x = c
        BY <4>4, <1>10
      <4>. QED  BY <4>1, <4>4, <4>5, <4>6, <2>5, Zenon
    <3>6. MaskOf(R, new, k) \in Mask
      BY <3>3
    <3>. QED  BY <3>2, <3>3, <3>4, <3>5, <3>6, Zenon
  <2>6. k < f \/ f <= k
    OBVIOUS
  <2>. QED  BY <2>3, <2>4, <2>6, Zenon
<1>8. ASSUME R[n].start # n
      PROVE  \A j \in n - R[n].start .. Group - 1 : ~Bit(MaskOf(R, new, n), j)
  <2>1. g < Group /\ R[n].start = f
    <3>1. g = Group => R[n].start = n
      BY DEF InGroup
    <3>2. 0 < g /\ g < Group => R[n].start = f
      BY DEF InGroup
    <3>3. g \in Int /\ Group \in Int /\ 0 < g /\ g <= Group
      BY GroupAssumption
    <3>. QED  BY <1>8, <3>1, <3>2, <3>3
  <2>2. MaskOf(R, new, n) = mk
    BY <2>1, <1>1, <1>2 DEF MaskOf
  <2>3. n - R[n].start = g
    BY <2>1
  <2>4. \A j \in g .. Group - 1 : ~Bit(mk, j)
    BY DEF Held
  <2>. QED  BY <2>2, <2>3, <2>4, Zenon
<1>. QED  BY <1>1, <1>7, <1>8, <1>11, Zenon DEF Written

-----------------------------------------------------------------------------
(* One more byte of the group: Longer says what becomes of its mask and    *)
(* of its bytes.                                                           *)
Longer(d, R, n, g, mk, bf, nm, nb) ==
  \/ Guess(d, R, n) /\ nm = SetBit(mk, g) /\ nb = bf
  \/ ~Guess(d, R, n) /\ nm = mk /\ nb = Append(bf, d[n + 1])

(* R goes on to Q with one more byte.                                      *)
GoesOn(d, n, R, Q) ==
  /\ Runs(d, n, R) /\ Grouped(n, R)
  /\ Runs(d, n + 1, Q) /\ Grouped(n + 1, Q)
  /\ \A k \in 0 .. n : Q[k] = R[k]

LEMMA LastTurn ==
  ASSUME NEW d \in Seq(Byte), NEW n \in Nat, n < Len(d), NEW R, NEW Q, GoesOn(d, n, R, Q)
  PROVE  /\ Turned(n, R[n], d[n + 1], Q[n + 1])
         /\ d[n + 1] \in Byte
         /\ R[n].start \in 0 .. n /\ R[n].len \in Nat /\ Q[n + 1].len \in Nat
<1>1. /\ Runs(d, n, R) /\ Grouped(n, R)
      /\ Runs(d, n + 1, Q) /\ Grouped(n + 1, Q)
      /\ Q[n] = R[n]
  BY DEF GoesOn
<1>2. n + 1 <= Len(d) /\ n + 1 \in Nat /\ n + 1 \in 1 .. Len(d) /\ n <= Len(d)
  OBVIOUS
<1>3. n \in 0 .. (n + 1) - 1 /\ n + 1 \in 0 .. n + 1 /\ n \in 0 .. n
  OBVIOUS
<1>4. Turned(n, Q[n], d[n + 1], Q[n + 1]) /\ Q[n + 1].len \in Nat
  BY <1>1, <1>2, <1>3, RunFacts
<1>5. R[n].start \in 0 .. n /\ R[n].len \in Nat
  BY <1>1, <1>2, <1>3, RunFacts
<1>. QED  BY <1>1, <1>2, <1>4, <1>5

LEMMA ThisGroup ==
  ASSUME NEW R, NEW f \in Nat, NEW g \in 0 .. Group - 1, R[f].start = f, InGroup(R, f, g)
  PROVE  R[f + g].start = f
<1>1. CASE g = 0
  BY <1>1
<1>2. CASE g # 0
  BY <1>2, GroupAssumption DEF InGroup
<1>. QED  BY <1>1, <1>2

LEMMA GroupGrows ==
  ASSUME NEW Q, NEW f \in Nat, NEW g \in 0 .. Group - 1,
         Q[f].start = f, Q[f + (g + 1)].start = NextStart(f + g, f)
  PROVE  InGroup(Q, f, g + 1)
<1>1. f + g + 1 - f = g + 1 /\ f + (g + 1) = f + g + 1
  OBVIOUS
<1>. QED  BY <1>1, GroupAssumption DEF InGroup, NextStart

LEMMA HeldGrows ==
  ASSUME NEW d \in Seq(Byte), NEW n \in Nat, n < Len(d), NEW R, NEW Q, GoesOn(d, n, R, Q),
         NEW f \in Nat, NEW g \in 0 .. Group - 1, f + g = n,
         R[f].start = f, InGroup(R, f, g),
         NEW mk \in Mask, NEW bf \in Seq(Byte), Held(d, R, f, g, mk, bf),
         NEW nm, NEW nb, Longer(d, R, n, g, mk, bf, nm, nb)
  PROVE  Held(d, Q, f, g + 1, nm, nb) /\ nm \in Mask /\ nb \in Seq(Byte)
<1>2. Turned(n, R[n], d[n + 1], Q[n + 1]) /\ d[n + 1] \in Byte
  BY LastTurn
<1>1. R[n].start = f
  BY ThisGroup
<1>3. /\ Runs(d, n, R) /\ Grouped(n, R) /\ \A k \in 0 .. n : Q[k] = R[k]
      /\ n <= Len(d)
  BY DEF GoesOn
<1>4. \A k \in 0 .. n : R[k].len \in Nat
  BY <1>3, RunFacts
<1>5. f \in 0 .. n /\ n \in 0 .. n /\ Q[f] = R[f] /\ Q[n] = R[n]
  BY <1>3
<1>6. PICK p \in Nat, q \in Nat, r \in Nat, lb \in Nat :
        p = R[f].len /\ q = R[n].len /\ r = Q[n + 1].len /\ lb = Len(bf)
  BY <1>4, <1>5, LastTurn, SMTT(30)
<1>7. lb = q - p - (IF g > 0 THEN 1 ELSE 0) /\ (g = 0 => q = p)
  <2>1. lb = q - p - (IF g > 0 THEN 1 ELSE 0)
    BY <1>6 DEF Held
  <2>2. g = 0 => q = p
    BY <1>6
  <2>. QED  BY <2>1, <2>2
<1>8. r = q + (IF g = 0 THEN 1 ELSE 0) + (IF Guess(d, R, n) THEN 0 ELSE 1)
  <2>1. r = q + (IF f = n THEN 1 ELSE 0) + (IF Guess(d, R, n) THEN 0 ELSE 1)
    BY <1>1, <1>2, <1>6 DEF Turned, Guess
  <2>2. f = n <=> g = 0
    OBVIOUS
  <2>. QED  BY <2>1, <2>2
<1>9. lb + (IF Guess(d, R, n) THEN 0 ELSE 1) = r - p - 1
  BY ONLY <1>7, <1>8, g \in 0 .. Group - 1, lb \in Nat, p \in Nat, q \in Nat, r \in Nat, GroupAssumption
<1>10. /\ nm \in Mask /\ nb \in Seq(Byte)
       /\ Len(nb) = lb + (IF Guess(d, R, n) THEN 0 ELSE 1)
       /\ \A x \in 1 .. lb : nb[x] = bf[x]
       /\ ~Guess(d, R, n) => nb[lb + 1] = d[n + 1]
  <2>1. CASE Guess(d, R, n)
    <3>1. nm = SetBit(mk, g) /\ nb = bf
      BY <2>1 DEF Longer
    <3>2. SetBit(mk, g) \in Mask
      BY MaskAssumption
    <3>. QED  BY <2>1, <3>1, <3>2, <1>6
  <2>2. CASE ~Guess(d, R, n)
    <3>1. nm = mk /\ nb = Append(bf, d[n + 1])
      BY <2>2 DEF Longer
    <3>. QED  BY <2>2, <3>1, <1>2, <1>6
  <2>. QED  BY <2>1, <2>2
<1>11. \A j \in 0 .. Group - 1 :
         Bit(nm, j) <=> Bit(mk, j) \/ (j = g /\ Guess(d, R, n))
  <2>1. CASE Guess(d, R, n)
    <3>1. nm = SetBit(mk, g)
      BY <2>1 DEF Longer
    <3>2. \A j \in 0 .. Group - 1 : Bit(SetBit(mk, g), j) <=> g = j \/ Bit(mk, j)
      BY MaskAssumption
    <3>. QED  BY <2>1, <3>1, <3>2
  <2>2. CASE ~Guess(d, R, n)
    BY <2>2 DEF Longer
  <2>. QED  BY <2>1, <2>2
<1>12. \A k \in 0 .. n : Guess(d, Q, k) = Guess(d, R, k)
  BY <1>3 DEF Guess
<1>13. \A k \in f .. f + (g + 1) - 1 : Q[k].start = f
  <2>1. ASSUME NEW k \in f .. f + (g + 1) - 1  PROVE Q[k].start = f
    <3>1. CASE k = n
      BY <3>1, <1>1, <1>5
    <3>2. CASE k # n
      <4>1. k \in f .. f + g - 1 /\ k \in 0 .. n
        BY <3>2
      <4>. QED  BY <4>1, <1>3 DEF Held
    <3>. QED  BY <3>1, <3>2
  <2>. QED  BY <2>1
<1>14. \A j \in 0 .. (g + 1) - 1 : Bit(nm, j) <=> Guess(d, Q, f + j)
  <2>1. ASSUME NEW j \in 0 .. (g + 1) - 1  PROVE Bit(nm, j) <=> Guess(d, Q, f + j)
    <3>1. j \in 0 .. Group - 1 /\ f + j \in 0 .. n
      BY GroupAssumption
    <3>2. Guess(d, Q, f + j) = Guess(d, R, f + j)
      BY <3>1, <1>12
    <3>3. CASE j = g
      <4>1. ~Bit(mk, g)
        <5>1. g \in g .. Group - 1
          BY GroupAssumption
        <5>. QED  BY <5>1 DEF Held
      <4>2. f + j = n
        BY <3>3
      <4>3. Bit(nm, j) <=> Guess(d, R, n)
        BY <3>1, <3>3, <4>1, <1>11, Zenon
      <4>. QED  BY <3>2, <4>2, <4>3, Zenon
    <3>4. CASE j # g
      <4>1. j \in 0 .. g - 1
        BY <3>4
      <4>2. Bit(mk, j) <=> Guess(d, R, f + j)
        BY <4>1, Zenon DEF Held
      <4>. QED  BY <3>1, <3>2, <3>4, <4>2, <1>11, Zenon
    <3>. QED  BY <3>3, <3>4
  <2>. QED  BY <2>1
<1>15. \A j \in g + 1 .. Group - 1 : ~Bit(nm, j)
  <2>1. ASSUME NEW j \in g + 1 .. Group - 1  PROVE ~Bit(nm, j)
    <3>1. j \in g .. Group - 1 /\ j # g /\ j \in 0 .. Group - 1
      BY GroupAssumption
    <3>2. ~Bit(mk, j)
      BY <3>1, Zenon DEF Held
    <3>. QED  BY <3>1, <3>2, <1>11, Zenon
  <2>. QED  BY <2>1
<1>16. f + (g + 1) = n + 1 /\ g + 1 > 0
  OBVIOUS
<1>17. Len(nb) = Q[f + (g + 1)].len - Q[f].len - (IF g + 1 > 0 THEN 1 ELSE 0)
  <2>1. Len(nb) = r - p - 1
    BY <1>9, <1>10
  <2>. QED  BY <2>1, <1>5, <1>6, <1>16
<1>18. \A k \in f .. f + (g + 1) - 1 :
         ~Guess(d, Q, k) => nb[Q[k + 1].len - Q[f].len - 1] = d[k + 1]
  <2>1. ASSUME NEW k \in f .. f + (g + 1) - 1, ~Guess(d, Q, k)
        PROVE  nb[Q[k + 1].len - Q[f].len - 1] = d[k + 1]
    <3>1. k \in 0 .. n /\ ~Guess(d, R, k)
      <4>1. k \in 0 .. n
        OBVIOUS
      <4>. QED  BY <4>1, <2>1, <1>12
    <3>2. CASE k = n
      <4>1. ~Guess(d, R, n)
        BY <3>1, <3>2
      <4>2. lb + 1 = r - p - 1
        BY <4>1, <1>9
      <4>3. nb[r - p - 1] = d[n + 1]
        BY <4>1, <4>2, <1>10
      <4>. QED  BY <4>3, <3>2, <1>5, <1>6
    <3>3. CASE k # n
      <4>1. k \in 0 .. n - 1 /\ k \in f .. f + g - 1 /\ k + 1 \in 0 .. n /\ g > 0
        BY <3>3
      <4>2. R[k].start = f
        BY <4>1 DEF Held
      <4>3. PICK c \in Nat : c = R[k + 1].len
        BY <4>1, <1>4
      <4>4. p + 2 <= c
        BY <4>1, <4>2, <4>3, <3>1, <1>3, <1>6, Places
      <4>5. c <= q
        BY <4>1, <4>3, <1>3, <1>5, <1>6 DEF Grouped
      <4>6. PICK x \in 1 .. lb : x = c - p - 1
        BY <4>1, <4>4, <4>5, <1>7
      <4>7. bf[c - p - 1] = d[k + 1]
        BY <4>1, <4>3, <3>1, <1>6 DEF Held
      <4>8. nb[x] = bf[x]
        BY <1>10
      <4>9. Q[k + 1] = R[k + 1]
        BY <4>1, <1>3
      <4>. QED  BY <4>3, <4>6, <4>7, <4>8, <4>9, <1>5, <1>6, Zenon
    <3>. QED  BY <3>2, <3>3
  <2>. QED  BY <2>1
<1>19. Len(nb) <= g + 1
  <2>1. lb <= g
    BY <1>6 DEF Held
  <2>. QED  BY <2>1, <1>10
<1>. QED  BY <1>10, <1>13, <1>14, <1>15, <1>17, <1>18, <1>19, Zenon DEF Held

-----------------------------------------------------------------------------
(* The steps of lzp_compress.                                              *)
LEMMA InitHolds == Init => IInv
<1>. SUFFICES ASSUME Init  PROVE IInv
  OBVIOUS
<1>1. /\ data \in Seq(Byte) /\ phase = "compress" /\ inpos = 0 /\ hash = 0
      /\ table = EmptyTable /\ i = 0 /\ mask = 0 /\ buff = <<>> /\ packed = <<>> /\ plain = <<>>
  BY InputsAssumption DEF Init
<1>2. TypeOK
  BY <1>1, ByteAssumption, GroupAssumption, HashAssumption, MaskAssumption DEF TypeOK, EmptyTable
<1>3. PICK R \in [0 .. 0 -> Memory] :
        R[0] = Start /\ Runs(data, 0, R) /\ Grouped(0, R) /\ Few(0, R)
  BY NoBytes
<1>4. /\ R[0].hash = 0 /\ R[0].table = EmptyTable /\ R[0].start = 0 /\ R[0].len = 0
  BY <1>3, StartFacts
<1>5. Written(data, R, packed, 0)
  BY <1>1, <1>4 DEF Written
<1>6. InGroup(R, 0, 0)
  BY GroupAssumption DEF InGroup
<1>7. Held(data, R, 0, 0, 0, <<>>)
  <2>1. \A j \in 0 .. Group - 1 : ~Bit(0, j)
    BY MaskAssumption
  <2>2. \A k \in 0 .. 0 + 0 - 1 : FALSE
    OBVIOUS
  <2>3. \A k \in 0 .. 0 - 1 : FALSE
    OBVIOUS
  <2>. QED  BY <2>1, <2>2, <2>3, <1>4 DEF Held
<1>8. Compressing(R, 0, 0)
  BY <1>1, <1>4, <1>5, <1>6, <1>7 DEF Compressing
<1>9. Covered = 0 /\ inpos - i = 0
  BY <1>1 DEF Covered
<1>10. Agrees(R)
  BY <1>1, <1>3, <1>8, <1>9 DEF Agrees
<1>. QED  BY <1>2, <1>3, <1>9, <1>10 DEF IInv

(* What is known before a step of lzp_compress.                            *)
LEMMA WhileCompressing ==
  ASSUME IInv, phase = "compress"
  PROVE  \E R : \E f \in Nat, n \in Nat :
           /\ n = inpos /\ f = inpos - i /\ f + i = n /\ n <= Len(data)
           /\ R \in [0 .. n -> Memory]
           /\ Runs(data, n, R) /\ Grouped(n, R) /\ Few(n, R)
           /\ Compressing(R, f, i)
<1>1. PICK R \in [0 .. Covered -> Memory] : Agrees(R)
  BY DEF IInv
<1>2. Covered = inpos
  BY DEF Covered
<1>3. Compressing(R, inpos - i, i)
  BY <1>1 DEF Agrees
<1>4. inpos - i \in Nat /\ inpos - i + i = inpos /\ inpos <= Len(data) /\ inpos \in Nat
  BY <1>3 DEF Compressing, IInv, TypeOK
<1>. QED  BY <1>1, <1>2, <1>3, <1>4 DEF Agrees

LEMMA StepCompressByte == IInv /\ CompressByte => IInv'
<1>. SUFFICES ASSUME IInv, CompressByte  PROVE IInv'
  OBVIOUS
<1>1. phase = "compress" /\ i < Group /\ inpos < Len(data)
  BY DEF CompressByte
<1>0. PICK R : \E f \in Nat, n \in Nat :
        /\ n = inpos /\ f = inpos - i /\ f + i = n /\ n <= Len(data)
        /\ R \in [0 .. n -> Memory]
        /\ Runs(data, n, R) /\ Grouped(n, R) /\ Few(n, R)
        /\ Compressing(R, f, i)
  BY <1>1, WhileCompressing
<1>2. PICK f \in Nat, n \in Nat :
        /\ n = inpos /\ f = inpos - i /\ f + i = n /\ n <= Len(data)
        /\ R \in [0 .. n -> Memory]
        /\ Runs(data, n, R) /\ Grouped(n, R) /\ Few(n, R)
        /\ Compressing(R, f, i)
  BY <1>0
<1>3. /\ data \in Seq(Byte) /\ plain \in Seq(Byte) /\ buff \in Seq(Byte) /\ mask \in Mask
      /\ hash \in Slot /\ table \in [Slot -> Byte] /\ packed \in Seq(Byte \union Mask)
      /\ i \in 0 .. Group - 1
  BY <1>1, GroupAssumption DEF IInv, TypeOK
<1>4. PICK Q \in [0 .. n + 1 -> Memory] :
        /\ Runs(data, n + 1, Q) /\ Grouped(n + 1, Q) /\ Few(n + 1, Q)
        /\ \A k \in 0 .. n : Q[k] = R[k]
  <2>1. n < Len(data)
    BY <1>1, <1>2
  <2>2. n \in Nat /\ data \in Seq(Byte) /\ Runs(data, n, R) /\ Grouped(n, R) /\ Few(n, R)
    BY <1>2, <1>3
  <2>. QED  BY ONLY <2>1, <2>2, RunGrows
<1>5. GoesOn(data, n, R, Q)
  BY <1>2, <1>4 DEF GoesOn
<1>6. PICK c : c = data[n + 1]
  OBVIOUS
<1>7. /\ Turned(n, R[n], c, Q[n + 1]) /\ c \in Byte
  BY <1>1, <1>2, <1>3, <1>5, <1>6, LastTurn
<1>8. /\ phase' = phase /\ data' = data /\ packed' = packed /\ plain' = plain
      /\ hash' = HASH(hash, c) /\ inpos' = n + 1 /\ i' = i + 1
      /\ \/ table[hash] = c /\ mask' = SetBit(mask, i) /\ table' = table /\ buff' = buff
         \/ table[hash] # c /\ table' = [table EXCEPT ![hash] = c] /\ buff' = Append(buff, c)
            /\ mask' = mask
  BY <1>2, <1>6 DEF CompressByte, Guessed, Missed
<1>9. /\ hash = R[n].hash /\ table = R[n].table /\ InGroup(R, f, i)
      /\ Written(data, R, packed, f) /\ Held(data, R, f, i, mask, buff) /\ plain = <<>>
  BY <1>2 DEF Compressing
<1>10. R[f].start = f
  <2>1. i > 0 => R[f].start = f
    BY <1>9 DEF InGroup
  <2>2. i = 0 => R[f].start = f \/ f = Len(data)
    BY <1>2 DEF Compressing
  <2>3. i = 0 => f # Len(data)
    BY <1>1, <1>2
  <2>. QED  BY <2>1, <2>2, <2>3, <1>3
<1>11. Guess(data, R, n) <=> table[hash] = c
  BY <1>6, <1>9 DEF Guess, Right
<1>12. Longer(data, R, n, i, mask, buff, mask', buff')
  BY <1>6, <1>8, <1>11, Zenon DEF Longer
<1>13. Held(data, Q, f, i + 1, mask', buff') /\ mask' \in Mask /\ buff' \in Seq(Byte)
  BY <1>1, <1>2, <1>3, <1>5, <1>9, <1>10, <1>12, HeldGrows
<1>14. hash' = Q[n + 1].hash /\ table' = Q[n + 1].table
  <2>1. Q[n + 1].hash = HASH(hash, c) /\ Q[n + 1].table = [table EXCEPT ![hash] = c]
    BY <1>7, <1>9 DEF Turned
  <2>2. table[hash] = c => [table EXCEPT ![hash] = c] = table
    BY <1>3
  <2>. QED  BY <2>1, <2>2, <1>8
<1>15. InGroup(Q, f, i + 1)
  <2>1. R[n].start = f
    BY <1>2, <1>3, <1>9, <1>10, ThisGroup
  <2>2. Q[f].start = f
    BY <1>2, <1>3, <1>4, <1>10
  <2>3. Q[n + 1].start = NextStart(n, f)
    BY <2>1, <1>7 DEF Turned, NextStart
  <2>4. f + i = n /\ f + (i + 1) = n + 1
    BY <1>2, <1>3
  <2>. QED  BY <2>2, <2>3, <2>4, <1>3, GroupGrows
<1>16. Written(data, Q, packed, f)
  BY <1>2, <1>3, <1>4, <1>9, SameWritten
<1>17. inpos' - i' = f /\ Covered' = n + 1
  BY <1>1, <1>2, <1>3, <1>8 DEF Covered
<1>18. Compressing(Q, inpos - i, i)'
  <2>1. f + (i + 1) = n + 1 /\ i + 1 # 0 /\ n + 1 <= Len(data)
    BY <1>1, <1>2, <1>3
  <2>. QED  BY <2>1, <1>8, <1>9, <1>13, <1>14, <1>15, <1>16, <1>17 DEF Compressing
<1>19. Agrees(Q)'
  BY <1>1, <1>4, <1>8, <1>17, <1>18 DEF Agrees
<1>20. TypeOK'
  <2>1. Len(buff') <= i + 1
    BY <1>13 DEF Held
  <2>2. hash' \in Slot /\ table' \in [Slot -> Byte]
    BY <1>3, <1>7, <1>8, HashAssumption
  <2>3. i' \in 0 .. Group /\ inpos' \in Nat
    BY <1>3, <1>8, GroupAssumption
  <2>4. Len(buff') <= Group
    BY <2>1, <1>3, <1>13, GroupAssumption
  <2>. QED  BY <2>2, <2>3, <2>4, <1>1, <1>3, <1>8, <1>13 DEF TypeOK
<1>. QED  BY <1>4, <1>17, <1>19, <1>20 DEF IInv

LEMMA StepCompressGroup == IInv /\ CompressGroup => IInv'
<1>. SUFFICES ASSUME IInv, CompressGroup  PROVE IInv'
  OBVIOUS
<1>1. phase = "compress" /\ (i = Group \/ (i > 0 /\ inpos = Len(data)))
  BY DEF CompressGroup, GroupEnds
<1>0. PICK R : \E f \in Nat, n \in Nat :
        /\ n = inpos /\ f = inpos - i /\ f + i = n /\ n <= Len(data)
        /\ R \in [0 .. n -> Memory]
        /\ Runs(data, n, R) /\ Grouped(n, R) /\ Few(n, R)
        /\ Compressing(R, f, i)
  BY <1>1, WhileCompressing
<1>2. PICK f \in Nat, n \in Nat :
        /\ n = inpos /\ f = inpos - i /\ f + i = n /\ n <= Len(data)
        /\ R \in [0 .. n -> Memory]
        /\ Runs(data, n, R) /\ Grouped(n, R) /\ Few(n, R)
        /\ Compressing(R, f, i)
  BY <1>0
<1>3. /\ data \in Seq(Byte) /\ plain \in Seq(Byte) /\ buff \in Seq(Byte) /\ mask \in Mask
      /\ hash \in Slot /\ table \in [Slot -> Byte] /\ packed \in Seq(Byte \union Mask)
      /\ i \in 0 .. Group /\ inpos \in Nat
  BY DEF IInv, TypeOK
<1>4. /\ hash = R[n].hash /\ table = R[n].table /\ InGroup(R, f, i)
      /\ Written(data, R, packed, f) /\ Held(data, R, f, i, mask, buff) /\ plain = <<>>
  BY <1>2 DEF Compressing
<1>5. PICK new : new = Append(packed, mask) \o buff
  OBVIOUS
<1>6. /\ phase' = phase /\ data' = data /\ packed' = new /\ plain' = plain
      /\ hash' = hash /\ table' = table /\ inpos' = n
      /\ i' = 0 /\ mask' = 0 /\ buff' = <<>>
  BY <1>2, <1>5 DEF CompressGroup
<1>7. i \in 1 .. Group
  BY <1>1, <1>3, GroupAssumption
<1>8. Written(data, R, new, n) /\ new \in Seq(Byte \union Mask)
  <2>1. /\ data \in Seq(Byte) /\ n \in Nat /\ n <= Len(data) /\ Runs(data, n, R) /\ Grouped(n, R)
        /\ f \in Nat /\ i \in 1 .. Group /\ f + i = n
        /\ packed \in Seq(Byte \union Mask) /\ mask \in Mask /\ buff \in Seq(Byte)
        /\ Written(data, R, packed, f) /\ Held(data, R, f, i, mask, buff) /\ InGroup(R, f, i)
        /\ new = Append(packed, mask) \o buff
    BY <1>2, <1>3, <1>4, <1>5, <1>7
  <2>. QED  BY ONLY <2>1, GroupWritten, Zenon
<1>9. R[n].start = n \/ n = Len(data)
  <2>1. i = Group => R[f + i].start = f + i
    BY <1>4 DEF InGroup
  <2>. QED  BY <2>1, <1>1, <1>2
<1>10. R[n].len \in Nat
  BY <1>2, <1>3, RunFacts
<1>11. Held(data, R, n, 0, 0, <<>>)
  <2>1. \A j \in 0 .. Group - 1 : ~Bit(0, j)
    BY MaskAssumption
  <2>2. \A k \in n .. n + 0 - 1 : FALSE
    OBVIOUS
  <2>3. \A k \in 0 .. 0 - 1 : FALSE
    OBVIOUS
  <2>4. Len(<<>>) = R[n + 0].len - R[n].len - (IF 0 > 0 THEN 1 ELSE 0)
    BY <1>10
  <2>5. Len(<<>>) <= 0
    OBVIOUS
  <2>. QED  BY <2>1, <2>2, <2>3, <2>4, <2>5, Zenon DEF Held
<1>12. InGroup(R, n, 0)
  BY GroupAssumption DEF InGroup
<1>13. inpos' - i' = n /\ Covered' = n
  BY <1>1, <1>6 DEF Covered
<1>14. Compressing(R, inpos - i, i)'
  <2>1. n + 0 = n
    OBVIOUS
  <2>. QED  BY <2>1, <1>2, <1>4, <1>6, <1>8, <1>9, <1>11, <1>12, <1>13 DEF Compressing
<1>15. Agrees(R)'
  BY <1>1, <1>2, <1>6, <1>13, <1>14 DEF Agrees
<1>16. TypeOK'
  BY <1>1, <1>3, <1>6, <1>8, MaskAssumption, GroupAssumption DEF TypeOK
<1>. QED  BY <1>2, <1>13, <1>15, <1>16 DEF IInv

LEMMA StepDecompress == IInv /\ Decompress => IInv'
<1>. SUFFICES ASSUME IInv, Decompress  PROVE IInv'
  OBVIOUS
<1>1. phase = "compress" /\ i = 0 /\ inpos = Len(data)
  BY DEF Decompress
<1>0. PICK R : \E f \in Nat, n \in Nat :
        /\ n = inpos /\ f = inpos - i /\ f + i = n /\ n <= Len(data)
        /\ R \in [0 .. n -> Memory]
        /\ Runs(data, n, R) /\ Grouped(n, R) /\ Few(n, R)
        /\ Compressing(R, f, i)
  BY <1>1, WhileCompressing
<1>2. PICK f \in Nat, n \in Nat :
        /\ n = inpos /\ f = inpos - i /\ f + i = n /\ n <= Len(data)
        /\ R \in [0 .. n -> Memory]
        /\ Runs(data, n, R) /\ Grouped(n, R) /\ Few(n, R)
        /\ Compressing(R, f, i)
  BY <1>0
<1>3. /\ data \in Seq(Byte) /\ plain \in Seq(Byte) /\ buff \in Seq(Byte) /\ mask \in Mask
      /\ hash \in Slot /\ table \in [Slot -> Byte] /\ packed \in Seq(Byte \union Mask)
      /\ i \in 0 .. Group /\ inpos \in Nat
  BY DEF IInv, TypeOK
<1>4. /\ hash = R[n].hash /\ table = R[n].table /\ InGroup(R, f, i)
      /\ Written(data, R, packed, f) /\ Held(data, R, f, i, mask, buff) /\ plain = <<>>
  BY <1>2 DEF Compressing
<1>5. /\ phase' = "mask" /\ inpos' = 0 /\ hash' = 0 /\ table' = EmptyTable
      /\ UNCHANGED <<data, i, mask, buff, packed, plain>>
  BY DEF Decompress
<1>6. f = n /\ n = Len(data)
  BY <1>1, <1>2
<1>7. R[0].hash = 0 /\ R[0].table = EmptyTable /\ R[0].start = 0 /\ R[0].len = 0
  BY <1>2, StartFacts DEF Runs
<1>8. Len(buff) <= 0
  BY <1>1, <1>4 DEF Held
<1>9. Len(buff) = 0 /\ Len(plain) = 0
  BY <1>3, <1>4, <1>8
<1>10. Restored(0, 0)'
  <2>1. \A k \in 1 .. 0 : FALSE
    OBVIOUS
  <2>2. 0 + 0 <= Len(data)
    BY <1>3
  <2>. QED  BY <2>1, <2>2, <1>5, <1>9 DEF Restored
<1>11. Written(data', R, packed', Len(data'))
  BY <1>4, <1>5, <1>6
<1>12. Len(plain') = 0 /\ i' = 0 /\ Covered' = n
  BY <1>1, <1>5, <1>6, <1>9 DEF Covered
<1>13. Decompressing(R, Len(plain), i)'
  BY <1>5, <1>7, <1>10, <1>11, <1>12 DEF Decompressing, Restored
<1>14. Agrees(R)'
  BY <1>2, <1>5, <1>12, <1>13 DEF Agrees
<1>15. TypeOK'
  <2>1. EmptyTable \in [Slot -> Byte]
    BY ByteAssumption DEF EmptyTable
  <2>. QED  BY <2>1, <1>3, <1>5, <1>9, HashAssumption, GroupAssumption DEF TypeOK
<1>. QED  BY <1>2, <1>12, <1>14, <1>15 DEF IInv

-----------------------------------------------------------------------------
(* The steps of lzp_decompress.                                            *)
LEMMA WhileDecompressing ==
  ASSUME IInv, phase # "compress"
  PROVE  \E R : \E f \in Nat, n \in Nat :
           /\ n = Len(data) /\ f = Len(plain)
           /\ R \in [0 .. n -> Memory]
           /\ Runs(data, n, R) /\ Grouped(n, R) /\ Few(n, R)
           /\ Decompressing(R, f, i)
<1>1. PICK R \in [0 .. Covered -> Memory] : Agrees(R)
  BY DEF IInv
<1>2. Covered = Len(data)
  BY DEF Covered
<1>3. Decompressing(R, Len(plain), i)
  BY <1>1 DEF Agrees
<1>4. Len(data) \in Nat /\ Len(plain) \in Nat
  BY DEF IInv, TypeOK
<1>. QED  BY <1>1, <1>2, <1>3, <1>4 DEF Agrees

(* The next mask is that of the group that starts at byte f.               *)
LEMMA NextMask ==
  ASSUME NEW d \in Seq(Byte), NEW n \in Nat, n <= Len(d), NEW R,
         Runs(d, n, R), Grouped(n, R),
         NEW pk, Written(d, R, pk, n),
         NEW f \in 0 .. n, R[f].start = f \/ f = n
  PROVE  /\ R[f].len \in Nat
         /\ R[f].len < Len(pk) <=> f < n
         /\ f < n => R[f].start = f /\ pk[R[f].len + 1] \in Mask
<1>1. R[f].len \in Nat /\ R[n].len \in Nat
  BY RunFacts
<1>2. Len(pk) = R[n].len
  BY DEF Written
<1>3. ASSUME f < n
      PROVE  R[f].start = f /\ pk[R[f].len + 1] \in Mask /\ R[f].len < R[n].len
  <2>1. f \in 0 .. n - 1 /\ R[f].start = f
    BY <1>3
  <2>2. MaskOf(R, pk, f) \in Mask
    BY <2>1 DEF Written
  <2>3. R[f].len + 1 <= R[f + 1].len /\ R[f + 1].len \in Nat
    BY <2>1, Places
  <2>4. R[f + 1].len <= R[n].len
    <3>1. f + 1 \in 0 .. n /\ n \in 0 .. n /\ f + 1 <= n
      BY <2>1
    <3>. QED  BY <3>1 DEF Grouped
  <2>5. R[f].len < R[n].len
    BY <2>3, <2>4, <1>1
  <2>. QED  BY <2>1, <2>2, <2>5 DEF MaskOf
<1>4. f = n => ~(R[f].len < R[n].len)
  BY <1>1
<1>. QED  BY <1>1, <1>2, <1>3, <1>4

(* What the mask of the group says of its byte g, the one after byte k of  *)
(* the data.                                                               *)
LEMMA NextByte ==
  ASSUME NEW d \in Seq(Byte), NEW n \in Nat, n <= Len(d), NEW R,
         Runs(d, n, R), Grouped(n, R),
         NEW pk, Written(d, R, pk, n),
         NEW f \in Nat, NEW g \in 0 .. Group - 1, NEW k \in Nat, k = f + g, k <= n, f < n,
         R[f].start = f, InGroup(R, f, g)
  PROVE  /\ R[k].start = f
         /\ Bit(pk[R[f].len + 1], g) => k < n /\ Guess(d, R, k)
         /\ ~Bit(pk[R[f].len + 1], g) /\ k < n =>
              /\ ~Guess(d, R, k)
              /\ pk[R[k + 1].len] = d[k + 1]
              /\ R[k + 1].len <= Len(pk)
<1>1. R[k].start = f
  BY ThisGroup
<1>2. MaskOf(R, pk, k) = pk[R[f].len + 1]
  BY <1>1 DEF MaskOf
<1>3. k - f = g
  OBVIOUS
<1>4. ASSUME k < n
      PROVE  /\ Bit(pk[R[f].len + 1], g) <=> Guess(d, R, k)
             /\ ~Guess(d, R, k) => pk[R[k + 1].len] = d[k + 1]
             /\ R[k + 1].len <= Len(pk)
  <2>1. k \in 0 .. n - 1
    BY <1>4
  <2>2. /\ Bit(MaskOf(R, pk, k), k - R[k].start) <=> Guess(d, R, k)
        /\ ~Guess(d, R, k) => pk[R[k + 1].len] = d[k + 1]
    BY <2>1, Zenon DEF Written
  <2>3. R[k + 1].len <= R[n].len
    <3>1. k + 1 \in 0 .. n /\ n \in 0 .. n /\ k + 1 <= n
      BY <2>1
    <3>. QED  BY <3>1 DEF Grouped
  <2>4. Len(pk) = R[n].len
    BY DEF Written
  <2>. QED  BY <2>2, <2>3, <2>4, <1>1, <1>2, <1>3, Zenon
<1>5. ASSUME k = n  PROVE ~Bit(pk[R[f].len + 1], g)
  <2>1. R[n].start # n /\ n - R[n].start = g /\ g \in n - R[n].start .. Group - 1
    BY <1>1, <1>5, GroupAssumption
  <2>2. ~Bit(MaskOf(R, pk, n), g)
    BY <2>1, Zenon DEF Written
  <2>. QED  BY <2>2, <1>2, <1>5, Zenon
<1>6. k = n \/ k < n
  OBVIOUS
<1>. QED  BY <1>1, <1>4, <1>5, <1>6, Zenon

LEMMA NextRead ==
  ASSUME NEW d \in Seq(Byte), NEW n \in Nat, n <= Len(d), NEW R,
         Runs(d, n, R), Grouped(n, R),
         NEW pk, Written(d, R, pk, n),
         NEW f \in Nat, NEW g \in 0 .. Group - 1, NEW k \in Nat, k = f + g, k < n, f < n,
         R[f].start = f, InGroup(R, f, g), ~Bit(pk[R[f].len + 1], g)
  PROVE  /\ ~Guess(d, R, k)
         /\ pk[R[k + 1].len] = d[k + 1]
         /\ R[k + 1].len <= Len(pk)
BY NextByte

LEMMA StepReadMask == IInv /\ ReadMask => IInv'
<1>. SUFFICES ASSUME IInv, ReadMask  PROVE IInv'
  OBVIOUS
<1>1. phase = "mask" /\ phase # "compress" /\ phase # "bytes"
  BY DEF ReadMask
<1>0. PICK R : \E f \in Nat, n \in Nat :
        /\ n = Len(data) /\ f = Len(plain)
        /\ R \in [0 .. n -> Memory]
        /\ Runs(data, n, R) /\ Grouped(n, R) /\ Few(n, R)
        /\ Decompressing(R, f, i)
  BY <1>1, WhileDecompressing
<1>2. PICK f \in Nat, n \in Nat :
        /\ n = Len(data) /\ f = Len(plain)
        /\ R \in [0 .. n -> Memory]
        /\ Runs(data, n, R) /\ Grouped(n, R) /\ Few(n, R)
        /\ Decompressing(R, f, i)
  BY <1>0
<1>3. /\ data \in Seq(Byte) /\ plain \in Seq(Byte) /\ buff \in Seq(Byte) /\ mask \in Mask
      /\ hash \in Slot /\ table \in [Slot -> Byte] /\ packed \in Seq(Byte \union Mask)
      /\ i \in 0 .. Group /\ inpos \in Nat
  BY DEF IInv, TypeOK
<1>4. /\ Restored(f, i) /\ hash = R[f + i].hash /\ table = R[f + i].table
      /\ Written(data, R, packed, n)
      /\ i = 0 /\ inpos = R[f].len
      /\ R[f].start = f \/ f = n
  BY <1>1, <1>2 DEF Decompressing
<1>5. f \in 0 .. n
  BY <1>2, <1>4 DEF Restored
<1>6. /\ inpos < Len(packed) <=> f < n
      /\ f < n => R[f].start = f /\ packed[inpos + 1] \in Mask
  BY <1>2, <1>3, <1>4, <1>5, NextMask, SMTT(30)
<1>7. UNCHANGED <<data, hash, table, i, buff, packed, plain>>
  BY DEF ReadMask
<1>8. Covered' = n /\ Len(plain') = f /\ i' = 0 /\ phase' # "compress"
  BY <1>1, <1>2, <1>4, <1>7 DEF Covered, ReadMask
<1>9. Restored(f, 0)'
  BY <1>4, <1>7 DEF Restored
<1>10. f + 0 = f
  OBVIOUS
<1>11. CASE inpos < Len(packed)
  <2>1. mask' = packed[inpos + 1] /\ inpos' = inpos + 1 /\ phase' = "bytes"
    BY <1>11 DEF ReadMask
  <2>2. InGroup(R, f, 0)
    BY GroupAssumption DEF InGroup
  <2>3. Decompressing(R, Len(plain), i)'
    BY <2>1, <2>2, <1>2, <1>4, <1>6, <1>7, <1>8, <1>9, <1>10, <1>11 DEF Decompressing, Restored
  <2>4. Agrees(R)'
    BY <2>3, <1>2, <1>7, <1>8 DEF Agrees
  <2>5. TypeOK'
    BY <2>1, <1>3, <1>6, <1>7, <1>11, <1>4 DEF TypeOK, IInv
  <2>. QED  BY <2>4, <2>5, <1>2, <1>8 DEF IInv
<1>12. CASE ~(inpos < Len(packed))
  <2>1. phase' = "done" /\ UNCHANGED <<mask, inpos>>
    BY <1>12 DEF ReadMask
  <2>2. f = n
    BY <1>5, <1>6, <1>12
  <2>3. Decompressing(R, Len(plain), i)'
    BY <2>1, <2>2, <1>2, <1>4, <1>7, <1>8, <1>9, <1>10 DEF Decompressing, Restored
  <2>4. Agrees(R)'
    BY <2>3, <1>2, <1>7, <1>8 DEF Agrees
  <2>5. TypeOK'
    BY <2>1, <1>3, <1>7 DEF TypeOK, IInv
  <2>. QED  BY <2>4, <2>5, <1>2, <1>8 DEF IInv
<1>. QED  BY <1>11, <1>12

LEMMA NextLen ==
  ASSUME NEW d \in Seq(Byte), NEW n \in Nat, n <= Len(d), NEW R,
         Runs(d, n, R), Grouped(n, R),
         NEW f \in Nat, NEW g \in 0 .. Group - 1, NEW k \in Nat, k = f + g, k < n,
         R[f].start = f, InGroup(R, f, g)
  PROVE  /\ R[k].len \in Nat
         /\ R[k + 1].len = R[k].len + (IF g = 0 THEN 1 ELSE 0) + (IF Guess(d, R, k) THEN 0 ELSE 1)
<1>1. k \in 0 .. n - 1 /\ k \in 0 .. n
  OBVIOUS
<1>2. Turned(k, R[k], d[k + 1], R[k + 1]) /\ R[k].len \in Nat
  BY <1>1, RunFacts
<1>3. R[k].start = f
  BY ThisGroup
<1>4. R[k + 1].len = R[k].len + (IF R[k].start = k THEN 1 ELSE 0) + (IF Guess(d, R, k) THEN 0 ELSE 1)
  BY <1>2, Zenon DEF Turned, Guess
<1>5. R[k + 1].len = R[k].len + (IF f = k THEN 1 ELSE 0) + (IF Guess(d, R, k) THEN 0 ELSE 1)
  BY <1>3, <1>4, Zenon
<1>6. f = k <=> g = 0
  OBVIOUS
<1>. QED  BY <1>2, <1>5, <1>6, Zenon

(* A byte that is read is the next one of the data, and the loop goes on   *)
(* as the run does.                                                        *)
LEMMA ByteRestored ==
  ASSUME IInv, phase = "bytes",
         NEW R, NEW n \in Nat, n = Len(data),
         R \in [0 .. n -> Memory], Runs(data, n, R), Grouped(n, R), Few(n, R),
         NEW f \in Nat, f = Len(plain), Decompressing(R, f, i),
         i < Group, NEW k \in Nat, k = f + i, k < n,
         buff' = Append(buff, data[k + 1]), i' = i + 1,
         hash' = HASH(hash, data[k + 1]), table' = [table EXCEPT ![hash] = data[k + 1]],
         inpos' = R[k + 1].len, UNCHANGED <<data, phase, mask, packed, plain>>
  PROVE  IInv'
<1>3. /\ data \in Seq(Byte) /\ plain \in Seq(Byte) /\ buff \in Seq(Byte) /\ mask \in Mask
      /\ hash \in Slot /\ table \in [Slot -> Byte] /\ packed \in Seq(Byte \union Mask)
      /\ i \in 0 .. Group - 1
  BY GroupAssumption DEF IInv, TypeOK
<1>4. /\ Restored(f, i) /\ hash = R[k].hash /\ table = R[k].table
      /\ Written(data, R, packed, n)
      /\ R[f].start = f /\ f < n /\ InGroup(R, f, i)
      /\ mask = packed[R[f].len + 1]
  BY DEF Decompressing
<1>5. PICK c \in Byte : c = data[k + 1]
  <2>1. k + 1 \in 1 .. Len(data)
    OBVIOUS
  <2>. QED  BY <2>1, <1>3
<1>6. k \in 0 .. n - 1 /\ f + (i + 1) = k + 1 /\ i + 1 # 0 /\ k + 1 <= n
  BY <1>3
<1>7. Turned(k, R[k], c, R[k + 1]) /\ R[k + 1].len \in Nat /\ R[k + 1].hash \in Slot
  <2>1. k + 1 \in 0 .. n
    BY <1>6
  <2>2. n \in Nat /\ n <= Len(data) /\ Runs(data, n, R) /\ Grouped(n, R)
    OBVIOUS
  <2>3. Turned(k, R[k], data[k + 1], R[k + 1]) /\ R[k + 1].len \in Nat /\ R[k + 1].hash \in Slot
    BY ONLY <2>1, <2>2, <1>3, <1>6, RunFacts
  <2>. QED  BY <2>3, <1>5
<1>8. hash' = R[k + 1].hash /\ table' = R[k + 1].table
  BY <1>4, <1>5, <1>7 DEF Turned
<1>9. InGroup(R, f, i + 1)
  <2>1. R[k].start = f
    BY <1>3, <1>4, ThisGroup
  <2>2. R[k + 1].start = NextStart(k, f)
    BY <2>1, <1>7 DEF Turned, NextStart
  <2>. QED  BY <2>2, <1>3, <1>4, <1>6, GroupGrows
<1>10. i = Len(buff) /\ k <= n
  BY <1>4 DEF Restored
<1>11. /\ buff' \in Seq(Byte) /\ Len(buff') = i + 1 /\ buff'[i + 1] = c
       /\ \A x \in 1 .. i : buff'[x] = buff[x]
  BY <1>3, <1>5, <1>10
<1>17. PICK g \in Nat : g = i + 1
  BY <1>3
<1>12. Restored(f, g)'
  <2>1. ASSUME NEW x \in 1 .. g  PROVE buff'[x] = data[f + x]
    <3>1. CASE x = i + 1
      BY <3>1, <1>5, <1>6, <1>11
    <3>2. CASE x # i + 1
      <4>1. x \in 1 .. i
        BY <3>2, <1>3, <1>17
      <4>. QED  BY <4>1, <1>4, <1>11 DEF Restored
    <3>. QED  BY <3>1, <3>2
  <2>2. \A x \in 1 .. f : plain[x] = data[x]
    BY <1>4 DEF Restored
  <2>3. f + g <= Len(data)
    BY <1>6, <1>17
  <2>4. f = Len(plain') /\ data' = data /\ plain' = plain
    OBVIOUS
  <2>5. g = Len(buff')
    BY <1>11, <1>17
  <2>. QED  BY ONLY <2>1, <2>2, <2>3, <2>4, <2>5 DEF Restored
<1>13. Covered' = n /\ Len(plain') = f /\ i' = g
  BY <1>17 DEF Covered
<1>14. Decompressing(R, Len(plain), i)'
  <2>1. f + g = k + 1 /\ g # 0
    BY <1>6, <1>17
  <2>2. /\ inpos' = R[f + g].len + (IF g = 0 THEN 1 ELSE 0)
        /\ hash' = R[f + g].hash /\ table' = R[f + g].table
    <3>1. R[f + g] = R[k + 1]
      BY <2>1
    <3>2. inpos' = R[k + 1].len + (IF g = 0 THEN 1 ELSE 0)
      <4>1. inpos' = R[k + 1].len
        OBVIOUS
      <4>2. R[k + 1].len = R[k + 1].len + (IF g = 0 THEN 1 ELSE 0)
        BY ONLY <1>7, <2>1, g \in Nat
      <4>. QED  BY <4>1, <4>2, Zenon
    <3>. QED  BY <3>1, <3>2, <1>8, Zenon
  <2>3. /\ n = Len(data') /\ data' = data /\ packed' = packed /\ mask' = mask
        /\ phase' = "bytes"
    OBVIOUS
  <2>4. InGroup(R, f, g)
    BY <1>9, <1>17
  <2>. QED  BY ONLY <2>2, <2>3, <2>4, <1>4, <1>12, <1>13 DEF Decompressing, Restored
<1>15. Agrees(R)'
  BY <1>13, <1>14 DEF Agrees
<1>16. TypeOK'
  <2>1. table' \in [Slot -> Byte] /\ hash' \in Slot
    BY <1>3, <1>5, <1>7, <1>8
  <2>2. i' \in 0 .. Group /\ Len(buff') <= Group /\ inpos' \in Nat
    BY <1>3, <1>7, <1>11, GroupAssumption
  <2>. QED  BY <2>1, <2>2, <1>3, <1>11 DEF TypeOK
<1>. QED  BY <1>13, <1>15, <1>16 DEF IInv

LEMMA StepGuessByte == IInv /\ GuessByte => IInv'
<1>. SUFFICES ASSUME IInv, GuessByte  PROVE IInv'
  OBVIOUS
<1>1. phase = "bytes" /\ phase # "compress" /\ i < Group /\ Bit(mask, i)
  BY DEF GuessByte
<1>0. PICK R : \E f \in Nat, n \in Nat :
        /\ n = Len(data) /\ f = Len(plain)
        /\ R \in [0 .. n -> Memory]
        /\ Runs(data, n, R) /\ Grouped(n, R) /\ Few(n, R)
        /\ Decompressing(R, f, i)
  BY <1>1, WhileDecompressing
<1>2. PICK f \in Nat, n \in Nat :
        /\ n = Len(data) /\ f = Len(plain)
        /\ R \in [0 .. n -> Memory]
        /\ Runs(data, n, R) /\ Grouped(n, R) /\ Few(n, R)
        /\ Decompressing(R, f, i)
  BY <1>0
<1>3. /\ data \in Seq(Byte) /\ plain \in Seq(Byte) /\ buff \in Seq(Byte) /\ mask \in Mask
      /\ hash \in Slot /\ table \in [Slot -> Byte] /\ packed \in Seq(Byte \union Mask)
      /\ i \in 0 .. Group /\ inpos \in Nat
  BY DEF IInv, TypeOK
<1>4. /\ Restored(f, i) /\ hash = R[f + i].hash /\ table = R[f + i].table
      /\ Written(data, R, packed, n)
      /\ R[f].start = f /\ f < n /\ InGroup(R, f, i)
      /\ mask = packed[R[f].len + 1]
      /\ inpos = R[f + i].len + (IF i = 0 THEN 1 ELSE 0)
  BY <1>1, <1>2 DEF Decompressing
<1>5. PICK k \in Nat : k = f + i
  BY <1>3
<1>6. k <= n /\ i = Len(buff)
  BY <1>2, <1>4, <1>5 DEF Restored
<1>7. i \in 0 .. Group - 1
  BY <1>1, <1>3, GroupAssumption
<1>8. k < n /\ Guess(data, R, k)
  <2>1. f \in Nat /\ n \in Nat /\ k \in Nat /\ n <= Len(data) /\ Runs(data, n, R) /\ Grouped(n, R)
    BY <1>2
  <2>2. /\ data \in Seq(Byte) /\ Written(data, R, packed, n)
        /\ i \in 0 .. Group - 1 /\ k = f + i /\ k <= n /\ f < n
        /\ R[f].start = f /\ InGroup(R, f, i)
    BY <1>3, <1>4, <1>5, <1>6, <1>7
  <2>3. Bit(packed[R[f].len + 1], i)
    BY ONLY <1>1, <1>4, Zenon
  <2>. QED  BY ONLY <2>1, <2>2, <2>3, NextByte, Zenon
<1>9. table[hash] = data[k + 1]
  BY <1>4, <1>5, <1>8 DEF Guess, Right
<1>10. [table EXCEPT ![hash] = data[k + 1]] = table
  BY <1>3, <1>9
<1>11. inpos = R[k + 1].len
  <2>1. /\ f \in Nat /\ n \in Nat /\ k \in Nat /\ n <= Len(data) /\ Runs(data, n, R) /\ Grouped(n, R)
        /\ data \in Seq(Byte) /\ i \in 0 .. Group - 1 /\ k = f + i /\ k < n
        /\ R[f].start = f /\ InGroup(R, f, i)
    BY <1>2, <1>3, <1>4, <1>5, <1>7, <1>8
  <2>2. /\ R[k].len \in Nat
        /\ R[k + 1].len = R[k].len + (IF i = 0 THEN 1 ELSE 0) + (IF Guess(data, R, k) THEN 0 ELSE 1)
    BY ONLY <2>1, NextLen
  <2>3. inpos = R[k].len + (IF i = 0 THEN 1 ELSE 0)
    BY <1>4, <1>5
  <2>. QED  BY <2>2, <2>3, <1>3, <1>8
<1>12. /\ buff' = Append(buff, data[k + 1]) /\ i' = i + 1
       /\ hash' = HASH(hash, data[k + 1]) /\ table' = [table EXCEPT ![hash] = data[k + 1]]
       /\ inpos' = R[k + 1].len /\ UNCHANGED <<data, phase, mask, packed, plain>>
  BY <1>9, <1>10, <1>11 DEF GuessByte
<1>. QED  BY <1>1, <1>2, <1>5, <1>8, <1>12, ByteRestored

LEMMA StepReadByte == IInv /\ ReadByte => IInv'
<1>. SUFFICES ASSUME IInv, ReadByte  PROVE IInv'
  OBVIOUS
<1>1. /\ phase = "bytes" /\ phase # "compress" /\ i < Group /\ ~Bit(mask, i)
      /\ inpos < Len(packed)
  BY DEF ReadByte
<1>0. PICK R : \E f \in Nat, n \in Nat :
        /\ n = Len(data) /\ f = Len(plain)
        /\ R \in [0 .. n -> Memory]
        /\ Runs(data, n, R) /\ Grouped(n, R) /\ Few(n, R)
        /\ Decompressing(R, f, i)
  BY <1>1, WhileDecompressing
<1>2. PICK f \in Nat, n \in Nat :
        /\ n = Len(data) /\ f = Len(plain)
        /\ R \in [0 .. n -> Memory]
        /\ Runs(data, n, R) /\ Grouped(n, R) /\ Few(n, R)
        /\ Decompressing(R, f, i)
  BY <1>0
<1>3. /\ data \in Seq(Byte) /\ plain \in Seq(Byte) /\ buff \in Seq(Byte) /\ mask \in Mask
      /\ hash \in Slot /\ table \in [Slot -> Byte] /\ packed \in Seq(Byte \union Mask)
      /\ i \in 0 .. Group /\ inpos \in Nat
  BY DEF IInv, TypeOK
<1>4. /\ Restored(f, i) /\ hash = R[f + i].hash /\ table = R[f + i].table
      /\ Written(data, R, packed, n)
      /\ R[f].start = f /\ f < n /\ InGroup(R, f, i)
      /\ mask = packed[R[f].len + 1]
      /\ inpos = R[f + i].len + (IF i = 0 THEN 1 ELSE 0)
  BY <1>1, <1>2 DEF Decompressing
<1>5. PICK k \in Nat : k = f + i
  BY <1>3
<1>6. k <= n /\ i = Len(buff)
  BY <1>2, <1>4, <1>5 DEF Restored
<1>7. i \in 0 .. Group - 1
  BY <1>1, <1>3, GroupAssumption
<1>8. k < n
  <2>1. ASSUME k = n  PROVE FALSE
    <3>1. i # 0 /\ f + i = n
      BY <2>1, <1>4, <1>5
    <3>2. inpos = R[n].len + 0
      BY <3>1, <1>4
    <3>3. Len(packed) = R[n].len
      BY <1>4 DEF Written
    <3>. QED  BY <3>2, <3>3, <1>1, <1>3
  <2>. QED  BY <2>1, <1>6
<1>9. ~Guess(data, R, k) /\ packed[R[k + 1].len] = data[k + 1]
  <2>1. f \in Nat /\ n \in Nat /\ k \in Nat /\ n <= Len(data) /\ Runs(data, n, R) /\ Grouped(n, R)
    BY <1>2
  <2>2. ~Bit(packed[R[f].len + 1], i)
    BY <1>1, <1>4
  <2>3. /\ data \in Seq(Byte) /\ i \in 0 .. Group - 1 /\ k = f + i /\ k < n /\ f < n
        /\ Written(data, R, packed, n) /\ R[f].start = f /\ InGroup(R, f, i)
    BY <1>3, <1>4, <1>5, <1>7, <1>8
  <2>4. ~Guess(data, R, k)
    BY ONLY <2>1, <2>2, <2>3, NextRead
  <2>5. packed[R[k + 1].len] = data[k + 1]
    BY ONLY <2>1, <2>2, <2>3, NextRead
  <2>. QED  BY <2>4, <2>5
<1>10. inpos + 1 = R[k + 1].len
  <2>1. /\ f \in Nat /\ n \in Nat /\ k \in Nat /\ n <= Len(data) /\ Runs(data, n, R) /\ Grouped(n, R)
        /\ data \in Seq(Byte) /\ i \in 0 .. Group - 1 /\ k = f + i /\ k < n
        /\ R[f].start = f /\ InGroup(R, f, i)
    BY <1>2, <1>3, <1>4, <1>5, <1>7, <1>8
  <2>2. /\ R[k].len \in Nat
        /\ R[k + 1].len = R[k].len + (IF i = 0 THEN 1 ELSE 0) + (IF Guess(data, R, k) THEN 0 ELSE 1)
    BY ONLY <2>1, NextLen
  <2>3. inpos = R[k].len + (IF i = 0 THEN 1 ELSE 0)
    BY <1>4, <1>5
  <2>. QED  BY <2>2, <2>3, <1>3, <1>9
<1>11. packed[inpos + 1] = data[k + 1]
  BY <1>9, <1>10
<1>12. /\ buff' = Append(buff, data[k + 1]) /\ i' = i + 1
       /\ hash' = HASH(hash, data[k + 1]) /\ table' = [table EXCEPT ![hash] = data[k + 1]]
       /\ inpos' = R[k + 1].len /\ UNCHANGED <<data, phase, mask, packed, plain>>
  BY <1>10, <1>11 DEF ReadByte
<1>. QED  BY <1>1, <1>2, <1>5, <1>8, <1>12, ByteRestored

LEMMA StepWriteGroup == IInv /\ WriteGroup => IInv'
<1>. SUFFICES ASSUME IInv, WriteGroup  PROVE IInv'
  OBVIOUS
<1>1. /\ phase = "bytes" /\ phase # "compress"
      /\ i = Group \/ (~Bit(mask, i) /\ inpos = Len(packed))
  BY DEF WriteGroup
<1>0. PICK R : \E f \in Nat, n \in Nat :
        /\ n = Len(data) /\ f = Len(plain)
        /\ R \in [0 .. n -> Memory]
        /\ Runs(data, n, R) /\ Grouped(n, R) /\ Few(n, R)
        /\ Decompressing(R, f, i)
  BY <1>1, WhileDecompressing
<1>2. PICK f \in Nat, n \in Nat :
        /\ n = Len(data) /\ f = Len(plain)
        /\ R \in [0 .. n -> Memory]
        /\ Runs(data, n, R) /\ Grouped(n, R) /\ Few(n, R)
        /\ Decompressing(R, f, i)
  BY <1>0
<1>3. /\ data \in Seq(Byte) /\ plain \in Seq(Byte) /\ buff \in Seq(Byte) /\ mask \in Mask
      /\ hash \in Slot /\ table \in [Slot -> Byte] /\ packed \in Seq(Byte \union Mask)
      /\ i \in 0 .. Group /\ inpos \in Nat
  BY DEF IInv, TypeOK
<1>4. /\ Restored(f, i) /\ hash = R[f + i].hash /\ table = R[f + i].table
      /\ Written(data, R, packed, n)
      /\ R[f].start = f /\ f < n /\ InGroup(R, f, i)
      /\ mask = packed[R[f].len + 1]
      /\ inpos = R[f + i].len + (IF i = 0 THEN 1 ELSE 0)
  BY <1>1, <1>2 DEF Decompressing
<1>5. PICK k \in Nat : k = f + i
  BY <1>3
<1>6. k <= n /\ i = Len(buff)
  BY <1>2, <1>4, <1>5 DEF Restored
<1>7. (R[k].start = k \/ k = n) /\ i # 0
  <2>1. CASE i = Group
    <3>1. R[f + i].start = f + i
      BY <2>1, <1>4 DEF InGroup
    <3>. QED  BY <3>1, <2>1, <1>5, GroupAssumption
  <2>2. CASE i # Group /\ k = n
    BY <2>2, <1>4, <1>5
  <2>3. CASE i # Group /\ k # n
    <3>1. i \in 0 .. Group - 1 /\ k < n
      BY <2>3, <1>2, <1>3, <1>5, <1>6, GroupAssumption
    <3>2. inpos = Len(packed) /\ ~Bit(packed[R[f].len + 1], i)
      BY <2>3, <1>1, <1>4
    <3>3. /\ f \in Nat /\ n \in Nat /\ k \in Nat /\ n <= Len(data) /\ Runs(data, n, R) /\ Grouped(n, R)
          /\ data \in Seq(Byte) /\ k = f + i /\ f < n
          /\ Written(data, R, packed, n) /\ R[f].start = f /\ InGroup(R, f, i)
      BY <1>2, <1>3, <1>4, <1>5
    <3>4. ~Guess(data, R, k)
      BY ONLY <3>1, <3>2, <3>3, NextRead
    <3>5. R[k + 1].len <= Len(packed)
      BY ONLY <3>1, <3>2, <3>3, NextRead
    <3>6. /\ R[k].len \in Nat
          /\ R[k + 1].len = R[k].len + (IF i = 0 THEN 1 ELSE 0) + (IF Guess(data, R, k) THEN 0 ELSE 1)
      BY ONLY <3>1, <3>3, NextLen
    <3>7. inpos = R[k].len + (IF i = 0 THEN 1 ELSE 0)
      BY <1>4, <1>5
    <3>8. R[k + 1].len = inpos + 1
      BY <3>4, <3>6, <3>7, <1>3
    <3>. QED  BY <3>2, <3>5, <3>8, <1>3
  <2>. QED  BY <2>1, <2>2, <2>3
<1>8. inpos = R[k].len
  <2>1. R[k].len \in Nat
    <3>1. k \in 0 .. n /\ n <= Len(data)
      BY <1>2, <1>6
    <3>. QED  BY ONLY <3>1, n \in Nat, <1>2, <1>3, RunFacts
  <2>. QED  BY <2>1, <1>4, <1>5, <1>7
<1>9. /\ phase' = "mask" /\ i' = 0 /\ mask' = 0 /\ buff' = <<>> /\ plain' = plain \o buff
      /\ UNCHANGED <<data, inpos, hash, table, packed>>
  BY DEF WriteGroup
<1>10. /\ plain' \in Seq(Byte) /\ Len(plain') = k
       /\ \A x \in 1 .. f : plain'[x] = plain[x]
       /\ \A x \in 1 .. i : plain'[f + x] = buff[x]
  BY <1>2, <1>3, <1>5, <1>6, <1>9
<1>11. Restored(k, 0)'
  <2>1. ASSUME NEW x \in 1 .. k  PROVE plain'[x] = data[x]
    <3>1. CASE x <= f
      <4>1. x \in 1 .. f
        BY <3>1
      <4>. QED  BY <4>1, <1>4, <1>10 DEF Restored
    <3>2. CASE x > f
      <4>1. x - f \in 1 .. i /\ f + (x - f) = x
        BY <3>2, <1>3, <1>5
      <4>2. plain'[f + (x - f)] = buff[x - f] /\ buff[x - f] = data[f + (x - f)]
        BY <4>1, <1>4, <1>10, Zenon DEF Restored
      <4>. QED  BY <4>1, <4>2
    <3>. QED  BY <3>1, <3>2
  <2>2. k + 0 <= Len(data) /\ Len(buff') = 0
    BY <1>2, <1>6, <1>9
  <2>3. \A x \in 1 .. 0 : FALSE
    OBVIOUS
  <2>. QED  BY <2>1, <2>2, <2>3, <1>9, <1>10 DEF Restored
<1>12. Covered' = n /\ k + 0 = k
  BY <1>2, <1>9 DEF Covered
<1>13. hash = R[k].hash /\ table = R[k].table
  BY <1>4, <1>5
<1>14. Decompressing(R, Len(plain), i)'
  <2>1. n = Len(data')
    BY <1>2, <1>9
  <2>. QED  BY ONLY <2>1, <1>4, <1>7, <1>8, <1>9, <1>10, <1>11, <1>12, <1>13 DEF Decompressing
<1>15. Agrees(R)'
  <2>1. phase' # "compress"
    BY <1>9
  <2>. QED  BY <2>1, <1>2, <1>9, <1>12, <1>14 DEF Agrees
<1>16. TypeOK'
  BY <1>3, <1>9, <1>10, MaskAssumption, GroupAssumption DEF TypeOK
<1>. QED  BY <1>2, <1>12, <1>15, <1>16 DEF IInv

-----------------------------------------------------------------------------
(* IInv is an invariant.                                                   *)
THEOREM Invariance == Spec => []IInv
<1>1. Init => IInv
  BY InitHolds
<1>2. IInv /\ [Next]_vars => IInv'
  <2>. SUFFICES ASSUME IInv, [Next]_vars  PROVE IInv'
    OBVIOUS
  <2>1. CASE UNCHANGED vars
    BY <2>1 DEF IInv, TypeOK, Agrees, Covered, Compressing, Decompressing, Restored, vars
  <2>2. CASE Next
    BY <2>2, StepCompressByte, StepCompressGroup, StepDecompress, StepReadMask,
       StepGuessByte, StepReadByte, StepWriteGroup DEF Next
  <2>. QED  BY <2>1, <2>2
<1>. QED  BY <1>1, <1>2, PTL DEF Spec

(* Every variable of the two calls has its type; no group is longer than   *)
(* the array that holds it.                                                *)
THEOREM TypeCorrect == Spec => []TypeOK
<1>1. IInv => TypeOK
  BY DEF IInv
<1>. QED  BY <1>1, Invariance, PTL

(* What lzp_decompress has written is at every step the beginning of the   *)
(* data that lzp_compress was given.                                       *)
THEOREM AlwaysRestored == Spec => []PrefixRestored
<1>1. IInv => PrefixRestored
  <2>. SUFFICES ASSUME IInv, phase # "compress"
                PROVE  LET p == plain \o buff IN
                         Len(p) <= Len(data) /\ \A k \in DOMAIN p : p[k] = data[k]
    BY DEF PrefixRestored
  <2>1. PICK R, f : f = Len(plain) /\ Decompressing(R, f, i)
    BY WhileDecompressing
  <2>2. PICK g : g = Len(buff)
    OBVIOUS
  <2>3. /\ plain \in Seq(Byte) /\ buff \in Seq(Byte) /\ data \in Seq(Byte)
        /\ f \in Nat /\ g \in Nat
    BY <2>1, <2>2 DEF IInv, TypeOK
  <2>4. /\ f + g <= Len(data)
        /\ \A k \in 1 .. f : plain[k] = data[k]
        /\ \A k \in 1 .. g : buff[k] = data[f + k]
    BY <2>1, <2>2 DEF Decompressing, Restored
  <2>5. PICK p : p = plain \o buff
    OBVIOUS
  <2>6. /\ p \in Seq(Byte) /\ Len(p) = f + g
        /\ \A k \in 1 .. f : p[k] = plain[k]
        /\ \A k \in 1 .. g : p[f + k] = buff[k]
    BY <2>1, <2>2, <2>3, <2>5
  <2>7. ASSUME NEW k \in 1 .. f + g  PROVE p[k] = data[k]
    <3>1. CASE k <= f
      BY <3>1, <2>3, <2>4, <2>6
    <3>2. CASE k > f
      <4>1. k - f \in 1 .. g /\ f + (k - f) = k
        BY <3>2, <2>3
      <4>2. p[f + (k - f)] = buff[k - f] /\ buff[k - f] = data[f + (k - f)]
        BY <4>1, <2>4, <2>6, Zenon
      <4>. QED  BY <4>1, <4>2
    <3>. QED  BY <3>1, <3>2, <2>3
  <2>8. DOMAIN p = 1 .. f + g
    BY <2>6
  <2>. QED  BY <2>4, <2>5, <2>6, <2>7, <2>8, Zenon
<1>. QED  BY <1>1, Invariance, PTL

(* When lzp_decompress returns it has written the data, whole.             *)
THEOREM RestoredInTheEnd == Spec => [](phase = "done" => plain = data)
<1>1. IInv => (phase = "done" => plain = data)
  <2>. SUFFICES ASSUME IInv, phase = "done"  PROVE plain = data
    OBVIOUS
  <2>1. PICK R, f : f = Len(plain) /\ Decompressing(R, f, i)
    BY WhileDecompressing
  <2>2. plain \in Seq(Byte) /\ data \in Seq(Byte)
    BY DEF IInv, TypeOK
  <2>3. Len(plain) = Len(data) /\ \A k \in 1 .. Len(plain) : plain[k] = data[k]
    BY <2>1 DEF Decompressing, Restored
  <2>. QED  BY <2>2, <2>3
<1>. QED  BY <1>1, Invariance, PTL

-----------------------------------------------------------------------------
(* The bound on the packed data, from the number of its masks.             *)
LEMMA Division ==
  ASSUME NEW a \in Nat, NEW b \in Nat \ {0}
  PROVE  \E q \in Nat : \E r \in 0 .. b - 1 :
           q = a \div b /\ r = a % b /\ a = b * q + r
<1>. DEFINE q == a \div b
            r == a % b
<1>1. a \in Int /\ b \in Int /\ b > 0
  OBVIOUS
<1>2. a - r = b * q
  BY ONLY <1>1, SMTT(30)
<1>3. q \in Nat /\ r \in 0 .. b - 1
  OBVIOUS
<1>4. q = a \div b /\ r = a % b
  OBVIOUS
<1>. HIDE DEF q, r
<1>5. b * q \in Int /\ r \in Int
  BY <1>3
<1>6. a = b * q + r
  BY <1>1, <1>2, <1>5
<1>. QED  BY <1>3, <1>4, <1>6

LEMMA Monotone ==
  ASSUME NEW b \in Nat \ {0}, NEW p \in Nat, NEW q \in Nat, p < q
  PROVE  b * p + b <= b * q
<1>1. PICK d \in Nat : q = p + 1 + d
  <2>1. q - p - 1 \in Nat /\ q = p + 1 + (q - p - 1)
    OBVIOUS
  <2>. QED  BY <2>1
<1>2. b * q = b * p + b + b * d
  BY <1>1
<1>3. b * d >= 0
  OBVIOUS
<1>4. b * p \in Nat /\ b * q \in Nat /\ b * d \in Nat
  OBVIOUS
<1>. QED  BY <1>2, <1>3, <1>4

LEMMA Quotient ==
  ASSUME NEW a \in Nat, NEW b \in Nat \ {0}, NEW q \in Nat, b * q <= a
  PROVE  q <= a \div b
<1>1. PICK p \in Nat : \E r \in 0 .. b - 1 : p = a \div b /\ r = a % b /\ a = b * p + r
  BY Division
<1>2. PICK r \in 0 .. b - 1 : p = a \div b /\ a = b * p + r
  BY <1>1
<1>3. b * p \in Nat /\ b * q \in Nat
  OBVIOUS
<1>4. ~(p < q)
  <2>1. p < q => b * p + b <= b * q
    BY Monotone
  <2>. QED  BY <2>1, <1>2, <1>3
<1>. QED  BY <1>2, <1>4

LEMMA FewMasks ==
  ASSUME NEW n \in Nat, NEW R, NEW f \in 0 .. n, NEW l \in Nat, f <= l,
         R[f].start \in 0 .. f, R[f].masks \in Nat, R[f].len \in Nat, Few(n, R)
  PROVE  R[f].len <= l + (l + Group - 1) \div Group
<1>1. PICK m \in Nat, s \in 0 .. f, z \in Nat : m = R[f].masks /\ s = R[f].start /\ z = R[f].len
  OBVIOUS
<1>2. z <= f + m /\ Group * m = s + (IF s = f THEN 0 ELSE Group)
  BY <1>1, Zenon DEF Few
<1>3. s + (IF s = f THEN 0 ELSE Group) <= l + Group - 1
  BY GroupAssumption
<1>4. l + Group - 1 \in Nat
  BY GroupAssumption
<1>5. m <= (l + Group - 1) \div Group
  BY <1>2, <1>3, <1>4, Quotient, GroupAssumption
<1>6. (l + Group - 1) \div Group \in Int
  BY <1>4, GroupAssumption
<1>. QED  BY <1>1, <1>2, <1>5, <1>6

(* The packed data never takes more room than the data and one mask for    *)
(* each of its groups.                                                     *)
THEOREM AlwaysBounded == Spec => []PackedBound
<1>1. IInv => PackedBound
  <2>. SUFFICES ASSUME IInv  PROVE PackedBound
    OBVIOUS
  <2>1. data \in Seq(Byte) /\ Len(data) \in Nat
    BY DEF IInv, TypeOK
  <2>2. CASE phase = "compress"
    <3>0. PICK R : \E f \in Nat, n \in Nat :
            /\ n = inpos /\ f = inpos - i /\ f + i = n /\ n <= Len(data)
            /\ R \in [0 .. n -> Memory]
            /\ Runs(data, n, R) /\ Grouped(n, R) /\ Few(n, R)
            /\ Compressing(R, f, i)
      BY <2>2, WhileCompressing
    <3>1. PICK f \in Nat, n \in Nat :
            /\ f + i = n /\ n <= Len(data)
            /\ Runs(data, n, R) /\ Grouped(n, R) /\ Few(n, R)
            /\ Compressing(R, f, i)
      BY <3>0
    <3>2. i \in Nat
      BY DEF IInv, TypeOK
    <3>3. f \in 0 .. n /\ f <= Len(data)
      BY <3>1, <3>2, <2>1
    <3>4. R[f].start \in 0 .. f /\ R[f].masks \in Nat /\ R[f].len \in Nat
      BY <3>1, <3>3, <2>1, RunFacts
    <3>5. R[f].len <= Len(data) + (Len(data) + Group - 1) \div Group
      BY <3>1, <3>3, <3>4, <2>1, FewMasks
    <3>6. Len(packed) = R[f].len
      BY <3>1 DEF Compressing, Written
    <3>. QED  BY <3>5, <3>6 DEF PackedBound
  <2>3. CASE phase # "compress"
    <3>1. PICK R : \E f \in Nat, n \in Nat :
            /\ n = Len(data) /\ f = Len(plain)
            /\ R \in [0 .. n -> Memory]
            /\ Runs(data, n, R) /\ Grouped(n, R) /\ Few(n, R)
            /\ Decompressing(R, f, i)
      BY <2>3, WhileDecompressing
    <3>2. PICK n \in Nat : /\ n = Len(data) /\ n <= Len(data)
                           /\ Runs(data, n, R) /\ Grouped(n, R) /\ Few(n, R)
                           /\ Written(data, R, packed, n)
      BY <3>1 DEF Decompressing
    <3>3. n \in 0 .. n
      OBVIOUS
    <3>4. R[n].start \in 0 .. n /\ R[n].masks \in Nat /\ R[n].len \in Nat
      <4>1. n <= Len(data) /\ Runs(data, n, R) /\ Grouped(n, R)
        BY <3>2
      <4>. QED  BY ONLY <4>1, <3>3, <2>1, n \in Nat, RunFacts
    <3>5. R[n].len <= n + (n + Group - 1) \div Group
      <4>1. Few(n, R) /\ n <= n
        BY <3>2
      <4>. QED  BY ONLY <4>1, <3>3, <3>4, n \in Nat, FewMasks
    <3>6. Len(packed) = R[n].len
      BY <3>2 DEF Written
    <3>. QED  BY <3>2, <3>5, <3>6, Zenon DEF PackedBound
  <2>. QED  BY <2>2, <2>3
<1>. QED  BY <1>1, Invariance, PTL
=============================================================================
