---------------------------- MODULE ChaChaProofs ----------------------------
(***************************************************************************)
(* Proofs about ChaCha, for blocks of any number of bytes, counters of any *)
(* number of values and messages of any length.                            *)
(***************************************************************************)
EXTENDS ChaCha, SequenceTheorems, TLAPS

(* Arithmetic of positions.                                                *)
LEMMA Division ==
  ASSUME NEW a \in Nat, NEW b \in Nat \ {0}
  PROVE  \E q \in Nat : \E r \in 0 .. b - 1 :
           q = a \div b /\ r = a % b /\ a = b * q + r
<1>. DEFINE q == a \div b
            r == a % b
<1>1. a \in Int /\ b \in Int /\ b > 0
  OBVIOUS
<1>2. a - r = b * q
  BY ONLY <1>1, SMTT(30)
<1>3. q \in Nat /\ r \in 0 .. b - 1
  OBVIOUS
<1>4. q = a \div b /\ r = a % b
  OBVIOUS
<1>. HIDE DEF q, r
<1>5. b * q \in Int /\ r \in Int
  BY <1>3
<1>6. a = b * q + r
  BY <1>1, <1>2, <1>5
<1>. QED  BY <1>3, <1>4, <1>6

LEMMA Monotone ==
  ASSUME NEW b \in Nat \ {0}, NEW p \in Nat, NEW q \in Nat, p < q
  PROVE  b * p + b <= b * q
<1>1. PICK d \in Nat : q = p + 1 + d
  <2>1. q - p - 1 \in Nat /\ q = p + 1 + (q - p - 1)
    OBVIOUS
  <2>. QED  BY <2>1
<1>2. b * q = b * p + b + b * d
  BY <1>1
<1>3. b * d >= 0
  OBVIOUS
<1>4. b * p \in Nat /\ b * q \in Nat /\ b * d \in Nat
  OBVIOUS
<1>. QED  BY <1>2, <1>3, <1>4

LEMMA Unique ==
  ASSUME NEW b \in Nat \ {0}, NEW p \in Nat, NEW q \in Nat,
         NEW r \in 0 .. b - 1, NEW s \in 0 .. b - 1, b * p + r = b * q + s
  PROVE  p = q /\ r = s
<1>1. b * p \in Nat /\ b * q \in Nat
  OBVIOUS
<1>2. ~(p < q)
  BY <1>1, Monotone
<1>3. ~(q < p)
  BY <1>1, Monotone
<1>4. p = q
  BY <1>2, <1>3
<1>. QED  BY <1>1, <1>4

LEMMA Parts ==
  ASSUME NEW b \in Nat \ {0}, NEW p \in Nat, NEW r \in 0 .. b - 1,
         NEW a, a = b * p + r
  PROVE  a \div b = p /\ a % b = r
<1>1. a \in Nat
  <2>1. b * p \in Nat /\ r \in Nat
    OBVIOUS
  <2>. QED  BY <2>1
<1>2. PICK q \in Nat : \E s \in 0 .. b - 1 : q = a \div b /\ s = a % b /\ a = b * q + s
  BY <1>1, Division
<1>3. PICK s \in 0 .. b - 1 : q = a \div b /\ s = a % b /\ a = b * q + s
  BY <1>2
<1>4. b * q + s = b * p + r
  BY <1>3
<1>5. q = p /\ s = r
  BY ONLY <1>4, Unique, b \in Nat \ {0}, p \in Nat, r \in 0 .. b - 1, q \in Nat, s \in 0 .. b - 1
<1>. QED  BY <1>3, <1>5

(* The counter after c wraps as the position does.                         *)
LEMMA NextCounter ==
  ASSUME NEW b \in Nat \ {0}, NEW a \in Nat
  PROVE  ((a % b) + 1) % b = (a + 1) % b
<1>1. PICK q \in Nat : \E r \in 0 .. b - 1 : r = a % b /\ a = b * q + r
  BY Division
<1>2. PICK r \in 0 .. b - 1 : r = a % b /\ a = b * q + r
  BY <1>1
<1>3. b * q \in Nat /\ r \in Nat
  OBVIOUS
<1>. DEFINE c == r + 1
            d == a + 1
            p == q + 1
<1>4. CASE r + 1 < b
  <2>1. c \in 0 .. b - 1 /\ d = b * q + c /\ c = b * 0 + c
    BY <1>2, <1>3, <1>4
  <2>2. d % b = c
    <3>. HIDE DEF c, d
    <3>. QED  BY <2>1, Parts
  <2>3. c % b = c
    <3>. HIDE DEF c, d
    <3>. QED  BY <2>1, Parts
  <2>. QED  BY <1>2, <2>2, <2>3
<1>5. CASE ~(r + 1 < b)
  <2>1. c = b * 1 + 0 /\ d = b * p + 0 /\ 0 \in 0 .. b - 1 /\ p \in Nat
    BY <1>2, <1>3, <1>5
  <2>2. d % b = 0
    <3>. HIDE DEF c, d, p
    <3>. QED  BY <2>1, Parts
  <2>3. c % b = 0
    <3>. HIDE DEF c, d
    <3>. QED  BY <2>1, Parts
  <2>. QED  BY <1>2, <2>2, <2>3
<1>. QED  BY <1>4, <1>5

-----------------------------------------------------------------------------
(* The invariant.                                                          *)
ByteSet == SUBSET (Int \X Int)
PadAt(k) == Pad((1 + ((k - 1) \div BlockBytes)) % Counters, (k - 1) % BlockBytes)
Plain(k) == {<<-1, k>>}

(* q blocks were used up before this one: the position in the message says *)
(* which block of key stream is in use, and which one the state makes next.*)
InBlock(q) ==
  /\ Len(out) = BlockBytes * q + j
  /\ block = BlockOf((1 + q) % Counters)
  /\ word = (2 + q) % Counters

IInv ==
  /\ TypeOK
  /\ in \in Seq(ByteSet) /\ out \in Seq(ByteSet)
  /\ \A k \in 1 .. Len(in) :
       in[k] = IF call = "encrypt" THEN Plain(k) ELSE Xor(Plain(k), {PadAt(k)})
  /\ \A k \in 1 .. Len(out) : out[k] = Xor(in[k], {PadAt(k)})
  /\ \E q \in Nat : InBlock(q)
  /\ call = "done" => Len(out) = Len(in)

LEMMA Sizes ==
  /\ BlockBytes \in Nat \ {0} /\ Counters \in Nat \ {0} /\ Counters > 1
  /\ MaxLen \in Nat
  /\ \A a \in Nat : a % Counters \in 0 .. Counters - 1
  /\ \A a \in Nat : a % BlockBytes \in 0 .. BlockBytes - 1
BY SizesAssumption

(* The exclusive or undoes itself.                                         *)
LEMMA XorFacts ==
  ASSUME NEW a, NEW b
  PROVE  Xor(Xor(a, b), b) = a /\ Xor(Xor(a, b), a) = b
BY DEF Xor

LEMMA PadType ==
  ASSUME NEW k \in Nat \ {0}
  PROVE  {PadAt(k)} \in ByteSet /\ Plain(k) \in ByteSet
<1>1. k - 1 \in Nat
  OBVIOUS
<1>2. PICK q \in Nat : \E r \in 0 .. BlockBytes - 1 :
        q = (k - 1) \div BlockBytes /\ r = (k - 1) % BlockBytes
  BY <1>1, Sizes, Division
<1>3. (1 + q) % Counters \in Int /\ (k - 1) % BlockBytes \in Int
  BY <1>1, Sizes
<1>. QED  BY <1>2, <1>3 DEF PadAt, Pad, Plain, ByteSet

LEMMA XorType ==
  ASSUME NEW a \in ByteSet, NEW b \in ByteSet
  PROVE  Xor(a, b) \in ByteSet
BY DEF Xor, ByteSet

(* The byte after n others meets the pad of its position.                  *)
LEMMA PadIs ==
  ASSUME NEW q \in Nat, NEW r \in 0 .. BlockBytes - 1, NEW n, n = BlockBytes * q + r
  PROVE  n \in Nat /\ PadAt(n + 1) = Pad((1 + q) % Counters, r)
<1>1. n \in Nat
  <2>1. BlockBytes * q \in Nat /\ r \in Nat
    BY Sizes
  <2>. QED  BY <2>1
<1>2. n \div BlockBytes = q /\ n % BlockBytes = r
  BY Sizes, Parts
<1>3. n + 1 - 1 = n
  BY <1>1
<1>. QED  BY <1>1, <1>2, <1>3 DEF PadAt

(* A context that was made anew is at the start of its first block.        *)
LEMMA FreshContext ==
  /\ BlockOf((1 + 0) % Counters) = BlockOf(1)
  /\ (2 + 0) % Counters = Following(1) /\ Following(1) \in 0 .. Counters - 1
<1>1. 1 % Counters = 1
  <2>1. 1 \in 0 .. Counters - 1 /\ 1 = Counters * 0 + 1 /\ 0 \in Nat
    BY Sizes
  <2>. QED  BY <2>1, Sizes, Parts
<1>. QED  BY <1>1, Sizes DEF Following

LEMMA InitInv == Init => IInv
<1>. SUFFICES ASSUME Init PROVE IInv
  OBVIOUS
<1>1. PICK n \in 0 .. MaxLen : in = Message(n)
  BY DEF Init
<1>2. n \in Nat /\ n <= MaxLen
  BY Sizes
<1>3. ASSUME NEW k \in 1 .. n PROVE Plain(k) \in ByteSet
  <2>1. k \in Nat \ {0}
    BY <1>2
  <2>. QED  BY <2>1, PadType
<1>4. in = [k \in 1 .. n |-> Plain(k)]
  BY <1>1 DEF Message, Plain
<1>5. in \in Seq(ByteSet) /\ Len(in) = n /\ \A k \in 1 .. n : in[k] = Plain(k)
  BY <1>2, <1>3, <1>4
<1>6. /\ out = <<>> /\ out \in Seq(ByteSet) /\ Len(out) = 0 /\ call = "encrypt"
      /\ j = 0 /\ block = BlockOf(1) /\ word = Following(1) /\ ctr = word
  BY EmptySeq DEF Init
<1>7. InBlock(0)
  <2>1. Len(out) = BlockBytes * 0 + j
    BY <1>6, Sizes
  <2>. QED  BY <1>6, <2>1, FreshContext DEF InBlock
<1>8. TypeOK
  BY <1>2, <1>5, <1>6, FreshContext, Sizes DEF TypeOK
<1>. QED  BY <1>5, <1>6, <1>7, <1>8 DEF IInv

LEMMA EncryptByteInv ==
  ASSUME IInv, EncryptByte
  PROVE  IInv'
<1>. DEFINE n == Len(out)
            byte == Xor(in[n + 1], {PadAt(n + 1)})
<1>1. /\ n \in Nat /\ Len(in) \in Nat /\ n < Len(in) /\ j \in 0 .. BlockBytes - 1
      /\ call # "done" /\ j' = j + 1 /\ UNCHANGED <<ctr, word, block, in, call>>
  BY LenProperties, Sizes DEF EncryptByte, More, IInv, TypeOK
<1>2. PICK q \in Nat : InBlock(q)
  BY DEF IInv
<1>3. PadAt(n + 1) = Pad((1 + q) % Counters, j)
  BY <1>1, <1>2, PadIs DEF InBlock
<1>4. block[j] = {PadAt(n + 1)}
  BY <1>1, <1>2, <1>3 DEF InBlock, BlockOf
<1>5. out' = Append(out, byte)
  BY <1>4 DEF EncryptByte, Byte
<1>6. byte \in ByteSet
  <2>1. n + 1 \in Nat \ {0} /\ n + 1 \in 1 .. Len(in)
    BY <1>1
  <2>2. in[n + 1] \in ByteSet
    BY <2>1, ElementOfSeq DEF IInv
  <2>. QED  BY <2>1, <2>2, PadType, XorType
<1>7. /\ out' \in Seq(ByteSet) /\ Len(out') = n + 1 /\ out'[n + 1] = byte
      /\ \A k \in 1 .. n : out'[k] = out[k]
  <2>. HIDE DEF byte
  <2>. QED  BY <1>5, <1>6, AppendProperties DEF IInv
<1>8. \A k \in 1 .. Len(out') : out'[k] = Xor(in[k], {PadAt(k)})
  <2>1. \A k \in 1 .. Len(out') : k = n + 1 \/ k \in 1 .. n
    BY <1>1, <1>7
  <2>. QED  BY <1>7, <2>1 DEF IInv
<1>9. InBlock(q)'
  <2>1. BlockBytes * q + (j + 1) = Len(out) + 1
    <3>1. BlockBytes * q \in Nat
      BY Sizes
    <3>. QED  BY <1>1, <1>2, <3>1 DEF InBlock
  <2>. QED  BY <1>1, <1>2, <1>7, <2>1 DEF InBlock
<1>. HIDE DEF n, byte
<1>10. TypeOK'
  <2>1. j + 1 \in 0 .. BlockBytes /\ n + 1 <= Len(in)
    BY <1>1, Sizes
  <2>. QED  BY <1>1, <1>7, <2>1 DEF TypeOK, IInv
<1>. QED  BY <1>1, <1>7, <1>8, <1>9, <1>10 DEF IInv

LEMMA NextBlockInv ==
  ASSUME IInv, NextBlock
  PROVE  IInv'
<1>1. /\ j = BlockBytes /\ j' = 0 /\ call # "done"
      /\ block' = BlockOf(word) /\ ctr' = Following(ctr) /\ word' = Following(ctr)
      /\ UNCHANGED <<in, out, call>> /\ word = ctr /\ TypeOK
  BY Sizes DEF NextBlock, IInv, TypeOK
<1>2. PICK q \in Nat : InBlock(q)
  BY DEF IInv
<1>3. ctr = (2 + q) % Counters /\ 2 + q \in Nat
  BY <1>1, <1>2 DEF InBlock
<1>4. Following(ctr) = (2 + (q + 1)) % Counters
  <2>. DEFINE a == 2 + q
  <2>1. ((a % Counters) + 1) % Counters = (a + 1) % Counters
    <3>. HIDE DEF a
    <3>1. a \in Nat
      BY <1>3 DEF a
    <3>. QED  BY <3>1, Sizes, NextCounter
  <2>2. a + 1 = 2 + (q + 1)
    OBVIOUS
  <2>3. Following(ctr) = (a + 1) % Counters
    BY <1>3, <2>1 DEF Following
  <2>. QED  BY <2>2, <2>3
<1>5. InBlock(q + 1)'
  <2>1. Len(out) = BlockBytes * (q + 1) + 0
    <3>1. BlockBytes * (q + 1) = BlockBytes * q + BlockBytes /\ BlockBytes * q \in Nat
      BY Sizes
    <3>. QED  BY <1>1, <1>2, <3>1, Sizes DEF InBlock
  <2>2. 1 + (q + 1) = 2 + q
    OBVIOUS
  <2>. QED  BY <1>1, <1>3, <1>4, <2>1, <2>2 DEF InBlock
<1>6. TypeOK'
  <2>1. ctr + 1 \in Nat
    BY <1>1, Sizes DEF TypeOK
  <2>2. Following(ctr) \in 0 .. Counters - 1
    BY <2>1, Sizes DEF Following
  <2>. QED  BY <1>1, <2>2, Sizes DEF TypeOK
<1>7. q + 1 \in Nat
  OBVIOUS
<1>. QED  BY <1>1, <1>5, <1>6, <1>7 DEF IInv

LEMMA DecryptInv ==
  ASSUME IInv, Decrypt
  PROVE  IInv'
<1>1. /\ call = "encrypt" /\ call' = "decrypt" /\ Len(out) = Len(in) /\ Len(in) \in Nat
      /\ in' = out /\ out' = <<>> /\ j' = 0 /\ Len(in) <= MaxLen
      /\ block' = BlockOf(1) /\ ctr' = Following(1) /\ word' = Following(1)
  BY LenProperties DEF Decrypt, More, Context, IInv, TypeOK
<1>2. out' \in Seq(ByteSet) /\ Len(out') = 0
  BY <1>1, EmptySeq
<1>3. \A k \in 1 .. Len(out) : out[k] = Xor(Plain(k), {PadAt(k)})
  BY <1>1 DEF IInv
<1>4. InBlock(0)'
  <2>1. Len(out') = BlockBytes * 0 + j'
    BY <1>1, <1>2, Sizes
  <2>. QED  BY <1>1, <2>1, FreshContext DEF InBlock
<1>5. TypeOK'
  BY <1>1, <1>2, FreshContext, Sizes DEF TypeOK
<1>. QED  BY <1>1, <1>2, <1>3, <1>4, <1>5 DEF IInv

LEMMA ReturnInv ==
  ASSUME IInv, Return
  PROVE  IInv'
<1>1. /\ call = "decrypt" /\ call' = "done" /\ Len(out) = Len(in)
      /\ UNCHANGED <<ctr, word, block, in, out, j>>
  BY LenProperties DEF Return, More, IInv, TypeOK
<1>. QED  BY <1>1 DEF IInv, TypeOK, InBlock

LEMMA StepInv == IInv /\ [Next]_vars => IInv'
<1>. SUFFICES ASSUME IInv, [Next]_vars PROVE IInv'
  OBVIOUS
<1>1. CASE UNCHANGED vars
  BY <1>1 DEF vars, IInv, TypeOK, InBlock
<1>. QED  BY <1>1, EncryptByteInv, NextBlockInv, DecryptInv, ReturnInv DEF Next

(* Where the calls are in the key stream, in every reachable state.        *)
THEOREM Invariance == Spec => []IInv
<1>. QED  BY InitInv, StepInv, PTL DEF Spec

(* No index of chacha_encrypt leaves its block or its buffers, and the     *)
(* word of the state is the counter of the context.                        *)
THEOREM TypeCorrect == Spec => []TypeOK
<1>1. IInv => TypeOK
  BY DEF IInv
<1>. QED  BY <1>1, Invariance, PTL

-----------------------------------------------------------------------------
(* What is computed.                                                       *)

(* The counter does not come back within Counters blocks.                  *)
LEMMA CountersDiffer ==
  ASSUME NEW p \in 0 .. Counters - 1, NEW q \in 0 .. Counters - 1,
         (1 + p) % Counters = (1 + q) % Counters
  PROVE  p = q
<1>1. ASSUME NEW a \in 0 .. Counters - 1
      PROVE  (1 + a) % Counters = IF a = Counters - 1 THEN 0 ELSE 1 + a
  <2>. DEFINE c == 1 + a
  <2>1. CASE a = Counters - 1
    <3>1. c = Counters * 1 + 0 /\ 0 \in 0 .. Counters - 1
      BY <2>1, Sizes
    <3>2. c % Counters = 0
      <4>. HIDE DEF c
      <4>. QED  BY <3>1, Sizes, Parts
    <3>. QED  BY <2>1, <3>2
  <2>2. CASE a # Counters - 1
    <3>1. c = Counters * 0 + c /\ c \in 0 .. Counters - 1 /\ Counters \in Nat \ {0}
      BY <2>2, Sizes
    <3>2. c % Counters = c
      <4>. HIDE DEF c
      <4>. QED  BY <3>1, Parts
    <3>. QED  BY <2>2, <3>2
  <2>. QED  BY <2>1, <2>2
<1>2. (IF p = Counters - 1 THEN 0 ELSE 1 + p) = (IF q = Counters - 1 THEN 0 ELSE 1 + q)
  BY <1>1
<1>. QED  BY <1>2, Sizes

(* No pad is used twice in a message of at most Counters blocks.           *)
LEMMA PadsDiffer ==
  ASSUME NEW k \in Nat, NEW m \in 1 .. k - 1, k <= Counters * BlockBytes
  PROVE  PadAt(k) # PadAt(m)
<1>. DEFINE x == k - 1
            y == m - 1
<1>1. x \in Nat /\ y \in Nat /\ y < x /\ x < Counters * BlockBytes
  <2>1. Counters * BlockBytes \in Nat
    BY Sizes
  <2>. QED  BY <2>1
<1>2. k = x + 1 /\ m = y + 1
  OBVIOUS
<1>. HIDE DEF x, y
<1>3. ASSUME NEW z \in Nat, z < Counters * BlockBytes
      PROVE  \E q \in 0 .. Counters - 1 : \E r \in 0 .. BlockBytes - 1 : z = BlockBytes * q + r
  <2>0. \E q \in Nat : \E r \in 0 .. BlockBytes - 1 : r = z % BlockBytes /\ z = BlockBytes * q + r
    <3>1. BlockBytes \in Nat \ {0} /\ z \in Nat
      BY <1>3, Sizes
    <3>. QED  BY ONLY <3>1, Division
  <2>1. PICK q \in Nat : \E r \in 0 .. BlockBytes - 1 : z = BlockBytes * q + r
    BY ONLY <2>0, Zenon
  <2>2. PICK r \in 0 .. BlockBytes - 1 : z = BlockBytes * q + r
    BY <2>1
  <2>3. ASSUME ~(q < Counters) PROVE FALSE
    <3>1. BlockBytes * Counters <= BlockBytes * q
      <4>1. CASE q = Counters
        BY <4>1, Sizes
      <4>2. CASE Counters < q
        <5>1. BlockBytes * Counters + BlockBytes <= BlockBytes * q
          BY <4>2, Sizes, Monotone
        <5>2. BlockBytes * Counters \in Nat /\ BlockBytes * q \in Nat /\ BlockBytes \in Nat
          BY Sizes
        <5>. QED  BY <5>1, <5>2
      <4>. QED  BY <2>3, <4>1, <4>2, Sizes
    <3>2. BlockBytes * Counters = Counters * BlockBytes
      BY Sizes
    <3>3. BlockBytes * q \in Nat /\ Counters * BlockBytes \in Nat /\ r >= 0 /\ r \in Nat
      BY Sizes
    <3>. QED  BY <1>3, <2>2, <3>1, <3>2, <3>3
  <2>4. q \in 0 .. Counters - 1
    BY <2>3, Sizes
  <2>. QED  BY <2>2, <2>4
<1>4. PICK p \in 0 .. Counters - 1, r \in 0 .. BlockBytes - 1 : x = BlockBytes * p + r
  BY <1>1, <1>3
<1>5. PICK q \in 0 .. Counters - 1, s \in 0 .. BlockBytes - 1 : y = BlockBytes * q + s
  <2>1. Counters * BlockBytes \in Nat
    BY Sizes
  <2>2. y < Counters * BlockBytes
    BY <1>1, <2>1
  <2>. QED  BY <1>1, <1>3, <2>2
<1>6. p \in Nat /\ q \in Nat
  OBVIOUS
<1>7. PadAt(k) = Pad((1 + p) % Counters, r) /\ PadAt(m) = Pad((1 + q) % Counters, s)
  BY <1>2, <1>4, <1>5, <1>6, PadIs
<1>8. ASSUME PadAt(k) = PadAt(m) PROVE FALSE
  <2>1. (1 + p) % Counters = (1 + q) % Counters /\ r = s
    BY <1>7, <1>8 DEF Pad
  <2>2. p = q
    BY <2>1, CountersDiffer
  <2>. QED  BY <1>1, <1>4, <1>5, <2>1, <2>2
<1>. QED  BY <1>8

(* chacha_encrypt meets byte k with byte k % BlockBytes of its block of    *)
(* key stream, and no pad twice before the counter comes round.            *)
THEOREM PadAlwaysOfPosition == Spec => []PadOfPosition
<1>1. ASSUME IInv PROVE PadOfPosition
  <2>. SUFFICES ASSUME NEW k \in 1 .. Len(out)
                PROVE  /\ out[k] = Xor(in[k], {PadAt(k)})
                       /\ \A m \in 1 .. k - 1 :
                            k <= Counters * BlockBytes => Xor(out[k], in[k]) # Xor(out[m], in[m])
    BY DEF PadOfPosition, PadAt
  <2>1. Len(out) \in Nat /\ \A m \in 1 .. Len(out) : out[m] = Xor(in[m], {PadAt(m)})
    BY <1>1, LenProperties DEF IInv
  <2>2. ASSUME NEW m \in 1 .. k - 1, k <= Counters * BlockBytes
        PROVE  Xor(out[k], in[k]) # Xor(out[m], in[m])
    <3>1. m \in 1 .. Len(out) /\ k \in Nat
      BY <2>1
    <3>2. Xor(out[k], in[k]) = {PadAt(k)} /\ Xor(out[m], in[m]) = {PadAt(m)}
      <4>1. ASSUME NEW n \in 1 .. Len(out) PROVE Xor(out[n], in[n]) = {PadAt(n)}
        <5>1. out[n] = Xor(in[n], {PadAt(n)})
          BY <2>1
        <5>. QED  BY ONLY <5>1, XorFacts
      <4>. QED  BY <3>1, <4>1
    <3>3. PadAt(k) # PadAt(m)
      BY <2>2, <3>1, PadsDiffer
    <3>. QED  BY <3>2, <3>3
  <2>. QED  BY <2>1, <2>2
<1>. QED  BY <1>1, Invariance, PTL

(* The safety half of RoundTrip: whatever the length of the message and    *)
(* wherever the counter wraps, when the second call of xchacha returns its *)
(* output is the message of the first.                                     *)
THEOREM DecryptsEncrypted == Spec => [](call = "done" => out = Message(Len(out)))
<1>1. ASSUME IInv, call = "done" PROVE out = Message(Len(out))
  <2>1. Len(out) \in Nat /\ Len(out) = Len(in) /\ out \in Seq(ByteSet)
    BY <1>1, LenProperties DEF IInv
  <2>2. \A k \in 1 .. Len(out) : out[k] = Xor(Xor(Plain(k), {PadAt(k)}), {PadAt(k)})
    BY <1>1, <2>1 DEF IInv
  <2>3. \A k \in 1 .. Len(out) : out[k] = Plain(k)
    BY <2>2, XorFacts
  <2>4. out = [k \in 1 .. Len(out) |-> out[k]]
    BY <2>1
  <2>. QED  BY <2>3, <2>4 DEF Message, Plain
<1>. QED  BY <1>1, Invariance, PTL
=============================================================================
