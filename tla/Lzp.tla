--------------------------------- MODULE Lzp ---------------------------------
(***************************************************************************)
(* liblzp/lzp.c: lzp_compress and then lzp_decompress of what it wrote,    *)
(* one turn of an inner loop per step.  Both guess the next byte from a    *)
(* table indexed by a hash of the bytes before it.  The packed data is a   *)
(* sequence of groups: a mask with one bit per byte, set when the guess    *)
(* was right, and the bytes that were not guessed.                         *)
(***************************************************************************)
EXTENDS Integers, Sequences

CONSTANTS Byte,          \* the values of a byte, 0 among them
          Group,         \* bytes per mask, 8 in the code
          Slot,          \* indices of the table, 0 .. 65535 in the code
          HASH(_, _),    \* the index after a byte: ((h << 4) ^ x) % 65536
          Mask,          \* the values of a mask, 0 among them
          SetBit(_, _),  \* mask | 1 << i
          Bit(_, _),     \* (mask & (1 << i)) != 0
          Inputs         \* the data that is compressed

ASSUME ByteAssumption == Byte \subseteq Nat /\ 0 \in Byte
ASSUME GroupAssumption == Group \in Nat \ {0}
ASSUME HashAssumption == 0 \in Slot /\ \A h \in Slot, c \in Byte : HASH(h, c) \in Slot
ASSUME MaskAssumption ==
  /\ Mask \subseteq Nat /\ 0 \in Mask
  /\ \A j \in 0 .. Group - 1 : ~Bit(0, j)
  /\ \A m \in Mask, j \in 0 .. Group - 1 :
       /\ SetBit(m, j) \in Mask
       /\ \A k \in 0 .. Group - 1 : Bit(SetBit(m, j), k) <=> j = k \/ Bit(m, k)
ASSUME InputsAssumption == Inputs \subseteq Seq(Byte)

VARIABLES data,          \* the argument of lzp_compress
          phase,         \* the loop in progress
          inpos,         \* bytes of the argument read so far
          hash, table,
          i, mask, buff, \* the current group: bytes so far, mask, bytes held
          packed,        \* what lzp_compress has written
          plain          \* what lzp_decompress has written

vars == <<data, phase, inpos, hash, table, i, mask, buff, packed, plain>>

EmptyTable == [s \in Slot |-> 0]

Init ==
  /\ data \in Inputs
  /\ phase = "compress"
  /\ inpos = 0 /\ hash = 0 /\ table = EmptyTable
  /\ i = 0 /\ mask = 0 /\ buff = <<>>
  /\ packed = <<>> /\ plain = <<>>

-----------------------------------------------------------------------------
(* The inner loop of lzp_compress: a byte that the table guesses leaves a  *)
(* bit, any other is written out and learnt.                               *)
Guessed(c) ==
  /\ table[hash] = c
  /\ mask' = SetBit(mask, i)
  /\ UNCHANGED <<table, buff>>

MissedNotLearnt(c) ==              \* mutant: the table never learns
  /\ table[hash] # c
  /\ buff' = Append(buff, c)
  /\ UNCHANGED <<table, mask>>

Missed(c) ==
  /\ table[hash] # c
  /\ table' = [table EXCEPT ![hash] = c]
  /\ buff' = Append(buff, c)
  /\ UNCHANGED mask

CompressByteFar ==                 \* mutant: one byte too many in a group
  /\ phase = "compress" /\ i <= Group /\ inpos < Len(data)
  /\ Missed(data[inpos + 1])
  /\ hash' = HASH(hash, data[inpos + 1])
  /\ inpos' = inpos + 1
  /\ i' = i + 1
  /\ UNCHANGED <<data, phase, packed, plain>>

CompressByte ==
  /\ phase = "compress" /\ i < Group /\ inpos < Len(data)
  /\ LET c == data[inpos + 1] IN
       /\ Guessed(c) \/ Missed(c)
       /\ hash' = HASH(hash, c)
  /\ inpos' = inpos + 1
  /\ i' = i + 1
  /\ UNCHANGED <<data, phase, packed, plain>>

GroupEndsEarly == i >= Group - 1   \* mutant: groups that are one byte short
GroupNeverShort == i = Group       \* mutant: a last short group is not written

(* The inner loop ends after Group bytes or at the end of the data.        *)
GroupEnds == i = Group \/ (i > 0 /\ inpos = Len(data))

CompressGroup ==
  /\ phase = "compress" /\ GroupEnds
  /\ packed' = Append(packed, mask) \o buff
  /\ i' = 0 /\ mask' = 0 /\ buff' = <<>>
  /\ UNCHANGED <<data, phase, inpos, hash, table, plain>>

(* lzp_compress returns and lzp_decompress is called with its result.      *)
Decompress ==
  /\ phase = "compress" /\ i = 0 /\ inpos = Len(data)
  /\ phase' = "mask"
  /\ inpos' = 0 /\ hash' = 0 /\ table' = EmptyTable
  /\ UNCHANGED <<data, i, mask, buff, packed, plain>>

-----------------------------------------------------------------------------
(* lzp_decompress: the next mask, or the end.                              *)
ReadMask ==
  /\ phase = "mask"
  /\ IF inpos < Len(packed)
       THEN /\ mask' = packed[inpos + 1]
            /\ inpos' = inpos + 1
            /\ phase' = "bytes"
       ELSE phase' = "done" /\ UNCHANGED <<mask, inpos>>
  /\ UNCHANGED <<data, hash, table, i, buff, packed, plain>>

GuessByte ==
  /\ phase = "bytes" /\ i < Group /\ Bit(mask, i)
  /\ buff' = Append(buff, table[hash])
  /\ hash' = HASH(hash, table[hash])
  /\ i' = i + 1
  /\ UNCHANGED <<data, phase, inpos, table, mask, packed, plain>>

ReadByte ==
  /\ phase = "bytes" /\ i < Group /\ ~Bit(mask, i) /\ inpos < Len(packed)
  /\ LET c == packed[inpos + 1] IN
       /\ buff' = Append(buff, c)
       /\ table' = [table EXCEPT ![hash] = c]
       /\ hash' = HASH(hash, c)
  /\ inpos' = inpos + 1
  /\ i' = i + 1
  /\ UNCHANGED <<data, phase, mask, packed, plain>>

(* The group ends after Group bytes, or where a byte is to be read and the *)
(* packed data is over.                                                    *)
WriteGroup ==
  /\ phase = "bytes"
  /\ i = Group \/ (~Bit(mask, i) /\ inpos = Len(packed))
  /\ plain' = plain \o buff
  /\ i' = 0 /\ mask' = 0 /\ buff' = <<>>
  /\ phase' = "mask"
  /\ UNCHANGED <<data, inpos, hash, table, packed>>

Next ==
  \/ CompressByte \/ CompressGroup \/ Decompress
  \/ ReadMask \/ GuessByte \/ ReadByte \/ WriteGroup

(* The two calls are sequential code, which does not stop between steps.   *)
Spec == Init /\ [][Next]_vars /\ WF_vars(Next)

-----------------------------------------------------------------------------
(* Every variable has its type; the group fits its array of Group bytes    *)
(* and a mask.                                                             *)
TypeOK ==
  /\ data \in Seq(Byte) /\ plain \in Seq(Byte)
  /\ buff \in Seq(Byte) /\ Len(buff) <= Group
  /\ phase \in {"compress", "mask", "bytes", "done"}
  /\ inpos \in Nat /\ i \in 0 .. Group
  /\ hash \in Slot /\ table \in [Slot -> Byte]
  /\ mask \in Mask
  /\ packed \in Seq(Byte \union Mask)

(* What is decompressed is at every step the beginning of the data: the    *)
(* two tables stay in step over the end of each group, and the bits that a *)
(* last short group leaves 0 are never taken for bytes.                    *)
PrefixRestored ==
  phase # "compress" =>
    LET p == plain \o buff IN
      /\ Len(p) <= Len(data)
      /\ \A k \in DOMAIN p : p[k] = data[k]

(* The packed data is never longer than the data and one mask per group of *)
(* it, which is what a caller of lzp_compress has to make room for.        *)
PackedBound == Len(packed) <= Len(data) + (Len(data) + Group - 1) \div Group

(* Decompression of what was compressed ends, with the data.               *)
RoundTrip == <>(phase = "done" /\ plain = data)
=============================================================================
