------------------------------- MODULE ChaCha -------------------------------
(***************************************************************************)
(* The stream of libcrypto/xchacha.c: how chacha_encrypt takes blocks of   *)
(* key stream one after another, how the block counter advances, and that  *)
(* a second call of xchacha with the same key and nonce undoes the first.  *)
(* What the rounds compute is left out: the block of a counter is the      *)
(* sequence of its pads <<counter, index>>, and a byte is the set of pads  *)
(* and message bytes <<-1, position>> that it is the exclusive or of.      *)
(***************************************************************************)
EXTENDS Integers, Sequences

CONSTANTS BlockBytes,   \* CHACHA_BLOCK_BYTES, 64 in the code
          Counters,     \* values of the 32-bit counter
          MaxLen        \* bound on the messages

ASSUME SizesAssumption ==
  /\ BlockBytes \in Nat \ {0} /\ Counters \in Nat \ {0, 1}
  /\ MaxLen \in Nat

VARIABLES ctr,      \* ctx->ctr
          word,     \* ctx->state[3][0]
          block,    \* the block of key stream
          in, out,  \* the buffers of the call
          j,        \* its index in the block
          call      \* "encrypt", "decrypt" or "done"

vars == <<ctr, word, block, in, out, j, call>>

Message(n) == [k \in 1 .. n |-> {<<-1, k>>}]
Pad(c, k) == <<c, k>>
Xor(a, b) == (a \ b) \union (b \ a)

(* chacha_block: the block of the counter in the state, which is then the  *)
(* next one.                                                               *)
BlockOf(c) == [k \in 0 .. BlockBytes - 1 |-> {Pad(c, k)}]

Following(c) == (c + 1) % Counters

(* xchacha: the context is made anew, from counter 1, and chacha_encrypt   *)
(* asks for the first block.                                               *)
Context ==
  /\ block' = BlockOf(1)
  /\ ctr' = Following(1) /\ word' = Following(1)
  /\ j' = 0

Init ==
  /\ \E n \in 0 .. MaxLen : in = Message(n)
  /\ out = <<>> /\ call = "encrypt"
  /\ block = BlockOf(1) /\ ctr = Following(1) /\ word = Following(1) /\ j = 0

More == Len(out) < Len(in)
Byte == in[Len(out) + 1]

ByteFar ==                \* mutant: the block is one byte longer
  /\ call # "done" /\ More /\ j <= BlockBytes
  /\ out' = Append(out, Xor(Byte, block[j % BlockBytes]))
  /\ j' = j + 1
  /\ UNCHANGED <<ctr, word, block, in, call>>

(* A turn of the loop of chacha_encrypt, within a block.                   *)
EncryptByte ==
  /\ call # "done" /\ More /\ j < BlockBytes
  /\ out' = Append(out, Xor(Byte, block[j]))
  /\ j' = j + 1
  /\ UNCHANGED <<ctr, word, block, in, call>>

NextBlockStuck ==         \* mutant: the counter does not reach the state
  /\ call # "done" /\ More /\ j >= BlockBytes
  /\ block' = BlockOf(word) /\ ctr' = Following(ctr) /\ word' = word
  /\ j' = 0
  /\ UNCHANGED <<in, out, call>>

(* chacha_block, when the block is used up.                                *)
NextBlock ==
  /\ call # "done" /\ More /\ j >= BlockBytes
  /\ block' = BlockOf(word) /\ ctr' = Following(ctr) /\ word' = Following(ctr)
  /\ j' = 0
  /\ UNCHANGED <<in, out, call>>

DecryptInPlace ==         \* mutant: the context of the first call is kept
  /\ call = "encrypt" /\ ~More
  /\ in' = out /\ out' = <<>> /\ call' = "decrypt"
  /\ UNCHANGED <<ctr, word, block, j>>

(* The second call, on the output of the first.                            *)
Decrypt ==
  /\ call = "encrypt" /\ ~More
  /\ in' = out /\ out' = <<>> /\ call' = "decrypt"
  /\ Context

Return ==
  /\ call = "decrypt" /\ ~More
  /\ call' = "done"
  /\ UNCHANGED <<ctr, word, block, in, out, j>>

Next == EncryptByte \/ NextBlock \/ Decrypt \/ Return

(* Calls of sequential code that waits for nothing.                        *)
Spec == Init /\ [][Next]_vars /\ WF_vars(Next)

-----------------------------------------------------------------------------
(* Every variable has its type; the state holds the counter that the next  *)
(* block is made from.                                                     *)
TypeOK ==
  /\ ctr \in 0 .. Counters - 1 /\ word = ctr
  /\ j \in 0 .. BlockBytes
  /\ Len(in) <= MaxLen /\ Len(out) <= Len(in)
  /\ call \in {"encrypt", "decrypt", "done"}

(* Byte k of a message meets byte k % BlockBytes of block number           *)
(* 1 + k \div BlockBytes, and no pad is used for two bytes of a message of *)
(* at most Counters blocks.                                                *)
PadOfPosition ==
  call = "encrypt" =>
    \A k \in 1 .. Len(out) :
      /\ out[k] = Xor(in[k], {Pad((1 + ((k - 1) \div BlockBytes)) % Counters,
                                 (k - 1) % BlockBytes)})
      /\ \A m \in 1 .. k - 1 :
           k <= Counters * BlockBytes => Xor(out[k], in[k]) # Xor(out[m], in[m])

(* xchacha undoes xchacha, for a message of any length.                    *)
RoundTrip == <>(call = "done" /\ out = Message(Len(out)))
=============================================================================
