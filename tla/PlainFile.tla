----------------------------- MODULE PlainFile ------------------------------
(***************************************************************************)
(* What fs_read and fs_write (libfs/rw.c) promise for one file: it is a    *)
(* sequence of bytes.  A write starts inside it or at its end, overwrites  *)
(* or extends it as far as an inode reaches, and says how much it wrote.   *)
(* A read starts there too and returns as much as it is asked for, as far  *)
(* as an inode reaches: the bytes of the file, and zeros behind them.      *)
(***************************************************************************)
EXTENDS Naturals, Sequences

CONSTANTS Data,      \* what is written in one call
          Limit,     \* the bytes an inode can map
          Zero       \* a byte that was never written

VARIABLES content,
          result     \* of the last call: a count, and the bytes read

Init ==
  /\ content = <<>>
  /\ result = [count |-> 0, bytes |-> <<>>]

Least(m, n) == IF m < n THEN m ELSE n
Written(off, data) == Least(Len(data), Limit - off)

Write(off, data) ==
  /\ off <= Len(content)
  /\ LET n == Written(off, data)
         end == off + n
         longer == IF end > Len(content) THEN end ELSE Len(content)
     IN /\ content' = [k \in 1 .. longer |->
                         IF off < k /\ k <= end THEN data[k - off] ELSE content[k]]
        /\ result' = [count |-> n, bytes |-> <<>>]

Beyond(off) ==                      \* a read or a write
  /\ off > Len(content)
  /\ result' = [count |-> 0, bytes |-> <<>>]
  /\ UNCHANGED content

Got(off, n) ==
  [k \in 1 .. Least(n, Limit - off) |->
    IF off + k <= Len(content) THEN content[off + k] ELSE Zero]

Read(off, n) ==
  /\ off <= Len(content)
  /\ result' = [count |-> Len(Got(off, n)), bytes |-> Got(off, n)]
  /\ UNCHANGED content

Next ==
  \E off \in 0 .. Limit + 1 :
    \/ \E data \in Data : Write(off, data)
    \/ Beyond(off)
    \/ \E n \in 0 .. Limit + 1 : Read(off, n)

Spec == Init /\ [][Next]_<<content, result>>
=============================================================================
