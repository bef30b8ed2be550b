------------------------------- MODULE MCTools -------------------------------
(***************************************************************************)
(* TLC instances of Tools: host files of one cell, of one cell more than   *)
(* a block and of one more than an inode holds, a directory and a source   *)
(* that does not exist; paths of one and of two names; an image of zeroes  *)
(* and one that was used, whose blocks hold addresses, or entries, of      *)
(* number 1.                                                               *)
(***************************************************************************)
EXTENDS Tools

File(name, len) == [name |-> name, kind |-> "file", len |-> len]
Tiny == File("tiny", 1)
Long == File("long", CPB + 1)
Huge == File("huge", MaxCells + 1)

AllSources == {Tiny, Long, Huge, [name |-> "dir", kind |-> "dir", len |-> 0],
               [name |-> "missing", kind |-> "missing", len |-> 0]}

Zeroes == {ZeroBlock}
UsedBefore == {[c \in DOMAIN ZeroBlock |-> Cell(1, "a")]}

ShortPaths == {<<n>> : n \in Names}
LongPaths == {<<m, n>> : m, n \in Names}
=============================================================================
