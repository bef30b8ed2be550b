----------------------------- MODULE MCFileMap ------------------------------
(***************************************************************************)
(* Instance of FileMap: writes of nothing, of more than a block, of the    *)
(* direct zones and one byte more, of all an inode holds and one byte      *)
(* more; and of a second kind, of a block and of more, to overwrite them.  *)
(***************************************************************************)
EXTENDS FileMap

Bytes ==
       {[k \in 1 .. n |-> Cell(k, "a")] : n \in {0, 3, NDir * CPB + 1, MaxCells + 1}}
  \union {[k \in 1 .. n |-> Cell(k, "b")] : n \in {2, 3}}
=============================================================================
