------------------------------ MODULE MCFreeList ------------------------------
(***************************************************************************)
(* Images for the model checker: all zeroes, and images that were used     *)
(* before, with the same old list in every data block.                     *)
(***************************************************************************)
EXTENDS FreeList

Everywhere(l) == [b \in Data |-> l]

Zeroes == {Everywhere(ZeroList)}

Old(n) ==
  Everywhere([nfree |-> n, free |-> [i \in 0 .. Cap - 1 |-> FirstData + i + 1]])

(* A full list, a shorter one, one that only links to another block, and   *)
(* one whose length is beyond the array.                                   *)
FullList == {Old(Cap)}
Used == FullList \union {Old(n) : n \in {1, 2, NFreeMax}}

Images == Zeroes \union Used
=============================================================================
