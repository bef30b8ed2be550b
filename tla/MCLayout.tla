------------------------------ MODULE MCLayout ------------------------------
(***************************************************************************)
(* Instances of Layout: runs of mkfs, on devices of some sizes.            *)
(***************************************************************************)
EXTENDS Layout

Mkfs(device, blocks, inodes, bootable) ==
  [device |-> device, blocks |-> blocks, inodes |-> inodes, bootable |-> bootable]

(* Sizes from the device and from the argument, inode counts from the size *)
(* and from the argument, on both sides of Large and of Wrap: volumes that *)
(* fit and ones that do not, with no block at all, without an inode block, *)
(* with more inodes than blocks, with more blocks than Wrap.               *)
All ==
  {Mkfs(d, -1, i, t) : d \in 0 .. Wrap + 3, i \in {-1, 1, 2, 11, 60}, t \in BOOLEAN}
    \union {Mkfs(8, b, i, t) : b \in {0, 6, 24, Wrap + 1}, i \in {-1, 2, 60}, t \in BOOLEAN}

(* Volumes of the usual sizes.                                             *)
Usual == {Mkfs(d, -1, -1, FALSE) : d \in 10 .. 20}

(* No inode block at all: five to twenty blocks in the code.               *)
Small == {Mkfs(d, -1, -1, FALSE) : d \in {5}}

(* More blocks than Wrap.                                                  *)
Big == {Mkfs(d, -1, -1, FALSE) : d \in {Wrap + 1, Wrap + 2, Wrap + 5}}

(* More inodes than the volume has blocks for.                             *)
Crowded == {Mkfs(12, -1, i, FALSE) : i \in {30}}
=============================================================================
