------------------------------ MODULE Namespace ------------------------------
(***************************************************************************)
(* What the tools promise about the root directory: an entry appears in    *)
(* one step, complete, after the entries that are there, whichever block   *)
(* write the tool is interrupted at; an entry never changes, and only      *)
(* formatting removes it.                                                  *)
(***************************************************************************)
EXTENDS Sequences

CONSTANT Complete      \* the entries that are complete

VARIABLE entries       \* the root directory, without "." and ".."

Init == entries = <<>>

Add(e) == entries' = Append(entries, e)

Format == entries' = <<>>

Next == Format \/ \E e \in Complete : Add(e)

Spec == Init /\ [][Next]_entries
=============================================================================
