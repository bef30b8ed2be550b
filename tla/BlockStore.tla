----------------------------- MODULE BlockStore -----------------------------
(***************************************************************************)
(* What libfs/bio promises to the code above it: one content per block,    *)
(* which every holder of the block sees, which only a holder changes, and  *)
(* which reaches the device when a holder writes it and only then.         *)
(***************************************************************************)
CONSTANTS Block, Content, Blank

VARIABLES content,    \* what a holder of the block sees
          durable,    \* what a new process would see
          open        \* the blocks that have a holder

vars == <<content, durable, open>>

Init ==
  /\ durable = [b \in Block |-> Blank]
  /\ content = durable
  /\ open = {}

Open(b) ==
  /\ open' = open \union {b}
  /\ UNCHANGED <<content, durable>>

Close(b) ==
  /\ open' = open \ {b}
  /\ UNCHANGED <<content, durable>>

Change(b, c) ==
  /\ b \in open
  /\ content' = [content EXCEPT ![b] = c]
  /\ UNCHANGED <<durable, open>>

Write(b) ==
  /\ b \in open
  /\ durable' = [durable EXCEPT ![b] = content[b]]
  /\ UNCHANGED <<content, open>>

Crash ==
  /\ content' = durable
  /\ open' = {}
  /\ UNCHANGED durable

Next ==
  \/ \E b \in Block :
       \/ Open(b) \/ Close(b) \/ Write(b)
       \/ \E c \in Content : Change(b, c)
  \/ Crash

Spec == Init /\ [][Next]_vars
=============================================================================
