----------------------------- MODULE FrameFIFO -----------------------------
(***************************************************************************)
(* What the write side of a connection promises its producers: items reach *)
(* the wire in the order they were handed in, each exactly once, and the   *)
(* callbacks of an item run in that order too, each once and only after    *)
(* the item was written, unless the connection is broken.                  *)
(***************************************************************************)
EXTENDS Naturals

VARIABLES
  handed,    \* items handed in so far: items 1 .. handed
  written,   \* items on the wire
  released,  \* items whose callbacks have run
  broken     \* a write has failed

Init == handed = 0 /\ written = 0 /\ released = 0 /\ broken = FALSE

HandIn == handed' = handed + 1 /\ UNCHANGED <<written, released, broken>>

Deliver ==
  /\ ~ broken /\ written < handed
  /\ written' = written + 1
  /\ UNCHANGED <<handed, released, broken>>

Break == broken' = TRUE /\ UNCHANGED <<handed, written, released>>

(* A batch of items is released at once.                                   *)
Release ==
  /\ released' \in released + 1 .. IF broken THEN handed ELSE written
  /\ UNCHANGED <<handed, written, broken>>

Next == HandIn \/ Deliver \/ Break \/ Release

Spec == Init /\ [][Next]_<<handed, written, released, broken>>
=============================================================================
