------------------------------- MODULE Recent -------------------------------
(***************************************************************************)
(* What every bounded record of the past in mini_fs promises: it lists the *)
(* last N things that happened, oldest first, and can be emptied.          *)
(***************************************************************************)
EXTENDS Integers, Sequences

CONSTANTS
  Item, \* what is recorded
  N     \* how many of the last items are kept, at least one

VARIABLE kept \* the last items, oldest first

Init == kept = <<>>

\* The oldest item makes room when there are N.
Add(x) ==
  kept' = IF Len(kept) < N THEN Append(kept, x) ELSE Append(Tail(kept), x)

Clear == kept' = <<>>

Next == Clear \/ \E x \in Item : Add(x)

Spec == Init /\ [][Next]_kept
=============================================================================
