----------------------------- MODULE FreeBlocks -----------------------------
(* What PayloadQueue takes its list of free blocks for: a set.  A block is *)
(* put on the list when it is not free, and is free for one thread to take *)
(* from then on, once.  Nothing is said of when a block that is free is    *)
(* found: the list may seem empty while others work on it.                 *)

CONSTANT Blocks
VARIABLE free

Init == free = {}

Put(b) == b \in Blocks \ free /\ free' = free \cup {b}

Take(b) == b \in free /\ free' = free \ {b}

Next == \E b \in Blocks : Put(b) \/ Take(b)

Spec == Init /\ [][Next]_free
=============================================================================
