--------------------------- MODULE MCBoundedQueue ----------------------------
(* BoundedQueue on a small instance; threads and items are interchangeable. *)
EXTENDS BoundedQueue, TLC

Symmetry == Permutations(Thread) \cup Permutations(Item)

=============================================================================
