---------------------------- MODULE MCFramePool ----------------------------
(* FramePool on a small instance; threads and blocks are interchangeable.  *)
EXTENDS FramePool, TLC

Symmetry == Permutations(Block) \cup Permutations(Thread)

=============================================================================
