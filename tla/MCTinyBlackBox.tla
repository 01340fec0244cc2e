--------------------------- MODULE MCTinyBlackBox ----------------------------
(* TinyBlackBox on small instances; the blocks are interchangeable.        *)
EXTENDS TinyBlackBox, TLC

Symmetry == Permutations(Block)

=============================================================================
