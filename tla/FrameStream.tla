----------------------------- MODULE FrameStream -----------------------------
(***************************************************************************)
(* What the pipeline promises: the frames are numbered in the order they   *)
(* are captured, every consumer is handed each of them once and in that    *)
(* order, and no consumer is more than Capacity frames behind.  Numbers    *)
(* are modulo Modulus, so that a lag can be told from its remainder.       *)
(***************************************************************************)
EXTENDS Integers

CONSTANTS
  Consumer,
  Capacity,   \* positive
  Modulus     \* larger than Capacity

VARIABLES
  produced,   \* the number of the next frame to be captured
  taken       \* the number of the next frame each consumer is handed

vars == <<produced, taken>>

Lag(c) == (produced - taken[c]) % Modulus

Init ==
  /\ produced = 0
  /\ taken = [c \in Consumer |-> 0]

Produce ==
  /\ \A c \in Consumer : Lag(c) < Capacity
  /\ produced' = (produced + 1) % Modulus
  /\ UNCHANGED taken

Take(c) ==
  /\ Lag(c) > 0
  /\ taken' = [taken EXCEPT ![c] = (@ + 1) % Modulus]
  /\ UNCHANGED produced

Next == Produce \/ \E c \in Consumer : Take(c)

Spec == Init /\ [][Next]_vars

=============================================================================
