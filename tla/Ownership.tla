----------------------------- MODULE Ownership -------------------------------
(***************************************************************************)
(* What a pool of reference-counted blocks promises its users: a block is  *)
(* given to somebody only while nobody owns it; from then on owners may    *)
(* share it and give their own references back.                            *)
(***************************************************************************)
CONSTANTS Block, Thread

VARIABLE holder     \* the owners of every block

Init == holder = [b \in Block |-> {}]

Grant(b, owners) ==
  /\ holder[b] = {} /\ owners # {}
  /\ holder' = [holder EXCEPT ![b] = owners]

Share(b, t, u) ==
  /\ t \in holder[b]
  /\ holder' = [holder EXCEPT ![b] = @ \cup {u}]

GiveBack(b, t) ==
  /\ t \in holder[b]
  /\ holder' = [holder EXCEPT ![b] = @ \ {t}]

Next ==
  \E b \in Block :
    \/ \E owners \in SUBSET Thread : Grant(b, owners)
    \/ \E t, u \in Thread : Share(b, t, u)
    \/ \E t \in Thread : GiveBack(b, t)

Spec == Init /\ [][Next]_holder

=============================================================================
