------------------------------ MODULE MCLockHeld ------------------------------
(* Values for the constants of LockHeld. *)
EXTENDS LockHeld

CONSTANT m1

(* A freed element may read as a lock the function never names, split at an*)
(* if of a depth it never reaches.                                         *)
LeftoverField == {[hash |-> 8, depth |-> 3]}

HashOne == [l \in {m1} |-> 7]
=============================================================================
