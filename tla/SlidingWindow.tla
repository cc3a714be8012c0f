--------------------------- MODULE SlidingWindow ---------------------------
(***************************************************************************)
(* What an anti-replay window promises for one stream of sequence numbers, *)
(* whatever bitmap implements it: a number is delivered at most once, and  *)
(* never once the highest delivered number is WindowSize or more ahead of  *)
(* it.  count[q] is how often q was handed to the upper layer.             *)
(***************************************************************************)
EXTENDS Integers

CONSTANTS SeqNo,       \* the sequence numbers a sender uses
          WindowSize   \* 1024 in l0 and in l1

VARIABLE count

Init == count = [q \in SeqNo |-> 0]

Fresh(q) == \A r \in SeqNo : count[r] > 0 => r - q < WindowSize

Deliver(q) ==
    /\ count[q] = 0
    /\ Fresh(q)
    /\ count' = [count EXCEPT ![q] = 1]

Next == \E q \in SeqNo : Deliver(q)

Spec == Init /\ [][Next]_count
=============================================================================
