---------------------------- MODULE PacketQueue ----------------------------
(***************************************************************************)
(* What gathering packets into batches promises, whoever gathers and       *)
(* whoever hands over: packets are numbered as they are accepted, and the  *)
(* handler sees them in lots of at most MaxBatch consecutive numbers, each *)
(* packet once.  A lot may overtake another.  Once the queue is closed it  *)
(* accepts nothing, and stays closed; what it has accepted may still be    *)
(* handed over.                                                            *)
(***************************************************************************)
EXTENDS Integers, Sequences

CONSTANT MaxBatch

VARIABLES accepted,   \* packets accepted so far
          seen,       \* the packets the handler has seen, in that order
          open

queueVars == <<accepted, seen, open>>

Lot(lo, n) == [i \in 1 .. n |-> lo + i - 1]

Init == accepted = 0 /\ seen = <<>> /\ open = TRUE

Accept ==
    /\ open
    /\ accepted' = accepted + 1
    /\ UNCHANGED <<seen, open>>

HandOver(lo, n) ==
    /\ lo + n - 1 <= accepted
    /\ \A i \in DOMAIN seen : seen[i] \notin lo .. lo + n - 1
    /\ seen' = seen \o Lot(lo, n)
    /\ UNCHANGED <<accepted, open>>

Close ==
    /\ open /\ open' = FALSE
    /\ UNCHANGED <<accepted, seen>>

Next ==
    \/ Accept
    \/ Close
    \/ \E lo \in 1 .. accepted, n \in 1 .. MaxBatch : HandOver(lo, n)

Spec == Init /\ [][Next]_queueVars
=============================================================================
