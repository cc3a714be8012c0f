---------------------------- MODULE RouterMetrics ----------------------------
(* The arithmetic of the router: rings of the XOR distance (src/src/pkg/l1/    *)
(* routing_rings.go), health and cost (routing_metrics.go), and what a lookup  *)
(* makes of an index of peers (routing.go). No state of its own.               *)
(*                                                                             *)
(* Keys are sets of one bits. Latencies are in tenths of a millisecond and     *)
(* scores in hundredths of a point, so that all costs are whole numbers. An    *)
(* index maps DIDs to [addr, lat, score, health].                              *)
EXTENDS Integers, FiniteSets, FiniteSetsExt

CONSTANTS
    KeyOf,          \* public key of every DID
    KeyBits,        \* 256 in the code
    NumRings,
    Alpha,          \* weight of the latency in percent (35 in the code)
    Addresses

DIDs == DOMAIN KeyOf

MetricsAssumption ==
    /\ NumRings \in Nat \ {0} /\ KeyBits \in Nat \ {0} /\ Alpha \in 0 .. 100
    /\ KeyOf \in [DIDs -> SUBSET (0 .. (KeyBits - 1))] /\ Addresses # {}

ASSUME MetricsAssumption

Rings == 0 .. (NumRings - 1)

Usable == {"Healthy", "Degraded", "Unstable"}
HealthStates == Usable \cup {"Unreachable", "Quarantined"}

Scores == 0 .. 10000

PeerNodes ==
    [addr : Addresses, lat : Nat, score : Scores, health : HealthStates]

Least(a, b) == IF a < b THEN a ELSE b

\* XORKeyDistanceN: the position of the highest differing bit, spread over the rings.
RingBetween(k1, k2) ==
    LET xor  == (k1 \ k2) \cup (k2 \ k1)
        bits == IF xor = {} THEN 0 ELSE Max(xor) + 1
        each == IF KeyBits < NumRings THEN 1 ELSE KeyBits \div NumRings
    IN  Least(bits \div each, NumRings - 1)

\* CalculateHealthScore: pacing and loss in percent, jitter in milliseconds.
HealthScore(m) ==
    30 * m.pacing + (3000 - Least(3000, 60 * m.jitter)) + (4000 - Least(4000, 40 * m.loss))

HealthState(m) ==
    LET s == HealthScore(m) IN
    IF s < 2500 \/ m.loss >= 40 THEN "Unreachable"
    ELSE IF s < 5000 \/ m.loss >= 20 \/ m.jitter > 60 THEN "Unstable"
    ELSE IF s < 7500 \/ m.loss >= 5 \/ m.jitter > 25 THEN "Degraded"
    ELSE "Healthy"

\* CalculateHybridCost, multiplied by 250000 * NumRings.
HybridCost(t, d, dest) ==
    (100 - Alpha) * 2500 * RingBetween(KeyOf[d], KeyOf[dest])
      + Alpha * NumRings * Least(t[d].lat, 2500)
      - 5 * NumRings * t[d].score

NewPeer(a, l) == [addr |-> a, lat |-> l, score |-> 10000, health |-> "Healthy"]

\* What AddOrUpdatePeer makes of an index when nobody has to leave.
Noted(t, d, a, l) ==
    IF d \in DOMAIN t
    THEN [t EXCEPT ![d] = [@ EXCEPT !.addr = a, !.lat = l]]
    ELSE [e \in DOMAIN t \cup {d} |-> IF e = d THEN NewPeer(a, l) ELSE t[e]]

Without(t, d) == [e \in DOMAIN t \ {d} |-> t[e]]

\* FindBestPeerCandidate on an index t: the walk over the map is in no order, so any of the
\* cheapest may win. Peers out of reach are a last resort.
BestCandidates(t, dest) ==
    LET usable == {p \in DOMAIN t : t[p].health \in Usable}
    IN  IF usable # {}
        THEN {p \in usable : \A q \in usable : HybridCost(t, p, dest) <= HybridCost(t, q, dest)}
        ELSE {p \in DOMAIN t : \A q \in DOMAIN t : t[q].score <= t[p].score}

\* FindNextHop; the empty set stands for the error.
NextHops(t, dest) ==
    IF dest \in DOMAIN t /\ t[dest].health = "Healthy" THEN {dest} ELSE BestCandidates(t, dest)
==============================================================================
