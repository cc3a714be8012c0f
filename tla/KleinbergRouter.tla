--------------------------- MODULE KleinbergRouter ---------------------------
(* The peer table of a node: src/src/pkg/l1/routing.go.                        *)
(*                                                                             *)
(* Every method holds the lock from its first to its last access, so a method  *)
(* is one action. A peer is one object, reached through the index and through  *)
(* its ring: rings hold DIDs, and peers (the index) holds the object.          *)
EXTENDS RouterMetrics, Sequences, SequencesExt

CONSTANTS
    Peers,          \* DIDs of other nodes
    LocalDID,
    PeersPerRing,
    MaxTotalPeers,
    Homes           \* bound of the model: the addresses each peer may be heard from

RouterAssumption ==
    /\ Peers \subseteq DIDs /\ LocalDID \in DIDs \ Peers /\ IsFiniteSet(Peers)
    /\ PeersPerRing \in Nat \ {0} /\ MaxTotalPeers \in Nat \ {0}
    /\ Homes \in [Peers -> SUBSET Addresses]

ASSUME RouterAssumption

VARIABLES
    rings,      \* ring -> sequence of DIDs, in order of arrival
    peers       \* peerIndex: DID -> [addr, lat, score, health]

routerVars == <<rings, peers>>

RouterTypeOK ==
    /\ rings \in [Rings -> Seq(Peers)]
    /\ DOMAIN peers \subseteq Peers
    /\ \A d \in DOMAIN peers : peers[d] \in PeerNodes

\* The peers that are ever heard from.
Contacts == {d \in Peers : Homes[d] # {}}

RingOf(d) == RingBetween(KeyOf[LocalDID], KeyOf[d])

RouterInit ==
    /\ rings = [i \in Rings |-> <<>>]
    /\ peers = [d \in {} |-> {}]

(***************************************************************************)
(* Who has to leave.                                                       *)
(***************************************************************************)

\* Position in a full ring of the peer that gives way, 0 if none does: the first that is
\* out of reach, else the first unstable one, else the slowest if the newcomer is faster.
\* Mutant: the slowest peer is looked for first.
VictimByLatency(i, l) ==
    LET slowest == SelectInSeq(rings[i], LAMBDA p :
                       \A q \in DOMAIN rings[i] : peers[rings[i][q]].lat <= peers[p].lat)
        dead == SelectInSeq(rings[i], LAMBDA p : peers[p].health \notin Usable)
    IN  IF l < peers[rings[i][slowest]].lat THEN slowest ELSE dead

Victim(i, l) ==
    LET dead     == SelectInSeq(rings[i], LAMBDA p : peers[p].health \notin Usable)
        unstable == SelectInSeq(rings[i], LAMBDA p : peers[p].health = "Unstable")
        slowest  == SelectInSeq(rings[i], LAMBDA p :
                        \A q \in DOMAIN rings[i] : peers[rings[i][q]].lat <= peers[p].lat)
    IN  IF dead # 0 THEN dead
        ELSE IF unstable # 0 THEN unstable
        ELSE IF l < peers[rings[i][slowest]].lat THEN slowest ELSE 0

\* The peers a full table may lose, as <<ring, position>>: never the only one of its ring.
Spare == {s \in Rings \X (1 .. PeersPerRing) :
              Len(rings[s[1]]) > 1 /\ s[2] <= Len(rings[s[1]])}

Merit(s) == peers[rings[s[1]][s[2]]].score - peers[rings[s[1]][s[2]]].lat

\* The one of least merit, the first met when the rings are walked in order.
WorstSpare ==
    CHOOSE s \in Spare :
        \A t \in Spare : \/ Merit(s) < Merit(t)
                         \/ Merit(s) = Merit(t) /\ s[1] < t[1]
                         \/ Merit(s) = Merit(t) /\ s[1] = t[1] /\ s[2] <= t[2]

(***************************************************************************)
(* AddOrUpdatePeer(did, addr, latencyMs), case by case.                    *)
(***************************************************************************)
RingFull(i) == Len(rings[i]) >= PeersPerRing

UpdateLocator(d, a, l) ==
    /\ d \in DOMAIN peers
    /\ peers' = Noted(peers, d, a, l)
    /\ UNCHANGED rings

\* The newcomer takes the place of another peer of its ring.
ReplaceInRing(d, a, l) ==
    LET i == RingOf(d)
        v == Victim(i, l)
    IN  /\ d \notin DOMAIN peers /\ RingFull(i) /\ v # 0
        /\ peers' = Noted(Without(peers, rings[i][v]), d, a, l)
        /\ rings' = [rings EXCEPT ![i][v] = d]

TurnAway(d, l) ==
    /\ d \notin DOMAIN peers /\ RingFull(RingOf(d)) /\ Victim(RingOf(d), l) = 0
    /\ UNCHANGED routerVars

AtCapacity == Cardinality(DOMAIN peers) >= MaxTotalPeers

\* The newcomer is appended; a table at its limit loses a peer first, if it can spare one.
Admit(d, a, l) ==
    LET i == RingOf(d)
        w == WorstSpare
        drop == AtCapacity /\ Spare # {}
        kept == IF drop THEN [rings EXCEPT ![w[1]] = RemoveAt(@, w[2])] ELSE rings
    IN  /\ d \notin DOMAIN peers /\ ~RingFull(i)
        /\ peers' = Noted(IF drop THEN Without(peers, rings[w[1]][w[2]]) ELSE peers, d, a, l)
        /\ rings' = [kept EXCEPT ![i] = Append(@, d)]

AddOrUpdatePeer(d, a, l) ==
    \/ UpdateLocator(d, a, l)
    \/ ReplaceInRing(d, a, l)
    \/ TurnAway(d, l)
    \/ Admit(d, a, l)

(***************************************************************************)
(* The other methods.                                                      *)
(***************************************************************************)
UpdatePeerHealth(d, m) ==
    /\ d \in DOMAIN peers
    /\ peers' = [peers EXCEPT ![d] = [@ EXCEPT !.score = HealthScore(m), !.health = HealthState(m)]]
    /\ UNCHANGED rings

\* Mutant: the peer leaves the index and stays in its ring.
RemoveFromIndex(d) ==
    /\ d \in DOMAIN peers
    /\ peers' = Without(peers, d)
    /\ UNCHANGED rings

\* The ring is rebuilt without the DID, which it holds once (RingsConsistent).
RemovePeer(d) ==
    /\ d \in DOMAIN peers
    /\ peers' = Without(peers, d)
    /\ rings' = [rings EXCEPT ![RingOf(d)] = RemoveFirst(@, d)]

(***************************************************************************)
(* Properties.                                                             *)
(***************************************************************************)

\* The index and the rings hold the same peers, each once and in the ring of its key, and no
\* ring outgrows its size, whatever was evicted or removed on the way (routing.go:96-299).
RingsConsistent ==
    /\ \A i \in Rings : Len(rings[i]) <= PeersPerRing /\ IsInjective(rings[i])
    /\ \A i \in Rings : \A k \in DOMAIN rings[i] :
           rings[i][k] \in DOMAIN peers /\ RingOf(rings[i][k]) = i
    /\ \A d \in DOMAIN peers : \E k \in DOMAIN rings[RingOf(d)] : rings[RingOf(d)][k] = d

\* MaxTotalPeers is a soft limit (routing.go:180-206): when no ring can spare a peer the
\* newcomer is admitted all the same. How far the table can then grow past it: never beyond
\* one peer per ring and one more.
CapBounded ==
    \/ Cardinality(DOMAIN peers) <= MaxTotalPeers
    \/ Cardinality(DOMAIN peers) <= NumRings + 1

GivesWayRightly ==
    \A i \in Rings : \A d \in DOMAIN peers :
        /\ RingFull(i) /\ Len(rings'[i]) = Len(rings[i])
        /\ RingOf(d) = i /\ d \notin DOMAIN peers' /\ peers[d].health \in {"Healthy", "Degraded"}
        => /\ \A k \in DOMAIN rings[i] : peers[rings[i][k]].health \in {"Healthy", "Degraded"}
           /\ \E e \in DOMAIN peers' \ DOMAIN peers : peers'[e].lat < peers[d].lat

\* A peer of good standing gives its place in a full ring only to a faster one, and only
\* when no other peer of the ring was unstable or out of reach (routing.go:121-177).
GoodPeersYieldLast == [][GivesWayRightly]_routerVars
==============================================================================
