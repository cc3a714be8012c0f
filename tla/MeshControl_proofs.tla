-------------------------- MODULE MeshControl_proofs --------------------------
(***************************************************************************)
(* For any number of peers, rings, beacons, probes and packets: the peer   *)
(* table and its rings agree and stay within their bounds, a beacon gives  *)
(* no access, the rendezvous keeps nothing once it is silent, a link that  *)
(* flaps waits out its hold-down, prober and healer count the same losses, *)
(* and the addresses learnt from relayed packets can be followed.          *)
(*                                                                         *)
(* Each part has an inductive invariant of its own; the steps of the other *)
(* parts leave it alone.                                                   *)
(***************************************************************************)
EXTENDS MCMeshControl, FiniteSetTheorems, NaturalsInduction, SequenceTheorems, TLAPS

-----------------------------------------------------------------------------
(* The peer table. *)

LEMMA LeastNatural ==
    ASSUME NEW T \in SUBSET Nat, T # {}
    PROVE  \E m \in T : \A k \in T : m <= k
<1> DEFINE R == {p \in Nat \X Nat : p[1] < p[2]}
<1>1. IsWellFoundedOn(R, Nat)
    BY NatLessThanWellFounded DEF OpToRel
<1>2. \A j, k \in Nat : j < k => <<j, k>> \in R
    OBVIOUS
<1> HIDE DEF R
<1>3. PICK m \in T : \A k \in T : ~(<<k, m>> \in R)
    BY <1>1, WFMin
<1>4. \A k \in T : k \in Nat /\ m \in Nat /\ ~(k < m)
    BY <1>2, <1>3
<1> QED
    BY <1>4

LEMMA FirstPlace ==
    ASSUME NEW T \in SUBSET Nat, T # {}
    PROVE  Min(T) \in T /\ \A k \in T : Min(T) <= k
BY LeastNatural DEF Min

LEMMA HighestBit ==
    ASSUME NEW n \in Nat, NEW T \in SUBSET (0 .. n), T # {}
    PROVE  Max(T) \in T
<1>1. PICK m \in {n - x : x \in T} : \A k \in {n - x : x \in T} : m <= k
  <2> DEFINE D == {n - x : x \in T}
  <2>1. D \in SUBSET Nat /\ D # {}
    <3>1. \A x \in T : x \in Int /\ 0 <= x /\ x <= n
        OBVIOUS
    <3>2. \A x \in T : n - x \in Nat
        BY <3>1
    <3> QED
        BY <3>2
  <2> HIDE DEF D
  <2>2. \E m \in D : \A k \in D : m <= k
    BY <2>1, LeastNatural
  <2> QED
    BY <2>2 DEF D
<1>2. PICK x \in T : \A y \in T : x >= y
    BY <1>1
<1> QED
    BY <1>2 DEF Max

\* Every peer has a ring.
LEMMA RingOfType == ASSUME NEW d \in Peers PROVE RingOf(d) \in Rings
<1> DEFINE k1 == KeyOf[LocalDID]
           k2 == KeyOf[d]
           xor == (k1 \ k2) \cup (k2 \ k1)
           bits == IF xor = {} THEN 0 ELSE Max(xor) + 1
           each == IF KeyBits < NumRings THEN 1 ELSE KeyBits \div NumRings
<1>1. NumRings \in Nat \ {0} /\ KeyBits \in Nat \ {0} /\ xor \in SUBSET (0 .. KeyBits - 1)
      /\ \A b \in xor : b \in Nat
    BY MetricsAssumption, RouterAssumption DEF MetricsAssumption, RouterAssumption
<1>2. bits \in Nat
  <2>1. KeyBits - 1 \in Nat
    BY <1>1
  <2> HIDE DEF xor
  <2>2. CASE xor # {}
    <3>1. Max(xor) \in xor
        BY <1>1, <2>1, <2>2, HighestBit
    <3>2. Max(xor) \in Nat
        BY <1>1, <3>1
    <3> QED
        BY <3>2
  <2> QED
    BY <2>2
<1>3. each \in Nat \ {0}
  <2>1. CASE KeyBits < NumRings
    BY <2>1
  <2>2. CASE KeyBits >= NumRings
    BY <1>1, <2>2
  <2> QED
    BY <1>1, <2>1, <2>2
<1>4. RingOf(d) = Least(bits \div each, NumRings - 1)
    BY DEF RingOf, RingBetween
<1> HIDE DEF bits, each
<1>5. bits \div each \in Nat
    BY <1>2, <1>3
<1> QED
    BY <1>1, <1>4, <1>5 DEF Least, Rings

IsIndex(t) == \A e \in DOMAIN t : t[e] \in PeerNodes

\* Index u is t after d was heard of at a, which took l.
NotedIn(u, t, d, a, l) ==
    /\ DOMAIN u = DOMAIN t \cup {d} /\ IsIndex(u)
    /\ \A e \in DOMAIN t \ {d} : u[e] = t[e]
    /\ u[d].addr = a /\ u[d].lat = l

LEMMA NotedEffect ==
    ASSUME NEW t, IsIndex(t), NEW d, NEW a \in Addresses, NEW l \in Nat
    PROVE  NotedIn(Noted(t, d, a, l), t, d, a, l)
<1>1. CASE d \in DOMAIN t
  <2>0. PICK p \in PeerNodes : p = t[d]
    BY <1>1 DEF IsIndex
  <2> DEFINE r == [p EXCEPT !.addr = a, !.lat = l]
  <2>1. r \in PeerNodes /\ r.addr = a /\ r.lat = l
    BY <2>0 DEF PeerNodes
  <2>2. Noted(t, d, a, l) = [t EXCEPT ![d] = r]
    BY <1>1, <2>0 DEF Noted
  <2> HIDE DEF r
  <2> QED
    BY <1>1, <2>1, <2>2 DEF NotedIn, IsIndex
<1>2. CASE d \notin DOMAIN t
  <2>1. /\ NewPeer(a, l) \in PeerNodes
        /\ NewPeer(a, l).addr = a /\ NewPeer(a, l).lat = l
    BY DEF NewPeer, PeerNodes, Scores, HealthStates, Usable
  <2> QED
    BY <1>2, <2>1 DEF Noted, NotedIn, IsIndex
<1> QED
    BY <1>1, <1>2

\* One leaves, one enters or is heard of again.
LEMMA SwapEffect ==
    ASSUME NEW p, IsIndex(p), NEW x, NEW d, NEW a \in Addresses, NEW l \in Nat
    PROVE  NotedIn(Noted(Without(p, x), d, a, l), Without(p, x), d, a, l)
<1>1. IsIndex(Without(p, x))
    BY DEF Without, IsIndex
<1> QED
    BY <1>1, NotedEffect

LEMMA RemoveAtEffect ==
    ASSUME NEW S, NEW s \in Seq(S), NEW k \in 1 .. Len(s)
    PROVE  /\ RemoveAt(s, k) \in Seq(S) /\ Len(RemoveAt(s, k)) = Len(s) - 1
           /\ \A j \in 1 .. Len(s) - 1 :
                RemoveAt(s, k)[j] = IF j < k THEN s[j] ELSE s[j + 1]
<1> DEFINE p == SubSeq(s, 1, k - 1)
           q == SubSeq(s, k + 1, Len(s))
<1>1. p \in Seq(S) /\ Len(p) = k - 1 /\ \A j \in 1 .. k - 1 : p[j] = s[j]
    OBVIOUS
<1>2. q \in Seq(S) /\ Len(q) = Len(s) - k /\ \A j \in 1 .. Len(s) - k : q[j] = s[k + j]
    OBVIOUS
<1>3. RemoveAt(s, k) = p \o q /\ k \in Nat /\ Len(s) \in Nat /\ 1 <= k /\ k <= Len(s)
    BY DEF RemoveAt
<1> HIDE DEF p, q
<1>4. /\ p \o q \in Seq(S) /\ Len(p \o q) = Len(s) - 1
      /\ \A j \in 1 .. Len(s) - 1 : (p \o q)[j] = IF j < k THEN p[j] ELSE q[j - (k - 1)]
  <2>1. p \in Seq(S) /\ q \in Seq(S) /\ Len(p) = k - 1 /\ Len(q) = Len(s) - k
    BY <1>1, <1>2
  <2>2. /\ p \o q \in Seq(S) /\ Len(p \o q) = Len(p) + Len(q)
        /\ \A j \in 1 .. Len(p) + Len(q) :
             (p \o q)[j] = IF j <= Len(p) THEN p[j] ELSE q[j - Len(p)]
    BY <2>1, ConcatProperties
  <2>3. Len(p) + Len(q) = Len(s) - 1
    BY <2>1, <1>3
  <2>4. \A j \in 1 .. Len(s) - 1 : (j <= Len(p)) = (j < k) /\ j - Len(p) = j - (k - 1)
    BY <2>1, <1>3
  <2> QED
    BY <2>2, <2>3, <2>4
<1>5. \A j \in 1 .. Len(s) - 1 : (p \o q)[j] = IF j < k THEN s[j] ELSE s[j + 1]
  <2> SUFFICES ASSUME NEW j \in 1 .. Len(s) - 1
               PROVE  (p \o q)[j] = IF j < k THEN s[j] ELSE s[j + 1]
    OBVIOUS
  <2>1. CASE j < k
    BY <1>1, <1>3, <1>4, <2>1
  <2>2. CASE j >= k
    <3>1. j - (k - 1) \in 1 .. Len(s) - k /\ k + (j - (k - 1)) = j + 1
        BY <1>3, <2>2
    <3> QED
        BY <1>2, <1>3, <1>4, <2>2, <3>1
  <2>3. j < k \/ j >= k
    BY <1>3
  <2> QED
    BY <2>1, <2>2, <2>3
<1> HIDE DEF RemoveAt
<1>6. /\ RemoveAt(s, k) \in Seq(S)
      /\ Len(RemoveAt(s, k)) = Len(s) - 1
    BY <1>3, <1>4
<1>7. \A j \in 1 .. Len(s) - 1 : RemoveAt(s, k)[j] = IF j < k THEN s[j] ELSE s[j + 1]
    BY <1>3, <1>5
<1> QED
    BY <1>6, <1>7

\* What RingsConsistent says of ring i, whose peers are s, and an index of the DIDs dom.
RingHolds(s, i, dom) ==
    /\ s \in Seq(Peers) /\ Len(s) <= PeersPerRing
    /\ \A j, k \in 1 .. Len(s) : s[j] = s[k] => j = k
    /\ \A k \in 1 .. Len(s) : s[k] \in dom /\ RingOf(s[k]) = i
    /\ \A d \in dom : RingOf(d) = i => \E k \in 1 .. Len(s) : s[k] = d

LEMMA RingsHold ==
    RouterTypeOK => (RingsConsistent <=> \A i \in Rings : RingHolds(rings[i], i, DOMAIN peers))
<1> SUFFICES ASSUME RouterTypeOK
             PROVE  RingsConsistent <=> \A i \in Rings : RingHolds(rings[i], i, DOMAIN peers)
    OBVIOUS
<1>1. /\ rings \in [Rings -> Seq(Peers)] /\ DOMAIN peers \subseteq Peers
      /\ \A i \in Rings : rings[i] \in Seq(Peers) /\ DOMAIN rings[i] = 1 .. Len(rings[i])
    BY DEF RouterTypeOK
<1>2. \A d \in DOMAIN peers : RingOf(d) \in Rings
    BY <1>1, RingOfType
<1> QED
    BY <1>1, <1>2 DEF RingsConsistent, RingHolds, IsInjective

LEMMA RingReplaced ==
    ASSUME NEW i \in Rings, NEW dom, NEW s, RingHolds(s, i, dom), NEW v \in 1 .. Len(s),
           NEW d \in Peers, d \notin dom, RingOf(d) = i
    PROVE  RingHolds([s EXCEPT ![v] = d], i, (dom \ {s[v]}) \cup {d})
<1>1. /\ [s EXCEPT ![v] = d] \in Seq(Peers) /\ Len([s EXCEPT ![v] = d]) = Len(s)
      /\ \A k \in 1 .. Len(s) : [s EXCEPT ![v] = d][k] = IF k = v THEN d ELSE s[k]
    BY DEF RingHolds
<1> QED
    BY <1>1 DEF RingHolds

LEMMA RingExtended ==
    ASSUME NEW i \in Rings, NEW dom, NEW s, RingHolds(s, i, dom), Len(s) < PeersPerRing,
           NEW d \in Peers, d \notin dom, RingOf(d) = i
    PROVE  RingHolds(Append(s, d), i, dom \cup {d})
<1>1. /\ Append(s, d) \in Seq(Peers) /\ Len(Append(s, d)) = Len(s) + 1 /\ Len(s) \in Nat
      /\ \A k \in 1 .. Len(s) + 1 : Append(s, d)[k] = IF k = Len(s) + 1 THEN d ELSE s[k]
    BY DEF RingHolds
<1>2. PeersPerRing \in Nat
    BY RouterAssumption DEF RouterAssumption
<1> QED
    BY <1>1, <1>2 DEF RingHolds

LEMMA RingShortened ==
    ASSUME NEW i \in Rings, NEW dom, NEW s, RingHolds(s, i, dom), NEW k \in 1 .. Len(s)
    PROVE  RingHolds(RemoveAt(s, k), i, dom \ {s[k]})
<1> DEFINE r == RemoveAt(s, k)
<1>1. /\ r \in Seq(Peers) /\ Len(r) = Len(s) - 1
      /\ \A j \in 1 .. Len(s) - 1 : r[j] = IF j < k THEN s[j] ELSE s[j + 1]
    BY RemoveAtEffect DEF RingHolds
<1>2. PeersPerRing \in Nat /\ Len(s) \in Nat
    BY RouterAssumption DEF RouterAssumption, RingHolds
<1>a. /\ \A j, q \in 1 .. Len(s) : s[j] = s[q] => j = q
      /\ \A j \in 1 .. Len(s) : s[j] \in dom /\ RingOf(s[j]) = i
    BY DEF RingHolds
<1> HIDE DEF r
<1>3. \A j \in 1 .. Len(s) : j # k => \E q \in 1 .. Len(r) : r[q] = s[j]
  <2> SUFFICES ASSUME NEW j \in 1 .. Len(s), j # k PROVE \E q \in 1 .. Len(r) : r[q] = s[j]
    OBVIOUS
  <2>1. CASE j < k
    BY <1>1, <1>2, <2>1
  <2>2. CASE j > k
    <3>1. j - 1 \in 1 .. Len(r) /\ r[j - 1] = s[j]
        BY <1>1, <1>2, <2>2
    <3> QED
        BY <3>1
  <2> QED
    BY <2>1, <2>2
<1>4. \A j \in 1 .. Len(r) : r[j] # s[k] /\ r[j] \in dom /\ RingOf(r[j]) = i
    BY <1>1, <1>2, <1>a
<1>5. \A j, q \in 1 .. Len(r) : r[j] = r[q] => j = q
    BY <1>1, <1>2, <1>a
<1>6. \A d \in dom \ {s[k]} : RingOf(d) = i => \E q \in 1 .. Len(r) : r[q] = d
  <2> SUFFICES ASSUME NEW d \in dom \ {s[k]}, RingOf(d) = i
               PROVE  \E q \in 1 .. Len(r) : r[q] = d
    OBVIOUS
  <2>1. PICK j \in 1 .. Len(s) : s[j] = d
    BY DEF RingHolds
  <2> QED
    BY <1>3, <2>1
<1>7. Len(r) <= PeersPerRing
    BY <1>1, <1>2 DEF RingHolds
<1>8. RingHolds(r, i, dom \ {s[k]})
    BY <1>1, <1>4, <1>5, <1>6, <1>7 DEF RingHolds
<1> QED
    BY <1>8 DEF r

\* The ring of nobody who enters or leaves.
LEMMA RingUntouched ==
    ASSUME NEW i, NEW dom, NEW s, RingHolds(s, i, dom), NEW more, NEW gone,
           \A d \in more \cup gone : RingOf(d) # i
    PROVE  RingHolds(s, i, (dom \ gone) \cup more)
BY DEF RingHolds

\* The order in which a full table chooses whom to lose.
NoBetter(s, t) ==
    \/ Merit(s) < Merit(t)
    \/ Merit(s) = Merit(t) /\ s[1] < t[1]
    \/ Merit(s) = Merit(t) /\ s[1] = t[1] /\ s[2] <= t[2]

LEMMA SpareParts ==
    ASSUME RouterTypeOK, RingsConsistent, NEW s \in Spare
    PROVE  /\ s[1] \in Rings /\ s[2] \in 1 .. Len(rings[s[1]]) /\ Len(rings[s[1]]) > 1
           /\ s[1] \in Int /\ s[2] \in Int /\ Merit(s) \in Int
<1>1. /\ s[1] \in Rings /\ s[2] \in 1 .. PeersPerRing
      /\ Len(rings[s[1]]) > 1 /\ s[2] <= Len(rings[s[1]])
    BY DEF Spare
<1>2. rings[s[1]] \in Seq(Peers) /\ PeersPerRing \in Nat /\ NumRings \in Nat
    BY <1>1, RouterAssumption, MetricsAssumption
    DEF RouterTypeOK, RouterAssumption, MetricsAssumption
<1>3. s[1] \in Int /\ s[2] \in 1 .. Len(rings[s[1]])
    BY <1>1, <1>2 DEF Rings
<1>4. rings[s[1]][s[2]] \in DOMAIN peers
    BY <1>1, <1>2, <1>3 DEF RingsConsistent
<1>5. PICK p \in PeerNodes : p = peers[rings[s[1]][s[2]]]
  <2>1. peers[rings[s[1]][s[2]]] \in PeerNodes
    BY <1>4 DEF RouterTypeOK
  <2> QED
    BY <2>1
<1>a. p.score \in Int /\ p.lat \in Int
  <2>1. p.score \in Scores /\ p.lat \in Nat
    BY DEF PeerNodes
  <2>2. \A x \in Scores : x \in Int
    BY DEF Scores
  <2> QED
    BY <2>1, <2>2
<1>6. Merit(s) \in Int
    BY <1>5, <1>a DEF Merit
<1> QED
    BY <1>1, <1>3, <1>6

\* A table that can spare a peer finds whom: the candidates are finitely many.
LEMMA WorstIsSpare ==
    ASSUME RouterTypeOK, RingsConsistent, Spare # {}
    PROVE  WorstSpare \in Spare
<1> DEFINE Lower(s) == {t \in Spare : ~NoBetter(s, t)}
           counts == {Cardinality(Lower(s)) : s \in Spare}
<1>1. IsFiniteSet(Spare)
  <2>1. NumRings - 1 \in Int /\ PeersPerRing \in Int
    BY RouterAssumption, MetricsAssumption DEF RouterAssumption, MetricsAssumption
  <2>2. IsFiniteSet(Rings) /\ IsFiniteSet(1 .. PeersPerRing)
    BY <2>1, FS_Interval DEF Rings
  <2>3. IsFiniteSet(Rings \X (1 .. PeersPerRing))
    BY <2>2, FS_Product
  <2>4. Spare \in SUBSET (Rings \X (1 .. PeersPerRing))
    BY DEF Spare
  <2> QED
    BY <2>3, <2>4, FS_Subset
<1>2. ASSUME NEW s \in Spare
      PROVE  IsFiniteSet(Lower(s)) /\ Cardinality(Lower(s)) \in Nat
    BY <1>1, FS_Subset, FS_CardinalityType
<1>3. PICK s \in Spare : \A t \in Spare : Cardinality(Lower(s)) <= Cardinality(Lower(t))
  <2>1. counts \in SUBSET Nat /\ counts # {}
    BY <1>2
  <2> HIDE DEF counts
  <2>2. \E m \in counts : \A k \in counts : m <= k
    BY <2>1, LeastNatural
  <2> QED
    BY <2>2 DEF counts
<1>4. \A t \in Spare : NoBetter(s, t)
  <2> SUFFICES ASSUME NEW t \in Spare, ~NoBetter(s, t) PROVE FALSE
    OBVIOUS
  <2>1. t \in Lower(s) /\ t \notin Lower(t)
    BY SpareParts DEF NoBetter
  <2>2. Lower(t) \in SUBSET Lower(s)
    <3> SUFFICES ASSUME NEW u \in Spare, ~NoBetter(t, u) PROVE ~NoBetter(s, u)
        OBVIOUS
    <3>1. /\ Merit(s) \in Int /\ Merit(t) \in Int /\ Merit(u) \in Int
          /\ s[1] \in Int /\ t[1] \in Int /\ u[1] \in Int
          /\ s[2] \in Int /\ t[2] \in Int /\ u[2] \in Int
        BY SpareParts
    <3> QED
        BY <3>1 DEF NoBetter
  <2> HIDE DEF Lower
  <2>3. Cardinality(Lower(t)) < Cardinality(Lower(s))
    BY <1>2, <2>1, <2>2, FS_Subset
  <2> QED
    BY <1>2, <1>3, <2>3
<1>5. WorstSpare = CHOOSE x \in Spare : \A t \in Spare : NoBetter(x, t)
    BY DEF WorstSpare, NoBetter
<1> QED
    BY <1>4, <1>5

\* A table that cannot spare a peer has at most one in every ring.
LEMMA NoSpareIsSmall ==
    ASSUME RouterTypeOK, RingsConsistent, Spare = {}
    PROVE  Cardinality(DOMAIN peers) <= NumRings
<1> DEFINE f == [d \in DOMAIN peers |-> RingOf(d)]
<1>0. /\ PeersPerRing \in Nat \ {0} /\ NumRings \in Nat /\ NumRings > 0
      /\ DOMAIN peers \subseteq Peers /\ \A i \in Rings : rings[i] \in Seq(Peers)
    BY RouterAssumption, MetricsAssumption
    DEF RouterTypeOK, RouterAssumption, MetricsAssumption
<1>1. \A i \in Rings : Len(rings[i]) \in Nat /\ Len(rings[i]) <= 1
  <2> SUFFICES ASSUME NEW i \in Rings, Len(rings[i]) > 1 PROVE FALSE
    BY <1>0
  <2>1. <<i, 1>> \in Spare
    BY <1>0 DEF Spare
  <2> QED
    BY <2>1
<1>2. \A d \in DOMAIN peers : RingOf(d) \in Rings
    BY <1>0, RingOfType
<1>3. f \in Injection(DOMAIN peers, Rings)
  <2>1. ASSUME NEW d \in DOMAIN peers, NEW e \in DOMAIN peers, RingOf(d) = RingOf(e) PROVE d = e
    <3> DEFINE s == rings[RingOf(d)]
    <3>1. s \in Seq(Peers) /\ Len(s) <= 1 /\ Len(s) \in Nat
        BY <1>0, <1>1, <1>2
    <3>2. \E j \in DOMAIN s : s[j] = d
        BY DEF RingsConsistent
    <3>3. \E k \in DOMAIN s : s[k] = e
        BY <2>1 DEF RingsConsistent
    <3> HIDE DEF s
    <3> QED
        BY <3>1, <3>2, <3>3
  <2> QED
    BY <1>2, <2>1 DEF Injection, IsInjective
<1>4. IsFiniteSet(Rings) /\ Cardinality(Rings) = NumRings
    BY <1>0, FS_Interval DEF Rings
<1> HIDE DEF f
<1> QED
    BY <1>3, <1>4, FS_Injection

\* Whom a full ring gives up, if anybody: a peer of good standing only if all are, and
\* only to a faster one.
LEMMA VictimSound ==
    ASSUME RouterTypeOK, RingsConsistent, NEW i \in Rings, NEW l \in Nat, Victim(i, l) # 0
    PROVE  LET v == Victim(i, l) IN
           /\ v \in 1 .. Len(rings[i])
           /\ peers[rings[i][v]].health \in {"Healthy", "Degraded"} =>
                /\ \A k \in 1 .. Len(rings[i]) : peers[rings[i][k]].health \in {"Healthy", "Degraded"}
                /\ l < peers[rings[i][v]].lat
<1> DEFINE Place == 1 .. Len(rings[i])
           D == {k \in Place : peers[rings[i][k]].health \notin Usable}
           U == {k \in Place : peers[rings[i][k]].health = "Unstable"}
           S == {k \in Place : \A q \in DOMAIN rings[i] :
                                 peers[rings[i][q]].lat <= peers[rings[i][k]].lat}
           v == Victim(i, l)
<1>1. rings[i] \in Seq(Peers) /\ Len(rings[i]) \in Nat /\ DOMAIN rings[i] = Place
    BY DEF RouterTypeOK
<1>2. D \in SUBSET Nat /\ U \in SUBSET Nat /\ S \in SUBSET Nat
    BY <1>1
<1>3. v = IF (IF D # {} THEN Min(D) ELSE 0) # 0 THEN (IF D # {} THEN Min(D) ELSE 0)
          ELSE IF (IF U # {} THEN Min(U) ELSE 0) # 0 THEN (IF U # {} THEN Min(U) ELSE 0)
          ELSE IF l < peers[rings[i][IF S # {} THEN Min(S) ELSE 0]].lat
               THEN (IF S # {} THEN Min(S) ELSE 0) ELSE 0
    BY DEF Victim, SelectInSeq
<1>4. /\ \A k \in D \cup U \cup S : k # 0 /\ k \in Place
      /\ \A k \in D : peers[rings[i][k]].health \notin Usable
      /\ \A k \in U : peers[rings[i][k]].health = "Unstable"
      /\ \A k \in Place : k \notin D => peers[rings[i][k]].health \in Usable
      /\ \A k \in Place : k \notin U => peers[rings[i][k]].health # "Unstable"
    BY <1>1
<1> HIDE DEF D, U, S, v, Place
<1>5. CASE D # {}
  <2>1. Min(D) \in D
    BY <1>2, <1>5, FirstPlace
  <2>2. v = Min(D)
    BY <1>3, <1>4, <1>5, <2>1
  <2> QED
    BY <1>4, <2>1, <2>2 DEF Usable, v, Place
<1>6. CASE D = {} /\ U # {}
  <2>1. Min(U) \in U
    BY <1>2, <1>6, FirstPlace
  <2>2. v = Min(U)
    BY <1>3, <1>4, <1>6, <2>1
  <2> QED
    BY <1>4, <2>1, <2>2 DEF v, Place
<1>7. CASE D = {} /\ U = {}
  <2>1. v = IF l < peers[rings[i][IF S # {} THEN Min(S) ELSE 0]].lat
            THEN (IF S # {} THEN Min(S) ELSE 0) ELSE 0
    BY <1>3, <1>7
  <2>2. S # {} /\ v = Min(S) /\ l < peers[rings[i][v]].lat
    BY <2>1 DEF v
  <2>3. v \in Place
    BY <1>2, <1>4, <2>2, FirstPlace
  <2>4. \A k \in Place : peers[rings[i][k]].health \in {"Healthy", "Degraded"}
    BY <1>4, <1>7 DEF Usable
  <2> QED
    BY <2>2, <2>3, <2>4 DEF v, Place
<1> QED
    BY <1>5, <1>6, <1>7

\* What PeerTableHolds needs.
RouterInv == RouterTypeOK /\ RingsConsistent /\ CapBounded

\* A step is sound for the table if it is for every ring.
LEMMA NextTable ==
    ASSUME rings' \in [Rings -> Seq(Peers)], DOMAIN peers' \subseteq Peers,
           \A e \in DOMAIN peers' : peers'[e] \in PeerNodes,
           \A i \in Rings : RingHolds(rings'[i], i, DOMAIN peers')
    PROVE  RouterTypeOK' /\ RingsConsistent'
<1>1. \A i \in Rings : rings'[i] \in Seq(Peers) /\ DOMAIN rings'[i] = 1 .. Len(rings'[i])
    OBVIOUS
<1>2. \A e \in DOMAIN peers' : RingOf(e) \in Rings
    BY RingOfType
<1> QED
    BY <1>1, <1>2 DEF RouterTypeOK, RingsConsistent, RingHolds, IsInjective

LEMMA TableIsFinite ==
    ASSUME RouterTypeOK
    PROVE  IsFiniteSet(DOMAIN peers) /\ Cardinality(DOMAIN peers) \in Nat
BY RouterAssumption, FS_Subset, FS_CardinalityType DEF RouterTypeOK, RouterAssumption

\* One leaves for one who enters.
LEMMA SwapSize ==
    ASSUME NEW D, IsFiniteSet(D), NEW x \in D, NEW d, d \notin D
    PROVE  Cardinality((D \ {x}) \cup {d}) = Cardinality(D)
<1>1. IsFiniteSet(D \ {x}) /\ Cardinality(D \ {x}) = Cardinality(D) - 1
    BY FS_RemoveElement
<1>2. Cardinality((D \ {x}) \cup {d}) = (Cardinality(D) - 1) + 1
    BY <1>1, FS_AddElement
<1>3. Cardinality(D) \in Nat
    BY FS_CardinalityType
<1> QED
    BY <1>2, <1>3

LEMMA PeerAdded ==
    ASSUME RouterInv, NEW d \in Peers, NEW a \in Addresses, NEW l \in Nat,
           AddOrUpdatePeer(d, a, l)
    PROVE  RouterInv'
<1> DEFINE i == RingOf(d)
<1>1. /\ rings \in [Rings -> Seq(Peers)] /\ DOMAIN peers \subseteq Peers /\ i \in Rings
      /\ RouterTypeOK /\ RingsConsistent /\ CapBounded
      /\ IsIndex(peers)
      /\ \A j \in Rings : RingHolds(rings[j], j, DOMAIN peers)
      /\ PeersPerRing \in Nat /\ NumRings \in Nat /\ MaxTotalPeers \in Nat
    BY RingsHold, RingOfType, RouterAssumption, MetricsAssumption
    DEF IsIndex, RouterInv, RouterTypeOK, RouterAssumption, MetricsAssumption
<1>2. IsFiniteSet(DOMAIN peers) /\ Cardinality(DOMAIN peers) \in Nat
    BY <1>1, TableIsFinite
<1>3. CASE UpdateLocator(d, a, l)
  <2>0. NotedIn(peers', peers, d, a, l) /\ rings' = rings /\ d \in DOMAIN peers
    BY <1>1, <1>3, NotedEffect DEF UpdateLocator
  <2>1. /\ rings' = rings /\ DOMAIN peers' = DOMAIN peers
        /\ \A e \in DOMAIN peers' : peers'[e] \in PeerNodes
    BY <2>0 DEF NotedIn, IsIndex
  <2>2. RouterTypeOK' /\ RingsConsistent'
    BY <1>1, <2>1, NextTable
  <2> QED
    BY <1>1, <2>1, <2>2 DEF RouterInv, CapBounded
<1>4. CASE ReplaceInRing(d, a, l)
  <2> DEFINE v == Victim(i, l)
             x == rings[i][v]
  <2>1. v \in 1 .. Len(rings[i])
    BY <1>1, <1>4, VictimSound DEF ReplaceInRing
  <2>2. x \in DOMAIN peers /\ RingOf(x) = i
    BY <1>1, <2>1 DEF RingHolds
  <2>3. d \notin DOMAIN peers /\ rings' = [rings EXCEPT ![i] = [rings[i] EXCEPT ![v] = d]]
        /\ peers' = Noted(Without(peers, x), d, a, l)
    BY <1>1, <1>4 DEF ReplaceInRing
  <2> HIDE DEF v, x
  <2>4. NotedIn(peers', Without(peers, x), d, a, l)
    BY <1>1, <2>3, SwapEffect
  <2>5. /\ DOMAIN peers' = (DOMAIN peers \ {x}) \cup {d}
        /\ \A e \in DOMAIN peers' : peers'[e] \in PeerNodes
    BY <2>4 DEF NotedIn, IsIndex, Without
  <2>6. RingHolds([rings[i] EXCEPT ![v] = d], i, DOMAIN peers')
    <3>1. RingHolds([rings[i] EXCEPT ![v] = d], i, (DOMAIN peers \ {rings[i][v]}) \cup {d})
        BY <1>1, <2>1, <2>3, RingReplaced
    <3> QED
        BY <2>5, <3>1 DEF x
  <2>7. \A j \in Rings : RingHolds(rings'[j], j, DOMAIN peers')
    <3> SUFFICES ASSUME NEW j \in Rings, j # i PROVE RingHolds(rings[j], j, DOMAIN peers')
        BY <1>1, <2>3, <2>6
    <3>1. \A e \in {d} \cup {x} : RingOf(e) # j
        BY <2>2
    <3>2. RingHolds(rings[j], j, (DOMAIN peers \ {x}) \cup {d})
        BY <1>1, <3>1, RingUntouched
    <3> QED
        BY <2>5, <3>2
  <2>8. rings' \in [Rings -> Seq(Peers)]
    BY <1>1, <2>3, <2>6 DEF RingHolds
  <2>9. Cardinality(DOMAIN peers') = Cardinality(DOMAIN peers)
    BY <1>2, <2>2, <2>3, <2>5, SwapSize
  <2>10. RouterTypeOK' /\ RingsConsistent'
    BY <1>1, <2>5, <2>7, <2>8, NextTable
  <2> QED
    BY <1>1, <2>9, <2>10 DEF RouterInv, CapBounded
<1>5. CASE TurnAway(d, l)
    BY <1>5 DEF TurnAway, routerVars, RouterInv, RouterTypeOK, RingsConsistent, CapBounded, RingOf
<1>6. CASE Admit(d, a, l)
  <2> DEFINE w == WorstSpare
             x == rings[w[1]][w[2]]
             drop == AtCapacity /\ Spare # {}
             kept == IF drop THEN [rings EXCEPT ![w[1]] = RemoveAt(@, w[2])] ELSE rings
             left == IF drop THEN Without(peers, x) ELSE peers
  <2>1. /\ d \notin DOMAIN peers /\ ~RingFull(i)
        /\ peers' = Noted(left, d, a, l) /\ rings' = [kept EXCEPT ![i] = Append(@, d)]
    BY <1>6 DEF Admit
  <2>2. /\ kept \in [Rings -> Seq(Peers)] /\ DOMAIN left \subseteq DOMAIN peers
        /\ \A j \in Rings : RingHolds(kept[j], j, DOMAIN left)
        /\ Len(kept[i]) <= Len(rings[i])
        /\ IsIndex(left)
        /\ Cardinality(DOMAIN left) + 1 <= MaxTotalPeers
             \/ Cardinality(DOMAIN left) + 1 <= NumRings + 1
             \/ Cardinality(DOMAIN left) + 1 = Cardinality(DOMAIN peers)
    <3>1. CASE ~drop
      <4>1. kept = rings /\ left = peers
          BY <3>1
      <4>2. Len(rings[i]) \in Nat
          BY <1>1
      <4>3. Cardinality(DOMAIN peers) < MaxTotalPeers \/ Cardinality(DOMAIN peers) <= NumRings
          BY <1>1, <1>2, <3>1, NoSpareIsSmall DEF AtCapacity
      <4> HIDE DEF kept, left
      <4> QED
          BY <1>1, <1>2, <4>1, <4>2, <4>3
    <3>2. CASE drop
      <4>1. w \in Spare
          BY <1>1, <3>2, WorstIsSpare
      <4>2. w[1] \in Rings /\ w[2] \in 1 .. Len(rings[w[1]])
          BY <1>1, <4>1, SpareParts
      <4> HIDE DEF w
      <4>3. x \in DOMAIN peers /\ RingOf(x) = w[1]
          BY <1>1, <4>2 DEF RingHolds
      <4>4. /\ kept = [rings EXCEPT ![w[1]] = RemoveAt(rings[w[1]], w[2])]
            /\ left = Without(peers, x)
          BY <3>2
      <4>5. /\ DOMAIN left = DOMAIN peers \ {x} /\ IsIndex(left)
          BY <1>1, <4>4 DEF Without, IsIndex
      <4>6. /\ RemoveAt(rings[w[1]], w[2]) \in Seq(Peers)
            /\ Len(RemoveAt(rings[w[1]], w[2])) = Len(rings[w[1]]) - 1
          BY <1>1, <4>2, RemoveAtEffect
      <4>7. RingHolds(RemoveAt(rings[w[1]], w[2]), w[1], DOMAIN peers \ {x})
          BY <1>1, <4>2, RingShortened
      <4> HIDE DEF kept, left, x
      <4>8. \A j \in Rings : RingHolds(kept[j], j, DOMAIN left)
        <5> SUFFICES ASSUME NEW j \in Rings, j # w[1]
                     PROVE  RingHolds(rings[j], j, DOMAIN peers \ {x})
            BY <1>1, <4>2, <4>4, <4>5, <4>7
        <5>1. RingHolds(rings[j], j, (DOMAIN peers \ {x}) \cup {})
            BY <1>1, <4>3, RingUntouched
        <5> QED
            BY <5>1
      <4>9. kept \in [Rings -> Seq(Peers)] /\ Len(kept[i]) <= Len(rings[i])
          BY <1>1, <4>2, <4>4, <4>6
      <4>10. Cardinality(DOMAIN left) + 1 = Cardinality(DOMAIN peers)
        <5>1. Cardinality(DOMAIN peers \ {x}) = Cardinality(DOMAIN peers) - 1
            BY <1>2, <4>3, FS_RemoveElement
        <5> QED
            BY <1>2, <4>5, <5>1
      <4> QED
          BY <4>5, <4>8, <4>9, <4>10
    <3> QED
        BY <3>1, <3>2
  <2> HIDE DEF kept, left, drop
  <2>a. NotedIn(peers', left, d, a, l)
    BY <2>1, <2>2, NotedEffect
  <2>3. /\ DOMAIN peers' = DOMAIN left \cup {d}
        /\ \A e \in DOMAIN peers' : peers'[e] \in PeerNodes
    BY <2>a DEF NotedIn, IsIndex
  <2>4. RingHolds(Append(kept[i], d), i, DOMAIN peers')
    <3>1. Len(kept[i]) < PeersPerRing
        BY <1>1, <2>1, <2>2 DEF RingFull
    <3> QED
        BY <1>1, <2>1, <2>2, <2>3, <3>1, RingExtended
  <2>5. \A j \in Rings : RingHolds(rings'[j], j, DOMAIN peers')
    <3> SUFFICES ASSUME NEW j \in Rings, j # i PROVE RingHolds(kept[j], j, DOMAIN peers')
        BY <1>1, <2>1, <2>2, <2>4
    <3>1. RingHolds(kept[j], j, (DOMAIN left \ {}) \cup {d})
        BY <2>2, RingUntouched
    <3> QED
        BY <2>3, <3>1
  <2>6. rings' \in [Rings -> Seq(Peers)]
    BY <1>1, <2>1, <2>2, <2>4 DEF RingHolds
  <2>7. Cardinality(DOMAIN peers') = Cardinality(DOMAIN left) + 1
    <3>1. IsFiniteSet(DOMAIN left)
        BY <1>2, <2>2, FS_Subset
    <3>2. d \notin DOMAIN left
        BY <2>1, <2>2
    <3>3. Cardinality(DOMAIN left \cup {d}) = Cardinality(DOMAIN left) + 1
        BY <3>1, <3>2, FS_AddElement
    <3> QED
        BY <2>3, <3>3
  <2>8. DOMAIN peers' \subseteq Peers
    BY <1>1, <2>2, <2>3
  <2>9. RouterTypeOK' /\ RingsConsistent'
    BY <2>3, <2>5, <2>6, <2>8, NextTable
  <2> QED
    BY <1>1, <2>2, <2>7, <2>9 DEF RouterInv, CapBounded
<1> QED
    BY <1>3, <1>4, <1>5, <1>6 DEF AddOrUpdatePeer

\* A health report: pacing in percent.
IsReport(m) == m.pacing \in 0 .. 100 /\ m.jitter \in Nat /\ m.loss \in Nat

LEMMA LeastIsBelow ==
    ASSUME NEW k \in Nat, NEW n \in Nat
    PROVE  Least(k, n) \in Nat /\ Least(k, n) <= k
BY DEF Least

LEMMA ScoreOfReport ==
    ASSUME NEW m, IsReport(m)
    PROVE  HealthScore(m) \in Scores /\ HealthState(m) \in HealthStates
<1>1. m.pacing \in Nat /\ m.pacing <= 100 /\ m.jitter \in Nat /\ m.loss \in Nat
    BY DEF IsReport
<1>2. PICK x \in Nat : x = m.pacing /\ x <= 100
    BY <1>1
<1>3. \A n \in Nat : 60 * n \in Nat /\ 40 * n \in Nat
    OBVIOUS
<1>4. PICK p \in Nat : p = 60 * m.jitter
    BY <1>1, <1>3
<1>5. PICK q \in Nat : q = 40 * m.loss
    BY <1>1, <1>3
<1>6. HealthScore(m) \in Scores
  <2>1. PICK y \in Nat : y = Least(3000, p) /\ y <= 3000
    BY LeastIsBelow
  <2>2. PICK z \in Nat : z = Least(4000, q) /\ z <= 4000
    BY LeastIsBelow
  <2> DEFINE sum == 30 * x + (3000 - y) + (4000 - z)
  <2>3. HealthScore(m) = sum
    BY <1>2, <1>4, <1>5, <2>1, <2>2 DEF HealthScore
  <2>4. \A j \in Nat : j <= 100 => 30 * j \in Nat /\ 30 * j <= 3000
    OBVIOUS
  <2>5. PICK w \in Nat : w = 30 * x /\ w <= 3000
    BY <1>2, <2>4
  <2>6. sum \in Nat /\ sum <= 10000
    BY <2>1, <2>2, <2>5
  <2> HIDE DEF sum
  <2> QED
    BY <2>3, <2>6 DEF Scores
<1>7. HealthState(m) \in HealthStates
    BY DEF HealthState, HealthStates, Usable
<1> QED
    BY <1>6, <1>7

LEMMA HealthNoted ==
    ASSUME RouterInv, NEW d \in Peers, NEW m, IsReport(m), UpdatePeerHealth(d, m)
    PROVE  RouterInv'
<1>1. PICK p \in PeerNodes : p = peers[d]
  <2>1. peers[d] \in PeerNodes
    BY DEF UpdatePeerHealth, RouterInv, RouterTypeOK
  <2> QED
    BY <2>1
<1> DEFINE r == [p EXCEPT !.score = HealthScore(m), !.health = HealthState(m)]
<1>2. r \in PeerNodes
    BY ScoreOfReport DEF PeerNodes
<1>3. peers' = [peers EXCEPT ![d] = r] /\ rings' = rings
    BY <1>1 DEF UpdatePeerHealth
<1> HIDE DEF r
<1> QED
    BY <1>2, <1>3 DEF RouterInv, RouterTypeOK, RingsConsistent, CapBounded, RingOf

LEMMA PeerRemoved ==
    ASSUME RouterInv, NEW d \in Peers, RemovePeer(d)
    PROVE  /\ RouterInv' /\ Len(rings'[RingOf(d)]) = Len(rings[RingOf(d)]) - 1
           /\ DOMAIN peers' = DOMAIN peers \ {d}
<1> DEFINE i == RingOf(d)
           s == rings[i]
           T == {k \in 1 .. Len(s) : s[k] = d}
<1>1. /\ rings \in [Rings -> Seq(Peers)] /\ DOMAIN peers \subseteq Peers /\ i \in Rings
      /\ RouterTypeOK /\ CapBounded /\ d \in DOMAIN peers
      /\ \A e \in DOMAIN peers : peers[e] \in PeerNodes
      /\ \A j \in Rings : RingHolds(rings[j], j, DOMAIN peers)
      /\ NumRings \in Nat /\ MaxTotalPeers \in Nat
    BY RingsHold, RingOfType, RouterAssumption, MetricsAssumption
    DEF RouterInv, RouterTypeOK, RouterAssumption, MetricsAssumption, RemovePeer
<1>2. IsFiniteSet(DOMAIN peers) /\ Cardinality(DOMAIN peers) \in Nat
    BY <1>1, TableIsFinite
<1>3. PICK k \in 1 .. Len(s) : s[k] = d /\ RemoveFirst(s, d) = RemoveAt(s, k)
  <2>1. T # {} /\ T \in SUBSET Nat
    BY <1>1 DEF RingHolds
  <2>2. Min(T) \in T
    BY <2>1, FirstPlace
  <2>3. RemoveFirst(s, d) = RemoveAt(s, Min(T))
    BY <2>1 DEF RemoveFirst, SelectInSeq
  <2> QED
    BY <2>2, <2>3
<1>4. RingHolds(RemoveAt(s, k), i, DOMAIN peers \ {d})
    BY <1>1, <1>3, RingShortened
<1>5. /\ RemoveAt(s, k) \in Seq(Peers) /\ Len(RemoveAt(s, k)) = Len(s) - 1
    BY <1>1, <1>3, RemoveAtEffect
<1>6. /\ rings' = [rings EXCEPT ![i] = RemoveAt(s, k)] /\ DOMAIN peers' = DOMAIN peers \ {d}
      /\ \A e \in DOMAIN peers' : peers'[e] \in PeerNodes
    BY <1>1, <1>3 DEF RemovePeer, Without
<1>7. \A j \in Rings : RingHolds(rings'[j], j, DOMAIN peers')
  <2> SUFFICES ASSUME NEW j \in Rings, j # i PROVE RingHolds(rings[j], j, DOMAIN peers \ {d})
    BY <1>1, <1>4, <1>6
  <2>1. RingHolds(rings[j], j, (DOMAIN peers \ {d}) \cup {})
    BY <1>1, RingUntouched
  <2> QED
    BY <2>1
<1>8. RouterTypeOK' /\ RingsConsistent'
    BY <1>1, <1>5, <1>6, <1>7, NextTable
<1>9. Cardinality(DOMAIN peers') = Cardinality(DOMAIN peers) - 1
    BY <1>1, <1>2, <1>6, FS_RemoveElement
<1>10. RouterInv'
    BY <1>1, <1>2, <1>8, <1>9 DEF RouterInv, CapBounded
<1> QED
    BY <1>1, <1>5, <1>6, <1>10
-----------------------------------------------------------------------------
(* The rendezvous. *)

\* What the memory holds was recorded or not, and an open breaker has nothing recorded.
RecordedOrNot ==
    /\ memory \subseteq publishedTopics \cup unrecorded
    /\ circuitBroken => publishedTopics = {}

\* Once the signalling is off the local store keeps nothing of ours but what a failed
\* publication left (DisconnectAndPurge).
THEOREM SilenceIsKept == MeshSpec => []PurgedUpToFailures
<1>1. MeshInit => RecordedOrNot
    BY DEF MeshInit, DiscoveryInit, RendezvousInit, RecordedOrNot
<1>2. RecordedOrNot /\ [MeshNext]_meshVars => RecordedOrNot'
  <2> SUFFICES ASSUME RecordedOrNot, [MeshNext]_meshVars PROVE RecordedOrNot'
    OBVIOUS
  <2>1. CASE UNCHANGED rendezvousVars
    BY <2>1 DEF rendezvousVars, RecordedOrNot
  <2>2. CASE CheckBreaker
    BY <2>2 DEF CheckBreaker, ResetCircuitBreaker, rendezvousVars, RecordedOrNot
  <2>3. CASE Publish
    BY <2>3 DEF Publish, PublishBlindBeacon, Published, PublishedInMemoryOnly, PutInMemory,
       rendezvousVars, RecordedOrNot
  <2>4. CASE Notify
    BY <2>4 DEF Notify, NotifyDirectPeerConnected, DisconnectAndPurge, DeleteFromMemory,
       rendezvousVars, RecordedOrNot
  <2>5. CASE ClockHour
    BY <2>5 DEF ClockHour, NextHour, RecordedOrNot
  <2>6. CASE UNCHANGED meshVars
    BY <2>1, <2>6 DEF meshVars, discoveryVars
  <2>7. CASE MeshNext
    <3>1. CASE DiscoveryNext
      BY <2>1, <2>2, <2>3, <2>4, <2>5, <3>1 DEF DiscoveryNext, Engine, Others, CountHealthy, Trust,
         Probe, Ask, Meet, NextCycle, LeaveLoop, Start, Stop, Authorize, Revoke, Forget, Hear,
         ReportHealth
    <3>2. CASE ~DiscoveryNext
      BY <2>1, <2>7, <3>2 DEF MeshNext, discoveryOwn, discoveryVars
    <3> QED
      BY <3>1, <3>2
  <2> QED
    BY <2>6, <2>7
<1>3. RecordedOrNot => PurgedUpToFailures
    BY DEF RecordedOrNot, PurgedUpToFailures
<1> QED
    BY <1>1, <1>2, <1>3, PTL DEF MeshSpec
-----------------------------------------------------------------------------
(* The discovery engine. *)

Plans == [call : {"trust", "probe", "meet", "notify"}, did : Peers, addrs : Seq(Addresses)]

\* What the engine has still to trust is in the keystore, and a call to an address has one.
PlanIsSound ==
    /\ plan \in Seq(Plans)
    /\ \A k \in DOMAIN plan :
         /\ plan[k].addrs = <<>> => plan[k].call = "trust"
         /\ plan[k].call \in {"trust", "probe"} =>
              plan[k].did \in {Trusted[j].did : j \in DOMAIN Trusted}

TrustInv == PlanIsSound /\ TrustIsExplicit

\* A change of the first entry, or its removal, leaves a sound plan.
LEMMA PlanWalked ==
    ASSUME PlanIsSound, plan # <<>>, NEW first \in Plans, first.did = Head(plan).did,
           first.addrs # <<>> \/ first.call = "trust",
           first.call \in {"trust", "probe"} => Head(plan).call \in {"trust", "probe"},
           plan' \in {Tail(plan), <<first>> \o Tail(plan)}
    PROVE  PlanIsSound'
<1>1. /\ Len(plan) \in Nat /\ Len(plan) > 0 /\ Head(plan) = plan[1] /\ 1 \in DOMAIN plan
      /\ Tail(plan) \in Seq(Plans) /\ Len(Tail(plan)) = Len(plan) - 1
      /\ \A k \in 1 .. Len(plan) - 1 : Tail(plan)[k] = plan[k + 1]
    BY DEF PlanIsSound
<1>2. CASE plan' = Tail(plan)
    BY <1>1, <1>2 DEF PlanIsSound
<1>3. CASE plan' = <<first>> \o Tail(plan)
  <2>1. /\ plan' \in Seq(Plans) /\ Len(plan') = Len(plan) /\ plan'[1] = first
        /\ \A k \in 2 .. Len(plan) : plan'[k] = plan[k]
    BY <1>1, <1>3
  <2> QED
    BY <1>1, <2>1 DEF PlanIsSound
<1> QED
    BY <1>2, <1>3

LEMMA AddressPassed ==
    ASSUME PlanIsSound, plan # <<>>, Head(plan).call # "trust",
           NEW call \in {"probe", "meet"},
           call = "probe" => Head(plan).call = "probe", plan' = AfterAddress(call)
    PROVE  PlanIsSound'
<1>1. Head(plan) \in Plans /\ Head(plan).addrs # <<>>
    BY DEF PlanIsSound
<1> DEFINE rest == Tail(Head(plan).addrs)
           first == [Head(plan) EXCEPT !.call = call, !.addrs = rest]
<1>2. rest \in Seq(Addresses)
    BY <1>1 DEF Plans
<1>3. first \in Plans /\ first.did = Head(plan).did /\ first.call = call /\ first.addrs = rest
    BY <1>1, <1>2 DEF Plans
<1>4. plan' \in {Tail(plan), <<first>> \o Tail(plan)} /\ (rest = <<>> => plan' = Tail(plan))
    BY DEF AfterAddress
<1>5. PICK keep \in Plans :
        /\ keep.did = Head(plan).did /\ (keep.addrs # <<>> \/ keep.call = "trust")
        /\ keep.call \in {"trust", "probe"} => Head(plan).call \in {"trust", "probe"}
        /\ plan' \in {Tail(plan), <<keep>> \o Tail(plan)}
  <2> HIDE DEF rest, first
  <2>1. CASE rest = <<>>
    BY <1>1, <1>4, <2>1
  <2>2. CASE rest # <<>>
    BY <1>3, <1>4, <2>2
  <2> QED
    BY <2>1, <2>2
<1> QED
    BY <1>5, PlanWalked

\* The plans a cycle begins with.
LEMMA FirstPlans ==
    ASSUME PlanIsSound, plan' \in {<<>>, ToTrust} \/ \E found \in SUBSET Beacons : plan' = ToMeet(found)
    PROVE  PlanIsSound'
<1>1. CASE plan' = <<>>
    BY <1>1 DEF PlanIsSound
<1>2. CASE plan' = ToTrust
  <2>1. Trusted \in Seq(Entry)
    BY DiscoveryAssumption DEF DiscoveryAssumption
  <2>2. /\ ToTrust \in Seq(Plans) /\ DOMAIN ToTrust = DOMAIN Trusted
        /\ \A k \in DOMAIN Trusted : ToTrust[k].call = "trust" /\ ToTrust[k].did = Trusted[k].did
    <3>1. \A k \in DOMAIN Trusted : Trusted[k] \in Entry
        BY <2>1
    <3>2. \A k \in 1 .. Len(Trusted) :
            [call |-> "trust", did |-> Trusted[k].did, addrs |-> Trusted[k].endpoints] \in Plans
        BY <2>1, <3>1 DEF Plans, Entry
    <3>3. ToTrust \in [1 .. Len(Trusted) -> Plans]
        BY <2>1, <3>2 DEF ToTrust
    <3> QED
        BY <2>1, <3>3 DEF ToTrust
  <2> QED
    BY <1>2, <2>2 DEF PlanIsSound
<1>3. ASSUME NEW found \in SUBSET Beacons, plan' = ToMeet(found) PROVE PlanIsSound'
  <2> DEFINE order == SetToSeq(found)
  <2>1. IsFiniteSet(found) /\ \A b \in found : b \in Entry /\ b.endpoints # <<>>
    BY DiscoveryAssumption, FS_Subset DEF DiscoveryAssumption
  <2>2. PICK f : f \in Bijection(1 .. Cardinality(found), found)
    BY <2>1, FS_CardinalityType DEF ExistsBijection
  <2>3. f \in [1 .. Cardinality(found) -> found] /\ IsInjective(f)
    BY <2>2 DEF Bijection, Injection, IsInjective
  <2>4. order \in [1 .. Cardinality(found) -> found]
    BY <2>3 DEF SetToSeq
  <2>5. Cardinality(found) \in Nat
    BY <2>1, FS_CardinalityType
  <2> HIDE DEF order
  <2>6. plan' = [k \in 1 .. Cardinality(found) |->
                   [call |-> "meet", did |-> order[k].did, addrs |-> order[k].endpoints]]
    BY <1>3, <2>4 DEF ToMeet, order
  <2>7. /\ plan' \in Seq(Plans) /\ DOMAIN plan' = 1 .. Cardinality(found)
        /\ \A k \in DOMAIN plan' : plan'[k].call = "meet" /\ plan'[k].addrs # <<>>
    <3> DEFINE visit(k) == [call |-> "meet", did |-> order[k].did,
                            addrs |-> order[k].endpoints]
    <3>1. ASSUME NEW k \in 1 .. Cardinality(found)
          PROVE  visit(k) \in Plans /\ visit(k).call = "meet" /\ visit(k).addrs # <<>>
      <4>1. order[k] \in Entry /\ order[k].endpoints # <<>>
        BY <2>1, <2>4
      <4>2. PICK e \in Entry : e = order[k]
        BY <4>1
      <4> QED
        BY <4>1, <4>2 DEF Plans, Entry
    <3>2. plan' = [k \in 1 .. Cardinality(found) |-> visit(k)]
        BY <2>6
    <3> HIDE DEF visit
    <3>3. plan' \in [1 .. Cardinality(found) -> Plans]
        BY <3>1, <3>2
    <3>4. plan' \in Seq(Plans) /\ DOMAIN plan' = 1 .. Cardinality(found)
        BY <2>5, <3>3
    <3> QED
        BY <3>1, <3>2, <3>4
  <2> QED
    BY <2>7 DEF PlanIsSound
<1> QED
    BY <1>1, <1>2, <1>3

LEMMA TrustStep == TrustInv /\ [MeshNext]_meshVars => TrustInv'
<1> SUFFICES ASSUME TrustInv, [MeshNext]_meshVars PROVE TrustInv'
    OBVIOUS
<1>0. PlanIsSound /\ TrustIsExplicit
    BY DEF TrustInv
<1>1. CASE UNCHANGED <<plan, policies, granted>>
    BY <1>0, <1>1 DEF TrustInv, PlanIsSound, TrustIsExplicit
<1>2. ASSUME UNCHANGED <<policies, granted>>, PlanIsSound' PROVE TrustInv'
    BY <1>0, <1>2 DEF TrustInv, TrustIsExplicit
<1>3. CASE Publish
    BY <1>0, <1>2, <1>3, FirstPlans DEF Publish
<1>4. CASE Trust
  <2> DEFINE first == [Head(plan) EXCEPT !.call = "probe"]
  <2>1. plan # <<>> /\ Head(plan) \in Plans /\ Head(plan).call = "trust" /\ 1 \in DOMAIN plan
    BY <1>0, <1>4 DEF Trust, PlanIsSound
  <2>2. Head(plan).did \in {Trusted[j].did : j \in DOMAIN Trusted}
    BY <1>0, <2>1 DEF PlanIsSound
  <2>3. first \in Plans /\ first.did = Head(plan).did /\ first.addrs = Head(plan).addrs
    BY <2>1 DEF Plans
  <2>4. PlanIsSound'
    <3>1. CASE Head(plan).addrs = <<>>
        BY <1>0, <1>4, <2>1, <3>1, PlanWalked DEF Trust
    <3>2. CASE Head(plan).addrs # <<>>
      <4>1. plan' = <<first>> \o Tail(plan)
          BY <1>4, <3>2 DEF Trust
      <4> HIDE DEF first
      <4> QED
          BY <1>0, <2>1, <2>3, <3>2, <4>1, PlanWalked
    <3> QED
        BY <3>1, <3>2
  <2>5. policies' = policies \cup {Head(plan).did} /\ UNCHANGED granted
    BY <1>4 DEF Trust
  <2> QED
    BY <1>0, <2>2, <2>4, <2>5 DEF TrustInv, TrustIsExplicit
<1>5. CASE Probe
    BY <1>0, <1>2, <1>5, AddressPassed DEF Probe
<1>6. CASE Ask
    BY <1>0, <1>2, <1>6, FirstPlans DEF Ask
<1>7. CASE Meet
  <2> DEFINE first == [Head(plan) EXCEPT !.call = "notify"]
  <2>1. plan # <<>> /\ Head(plan) \in Plans /\ Head(plan).call = "meet" /\ Head(plan).addrs # <<>>
    BY <1>0, <1>7 DEF Meet, PlanIsSound
  <2>2. first \in Plans /\ first.did = Head(plan).did /\ first.addrs = Head(plan).addrs
        /\ first.call = "notify"
    BY <2>1 DEF Plans
  <2>3. plan' = <<first>> \o Tail(plan) /\ UNCHANGED <<policies, granted>>
    BY <1>7 DEF Meet
  <2> HIDE DEF first
  <2> QED
    BY <1>0, <1>2, <2>1, <2>2, <2>3, PlanWalked
<1>8. CASE Notify
    BY <1>0, <1>2, <1>8, AddressPassed DEF Notify
<1>9. ASSUME NEW d \in Contacts, Authorize(d) \/ Revoke(d) PROVE TrustInv'
    BY <1>0, <1>9 DEF Authorize, Revoke, engineVars, TrustInv, PlanIsSound, TrustIsExplicit
<1>10. CASE UNCHANGED meshVars
    BY <1>1, <1>10 DEF meshVars, discoveryVars
<1>11. CASE MeshNext
  <2>1. CASE DiscoveryNext
    BY <1>1, <1>3, <1>4, <1>5, <1>6, <1>7, <1>8, <1>9, <2>1
    DEF DiscoveryNext, Engine, Others, CountHealthy, CheckBreaker, NextCycle, LeaveLoop, Start,
        Stop, Forget, Hear, ReportHealth, ClockHour, engineVars
  <2>2. CASE ~DiscoveryNext
    BY <1>1, <1>11, <2>2 DEF MeshNext, discoveryOwn, discoveryVars
  <2> QED
    BY <2>1, <2>2
<1> QED
    BY <1>10, <1>11

\* A beacon, however good its signature, gives no access: whoever has a policy is in the
\* keystore or was authorised (executeCycle, probeTrustedPeers).
THEOREM BeaconsGiveNoAccess == MeshSpec => []TrustIsExplicit
<1>1. MeshInit => TrustInv
    BY DEF MeshInit, DiscoveryInit, TrustInv, PlanIsSound, TrustIsExplicit
<1>2. TrustInv => TrustIsExplicit
    BY DEF TrustInv
<1> QED
    BY <1>1, <1>2, TrustStep, PTL DEF MeshSpec
-----------------------------------------------------------------------------
(* The peer table again, whoever changes it. *)

\* What a step does to the table: nothing, or one method of the router.
TableStep ==
    \/ UNCHANGED routerVars
    \/ \E d \in Peers, a \in Addresses, l \in Nat : AddOrUpdatePeer(d, a, l)
    \/ \E d \in Peers : \E m : IsReport(m) /\ UpdatePeerHealth(d, m)
    \/ \E d \in Peers : RemovePeer(d)

LEMMA EveryStepIsATableStep == TrustInv /\ [MeshNext]_meshVars => TableStep
<1> SUFFICES ASSUME TrustInv, [MeshNext]_meshVars PROVE TableStep
    OBVIOUS
<1>1. CASE UNCHANGED routerVars
    BY <1>1 DEF TableStep
<1>2. ASSUME NEW d \in Peers, NEW a \in Addresses, NEW l \in Nat, AddOrUpdatePeer(d, a, l)
      PROVE  TableStep
    BY <1>2 DEF TableStep
<1>3. ASSUME NEW d \in Peers, RemovePeer(d) PROVE TableStep
    BY <1>3 DEF TableStep
<1>4. ASSUME NEW d \in Peers, NEW m, IsReport(m), UpdatePeerHealth(d, m) PROVE TableStep
    BY <1>4 DEF TableStep
<1>5. Contacts \subseteq Peers
    BY DEF Contacts
<1>6. CASE RouterNext
  <2>1. SomeAddress \in Addresses
    BY MetricsAssumption DEF MetricsAssumption, SomeAddress
  <2>2. \A l \in Rates : l \in Nat
    BY DEF Rates
  <2>3. \A m \in Reports : IsReport(m)
    BY DEF Reports, MCMeasures, Report, IsReport
  <2> QED
    BY <1>2, <1>3, <1>4, <1>6, <2>1, <2>2, <2>3 DEF RouterNext
<1>7. CASE DiscoveryNext
  <2>1. CASE Probe \/ Meet
    <3>1. Head(plan) \in Plans /\ Head(plan).addrs # <<>>
        BY <2>1 DEF Probe, Meet, TrustInv, PlanIsSound
    <3>2. Head(plan).did \in Peers /\ Head(Head(plan).addrs) \in Addresses
        BY <3>1 DEF Plans
    <3>3. TrustedLatency \in Nat /\ BeaconLatency \in Nat
        BY DEF TrustedLatency, BeaconLatency
    <3> QED
        BY <1>2, <2>1, <3>2, <3>3 DEF Probe, Meet
  <2>2. ASSUME NEW d \in Contacts, NEW a \in Addresses, Hear(d, a) PROVE TableStep
    <3>1. HeardLatency \in Nat
        BY DEF HeardLatency
    <3> QED
        BY <1>2, <1>5, <2>2, <3>1 DEF Hear
  <2>3. ASSUME NEW d \in Contacts, Forget(d) PROVE TableStep
    BY <1>3, <1>5, <2>3 DEF Forget
  <2>4. ASSUME NEW d \in Contacts, NEW m \in Measures, ReportHealth(d, m) PROVE TableStep
    <3>1. IsReport(m)
        BY DiscoveryAssumption DEF DiscoveryAssumption, IsReport
    <3> QED
        BY <1>4, <1>5, <2>4, <3>1 DEF ReportHealth
  <2> QED
    BY <1>1, <1>7, <2>1, <2>2, <2>3, <2>4
    DEF DiscoveryNext, Engine, Others, CountHealthy, CheckBreaker, Publish, Trust, Ask, Notify,
        NextCycle, LeaveLoop, Start, Stop, Authorize, Revoke, ClockHour
<1>8. CASE HealingNext
  <2>1. ASSUME NEW d \in Contacts, NEW a \in Addresses, Roam(d, a) PROVE TableStep
    BY <1>2, <1>5, <2>1 DEF Roam
  <2>2. ASSUME NEW d \in Contacts, Leave(d) PROVE TableStep
    BY <1>3, <1>5, <2>2 DEF Leave
  <2> QED
    BY <1>1, <1>8, <2>1, <2>2
    DEF HealingNext, BeginSweep, WriteFailed, Tick, Send, TimedOut, Echo, Vanish
<1>9. CASE UNCHANGED meshVars
    BY <1>1, <1>9 DEF meshVars, discoveryVars
<1> QED
    BY <1>1, <1>6, <1>7, <1>8, <1>9 DEF MeshNext, discoveryVars

LEMMA RouterStep == RouterInv /\ TableStep => RouterInv'
<1>1. RouterInv /\ UNCHANGED routerVars => RouterInv'
    BY DEF routerVars, RouterInv, RouterTypeOK, RingsConsistent, CapBounded, RingOf
<1> QED
    BY <1>1, PeerAdded, HealthNoted, PeerRemoved DEF TableStep

LEMMA RouterStarts == MeshInit => RouterInv
<1> SUFFICES ASSUME MeshInit PROVE RouterInv
    OBVIOUS
<1>1. rings = [i \in Rings |-> <<>>] /\ peers = [d \in {} |-> {}]
    BY DEF MeshInit, DiscoveryInit, RouterInit
<1>2. DOMAIN peers = {} /\ \A i \in Rings : rings[i] = <<>>
    BY <1>1
<1>3. PeersPerRing \in Nat /\ MaxTotalPeers \in Nat
    BY RouterAssumption DEF RouterAssumption
<1>4. Cardinality(DOMAIN peers) = 0
    BY <1>2, FS_EmptySet
<1>5. RouterTypeOK
    BY <1>1, <1>2 DEF RouterTypeOK
<1>6. CapBounded
    BY <1>3, <1>4 DEF CapBounded
<1>7. RingsConsistent
  <2>1. DOMAIN <<>> = {} /\ Len(<<>>) = 0
    OBVIOUS
  <2> QED
    BY <1>2, <1>3, <2>1 DEF RingsConsistent, IsInjective
<1> QED
    BY <1>5, <1>6, <1>7 DEF RouterInv

LEMMA TrustAndTable == MeshSpec => [](TrustInv /\ RouterInv)
<1>1. MeshInit => TrustInv
    BY DEF MeshInit, DiscoveryInit, TrustInv, PlanIsSound, TrustIsExplicit
<1>2. TrustInv /\ RouterInv /\ [MeshNext]_meshVars => (TrustInv /\ RouterInv)'
    BY TrustStep, EveryStepIsATableStep, RouterStep
<1> QED
    BY <1>1, <1>2, RouterStarts, PTL DEF MeshSpec

\* Whoever leaves the table leaves the index and the ring, whoever enters it is in both, and
\* the table outgrows its limit at most to one peer for every ring and one more
\* (AddOrUpdatePeer, RemovePeer).
THEOREM TableAndRingsAgree == MeshSpec => []PeerTableHolds
<1>1. RouterInv => PeerTableHolds
    BY DEF RouterInv, PeerTableHolds
<1> QED
    BY <1>1, TrustAndTable, PTL

LEMMA WayIsGivenRightly == RouterInv /\ TableStep => [GivesWayRightly]_routerVars
<1> SUFFICES ASSUME RouterInv, TableStep, NEW i \in Rings, NEW o \in DOMAIN peers,
                    RingFull(i), Len(rings'[i]) = Len(rings[i]),
                    RingOf(o) = i, o \notin DOMAIN peers',
                    peers[o].health \in {"Healthy", "Degraded"}
             PROVE  /\ \A k \in DOMAIN rings[i] : peers[rings[i][k]].health \in {"Healthy", "Degraded"}
                    /\ \E e \in DOMAIN peers' \ DOMAIN peers : peers'[e].lat < peers[o].lat
    BY DEF GivesWayRightly
<1>1. /\ rings \in [Rings -> Seq(Peers)] /\ DOMAIN peers \subseteq Peers
      /\ RouterTypeOK /\ RingsConsistent
      /\ IsIndex(peers)
      /\ \A j \in Rings : RingHolds(rings[j], j, DOMAIN peers)
      /\ Len(rings[i]) \in Nat
    BY RingsHold DEF IsIndex, RouterInv, RouterTypeOK
<1>2. ~UNCHANGED routerVars
    BY DEF routerVars
<1>3. ASSUME NEW d \in Peers, NEW m, UpdatePeerHealth(d, m) PROVE FALSE
    BY <1>3 DEF UpdatePeerHealth
<1>4. ASSUME NEW d \in Peers, RemovePeer(d) PROVE FALSE
  <2>1. /\ Len(rings'[RingOf(d)]) = Len(rings[RingOf(d)]) - 1
        /\ DOMAIN peers' = DOMAIN peers \ {d}
    BY <1>4, PeerRemoved
  <2>2. d = o
    BY <2>1
  <2> QED
    BY <1>1, <2>1, <2>2
<1>5. ASSUME NEW d \in Peers, NEW a \in Addresses, NEW l \in Nat, UpdateLocator(d, a, l)
      PROVE  FALSE
  <2>1. NotedIn(peers', peers, d, a, l)
    BY <1>1, <1>5, NotedEffect DEF UpdateLocator
  <2> QED
    BY <2>1 DEF NotedIn
<1>6. ASSUME NEW d \in Peers, NEW l \in Nat, TurnAway(d, l) PROVE FALSE
    BY <1>2, <1>6 DEF TurnAway
<1>7. ASSUME NEW d \in Peers, NEW a \in Addresses, NEW l \in Nat, ReplaceInRing(d, a, l)
      PROVE  /\ \A k \in 1 .. Len(rings[i]) : peers[rings[i][k]].health \in {"Healthy", "Degraded"}
             /\ \E e \in DOMAIN peers' \ DOMAIN peers : peers'[e].lat < peers[o].lat
  <2> DEFINE j == RingOf(d)
             v == Victim(j, l)
             x == rings[j][v]
  <2>1. /\ d \notin DOMAIN peers /\ v # 0 /\ peers' = Noted(Without(peers, x), d, a, l) /\ j \in Rings
    BY <1>7, RingOfType DEF ReplaceInRing
  <2>2. /\ v \in 1 .. Len(rings[j])
        /\ peers[x].health \in {"Healthy", "Degraded"} =>
             /\ \A k \in 1 .. Len(rings[j]) : peers[rings[j][k]].health \in {"Healthy", "Degraded"}
             /\ l < peers[x].lat
    BY <1>1, <2>1, VictimSound
  <2>3. x \in DOMAIN peers /\ RingOf(x) = j
    BY <1>1, <2>1, <2>2 DEF RingHolds
  <2> HIDE DEF v, x
  <2>4. NotedIn(peers', Without(peers, x), d, a, l)
    BY <1>1, <2>1, SwapEffect
  <2>5. DOMAIN peers' = (DOMAIN peers \ {x}) \cup {d} /\ peers'[d].lat = l
    BY <2>4 DEF NotedIn, Without
  <2>6. o = x /\ j = i
    BY <2>1, <2>3, <2>5
  <2>7. d \in DOMAIN peers' \ DOMAIN peers /\ peers'[d].lat < peers[o].lat
    BY <2>1, <2>2, <2>5, <2>6
  <2> QED
    BY <2>2, <2>6, <2>7
<1>8. ASSUME NEW d \in Peers, NEW a \in Addresses, NEW l \in Nat, Admit(d, a, l) PROVE FALSE
  <2> DEFINE j == RingOf(d)
             w == WorstSpare
             x == rings[w[1]][w[2]]
             drop == AtCapacity /\ Spare # {}
             left == IF drop THEN Without(peers, x) ELSE peers
  <2>1. ~RingFull(j) /\ peers' = Noted(left, d, a, l) /\ j # i
    BY <1>8 DEF Admit
  <2>2. CASE ~drop
    <3>1. peers' = Noted(peers, d, a, l)
        BY <2>1, <2>2
    <3>2. NotedIn(peers', peers, d, a, l)
        BY <1>1, <3>1, NotedEffect
    <3> QED
        BY <3>2 DEF NotedIn
  <2>3. CASE drop
    <3>1. w \in Spare
        BY <1>1, <2>3, WorstIsSpare
    <3>2. w[1] \in Rings /\ w[2] \in 1 .. Len(rings[w[1]])
        BY <1>1, <3>1, SpareParts
    <3>3. x \in DOMAIN peers /\ RingOf(x) = w[1]
        BY <1>1, <3>2 DEF RingHolds
    <3>4. peers' = Noted(Without(peers, x), d, a, l)
        BY <2>1, <2>3
    <3>6. rings' = [[rings EXCEPT ![w[1]] = RemoveAt(rings[w[1]], w[2])]
                        EXCEPT ![j] = Append(@, d)]
        BY <1>8, <2>3 DEF Admit
    <3> HIDE DEF x
    <3>5. NotedIn(peers', Without(peers, x), d, a, l)
        BY <1>1, <3>4, SwapEffect
    <3>7. DOMAIN peers' = (DOMAIN peers \ {x}) \cup {d}
        BY <3>5 DEF NotedIn, Without
    <3>8. o = x /\ w[1] = i
        BY <3>3, <3>7
    <3>9. rings'[i] = RemoveAt(rings[i], w[2])
        BY <1>1, <2>1, <3>6, <3>8
    <3>10. Len(RemoveAt(rings[i], w[2])) = Len(rings[i]) - 1
        BY <1>1, <3>2, <3>8, RemoveAtEffect
    <3> QED
        BY <1>1, <3>9, <3>10
  <2> QED
    BY <2>2, <2>3
<1>9. DOMAIN rings[i] = 1 .. Len(rings[i])
    BY <1>1
<1>10. \E d \in Peers, a \in Addresses, l \in Nat : AddOrUpdatePeer(d, a, l)
    BY <1>2, <1>3, <1>4 DEF TableStep
<1> QED
    BY <1>5, <1>6, <1>7, <1>8, <1>9, <1>10 DEF AddOrUpdatePeer

\* A peer of good standing loses its place in a full ring only to a faster one, and only if
\* nobody in the ring was unstable or out of reach (AddOrUpdatePeer).
THEOREM GoodPeersLeaveLast == MeshSpec => GoodPeersYieldLast
<1>1. TrustInv /\ RouterInv /\ [MeshNext]_meshVars => [GivesWayRightly]_routerVars
    BY EveryStepIsATableStep, WayIsGivenRightly
<1>2. MeshSpec => [][GivesWayRightly]_routerVars
    BY <1>1, TrustAndTable, PTL DEF MeshSpec
<1> QED
    BY <1>2 DEF GoodPeersYieldLast
-----------------------------------------------------------------------------
(* The healer and the prober. *)

Losses      == 0 .. MaxConsecutiveLosses
Successes   == 0 .. RecoverySuccesses
SinceFlaps  == 0 .. FlapWindow
HoldDowns   == 0 .. PenaltyMax
FlapCounts  == 0 .. FlapsThatCount
Ages        == 0 .. MaxRTT

LinkStats == [losses : Losses, successes : Successes, degraded : BOOLEAN,
              sinceFailover : SinceFlaps, holdDown : HoldDowns, flaps : FlapCounts]

ProbeStats == [endpoint : Addresses, losses : Losses]

\* A link that is in use waits for nothing.
Waited(s) == ~s.degraded => s.holdDown = 0

\* Only what the prober knows the healer judges, and the two agree.
HealingInv ==
    /\ HealingTypeOK
    /\ DOMAIN link \subseteq DOMAIN probed
    /\ CountsAgree
    /\ HoldDownHolds

LEMMA HealingBounds ==
    /\ MaxConsecutiveLosses \in Nat /\ RecoverySuccesses \in Nat /\ FlapWindow \in Nat
    /\ PenaltyStep \in Nat /\ PenaltyMax \in Nat /\ FlapsThatCount \in Nat /\ MaxRTT \in Nat
<1> DEFINE quotient == (PenaltyMax + PenaltyStep - 1) \div PenaltyStep
<1>1. /\ PenaltyStep \in Nat \ {0} /\ PenaltyMax \in Nat \ {0}
      /\ PenaltyMax + PenaltyStep - 1 >= PenaltyStep
    BY HealingAssumption DEF HealingAssumption
<1>2. quotient \in Nat /\ quotient >= 1
  <2> SUFFICES ASSUME NEW n \in Nat, NEW s \in Nat \ {0}, n >= s PROVE n \div s >= 1
    BY <1>1
  <2> QED
    OBVIOUS
<1>3. FlapsThatCount \in Nat
    BY <1>2 DEF FlapsThatCount
<1> QED
    BY <1>1, <1>3, HealingAssumption DEF HealingAssumption

LEMMA LossEffect ==
    ASSUME NEW s \in LinkStats, Waited(s)
    PROVE  /\ Lost(s) \in LinkStats /\ Waited(Lost(s))
           /\ Lost(s).losses = Least(s.losses + 1, MaxConsecutiveLosses)
<1> DEFINE n == Least(s.losses + 1, MaxConsecutiveLosses)
           more == s.degraded \/ n >= MaxConsecutiveLosses
<1>1. n \in Losses /\ 0 \in Successes /\ s.losses \in Losses
    BY HealingBounds DEF Least, Losses, Successes, LinkStats
<1>2. Lost(s) = [s EXCEPT !.losses = n, !.successes = 0, !.degraded = more]
    BY DEF Lost, LinkStats
<1>3. more \in BOOLEAN
    OBVIOUS
<1> HIDE DEF n
<1>4. Lost(s) \in LinkStats
    BY <1>1, <1>2, <1>3 DEF LinkStats
<1>5. Lost(s).losses = n /\ Lost(s).degraded = more /\ Lost(s).holdDown = s.holdDown
    BY <1>2 DEF LinkStats
<1> QED
    BY <1>4, <1>5 DEF n, Waited

LEMMA SlowEffect ==
    ASSUME NEW s \in LinkStats
    PROVE  Slow(s) \in LinkStats /\ Slow(s).degraded /\ Slow(s).losses = 0
<1>1. 0 \in Losses /\ 0 \in Successes
    BY HealingBounds DEF Losses, Successes
<1> QED
    BY <1>1 DEF Slow, LinkStats

LEMMA GoodEffect ==
    ASSUME NEW s \in LinkStats, Waited(s)
    PROVE  Good(s) \in LinkStats /\ Waited(Good(s)) /\ Good(s).losses = 0
<1> DEFINE n == Least(s.successes + 1, RecoverySuccesses)
<1>1. /\ n \in Successes /\ 0 \in Losses /\ 0 \in FlapCounts
    BY HealingBounds DEF Least, Losses, Successes, FlapCounts, LinkStats
<1>2. Good(s) = IF n >= RecoverySuccesses /\ s.holdDown = 0
                THEN [s EXCEPT !.losses = 0, !.successes = n, !.degraded = FALSE, !.flaps = 0]
                ELSE [s EXCEPT !.losses = 0, !.successes = n]
    BY DEF Good
<1> HIDE DEF n
<1>3. /\ [s EXCEPT !.losses = 0, !.successes = n, !.degraded = FALSE, !.flaps = 0] \in LinkStats
      /\ [s EXCEPT !.losses = 0, !.successes = n] \in LinkStats
    BY <1>1 DEF LinkStats
<1>4. CASE n >= RecoverySuccesses /\ s.holdDown = 0
    BY <1>2, <1>3, <1>4 DEF Waited, LinkStats
<1>5. CASE ~(n >= RecoverySuccesses /\ s.holdDown = 0)
    BY <1>2, <1>3, <1>5 DEF Waited, LinkStats
<1> QED
    BY <1>4, <1>5

LEMMA DampEffect ==
    ASSUME NEW s \in LinkStats, s.degraded
    PROVE  /\ Damped(s) \in LinkStats /\ Damped(s).degraded
           /\ Damped(s).losses = s.losses
<1> DEFINE n == s.flaps + 1
           fl == Least(n, FlapsThatCount)
           hd == Least(n * PenaltyStep, PenaltyMax)
<1>1. fl \in FlapCounts /\ hd \in HoldDowns /\ 0 \in SinceFlaps
  <2>1. s.flaps \in Nat
    BY DEF LinkStats, FlapCounts
  <2>2. n \in Nat /\ n * PenaltyStep \in Nat
    BY <2>1, HealingBounds
  <2> HIDE DEF n
  <2> QED
    BY <2>2, HealingBounds DEF Least, FlapCounts, HoldDowns, SinceFlaps
<1>2. Damped(s) = IF s.sinceFailover < FlapWindow
                  THEN [s EXCEPT !.flaps = fl, !.holdDown = hd, !.sinceFailover = 0]
                  ELSE [s EXCEPT !.sinceFailover = 0]
    BY DEF Damped
<1> HIDE DEF fl, hd
<1> QED
    BY <1>1, <1>2 DEF LinkStats

LEMMA ResultEffect ==
    ASSUME NEW s \in LinkStats, Waited(s), NEW success \in BOOLEAN, NEW rtt
    PROVE  LET r == AfterResult(s, success, rtt) IN
           /\ r \in LinkStats /\ Waited(r)
           /\ r.losses = IF success THEN 0 ELSE Least(s.losses + 1, MaxConsecutiveLosses)
<1> DEFINE slow == rtt > DegradedLatency
           s1   == IF ~success THEN Lost(s) ELSE IF slow THEN Slow(s) ELSE Good(s)
<1>1. /\ s1 \in LinkStats /\ Waited(s1)
      /\ s1.losses = IF success THEN 0 ELSE Least(s.losses + 1, MaxConsecutiveLosses)
    BY LossEffect, SlowEffect, GoodEffect DEF Waited
<1>2. AfterResult(s, success, rtt) = IF (~success \/ slow) /\ s1.degraded THEN Damped(s1) ELSE s1
    BY DEF AfterResult
<1> HIDE DEF s1, slow
<1> QED
    BY <1>1, <1>2, DampEffect DEF Waited

LEMMA PutEffect ==
    ASSUME NEW f, NEW d, NEW r
    PROVE  /\ DOMAIN Put(f, d, r) = DOMAIN f \cup {d} /\ Put(f, d, r)[d] = r
           /\ \A e \in DOMAIN f \ {d} : Put(f, d, r)[e] = f[e]
BY DEF Put

LEMMA FreshLinkIsSound == FreshLink \in LinkStats /\ Waited(FreshLink) /\ FreshLink.losses = 0
<1>1. /\ 0 \in Losses /\ 0 \in Successes /\ FlapWindow \in SinceFlaps
      /\ 0 \in HoldDowns /\ 0 \in FlapCounts
    BY HealingBounds DEF Losses, Successes, SinceFlaps, HoldDowns, FlapCounts
<1> QED
    BY <1>1 DEF FreshLink, LinkStats, Waited

\* The parts of HealingInv, one by one.
Links(l) == \A d \in DOMAIN l : l[d] \in LinkStats /\ Waited(l[d])

Probes(p) == DOMAIN p \subseteq Peers /\ \A d \in DOMAIN p : p[d] \in ProbeStats

Agree(l, p) ==
    /\ DOMAIN l \subseteq DOMAIN p
    /\ \A d \in DOMAIN p : p[d].losses = IF d \in DOMAIN l THEN l[d].losses ELSE 0

Datagrams(u) == u \subseteq [addr : Addresses, age : Ages]

LEMMA HealingParts ==
    HealingInv <=> /\ Links(link) /\ Probes(probed) /\ Agree(link, probed)
                   /\ sweep \subseteq Targets /\ unsent \subseteq Targets /\ Datagrams(inFlight)
<1>1. FreshLink.losses = 0
    BY FreshLinkIsSound
<1>2. DOMAIN link \subseteq DOMAIN probed =>
        (CountsAgree <=> \A d \in DOMAIN probed :
                           probed[d].losses = IF d \in DOMAIN link THEN link[d].losses ELSE 0)
    BY <1>1 DEF CountsAgree, LinkOf
<1> QED
    BY <1>2 DEF HealingInv, HealingTypeOK, HoldDownHolds, Links, Probes, Agree, Datagrams,
       Waited, LinkStats, ProbeStats, Losses, Successes, SinceFlaps, HoldDowns, FlapCounts, Ages

LEMMA HealingPartsNext ==
    ASSUME Links(link'), Probes(probed'), Agree(link', probed'),
           sweep' \subseteq Targets, unsent' \subseteq Targets, Datagrams(inFlight')
    PROVE  HealingInv'
<1>1. FreshLink.losses = 0
    BY FreshLinkIsSound
<1>2. CountsAgree'
    BY <1>1 DEF CountsAgree, LinkOf, Agree
<1> QED
    BY <1>2 DEF HealingInv, HealingTypeOK, HoldDownHolds, Links, Probes, Agree, Datagrams,
       Waited, LinkStats, ProbeStats, Losses, Successes, SinceFlaps, HoldDowns, FlapCounts, Ages

\* A result is noted for the prober and for the healer.
LEMMA ResultNoted ==
    ASSUME HealingInv, NEW d \in Peers, NEW success \in BOOLEAN, NEW rtt,
           RecordProbeResult(d, success, rtt), NEW p \in ProbeStats,
           probed' = Put(probed, d, p),
           p.losses = IF success THEN 0
                      ELSE IF d \in DOMAIN probed
                           THEN Least(probed[d].losses + 1, MaxConsecutiveLosses)
                           ELSE Least(1, MaxConsecutiveLosses)
    PROVE  Links(link') /\ Probes(probed') /\ Agree(link', probed')
<1> DEFINE s == LinkOf(d)
           r == AfterResult(s, success, rtt)
<1>1. Links(link) /\ Probes(probed) /\ Agree(link, probed)
    BY HealingParts
<1>2. /\ s \in LinkStats /\ Waited(s)
      /\ s.losses = IF d \in DOMAIN link THEN link[d].losses ELSE 0
    BY <1>1, FreshLinkIsSound DEF LinkOf, Links
<1>3. s.losses = IF d \in DOMAIN probed THEN probed[d].losses ELSE 0
    BY <1>1, <1>2 DEF Agree
<1> HIDE DEF s
<1>4. /\ r \in LinkStats /\ Waited(r)
      /\ r.losses = IF success THEN 0 ELSE Least(s.losses + 1, MaxConsecutiveLosses)
    BY <1>2, ResultEffect
<1>5. r.losses = p.losses
    BY <1>3, <1>4
<1>6. link' = Put(link, d, r)
    BY DEF RecordProbeResult, s
<1> HIDE DEF r
<1>7. Links(link')
    BY <1>1, <1>4, <1>6 DEF Links, Put
<1>8. Probes(probed')
    BY <1>1 DEF Probes, Put
<1>9. Agree(link', probed')
    BY <1>1, <1>5, <1>6 DEF Agree, Put
<1> QED
    BY <1>7, <1>8, <1>9

LEMMA LossNoted ==
    ASSUME HealingInv, NEW d \in Peers, NEW a \in Addresses, RecordLoss(d, a)
    PROVE  Links(link') /\ Probes(probed') /\ Agree(link', probed')
<1> DEFINE old == IF d \in DOMAIN probed THEN probed[d] ELSE [endpoint |-> a, losses |-> 0]
           n == Least(old.losses + 1, MaxConsecutiveLosses)
           p == [old EXCEPT !.losses = n]
<1>1. Probes(probed)
    BY HealingParts
<1>2. old \in ProbeStats
  <2>1. 0 \in Losses
    BY HealingBounds DEF Losses
  <2> QED
    BY <1>1, <2>1 DEF Probes, ProbeStats
<1>3. n \in Losses /\ 0 \in Losses /\ old.losses \in Losses
    BY <1>2, HealingBounds DEF Least, Losses, ProbeStats
<1>4. probed' = Put(probed, d, p) /\ RecordProbeResult(d, FALSE, 0)
    BY DEF RecordLoss
<1>5. old.losses = IF d \in DOMAIN probed THEN probed[d].losses ELSE 0
    OBVIOUS
<1>6. n = IF d \in DOMAIN probed THEN Least(probed[d].losses + 1, MaxConsecutiveLosses)
          ELSE Least(1, MaxConsecutiveLosses)
    BY <1>5
<1> HIDE DEF old, n
<1>7. p \in ProbeStats /\ p.losses = n
    BY <1>2, <1>3 DEF ProbeStats
<1> HIDE DEF p
<1> QED
    BY <1>4, <1>6, <1>7, ResultNoted

LEMMA CreditNoted ==
    ASSUME HealingInv, NEW a, NEW rtt, Credit(a, rtt)
    PROVE  Links(link') /\ Probes(probed') /\ Agree(link', probed')
<1>1. Probes(probed)
    BY HealingParts
<1>2. PICK d \in DOMAIN probed :
        probed' = [probed EXCEPT ![d].losses = 0] /\ RecordProbeResult(d, TRUE, rtt)
    BY DEF Credit
<1>3. PICK q \in ProbeStats : q = probed[d]
  <2>1. probed[d] \in ProbeStats
    BY <1>1 DEF Probes
  <2> QED
    BY <2>1
<1> DEFINE p == [q EXCEPT !.losses = 0]
<1>4. p \in ProbeStats /\ p.losses = 0
  <2>1. 0 \in Losses
    BY HealingBounds DEF Losses
  <2> QED
    BY <2>1 DEF ProbeStats
<1>5. probed' = [probed EXCEPT ![d] = p]
    BY <1>2, <1>3
<1> HIDE DEF p
<1>6. probed' = Put(probed, d, p) /\ d \in Peers
    BY <1>1, <1>5 DEF Put, Probes
<1> QED
    BY <1>2, <1>4, <1>6, ResultNoted

LEMMA HealingStep ==
    HealingInv /\ RouterTypeOK /\ [MeshNext]_meshVars => HealingInv'
<1> SUFFICES ASSUME HealingInv, RouterTypeOK, [MeshNext]_meshVars PROVE HealingInv'
    OBVIOUS
<1>1. /\ Links(link) /\ Probes(probed) /\ Agree(link, probed)
      /\ sweep \subseteq Targets /\ unsent \subseteq Targets /\ Datagrams(inFlight)
    BY HealingParts
<1>2. CASE UNCHANGED healingOwn
    BY <1>1, <1>2, HealingPartsNext DEF healingOwn
<1>3. CASE BeginSweep
  <2>1. \A d \in DOMAIN peers : [did |-> d, addr |-> peers[d].addr] \in Targets
    <3> SUFFICES ASSUME NEW d \in DOMAIN peers
                 PROVE  [did |-> d, addr |-> peers[d].addr] \in Targets
        OBVIOUS
    <3>1. PICK p \in PeerNodes : p = peers[d]
      <4>1. peers[d] \in PeerNodes
          BY DEF RouterTypeOK
      <4> QED
          BY <4>1
    <3>2. p.addr \in Addresses
        BY DEF PeerNodes
    <3> QED
        BY <3>1, <3>2 DEF Targets, RouterTypeOK
  <2> QED
    BY <1>1, <1>3, <2>1, HealingPartsNext DEF BeginSweep
<1>4. ASSUME NEW p \in sweep, Send(p) PROVE HealingInv'
  <2>1. p \in Targets /\ p.did \in Peers /\ p.addr \in Addresses
    BY <1>1 DEF Targets
  <2>2. 0 \in Losses /\ 0 \in Ages
    BY HealingBounds DEF Losses, Ages
  <2>3. /\ link' = link /\ sweep' = sweep \ {p}
        /\ probed' = IF p.did \in DOMAIN probed THEN probed
                     ELSE Put(probed, p.did, [endpoint |-> p.addr, losses |-> 0])
    BY <1>4 DEF Send
  <2>4. Probes(probed') /\ Agree(link', probed')
    <3>1. CASE p.did \in DOMAIN probed
        BY <1>1, <2>3, <3>1
    <3>2. CASE p.did \notin DOMAIN probed
      <4> DEFINE q == [endpoint |-> p.addr, losses |-> 0]
      <4>1. q \in ProbeStats /\ q.losses = 0
          BY <2>1, <2>2 DEF ProbeStats
      <4>2. probed' = Put(probed, p.did, q)
          BY <2>3, <3>2
      <4> HIDE DEF q
      <4>3. p.did \notin DOMAIN link
          BY <1>1, <3>2 DEF Agree
      <4>4. Probes(probed')
          BY <1>1, <2>1, <4>1, <4>2 DEF Probes, Put
      <4>5. Agree(link', probed')
          BY <1>1, <2>3, <4>1, <4>2, <4>3 DEF Agree, Put
      <4> QED
          BY <4>4, <4>5
    <3> QED
        BY <3>1, <3>2
  <2>5. Datagrams(inFlight') /\ unsent' \subseteq Targets
    <3>1. [addr |-> p.addr, age |-> 0] \in [addr : Addresses, age : Ages]
        BY <2>1, <2>2
    <3> QED
        BY <1>1, <1>4, <2>1, <3>1 DEF Send, Datagrams
  <2> QED
    BY <1>1, <2>3, <2>4, <2>5, HealingPartsNext
<1>5. CASE WriteFailed
  <2>1. PICK p \in unsent : RecordLoss(p.did, p.addr)
    BY <1>5 DEF WriteFailed
  <2>2. p.did \in Peers /\ p.addr \in Addresses
    BY <1>1 DEF Targets
  <2>3. Links(link') /\ Probes(probed') /\ Agree(link', probed')
    BY <2>1, <2>2, LossNoted
  <2> QED
    BY <1>1, <1>5, <2>3, HealingPartsNext DEF WriteFailed
<1>6. ASSUME NEW d \in Contacts, TimedOut(d) PROVE HealingInv'
  <2>1. d \in Peers /\ probed[d] \in ProbeStats
    BY <1>1, <1>6 DEF TimedOut, Probes
  <2>2. probed[d].endpoint \in Addresses
    BY <2>1 DEF ProbeStats
  <2>3. Links(link') /\ Probes(probed') /\ Agree(link', probed')
    BY <1>6, <2>1, <2>2, LossNoted DEF TimedOut
  <2> QED
    BY <1>1, <1>6, <2>3, HealingPartsNext DEF TimedOut
<1>7. ASSUME NEW p \in inFlight, Echo(p) PROVE HealingInv'
    BY <1>1, <1>7, CreditNoted, HealingPartsNext DEF Echo
<1>8. ASSUME NEW p \in inFlight, Vanish(p) PROVE HealingInv'
    BY <1>1, <1>8, HealingPartsNext DEF Vanish, Datagrams
<1>9. CASE Tick
  <2>1. ASSUME NEW s \in LinkStats, Waited(s)
        PROVE  LET t == [s EXCEPT !.sinceFailover = Least(@ + 1, FlapWindow),
                                  !.holdDown = IF @ = 0 THEN 0 ELSE @ - 1]
               IN  t \in LinkStats /\ Waited(t) /\ t.losses = s.losses
    <3> DEFINE since == Least(s.sinceFailover + 1, FlapWindow)
               wait == IF s.holdDown = 0 THEN 0 ELSE s.holdDown - 1
               t == [s EXCEPT !.sinceFailover = since, !.holdDown = wait]
    <3>1. since \in SinceFlaps /\ wait \in HoldDowns /\ (s.holdDown = 0 => wait = 0)
      <4>1. s.sinceFailover \in SinceFlaps /\ s.holdDown \in HoldDowns
          BY DEF LinkStats
      <4> QED
          BY <4>1, HealingBounds DEF Least, SinceFlaps, HoldDowns
    <3> HIDE DEF since, wait
    <3>2. /\ t \in LinkStats /\ t.losses = s.losses
          /\ t.degraded = s.degraded /\ t.holdDown = wait
        BY <3>1 DEF LinkStats
    <3>3. Waited(t)
        BY <2>1, <3>1, <3>2 DEF Waited
    <3> QED
        BY <3>2, <3>3 DEF since, wait
  <2>2. DOMAIN link' = DOMAIN link /\ \A d \in DOMAIN link :
          link'[d] \in LinkStats /\ Waited(link'[d]) /\ link'[d].losses = link[d].losses
    <3> SUFFICES ASSUME NEW d \in DOMAIN link
                 PROVE  link'[d] \in LinkStats /\ Waited(link'[d])
                        /\ link'[d].losses = link[d].losses
        BY <1>9 DEF Tick
    <3>1. link[d] \in LinkStats /\ Waited(link[d])
        BY <1>1 DEF Links
    <3>2. PICK s \in LinkStats : s = link[d] /\ Waited(s)
        BY <3>1
    <3>3. link'[d] = [s EXCEPT !.sinceFailover = Least(@ + 1, FlapWindow),
                               !.holdDown = IF @ = 0 THEN 0 ELSE @ - 1]
        BY <1>9, <3>2 DEF Tick
    <3> QED
        BY <2>1, <3>2, <3>3
  <2>3. Links(link') /\ Agree(link', probed')
    BY <1>1, <1>9, <2>2 DEF Tick, Links, Agree
  <2>4. Datagrams(inFlight')
    <3>1. ASSUME NEW q \in [addr : Addresses, age : Ages], q.age < MaxRTT
          PROVE  [q EXCEPT !.age = @ + 1] \in [addr : Addresses, age : Ages]
      <4>1. q.age \in Ages /\ q.age + 1 \in Ages
          BY <3>1, HealingBounds DEF Ages
      <4> QED
          BY <4>1
    <3> QED
        BY <1>1, <1>9, <3>1 DEF Tick, Datagrams
  <2> QED
    BY <1>1, <1>9, <2>3, <2>4, HealingPartsNext DEF Tick
<1>10. CASE UNCHANGED meshVars
    BY <1>2, <1>10 DEF meshVars
<1>11. CASE HealingNext
    BY <1>2, <1>3, <1>4, <1>5, <1>6, <1>7, <1>8, <1>9, <1>11
    DEF HealingNext, Leave, Roam, healingOwn
<1> QED
    BY <1>2, <1>10, <1>11 DEF MeshNext

LEMMA HealingHolds == MeshSpec => []HealingInv
<1>1. MeshInit => HealingInv
  <2> SUFFICES ASSUME MeshInit PROVE HealingInv
    OBVIOUS
  <2>1. /\ link = [d \in {} |-> {}] /\ probed = [d \in {} |-> {}]
        /\ sweep = {} /\ unsent = {} /\ inFlight = {}
    BY DEF MeshInit, HealingInit
  <2>2. DOMAIN link = {} /\ DOMAIN probed = {}
    BY <2>1
  <2> QED
    BY <2>1, <2>2, HealingParts DEF Links, Probes, Agree, Datagrams
<1>2. TrustInv /\ RouterInv => RouterTypeOK
    BY DEF RouterInv
<1>3. HealingInv /\ RouterTypeOK /\ [MeshNext]_meshVars => HealingInv'
    BY HealingStep
<1> QED
    BY <1>1, <1>2, <1>3, TrustAndTable, PTL DEF MeshSpec

\* A link that flapped is not in use while its hold-down lasts, however many good answers
\* arrive (RecordProbeResult).
THEOREM FlappingLinksWait == MeshSpec => []HoldDownHolds
<1>1. HealingInv => HoldDownHolds
    BY DEF HealingInv
<1> QED
    BY <1>1, HealingHolds, PTL

\* The prober and the healer count the same losses in a row for every peer, whoever an echo
\* was credited to (recordLoss, recordSuccess).
THEOREM LossesAreCountedAlike == MeshSpec => []CountsAgree
<1>1. HealingInv => CountsAgree
    BY DEF HealingInv
<1> QED
    BY <1>1, HealingHolds, PTL

-----------------------------------------------------------------------------
(* The relays. *)

Seqs      == 0 .. MaxPackets
Numbers   == 1 .. MaxPackets

Datas == [src : Nodes, seq : Seqs, dst : DIDs, at : Addresses, from : Nodes, seen : SUBSET Nodes]

\* Every node has an index of peers that live at nodes.
Tables(t) ==
    /\ DOMAIN t = Nodes
    /\ \A n \in Nodes : /\ IsIndex(t[n]) /\ DOMAIN t[n] \subseteq DIDs
                        /\ \A d \in DOMAIN t[n] : t[n][d].addr \in Nodes

Chained(t) ==
    \A n \in Nodes : \A d \in DOMAIN t[n] :
        t[n][d].addr # d => d \in DOMAIN t[t[n][d].addr]

\* A packet comes from its origin, or from a node that knows its origin.
Traceable(p, t) ==
    /\ p \in Datas /\ p.at \in Nodes
    /\ p.from = p.src \/ p.src \in DOMAIN t[p.from]

\* Without the second and third part LocatorsChain is not inductive: an address is learnt from
\* a packet, and only its last sender can vouch for it.
RelayInv ==
    /\ Tables(tables)
    /\ Chained(tables)
    /\ \A p \in inTransit : Traceable(p, tables)
    /\ accepted \in [Nodes -> SUBSET (Nodes \X Numbers)] /\ sent \in Seqs

LEMMA NextHopsAreKnown == ASSUME NEW t, NEW dst PROVE NextHops(t, dst) \subseteq DOMAIN t
BY DEF NextHops, BestCandidates

\* A packet forwarded goes to the address of a peer of the table.
Hop(p, n, a) == [p EXCEPT !.at = a, !.from = n, !.seen = @ \cup {n}]

LEMMA HopFields ==
    ASSUME NEW p \in Datas, NEW n \in Nodes, NEW a \in Nodes
    PROVE  /\ Hop(p, n, a) \in Datas /\ Hop(p, n, a).at = a /\ Hop(p, n, a).from = n
           /\ Hop(p, n, a).src = p.src /\ Hop(p, n, a).seq = p.seq
           /\ Hop(p, n, a).seen = p.seen \cup {n}
<1>1. a \in Addresses
    BY RelayAssumption DEF RelayAssumption
<1>2. Hop(p, n, a) = [p EXCEPT !.at = a, !.from = n, !.seen = p.seen \cup {n}]
    BY DEF Hop
<1> QED
    BY <1>1, <1>2 DEF Datas

LEMMA ForwardedHop ==
    ASSUME NEW t, NEW n, NEW p, NEW q \in Forwarded(p, n, t)
    PROVE  \E h \in DOMAIN t : q = Hop(p, n, t[h].addr)
<1>1. Forwarded(p, n, t) = {Hop(p, n, t[h].addr) : h \in NextHops(t, p.dst)}
    BY Zenon DEF Forwarded, Hop
<1>2. PICK h \in NextHops(t, p.dst) : q = Hop(p, n, t[h].addr)
    BY <1>1
<1>3. h \in DOMAIN t
    BY NextHopsAreKnown
<1> QED
    BY <1>2, <1>3

LEMMA ForwardedEffect ==
    ASSUME NEW t, Tables(t), NEW n \in Nodes, NEW p \in Datas, NEW q \in Forwarded(p, n, t[n])
    PROVE  /\ q \in Datas /\ q.at \in Nodes /\ q.from = n
           /\ q.src = p.src /\ q.seq = p.seq /\ q.seen = p.seen \cup {n}
<1>1. PICK h \in DOMAIN t[n] : q = Hop(p, n, t[n][h].addr)
    BY ForwardedHop
<1>2. t[n][h].addr \in Nodes
    BY DEF Tables
<1> QED
    BY <1>1, <1>2, HopFields

LEMMA OriginNoted ==
    ASSUME Tables(tables), Chained(tables), NEW p, Traceable(p, tables)
    PROVE  /\ Tables(NoteOrigin(p)) /\ Chained(NoteOrigin(p))
           /\ \A n \in Nodes : DOMAIN tables[n] \subseteq DOMAIN NoteOrigin(p)[n]
           /\ p.src = p.at \/ p.src \in DOMAIN NoteOrigin(p)[p.at]
<1>1. CASE p.src = p.at
    BY <1>1 DEF NoteOrigin
<1>2. CASE p.src # p.at
  <2> DEFINE t == tables[p.at]
             u == Noted(t, p.src, p.from, 10)
             after == [tables EXCEPT ![p.at] = u]
  <2>1. /\ p.at \in Nodes /\ p.src \in Nodes /\ p.from \in Nodes
        /\ p.src \in DIDs /\ p.from \in Addresses
    BY RelayAssumption DEF Traceable, Datas, RelayAssumption
  <2>2. IsIndex(t) /\ DOMAIN t \subseteq DIDs /\ \A d \in DOMAIN t : t[d].addr \in Nodes
    BY <2>1 DEF Tables
  <2>3. NotedIn(u, t, p.src, p.from, 10)
    BY <2>1, <2>2, NotedEffect
  <2>4. NoteOrigin(p) = after
    BY <1>2 DEF NoteOrigin
  <2> HIDE DEF u
  <2>5. DOMAIN after = Nodes /\ after[p.at] = u /\ \A n \in Nodes \ {p.at} : after[n] = tables[n]
    BY <2>1 DEF Tables
  <2> HIDE DEF after, t
  <2>6. /\ DOMAIN u = DOMAIN t \cup {p.src} /\ IsIndex(u) /\ u[p.src].addr = p.from
        /\ \A e \in DOMAIN t \ {p.src} : u[e] = t[e]
    BY <2>3 DEF NotedIn
  <2>7. Tables(after)
    BY <2>1, <2>2, <2>5, <2>6 DEF Tables
  <2>8. \A n \in Nodes : DOMAIN tables[n] \subseteq DOMAIN after[n]
    BY <2>5, <2>6 DEF t
  <2>9. Chained(after)
    <3> SUFFICES ASSUME NEW n \in Nodes, NEW d \in DOMAIN after[n], after[n][d].addr # d
                 PROVE  d \in DOMAIN after[after[n][d].addr]
        BY DEF Chained
    <3>1. CASE n # p.at \/ d # p.src
      <4>1. d \in DOMAIN tables[n] /\ after[n][d] = tables[n][d]
          BY <2>5, <2>6, <3>1 DEF t
      <4>2. d \in DOMAIN tables[tables[n][d].addr] /\ tables[n][d].addr \in Nodes
          BY <4>1 DEF Chained, Tables
      <4> QED
          BY <2>8, <4>1, <4>2
    <3>2. CASE n = p.at /\ d = p.src
      <4>1. after[n][d].addr = p.from
          BY <2>5, <2>6, <3>2
      <4>2. p.src \in DOMAIN tables[p.from]
          BY <3>2, <4>1 DEF Traceable
      <4> QED
          BY <2>1, <2>8, <3>2, <4>1, <4>2
    <3> QED
        BY <3>1, <3>2
  <2> QED
    BY <2>4, <2>5, <2>6, <2>7, <2>8, <2>9
<1> QED
    BY <1>1, <1>2

LEMMA RelayStep == RelayInv /\ [MeshNext]_meshVars => RelayInv'
<1> SUFFICES ASSUME RelayInv, [MeshNext]_meshVars PROVE RelayInv'
    OBVIOUS
<1>1. CASE UNCHANGED relayVars
    BY <1>1 DEF relayVars, RelayInv
<1>2. ASSUME NEW n \in Nodes, NEW dst \in Nodes \cup Strangers, Originate(n, dst) PROVE RelayInv'
  <2>1. sent \in Nat /\ MaxPackets \in Nat /\ sent < MaxPackets /\ dst \in DIDs
    BY <1>2, RelayAssumption DEF Originate, RelayInv, RelayAssumption, Seqs
  <2>2. sent' = sent + 1 /\ UNCHANGED <<tables, accepted>>
    BY <1>2 DEF Originate
  <2>3. sent' \in Seqs /\ Plain \in Seqs
    BY <2>1, <2>2 DEF Seqs, Plain
  <2>4. PICK seq \in Seqs :
          \E q \in Forwarded([src |-> n, seq |-> seq, dst |-> dst, at |-> n, from |-> n,
                              seen |-> {}], n, tables[n]) : inTransit' = inTransit \cup {q}
    BY <1>2, <2>2, <2>3 DEF Originate
  <2> DEFINE p == [src |-> n, seq |-> seq, dst |-> dst, at |-> n, from |-> n, seen |-> {}]
  <2>5. p \in Datas /\ p.src = n
    BY <2>1, RelayAssumption DEF Datas, RelayAssumption
  <2>6. PICK q \in Forwarded(p, n, tables[n]) : inTransit' = inTransit \cup {q}
    BY <2>4
  <2> HIDE DEF p
  <2>7. q \in Datas /\ q.at \in Nodes /\ q.from = n /\ q.src = n
    BY <2>5, <2>6, ForwardedEffect DEF RelayInv
  <2> QED
    BY <2>2, <2>3, <2>6, <2>7 DEF RelayInv, Traceable
<1>3. ASSUME NEW p \in inTransit, accepted' = Accepted(p), Traceable(p, tables)
      PROVE  accepted' \in [Nodes -> SUBSET (Nodes \X Numbers)]
  <2>1. CASE p.seq = Plain
    BY <1>3, <2>1 DEF Accepted, RelayInv
  <2>2. CASE p.seq # Plain
    <3>1. p.seq \in Seqs /\ p.src \in Nodes /\ p.at \in Nodes /\ MaxPackets \in Nat
        BY <1>3, RelayAssumption DEF Traceable, Datas, RelayAssumption
    <3>2. <<p.src, p.seq>> \in Nodes \X Numbers
        BY <2>2, <3>1 DEF Plain, Seqs, Numbers
    <3> QED
        BY <1>3, <2>2, <3>1, <3>2 DEF Accepted, RelayInv
  <2> QED
    BY <2>1, <2>2
<1>4. ASSUME NEW p \in inTransit, Handle(p) \/ Lose(p) PROVE RelayInv'
  <2>1. /\ Traceable(p, tables) /\ Tables(tables) /\ Chained(tables)
        /\ \A q \in inTransit : Traceable(q, tables)
        /\ accepted \in [Nodes -> SUBSET (Nodes \X Numbers)] /\ sent \in Seqs
    BY DEF RelayInv
  <2>2. CASE Discard(p) \/ Lose(p)
    BY <1>3, <2>1, <2>2 DEF Discard, Lose, RelayInv
  <2> DEFINE after == NoteOrigin(p)
  <2>3. /\ Tables(after) /\ Chained(after)
        /\ \A n \in Nodes : DOMAIN tables[n] \subseteq DOMAIN after[n]
        /\ p.src = p.at \/ p.src \in DOMAIN after[p.at]
    BY <2>1, OriginNoted
  <2> HIDE DEF after
  <2>4. \A q : Traceable(q, tables) => Traceable(q, after)
    <3>1. \A q : q \in Datas => q.from \in Nodes
        BY DEF Datas
    <3> QED
        BY <2>3, <3>1 DEF Traceable
  <2>5. CASE Keep(p)
    <3>1. tables' = after /\ accepted' = Accepted(p) /\ inTransit' = inTransit \ {p} /\ sent' = sent
        BY <2>5 DEF Keep, after
    <3> QED
        BY <1>3, <2>1, <2>3, <2>4, <3>1 DEF RelayInv
  <2>6. CASE Relay(p)
    <3>1. tables' = after /\ accepted' = Accepted(p) /\ sent' = sent
        BY <2>6 DEF Relay, after
    <3>2. PICK q \in Forwarded(p, p.at, after[p.at]) : inTransit' = (inTransit \ {p}) \cup {q}
        BY <2>6 DEF Relay, after
    <3>3. p \in Datas /\ p.at \in Nodes
        BY <2>1 DEF Traceable
    <3>4. q \in Datas /\ q.at \in Nodes /\ q.from = p.at /\ q.src = p.src
        BY <2>3, <3>2, <3>3, ForwardedEffect
    <3>5. Traceable(q, after)
        BY <2>3, <3>4 DEF Traceable
    <3> QED
        BY <1>3, <2>1, <2>3, <2>4, <3>1, <3>2, <3>5 DEF RelayInv
  <2> QED
    BY <1>4, <2>2, <2>5, <2>6 DEF Handle
<1>5. CASE UNCHANGED meshVars
    BY <1>1, <1>5 DEF meshVars
<1>6. CASE RelayNext
    BY <1>2, <1>4, <1>6 DEF RelayNext
<1> QED
    BY <1>1, <1>5, <1>6 DEF MeshNext

LEMMA RelayStarts == MeshInit => RelayInv
<1> SUFFICES ASSUME MeshInit PROVE RelayInv
    OBVIOUS
<1>1. inTransit = {} /\ accepted = [n \in Nodes |-> {}] /\ sent = 0 /\ MaxPackets \in Nat
    BY RelayAssumption DEF MeshInit, RelayInit, AtRest, RelayAssumption
<1>2. sent \in Seqs /\ accepted \in [Nodes -> SUBSET (Nodes \X Numbers)]
    BY <1>1 DEF Seqs
<1>3. CASE AtRest
  <2>1. DOMAIN tables = Nodes /\ \A n \in Nodes : DOMAIN tables[n] = {}
    BY <1>3 DEF AtRest
  <2> QED
    BY <1>1, <1>2, <2>1 DEF RelayInv, Tables, Chained, IsIndex
<1>4. CASE RelayInit
  <2>1. DOMAIN tables = Nodes /\ \A n \in Nodes : tables[n] \in FirstTables(n)
    BY <1>4 DEF RelayInit
  <2>2. ASSUME NEW n \in Nodes
        PROVE  /\ IsIndex(tables[n]) /\ DOMAIN tables[n] \subseteq DIDs
               /\ \A d \in DOMAIN tables[n] : tables[n][d].addr = d /\ d \in Nodes
    <3> DEFINE dead(d) == [addr |-> d, lat |-> 10, score |-> 0, health |-> "Unreachable"]
    <3>1. PICK known \in SUBSET (Nodes \ {n}) :
            tables[n] = [d \in known |-> IF n \in Pessimists THEN dead(d) ELSE NewPeer(d, 10)]
        BY <2>1 DEF FirstTables
    <3>2. ASSUME NEW d \in known
          PROVE  /\ dead(d) \in PeerNodes /\ dead(d).addr = d
                 /\ NewPeer(d, 10) \in PeerNodes /\ NewPeer(d, 10).addr = d
      <4>1. 0 \in Scores /\ 10000 \in Scores
          BY DEF Scores
      <4>2. d \in Addresses
          BY RelayAssumption DEF RelayAssumption
      <4>3. NewPeer(d, 10) \in PeerNodes /\ NewPeer(d, 10).addr = d
          BY <4>1, <4>2 DEF NewPeer, PeerNodes, HealthStates, Usable
      <4>4. dead(d) \in PeerNodes /\ dead(d).addr = d
          BY <4>1, <4>2 DEF PeerNodes, HealthStates
      <4> QED
          BY <4>3, <4>4
    <3> HIDE DEF dead
    <3> QED
        BY <3>1, <3>2, RelayAssumption DEF RelayAssumption, IsIndex
  <2> QED
    BY <1>1, <1>2, <2>1, <2>2 DEF RelayInv, Tables, Chained
<1> QED
    BY <1>3, <1>4 DEF MeshInit

LEMMA RelayHolds == MeshSpec => []RelayInv
BY RelayStarts, RelayStep, PTL DEF MeshSpec

\* Where a node has noted another under the address of a third, the third knows it too: the
\* addresses learnt from relayed packets can be followed (the data case of the receive loop).
THEOREM AddressesCanBeFollowed == MeshSpec => []LocatorsChain
<1>1. RelayInv => LocatorsChain
    BY DEF RelayInv, Chained, LocatorsChain
<1> QED
    BY <1>1, RelayHolds, PTL

\* A node that has relayed a numbered packet has it in its window, unless it sent it.
Footprints ==
    \A p \in inTransit : p.seq # Plain =>
      \A n \in p.seen : n = p.src \/ <<p.src, p.seq>> \in accepted[n]

\* What a packet handled does to the windows: one more mark if it is numbered.
LEMMA MarkOfAccepted ==
    ASSUME RelayInv, NEW p \in inTransit, accepted' = Accepted(p)
    PROVE  /\ \A n \in Nodes : accepted[n] \subseteq accepted'[n]
           /\ p.seq # Plain => <<p.src, p.seq>> \in accepted'[p.at]
<1>1. p.at \in Nodes /\ accepted \in [Nodes -> SUBSET (Nodes \X Numbers)]
    BY DEF RelayInv, Traceable
<1> QED
    BY <1>1 DEF Accepted

\* The steps of the relays: one originates a packet, handles one or loses one.
LEMMA RelaySteps ==
    ASSUME [MeshNext]_meshVars
    PROVE  \/ UNCHANGED relayVars
           \/ \E n \in Nodes, dst \in Nodes \cup Strangers : Originate(n, dst)
           \/ \E p \in inTransit : Handle(p) \/ Lose(p)
BY DEF MeshNext, meshVars, RelayNext

\* A packet sent for the first time.
LEMMA OriginateEffect ==
    ASSUME RelayInv, NEW n \in Nodes, NEW dst \in Nodes \cup Strangers, Originate(n, dst)
    PROVE  /\ sent' = sent + 1 /\ accepted' = accepted
           /\ \E q : inTransit' = inTransit \cup {q} /\ q.seen = {n} /\ q.src = n
<1>1. sent \in Nat /\ MaxPackets \in Nat /\ sent < MaxPackets /\ dst \in DIDs
    BY RelayAssumption DEF Originate, RelayInv, RelayAssumption, Seqs
<1>2. sent' = sent + 1 /\ UNCHANGED <<tables, accepted>>
    BY DEF Originate
<1>3. sent + 1 \in Seqs /\ Plain \in Seqs
    BY <1>1 DEF Seqs, Plain
<1>4. PICK seq \in Seqs :
        \E q \in Forwarded([src |-> n, seq |-> seq, dst |-> dst, at |-> n, from |-> n,
                            seen |-> {}], n, tables[n]) : inTransit' = inTransit \cup {q}
    BY <1>3 DEF Originate
<1> DEFINE p == [src |-> n, seq |-> seq, dst |-> dst, at |-> n, from |-> n, seen |-> {}]
<1>5. p \in Datas /\ p.src = n /\ p.seen = {}
    BY <1>1, RelayAssumption DEF Datas, RelayAssumption
<1>6. PICK q \in Forwarded(p, n, tables[n]) : inTransit' = inTransit \cup {q}
    BY <1>4
<1> HIDE DEF p
<1>7. q.src = n /\ q.seen = {n}
    BY <1>5, <1>6, ForwardedEffect DEF RelayInv
<1> QED
    BY <1>2, <1>6, <1>7

\* A packet handled is gone, or passed on with the mark of the node that passes it on.
LEMMA HandleEffect ==
    ASSUME RelayInv, NEW p \in inTransit, Handle(p)
    PROVE  /\ accepted' = Accepted(p) /\ sent' = sent
           /\ \/ inTransit' = inTransit \ {p}
              \/ \E q : /\ inTransit' = (inTransit \ {p}) \cup {q} /\ Fresh(p)
                        /\ q.src = p.src /\ q.seq = p.seq /\ q.seen = p.seen \cup {p.at}
<1>1. CASE Discard(p) \/ Keep(p)
    BY <1>1 DEF Discard, Keep
<1>2. CASE Relay(p)
  <2> DEFINE after == NoteOrigin(p)
  <2>1. Tables(after) /\ p \in Datas /\ p.at \in Nodes
    BY OriginNoted DEF RelayInv, Traceable
  <2>2. accepted' = Accepted(p) /\ sent' = sent /\ Fresh(p)
    BY <1>2 DEF Relay
  <2>3. PICK q \in Forwarded(p, p.at, after[p.at]) : inTransit' = (inTransit \ {p}) \cup {q}
    BY <1>2 DEF Relay
  <2> HIDE DEF after
  <2>4. q.src = p.src /\ q.seq = p.seq /\ q.seen = p.seen \cup {p.at}
    BY <2>1, <2>3, ForwardedEffect
  <2> QED
    BY <2>2, <2>3, <2>4
<1> QED
    BY <1>1, <1>2 DEF Handle

LEMMA FootprintsStep ==
    ASSUME RelayInv, Footprints, [MeshNext]_meshVars
    PROVE  Footprints'
<1>1. CASE UNCHANGED relayVars
    BY <1>1 DEF relayVars, Footprints
<1>2. ASSUME NEW n \in Nodes, NEW dst \in Nodes \cup Strangers, Originate(n, dst)
      PROVE  Footprints'
  <2>1. PICK q : inTransit' = inTransit \cup {q} /\ q.seen = {n} /\ q.src = n
    BY <1>2, OriginateEffect
  <2>2. accepted' = accepted
    BY <1>2, OriginateEffect
  <2> QED
    BY <2>1, <2>2 DEF Footprints
<1>3. \A p \in inTransit : p.seen \subseteq Nodes
    BY DEF RelayInv, Traceable, Datas
<1>4. ASSUME NEW p \in inTransit, Handle(p) PROVE Footprints'
  <2>1. /\ \A n \in Nodes : accepted[n] \subseteq accepted'[n]
        /\ p.seq # Plain => <<p.src, p.seq>> \in accepted'[p.at]
    BY <1>4, HandleEffect, MarkOfAccepted
  <2>2. \A r \in inTransit : r.seq # Plain =>
          \A n \in r.seen : n = r.src \/ <<r.src, r.seq>> \in accepted'[n]
    BY <1>3, <2>1 DEF Footprints
  <2>3. CASE inTransit' = inTransit \ {p}
    BY <2>2, <2>3 DEF Footprints
  <2>4. CASE \E q : /\ inTransit' = (inTransit \ {p}) \cup {q}
                    /\ q.src = p.src /\ q.seq = p.seq /\ q.seen = p.seen \cup {p.at}
    <3>1. PICK q : /\ inTransit' = (inTransit \ {p}) \cup {q}
                   /\ q.src = p.src /\ q.seq = p.seq /\ q.seen = p.seen \cup {p.at}
        BY <2>4
    <3>2. q.seq # Plain => \A n \in q.seen : n = q.src \/ <<q.src, q.seq>> \in accepted'[n]
        BY <2>1, <2>2, <3>1
    <3> QED
        BY <2>2, <3>1, <3>2 DEF Footprints
  <2> QED
    BY <1>4, <2>3, <2>4, HandleEffect
<1>5. ASSUME NEW p \in inTransit, Lose(p) PROVE Footprints'
    BY <1>5 DEF Lose, Footprints
<1> QED
    BY <1>1, <1>2, <1>4, <1>5, RelaySteps

\* What remains true of NeverComesBack: a numbered packet may come back to a node it has left,
\* and then the filter of that node refuses it, unless the node is its origin, which has not
\* asked its filter about what it sent itself (main.go:203, diagnostics.go:44-96).
ReturnsAreRefused ==
    \A p \in inTransit :
      p.seq # Plain /\ p.at \in p.seen \ {p.src} => ~Fresh(p)

THEOREM ReturningPacketsStop == MeshSpec => []ReturnsAreRefused
<1>1. MeshInit => Footprints
    BY DEF MeshInit, RelayInit, AtRest, Footprints
<1>2. RelayInv /\ Footprints /\ [MeshNext]_meshVars => Footprints'
    BY FootprintsStep
<1>3. Footprints => ReturnsAreRefused
    BY DEF Footprints, ReturnsAreRefused, Fresh
<1> QED
    BY <1>1, <1>2, <1>3, RelayHolds, PTL DEF MeshSpec

\* The part of NumberedPacketsEnd that is safety: a numbered packet gets on its way only by being
\* sent for the first time, or past a node whose filter had not seen it and has from now on; no
\* filter forgets. So every numbered packet makes at most one hop for each node after its first
\* (main.go:203, 269-272).
EveryHopUsesUpANode ==
    [][/\ \A n \in Nodes : accepted[n] \subseteq accepted'[n]
       /\ \A q \in inTransit' \ inTransit :
            \/ q.seq = Plain \/ sent' = sent + 1
            \/ \E n \in Nodes : <<q.src, q.seq>> \in accepted'[n] \ accepted[n]]_relayVars

THEOREM HopsAreNumbered == MeshSpec => EveryHopUsesUpANode
<1> DEFINE Counted == /\ \A n \in Nodes : accepted[n] \subseteq accepted'[n]
                      /\ \A q \in inTransit' \ inTransit :
                           \/ q.seq = Plain \/ sent' = sent + 1
                           \/ \E n \in Nodes : <<q.src, q.seq>> \in accepted'[n] \ accepted[n]
<1>1. ASSUME RelayInv, NEW n \in Nodes, NEW dst \in Nodes \cup Strangers, Originate(n, dst)
      PROVE  Counted
    BY <1>1, OriginateEffect
<1>2. ASSUME RelayInv, NEW p \in inTransit, Handle(p) PROVE Counted
  <2>1. /\ \A n \in Nodes : accepted[n] \subseteq accepted'[n]
        /\ p.seq # Plain => <<p.src, p.seq>> \in accepted'[p.at]
        /\ p.at \in Nodes
    BY <1>2, HandleEffect, MarkOfAccepted DEF RelayInv, Traceable
  <2>2. CASE inTransit' = inTransit \ {p}
    BY <2>1, <2>2
  <2>3. CASE \E q : /\ inTransit' = (inTransit \ {p}) \cup {q} /\ Fresh(p)
                    /\ q.src = p.src /\ q.seq = p.seq /\ q.seen = p.seen \cup {p.at}
    <3>1. PICK q : /\ inTransit' = (inTransit \ {p}) \cup {q} /\ Fresh(p)
                   /\ q.src = p.src /\ q.seq = p.seq
        BY <2>3
    <3>2. q.seq # Plain => <<q.src, q.seq>> \in accepted'[p.at] \ accepted[p.at]
        BY <2>1, <3>1 DEF Fresh
    <3> QED
        BY <2>1, <3>1, <3>2
  <2> QED
    BY <1>2, <2>2, <2>3, HandleEffect
<1>3. ASSUME NEW p \in inTransit, Lose(p) PROVE Counted
    BY <1>3 DEF Lose
<1>4. RelayInv /\ [MeshNext]_meshVars => [Counted]_relayVars
    BY <1>1, <1>2, <1>3, RelaySteps
<1>5. EveryHopUsesUpANode <=> [][Counted]_relayVars
    BY DEF EveryHopUsesUpANode
<1> QED
    BY <1>4, <1>5, RelayHolds, PTL DEF MeshSpec

-----------------------------------------------------------------------------
(* The types of all parts. *)

Counts == 0 .. Cardinality(Peers)

EngineTypes ==
    /\ RendezvousTypeOK
    /\ running \in BOOLEAN /\ stopped \in BOOLEAN
    /\ pc \in {"off", "count", "breaker", "publish", "trust", "meet", "rest"}
    /\ healthy \in Counts
    /\ policies \subseteq Peers /\ granted \subseteq Peers

LEMMA RendezvousKeepsTypes ==
    RendezvousTypeOK /\ [MeshNext]_meshVars => RendezvousTypeOK'
<1> SUFFICES ASSUME RendezvousTypeOK, [MeshNext]_meshVars PROVE RendezvousTypeOK'
    OBVIOUS
<1>0. MinPeerTripThreshold \in Nat /\ Hours \in Nat
    BY RendezvousAssumption DEF RendezvousAssumption
<1>1. CASE UNCHANGED rendezvousVars
    BY <1>1 DEF rendezvousVars, RendezvousTypeOK
<1>2. CASE CheckBreaker
  <2>1. CASE UNCHANGED rendezvousVars
    BY <1>1, <2>1
  <2>2. CASE ResetCircuitBreaker
    <3>1. 0 \in 0 .. MinPeerTripThreshold
        BY <1>0
    <3> QED
        BY <2>2, <3>1 DEF ResetCircuitBreaker, RendezvousTypeOK
  <2> QED
    BY <1>2, <2>1, <2>2 DEF CheckBreaker
<1>3. CASE Publish
    BY <1>3 DEF Publish, PublishBlindBeacon, Published, PublishedInMemoryOnly, PutInMemory,
       rendezvousVars, RendezvousTypeOK
<1>4. CASE Notify
  <2>1. activeDirectPeers' \in 0 .. MinPeerTripThreshold
    BY <1>0, <1>4 DEF Notify, NotifyDirectPeerConnected, RendezvousTypeOK
  <2>2. /\ circuitBroken' \in BOOLEAN /\ publishedTopics' \subseteq Topics
        /\ memory' \subseteq Topics /\ hour' \in Topics /\ unrecorded' \subseteq Topics
    <3>1. \/ DisconnectAndPurge
          \/ UNCHANGED <<circuitBroken, memory, publishedTopics, hour, unrecorded>>
        BY <1>4 DEF Notify, NotifyDirectPeerConnected
    <3> QED
        BY <3>1 DEF DisconnectAndPurge, DeleteFromMemory, RendezvousTypeOK
  <2> QED
    BY <2>1, <2>2 DEF RendezvousTypeOK
<1>5. CASE ClockHour
    BY <1>0, <1>5 DEF ClockHour, NextHour, RendezvousTypeOK, Topics
<1>6. CASE UNCHANGED meshVars
    BY <1>1, <1>6 DEF meshVars, discoveryVars
<1>7. CASE DiscoveryNext
    BY <1>1, <1>2, <1>3, <1>4, <1>5, <1>7 DEF DiscoveryNext, Engine, Others, CountHealthy, Trust,
       Probe, Ask, Meet, NextCycle, LeaveLoop, Start, Stop, Authorize, Revoke, Forget, Hear,
       ReportHealth
<1> QED
    BY <1>1, <1>6, <1>7 DEF MeshNext, discoveryOwn, discoveryVars

LEMMA EngineKeepsTypes ==
    EngineTypes /\ TrustInv /\ RouterTypeOK /\ [MeshNext]_meshVars => EngineTypes'
<1> SUFFICES ASSUME EngineTypes, TrustInv, RouterTypeOK, [MeshNext]_meshVars PROVE EngineTypes'
    OBVIOUS
<1> DEFINE engine == /\ running' \in BOOLEAN /\ stopped' \in BOOLEAN
                     /\ pc' \in {"off", "count", "breaker", "publish", "trust", "meet", "rest"}
                     /\ healthy' \in Counts
                     /\ policies' \subseteq Peers /\ granted' \subseteq Peers
<1>1. RendezvousTypeOK'
    BY RendezvousKeepsTypes DEF EngineTypes
<1> SUFFICES engine
    BY <1>1 DEF EngineTypes
<1>2. CASE UNCHANGED <<running, stopped, pc, healthy, policies, granted>>
    BY <1>2 DEF EngineTypes
<1>3. CASE CountHealthy
  <2>1. Cardinality(HealthyPeers) \in Counts
    <3>1. IsFiniteSet(Peers) /\ HealthyPeers \in SUBSET Peers
        BY RouterAssumption DEF RouterAssumption, HealthyPeers, RouterTypeOK
    <3>2. /\ IsFiniteSet(HealthyPeers) /\ Cardinality(HealthyPeers) <= Cardinality(Peers)
          /\ Cardinality(HealthyPeers) \in Nat /\ Cardinality(Peers) \in Nat
        BY <3>1, FS_Subset, FS_CardinalityType
    <3> QED
        BY <3>2 DEF Counts
  <2> QED
    BY <1>3, <2>1 DEF CountHealthy, EngineTypes
<1>4. CASE Trust
  <2>1. Head(plan) \in Plans
    BY <1>4 DEF Trust, TrustInv, PlanIsSound
  <2>2. Head(plan).did \in Peers
    BY <2>1 DEF Plans
  <2> QED
    BY <1>4, <2>2 DEF Trust, EngineTypes
<1>5. ASSUME NEW d \in Contacts, Authorize(d) \/ Revoke(d) PROVE engine
    BY <1>5 DEF Authorize, Revoke, engineVars, EngineTypes, Contacts
<1>6. CASE UNCHANGED meshVars
    BY <1>2, <1>6 DEF meshVars, discoveryVars
<1>7. CASE Notify
    BY <1>7 DEF Notify, EngineTypes
<1>8. CASE Ask
    BY <1>8 DEF Ask, EngineTypes
<1>9. CASE CheckBreaker \/ Publish \/ NextCycle \/ LeaveLoop \/ Start \/ Stop
    BY <1>9 DEF CheckBreaker, Publish, NextCycle, LeaveLoop, Start, Stop, EngineTypes
<1>10. CASE DiscoveryNext
    BY <1>2, <1>3, <1>4, <1>5, <1>7, <1>8, <1>9, <1>10 DEF DiscoveryNext, Engine, Others, Probe,
       Meet, ClockHour, Forget, Hear, ReportHealth, engineVars
<1>11. engine
    BY <1>2, <1>6, <1>10 DEF MeshNext, discoveryOwn, discoveryVars
<1> QED
    BY <1>11

LEMMA EngineHasTypes == MeshSpec => []EngineTypes
<1>1. MeshInit => EngineTypes
  <2> SUFFICES ASSUME MeshInit PROVE EngineTypes
    OBVIOUS
  <2>1. DiscoveryInit /\ RendezvousInit
    BY DEF MeshInit, DiscoveryInit
  <2>2. MinPeerTripThreshold \in Nat /\ Hours \in Nat
    BY RendezvousAssumption DEF RendezvousAssumption
  <2>3. 0 \in Counts
    BY RouterAssumption, FS_CardinalityType DEF RouterAssumption, Counts
  <2>a. 0 \in 0 .. MinPeerTripThreshold /\ 0 \in Topics
    BY <2>2 DEF Topics
  <2>4. RendezvousTypeOK
    BY <2>1, <2>a DEF RendezvousInit, RendezvousTypeOK
  <2> QED
    BY <2>1, <2>3, <2>4 DEF DiscoveryInit, EngineTypes
<1>2. RouterInv => RouterTypeOK
    BY DEF RouterInv
<1> QED
    BY <1>1, <1>2, EngineKeepsTypes, TrustAndTable, PTL DEF MeshSpec

\* Types of all parts: no hold-down exceeds its limit, no plan names an unknown peer.
THEOREM MeshTypes == MeshSpec => []MeshTypeOK
<1>1. EngineTypes /\ TrustInv => RendezvousTypeOK /\ DiscoveryTypeOK
    BY DEF EngineTypes, TrustInv, PlanIsSound, DiscoveryTypeOK, Plans, Counts
<1>2. RelayInv => RelayTypeOK
  <2> SUFFICES ASSUME RelayInv PROVE RelayTypeOK
    OBVIOUS
  <2>1. inTransit \subseteq Packets
    BY DEF RelayInv, Traceable, Datas, Packets, Seqs
  <2> QED
    BY <2>1 DEF RelayInv, RelayTypeOK, Tables, IsIndex, Seqs, Numbers
<1>3. EngineTypes /\ TrustInv /\ RouterInv /\ HealingInv /\ RelayInv => MeshTypeOK
    BY <1>1, <1>2 DEF MeshTypeOK, RouterInv, HealingInv
<1> QED
    BY <1>3, EngineHasTypes, TrustAndTable, HealingHolds, RelayHolds, PTL
==============================================================================
