---------------------------- MODULE PlanetaryMesh ----------------------------
(* The planetary mesh of the second layer and the book that a node keeps of   *)
(* what its peers carry for each other.                                       *)
EXTENDS Integers, Sequences, FiniteSets, SequencesExt

(***************************************************************************)
(* The mesh.                                                               *)
(***************************************************************************)
\* Greedy routing over a grid of nodes with shortcuts, some of them offline
\* (src/src/pkg/l2/planetary_mesh.go).
\*
\* A packet is routed under the read lock, so nobody fails on its way. It
\* visits a node at most once, so what the shortcuts of a node are is drawn
\* when it is visited. Distances are compared by their squares.

CONSTANTS
    NodeCount,
    GridDim,        \* the square root of NodeCount, rounded up
    HopFactor,      \* hops allowed for each node of a side (4 in the code)
    MaxFailures     \* bound of the model: nodes that go offline

MeshAssumption ==
    /\ NodeCount \in Nat /\ NodeCount >= 4 /\ GridDim \in Nat /\ MaxFailures \in Nat
    /\ HopFactor \in Nat /\ HopFactor >= 3
    /\ GridDim * GridDim >= NodeCount /\ (GridDim - 1) * (GridDim - 1) < NodeCount

ASSUME MeshAssumption

VARIABLES
    online,
    path,           \* the nodes a packet has visited, empty when none is under way
    target,         \* where it is to go
    outcome         \* of the last route: "none", "delivered" or "unreachable"

planetVars == <<online, path, target, outcome>>

Planet == 0 .. NodeCount - 1
X(n) == n \div GridDim
Y(n) == n % GridDim
Square(a) == a * a
Distance(m, n) == Square(X(m) - X(n)) + Square(Y(m) - Y(n))

PlanetTypeOK ==
    /\ online \subseteq Planet /\ target \in Planet
    /\ path \in Seq(Planet) /\ Len(path) <= NodeCount
    /\ outcome \in {"none", "delivered", "unreachable"}

PlanetInit == online = Planet /\ path = <<>> /\ target = 0 /\ outcome = "none"

\* Neighbours on the grid; a shortcut leads to any other node, and there are up to two of them.
ShortLinks(n) == {m \in Planet : Distance(m, n) = 1}
Shortcuts(n) == {s \in SUBSET {m \in Planet : Distance(m, n) > 1} : Cardinality(s) <= 2}

MaxHops == HopFactor * GridDim

Here == path[Len(path)]
Open(links) == {m \in links : m \in online /\ m \notin Range(path)}

\* The open links nearest to the target and nearer than here.
Best(links) ==
    {m \in Open(links) : /\ Distance(m, target) < Distance(Here, target)
                         /\ \A k \in Open(links) : Distance(m, target) <= Distance(k, target)}

\* RoutePacket begins, if both ends are online.
Depart(src, dst) ==
    /\ path = <<>> /\ src \in online /\ dst \in online
    /\ path' = <<src>> /\ target' = dst /\ outcome' = "none"
    /\ UNCHANGED online

End(result) == path' = <<>> /\ outcome' = result /\ UNCHANGED <<online, target>>

Moving == path # <<>> /\ Len(path) < MaxHops /\ Here # target

Arrive == path # <<>> /\ Len(path) < MaxHops /\ Here = target /\ End("delivered")
RunOut == path # <<>> /\ Len(path) >= MaxHops /\ End("unreachable")

Hop(m) == path' = Append(path, m) /\ UNCHANGED <<online, target, outcome>>

\* The grid links are looked at before the shortcuts, and a later one must be strictly better.
\* If nothing is nearer, any link that is open will do; if none is, the packet is given up.
Travel ==
    /\ Moving
    /\ \E s \in Shortcuts(Here) :
          LET best == Best(ShortLinks(Here) \cup s)
              open == Open(ShortLinks(Here) \cup s)
              first(set) == IF set \cap ShortLinks(Here) # {} THEN set \cap ShortLinks(Here) ELSE set
          IN  \/ \E m \in first(best) : Hop(m)
              \/ best = {} /\ \E m \in first(open) : Hop(m)
              \/ best = {} /\ open = {} /\ End("unreachable")

SimulateFailure(failed) ==
    /\ path = <<>> /\ Cardinality(Planet \ (online \ failed)) <= MaxFailures
    /\ online' = online \ failed
    /\ UNCHANGED <<path, target, outcome>>

PlanetNext ==
    \/ \E s, d \in Planet : Depart(s, d)
    \/ Arrive \/ RunOut \/ Travel
    \/ \E failed \in SUBSET Planet : SimulateFailure(failed)

(***************************************************************************)
(* Properties.                                                             *)
(***************************************************************************)

\* While every node is online no packet is given up, though the last row of the grid may be
\* incomplete, shortcuts may lead anywhere and hops are limited; and it comes nearer with every
\* hop (planetary_mesh.go:160-199).
IntactMeshRoutes ==
    online = Planet =>
        /\ outcome # "unreachable"
        /\ \A i \in 1 .. Len(path) - 1 : Distance(path[i + 1], target) < Distance(path[i], target)

(***************************************************************************)
(* The book of traffic.                                                    *)
(***************************************************************************)
\* The book of traffic with every peer, which gives it its tier of service
\* (src/src/pkg/l2/accounting.go). Bytes are counted in units; a ratio is
\* compared with the thresholds 1, 1/2 and 1/5 of the code. The totals for the
\* panel are left out.

CONSTANTS
    Partners,           \* DIDs
    CourtesyBytes,      \* 1 MiB in the code
    CourtesyPackets,    \* 1000 in the code
    Amounts,            \* bytes of a packet
    MaxPackets          \* bound of the model: packets to, and packets from, a peer

TransitAssumption ==
    /\ CourtesyBytes \in Nat /\ CourtesyPackets \in Nat /\ Amounts \subseteq Nat \ {0}
    /\ MaxPackets \in Nat

ASSUME TransitAssumption

VARIABLES
    accounts            \* DID -> [tx, rx, ptx, prx, tier]

transitVars == <<accounts>>

Tiers == {"PRIORITY", "NORMAL", "BEST_EFFORT", "THROTTLED"}

TransitTypeOK ==
    /\ DOMAIN accounts \subseteq Partners
    /\ \A d \in DOMAIN accounts :
          /\ accounts[d].tier \in Tiers
          /\ accounts[d].ptx \in 0 .. MaxPackets /\ accounts[d].prx \in 0 .. MaxPackets

TransitInit == accounts = [d \in {} |-> {}]

\* getOrCreate.
Account(d) == IF d \in DOMAIN accounts THEN accounts[d]
              ELSE [tx |-> 0, rx |-> 0, ptx |-> 0, prx |-> 0, tier |-> "NORMAL"]

PutAccount(d, a) == accounts' = [e \in DOMAIN accounts \cup {d} |-> IF e = d THEN a ELSE accounts[e]]

Courtesy(a) == a.tx <= CourtesyBytes /\ a.ptx <= CourtesyPackets

\* recalculateTier; beyond the courtesy nothing sent counts as full reciprocity.
Tier(a) == IF Courtesy(a) THEN "NORMAL"
           ELSE IF a.rx >= a.tx THEN "PRIORITY"
           ELSE IF 2 * a.rx >= a.tx THEN "NORMAL"
           ELSE IF 5 * a.rx >= a.tx THEN "BEST_EFFORT" ELSE "THROTTLED"

Recalculated(a) == [a EXCEPT !.tier = Tier(a)]

RecordRx(d, n) ==
    /\ Account(d).prx < MaxPackets
    /\ PutAccount(d, Recalculated([Account(d) EXCEPT !.rx = @ + n, !.prx = @ + 1]))

RecordTx(d, n) ==
    /\ Account(d).ptx < MaxPackets
    /\ PutAccount(d, Recalculated([Account(d) EXCEPT !.tx = @ + n, !.ptx = @ + 1]))

\* ForceThrottle, which SlashPeer is another name for: the counters stay, so the next packet
\* calculates the tier from them again, whatever it was punished for.
SlashPeer(d) == PutAccount(d, [Account(d) EXCEPT !.tier = "THROTTLED"])

TransitNext ==
    \E d \in Partners : \/ SlashPeer(d)
                       \/ \E n \in Amounts : RecordTx(d, n) \/ RecordRx(d, n)

(***************************************************************************)
(* Properties.                                                             *)
(***************************************************************************)

Standing == [THROTTLED |-> 0, BEST_EFFORT |-> 1, NORMAL |-> 2, PRIORITY |-> 3]

\* What a peer carries for the node never lowers the tier it is served in, on either side of the
\* courtesy and after whatever punishment (accounting.go:90-132).
GivingNeverHurts ==
    [][\A d \in DOMAIN accounts :
         accounts'[d].rx > accounts[d].rx
            => Standing[accounts'[d].tier] >= Standing[accounts[d].tier]]_transitVars
==============================================================================
