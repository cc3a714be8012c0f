------------------------------ MODULE MeshRelay ------------------------------
(* Data packets on their way through several nodes: the forwarder of the       *)
(* origin (src/src/cmd/ipvn7/diagnostics.go) and the data case of the receive  *)
(* loop of every node after it (cmd/ipvn7/main.go:187-276).                    *)
(*                                                                             *)
(* A relay notes the origin of a packet under the address the packet came      *)
(* from, and sends the packet on as it is; there is no hop limit. A node lives *)
(* at the address that bears its name. Tables are far from their limits here,  *)
(* so nobody is evicted, and a window remembers every packet. A firewall may   *)
(* refuse any packet, and the network may lose it.                             *)
EXTENDS RouterMetrics

CONSTANTS
    Nodes,          \* the nodes of the mesh: DIDs that are also addresses
    Strangers,      \* destinations nobody knows
    Pessimists,     \* those that find everybody out of reach at first
    MaxPackets      \* bound of the model

RelayAssumption ==
    /\ Nodes \subseteq DIDs /\ Nodes \subseteq Addresses /\ Strangers \subseteq DIDs
    /\ Pessimists \subseteq Nodes /\ MaxPackets \in Nat

ASSUME RelayAssumption

VARIABLES
    tables,     \* node -> index of its router
    accepted,   \* node -> numbered packets its anti-replay filter has accepted
    inTransit,  \* packets sent: [src, seq, dst, at, from, seen]; seen is history:
                \* the nodes that have handled it
    sent        \* packets originated so far

relayVars == <<tables, accepted, inTransit, sent>>

\* A packet without a session has the sequence number zero.
Plain == 0

Packets == [src : Nodes, seq : 0 .. MaxPackets, dst : DIDs, at : Addresses, from : Nodes,
            seen : SUBSET Nodes]

RelayTypeOK ==
    /\ DOMAIN tables = Nodes
    /\ \A n \in Nodes : DOMAIN tables[n] \subseteq DIDs
                        /\ \A d \in DOMAIN tables[n] : tables[n][d] \in PeerNodes
    /\ accepted \in [Nodes -> SUBSET (Nodes \X (1 .. MaxPackets))]
    /\ inTransit \subseteq Packets /\ sent \in 0 .. MaxPackets

\* At first every node knows some of the others, each where it lives.
FirstTables(n) ==
    LET dead(d) == [addr |-> d, lat |-> 10, score |-> 0, health |-> "Unreachable"]
    IN  {[d \in known |-> IF n \in Pessimists THEN dead(d) ELSE NewPeer(d, 10)]
            : known \in SUBSET (Nodes \ {n})}

RelayInit ==
    /\ tables \in [Nodes -> UNION {FirstTables(n) : n \in Nodes}]
    /\ \A n \in Nodes : tables[n] \in FirstTables(n)
    /\ accepted = [n \in Nodes |-> {}]
    /\ inTransit = {} /\ sent = 0

\* Node n, whose table is t, writes the packet to the address of a next hop; it may have none.
Forwarded(p, n, t) ==
    {[p EXCEPT !.at = t[h].addr, !.from = n, !.seen = @ \cup {n}] : h \in NextHops(t, p.dst)}

\* ForwardToMesh: numbered by the session with the destination if there is one.
Originate(n, dst) ==
    /\ sent < MaxPackets /\ dst # n
    /\ sent' = sent + 1
    /\ \E seq \in {Plain, sent + 1} :
       \E p \in Forwarded([src |-> n, seq |-> seq, dst |-> dst, at |-> n, from |-> n,
                           seen |-> {}], n, tables[n]) :
          inTransit' = inTransit \cup {p}
    /\ UNCHANGED <<tables, accepted>>

\* The filter is asked about numbered packets only.
\* Mutant: it is not asked at all.
FreshAlways(p) == TRUE

Fresh(p) == p.seq = Plain \/ <<p.src, p.seq>> \notin accepted[p.at]

Accepted(p) ==
    IF p.seq = Plain THEN accepted
    ELSE [accepted EXCEPT ![p.at] = @ \cup {<<p.src, p.seq>>}]

\* AddOrUpdatePeer(packet.SourceDID, fromAddr, 1.0).
\* Mutant: only the destination takes note of the origin.
NoteAtEnd(p) ==
    IF p.src = p.at \/ p.dst # p.at THEN tables
    ELSE [tables EXCEPT ![p.at] = Noted(@, p.src, p.from, 10)]

NoteOrigin(p) ==
    IF p.src = p.at THEN tables
    ELSE [tables EXCEPT ![p.at] = Noted(@, p.src, p.from, 10)]

\* A replay, or a packet the inbound policy refuses: nothing but the window changes.
Discard(p) ==
    /\ accepted' = Accepted(p)
    /\ inTransit' = inTransit \ {p}
    /\ UNCHANGED <<tables, sent>>

\* The packet is for this node, or the outbound policy refuses it, or there is no next hop.
Keep(p) ==
    /\ Fresh(p)
    /\ accepted' = Accepted(p)
    /\ tables' = NoteOrigin(p)
    /\ inTransit' = inTransit \ {p}
    /\ UNCHANGED sent

Relay(p) ==
    /\ Fresh(p) /\ p.dst # p.at
    /\ accepted' = Accepted(p)
    /\ tables' = NoteOrigin(p)
    /\ \E q \in Forwarded(p, p.at, NoteOrigin(p)[p.at]) : inTransit' = (inTransit \ {p}) \cup {q}
    /\ UNCHANGED sent

Handle(p) == Discard(p) \/ Keep(p) \/ Relay(p)

Lose(p) ==
    /\ inTransit' = inTransit \ {p}
    /\ UNCHANGED <<tables, accepted, sent>>

RelayNext ==
    \/ \E n \in Nodes, dst \in Nodes \cup Strangers : Originate(n, dst)
    \/ \E p \in inTransit : Handle(p) \/ Lose(p)

Numbered == {p \in inTransit : p.seq # Plain}

\* Whatever was sent arrives or is lost, and the receive loop runs.
RelayFairness == WF_relayVars(\E p \in Numbered : Handle(p) \/ Lose(p))

(***************************************************************************)
(* Properties.                                                             *)
(***************************************************************************)

\* A numbered packet does not travel for ever, although there is no hop limit and two relays
\* may each find the other the best next hop: the filter stops it where it has been before
\* (main.go:203, 269-272).
NumberedPacketsEnd == Numbered # {} ~> Numbered = {}

\* The addresses a mesh learns from its packets can be followed: where a node has noted another
\* under the address of a third, the third has noted it too (main.go:248-250).
LocatorsChain ==
    \A n \in Nodes : \A d \in DOMAIN tables[n] :
        LET m == tables[n][d].addr IN m # d => d \in DOMAIN tables[m]

\* Greedy forwarding "towards the key of the destination" (routing.go:245) does not lead a
\* packet back to a node it has left.
NeverComesBack == \A p \in inTransit : p.at \notin p.seen
==============================================================================
