---------------------------- MODULE MCMeshControl ----------------------------
(* The control plane of the mesh around one peer table: discovery and          *)
(* rendezvous fill it, the router bounds it, the healer and the prober watch   *)
(* its links, and relays forward by it.                                        *)
(*                                                                             *)
(* Discovery, healing and relaying meet only in the table, so each is explored *)
(* with everything that acts on its state and the others at rest: focus says   *)
(* which. "router" is the table alone, with the limits that make peers leave.  *)
EXTENDS Discovery, LinkHealing, MeshRelay

VARIABLES
    focus

\* Five DIDs contend for a table of two places, in two rings of two.
MCKeyOf == [self |-> {}, p1 |-> {0}, p2 |-> {4}, p3 |-> {1}, p4 |-> {0, 1}, p5 |-> {3, 5}]
Crowd == {"p1", "p2", "p3", "p4", "p5"}
Rates == {10, 25}

MCHomes == [d \in Crowd |-> CASE d = "p1" -> {"p1", "p2"} [] d = "p2" -> {"p2"} [] OTHER -> {}]
MCAddresses == {"p1", "p2", "p3"}

MCTrusted == <<[did |-> "p1", endpoints |-> <<"p1">>]>>
MCBeacons == {[did |-> "p2", endpoints |-> <<"p1", "p2">>]}

Report(p, j, l) == [pacing |-> p, jitter |-> j, loss |-> l]
MCMeasures == {Report(100, 0, 0), Report(0, 80, 50)}
Reports == MCMeasures \cup {Report(60, 30, 10), Report(20, 40, 25)}

MCNodes == {"p1", "p2", "p3"}

healingOwn == <<link, probed, sweep, unsent, inFlight>>

discoveryOwn == <<rendezvousVars, running, stopped, pc, healthy, plan, policies, granted>>

meshVars == <<discoveryVars, healingOwn, relayVars, focus>>

\* Types of all parts: among them that no hold-down exceeds its maximum and that the plan of
\* a discovery cycle holds known peers only (link_healing.go:140-142).
MeshTypeOK ==
    /\ RouterTypeOK /\ RendezvousTypeOK /\ DiscoveryTypeOK /\ HealingTypeOK /\ RelayTypeOK

\* Whoever leaves the peer table leaves the index and the ring, whoever enters it is in both, and
\* neither outgrows its limit by more than one peer (routing.go:96-299).
PeerTableHolds == RingsConsistent /\ CapBounded

AtRest ==
    /\ tables = [n \in Nodes |-> [d \in {} |-> {}]]
    /\ accepted = [n \in Nodes |-> {}]
    /\ inTransit = {} /\ sent = 0

MeshInit ==
    /\ focus \in {"router", "discovery", "healing", "relay"}
    /\ DiscoveryInit /\ HealingInit
    /\ IF focus = "relay" THEN RelayInit ELSE AtRest

\* The table does not look at addresses.
SomeAddress == CHOOSE a \in Addresses : TRUE

RouterNext ==
    \/ \E d \in Peers, l \in Rates : AddOrUpdatePeer(d, SomeAddress, l)
    \/ \E d \in Peers, m \in Reports : UpdatePeerHealth(d, m)
    \/ \E d \in Peers : RemovePeer(d)

MeshNext ==
    \/ focus = "router" /\ RouterNext /\ UNCHANGED <<discoveryOwn, healingOwn, relayVars, focus>>
    \/ focus = "discovery" /\ DiscoveryNext /\ UNCHANGED <<healingOwn, relayVars, focus>>
    \/ focus = "healing" /\ HealingNext /\ UNCHANGED <<discoveryOwn, relayVars, focus>>
    \/ focus = "relay" /\ RelayNext /\ UNCHANGED <<discoveryVars, healingOwn, focus>>

MeshSpec ==
    /\ MeshInit /\ [][MeshNext]_meshVars
    /\ WF_meshVars(focus = "discovery" /\ Engine /\ UNCHANGED <<healingOwn, relayVars, focus>>)
    /\ WF_meshVars(/\ focus = "relay"
                   /\ \E p \in Numbered : Handle(p) \/ Lose(p)
                   /\ UNCHANGED <<discoveryVars, healingOwn, focus>>)
==============================================================================
