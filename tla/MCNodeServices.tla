--------------------------- MODULE MCNodeServices ---------------------------
(* What runs on a node around its packets: the virtual interface, the proxies, *)
(* hole punching, the network probe, the panel, the padding of onion packets,  *)
(* the containers, the resolver and the relay cache; the anchor of moving      *)
(* peers, silent calls, the choice of an exit, the tables and guards of the    *)
(* second layer, delegated identities and shadow devices.                      *)
(*                                                                             *)
(* They share no state with each other, so each is explored with the others at *)
(* rest: focus says which one acts.                                            *)
EXTENDS TunRouter, StreamProxies, NatPunching, NetworkProbe, PanelSwitch, MobilityAnchor,
        SilentDispatch, EgressSelection, PartitionGuard, KademliaTable, PlanetaryMesh,
        AnomalyTable, DelegatedIdentity, OnionRelay, ContainerAdapter

VARIABLES
    focus

Goroutines == {"tun", "streams", "punch", "probe", "panel", "padding", "containers"}
Passive == {"anchor", "calls", "egress", "policy", "guard", "kademlia", "planet", "transit",
            "anomalies", "chain", "bindings", "devices", "dns", "onions"}

goroutineVars == <<tunVars, proxyVars, natVars, probeVars, panelVars, paddingVars,
                    adapterVars>>
tieVars == <<anchorVars, silentVars, egressVars, guardVars>>
tableVarsOfMesh == <<kademliaVars, planetVars, transitVars, tableVars>>
identityVars == <<delegationVars, shadowVars>>
memoryVars == <<dnsVars, relayCacheVars>>

servicesVars == <<goroutineVars, tieVars, tableVarsOfMesh, identityVars, memoryVars, focus>>

\* Identifiers of three bits, five of them in the two buckets that overflow.
MCSelf == <<0, 0, 0>>
MCKnown == {<<0, 0, 0>>, <<0, 0, 1>>, <<1, 0, 0>>, <<1, 0, 1>>, <<1, 1, 0>>, <<1, 1, 1>>}

\* Links of the root with every tier, one that claims more than it was given, one that is out of
\* date, one that is not genuine.
Offer(from, to, tier, genuine, until) ==
    [issuer |-> from, subject |-> to, tier |-> tier, genuine |-> genuine, until |-> until]
MCOffered == {Offer("r", "r", t, TRUE, 1) : t \in ExecutionTiers}
             \cup {Offer("r", "u", "ordinary", TRUE, 0), Offer("u", "u", "escalated", TRUE, 1),
                   Offer("r", "u", "escalated", FALSE, 1)}

ServicesInit ==
    /\ focus \in Goroutines \cup Passive
    /\ TunInit /\ ProxyInit /\ NatInit /\ ProbeInit /\ PanelInit
    /\ AnchorInit /\ SilentInit /\ EgressInit /\ GuardInit
    /\ KademliaInit /\ PlanetInit /\ TransitInit /\ TableInit
    /\ DelegationInit /\ ShadowInit /\ DNSInit /\ OnionInit /\ AdapterInit
    /\ focus # "streams" => \A s \in Streams : stream[s].kind = "proxy"
    /\ focus # "panel" => vpnState = "disconnected"
    /\ focus # "egress" => \E s \in GatewayScores :
                             /\ score = [g \in Gateways |-> s]
                             /\ \A t \in GatewayScores : s <= t

\* What service f leaves alone.
Only(f) ==
    /\ focus = f /\ UNCHANGED focus
    /\ IF f = "tun" THEN TRUE ELSE UNCHANGED tunVars
    /\ IF f = "streams" THEN TRUE ELSE UNCHANGED proxyVars
    /\ IF f = "punch" THEN TRUE ELSE UNCHANGED natVars
    /\ IF f = "probe" THEN TRUE ELSE UNCHANGED probeVars
    /\ IF f = "panel" THEN TRUE ELSE UNCHANGED panelVars
    /\ IF f = "padding" THEN TRUE ELSE UNCHANGED paddingVars
    /\ IF f = "containers" THEN TRUE ELSE UNCHANGED adapterVars
    /\ UNCHANGED <<tieVars, tableVarsOfMesh, identityVars, memoryVars>>

GoroutinesNext ==
    \/ focus = "tun" /\ TunNext /\ Only("tun")
    \/ focus = "streams" /\ ProxyNext /\ Only("streams")
    \/ focus = "punch" /\ NatNext /\ Only("punch")
    \/ focus = "probe" /\ ProbeNext /\ Only("probe")
    \/ focus = "panel" /\ PanelNext /\ Only("panel")
    \/ focus = "padding" /\ PaddingNext /\ Only("padding")
    \/ focus = "containers" /\ AdapterNext /\ Only("containers")

TiesNext ==
    \/ focus = "anchor" /\ AnchorNext /\ UNCHANGED <<silentVars, egressVars, guardVars>>
    \/ focus = "calls" /\ SilentNext /\ UNCHANGED <<anchorVars, egressVars, guardVars>>
    \/ focus = "egress" /\ EgressNext /\ UNCHANGED <<anchorVars, silentVars, guardVars>>
    \/ focus = "policy" /\ PolicyNext /\ UNCHANGED <<anchorVars, silentVars, guardVars>>
    \/ focus = "guard" /\ GuardNext /\ UNCHANGED <<anchorVars, silentVars, egressVars>>

TablesNext ==
    \/ focus = "kademlia" /\ KademliaNext /\ UNCHANGED <<planetVars, transitVars, tableVars>>
    \/ focus = "planet" /\ PlanetNext /\ UNCHANGED <<kademliaVars, transitVars, tableVars>>
    \/ focus = "transit" /\ TransitNext /\ UNCHANGED <<kademliaVars, planetVars, tableVars>>
    \/ focus = "anomalies" /\ TableNext /\ UNCHANGED <<kademliaVars, planetVars, transitVars>>

IdentityNext ==
    \/ focus = "chain" /\ ChainNext /\ UNCHANGED shadowVars
    \/ focus = "bindings" /\ BindingNext /\ UNCHANGED shadowVars
    \/ focus = "devices" /\ ShadowNext /\ UNCHANGED delegationVars

MemoryNext ==
    \/ focus = "dns" /\ DNSNext /\ UNCHANGED relayCacheVars
    \/ focus = "onions" /\ PeelNext /\ UNCHANGED dnsVars

ServicesNext ==
    \/ GoroutinesNext
    \/ TiesNext /\ UNCHANGED <<goroutineVars, tableVarsOfMesh, identityVars, memoryVars, focus>>
    \/ TablesNext /\ UNCHANGED <<goroutineVars, tieVars, identityVars, memoryVars, focus>>
    \/ IdentityNext /\ UNCHANGED <<goroutineVars, tieVars, tableVarsOfMesh, memoryVars, focus>>
    \/ MemoryNext /\ UNCHANGED <<goroutineVars, tieVars, tableVarsOfMesh, identityVars, focus>>

\* The fairness of each service, as its module justifies it: a goroutine that can go on does, a
\* blocking call with a deadline returns, a select takes each of its ready cases in the end. A loop
\* ends but once, so that strong fairness of "some loop ends" is that of each.
ServicesFairness ==
    /\ WF_servicesVars(~tunPanic /\ Reading /\ Only("tun"))
    /\ WF_servicesVars(~tunPanic /\ Closing /\ Only("tun"))
    /\ \A s \in Streams : WF_servicesVars(Tend(s) /\ Only("streams"))
    /\ \A c \in Attempts :
          WF_servicesVars((\E r \in {"ok", "failed"} : AnswerAttempt(c, r)) /\ Only("punch"))
    /\ WF_servicesVars(CloseChannel /\ Only("probe"))
    /\ \A l \in Loops :
          /\ WF_servicesVars(l \in DOMAIN loop /\ Await(l) /\ Only("probe"))
          /\ WF_servicesVars((\E x \in audits : x.by = l /\ EndAudit(x)) /\ Only("probe"))
    /\ SF_servicesVars((\E l \in DOMAIN loop : EndLoop(l)) /\ Only("probe"))
    /\ WF_servicesVars(Restore /\ Only("panel"))
    /\ \A l \in 1 .. MaxStartsOfPadding :
          WF_servicesVars(l \in DOMAIN padLoop /\ (AwaitGap(l) \/ Sent(l)) /\ Only("padding"))
    /\ SF_servicesVars((\E l \in DOMAIN padLoop : EndPadding(l)) /\ Only("padding"))
    /\ \A c \in Containers : WF_servicesVars(EndSend(c) /\ Only("containers"))
    /\ \A r \in Receivers :
          /\ WF_servicesVars((\E timed \in BOOLEAN : SetDeadline(r, timed)) /\ Only("containers"))
          /\ WF_servicesVars(ReadFails(r) /\ Only("containers"))
    /\ WF_servicesVars(CloseSocket /\ Only("containers"))

ServicesSpec == ServicesInit /\ [][ServicesNext]_servicesVars /\ ServicesFairness

(***************************************************************************)
(* Properties: those of the parts, which are stated in their modules,      *)
(* gathered by subject.                                                    *)
(***************************************************************************)

\* Types of all parts, with the capacities that are part of them: no queue, bucket, cache or
\* address range outgrows its limit (tun_adapter.go:72-90, dht_kademlia.go:86-131).
ServicesTypeOK ==
    /\ TunTypeOK /\ ProxyTypeOK /\ NatTypeOK /\ ProbeTypeOK /\ PanelTypeOK
    /\ AnchorTypeOK /\ SilentTypeOK /\ EgressTypeOK /\ GuardTypeOK
    /\ KademliaTypeOK /\ PlanetTypeOK /\ TransitTypeOK /\ TableTypeOK
    /\ DelegationTypeOK /\ ShadowTypeOK /\ DNSTypeOK /\ OnionTypeOK /\ AdapterTypeOK

\* Every counter says how many there are of what it counts, on every path that ends one: anomalies,
\* streams, calls under way, incidents (anomaly_fingerprinter.go:78-145, socks5_gateway.go:105-115,
\* silent_call_response.go:126-189, network_probe.go:194-206).
CountersAgree == EventsAreCounted /\ StreamsAreCounted /\ SlotsMatchCalls /\ IncidentsAreUnique

\* What is rationed stays within its ration, also when a check and what it allows are apart: calls
\* let through, signatures looked at, tiers passed on, keys revoked, copies of onion packets
\* (silent_call_response.go:158-169, mobility_anchor.go:199-205, delegation.go:83-115,
\* uin_identity.go:169-206, sphinx_onion.go:93-110).
RationsHold ==
    BucketsAreBounded /\ ResyncBudgetHolds /\ TierNeverRises /\ RevokedKeysStayOut /\ CopiesAreRefused

\* The tables that must agree do, and what they lead to is what was entered
\* (dht_kademlia.go:86-169, planetary_mesh.go:160-199, shadow_device.go:77-107).
TablesAgree == TableIsOrderly /\ HeldIsFound /\ IntactMeshRoutes /\ DeviceTablesAgree

\* What is reported is so: writing is safe, the gateway can be used, the punch went through, the
\* panel shows the setting, an address is a recent one (split_brain_guard.go:107-134,
\* egress_selector.go:72-175, nat_hole_punch.go:153-190, web_ui.go:136-169, dns_resolver.go:66-126).
ReportsAreTrue ==
    SafeOnlyAfterStability /\ GatewayIsUsable /\ PunchIsMutual /\ PanelSettles /\ AddressesAreRecent

\* What was earned lasts: a binding moves far only to a number that was signed for, a contact keeps
\* its place, what a peer gives never lowers its tier (mobility_anchor.go:151-220,
\* dht_kademlia.go:108-130, accounting.go:90-132).
EarnedStandingLasts == LeapsAreSigned /\ OldContactsStay /\ GivingNeverHurts

\* Everything that was begun ends: the readers, streams, probes and loops, and the proxy setting of
\* the desktop after the process (tun_router.go:80-103, socks5_gateway.go:267-281,
\* nat_traversal.go:144-181, network_probe.go:81-96, sphinx_padding.go:153-193,
\* platform_windows.go:110-114), and whoever waits on a socket that is closed (i7_adapter.go:84-124).
EverythingEnds ==
    /\ ReaderEnds /\ StreamsEnd /\ ProbersEnd /\ ProbeLoopsEnd /\ PaddingEnds /\ ProxyIsRestored
    /\ CloseEndsAll
=============================================================================
