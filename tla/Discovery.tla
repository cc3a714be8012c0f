------------------------------ MODULE Discovery ------------------------------
(* How a node finds others and is found: the rendezvous it signals through    *)
(* and the engine that drives it.                                             *)
EXTENDS KleinbergRouter

(***************************************************************************)
(* The blind rendezvous.                                                   *)
(***************************************************************************)
\* The blind rendezvous of a node, src/src/pkg/l1/blind_rendezvous.go over the
\* hybrid store of blind_store.go: a copy of each beacon in memory, one on a
\* public HTTP substrate, and a circuit breaker that ends the signalling once
\* enough peers are reached directly.
\*
\* The discovery goroutine is the only caller of the methods that write, so
\* each is one action. What the substrate holds cannot be deleted
\* (DeleteBeacon of the HTTP store does nothing), and is not part of the state

CONSTANTS
    MinPeerTripThreshold,   \* 2 in the code
    Hours                   \* topics change every hour; bound of the clock

RendezvousAssumption == MinPeerTripThreshold \in Nat \ {0} /\ Hours \in Nat

ASSUME RendezvousAssumption

VARIABLES
    circuitBroken,
    activeDirectPeers,  \* counted up to the threshold: beyond it nothing changes
    publishedTopics,
    memory,             \* topics under which the local store holds our beacon
    hour,               \* the topic of the present hour
    unrecorded          \* history: topics put in memory by a publication that then failed

rendezvousVars ==
    <<circuitBroken, activeDirectPeers, publishedTopics, memory, hour, unrecorded>>

Topics == 0 .. Hours

RendezvousTypeOK ==
    /\ circuitBroken \in BOOLEAN
    /\ activeDirectPeers \in 0 .. MinPeerTripThreshold
    /\ publishedTopics \subseteq Topics /\ memory \subseteq Topics
    /\ hour \in Topics /\ unrecorded \subseteq Topics

RendezvousInit ==
    /\ circuitBroken = FALSE /\ activeDirectPeers = 0
    /\ publishedTopics = {} /\ memory = {}
    /\ hour = 0 /\ unrecorded = {}

\* The store in memory, which keeps one beacon for a topic.
PutInMemory(topic) == memory' = memory \cup {topic}
DeleteFromMemory(topics) == memory' = memory \ topics

\* PublishBlindBeacon after the check of the breaker. The hybrid store writes the memory
\* first; if the substrate then refuses, the topic is not recorded.
Published ==
    /\ PutInMemory(hour)
    /\ publishedTopics' = publishedTopics \cup {hour}
    /\ unrecorded' = unrecorded \ {hour}

PublishedInMemoryOnly ==
    /\ PutInMemory(hour)
    /\ unrecorded' = unrecorded \cup ({hour} \ publishedTopics)
    /\ UNCHANGED publishedTopics

PublishBlindBeacon ==
    /\ ~circuitBroken
    /\ Published \/ PublishedInMemoryOnly
    /\ UNCHANGED <<circuitBroken, activeDirectPeers, hour>>

\* DisconnectAndPurge: every recorded topic is deleted, of whatever hour it is.
\* Mutant: only the topic of the present hour is.
PurgePresentHour ==
    /\ circuitBroken' = TRUE
    /\ DeleteFromMemory({hour})
    /\ publishedTopics' = {}
    /\ UNCHANGED <<hour, unrecorded>>

DisconnectAndPurge ==
    /\ circuitBroken' = TRUE
    /\ DeleteFromMemory(publishedTopics)
    /\ publishedTopics' = {}
    /\ UNCHANGED <<hour, unrecorded>>

NotifyDirectPeerConnected ==
    LET count == IF activeDirectPeers < MinPeerTripThreshold
                 THEN activeDirectPeers + 1 ELSE activeDirectPeers
    IN  /\ activeDirectPeers' = count
        /\ IF count >= MinPeerTripThreshold /\ ~circuitBroken
           THEN DisconnectAndPurge
           ELSE UNCHANGED <<circuitBroken, memory, publishedTopics, hour, unrecorded>>

ResetCircuitBreaker ==
    /\ activeDirectPeers' = 0
    /\ circuitBroken' = FALSE
    /\ UNCHANGED <<publishedTopics, memory, hour, unrecorded>>

NextHour ==
    /\ hour < Hours
    /\ hour' = hour + 1
    /\ UNCHANGED <<circuitBroken, activeDirectPeers, publishedTopics, memory, unrecorded>>

(***************************************************************************)
(* Properties.                                                             *)
(***************************************************************************)

\* While the breaker is open the local store keeps no beacon of ours, of this hour or an
\* earlier one, except what a publication left there that failed on the substrate
\* (blind_rendezvous.go:264-276, blind_store.go:46-82, 193-196).
PurgedUpToFailures == circuitBroken => memory \subseteq unrecorded

(***************************************************************************)
(* The discovery engine.                                                   *)
(***************************************************************************)
\* The discovery engine, src/src/pkg/l1/autonomous_discovery.go, with what
\* main.go composes around it: the router it fills, the rendezvous it drives,
\* the policies it grants, and the receive loop that admits peers meanwhile.
\*
\* A cycle of the engine is a sequence of calls, each of which takes the lock
\* of another component for itself: one action per call. plan is what remains
\* of the lists the cycle walks: the trusted peers of the keystore, then the
\* beacons found. Of its first entry the next call is made.

CONSTANTS
    Trusted,    \* sequence of [did, endpoints]: keystore/trusted_peers.json
    Beacons,    \* what other nodes may have published: set of [did, endpoints]
    Measures    \* health reports: set of [pacing, jitter, loss]

Entry == [did : Peers, endpoints : Seq(Addresses)]

\* A beacon that gives no endpoint changes nothing.
DiscoveryAssumption ==
    /\ Trusted \in Seq(Entry)
    /\ IsFiniteSet(Beacons) /\ \A b \in Beacons : b \in Entry /\ b.endpoints # <<>>
    /\ Measures \subseteq [pacing : 0 .. 100, jitter : Nat, loss : Nat]

ASSUME DiscoveryAssumption

VARIABLES
    running,    \* the flag of Start and Stop
    stopped,    \* stopChan is closed
    pc,         \* of the discovery goroutine
    healthy,    \* remoteHealthyPeers of this cycle
    plan,       \* entries still to walk: sequence of [call, did, addrs]
    policies,   \* DIDs with a policy in the firewall
    granted     \* history: DIDs an administrator has authorised and not revoked since

discoveryVars ==
    <<routerVars, rendezvousVars, running, stopped, pc, healthy, plan, policies, granted>>

engineVars == <<running, stopped, pc, healthy, plan>>

\* Latencies the callers give, in tenths of a millisecond.
HeardLatency   == 10
TrustedLatency == 12
BeaconLatency  == 25

DiscoveryTypeOK ==
    /\ running \in BOOLEAN /\ stopped \in BOOLEAN
    /\ pc \in {"off", "count", "breaker", "publish", "trust", "meet", "rest"}
    /\ healthy \in 0 .. Cardinality(Peers)
    /\ plan \in Seq([call : {"trust", "probe", "meet", "notify"},
                     did : Peers, addrs : Seq(Addresses)])
    /\ \A k \in DOMAIN plan : plan[k].addrs = <<>> => plan[k].call = "trust"
    /\ policies \subseteq Peers /\ granted \subseteq Peers

DiscoveryInit ==
    /\ RouterInit /\ RendezvousInit
    /\ running = FALSE /\ stopped = FALSE /\ pc = "off"
    /\ healthy = 0 /\ plan = <<>>
    /\ policies = {} /\ granted = {}

HealthyPeers == {d \in DOMAIN peers : peers[d].health = "Healthy"}

(***************************************************************************)
(* Start and Stop. main.go starts the engine once; a second Start is not   *)
(* modelled, stopChan being closed for good.                               *)
(***************************************************************************)
Start ==
    /\ ~running /\ ~stopped
    /\ running' = TRUE /\ pc' = "count"
    /\ UNCHANGED <<routerVars, rendezvousVars, stopped, healthy, plan, policies, granted>>

Stop ==
    /\ running
    /\ running' = FALSE /\ stopped' = TRUE
    /\ UNCHANGED <<routerVars, rendezvousVars, pc, healthy, plan, policies, granted>>

(***************************************************************************)
(* executeCycle.                                                           *)
(***************************************************************************)
CountHealthy ==
    /\ pc = "count"
    /\ healthy' = Cardinality(HealthyPeers)
    /\ pc' = "breaker"
    /\ UNCHANGED <<routerVars, rendezvousVars, running, stopped, plan, policies, granted>>

\* Mutant: an open breaker ends the cycle before the reset is considered.
BreakerFirst ==
    /\ pc = "breaker"
    /\ pc' = IF circuitBroken THEN "rest" ELSE "publish"
    /\ UNCHANGED <<routerVars, rendezvousVars, running, stopped, healthy, plan, policies, granted>>

CheckBreaker ==
    /\ pc = "breaker"
    /\ IF healthy < 1 /\ circuitBroken THEN ResetCircuitBreaker ELSE UNCHANGED rendezvousVars
    /\ pc' = IF healthy >= MinPeerTripThreshold /\ circuitBroken THEN "rest" ELSE "publish"
    /\ UNCHANGED <<routerVars, running, stopped, healthy, plan, policies, granted>>

\* What probeTrustedPeers will walk; nothing if the file cannot be read.
ToTrust ==
    [k \in DOMAIN Trusted |->
        [call |-> "trust", did |-> Trusted[k].did, addrs |-> Trusted[k].endpoints]]

\* What is left once the first entry's first address is done with.
AfterAddress(call) ==
    LET rest == Tail(Head(plan).addrs) IN
    IF rest = <<>> THEN Tail(plan)
    ELSE <<[Head(plan) EXCEPT !.call = call, !.addrs = rest]>> \o Tail(plan)

Publish ==
    /\ pc = "publish"
    /\ IF circuitBroken THEN UNCHANGED rendezvousVars ELSE PublishBlindBeacon
    /\ plan' \in {<<>>, ToTrust}
    /\ pc' = "trust"
    /\ UNCHANGED <<routerVars, running, stopped, healthy, policies, granted>>

\* AuthorizeDID for a peer of the keystore.
Trust ==
    /\ pc = "trust" /\ plan # <<>> /\ Head(plan).call = "trust"
    /\ policies' = policies \cup {Head(plan).did}
    /\ plan' = IF Head(plan).addrs = <<>> THEN Tail(plan)
               ELSE <<[Head(plan) EXCEPT !.call = "probe"]>> \o Tail(plan)
    /\ UNCHANGED <<routerVars, rendezvousVars, running, stopped, pc, healthy, granted>>

Probe ==
    /\ pc = "trust" /\ plan # <<>> /\ Head(plan).call = "probe"
    /\ AddOrUpdatePeer(Head(plan).did, Head(Head(plan).addrs), TrustedLatency)
    /\ plan' = AfterAddress("probe")
    /\ UNCHANGED <<rendezvousVars, running, stopped, pc, healthy, policies, granted>>

\* DiscoverAllPeers: any of the beacons may be there, or none, or the substrate may not answer.
ToMeet(found) ==
    LET order == SetToSeq(found) IN
    [k \in DOMAIN order |->
        [call |-> "meet", did |-> order[k].did, addrs |-> order[k].endpoints]]

Ask ==
    /\ pc = "trust" /\ plan = <<>>
    /\ \E found \in SUBSET Beacons :
          /\ plan' = ToMeet(found)
          /\ pc' = IF found = {} THEN "rest" ELSE "meet"
    /\ UNCHANGED <<routerVars, rendezvousVars, running, stopped, healthy, policies, granted>>

\* Mutant: the sender of a beacon is authorised before it has proved who it is.
MeetAndTrust ==
    /\ pc = "meet" /\ plan # <<>> /\ Head(plan).call = "meet"
    /\ AddOrUpdatePeer(Head(plan).did, Head(Head(plan).addrs), BeaconLatency)
    /\ policies' = policies \cup {Head(plan).did}
    /\ plan' = <<[Head(plan) EXCEPT !.call = "notify"]>> \o Tail(plan)
    /\ UNCHANGED <<rendezvousVars, running, stopped, pc, healthy, granted>>

Meet ==
    /\ pc = "meet" /\ plan # <<>> /\ Head(plan).call = "meet"
    /\ AddOrUpdatePeer(Head(plan).did, Head(Head(plan).addrs), BeaconLatency)
    /\ plan' = <<[Head(plan) EXCEPT !.call = "notify"]>> \o Tail(plan)
    /\ UNCHANGED <<rendezvousVars, running, stopped, pc, healthy, policies, granted>>

\* One call for every endpoint of every beacon.
Notify ==
    /\ pc = "meet" /\ plan # <<>> /\ Head(plan).call = "notify"
    /\ NotifyDirectPeerConnected
    /\ plan' = AfterAddress("meet")
    /\ pc' = IF plan' = <<>> THEN "rest" ELSE "meet"
    /\ UNCHANGED <<routerVars, running, stopped, healthy, policies, granted>>

\* The select of discoveryLoop: a tick that is due may win over the closed channel.
NextCycle ==
    /\ pc = "rest"
    /\ pc' = "count"
    /\ UNCHANGED <<routerVars, rendezvousVars, running, stopped, healthy, plan, policies, granted>>

LeaveLoop ==
    /\ pc = "rest" /\ stopped
    /\ pc' = "off"
    /\ UNCHANGED <<routerVars, rendezvousVars, running, stopped, healthy, plan, policies, granted>>

Engine ==
    \/ CountHealthy \/ CheckBreaker \/ Publish \/ Trust \/ Probe \/ Ask \/ Meet \/ Notify
    \/ NextCycle \/ LeaveLoop

(***************************************************************************)
(* The others.                                                             *)
(***************************************************************************)

\* main.go: a handshake, a roaming update or data of a peer the firewall accepts.
Hear(d, a) ==
    /\ d \in policies /\ a \in Homes[d]
    /\ AddOrUpdatePeer(d, a, HeardLatency)
    /\ UNCHANGED <<rendezvousVars, engineVars, policies, granted>>

Authorize(d) ==
    /\ policies' = policies \cup {d} /\ granted' = granted \cup {d}
    /\ UNCHANGED <<routerVars, rendezvousVars, engineVars>>

Revoke(d) ==
    /\ policies' = policies \ {d} /\ granted' = granted \ {d}
    /\ UNCHANGED <<routerVars, rendezvousVars, engineVars>>

ReportHealth(d, m) ==
    /\ UpdatePeerHealth(d, m)
    /\ UNCHANGED <<rendezvousVars, engineVars, policies, granted>>

Forget(d) ==
    /\ RemovePeer(d)
    /\ UNCHANGED <<rendezvousVars, engineVars, policies, granted>>

ClockHour ==
    /\ NextHour
    /\ UNCHANGED <<routerVars, engineVars, policies, granted>>

Others ==
    \/ Start \/ Stop \/ ClockHour
    \/ \E d \in Contacts : Authorize(d) \/ Revoke(d) \/ Forget(d)
    \/ \E d \in Contacts, a \in Addresses : Hear(d, a)
    \/ \E d \in Contacts, m \in Measures : ReportHealth(d, m)

DiscoveryNext == Engine \/ Others

DiscoveryFairness == WF_discoveryVars(Engine)

(***************************************************************************)
(* Properties.                                                             *)
(***************************************************************************)

\* Whoever has a policy is in the keystore or was authorised by an administrator since the
\* last revocation: a beacon, however good its signature, gives no access
\* (autonomous_discovery.go:163, 269-271).
TrustIsExplicit == policies \subseteq {Trusted[k].did : k \in DOMAIN Trusted} \cup granted

\* A node that loses every healthy peer after it has switched the signalling off switches it
\* on again, unless a peer recovers or the engine is stopped (autonomous_discovery.go:114-116).
IsolationEndsSilence ==
    circuitBroken /\ HealthyPeers = {} ~> ~circuitBroken \/ HealthyPeers # {} \/ stopped
==============================================================================
