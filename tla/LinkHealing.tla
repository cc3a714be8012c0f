----------------------------- MODULE LinkHealing -----------------------------
(* The link healer, src/src/pkg/l1/link_healing.go, and the active prober that *)
(* feeds it, wan_active_prober.go, over the peer table of the router.          *)
(*                                                                             *)
(* RecordProbeResult runs under the healer's lock, and under the prober's when *)
(* the prober calls it: one action. A sweep of the prober works on a copy of   *)
(* the peer table, one datagram at a time, so peers may roam or leave before   *)
(* their turn. The network keeps, delays, repeats and loses datagrams.         *)
(*                                                                             *)
(* Instants are kept as ages and remaining times, which stop where they no     *)
(* longer matter, and so do the counters compared with a threshold. What only  *)
(* a reader of statistics sees is left out: datagram counters, round-trip      *)
(* extremes, and the alternative that RecordProbeResult proposes, which the    *)
(* prober drops.                                                               *)
EXTENDS KleinbergRouter

CONSTANTS
    MaxConsecutiveLosses, RecoverySuccesses,
    DegradedLatency,            \* in ticks of the clock, as all times here
    FlapWindow,                 \* 10 s in the code
    PenaltyStep, PenaltyMax,    \* 2 s and 30 s
    MaxRTT,                     \* 10 s: an older echo is not taken
    MaxInFlight                 \* bound of the model

HealingAssumption ==
    /\ MaxConsecutiveLosses \in Nat \ {0} /\ RecoverySuccesses \in Nat \ {0}
    /\ FlapWindow \in Nat \ {0} /\ PenaltyStep \in Nat \ {0} /\ PenaltyMax \in Nat \ {0}
    /\ DegradedLatency \in Nat /\ MaxRTT \in Nat

ASSUME HealingAssumption

VARIABLES
    link,       \* stats of the healer: DID -> record
    probed,     \* stats of the prober: DID -> [endpoint, losses]
    sweep,      \* what the sweep under way has still to probe: set of [did, addr]
    unsent,     \* probes whose write failed, at most one
    inFlight    \* probes sent: set of [addr, age]

healingVars == <<routerVars, link, probed, sweep, unsent, inFlight>>

FreshLink == [losses |-> 0, successes |-> 0, degraded |-> FALSE,
              sinceFailover |-> FlapWindow, holdDown |-> 0, flaps |-> 0]

\* One flap more than these and the penalty is at its limit.
FlapsThatCount == (PenaltyMax + PenaltyStep - 1) \div PenaltyStep - 1

Targets == [did : Peers, addr : Addresses]

HealingTypeOK ==
    /\ DOMAIN link \subseteq Peers /\ DOMAIN probed \subseteq Peers
    /\ \A d \in DOMAIN link :
          link[d] \in [losses : 0 .. MaxConsecutiveLosses, successes : 0 .. RecoverySuccesses,
                       degraded : BOOLEAN, sinceFailover : 0 .. FlapWindow,
                       holdDown : 0 .. PenaltyMax, flaps : 0 .. FlapsThatCount]
    /\ \A d \in DOMAIN probed :
          probed[d] \in [endpoint : Addresses, losses : 0 .. MaxConsecutiveLosses]
    /\ sweep \subseteq Targets /\ unsent \subseteq Targets
    /\ inFlight \subseteq [addr : Addresses, age : 0 .. MaxRTT]

HealingInit ==
    /\ RouterInit
    /\ link = [d \in {} |-> {}] /\ probed = [d \in {} |-> {}]
    /\ sweep = {} /\ unsent = {} /\ inFlight = {}

Put(f, d, r) == [e \in DOMAIN f \cup {d} |-> IF e = d THEN r ELSE f[e]]

(***************************************************************************)
(* LinkHealingEngine.                                                      *)
(***************************************************************************)
Lost(s) ==
    LET n == Least(s.losses + 1, MaxConsecutiveLosses) IN
    [s EXCEPT !.losses = n, !.successes = 0,
              !.degraded = @ \/ n >= MaxConsecutiveLosses]

Slow(s) == [s EXCEPT !.losses = 0, !.successes = 0, !.degraded = TRUE]

\* A good answer. The link recovers after enough of them, once the hold-down is over.
\* Mutant: the hold-down is not looked at.
GoodAtOnce(s) ==
    LET n == Least(s.successes + 1, RecoverySuccesses) IN
    IF n >= RecoverySuccesses
    THEN [s EXCEPT !.losses = 0, !.successes = n, !.degraded = FALSE, !.flaps = 0]
    ELSE [s EXCEPT !.losses = 0, !.successes = n]

Good(s) ==
    LET n == Least(s.successes + 1, RecoverySuccesses) IN
    IF n >= RecoverySuccesses /\ s.holdDown = 0
    THEN [s EXCEPT !.losses = 0, !.successes = n, !.degraded = FALSE, !.flaps = 0]
    ELSE [s EXCEPT !.losses = 0, !.successes = n]

\* Flap damping: a failover soon after the last one raises the penalty, up to a limit.
\* Mutant: without a limit.
DampedEver(s) ==
    LET n == s.flaps + 1 IN
    IF s.sinceFailover < FlapWindow
    THEN [s EXCEPT !.flaps = n, !.holdDown = n * PenaltyStep, !.sinceFailover = 0]
    ELSE [s EXCEPT !.sinceFailover = 0]

Damped(s) ==
    LET n == s.flaps + 1 IN
    IF s.sinceFailover < FlapWindow
    THEN [s EXCEPT !.flaps = Least(n, FlapsThatCount),
                   !.holdDown = Least(n * PenaltyStep, PenaltyMax), !.sinceFailover = 0]
    ELSE [s EXCEPT !.sinceFailover = 0]

AfterResult(s, success, rtt) ==
    LET slow == rtt > DegradedLatency
        s1   == IF ~success THEN Lost(s) ELSE IF slow THEN Slow(s) ELSE Good(s)
    IN  IF (~success \/ slow) /\ s1.degraded THEN Damped(s1) ELSE s1

LinkOf(d) == IF d \in DOMAIN link THEN link[d] ELSE FreshLink

RecordProbeResult(d, success, rtt) ==
    link' = Put(link, d, AfterResult(LinkOf(d), success, rtt))

(***************************************************************************)
(* WANActiveProber.                                                        *)
(***************************************************************************)

\* ProbeAllPeers begins: a copy of the table, walked in no order.
BeginSweep ==
    /\ sweep = {} /\ unsent = {}
    /\ sweep' = {[did |-> d, addr |-> peers[d].addr] : d \in DOMAIN peers}
    /\ UNCHANGED <<routerVars, link, probed, unsent, inFlight>>

\* ProbeSinglePeer up to the write. The endpoint of a peer stays that of its first probe.
Send(p) ==
    /\ unsent = {}
    /\ probed' = IF p.did \in DOMAIN probed THEN probed
                 ELSE Put(probed, p.did, [endpoint |-> p.addr, losses |-> 0])
    /\ sweep' = sweep \ {p}
    /\ \/ unsent' = {p} /\ UNCHANGED inFlight
       \/ /\ Cardinality(inFlight) < MaxInFlight
          /\ inFlight' = inFlight \cup {[addr |-> p.addr, age |-> 0]}
          /\ UNCHANGED unsent
    /\ UNCHANGED <<routerVars, link>>

\* recordLoss.
RecordLoss(d, a) ==
    LET old == IF d \in DOMAIN probed THEN probed[d] ELSE [endpoint |-> a, losses |-> 0]
        n   == Least(old.losses + 1, MaxConsecutiveLosses)
    IN  /\ probed' = Put(probed, d, [old EXCEPT !.losses = n])
        /\ RecordProbeResult(d, FALSE, 0)

WriteFailed ==
    /\ \E p \in unsent : RecordLoss(p.did, p.addr)
    /\ unsent' = {}
    /\ UNCHANGED <<routerVars, sweep, inFlight>>

\* RecordLoss called from outside: whoever waited for the answer has given up.
TimedOut(d) ==
    /\ d \in DOMAIN probed
    /\ RecordLoss(d, probed[d].endpoint)
    /\ UNCHANGED <<routerVars, sweep, unsent, inFlight>>

\* recordSuccess: a peer with that endpoint, whoever answered.
\* Mutant: the losses of every peer with that endpoint are forgotten.
CreditAll(a, rtt) ==
    \E d \in DOMAIN probed :
        /\ probed[d].endpoint = a
        /\ probed' = [e \in DOMAIN probed |->
              IF probed[e].endpoint = a THEN [probed[e] EXCEPT !.losses = 0] ELSE probed[e]]
        /\ RecordProbeResult(d, TRUE, rtt)

Credit(a, rtt) ==
    \E d \in DOMAIN probed :
        /\ probed[d].endpoint = a
        /\ probed' = [probed EXCEPT ![d].losses = 0]
        /\ RecordProbeResult(d, TRUE, rtt)

\* HandleIncomingProbe of an echo: of any probe in flight, at any later time, more than once.
Echo(p) ==
    /\ Credit(p.addr, p.age)
    /\ UNCHANGED <<routerVars, sweep, unsent, inFlight>>

(***************************************************************************)
(* The network, the clock and the table.                                   *)
(***************************************************************************)
Vanish(p) ==
    /\ inFlight' = inFlight \ {p}
    /\ UNCHANGED <<routerVars, link, probed, sweep, unsent>>

\* Time passes; an echo older than MaxRTT is ignored from now on.
Tick ==
    /\ link' = [d \in DOMAIN link |->
                  [link[d] EXCEPT !.sinceFailover = Least(@ + 1, FlapWindow),
                                  !.holdDown = IF @ = 0 THEN 0 ELSE @ - 1]]
    /\ inFlight' = {[p EXCEPT !.age = @ + 1] : p \in {q \in inFlight : q.age < MaxRTT}}
    /\ UNCHANGED <<routerVars, probed, sweep, unsent>>

\* A peer is heard of, or heard from a new address.
Roam(d, a) ==
    /\ a \in Homes[d]
    /\ AddOrUpdatePeer(d, a, 10)
    /\ UNCHANGED <<link, probed, sweep, unsent, inFlight>>

Leave(d) ==
    /\ RemovePeer(d)
    /\ UNCHANGED <<link, probed, sweep, unsent, inFlight>>

HealingNext ==
    \/ BeginSweep \/ WriteFailed \/ Tick
    \/ \E p \in sweep : Send(p)
    \/ \E d \in Contacts : TimedOut(d) \/ Leave(d)
    \/ \E p \in inFlight : Echo(p) \/ Vanish(p)
    \/ \E d \in Contacts, a \in Addresses : Roam(d, a)

(***************************************************************************)
(* Properties.                                                             *)
(***************************************************************************)

\* A link that flapped is not taken back before its hold-down is over, however many good
\* answers arrive (link_healing.go:125-131, 137-144).
HoldDownHolds == \A d \in DOMAIN link : ~link[d].degraded => link[d].holdDown = 0

\* The prober and the healer count the same losses in a row for every peer, although echoes
\* find their peer by an endpoint that several peers may share or have left
\* (wan_active_prober.go:189-243).
CountsAgree == \A d \in DOMAIN probed : probed[d].losses = LinkOf(d).losses
==============================================================================
