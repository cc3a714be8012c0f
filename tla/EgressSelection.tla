--------------------------- MODULE EgressSelection ---------------------------
(* The choice of the peer through which a node leaves for the Internet, and    *)
(* who may leave through this one (src/src/pkg/l1/egress_selector.go,          *)
(* egress_types.go and the policy of egress_forwarder.go).                     *)
(*                                                                             *)
(* Peers, what they announce and how far they are change at any time; an       *)
(* evaluation sees them as they are and runs under the lock of the selector.   *)
(* The score of a peer is a number, less is better. Time is counted in         *)
(* seconds. Nobody registers a callback for a change of gateway.               *)
EXTENDS Integers

CONSTANTS
    Gateways,           \* DIDs
    GatewayScores,
    MinObservation,     \* 3 s
    MaxEgressTime       \* bound of the model

EgressAssumption ==
    /\ GatewayScores \subseteq Nat /\ MinObservation \in Nat /\ MaxEgressTime \in Nat

ASSUME EgressAssumption

VARIABLES
    egressTime,
    healthy,            \* peers neither unreachable nor quarantined
    exits,              \* peers that announce an exit
    score,              \* peer -> CalculateGatewayScore of its metrics
    mode, specific,     \* of the selector
    active, activeScore, lastSwitch,
    evaluated,          \* has the selector seen the peers as they are: history
    policy              \* of the forwarder: [allow, any, dids]

egressPeers == <<egressTime, healthy, exits, score>>
egressChoice == <<mode, specific, active, activeScore, lastSwitch>>
egressVars == <<egressPeers, egressChoice, evaluated, policy>>

\* The empty DID: leave directly.
Direct == "direct"

EgressTypeOK ==
    /\ egressTime \in 0 .. MaxEgressTime /\ healthy \subseteq Gateways /\ exits \subseteq Gateways
    /\ score \in [Gateways -> GatewayScores]
    /\ mode \in {"auto", "specific", "direct"} /\ specific \in Gateways \cup {Direct}
    /\ active \in Gateways \cup {Direct} /\ activeScore \in GatewayScores \cup {0}
    /\ lastSwitch \in -MinObservation .. egressTime /\ evaluated \in BOOLEAN
    /\ policy \in [allow : BOOLEAN, any : BOOLEAN, dids : SUBSET Gateways]

EgressInit ==
    /\ egressTime = 0 /\ healthy = Gateways /\ exits = {}
    /\ \E s \in GatewayScores : score = [g \in Gateways |-> s]
    /\ mode = "auto" /\ specific = Direct
    /\ active = Direct /\ activeScore = 0 /\ lastSwitch = -MinObservation
    /\ evaluated = FALSE /\ policy = [allow |-> FALSE, any |-> FALSE, dids |-> {}]

(***************************************************************************)
(* The peers.                                                              *)
(***************************************************************************)

Unseen == evaluated' = FALSE /\ UNCHANGED <<egressChoice, policy>>

\* The health of a peer, its record in the registry (Set, Remove), its metrics.
Sicken(g) == healthy' = healthy \ {g} /\ Unseen /\ UNCHANGED <<egressTime, exits, score>>
Heal(g) == healthy' = healthy \cup {g} /\ Unseen /\ UNCHANGED <<egressTime, exits, score>>
SetCapability(g) == exits' = exits \cup {g} /\ Unseen /\ UNCHANGED <<egressTime, healthy, score>>
RemoveCapability(g) == exits' = exits \ {g} /\ Unseen /\ UNCHANGED <<egressTime, healthy, score>>
Measure(g, s) == score' = [score EXCEPT ![g] = s] /\ Unseen /\ UNCHANGED <<egressTime, healthy, exits>>

EgressTick ==
    /\ egressTime < MaxEgressTime /\ egressTime' = egressTime + 1
    /\ Unseen /\ UNCHANGED <<healthy, exits, score>>

(***************************************************************************)
(* The selector.                                                           *)
(***************************************************************************)

SwitchTo(g, s) ==
    /\ active' = g /\ activeScore' = s
    /\ lastSwitch' = IF active # g THEN egressTime ELSE lastSwitch

\* Changing the mode leaves the gateway as it is, unless the mode is direct.
SetMode(m, g) ==
    /\ mode' = m /\ specific' = g
    /\ IF m = "direct" THEN active' = Direct /\ activeScore' = 0 /\ lastSwitch' = egressTime
       ELSE UNCHANGED <<active, activeScore, lastSwitch>>
    /\ evaluated' = FALSE /\ UNCHANGED <<egressPeers, policy>>

\* evaluateSpecific: the score stays what it was.
EvaluateSpecific ==
    /\ mode = "specific"
    /\ IF specific # Direct /\ specific \in healthy THEN SwitchTo(specific, activeScore)
       ELSE IF specific = Direct THEN active' = Direct /\ UNCHANGED <<activeScore, lastSwitch>>
       ELSE SwitchTo(Direct, activeScore)

Viable == healthy \cap exits
IsBest(g) == g \in Viable /\ \A h \in Viable : score[g] <= score[h]

\* Not a quarter better than the score remembered for the active gateway, and that is a young one.
Clings(g) == 4 * score[g] >= 3 * activeScore /\ egressTime - lastSwitch < MinObservation

EvaluateAuto ==
    /\ mode = "auto"
    /\ \/ Viable = {} /\ SwitchTo(Direct, IF active # Direct THEN 0 ELSE activeScore)
       \/ \E g \in Gateways :
             /\ IsBest(g)
             /\ IF active \notin {g, Direct} /\ Clings(g)
                THEN UNCHANGED <<active, activeScore, lastSwitch>>
                ELSE SwitchTo(g, score[g])

EvaluateDirect ==
    mode = "direct" /\ active' = Direct /\ activeScore' = 0 /\ UNCHANGED lastSwitch

EvaluatePeers ==
    /\ EvaluateSpecific \/ EvaluateAuto \/ EvaluateDirect
    /\ evaluated' = TRUE /\ UNCHANGED <<mode, specific, egressPeers, policy>>

(***************************************************************************)
(* The policy of the forwarder.                                            *)
(***************************************************************************)

SetPolicy(p) == policy' = p /\ UNCHANGED <<egressPeers, egressChoice, evaluated>>
SetAllowEgress(b) == SetPolicy([policy EXCEPT !.allow = b])
SetAllowAnyPeer(b) == SetPolicy([policy EXCEPT !.any = b])
AuthorizeDID(g) == SetPolicy([policy EXCEPT !.dids = @ \cup {g}])
RevokeDID(g) == SetPolicy([policy EXCEPT !.dids = @ \ {g}])

IsAuthorized(g) == policy.allow /\ (policy.any \/ g \in policy.dids)

PolicyNext ==
    \/ \E b \in BOOLEAN : SetAllowEgress(b) \/ SetAllowAnyPeer(b)
    \/ \E g \in Gateways : AuthorizeDID(g) \/ RevokeDID(g)

EgressNext ==
    \/ \E g \in Gateways : \/ Sicken(g) \/ Heal(g) \/ SetCapability(g) \/ RemoveCapability(g)
                           \/ \E s \in GatewayScores : Measure(g, s)
    \/ \E m \in {"auto", "specific", "direct"}, g \in Gateways \cup {Direct} : SetMode(m, g)
    \/ EvaluatePeers \/ EgressTick

(***************************************************************************)
(* Properties.                                                             *)
(***************************************************************************)

\* After an evaluation the gateway is one through which a packet can leave, or one chosen less
\* than MinObservation ago, whatever the mode was before and whatever was remembered of its score
\* (egress_selector.go:72-175).
GatewayIsUsable ==
    evaluated => CASE mode = "direct" -> active = Direct
                   [] mode = "specific" -> active = Direct \/ (active = specific /\ active \in healthy)
                   [] OTHER -> \/ active \in Viable \/ (active = Direct /\ Viable = {})
                               \/ egressTime - lastSwitch < MinObservation
==============================================================================
