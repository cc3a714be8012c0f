----------------------------- MODULE NatPunching -----------------------------
(* Piercing address translators (src/src/pkg/l1/nat_hole_punch.go) and the     *)
(* older engine with its relay queue (l1/nat_traversal.go).                    *)
(*                                                                             *)
(* Two nodes punch towards each other over a network that loses, repeats and   *)
(* reorders. The translator in front of a node lets in nothing from the other  *)
(* side before the node has sent something there. Session identifiers are      *)
(* random, so no two punches share one; they are numbered here.                *)
(*                                                                             *)
(* The probes of a punch are one frame encoded once, before the loop, so that  *)
(* their sequence numbers do not differ (nat_hole_punch.go:104-110, 139-141).  *)
EXTENDS Integers, FiniteSets, Functions

CONSTANTS
    Punchers,       \* the two nodes
    MaxPunches,     \* bound of the model: punches begun
    PunchRetries,   \* probes sent at most (DefaultPunchRetries * 4)
    Attempts,       \* calls of AttemptHolePunch
    RelayNodes,     \* relays that can be registered
    RelayCapacity   \* of relayQueue (512)

PunchAssumption ==
    /\ IsFiniteSet(Punchers) /\ Cardinality(Punchers) = 2
    /\ IsFiniteSet(Attempts)
    /\ MaxPunches \in Nat /\ PunchRetries \in Nat
    /\ RelayCapacity \in Nat

ASSUME PunchAssumption

VARIABLES
    punch,          \* session -> [owner, at, probes]
    doneChan,       \* session of the table -> whether its channel is full
    air,            \* messages sent: [to, op, session]
    pierced,        \* nodes that have sent something to the other one
    heard,          \* sessions of which the other node received a probe: history
    attempt,        \* call of AttemptHolePunch -> [at, prober, reply]
    punchesOk,
    relays,         \* relayNodes
    relayQueue      \* frames in the queue that nothing drains

natVars == <<punch, doneChan, air, pierced, heard, attempt, punchesOk, relays, relayQueue>>
punchVars == <<punch, doneChan, air, pierced, heard>>
attemptVars == <<attempt, punchesOk>>
relayOwn == <<relays, relayQueue>>

Sessions == 1 .. MaxPunches
Facing(n) == CHOOSE m \in Punchers : m # n

Unasked == [at |-> "unasked", prober |-> "none", reply |-> "none"]

NatTypeOK ==
    /\ DOMAIN punch \subseteq Sessions
    /\ \A s \in DOMAIN punch :
          punch[s] \in [owner : Punchers, at : {"open", "won", "lost"}, probes : 0 .. PunchRetries]
    /\ DOMAIN doneChan \subseteq DOMAIN punch /\ \A s \in DOMAIN doneChan : doneChan[s] \in BOOLEAN
    /\ air \subseteq [to : Punchers, op : {"probe", "ack"}, session : Sessions]
    /\ pierced \subseteq Punchers /\ heard \subseteq DOMAIN punch
    /\ attempt \in [Attempts -> [at : {"unasked", "waiting", "ok", "failed"},
                                 prober : {"none", "reading", "done"},
                                 reply : {"none", "ok", "failed"}]]
    /\ punchesOk \in 0 .. Cardinality(Attempts)
    /\ relays \subseteq RelayNodes /\ relayQueue \in 0 .. RelayCapacity

NatInit ==
    /\ punch = [s \in {} |-> {}] /\ doneChan = [s \in {} |-> FALSE]
    /\ air = {} /\ pierced = {} /\ heard = {}
    /\ attempt = [c \in Attempts |-> Unasked] /\ punchesOk = 0
    /\ relays = {} /\ relayQueue = 0

(***************************************************************************)
(* ExecutePunch.                                                           *)
(***************************************************************************)

Emit(n, op, s) ==
    /\ air' = air \cup {[to |-> Facing(n), op |-> op, session |-> s]}
    /\ pierced' = pierced \cup {n}

BeginPunch(n) ==
    LET s == Cardinality(DOMAIN punch) + 1
    IN  /\ s \in Sessions
        /\ punch' = [t \in DOMAIN punch \cup {s} |->
                        IF t = s THEN [owner |-> n, at |-> "open", probes |-> 0] ELSE punch[t]]
        /\ doneChan' = [t \in DOMAIN doneChan \cup {s} |-> IF t = s THEN FALSE ELSE doneChan[t]]
        /\ UNCHANGED <<air, pierced, heard, attemptVars, relayOwn>>

\* The end of a punch on any path takes its session out of the table.
EndPunch(s, how) ==
    /\ punch' = [punch EXCEPT ![s].at = how]
    /\ doneChan' = Restrict(doneChan, DOMAIN doneChan \ {s})
    /\ UNCHANGED <<heard, attemptVars, relayOwn>>

Probe(s) ==
    /\ punch[s].at = "open" /\ punch[s].probes < PunchRetries
    /\ Emit(punch[s].owner, "probe", s)
    /\ punch' = [punch EXCEPT ![s].probes = @ + 1]
    /\ UNCHANGED <<doneChan, heard, attemptVars, relayOwn>>

Win(s) ==
    /\ punch[s].at = "open" /\ doneChan[s]
    /\ Emit(punch[s].owner, "ack", s)
    /\ EndPunch(s, "won")

\* The deadline, or the last probe has been sent and another tick comes.
Lose(s) ==
    /\ punch[s].at = "open"
    /\ EndPunch(s, "lost")
    /\ UNCHANGED <<air, pierced>>

\* HandleIncomingPacket: a probe is answered, whosever session it is, and a message of a session
\* of this node's table wakes it. A message may come again.
Wakes(m) ==
    [s \in DOMAIN doneChan |-> doneChan[s] \/ (s = m.session /\ punch[s].owner = m.to)]

HandleIncomingPacket(m) ==
    /\ m \in air /\ m.to \in pierced
    /\ doneChan' = Wakes(m)
    /\ IF m.op = "probe"
       THEN Emit(m.to, "ack", m.session) /\ heard' = heard \cup {m.session}
       ELSE UNCHANGED <<air, pierced, heard>>
    /\ UNCHANGED <<punch, attemptVars, relayOwn>>

(***************************************************************************)
(* AttemptHolePunch and the relays.                                        *)
(***************************************************************************)

\* The entry of activePunches is written and removed but never read.
BeginAttempt(c) ==
    /\ attempt[c].at = "unasked"
    /\ attempt' = [attempt EXCEPT ![c] = [at |-> "waiting", prober |-> "reading", reply |-> "none"]]
    /\ UNCHANGED <<punchVars, punchesOk, relayOwn>>

\* The goroutine puts its result into a channel of one place: the peer's answer, or a failure.
AnswerAttempt(c, reply) ==
    /\ attempt[c].prober = "reading"
    /\ attempt' = [attempt EXCEPT ![c].prober = "done", ![c].reply = reply]
    /\ UNCHANGED <<punchVars, punchesOk, relayOwn>>

\* The caller takes the result.
EndAttempt(c) ==
    /\ attempt[c].at = "waiting" /\ attempt[c].reply # "none"
    /\ attempt' = [attempt EXCEPT ![c].at = attempt[c].reply, ![c].reply = "none"]
    /\ punchesOk' = IF attempt[c].reply = "ok" THEN punchesOk + 1 ELSE punchesOk
    /\ UNCHANGED <<punchVars, relayOwn>>

\* The deadline of the caller passes, or the engine is closed; a result can come after that.
GiveUpAttempt(c) ==
    /\ attempt[c].at = "waiting"
    /\ attempt' = [attempt EXCEPT ![c].at = "failed"]
    /\ UNCHANGED <<punchVars, punchesOk, relayOwn>>

RegisterDERPRelay(r) ==
    /\ relays' = relays \cup {r}
    /\ UNCHANGED <<punchVars, attemptVars, relayQueue>>

\* Without a relay, or with the queue full, the frame is refused.
RouteViaDERPRelay ==
    /\ relays # {} /\ relayQueue < RelayCapacity
    /\ relayQueue' = relayQueue + 1
    /\ UNCHANGED <<punchVars, attemptVars, relays>>

PunchStep == \E s \in DOMAIN punch : Probe(s) \/ Win(s) \/ Lose(s)

NatNext ==
    \/ \E n \in Punchers : BeginPunch(n)
    \/ PunchStep
    \/ \E m \in air : HandleIncomingPacket(m)
    \/ \E c \in Attempts : \/ BeginAttempt(c) \/ EndAttempt(c) \/ GiveUpAttempt(c)
                           \/ \E r \in {"ok", "failed"} : AnswerAttempt(c, r)
    \/ \E r \in RelayNodes : RegisterDERPRelay(r)
    \/ RouteViaDERPRelay

\* The goroutine of a call has a read deadline.
NatFairness == \A c \in Attempts : WF_natVars(\E r \in {"ok", "failed"} : AnswerAttempt(c, r))

NatSpec == NatInit /\ [][NatNext]_natVars /\ NatFairness

(***************************************************************************)
(* Properties.                                                             *)
(***************************************************************************)

\* A punch is reported a success only if a probe of that very punch went through to the other
\* node, whose translator let it in: never because of the other node's own punch, or of what is
\* left in the air of an earlier one (nat_hole_punch.go:153-190). So both ways are open.
PunchIsMutual ==
    \A s \in DOMAIN punch : punch[s].at = "won" => s \in heard /\ pierced = Punchers

\* The goroutine that waits for the answer of a peer ends, also when its caller is long gone
\* (nat_traversal.go:144, 158-181).
ProbersEnd == \A c \in Attempts : attempt[c].prober = "reading" ~> attempt[c].prober = "done"
==============================================================================
