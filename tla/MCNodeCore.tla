----------------------------- MODULE MCNodeCore -----------------------------
(* What a node does with a packet, from its arrival to the keys it is sealed   *)
(* with: the line of stages over pooled buffers with the automaton it drives,  *)
(* the gateway with its quality of service, the batcher, the memory quotas,    *)
(* the replay window, the sessions and their keys, the admission cookies.      *)
(*                                                                             *)
(* Those that share state are one module that extends the other. The rest meet *)
(* only through what they promise, so each is explored with everything that    *)
(* acts on its state and the others at rest: focus says which.                 *)
EXTENDS PacketPipeline, Gateway, ReplayWindow, PQCSession, CookieAdmission, TLC

CONSTANTS
    a, b

VARIABLES
    focus

\* Every number up to one past the window of six, then ones that leave a gap of one, of two, and
\* of more than a window.
MCSeqNo == 0 .. 6 \cup {8, 9, 16}

MCAllowed == [n \in Node |-> Node]

MCLimit == [replay |-> 2, qos |-> 3, other |-> 2]

CoreSymmetry == Permutations(Workers) \cup Permutations(Buffers) \cup Permutations(Node)

lineOwn == <<poolVars, retained, work, built, trusted>>
keepingVars == <<batcherVars, arbiterVars, keyVars, cookieVars>>
linkVars == <<windowVars, sessionVars>>

coreVars == <<pipelineVars, gatewayVars, linkVars, keepingVars, focus>>

CoreInit ==
    /\ focus \in {"line", "automaton", "gateway", "qos", "window", "session",
                  "batcher", "memory", "keys", "cookies"}
    /\ PipelineInit /\ GatewayInit /\ WindowInit /\ SessionInit
    /\ BatcherInit /\ ArbiterInit /\ KeyInit /\ CookieInit

PacketNext ==
    \/ focus = "line" /\ LineNext
    \/ focus = "automaton" /\ FSMNext /\ UNCHANGED lineOwn

TrafficNext ==
    \/ focus = "gateway" /\ RegistryNext
    \/ focus = "qos" /\ QoSNext /\ UNCHANGED gatewayOwn

LinkNext ==
    \/ focus = "window" /\ WindowNext /\ UNCHANGED sessionVars
    \/ focus = "session" /\ SessionNext /\ UNCHANGED windowVars

KeepingNext ==
    \/ focus = "batcher" /\ BatcherNext /\ UNCHANGED <<arbiterVars, keyVars, cookieVars>>
    \/ focus = "memory" /\ ArbiterNext /\ UNCHANGED <<batcherVars, keyVars, cookieVars>>
    \/ focus = "keys" /\ KeyNext /\ UNCHANGED <<batcherVars, arbiterVars, cookieVars>>
    \/ focus = "cookies" /\ CookieNext /\ UNCHANGED <<batcherVars, arbiterVars, keyVars>>

CoreNext ==
    \/ PacketNext /\ UNCHANGED <<gatewayVars, linkVars, keepingVars, focus>>
    \/ TrafficNext /\ UNCHANGED <<pipelineVars, linkVars, keepingVars, focus>>
    \/ LinkNext /\ UNCHANGED <<pipelineVars, gatewayVars, keepingVars, focus>>
    \/ KeepingNext /\ UNCHANGED <<pipelineVars, gatewayVars, linkVars, focus>>

CoreSpec == CoreInit /\ [][CoreNext]_coreVars

(***************************************************************************)
(* Properties: those of the parts, which are stated in their modules,      *)
(* gathered by subject.                                                    *)
(***************************************************************************)

\* Types of all parts, with the capacities that are part of them: a mode history, an event
\* channel and a window never outgrow theirs (operating_modes.go:77, gateway.go:352-367).
CoreTypeOK ==
    /\ PipelineTypeOK /\ GatewayTypeOK /\ WindowTypeOK /\ SessionTypeOK
    /\ BatcherTypeOK /\ ArbiterTypeOK /\ KeyTypeOK /\ CookieTypeOK

\* A pooled buffer has as many references as holders, lies in its pool once or not at all, and
\* is not written while anybody reads it (buffer_pool.go:63-68, pipeline.go:103-112).
BuffersHaveHolders == BuffersAccountedFor /\ BuffersAreStable

\* What is let through is paid for: traffic by tokens or solved challenges, cookies by tokens or
\* proofs of work, and no cookie outlives its two epochs (qos.go:56-76, crypto.go:219-288).
AdmissionIsRationed == TrafficIsPaidFor /\ CookiesAreRationed /\ CookiesExpire

\* The registers of the gateway and of the operating modes say what happened: channels fed are
\* open, a component at rest has a reason, the history of modes is a chain
\* (gateway.go:117-227, operating_modes.go:70-81).
RegistersAreHonest == RegisteredChannelsAreOpen /\ RestHasAReason /\ HistoryIsAChain

\* The two bitmap shifts of the code agree, and the bitmap says what has been accepted
\* (l0/anti_replay.go:26-91, l1/anti_replay_session.go:186-212).
WindowIsExact == focus = "window" => ShiftsAgree /\ BitmapExact

\* Nothing is handled twice or left behind by the batcher, given back twice to the memory quotas,
\* or sealed under a key past its bound (packet_batcher.go, memory_arbiter.go, key_rotation.go).
NothingCountedTwice ==
    /\ EveryPacketOnce /\ NothingLeftBehind /\ MemoryBooksBalance
    /\ KeyUseIsBounded /\ OnlyTwoKeys

\* No step of the automaton leaves its table of moves; no initiator goes back to an older attempt;
\* no session comes from an attempt that had expired (fsm.go:39-126, session_manager.go:150-260).
StepsAreLegal == MovesAreAllowed /\ InitiatorNeverRegresses /\ NoLateInstall

\* What the parts promise to the others they keep: the replay window is a sliding window, the
\* batcher a queue (l0/anti_replay.go:26-91, l0/packet_batcher.go:78-171).
ImplementsPromises == ImplementsWindow /\ ImplementsQueue
=============================================================================
