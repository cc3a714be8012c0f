--------------------------- MODULE SilentDispatch ----------------------------
(* Silent calls between peers: a semaphore for all calls and a bucket of       *)
(* tokens for each caller (src/src/pkg/l1/silent_call_response.go).            *)
(*                                                                             *)
(* The check before a call takes a slot, finds the peer or makes it, refills   *)
(* the bucket if the last refill is old, and takes a token, each by itself.    *)
(* Time is counted in the 100 ms after which a bucket is refilled. An entry    *)
(* made by the check and one that was registered differ in nothing that is     *)
(* asked for, and neither is ever removed.                                     *)
EXTENDS Integers, FiniteSets, FiniteSetsExt

CONSTANTS
    Calls,          \* goroutines that process inbound calls
    Callers,        \* DIDs
    Slots,          \* size of the semaphore (10000 in the code)
    Limit,          \* tokens of a full bucket (500)
    MaxTicks        \* bound of the model

SilentAssumption ==
    /\ IsFiniteSet(Calls)
    /\ Slots \in Nat \ {0} /\ Limit \in Nat \ {0} /\ MaxTicks \in Nat

ASSUME SilentAssumption

VARIABLES
    sem,            \* slots taken
    peers,          \* DIDs with an entry
    tokens, lastToken,      \* DID -> its bucket
    ticks,
    call,           \* goroutine -> how far its call is, whose it is, what it has read
    answered        \* DID -> calls let through since the last tick: history

silentVars == <<sem, peers, tokens, lastToken, ticks, call, answered>>

NoCall == [at |-> "idle"]
CallRecords == {NoCall} \cup [at : {"slot", "ask", "refill", "stamp", "take", "handle"},
                              peer : Callers, now : 0 .. MaxTicks]

SilentTypeOK ==
    /\ sem \in 0 .. Slots /\ peers \subseteq Callers
    /\ tokens \in [Callers -> 0 .. Limit] /\ lastToken \in [Callers -> 0 .. ticks]
    /\ ticks \in 0 .. MaxTicks /\ call \in [Calls -> CallRecords]
    /\ answered \in [Callers -> Nat]

SilentInit ==
    /\ sem = 0 /\ peers = {} /\ tokens = [d \in Callers |-> 0] /\ lastToken = [d \in Callers |-> 0]
    /\ ticks = 0 /\ call = [g \in Calls |-> NoCall] /\ answered = [d \in Callers |-> 0]

\* RegisterPeer, as far as the bucket is concerned.
Enter(d) ==
    /\ peers' = peers \cup {d}
    /\ tokens' = IF d \in peers THEN tokens ELSE [tokens EXCEPT ![d] = Limit]
    /\ lastToken' = IF d \in peers THEN lastToken ELSE [lastToken EXCEPT ![d] = ticks]

RegisterCaller(d) == Enter(d) /\ UNCHANGED <<sem, ticks, call, answered>>

\* A slot if there is one; a call without slot is dropped and only counted.
TakeSlot(g, d) ==
    /\ call[g] = NoCall /\ sem < Slots
    /\ sem' = sem + 1
    /\ call' = [call EXCEPT ![g] = [at |-> "slot", peer |-> d, now |-> 0]]
    /\ UNCHANGED <<peers, tokens, lastToken, ticks, answered>>

\* The peer is looked up, or entered, and the time read.
FindPeer(g) ==
    /\ call[g].at = "slot"
    /\ Enter(call[g].peer)
    /\ call' = [call EXCEPT ![g].at = "ask", ![g].now = ticks]
    /\ UNCHANGED <<sem, ticks, answered>>

\* The time of the last refill is loaded, and compared with the time read before.
AskRefill(g) ==
    LET old == call[g].now - lastToken[call[g].peer] > 1
    IN  /\ call[g].at = "ask"
        /\ call' = [call EXCEPT ![g].at = IF old THEN "refill" ELSE "take",
                                ![g].now = IF old THEN @ ELSE 0]
        /\ UNCHANGED <<sem, peers, tokens, lastToken, ticks, answered>>

\* The tokens are stored first, then the time read at the beginning.
Refill(g) ==
    /\ call[g].at = "refill"
    /\ tokens' = [tokens EXCEPT ![call[g].peer] = Limit]
    /\ call' = [call EXCEPT ![g].at = "stamp"]
    /\ UNCHANGED <<sem, peers, lastToken, ticks, answered>>

Stamp(g) ==
    /\ call[g].at = "stamp"
    /\ lastToken' = [lastToken EXCEPT ![call[g].peer] = call[g].now]
    /\ call' = [call EXCEPT ![g].at = "take", ![g].now = 0]
    /\ UNCHANGED <<sem, peers, tokens, ticks, answered>>

\* A call without token gives back its slot. An overdrawn bucket counts as an empty one: both refuse,
\* and a refill stores the limit.
TakeToken(g) ==
    LET d == call[g].peer
    IN  /\ call[g].at = "take"
        /\ tokens' = [tokens EXCEPT ![d] = Max({0, @ - 1})]
        /\ IF tokens[d] > 0
           THEN /\ call' = [call EXCEPT ![g].at = "handle"]
                /\ answered' = [answered EXCEPT ![d] = @ + 1] /\ UNCHANGED sem
           ELSE call' = [call EXCEPT ![g] = NoCall] /\ sem' = sem - 1 /\ UNCHANGED answered
        /\ UNCHANGED <<peers, lastToken, ticks>>

\* The handler answers or fails; the deferred ReleaseSemaphore runs in either case.
Answer(g) ==
    /\ call[g].at = "handle"
    /\ sem' = IF sem > 0 THEN sem - 1 ELSE 0
    /\ call' = [call EXCEPT ![g] = NoCall]
    /\ UNCHANGED <<peers, tokens, lastToken, ticks, answered>>

SilentTick ==
    /\ ticks < MaxTicks /\ ticks' = ticks + 1
    /\ answered' = [d \in Callers |-> 0]
    /\ UNCHANGED <<sem, peers, tokens, lastToken, call>>

SilentNext ==
    \/ \E d \in Callers : RegisterCaller(d)
    \/ \E g \in Calls :
          \/ FindPeer(g) \/ AskRefill(g) \/ Refill(g) \/ Stamp(g) \/ TakeToken(g) \/ Answer(g)
          \/ \E d \in Callers : TakeSlot(g, d)
    \/ SilentTick

(***************************************************************************)
(* Properties.                                                             *)
(***************************************************************************)

\* A slot is taken for every call under way and for no other: none leaks on the paths that
\* refuse a call, and none is given back twice (silent_call_response.go:126-189).
SlotsMatchCalls == sem = Cardinality({g \in Calls : call[g] # NoCall})

\* The refill is not atomic. Callers that saw the same old time each fill the bucket, and one that
\* was late stores an old time, by which the others fill it once more: in 100 ms a DID gets through
\* not one bucket but one or two for every goroutine and one for every two of them, and no more
\* (158-169).
BucketsAreBounded ==
    LET n == Cardinality(Calls)
    IN  \A d \in Callers : 2 * answered[d] <= Limit * (n * (n + 3))
==============================================================================
