--------------------------------- MODULE QoS ---------------------------------
(* What a node rations: traffic, by classes, token buckets and proof-of-work   *)
(* challenges (src/src/pkg/l1/qos.go), and memory, by quotas for its classes   *)
(* of use (memory_arbiter.go).                                                 *)
(*                                                                             *)
(* A bucket is opened full when its DID is first seen. Time is counted in      *)
(* ticks of which each brings Rate tokens; it only matters when a bucket is    *)
(* used. A caller either knows the nonce of a challenge or does not.           *)
(*                                                                             *)
(* The shares of memory add up to the whole but each is rounded down by        *)
(* itself. A name that is no class counts as "other". Clients release what     *)
(* they like, also more than they have reserved.                               *)
EXTENDS Integers, FiniteSets, FiniteSetsExt

CONSTANTS
    Senders,        \* DIDs that have a bucket
    Burst,          \* capacity of a bucket (64 KiB in the code)
    Rate,           \* tokens a tick brings
    Lifetime,       \* ticks a challenge is valid
    Lengths,        \* lengths of packets
    MaxTime, MaxChallenges,     \* bounds of the model
    Limit,          \* class of memory -> bytes it may have
    TotalLimit,     \* bytes there are
    UnknownNames,   \* names of no class
    Amounts         \* bytes asked for or given back

QoSAssumption ==
    /\ Burst \in Nat \ {0} /\ Rate \in Nat /\ Lifetime \in Nat
    /\ Lengths \subseteq Nat /\ MaxTime \in Nat /\ MaxChallenges \in Nat

ASSUME QoSAssumption

Classes == DOMAIN Limit

ArbiterAssumption ==
    /\ "other" \in Classes /\ UnknownNames \cap Classes = {}
    /\ \A c \in Classes : Limit[c] \in Nat
    /\ TotalLimit \in Nat /\ Amounts \subseteq Nat

ASSUME ArbiterAssumption

VARIABLES
    buckets,        \* DID seen -> [tokens, last]
    challenges,     \* the challenges open: [id, did, expires]
    issued,         \* challenges issued so far
    time,
    passed,         \* DID -> bytes let through below the control class: history
    solved,         \* DID -> challenges it was rewarded for: history
    allocated,      \* class -> bytes of memory it has
    totalAlloc      \* bytes taken altogether

qosVars == <<buckets, challenges, issued, time, passed, solved>>
arbiterVars == <<allocated, totalAlloc>>

QoSTypeOK ==
    /\ DOMAIN buckets \subseteq Senders
    /\ \A d \in DOMAIN buckets :
          buckets[d].tokens \in 0 .. Burst /\ buckets[d].last \in 0 .. time
    /\ \A c \in challenges : c.id \in 1 .. issued /\ c.did \in DOMAIN buckets
    /\ issued \in 0 .. MaxChallenges /\ time \in 0 .. MaxTime
    /\ passed \in [Senders -> Nat] /\ solved \in [Senders -> SUBSET (1 .. issued)]

QoSInit ==
    /\ buckets = [d \in {} |-> {}] /\ challenges = {} /\ issued = 0 /\ time = 0
    /\ passed = [d \in Senders |-> 0] /\ solved = [d \in Senders |-> {}]

NewTokenBucket == [tokens |-> Burst, last |-> time]

\* getOrCreateBucket.
Bucket(d) == IF d \in DOMAIN buckets THEN buckets[d] ELSE NewTokenBucket

\* Consume: the bucket is filled in any case, and what is asked for is taken if it is there.
Filled(b) == [tokens |-> Min({Burst, b.tokens + (time - b.last) * Rate}), last |-> time]
Covers(b, n) == Filled(b).tokens >= n
Consumed(b, n) == IF Covers(b, n) THEN [Filled(b) EXCEPT !.tokens = @ - n] ELSE Filled(b)

PutBucket(d, b) == [e \in DOMAIN buckets \cup {d} |-> IF e = d THEN b ELSE buckets[e]]

\* EvaluatePacket, which lets a packet of the control class pass without a look.
Admit(d, class, len) ==
    \/ class = "Control" /\ UNCHANGED qosVars
    \/ /\ class # "Control" /\ Covers(Bucket(d), len)
       /\ buckets' = PutBucket(d, Consumed(Bucket(d), len))
       /\ passed' = [passed EXCEPT ![d] = @ + len]
       /\ UNCHANGED <<challenges, issued, time, solved>>

\* The packet is not allowed, and the caller gets a challenge.
Throttle(d, class, len) ==
    /\ class # "Control" /\ ~Covers(Bucket(d), len) /\ issued < MaxChallenges
    /\ buckets' = PutBucket(d, Consumed(Bucket(d), len))
    /\ issued' = issued + 1
    /\ challenges' = challenges \cup {[id |-> issued + 1, did |-> d, expires |-> time + Lifetime]}
    /\ UNCHANGED <<time, passed, solved>>

EvaluatePacket(d, class, len) == Admit(d, class, len) \/ Throttle(d, class, len)

\* VerifyAndCreditPoW; a challenge that has expired is forgotten when somebody answers it.
Credit(c) ==
    /\ time <= c.expires
    /\ challenges' = challenges \ {c}
    /\ buckets' = [buckets EXCEPT ![c.did].tokens = Burst]
    /\ solved' = [solved EXCEPT ![c.did] = @ \cup {c.id}]
    /\ UNCHANGED <<issued, time, passed>>

Forget(c) ==
    /\ time > c.expires
    /\ challenges' = challenges \ {c}
    /\ UNCHANGED <<buckets, issued, time, passed, solved>>

VerifyAndCreditPoW(c) == Credit(c) \/ Forget(c)

QoSTick == time < MaxTime /\ time' = time + 1
           /\ UNCHANGED <<buckets, challenges, issued, passed, solved>>

QoSNext ==
    \/ \E d \in Senders, l \in Lengths : EvaluatePacket(d, "Bulk", l)
    \/ \E c \in challenges : VerifyAndCreditPoW(c)
    \/ QoSTick

(***************************************************************************)
(* The memory arbiter.                                                     *)
(***************************************************************************)

ArbiterTypeOK == allocated \in [Classes -> Nat] /\ totalAlloc \in Nat

ArbiterInit == allocated = [c \in Classes |-> 0] /\ totalAlloc = 0

Quota(name) == IF name \in Classes THEN name ELSE "other"

\* What does not fit is refused and only counted.
ReserveMemory(name, bytes) ==
    /\ allocated[Quota(name)] + bytes <= Limit[Quota(name)]
    /\ totalAlloc + bytes <= TotalLimit
    /\ allocated' = [allocated EXCEPT ![Quota(name)] = @ + bytes]
    /\ totalAlloc' = totalAlloc + bytes

\* Mutant: the class is not reduced below zero, but the total gives back all that was asked.
ReleaseUnbounded(name, bytes) ==
    LET q == Quota(name)
    IN  /\ allocated' = [allocated EXCEPT ![q] = Max({0, @ - bytes})]
        /\ totalAlloc' = Max({0, totalAlloc - bytes})

ReleaseMemory(name, bytes) ==
    LET q == Quota(name)
        given == Min({bytes, allocated[q]})
    IN  /\ allocated' = [allocated EXCEPT ![q] = @ - given]
        /\ totalAlloc' = Max({0, totalAlloc - given})

ArbiterNext == \E name \in Classes \cup UnknownNames, bytes \in Amounts :
                  ReserveMemory(name, bytes) \/ ReleaseMemory(name, bytes)

(***************************************************************************)
(* Properties.                                                             *)
(***************************************************************************)

\* Whatever the order of packets, solutions and refills, a DID never gets more through than one
\* burst, the rate for the time that has passed, and one burst for every challenge solved
\* (qos.go:56-76, 207-212).
TrafficIsPaidFor ==
    \A d \in Senders : passed[d] <= Burst + time * Rate + Cardinality(solved[d]) * Burst

\* The bytes of memory given out, each by its class and its number there.
Bytes(given) == UNION {{c} \X (1 .. given[c]) : c \in Classes}

\* The total is what the classes have together, and nobody has more than is his, after any
\* sequence of reservations and of releases right or wrong (memory_arbiter.go:76-123).
MemoryBooksBalance ==
    /\ totalAlloc = Cardinality(Bytes(allocated))
    /\ totalAlloc <= TotalLimit
    /\ \A c \in Classes : allocated[c] <= Limit[c]
==============================================================================
