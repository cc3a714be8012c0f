---------------------------- MODULE ZTNAFirewall ----------------------------
(***************************************************************************)
(* The per-DID firewall (src/src/pkg/l1/firewall.go).  The policy book and *)
(* the decision cache share one RWMutex, but an evaluation takes and drops *)
(* it four times: look in the cache, purge the cache, read the policy,     *)
(* store the decision.  Evaluators are the goroutines inside eval; the     *)
(* operations that change the book are atomic and empty the cache.         *)
(*                                                                         *)
(* Time is in seconds.  The reasons and the packet counters are left out.  *)
(***************************************************************************)
EXTENDS Integers, FiniteSets

CONSTANTS Evaluator,  \* goroutines calling EvaluateInbound/EvaluateOutbound
          DID,        \* remote identities
          Policy,     \* the policies AuthorizeDID is called with
          Query,      \* the (did, port, direction) triples evaluated
          CacheTTL,   \* cacheTTL and the purge period, 30 s in the code
          MaxStall,   \* longest an evaluation takes: an assumption on the
                      \* scheduler, needed for AcceptJustified only
          MaxNow      \* bound on the clock

Port == Nat
NoExpiry == 0
ASSUME ZTNAAssumption ==
    /\ Policy \subseteq [inbound : BOOLEAN, outbound : BOOLEAN,
                         ports : SUBSET Port, expires : Nat]
    /\ Query \subseteq [did : DID, port : Port, inbound : BOOLEAN]
    /\ CacheTTL \in Nat \ {0} /\ MaxStall \in Nat /\ MaxNow \in Nat

VARIABLES now, defaultDeny,
          policies,      \* DID -> its policy, or NoPolicy
          policyCache,   \* Query -> cached decision, or NoEntry
          cacheCleanup,  \* when the cache is purged next
          call,          \* what each evaluator is doing
          result,        \* history: what each evaluator returned last
          lastGranted,   \* history: when a policy last granted a query
          lastAbsent,    \* history: when a DID last had no policy
          lastOpen       \* history: when default-deny was last off

book == <<defaultDeny, policies>>
history == <<lastGranted, lastAbsent, lastOpen>>
vars == <<now, book, policyCache, cacheCleanup, call, result, history>>

NoPolicy == [none |-> TRUE]
NoEntry == [none |-> TRUE]
NoResult == [none |-> TRUE]
Idle == [at |-> "idle"]
Decision == {"accept", "dropDefaultDeny", "dropACL"}
\* raced: the book changed between reading the policy and storing the decision.
Entry == [decision : Decision, expires : Nat, raced : BOOLEAN]
Call == [at : {"cleanup", "read", "decide", "store"}, query : Query, since : Nat,
         policy : Policy \cup {NoPolicy}, decision : Decision, raced : BOOLEAN]
Result == [query : Query, decision : Decision]
Never == -1

TypeOK ==
    /\ now \in 0 .. MaxNow
    /\ defaultDeny \in BOOLEAN
    /\ policies \in [DID -> Policy \cup {NoPolicy}]
    /\ policyCache \in [Query -> Entry \cup {NoEntry}]
    /\ cacheCleanup \in Nat
    /\ call \in [Evaluator -> Call \cup {Idle}]
    /\ result \in [Evaluator -> Result \cup {NoResult}]
    /\ lastGranted \in [Query -> Nat \cup {Never}]
    /\ lastAbsent \in [DID -> Nat \cup {Never}]
    /\ lastOpen \in Nat \cup {Never}

EmptyCache == [q \in Query |-> NoEntry]

\* NewZTNAFirewall(true): the mode the node starts it in.
Init ==
    /\ now = 0
    /\ defaultDeny = TRUE
    /\ policies = [d \in DID |-> NoPolicy]
    /\ policyCache = EmptyCache
    /\ cacheCleanup = CacheTTL
    /\ call = [e \in Evaluator |-> Idle]
    /\ result = [e \in Evaluator |-> NoResult]
    /\ lastGranted = [q \in Query |-> Never]
    /\ lastAbsent = [d \in DID |-> 0]
    /\ lastOpen = Never
-----------------------------------------------------------------------------
Expired(p, t) == p.expires # NoExpiry /\ t > p.expires

\* What a policy says of a query at time t.  Ports restrict inbound traffic only.
Grants(p, q, t) ==
    /\ p # NoPolicy
    /\ ~Expired(p, t)
    /\ IF q.inbound THEN p.inbound /\ (p.ports # {} => q.port \in p.ports)
                    ELSE p.outbound

Verdict(p, deny, q, t) ==
    IF p = NoPolicy
    THEN IF deny THEN "dropDefaultDeny" ELSE "accept"
    ELSE IF Grants(p, q, t) THEN "accept" ELSE "dropACL"

\* IsAllowed: the handshake's question, answered from the book alone.
IsAllowed(d) ==
    IF policies[d] = NoPolicy THEN ~defaultDeny
    ELSE ~Expired(policies[d], now) /\ policies[d].inbound

\* Every step ends by noting what the book now permits.
Observe ==
    /\ lastGranted' = [q \in Query |-> IF Grants(policies'[q.did], q, now')
                                       THEN now' ELSE lastGranted[q]]
    /\ lastAbsent' = [d \in DID |-> IF policies'[d] = NoPolicy
                                    THEN now' ELSE lastAbsent[d]]
    /\ lastOpen' = IF ~defaultDeny' THEN now' ELSE lastOpen

\* Mutant: a change of the book keeps the cache.
KeepCache ==
    /\ UNCHANGED <<now, policyCache, cacheCleanup, call, result>>
    /\ Observe

\* The cache is replaced by an empty one; decisions still on their way are not.
Invalidate ==
    /\ policyCache' = EmptyCache
    /\ call' = [e \in Evaluator |-> IF call[e] = Idle THEN Idle
                                    ELSE [call[e] EXCEPT !.raced = TRUE]]
    /\ UNCHANGED <<now, cacheCleanup, result>>
    /\ Observe

SetDefaultDeny(enabled) ==
    /\ defaultDeny' = enabled
    /\ UNCHANGED policies
    /\ Invalidate

\* AuthorizeDID, AllowPeer and AuthorizeDIDsBatch: one lock for all of them.
AuthorizeDIDs(dids, p) ==
    /\ policies' = [d \in DID |-> IF d \in dids THEN p ELSE policies[d]]
    /\ UNCHANGED defaultDeny
    /\ Invalidate

\* RevokeDID, RevokePeer and RevokeDIDsBatch.
RevokeDIDs(dids) ==
    /\ policies' = [d \in DID |-> IF d \in dids THEN NoPolicy ELSE policies[d]]
    /\ UNCHANGED defaultDeny
    /\ Invalidate
-----------------------------------------------------------------------------
\* Mutant: an entry never expires.
Present(entry) == entry # NoEntry

Live(entry) == entry # NoEntry /\ now < entry.expires

\* eval, first lock: a live cache entry is the answer.
HitCache(e, q) ==
    /\ call[e] = Idle
    /\ Live(policyCache[q])
    /\ result' = [result EXCEPT
                    ![e] = [query |-> q, decision |-> policyCache[q].decision]]
    /\ UNCHANGED <<now, book, policyCache, cacheCleanup, call>>
    /\ Observe

MissCache(e, q) ==
    /\ call[e] = Idle
    /\ ~Live(policyCache[q])
    /\ call' = [call EXCEPT ![e] =
                  [at |-> "cleanup", query |-> q, since |-> now,
                   policy |-> NoPolicy, decision |-> "dropACL", raced |-> FALSE]]
    /\ result' = [result EXCEPT ![e] = NoResult]
    /\ UNCHANGED <<now, book, policyCache, cacheCleanup>>
    /\ Observe

\* Second lock: cleanupExpiredCache.
CleanupExpiredCache(e) ==
    /\ call[e].at = "cleanup"
    /\ IF now < cacheCleanup
       THEN UNCHANGED <<policyCache, cacheCleanup>>
       ELSE /\ cacheCleanup' = now + CacheTTL
            /\ policyCache' =
                 [q \in Query |-> IF policyCache[q] # NoEntry
                                     /\ now > policyCache[q].expires
                                  THEN NoEntry ELSE policyCache[q]]
    /\ call' = [call EXCEPT ![e].at = "read"]
    /\ UNCHANGED <<now, book, result>>
    /\ Observe

\* Third lock: the policy pointer is copied out.
ReadPolicy(e) ==
    /\ call[e].at = "read"
    /\ call' = [call EXCEPT ![e].at = "decide",
                            ![e].policy = policies[call[e].query.did],
                            ![e].raced = FALSE]
    /\ UNCHANGED <<now, book, policyCache, cacheCleanup, result>>
    /\ Observe

\* No lock: default-deny and the clock are read here.
Decide(e) ==
    /\ call[e].at = "decide"
    /\ call' = [call EXCEPT ![e].at = "store",
                            ![e].decision = Verdict(call[e].policy, defaultDeny,
                                                    call[e].query, now)]
    /\ UNCHANGED <<now, book, policyCache, cacheCleanup, result>>
    /\ Observe

\* Fourth lock: the decision is cached and returned.
StoreDecision(e) ==
    /\ call[e].at = "store"
    /\ policyCache' = [policyCache EXCEPT ![call[e].query] =
                         [decision |-> call[e].decision,
                          expires |-> now + CacheTTL,
                          raced |-> call[e].raced]]
    /\ result' = [result EXCEPT ![e] = [query |-> call[e].query,
                                        decision |-> call[e].decision]]
    /\ call' = [call EXCEPT ![e] = Idle]
    /\ UNCHANGED <<now, book, cacheCleanup>>
    /\ Observe

Tick ==
    /\ now < MaxNow
    /\ \A e \in Evaluator : call[e] # Idle => now - call[e].since < MaxStall
    /\ now' = now + 1
    /\ UNCHANGED <<book, policyCache, cacheCleanup, call, result>>
    /\ Observe

Administer ==
    \/ \E enabled \in BOOLEAN : SetDefaultDeny(enabled)
    \/ \E dids \in SUBSET DID \ {{}} :
         RevokeDIDs(dids) \/ \E p \in Policy : AuthorizeDIDs(dids, p)

Eval(e) ==
    \/ \E q \in Query : HitCache(e, q) \/ MissCache(e, q)
    \/ CleanupExpiredCache(e) \/ ReadPolicy(e) \/ Decide(e) \/ StoreDecision(e)

Next == Tick \/ Administer \/ \E e \in Evaluator : Eval(e)

Spec == Init /\ [][Next]_vars
-----------------------------------------------------------------------------
\* Whatever changes the book drops every decision it could contradict: an entry
\* that no change overtook is what today's book says, at some instant since.
\* (SetDefaultDeny, AuthorizeDID, RevokeDID and the batches all reset the map.)
CacheCoherent ==
    \A q \in Query :
      (policyCache[q] # NoEntry /\ ~policyCache[q].raced)
      => \E t \in 0 .. now :
           policyCache[q].decision = Verdict(policies[q.did], defaultDeny, q, t)

\* A stale permission is short-lived: an accept is returned only if, within the
\* cache lifetime plus the length of one evaluation, a policy granted the query
\* or the DID had no policy and the mode was permissive.
Recent(t) == t # Never /\ now - t < CacheTTL + MaxStall

AcceptJustified ==
    [][\A e \in Evaluator :
         (result'[e] # result[e] /\ result'[e] # NoResult
          /\ result'[e].decision = "accept")
         => LET q == result'[e].query IN
            Recent(lastGranted[q])
            \/ (Recent(lastAbsent[q.did]) /\ Recent(lastOpen))]_vars

\* RevokePeer restores the strict block (src/src/pkg/interfaces/security.go:52):
\* an evaluation that starts after the DID lost its policy, under default-deny,
\* does not accept.
RevocationIsStrict ==
    [][\A e \in Evaluator, q \in Query :
         (/\ call[e] = Idle /\ result'[e] # result[e] /\ result'[e] # NoResult
          /\ result'[e].query = q
          /\ policies[q.did] = NoPolicy /\ defaultDeny)
         => result'[e].decision # "accept"]_vars
=============================================================================
