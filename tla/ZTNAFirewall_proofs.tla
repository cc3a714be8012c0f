------------------------ MODULE ZTNAFirewall_proofs ------------------------
(***************************************************************************)
(* The firewall for any number of evaluators, identities, policies and     *)
(* queries and any lifetime of the cache: a cached decision that no change *)
(* of the book overtook is what the book says, and an accepted packet was  *)
(* permitted at most one lifetime and one evaluation ago.                  *)
(*                                                                         *)
(* Neither is inductive.  What a store writes was decided two locks before *)
(* it, so both need to know what an evaluation in flight carries.          *)
(***************************************************************************)
EXTENDS ZTNAFirewall, TLAPS

\* A query names an identity.
LEMMA QueryParts == \A q \in Query : q.did \in DID
BY ZTNAAssumption

\* An evaluation that is not at rest carries a query.
LEMMA InFlight ==
    ASSUME TypeOK, NEW e \in Evaluator, call[e].at # "idle"
    PROVE  call[e] \in Call /\ call[e] # Idle /\ call[e].query \in Query
BY DEF TypeOK, Call, Idle

\* Noting what the book permits keeps the types of the notes.
LEMMA ObserveType ==
    ASSUME TypeOK, now' \in Nat, Observe
    PROVE  /\ lastGranted' \in [Query -> Nat \cup {Never}]
           /\ lastAbsent' \in [DID -> Nat \cup {Never}]
           /\ lastOpen' \in Nat \cup {Never}
BY DEF TypeOK, Observe

\* Every step of the firewall leaves the types true.
LEMMA TypeStep == TypeOK /\ [Next]_vars => TypeOK'
<1> USE ZTNAAssumption, QueryParts
<1> SUFFICES ASSUME TypeOK, [Next]_vars PROVE TypeOK'
    OBVIOUS
<1>0. now \in Nat
    BY DEF TypeOK
<1>1. CASE Tick
  <2>1. now' \in 0 .. MaxNow
    BY <1>0, <1>1 DEF Tick
  <2> QED
    BY <1>1, <2>1, ObserveType DEF TypeOK, Tick, book
<1>2. ASSUME Invalidate, defaultDeny' \in BOOLEAN,
             policies' \in [DID -> Policy \cup {NoPolicy}]
      PROVE  TypeOK'
  <2>1. policyCache' \in [Query -> Entry \cup {NoEntry}]
    BY <1>2 DEF Invalidate, EmptyCache
  <2>2. ASSUME NEW e \in Evaluator
        PROVE  (IF call[e] = Idle THEN Idle ELSE [call[e] EXCEPT !.raced = TRUE])
               \in Call \cup {Idle}
    BY DEF TypeOK, Call
  <2>3. call' \in [Evaluator -> Call \cup {Idle}]
    BY <1>2, <2>2 DEF Invalidate
  <2> QED
    BY <1>0, <1>2, <2>1, <2>3, ObserveType DEF TypeOK, Invalidate
<1>3. ASSUME NEW enabled \in BOOLEAN, SetDefaultDeny(enabled) PROVE TypeOK'
    BY <1>2, <1>3 DEF TypeOK, SetDefaultDeny
<1>4. ASSUME NEW dids \in SUBSET DID, RevokeDIDs(dids) PROVE TypeOK'
    BY <1>2, <1>4 DEF TypeOK, RevokeDIDs
<1>5. ASSUME NEW dids \in SUBSET DID, NEW p \in Policy, AuthorizeDIDs(dids, p)
      PROVE  TypeOK'
    BY <1>2, <1>5 DEF TypeOK, AuthorizeDIDs
<1>6. ASSUME NEW e \in Evaluator, NEW q \in Query, HitCache(e, q) PROVE TypeOK'
  <2>1. policyCache[q].decision \in Decision
    BY <1>6 DEF TypeOK, HitCache, Live, Entry
  <2>2. result' \in [Evaluator -> Result \cup {NoResult}]
    BY <1>6, <2>1 DEF TypeOK, HitCache, Result
  <2> QED
    BY <1>0, <1>6, <2>2, ObserveType DEF TypeOK, HitCache, book
<1>7. ASSUME NEW e \in Evaluator, NEW q \in Query, MissCache(e, q) PROVE TypeOK'
  <2>1. call' \in [Evaluator -> Call \cup {Idle}]
    BY <1>0, <1>7 DEF TypeOK, MissCache, Call, Decision
  <2>2. result' \in [Evaluator -> Result \cup {NoResult}]
    BY <1>7 DEF TypeOK, MissCache
  <2> QED
    BY <1>0, <1>7, <2>1, <2>2, ObserveType DEF TypeOK, MissCache, book
<1>8. ASSUME NEW e \in Evaluator, CleanupExpiredCache(e) PROVE TypeOK'
  <2>1. call[e] \in Call
    BY <1>8, InFlight DEF CleanupExpiredCache
  <2>2. call' \in [Evaluator -> Call \cup {Idle}]
    BY <1>8, <2>1 DEF TypeOK, CleanupExpiredCache, Call
  <2>3. policyCache' \in [Query -> Entry \cup {NoEntry}] /\ cacheCleanup' \in Nat
    BY <1>0, <1>8 DEF TypeOK, CleanupExpiredCache
  <2> QED
    BY <1>0, <1>8, <2>2, <2>3, ObserveType DEF TypeOK, CleanupExpiredCache, book
<1>9. ASSUME NEW e \in Evaluator, ReadPolicy(e) PROVE TypeOK'
  <2>1. call[e] \in Call /\ call[e].query \in Query
    BY <1>9, InFlight DEF ReadPolicy
  <2>2. policies[call[e].query.did] \in Policy \cup {NoPolicy}
    BY <2>1 DEF TypeOK
  <2>3. call' \in [Evaluator -> Call \cup {Idle}]
    BY <1>9, <2>1, <2>2 DEF TypeOK, ReadPolicy, Call
  <2> QED
    BY <1>0, <1>9, <2>3, ObserveType DEF TypeOK, ReadPolicy, book
<1>10. ASSUME NEW e \in Evaluator, Decide(e) PROVE TypeOK'
  <2>1. call[e] \in Call
    BY <1>10, InFlight DEF Decide
  <2>2. Verdict(call[e].policy, defaultDeny, call[e].query, now) \in Decision
    BY DEF Verdict, Decision
  <2>3. call' \in [Evaluator -> Call \cup {Idle}]
    BY <1>10, <2>1, <2>2 DEF TypeOK, Decide, Call
  <2> QED
    BY <1>0, <1>10, <2>3, ObserveType DEF TypeOK, Decide, book
<1>11. ASSUME NEW e \in Evaluator, StoreDecision(e) PROVE TypeOK'
  <2>1. call[e] \in Call /\ call[e].query \in Query
    BY <1>11, InFlight DEF StoreDecision
  <2>2. [decision |-> call[e].decision, expires |-> now + CacheTTL,
         raced |-> call[e].raced] \in Entry
    BY <1>0, <2>1 DEF Call, Entry
  <2>3. policyCache' \in [Query -> Entry \cup {NoEntry}]
    BY <1>11, <2>1, <2>2 DEF TypeOK, StoreDecision
  <2>4. result' \in [Evaluator -> Result \cup {NoResult}]
    BY <1>11, <2>1 DEF TypeOK, StoreDecision, Result, Call
  <2>5. call' \in [Evaluator -> Call \cup {Idle}]
    BY <1>11 DEF TypeOK, StoreDecision
  <2> QED
    BY <1>0, <1>11, <2>3, <2>4, <2>5, ObserveType DEF TypeOK, StoreDecision, book
<1>12. CASE UNCHANGED vars
    BY <1>12 DEF TypeOK, vars, book, history
<1> QED
    BY <1>1, <1>3, <1>4, <1>5, <1>6, <1>7, <1>8, <1>9, <1>10, <1>11, <1>12
       DEF Next, Administer, Eval

\* Every reachable state of the firewall is well typed.
THEOREM FirewallTypes == Spec => []TypeOK
<1>1. Init => TypeOK
    BY ZTNAAssumption, QueryParts DEF Init, TypeOK, EmptyCache
<1> QED
    BY <1>1, TypeStep, PTL DEF Spec
-----------------------------------------------------------------------------
\* What the book (b: mode and policies) says of a query, at some instant up to n.
Said(decision, q, b, n) ==
    \E t \in 0 .. n : decision = Verdict(b[2][q.did], b[1], q, t)

\* An evaluation that no change overtook holds today's policy, and later a
\* decision that today's book could have given.
FlightHolds(e) ==
    ~call[e].raced =>
      /\ call[e].at = "decide" => call[e].policy = policies[call[e].query.did]
      /\ call[e].at = "store" => Said(call[e].decision, call[e].query, book, now)

FlightCoherent == \A e \in Evaluator : FlightHolds(e)

\* What was said once stays said.
LEMMA SaidLasts ==
    ASSUME NEW decision, NEW q, NEW b, NEW n \in Nat, NEW m \in Nat, m >= n,
           Said(decision, q, b, n)
    PROVE  Said(decision, q, b, m)
<1>1. PICK t \in 0 .. n : decision = Verdict(b[2][q.did], b[1], q, t)
    BY DEF Said
<1>2. t \in 0 .. m
    BY <1>1
<1> QED
    BY <1>1, <1>2 DEF Said

CoherentInv == TypeOK /\ CacheCoherent /\ FlightCoherent

\* A step of one evaluation leaves the others as they were.
LEMMA OtherFlightsHold ==
    ASSUME FlightCoherent, NEW e \in Evaluator, UNCHANGED <<now, book>>, FlightHolds(e)',
           \A f \in Evaluator : f # e => call'[f] = call[f]
    PROVE  FlightCoherent'
<1>1. ASSUME NEW f \in Evaluator, f # e
      PROVE  FlightHolds(f)'
  <2>1. /\ FlightHolds(f) /\ call'[f] = call[f] /\ now' = now
        /\ policies' = policies /\ defaultDeny' = defaultDeny
    BY <1>1 DEF FlightCoherent, book
  <2> QED
    BY <2>1 DEF FlightHolds, book
<1> QED
    BY <1>1 DEF FlightCoherent

\* The second lock onwards: what is stored is what the flight carried, and that
\* is what the book still says.
LEMMA CoherentStep == CoherentInv /\ [Next]_vars => CoherentInv'
<1> USE ZTNAAssumption, QueryParts
<1> SUFFICES ASSUME CoherentInv, [Next]_vars PROVE CacheCoherent' /\ FlightCoherent'
    BY TypeStep DEF CoherentInv
<1>0. TypeOK /\ TypeOK' /\ now \in Nat /\ now' \in Nat
    BY TypeStep DEF CoherentInv, TypeOK
<1>1. CacheCoherent <=>
        \A q \in Query : policyCache[q] # NoEntry /\ ~policyCache[q].raced
                         => Said(policyCache[q].decision, q, book, now)
    BY DEF CacheCoherent, Said, book
<1>2. CacheCoherent' <=>
        \A q \in Query : policyCache'[q] # NoEntry /\ ~policyCache'[q].raced
                         => Said(policyCache'[q].decision, q, book', now')
    BY DEF CacheCoherent, Said, book
<1>3. ASSUME UNCHANGED <<book, policyCache, call>>, now' >= now
      PROVE  CacheCoherent' /\ FlightCoherent'
  <2>1. CacheCoherent'
    BY <1>0, <1>1, <1>2, <1>3, SaidLasts DEF CoherentInv
  <2>2. FlightCoherent'
    BY <1>0, <1>3, SaidLasts DEF CoherentInv, FlightCoherent, FlightHolds, book
  <2> QED
    BY <2>1, <2>2
<1>4. ASSUME Invalidate PROVE CacheCoherent' /\ FlightCoherent'
  <2>1. CacheCoherent'
    BY <1>4 DEF CacheCoherent, Invalidate, EmptyCache
  <2>2. ASSUME NEW e \in Evaluator
        PROVE  call'[e] = Idle \/ call'[e].raced
    BY <1>0, <1>4 DEF Invalidate, TypeOK, Call
  <2>3. FlightCoherent'
    BY <2>2 DEF FlightCoherent, FlightHolds, Idle
  <2> QED
    BY <2>1, <2>3
<1>5. CASE Tick
    BY <1>0, <1>3, <1>5 DEF Tick
<1>6. CASE Administer
    BY <1>4, <1>6 DEF Administer, SetDefaultDeny, RevokeDIDs, AuthorizeDIDs
<1>7. ASSUME NEW e \in Evaluator, NEW q \in Query, HitCache(e, q)
      PROVE  CacheCoherent' /\ FlightCoherent'
    BY <1>0, <1>3, <1>7 DEF HitCache
<1>8. ASSUME NEW e \in Evaluator, NEW q \in Query, MissCache(e, q)
      PROVE  CacheCoherent' /\ FlightCoherent'
  <2>1. CacheCoherent'
    BY <1>0, <1>1, <1>2, <1>8, SaidLasts DEF CoherentInv, MissCache
  <2>2. /\ call'[e].at = "cleanup" /\ \A f \in Evaluator : f # e => call'[f] = call[f]
        /\ UNCHANGED <<now, book>>
    BY <1>0, <1>8 DEF MissCache, TypeOK
  <2>3. FlightCoherent'
    BY <2>2, OtherFlightsHold DEF CoherentInv, FlightHolds
  <2> QED
    BY <2>1, <2>3
<1>9. ASSUME NEW e \in Evaluator, CleanupExpiredCache(e)
      PROVE  CacheCoherent' /\ FlightCoherent'
  <2>1. \A q \in Query : policyCache'[q] = NoEntry \/ policyCache'[q] = policyCache[q]
    BY <1>9 DEF CleanupExpiredCache
  <2>2. CacheCoherent'
    BY <1>0, <1>1, <1>2, <1>9, <2>1, SaidLasts DEF CoherentInv, CleanupExpiredCache
  <2>3. call[e] \in Call
    BY <1>0, <1>9, InFlight DEF CleanupExpiredCache
  <2>4. /\ call'[e].at = "read" /\ \A f \in Evaluator : f # e => call'[f] = call[f]
        /\ UNCHANGED <<now, book>>
    BY <1>0, <1>9, <2>3 DEF CleanupExpiredCache, TypeOK, Call
  <2>5. FlightCoherent'
    BY <2>4, OtherFlightsHold DEF CoherentInv, FlightHolds
  <2> QED
    BY <2>2, <2>5
<1>10. ASSUME NEW e \in Evaluator, ReadPolicy(e)
       PROVE  CacheCoherent' /\ FlightCoherent'
  <2>1. CacheCoherent'
    BY <1>0, <1>1, <1>2, <1>10, SaidLasts DEF CoherentInv, ReadPolicy
  <2>2. call[e] \in Call
    BY <1>0, <1>10, InFlight DEF ReadPolicy
  <2>3. /\ call'[e].at = "decide" /\ call'[e].query = call[e].query
        /\ call'[e].policy = policies'[call[e].query.did]
    BY <1>0, <1>10, <2>2 DEF ReadPolicy, TypeOK, Call, book
  <2>4. UNCHANGED <<now, book>> /\ \A f \in Evaluator : f # e => call'[f] = call[f]
    BY <1>0, <1>10 DEF ReadPolicy, TypeOK
  <2>5. FlightCoherent'
    BY <2>3, <2>4, OtherFlightsHold DEF CoherentInv, FlightHolds
  <2> QED
    BY <2>1, <2>5
<1>11. ASSUME NEW e \in Evaluator, Decide(e)
       PROVE  CacheCoherent' /\ FlightCoherent'
  <2>1. CacheCoherent'
    BY <1>0, <1>1, <1>2, <1>11, SaidLasts DEF CoherentInv, Decide
  <2>2. call[e] \in Call
    BY <1>0, <1>11, InFlight DEF Decide
  <2>3. /\ call'[e].at = "store" /\ call'[e].raced = call[e].raced
        /\ call'[e].query = call[e].query
        /\ call'[e].decision = Verdict(call[e].policy, defaultDeny, call[e].query, now)
    BY <1>0, <1>11, <2>2 DEF Decide, TypeOK, Call
  <2>4. ~call'[e].raced => Said(call'[e].decision, call'[e].query, book, now)
    BY <1>0, <1>11, <2>3 DEF Decide, CoherentInv, FlightCoherent, FlightHolds, Said, book
  <2>5. ~call'[e].raced => Said(call'[e].decision, call'[e].query, book', now')
    BY <1>0, <1>11, <2>4, SaidLasts DEF Decide
  <2>6. UNCHANGED <<now, book>> /\ \A f \in Evaluator : f # e => call'[f] = call[f]
    BY <1>0, <1>11 DEF Decide, TypeOK
  <2>7. FlightCoherent'
    BY <2>3, <2>5, <2>6, OtherFlightsHold DEF CoherentInv, FlightHolds
  <2> QED
    BY <2>1, <2>7
<1>12. ASSUME NEW e \in Evaluator, StoreDecision(e)
       PROVE  CacheCoherent' /\ FlightCoherent'
  <2>1. call[e] \in Call /\ call[e].query \in Query
    BY <1>0, <1>12, InFlight DEF StoreDecision
  <2>2. ~call[e].raced => Said(call[e].decision, call[e].query, book', now')
    BY <1>0, <1>12, SaidLasts DEF CoherentInv, FlightCoherent, FlightHolds, StoreDecision
  <2>3. \A q \in Query :
          policyCache'[q] = IF q = call[e].query
                            THEN [decision |-> call[e].decision,
                                  expires |-> now + CacheTTL,
                                  raced |-> call[e].raced]
                            ELSE policyCache[q]
    BY <1>0, <1>12 DEF StoreDecision, TypeOK
  <2>4. CacheCoherent'
    BY <1>0, <1>1, <1>2, <1>12, <2>2, <2>3, SaidLasts DEF CoherentInv, StoreDecision
  <2>5. /\ call'[e] = Idle /\ \A f \in Evaluator : f # e => call'[f] = call[f]
        /\ UNCHANGED <<now, book>>
    BY <1>0, <1>12 DEF StoreDecision, TypeOK
  <2>6. FlightCoherent'
    BY <2>5, OtherFlightsHold DEF CoherentInv, FlightHolds, Idle
  <2> QED
    BY <2>4, <2>6
<1>13. CASE UNCHANGED vars
    BY <1>0, <1>3, <1>13 DEF vars
<1> QED
    BY <1>5, <1>6, <1>7, <1>8, <1>9, <1>10, <1>11, <1>12, <1>13 DEF Next, Eval

\* A decision in the cache that no change of the book overtook is what today's
\* book says (SetDefaultDeny, AuthorizeDID, RevokeDID reset the map).
THEOREM CacheIsCoherent == Spec => []CacheCoherent
<1>1. Init => CoherentInv
  <2>1. Init => TypeOK
    BY ZTNAAssumption, QueryParts DEF Init, TypeOK, EmptyCache
  <2>2. Init => CacheCoherent /\ FlightCoherent
    BY DEF Init, CacheCoherent, FlightCoherent, FlightHolds, EmptyCache, Idle
  <2> QED
    BY <2>1, <2>2 DEF CoherentInv
<1> QED
    BY <1>1, CoherentStep, PTL DEF Spec, CoherentInv
-----------------------------------------------------------------------------
\* An instant that exists and is not before s.
Since(t, s) == t # Never /\ t >= s

\* According to the notes h, the query was permitted at s or later.
Permitted(q, s, h) ==
    Since(h[1][q], s) \/ (Since(h[2][q.did], s) /\ Since(h[3], s))

\* Notes are of the past.
NotesArePast ==
    /\ \A q \in Query : lastGranted[q] <= now
    /\ \A d \in DID : lastAbsent[d] <= now
    /\ lastOpen <= now

\* No evaluation lasts longer than MaxStall.
FlightsAreShort ==
    \A e \in Evaluator : call[e] # Idle => call[e].since <= now /\ now - call[e].since <= MaxStall

\* The policy an evaluation c holds permitted, when it was read, what it permits
\* from n on; a decision to accept was permitted since the evaluation began.
Carries(c, n, h) ==
    /\ c.at = "decide" =>
         /\ \A t \in Nat : t >= n /\ Grants(c.policy, c.query, t) => Since(h[1][c.query], c.since)
         /\ c.policy = NoPolicy => Since(h[2][c.query.did], c.since)
    /\ c.at = "store" /\ c.decision = "accept" => Permitted(c.query, c.since, h)

FlightJustified == \A e \in Evaluator : Carries(call[e], now, history)

\* A decision to accept that lies in the cache was permitted when the evaluation
\* that stored it began, at the earliest MaxStall before.
CacheJustified ==
    \A q \in Query :
      policyCache[q] # NoEntry /\ policyCache[q].decision = "accept"
      => Permitted(q, policyCache[q].expires - CacheTTL - MaxStall, history)

JustifiedInv ==
    TypeOK /\ NotesArePast /\ FlightsAreShort /\ FlightJustified /\ CacheJustified

\* A policy that permits a query has permitted it since it was made: expiry is
\* the only thing time does to it.
LEMMA GrantsEarlier ==
    ASSUME NEW p \in Policy \cup {NoPolicy}, NEW q, NEW n \in Nat, NEW t \in Nat,
           t >= n, Grants(p, q, t)
    PROVE  Grants(p, q, n)
<1>1. p \in Policy /\ p.expires \in Nat
    BY ZTNAAssumption DEF Grants
<1> QED
    BY <1>1 DEF Grants, Expired, NoExpiry

\* Notes only ever get newer.
LEMMA NotesGrow ==
    ASSUME TypeOK, NotesArePast, Observe, now' \in Nat, now' >= now
    PROVE  /\ NotesArePast'
           /\ \A q \in Query, s \in Int : Since(lastGranted[q], s) => Since(lastGranted'[q], s)
           /\ \A d \in DID, s \in Int : Since(lastAbsent[d], s) => Since(lastAbsent'[d], s)
           /\ \A q \in Query, s \in Int : Permitted(q, s, history) => Permitted(q, s, history')
<1>1. now \in Nat
    BY DEF TypeOK
<1>2. NotesArePast'
    BY <1>1 DEF TypeOK, NotesArePast, Observe, Never
<1>3. \A q \in Query, s \in Int : Since(lastGranted[q], s) => Since(lastGranted'[q], s)
    BY <1>1 DEF TypeOK, NotesArePast, Observe, Since, Never
<1>4. \A d \in DID, s \in Int : Since(lastAbsent[d], s) => Since(lastAbsent'[d], s)
    BY <1>1 DEF TypeOK, NotesArePast, Observe, Since, Never
<1>5. \A s \in Int : Since(lastOpen, s) => Since(lastOpen', s)
    BY <1>1 DEF TypeOK, NotesArePast, Observe, Since, Never
<1> QED
    BY <1>2, <1>3, <1>4, <1>5, QueryParts DEF Permitted, history

\* What a step that moves no evaluation does to the evaluations in flight.
LEMMA FlightsLast ==
    ASSUME JustifiedInv, TypeOK', Observe, now' >= now,
           NEW e \in Evaluator, call'[e].at = call[e].at,
           call[e].at # "idle" =>
             /\ call'[e].query = call[e].query /\ call'[e].since = call[e].since
             /\ call'[e].policy = call[e].policy /\ call'[e].decision = call[e].decision
    PROVE  Carries(call'[e], now', history')
<1>1. TypeOK /\ now \in Nat /\ now' \in Nat
    BY DEF JustifiedInv, TypeOK
<1>2. CASE call[e].at = "idle"
    BY <1>2 DEF Carries
<1>3. CASE call[e].at # "idle"
  <2>1. call[e] \in Call /\ call[e].query \in Query
    BY <1>1, <1>3, InFlight
  <2>2. call[e].since \in Int /\ call[e].query.did \in DID
    BY <2>1, QueryParts DEF Call
  <2>3. /\ Since(lastGranted[call[e].query], call[e].since)
           => Since(lastGranted'[call[e].query], call[e].since)
        /\ Since(lastAbsent[call[e].query.did], call[e].since)
           => Since(lastAbsent'[call[e].query.did], call[e].since)
        /\ Permitted(call[e].query, call[e].since, history)
           => Permitted(call[e].query, call[e].since, history')
    BY <1>1, <2>1, <2>2, NotesGrow DEF JustifiedInv
  <2>4. \A t \in Nat : t >= now' => t >= now
    BY <1>1
  <2>5. Carries(call[e], now, history)
    BY DEF JustifiedInv, FlightJustified
  <2>6. /\ history[1] = lastGranted /\ history[2] = lastAbsent
        /\ history'[1] = lastGranted' /\ history'[2] = lastAbsent'
    BY DEF history
  <2> QED
    BY <1>3, <2>3, <2>4, <2>5, <2>6 DEF Carries
<1> QED
    BY <1>2, <1>3

\* Reading, deciding and storing pass on what was permitted.
LEMMA JustifiedStep == JustifiedInv /\ [Next]_vars => JustifiedInv'
<1> USE ZTNAAssumption, QueryParts
<1> SUFFICES ASSUME JustifiedInv, [Next]_vars
             PROVE  NotesArePast' /\ FlightsAreShort' /\ FlightJustified' /\ CacheJustified'
    BY TypeStep DEF JustifiedInv
<1>0. TypeOK /\ TypeOK' /\ now \in Nat /\ now' \in Nat
    BY TypeStep DEF JustifiedInv, TypeOK
<1>1. ASSUME Observe, now' >= now,
             \A q \in Query : policyCache'[q] = policyCache[q] \/ policyCache'[q] = NoEntry
      PROVE  NotesArePast' /\ CacheJustified'
  <2>1. ASSUME NEW q \in Query, policyCache'[q] # NoEntry, policyCache'[q].decision = "accept"
        PROVE  Permitted(q, policyCache'[q].expires - CacheTTL - MaxStall, history')
    <3>1. policyCache'[q] = policyCache[q] /\ policyCache[q] \in Entry
        BY <1>0, <1>1, <2>1 DEF TypeOK
    <3>2. policyCache[q].expires - CacheTTL - MaxStall \in Int
        BY <3>1 DEF Entry
    <3> QED
        BY <1>0, <1>1, <2>1, <3>1, <3>2, NotesGrow DEF JustifiedInv, CacheJustified
  <2> QED
    BY <1>0, <1>1, <2>1, NotesGrow DEF JustifiedInv, CacheJustified
<1>2. ASSUME Observe, now' >= now,
             \A e \in Evaluator : call'[e] = call[e]
      PROVE  FlightJustified'
    BY <1>0, <1>1, <1>2, FlightsLast DEF FlightJustified
<1>3. ASSUME Invalidate
      PROVE  NotesArePast' /\ FlightsAreShort' /\ FlightJustified' /\ CacheJustified'
  <2>1. Observe /\ now' = now /\ \A q \in Query : policyCache'[q] = NoEntry
    BY <1>3 DEF Invalidate, EmptyCache
  <2>2. ASSUME NEW e \in Evaluator
        PROVE  /\ call[e] = Idle => call'[e] = Idle
               /\ call[e] # Idle =>
                    /\ call'[e].at = call[e].at /\ call'[e].query = call[e].query
                    /\ call'[e].since = call[e].since /\ call'[e].policy = call[e].policy
                    /\ call'[e].decision = call[e].decision
    BY <1>0, <1>3 DEF Invalidate, TypeOK, Call
  <2>3. FlightsAreShort'
    BY <1>0, <2>1, <2>2 DEF JustifiedInv, FlightsAreShort
  <2>4. FlightJustified'
    BY <1>0, <2>1, <2>2, FlightsLast DEF FlightJustified, Idle
  <2> QED
    BY <1>0, <1>1, <2>1, <2>3, <2>4
<1>4. CASE Tick
  <2>1. Observe /\ now' = now + 1 /\ UNCHANGED <<policyCache, call>>
    BY <1>4 DEF Tick
  <2>2. ASSUME NEW e \in Evaluator, call'[e] # Idle
        PROVE  call'[e].since <= now' /\ now' - call'[e].since <= MaxStall
    <3>1. call[e] \in Call /\ call[e].since \in Nat
        BY <1>0, <2>1, <2>2 DEF TypeOK, Call
    <3> QED
        BY <1>0, <1>4, <2>1, <2>2, <3>1 DEF Tick, JustifiedInv, FlightsAreShort
  <2>3. FlightsAreShort'
    BY <2>2 DEF FlightsAreShort
  <2> QED
    BY <1>0, <1>1, <1>2, <2>1, <2>3
<1>5. CASE Administer
    BY <1>3, <1>5 DEF Administer, SetDefaultDeny, RevokeDIDs, AuthorizeDIDs
<1>6. ASSUME NEW e \in Evaluator, NEW q \in Query, HitCache(e, q)
      PROVE  NotesArePast' /\ FlightsAreShort' /\ FlightJustified' /\ CacheJustified'
    BY <1>0, <1>1, <1>2, <1>6 DEF HitCache, JustifiedInv, FlightsAreShort
<1>7. ASSUME NEW e \in Evaluator, Observe, now' = now, call' = [call EXCEPT ![e] = call'[e]],
             call'[e] # Idle => call'[e].since <= now /\ now - call'[e].since <= MaxStall,
             Carries(call'[e], now', history')
      PROVE  FlightsAreShort' /\ FlightJustified'
  <2>1. \A f \in Evaluator \ {e} : call'[f] = call[f]
    BY <1>0, <1>7 DEF TypeOK
  <2>2. FlightsAreShort'
    BY <1>0, <1>7, <2>1 DEF JustifiedInv, FlightsAreShort
  <2>3. \A f \in Evaluator \ {e} : Carries(call'[f], now', history')
    BY <1>0, <1>7, <2>1, FlightsLast
  <2> QED
    BY <1>7, <2>2, <2>3 DEF FlightJustified
<1>8. ASSUME NEW e \in Evaluator, NEW q \in Query, MissCache(e, q)
      PROVE  NotesArePast' /\ FlightsAreShort' /\ FlightJustified' /\ CacheJustified'
  <2>1. call'[e].at = "cleanup" /\ call'[e].since = now /\ call' = [call EXCEPT ![e] = call'[e]]
    BY <1>0, <1>8 DEF MissCache, TypeOK
  <2>2. Carries(call'[e], now', history')
    BY <2>1 DEF Carries
  <2>3. Observe /\ now' = now /\ policyCache' = policyCache
    BY <1>8 DEF MissCache
  <2> QED
    BY <1>0, <1>1, <1>7, <2>1, <2>2, <2>3, ZTNAAssumption
<1>9. ASSUME NEW e \in Evaluator, CleanupExpiredCache(e)
      PROVE  NotesArePast' /\ FlightsAreShort' /\ FlightJustified' /\ CacheJustified'
  <2>1. call[e] \in Call /\ call[e] # Idle
    BY <1>0, <1>9, InFlight DEF CleanupExpiredCache
  <2>2. /\ call'[e].at = "read" /\ call'[e].since = call[e].since
        /\ call' = [call EXCEPT ![e] = call'[e]]
    BY <1>0, <1>9, <2>1 DEF CleanupExpiredCache, TypeOK, Call
  <2>3. Carries(call'[e], now', history')
    BY <2>2 DEF Carries
  <2>4. \A q \in Query : policyCache'[q] = policyCache[q] \/ policyCache'[q] = NoEntry
    BY <1>9 DEF CleanupExpiredCache
  <2>5. Observe /\ now' = now
    BY <1>9 DEF CleanupExpiredCache
  <2>6. call[e].since <= now /\ now - call[e].since <= MaxStall
    BY <2>1 DEF JustifiedInv, FlightsAreShort
  <2> QED
    BY <1>0, <1>1, <1>7, <2>2, <2>3, <2>4, <2>5, <2>6
<1>10. ASSUME NEW e \in Evaluator, ReadPolicy(e)
       PROVE  NotesArePast' /\ FlightsAreShort' /\ FlightJustified' /\ CacheJustified'
  <2> DEFINE q == call[e].query
             p == policies[q.did]
  <2>1. call[e] \in Call /\ call[e] # Idle /\ q \in Query /\ q.did \in DID
    BY <1>0, <1>10, InFlight DEF ReadPolicy
  <2>2. /\ call'[e].at = "decide" /\ call'[e].since = call[e].since
        /\ call'[e].query = q /\ call'[e].policy = p
        /\ call' = [call EXCEPT ![e] = call'[e]]
    BY <1>0, <1>10, <2>1 DEF ReadPolicy, TypeOK, Call
  <2>3. call[e].since \in Nat /\ call[e].since <= now /\ now - call[e].since <= MaxStall
    BY <1>0, <2>1 DEF JustifiedInv, FlightsAreShort, Call
  <2>4. p \in Policy \cup {NoPolicy} /\ policies' = policies /\ now' = now
    BY <1>0, <1>10, <2>1 DEF TypeOK, ReadPolicy, book
  <2>5. \A t \in Nat : t >= now /\ Grants(p, q, t) => Since(lastGranted'[q], call[e].since)
    <3> SUFFICES ASSUME NEW t \in Nat, t >= now, Grants(p, q, t)
                 PROVE  Since(lastGranted'[q], call[e].since)
        OBVIOUS
    <3>1. Grants(p, q, now)
        BY <1>0, <2>4, GrantsEarlier
    <3>2. lastGranted'[q] = now
        BY <1>10, <2>1, <2>4, <3>1 DEF ReadPolicy, Observe
    <3> QED
        BY <1>0, <2>3, <3>2 DEF Since, Never
  <2>6. p = NoPolicy => Since(lastAbsent'[q.did], call[e].since)
    BY <1>0, <1>10, <2>1, <2>3, <2>4 DEF ReadPolicy, Observe, Since, Never
  <2>7. Carries(call'[e], now', history')
    BY <2>2, <2>4, <2>5, <2>6 DEF Carries, history
  <2>8. Observe /\ now' = now /\ policyCache' = policyCache
    BY <1>10 DEF ReadPolicy
  <2> QED
    BY <1>0, <1>1, <1>7, <2>2, <2>3, <2>7, <2>8
<1>11. ASSUME NEW e \in Evaluator, Decide(e)
       PROVE  NotesArePast' /\ FlightsAreShort' /\ FlightJustified' /\ CacheJustified'
  <2> DEFINE q == call[e].query
             s == call[e].since
  <2>1. call[e] \in Call /\ call[e] # Idle /\ q \in Query /\ q.did \in DID
    BY <1>0, <1>11, InFlight DEF Decide
  <2>2. /\ call'[e].at = "store" /\ call'[e].since = s /\ call'[e].query = q
        /\ call'[e].decision = Verdict(call[e].policy, defaultDeny, q, now)
        /\ call' = [call EXCEPT ![e] = call'[e]]
    BY <1>0, <1>11, <2>1 DEF Decide, TypeOK, Call
  <2>3. s \in Nat /\ s <= now /\ now - s <= MaxStall
    BY <1>0, <2>1 DEF JustifiedInv, FlightsAreShort, Call
  <2>4. call[e].at = "decide" /\ Carries(call[e], now, history)
    BY <1>11 DEF Decide, JustifiedInv, FlightJustified
  <2>5. ASSUME call'[e].decision = "accept" PROVE Permitted(q, s, history')
    <3>1. CASE call[e].policy = NoPolicy
      <4>1. ~defaultDeny' /\ now' = now
          BY <1>11, <2>2, <2>5, <3>1 DEF Decide, Verdict, book
      <4>2. Since(lastOpen', s)
          BY <1>0, <1>11, <2>3, <4>1 DEF Decide, Observe, Since, Never
      <4>3. Since(lastAbsent[q.did], s)
          BY <2>4, <3>1 DEF Carries, history
      <4>4. Since(lastAbsent'[q.did], s)
          BY <1>0, <1>11, <2>1, <2>3, <4>1, <4>3, NotesGrow DEF JustifiedInv, Decide
      <4> QED
          BY <4>2, <4>4 DEF Permitted, history
    <3>2. CASE call[e].policy # NoPolicy
      <4>1. Grants(call[e].policy, q, now)
          BY <2>2, <2>5, <3>2 DEF Verdict
      <4>2. Since(lastGranted[q], s)
          BY <1>0, <2>4, <4>1 DEF Carries, history
      <4>3. Permitted(q, s, history)
          BY <4>2 DEF Permitted, history
      <4> QED
          BY <1>0, <1>11, <2>1, <2>3, <4>3, NotesGrow DEF JustifiedInv, Decide
    <3> QED
        BY <3>1, <3>2
  <2>6. Carries(call'[e], now', history')
    BY <2>2, <2>5 DEF Carries
  <2>7. Observe /\ now' = now /\ policyCache' = policyCache
    BY <1>11 DEF Decide
  <2> QED
    BY <1>0, <1>1, <1>7, <2>2, <2>3, <2>6, <2>7
<1>12. ASSUME NEW e \in Evaluator, StoreDecision(e)
       PROVE  NotesArePast' /\ FlightsAreShort' /\ FlightJustified' /\ CacheJustified'
  <2> DEFINE c == call[e]
  <2>1. c \in Call /\ c # Idle /\ c.query \in Query /\ c.since \in Nat
    BY <1>0, <1>12, InFlight DEF StoreDecision, Call
  <2>2. c.since <= now /\ now - c.since <= MaxStall
    BY <2>1 DEF JustifiedInv, FlightsAreShort
  <2>3. \A q \in Query :
          policyCache'[q] = IF q = c.query
                            THEN [decision |-> c.decision, expires |-> now + CacheTTL,
                                  raced |-> c.raced]
                            ELSE policyCache[q]
    BY <1>0, <1>12 DEF StoreDecision, TypeOK
  <2>4. now' = now /\ Observe
    BY <1>12 DEF StoreDecision
  <2>5. NotesArePast'
    BY <1>0, <2>4, NotesGrow DEF JustifiedInv
  <2>6. ASSUME c.decision = "accept"
        PROVE  Permitted(c.query, now - MaxStall, history')
    <3>1. Permitted(c.query, c.since, history)
        BY <1>12, <2>6 DEF StoreDecision, JustifiedInv, FlightJustified, Carries
    <3>2. Permitted(c.query, c.since, history')
        BY <1>0, <2>1, <2>4, <3>1, NotesGrow DEF JustifiedInv
    <3>3. /\ lastGranted'[c.query] \in Nat \cup {Never}
          /\ lastAbsent'[c.query.did] \in Nat \cup {Never}
          /\ lastOpen' \in Nat \cup {Never}
        BY <1>0, <2>1 DEF TypeOK
    <3>4. now - MaxStall <= c.since /\ now - MaxStall \in Int
        BY <1>0, <2>1, <2>2
    <3> QED
        BY <2>1, <3>2, <3>3, <3>4 DEF Permitted, Since, history, Never
  <2>7. ASSUME NEW q \in Query, policyCache'[q] # NoEntry, policyCache'[q].decision = "accept"
        PROVE  Permitted(q, policyCache'[q].expires - CacheTTL - MaxStall, history')
    <3>1. CASE q = c.query
      <4>1. /\ policyCache'[q].expires - CacheTTL - MaxStall = now - MaxStall
            /\ c.decision = "accept"
          BY <1>0, <2>3, <2>7, <3>1
      <4> QED
          BY <2>6, <3>1, <4>1
    <3>2. CASE q # c.query
      <4>1. policyCache'[q] = policyCache[q] /\ policyCache[q] \in Entry
          BY <1>0, <2>3, <2>7, <3>2 DEF TypeOK
      <4>2. policyCache[q].expires - CacheTTL - MaxStall \in Int
          BY <4>1 DEF Entry
      <4> QED
          BY <1>0, <2>4, <2>7, <4>1, <4>2, NotesGrow DEF JustifiedInv, CacheJustified
    <3> QED
        BY <3>1, <3>2
  <2>8. CacheJustified'
    BY <2>7 DEF CacheJustified
  <2>9. call' = [call EXCEPT ![e] = call'[e]] /\ call'[e] = Idle
    BY <1>0, <1>12 DEF StoreDecision, TypeOK
  <2>10. Carries(call'[e], now', history')
    BY <2>9 DEF Carries, Idle
  <2> QED
    BY <1>7, <2>4, <2>5, <2>8, <2>9, <2>10
<1>13. CASE UNCHANGED vars
  <2>1. NotesArePast' /\ FlightsAreShort' /\ CacheJustified'
    BY <1>13 DEF vars, history, JustifiedInv, NotesArePast, FlightsAreShort, CacheJustified
  <2>2. FlightJustified'
    BY <1>13 DEF vars, JustifiedInv, FlightJustified
  <2> QED
    BY <2>1, <2>2
<1> QED
    BY <1>4, <1>5, <1>6, <1>8, <1>9, <1>10, <1>11, <1>12, <1>13 DEF Next, Eval

LEMMA JustifiedHolds == Spec => []JustifiedInv
<1>1. Init => TypeOK
    BY ZTNAAssumption, QueryParts DEF Init, TypeOK, EmptyCache
<1>2. Init => NotesArePast /\ FlightsAreShort /\ FlightJustified /\ CacheJustified
    BY DEF Init, NotesArePast, FlightsAreShort, FlightJustified, CacheJustified, EmptyCache,
           Idle, Carries, Never
<1> QED
    BY <1>1, <1>2, JustifiedStep, PTL DEF Spec, JustifiedInv

\* An accepted packet was permitted at most one cache lifetime and one evaluation
\* ago, by a policy or because its sender had none while the mode was permissive.
THEOREM AcceptsAreJustified == Spec => AcceptJustified
<1>1. ASSUME JustifiedInv, [Next]_vars
      PROVE  [\A e \in Evaluator :
         (result'[e] # result[e] /\ result'[e] # NoResult
          /\ result'[e].decision = "accept")
         => LET q == result'[e].query IN
            Recent(lastGranted[q])
            \/ (Recent(lastAbsent[q.did]) /\ Recent(lastOpen))]_vars
  <2> SUFFICES ASSUME Next, NEW e \in Evaluator,
                      result'[e] # result[e], result'[e] # NoResult,
                      result'[e].decision = "accept"
               PROVE  Recent(lastGranted[result'[e].query])
                      \/ (Recent(lastAbsent[result'[e].query.did]) /\ Recent(lastOpen))
    BY <1>1
  <2> DEFINE q == result'[e].query
  <2>0. TypeOK /\ now \in Nat
    BY <1>1 DEF JustifiedInv, TypeOK
  <2>1. ASSUME NEW s \in Int, q \in Query, Permitted(q, s, history), now - s < CacheTTL + MaxStall
        PROVE  Recent(lastGranted[q]) \/ (Recent(lastAbsent[q.did]) /\ Recent(lastOpen))
    <3>1. /\ lastGranted[q] \in Nat \cup {Never} /\ lastAbsent[q.did] \in Nat \cup {Never}
          /\ lastOpen \in Nat \cup {Never}
        BY <2>0, <2>1, QueryParts DEF TypeOK
    <3> HIDE DEF q
    <3> QED
        BY <2>0, <2>1, <3>1, ZTNAAssumption DEF Permitted, Since, Recent, history, Never
  <2>2. CASE \E f \in Evaluator, r \in Query : HitCache(f, r)
    <3>1. PICK f \in Evaluator, r \in Query : HitCache(f, r)
        BY <2>2
    <3>2. e = f /\ q = r /\ policyCache[r].decision = "accept" /\ Live(policyCache[r])
        BY <2>0, <3>1 DEF HitCache, TypeOK
    <3>3. policyCache[r] \in Entry /\ policyCache[r].expires \in Nat
        BY <2>0, <3>2 DEF TypeOK, Live, Entry
    <3>4. Permitted(r, policyCache[r].expires - CacheTTL - MaxStall, history)
        BY <1>1, <3>2 DEF JustifiedInv, CacheJustified, Live
    <3>5. /\ policyCache[r].expires - CacheTTL - MaxStall \in Int
          /\ now - (policyCache[r].expires - CacheTTL - MaxStall) < CacheTTL + MaxStall
        BY <2>0, <3>2, <3>3, ZTNAAssumption DEF Live
    <3> QED
        BY <2>1, <3>2, <3>4, <3>5
  <2>3. CASE \E f \in Evaluator : StoreDecision(f)
    <3>1. PICK f \in Evaluator : StoreDecision(f)
        BY <2>3
    <3>2. e = f /\ q = call[e].query /\ call[e].decision = "accept" /\ call[e].at = "store"
        BY <2>0, <3>1 DEF StoreDecision, TypeOK
    <3>3. call[e] \in Call /\ call[e] # Idle /\ q \in Query /\ call[e].since \in Nat
        BY <2>0, <3>2, InFlight DEF Call
    <3>4. Permitted(q, call[e].since, history)
        BY <1>1, <3>2 DEF JustifiedInv, FlightJustified, Carries
    <3>5. now - call[e].since < CacheTTL + MaxStall
        BY <1>1, <2>0, <3>3, ZTNAAssumption DEF JustifiedInv, FlightsAreShort
    <3> QED
        BY <2>1, <3>3, <3>4, <3>5
  <2>4. ASSUME UNCHANGED result PROVE FALSE
    BY <2>4
  <2>5. ASSUME NEW f \in Evaluator, NEW r \in Query, MissCache(f, r) PROVE FALSE
    BY <2>0, <2>5 DEF MissCache, TypeOK
  <2> QED
    BY <2>2, <2>3, <2>4, <2>5
       DEF Next, Eval, Tick, Administer, SetDefaultDeny, RevokeDIDs, AuthorizeDIDs, Invalidate,
           CleanupExpiredCache, ReadPolicy, Decide
<1> QED
    BY <1>1, JustifiedHolds, PTL DEF Spec, AcceptJustified
=============================================================================
