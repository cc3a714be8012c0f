------------------------- MODULE NodeServices_proofs -------------------------
(* Proofs about what runs on a node around its packets (MCNodeServices): what  *)
(* was earned lasts, what is reported is so, the counters agree with what they *)
(* count, what is rationed stays within its ration, the tables that must agree *)
(* do, and every state has its type and keeps within the capacities.           *)
(*                                                                             *)
(* Services share no state, so each has an inductive invariant of its own; a   *)
(* step of the composition is a step of one service and leaves the others      *)
(* alone.                                                                      *)
EXTENDS MCNodeServices, FiniteSetTheorems, NaturalsInduction, SequenceTheorems,
        WellFoundedInduction, TLAPS

\* A step of the services is a step of a service or leaves all its variables alone.
LEMMA EveryStepIsOfAService ==
    ASSUME [ServicesNext]_servicesVars
    PROVE  /\ [TunNext]_tunVars /\ [ProxyNext]_proxyVars /\ [NatNext]_natVars
           /\ [ProbeNext]_probeVars /\ [PanelNext]_panelVars /\ [AnchorNext]_anchorVars
           /\ [SilentNext]_silentVars /\ [EgressNext \/ PolicyNext]_egressVars
           /\ [GuardNext]_guardVars /\ [KademliaNext]_kademliaVars
           /\ [TransitNext]_transitVars /\ [TableNext]_tableVars /\ [DNSNext]_dnsVars
           /\ [PlanetNext]_planetVars /\ [ChainNext \/ BindingNext]_delegationVars
           /\ [ShadowNext]_shadowVars /\ [PeelNext]_relayCacheVars
           /\ [PaddingNext]_paddingVars /\ [AdapterNext]_adapterVars
  BY DEF ServicesNext, servicesVars, GoroutinesNext, TiesNext, TablesNext, IdentityNext,
         MemoryNext, Only, goroutineVars, tieVars, tableVarsOfMesh, identityVars, memoryVars

(***************************************************************************)
(* What was earned lasts.                                                  *)
(***************************************************************************)

\* The numbers of bindings are numbers.
AnchorInv == \A d \in DOMAIN locators : locators[d].lastSeq \in Nat

LEMMA WhereItMoved ==
    ASSUME AnchorInv, NEW d \in Mobiles, NEW addr \in Places, NEW seq \in Numbers,
           locators' = Moved(d, addr, seq)
    PROVE  /\ AnchorInv'
           /\ \A e \in DOMAIN locators : e # d => locators'[e] = locators[e]
           /\ d \in DOMAIN locators =>
                 locators'[d].lastSeq = IF seq > 0 THEN seq ELSE locators[d].lastSeq
<1>1. seq \in Nat /\ MaxJump \in Nat
  BY AnchorAssumption DEF AnchorAssumption, Numbers
<1>2. DOMAIN locators' = DOMAIN locators \cup {d}
  BY DEF Moved
<1>3. \A e \in DOMAIN locators : e # d => locators'[e] = locators[e]
  BY DEF Moved
<1>4. locators'[d].lastSeq
         = IF seq > 0 \/ d \notin DOMAIN locators THEN seq ELSE locators[d].lastSeq
  BY DEF Moved
<1>5. AnchorInv'
  <2> SUFFICES ASSUME NEW e \in DOMAIN locators' PROVE locators'[e].lastSeq \in Nat
    BY DEF AnchorInv
  <2>1. CASE e = d
    BY <1>1, <1>4, <2>1 DEF AnchorInv
  <2>2. CASE e # d
    BY <1>2, <1>3, <2>2 DEF AnchorInv
  <2> QED BY <2>1, <2>2
<1> QED BY <1>3, <1>4, <1>5

\* What LeapsAreSigned says of one step.
SignedLeaps ==
    \A d \in DOMAIN locators :
       /\ locators'[d].lastSeq >= locators[d].lastSeq
       /\ locators[d].lastSeq > 0 /\ locators'[d].lastSeq > locators[d].lastSeq + MaxJump
             => <<d, locators'[d].lastSeq>> \in signed

LEMMA AnchorStep == AnchorInv /\ [AnchorNext]_anchorVars => AnchorInv' /\ SignedLeaps
<1> SUFFICES ASSUME AnchorInv, [AnchorNext]_anchorVars PROVE AnchorInv' /\ SignedLeaps
  OBVIOUS
<1>0. MaxJump \in Nat /\ Numbers \subseteq Nat
  BY AnchorAssumption DEF AnchorAssumption, Numbers
<1>1. ASSUME UNCHANGED locators PROVE AnchorInv' /\ SignedLeaps
  <2>1. \A d \in DOMAIN locators : locators[d].lastSeq \in Nat
    BY DEF AnchorInv
  <2> QED BY <1>0, <1>1, <2>1 DEF AnchorInv, SignedLeaps
<1>2. ASSUME NEW d \in Mobiles, NEW a \in Places, NEW s \in Numbers, locators' = Moved(d, a, s),
             \/ d \in DOMAIN locators /\ s > 0 => s > locators[d].lastSeq /\ ~LargeJump(d, s)
             \/ d \in DOMAIN locators /\ s > locators[d].lastSeq /\ <<d, s>> \in signed
      PROVE  AnchorInv' /\ SignedLeaps
  <2>1. /\ AnchorInv' /\ \A e \in DOMAIN locators : e # d => locators'[e] = locators[e]
        /\ d \in DOMAIN locators =>
              locators'[d].lastSeq = IF s > 0 THEN s ELSE locators[d].lastSeq
    BY <1>2, WhereItMoved
  <2> SUFFICES ASSUME NEW e \in DOMAIN locators
               PROVE  /\ locators'[e].lastSeq >= locators[e].lastSeq
                      /\ locators[e].lastSeq > 0 /\ locators'[e].lastSeq > locators[e].lastSeq + MaxJump
                            => <<e, locators'[e].lastSeq>> \in signed
    BY <2>1 DEF SignedLeaps
  <2>2. locators[e].lastSeq \in Nat /\ s \in Nat
    BY <1>0 DEF AnchorInv
  <2>3. CASE e # d
    BY <1>0, <2>1, <2>2, <2>3
  <2>4. CASE e = d
    BY <1>0, <1>2, <2>1, <2>2, <2>4 DEF LargeJump
  <2> QED BY <2>3, <2>4
<1>3. ASSUME NEW d \in Mobiles, NEW a \in Places, NEW s \in Numbers, MoveUnproved(d, a, s)
      PROVE  AnchorInv' /\ SignedLeaps
  BY <1>2, <1>3 DEF MoveUnproved
<1>4. ASSUME NEW d \in Mobiles, NEW a \in Places, NEW s \in Numbers, NEW p \in Proofs,
             MoveProved(d, a, s, p)
      PROVE  AnchorInv' /\ SignedLeaps
  <2>1. CASE locators' = locators
    BY <1>1, <2>1
  <2>2. CASE locators' = Moved(d, a, s) /\ Authentic(d, s, p)
    BY <1>2, <1>4, <2>2 DEF MoveProved, Authentic
  <2> QED BY <1>4, <2>1, <2>2 DEF MoveProved
<1>5. \/ UNCHANGED locators
      \/ \E d \in Mobiles, a \in Places, s \in Numbers :
            MoveUnproved(d, a, s) \/ \E p \in Proofs : MoveProved(d, a, s, p)
  BY DEF AnchorNext, anchorVars, Sign, ShouldPropagateGlobalSync, AnchorTick
<1> QED BY <1>1, <1>3, <1>4, <1>5

\* A binding leaps only to a number its node has signed.
LEMMA LeapsHaveSignatures == ServicesSpec => LeapsAreSigned
<1>1. ServicesInit => AnchorInv
  BY DEF ServicesInit, AnchorInit, AnchorInv
<1>2. AnchorInv /\ [ServicesNext]_servicesVars => AnchorInv' /\ [SignedLeaps]_anchorVars
  BY AnchorStep, EveryStepIsOfAService
<1> HIDE DEF AnchorInv, SignedLeaps
<1>3. ServicesSpec => [][SignedLeaps]_anchorVars
  BY <1>1, <1>2, PTL DEF ServicesSpec
<1> QED BY <1>3 DEF LeapsAreSigned, SignedLeaps

-----------------------------------------------------------------------------
\* The books hold numbers, and the tier in them is the one that follows, or a punishment.
AccountHolds(a) ==
    /\ a.tx \in Nat /\ a.rx \in Nat /\ a.ptx \in Nat /\ a.prx \in Nat
    /\ a \in [tx : Nat, rx : Nat, ptx : Nat, prx : Nat, tier : Tiers]
    /\ a.tier \in {Tier(a), "THROTTLED"}

TransitInv == \A d \in DOMAIN accounts : AccountHolds(accounts[d])

\* What GivingNeverHurts says of one step.
NoHarmInGiving ==
    \A d \in DOMAIN accounts :
       accounts'[d].rx > accounts[d].rx
          => Standing[accounts'[d].tier] >= Standing[accounts[d].tier]

LEMMA TheFourTiers ==
    /\ \A a : Tier(a) \in Tiers
    /\ Standing["THROTTLED"] = 0 /\ Standing["BEST_EFFORT"] = 1
    /\ Standing["NORMAL"] = 2 /\ Standing["PRIORITY"] = 3
  BY DEF Tier, Tiers, Standing

\* An account with more received is served no worse.
LEMMA MoreIsNoWorse ==
    ASSUME NEW a, AccountHolds(a), NEW b, b.tx = a.tx, b.ptx = a.ptx, b.rx \in Nat, b.rx >= a.rx
    PROVE  Standing[Tier(b)] >= Standing[a.tier]
<1>1. a.tx \in Nat /\ a.rx \in Nat /\ b.rx \in Nat
  BY DEF AccountHolds
<1>2. CASE a.tier = "THROTTLED"
  <2>1. Standing[Tier(b)] \in {0, 1, 2, 3}
    BY TheFourTiers DEF Tiers
  <2> QED BY <1>2, <2>1, TheFourTiers
<1>3. CASE a.tier = Tier(a)
  <2>1. CASE Courtesy(a)
    <3>1. Courtesy(b) /\ Tier(b) = Tier(a)
      BY <2>1 DEF Courtesy, Tier
    <3> QED BY <1>3, <3>1, TheFourTiers DEF Tiers
  <2>2. CASE ~Courtesy(a)
    <3>1. ~Courtesy(b)
      BY <2>2 DEF Courtesy
    <3>2. Tier(a) = IF a.rx >= a.tx THEN "PRIORITY" ELSE IF 2 * a.rx >= a.tx THEN "NORMAL"
                    ELSE IF 5 * a.rx >= a.tx THEN "BEST_EFFORT" ELSE "THROTTLED"
      BY <2>2 DEF Tier
    <3>3. Tier(b) = IF b.rx >= a.tx THEN "PRIORITY" ELSE IF 2 * b.rx >= a.tx THEN "NORMAL"
                    ELSE IF 5 * b.rx >= a.tx THEN "BEST_EFFORT" ELSE "THROTTLED"
      BY <3>1 DEF Tier
    <3>4. /\ a.rx >= a.tx => b.rx >= a.tx
          /\ 2 * a.rx >= a.tx => 2 * b.rx >= a.tx
          /\ 5 * a.rx >= a.tx => 5 * b.rx >= a.tx
          /\ b.rx >= a.tx => 2 * b.rx >= a.tx /\ 5 * b.rx >= a.tx
          /\ 2 * b.rx >= a.tx => 5 * b.rx >= a.tx
      BY <1>1
    <3> QED BY <1>3, <3>2, <3>3, <3>4, TheFourTiers
  <2> QED BY <2>1, <2>2
<1> QED BY <1>2, <1>3 DEF AccountHolds

LEMMA AccountsAreOpenedSound ==
    ASSUME TransitInv, NEW d PROVE AccountHolds(Account(d))
<1>1. CASE d \in DOMAIN accounts
  BY <1>1 DEF Account, TransitInv
<1>2. CASE d \notin DOMAIN accounts
  <2> DEFINE new == [tx |-> 0, rx |-> 0, ptx |-> 0, prx |-> 0, tier |-> "NORMAL"]
  <2>1. CourtesyBytes \in Nat /\ CourtesyPackets \in Nat
    BY TransitAssumption DEF TransitAssumption
  <2>2. Tier(new) = "NORMAL"
    BY <2>1 DEF Tier, Courtesy
  <2>3. AccountHolds(new)
    BY <2>2 DEF AccountHolds, Tiers
  <2> QED BY <1>2, <2>3 DEF Account
<1> QED BY <1>1, <1>2

LEMMA RecalculatedHolds ==
    ASSUME NEW a, a \in [tx : Nat, rx : Nat, ptx : Nat, prx : Nat, tier : Tiers]
    PROVE  AccountHolds(Recalculated(a)) /\ Recalculated(a).tier = Tier(a)
           /\ Recalculated(a).tx = a.tx /\ Recalculated(a).rx = a.rx /\ Recalculated(a).ptx = a.ptx
<1> DEFINE b == Recalculated(a)
<1>1. /\ b \in [tx : Nat, rx : Nat, ptx : Nat, prx : Nat, tier : Tiers] /\ b.tier = Tier(a)
      /\ b.tx = a.tx /\ b.rx = a.rx /\ b.ptx = a.ptx /\ b.prx = a.prx
  BY TheFourTiers DEF Recalculated
<1>2. Tier(b) = Tier(a)
  BY <1>1 DEF Tier, Courtesy
<1> HIDE DEF b
<1>3. AccountHolds(b)
  BY <1>1, <1>2 DEF AccountHolds
<1> QED BY <1>1, <1>3 DEF b

\* What a packet adds to an account.
LEMMA AddedToAccount ==
    ASSUME NEW a \in [tx : Nat, rx : Nat, ptx : Nat, prx : Nat, tier : Tiers], NEW n \in Nat
    PROVE  /\ [a EXCEPT !.tx = @ + n, !.ptx = @ + 1]
                \in [tx : Nat, rx : Nat, ptx : Nat, prx : Nat, tier : Tiers]
           /\ [a EXCEPT !.tx = @ + n, !.ptx = @ + 1].rx = a.rx
           /\ [a EXCEPT !.rx = @ + n, !.prx = @ + 1]
                \in [tx : Nat, rx : Nat, ptx : Nat, prx : Nat, tier : Tiers]
           /\ [a EXCEPT !.rx = @ + n, !.prx = @ + 1].tx = a.tx
           /\ [a EXCEPT !.rx = @ + n, !.prx = @ + 1].ptx = a.ptx
           /\ [a EXCEPT !.rx = @ + n, !.prx = @ + 1].rx >= a.rx
<1>1. /\ a.tx + n \in Nat /\ a.ptx + 1 \in Nat
      /\ a.rx + n \in Nat /\ a.prx + 1 \in Nat /\ a.rx + n >= a.rx
  OBVIOUS
<1>2. ASSUME NEW i \in Nat, NEW k \in Nat
      PROVE  /\ [a EXCEPT !.tx = i, !.ptx = k]
                  \in [tx : Nat, rx : Nat, ptx : Nat, prx : Nat, tier : Tiers]
             /\ [a EXCEPT !.tx = i, !.ptx = k].rx = a.rx
  OBVIOUS
<1>3. ASSUME NEW i \in Nat, NEW k \in Nat
      PROVE  /\ [a EXCEPT !.rx = i, !.prx = k]
                  \in [tx : Nat, rx : Nat, ptx : Nat, prx : Nat, tier : Tiers]
             /\ [a EXCEPT !.rx = i, !.prx = k].tx = a.tx
             /\ [a EXCEPT !.rx = i, !.prx = k].ptx = a.ptx
             /\ [a EXCEPT !.rx = i, !.prx = k].rx = i
  OBVIOUS
<1>4. /\ [a EXCEPT !.tx = @ + n, !.ptx = @ + 1] = [a EXCEPT !.tx = a.tx + n, !.ptx = a.ptx + 1]
      /\ [a EXCEPT !.rx = @ + n, !.prx = @ + 1] = [a EXCEPT !.rx = a.rx + n, !.prx = a.prx + 1]
  OBVIOUS
<1> QED BY <1>1, <1>2, <1>3, <1>4

LEMMA TransitStep == TransitInv /\ [TransitNext]_transitVars => TransitInv' /\ NoHarmInGiving
<1> SUFFICES ASSUME TransitInv, [TransitNext]_transitVars PROVE TransitInv' /\ NoHarmInGiving
  OBVIOUS
<1> DEFINE Records == [tx : Nat, rx : Nat, ptx : Nat, prx : Nat, tier : Tiers]
<1>1. ASSUME NEW d, NEW a, PutAccount(d, a), AccountHolds(a),
             \/ a.rx = Account(d).rx
             \/ a.tx = Account(d).tx /\ a.ptx = Account(d).ptx /\ a.rx >= Account(d).rx /\ a.tier = Tier(a)
      PROVE  TransitInv' /\ NoHarmInGiving
  <2>1. /\ DOMAIN accounts' = DOMAIN accounts \cup {d} /\ accounts'[d] = a
        /\ \A e \in DOMAIN accounts : e # d => accounts'[e] = accounts[e]
    BY <1>1 DEF PutAccount
  <2>2. TransitInv'
    BY <1>1, <2>1 DEF TransitInv
  <2>3. ASSUME NEW e \in DOMAIN accounts, accounts'[e].rx > accounts[e].rx
        PROVE  Standing[accounts'[e].tier] >= Standing[accounts[e].tier]
    <3>1. AccountHolds(accounts[e]) /\ accounts[e].rx \in Nat
      BY DEF TransitInv, AccountHolds
    <3>2. e = d
      BY <2>1, <2>3, <3>1
    <3>3. Account(d) = accounts[d]
      BY <3>2 DEF Account
    <3>4. a.tx = accounts[d].tx /\ a.ptx = accounts[d].ptx /\ a.rx >= accounts[d].rx /\ a.tier = Tier(a)
      BY <1>1, <2>1, <2>3, <3>1, <3>2, <3>3
    <3>5. a.rx \in Nat
      BY <1>1 DEF AccountHolds
    <3> QED BY <2>1, <3>1, <3>2, <3>4, <3>5, MoreIsNoWorse
  <2> QED BY <2>2, <2>3 DEF NoHarmInGiving
<1>2. ASSUME NEW d \in Partners, SlashPeer(d) PROVE TransitInv' /\ NoHarmInGiving
  <2> DEFINE a == [Account(d) EXCEPT !.tier = "THROTTLED"]
  <2>1. AccountHolds(Account(d))
    BY AccountsAreOpenedSound
  <2>2. a \in Records /\ a.rx = Account(d).rx /\ a.tier = "THROTTLED"
    BY <2>1 DEF AccountHolds, Tiers
  <2>3. PutAccount(d, a)
    BY <1>2 DEF SlashPeer
  <2> HIDE DEF a
  <2>4. AccountHolds(a)
    BY <2>2 DEF AccountHolds
  <2> QED BY <1>1, <2>2, <2>3, <2>4
<1>3. ASSUME NEW d \in Partners, NEW n \in Amounts, RecordTx(d, n)
      PROVE  TransitInv' /\ NoHarmInGiving
  <2> DEFINE a == [Account(d) EXCEPT !.tx = @ + n, !.ptx = @ + 1]
  <2>1. AccountHolds(Account(d)) /\ n \in Nat
    BY AccountsAreOpenedSound, TransitAssumption DEF TransitAssumption
  <2>2. a \in Records /\ a.rx = Account(d).rx
    BY <2>1, AddedToAccount DEF AccountHolds
  <2>3. PutAccount(d, Recalculated(a))
    BY <1>3 DEF RecordTx
  <2> HIDE DEF a
  <2>4. AccountHolds(Recalculated(a)) /\ Recalculated(a).rx = Account(d).rx
    BY <2>2, RecalculatedHolds
  <2> QED BY <1>1, <2>3, <2>4
<1>4. ASSUME NEW d \in Partners, NEW n \in Amounts, RecordRx(d, n)
      PROVE  TransitInv' /\ NoHarmInGiving
  <2> DEFINE a == [Account(d) EXCEPT !.rx = @ + n, !.prx = @ + 1]
  <2>1. AccountHolds(Account(d)) /\ n \in Nat
    BY AccountsAreOpenedSound, TransitAssumption DEF TransitAssumption
  <2>2. a \in Records /\ a.tx = Account(d).tx /\ a.ptx = Account(d).ptx /\ a.rx >= Account(d).rx
    BY <2>1, AddedToAccount DEF AccountHolds
  <2>3. PutAccount(d, Recalculated(a))
    BY <1>4 DEF RecordRx
  <2> HIDE DEF a
  <2> DEFINE b == Recalculated(a)
  <2>4. /\ AccountHolds(b) /\ b.tx = Account(d).tx /\ b.ptx = Account(d).ptx
        /\ b.rx >= Account(d).rx /\ b.tier = Tier(a)
    BY <2>2, RecalculatedHolds
  <2>5. Tier(b) = Tier(a)
    BY <2>2, RecalculatedHolds DEF Tier, Courtesy
  <2> HIDE DEF b
  <2> QED BY <1>1, <2>3, <2>4, <2>5 DEF b
<1>5. CASE UNCHANGED accounts
  <2>1. \A d \in DOMAIN accounts : accounts[d].rx \in Nat
    BY DEF TransitInv, AccountHolds
  <2> QED BY <1>5, <2>1 DEF TransitInv, NoHarmInGiving
<1> QED BY <1>2, <1>3, <1>4, <1>5 DEF TransitNext, transitVars

LEMMA TransitInvHolds == ServicesSpec => []TransitInv /\ [][NoHarmInGiving]_transitVars
<1>1. ServicesInit => TransitInv
  BY DEF ServicesInit, TransitInit, TransitInv
<1>2. TransitInv /\ [ServicesNext]_servicesVars => TransitInv' /\ [NoHarmInGiving]_transitVars
  BY TransitStep, EveryStepIsOfAService
<1> HIDE DEF TransitInv, NoHarmInGiving
<1> QED BY <1>1, <1>2, PTL DEF ServicesSpec

\* What a peer gives never lowers its tier.
LEMMA GivingIsNotPunished == ServicesSpec => GivingNeverHurts
BY TransitInvHolds DEF GivingNeverHurts, NoHarmInGiving

-----------------------------------------------------------------------------
\* Buckets are sequences of contacts.
Heardof == [id : Known, version : Nat]

KademliaInv == bucket \in [Lengths -> Seq(Heardof)] /\ latest \in [Known -> Nat]

\* What OldContactsStay says of one step.
ContactsStay == \A l \in Lengths : \A c \in Range(bucket[l]) : Holds(bucket'[l], c.id)

\* What is left when one place of a sequence is given up.
LEMMA RemoveAtEffect ==
    ASSUME NEW S, NEW s \in Seq(S), NEW k \in 1 .. Len(s)
    PROVE  /\ RemoveAt(s, k) \in Seq(S) /\ Len(RemoveAt(s, k)) = Len(s) - 1
           /\ \A j \in 1 .. Len(s) - 1 :
                RemoveAt(s, k)[j] = IF j < k THEN s[j] ELSE s[j + 1]
<1> DEFINE p == SubSeq(s, 1, k - 1)
           q == SubSeq(s, k + 1, Len(s))
<1>1. p \in Seq(S) /\ Len(p) = k - 1 /\ \A j \in 1 .. k - 1 : p[j] = s[j]
    OBVIOUS
<1>2. q \in Seq(S) /\ Len(q) = Len(s) - k /\ \A j \in 1 .. Len(s) - k : q[j] = s[k + j]
    OBVIOUS
<1>3. RemoveAt(s, k) = p \o q /\ k \in Nat /\ Len(s) \in Nat /\ 1 <= k /\ k <= Len(s)
  <2>1. RemoveAt(s, k) = p \o q
    BY Zenon DEF RemoveAt
  <2>2. k \in Nat /\ Len(s) \in Nat /\ 1 <= k /\ k <= Len(s)
    OBVIOUS
  <2> QED BY <2>1, <2>2
<1> HIDE DEF p, q
<1>4. /\ p \o q \in Seq(S) /\ Len(p \o q) = Len(s) - 1
      /\ \A j \in 1 .. Len(s) - 1 : (p \o q)[j] = IF j < k THEN p[j] ELSE q[j - (k - 1)]
  <2>1. p \in Seq(S) /\ q \in Seq(S) /\ Len(p) = k - 1 /\ Len(q) = Len(s) - k
    BY <1>1, <1>2
  <2>2. /\ p \o q \in Seq(S) /\ Len(p \o q) = Len(p) + Len(q)
        /\ \A j \in 1 .. Len(p) + Len(q) :
             (p \o q)[j] = IF j <= Len(p) THEN p[j] ELSE q[j - Len(p)]
    BY <2>1, ConcatProperties
  <2>3. Len(p) + Len(q) = Len(s) - 1
    BY <2>1, <1>3
  <2>4. \A j \in 1 .. Len(s) - 1 : (j <= Len(p)) = (j < k) /\ j - Len(p) = j - (k - 1)
    BY <2>1, <1>3
  <2> QED
    BY <2>2, <2>3, <2>4
<1>5. \A j \in 1 .. Len(s) - 1 : (p \o q)[j] = IF j < k THEN s[j] ELSE s[j + 1]
  <2> SUFFICES ASSUME NEW j \in 1 .. Len(s) - 1
               PROVE  (p \o q)[j] = IF j < k THEN s[j] ELSE s[j + 1]
    OBVIOUS
  <2>1. CASE j < k
    BY <1>1, <1>3, <1>4, <2>1
  <2>2. CASE j >= k
    <3>1. j - (k - 1) \in 1 .. Len(s) - k /\ k + (j - (k - 1)) = j + 1
        BY <1>3, <2>2
    <3> QED
        BY <1>2, <1>3, <1>4, <2>2, <3>1
  <2>3. j < k \/ j >= k
    BY <1>3
  <2> QED
    BY <2>1, <2>2, <2>3
<1> HIDE DEF RemoveAt
<1>6. /\ RemoveAt(s, k) \in Seq(S)
      /\ Len(RemoveAt(s, k)) = Len(s) - 1
    BY <1>3, <1>4
<1>7. \A j \in 1 .. Len(s) - 1 : RemoveAt(s, k)[j] = IF j < k THEN s[j] ELSE s[j + 1]
    BY <1>3, <1>5
<1> QED
    BY <1>6, <1>7

LEMMA AppendEffect ==
    ASSUME NEW S, NEW s \in Seq(S), NEW c \in S
    PROVE  /\ Append(s, c) \in Seq(S) /\ DOMAIN Append(s, c) = 1 .. Len(s) + 1
           /\ DOMAIN s = 1 .. Len(s) /\ Len(s) \in Nat
           /\ \A i \in 1 .. Len(s) : Append(s, c)[i] = s[i]
           /\ Append(s, c)[Len(s) + 1] = c
  OBVIOUS

LEMMA RangeHasPlaces ==
    ASSUME NEW s, NEW c \in Range(s)
    PROVE  \E i \in DOMAIN s : s[i] = c
  BY DEF Range

\* Whoever was in the bucket is in it with a newcomer, also when that one was there before.
LEMMA KeptByAppend ==
    ASSUME NEW s \in Seq(Heardof), NEW c \in Heardof, NEW e \in Range(s)
    PROVE  Holds(Append(s, c), e.id)
<1>1. PICK i \in DOMAIN s : s[i] = e
  BY RangeHasPlaces
<1>2. i \in DOMAIN Append(s, c) /\ Append(s, c)[i] = e
  BY <1>1, AppendEffect
<1> QED BY <1>2 DEF Holds

LEMMA KeptByMove ==
    ASSUME NEW s \in Seq(Heardof), NEW c \in Heardof, NEW k \in DOMAIN s, s[k].id = c.id,
           NEW e \in Range(s)
    PROVE  Append(RemoveAt(s, k), c) \in Seq(Heardof) /\ Holds(Append(RemoveAt(s, k), c), e.id)
<1> DEFINE r == RemoveAt(s, k)
<1>1. PICK i \in DOMAIN s : s[i] = e
  BY RangeHasPlaces
<1>0. k \in 1 .. Len(s) /\ i \in 1 .. Len(s) /\ Len(s) \in Nat
  OBVIOUS
<1>2. /\ k \in 1 .. Len(s) /\ i \in 1 .. Len(s) /\ Len(s) \in Nat
      /\ r \in Seq(Heardof) /\ Len(r) = Len(s) - 1
      /\ \A j \in 1 .. Len(s) - 1 : r[j] = IF j < k THEN s[j] ELSE s[j + 1]
  BY <1>0, RemoveAtEffect
<1> HIDE DEF r
<1>3. /\ Append(r, c) \in Seq(Heardof) /\ DOMAIN Append(r, c) = 1 .. Len(s)
      /\ \A j \in 1 .. Len(s) - 1 : Append(r, c)[j] = r[j]
      /\ Append(r, c)[Len(s)] = c
  BY <1>2, AppendEffect
<1>4. CASE i = k
  <2>1. Append(r, c)[Len(s)].id = e.id /\ Len(s) \in DOMAIN Append(r, c)
    BY <1>1, <1>2, <1>3, <1>4
  <2> QED BY <1>3, <2>1 DEF Holds, r
<1>5. CASE i < k
  <2>1. Append(r, c)[i] = e /\ i \in DOMAIN Append(r, c)
    BY <1>1, <1>2, <1>3, <1>5
  <2> QED BY <1>3, <2>1 DEF Holds, r
<1>6. CASE i > k
  <2>1. Append(r, c)[i - 1] = e /\ i - 1 \in DOMAIN Append(r, c)
    BY <1>1, <1>2, <1>3, <1>6
  <2> QED BY <1>3, <2>1 DEF Holds, r
<1>7. i = k \/ i < k \/ i > k
  BY <1>2
<1> QED BY <1>4, <1>5, <1>6, <1>7

LEMMA KademliaStep == KademliaInv /\ [KademliaNext]_kademliaVars => KademliaInv' /\ ContactsStay
<1> SUFFICES ASSUME KademliaInv, [KademliaNext]_kademliaVars PROVE KademliaInv' /\ ContactsStay
  OBVIOUS
<1>1. \A l \in Lengths : bucket[l] \in Seq(Heardof)
  BY DEF KademliaInv
<1>2. ASSUME NEW l \in Lengths PROVE \A e \in Range(bucket[l]) : Holds(bucket[l], e.id)
  BY RangeHasPlaces DEF Holds
<1>3. CASE UNCHANGED kademliaVars
  BY <1>2, <1>3 DEF kademliaVars, KademliaInv, ContactsStay
<1>4. ASSUME NEW id \in Known, Update(id) PROVE KademliaInv' /\ ContactsStay
  <2>1. latest[id] \in Nat /\ latest' \in [Known -> Nat]
    BY <1>4 DEF Update, KademliaInv
  <2>2. PICK c, l : c \in Heardof /\ c.id = id /\ (SeenAgain(c, l) \/ InBucket(c, l)
                                                       \/ InReplacement(c, l))
    BY <1>4, <2>1 DEF Update, Heardof
  <2>3. ASSUME NEW s, bucket' = [bucket EXCEPT ![l] = s],
               l \in Lengths => s \in Seq(Heardof) /\ \A e \in Range(bucket[l]) : Holds(s, e.id)
        PROVE  KademliaInv' /\ ContactsStay
    <3>1. \A m \in Lengths : bucket'[m] = IF m = l THEN s ELSE bucket[m]
      BY <2>3 DEF KademliaInv
    <3>2. KademliaInv'
      BY <2>1, <2>3 DEF KademliaInv
    <3>3. ASSUME NEW m \in Lengths, NEW e \in Range(bucket[m]) PROVE Holds(bucket'[m], e.id)
      BY <1>2, <2>3, <3>1
    <3> QED BY <3>2, <3>3 DEF ContactsStay
  <2>4. CASE InReplacement(c, l)
    BY <1>2, <2>1, <2>4 DEF InReplacement, KademliaInv, ContactsStay
  <2>5. CASE InBucket(c, l)
    <3> DEFINE s == Append(bucket[l], c)
    <3>1. bucket' = [bucket EXCEPT ![l] = s]
      BY <2>5 DEF InBucket
    <3>2. l \in Lengths => s \in Seq(Heardof) /\ \A e \in Range(bucket[l]) : Holds(s, e.id)
      BY <1>1, <2>2, KeptByAppend, AppendEffect
    <3> HIDE DEF s
    <3> QED BY <2>3, <3>1, <3>2
  <2>6. CASE SeenAgain(c, l)
    <3>1. PICK i \in DOMAIN bucket[l] :
             /\ bucket[l][i].id = c.id
             /\ bucket' = [bucket EXCEPT ![l] = Append(RemoveAt(@, i), c)]
      BY <2>6 DEF SeenAgain
    <3> DEFINE s == Append(RemoveAt(bucket[l], i), c)
    <3>2. bucket' = [bucket EXCEPT ![l] = s]
      BY <3>1
    <3>3. ASSUME l \in Lengths
          PROVE  s \in Seq(Heardof) /\ \A e \in Range(bucket[l]) : Holds(s, e.id)
      <4>1. bucket[l][i] \in Range(bucket[l])
        BY DEF Range
      <4> QED BY <1>1, <2>2, <3>1, <3>3, <4>1, KeptByMove
    <3> HIDE DEF s
    <3> QED BY <2>3, <3>2, <3>3
  <2> QED BY <2>2, <2>4, <2>5, <2>6
<1> QED BY <1>3, <1>4 DEF KademliaNext

\* A contact that has got a place keeps it.
LEMMA ContactsKeepTheirPlaces == ServicesSpec => OldContactsStay
<1>1. ServicesInit => KademliaInv
  <2>1. <<>> \in Seq(Heardof)
    OBVIOUS
  <2> QED BY <2>1 DEF ServicesInit, KademliaInit, KademliaInv
<1>2. KademliaInv /\ [ServicesNext]_servicesVars => KademliaInv' /\ [ContactsStay]_kademliaVars
  BY KademliaStep, EveryStepIsOfAService
<1> HIDE DEF KademliaInv, ContactsStay
<1>3. ServicesSpec => [][ContactsStay]_kademliaVars
  BY <1>1, <1>2, PTL DEF ServicesSpec
<1> QED BY <1>3 DEF OldContactsStay, ContactsStay

\* Bindings, contacts and the standing of peers last, whoever else sends, moves, joins or takes.
THEOREM StandingLasts == ServicesSpec => EarnedStandingLasts
  BY LeapsHaveSignatures, ContactsKeepTheirPlaces, GivingIsNotPunished DEF EarnedStandingLasts

(***************************************************************************)
(* What is reported is so.                                                 *)
(***************************************************************************)

\* A recovery began after the last audit without quorum, and whoever is healthy has recovered.
GuardInv ==
    /\ clock \in Nat /\ lastBad \in Int /\ lastBad <= clock
    /\ guard \in [state : {"HEALTHY", "PARTITIONED", "RECOVERING"}, changedAt : Int]
    /\ guard.state = "RECOVERING" => lastBad <= guard.changedAt
    /\ SafeOnlyAfterStability

LEMMA GuardStep == GuardInv /\ [GuardNext]_guardVars => GuardInv'
<1> SUFFICES ASSUME GuardInv, [GuardNext]_guardVars PROVE GuardInv'
  OBVIOUS
<1>0. HeartbeatTimeout \in Nat /\ RecoveryWindow \in Nat /\ Never \in Int
  BY GuardAssumption DEF GuardAssumption, Never
<1>1. CASE UNCHANGED <<clock, guard, lastBad>>
  BY <1>1 DEF GuardInv, SafeOnlyAfterStability, IsSafeToWrite
<1>2. CASE GuardTick
  BY <1>0, <1>2 DEF GuardTick, GuardInv, SafeOnlyAfterStability, IsSafeToWrite
<1>3. ASSUME NEW s \in {"HEALTHY", "PARTITIONED", "RECOVERING"}, Become(s)
      PROVE  /\ guard' \in [state : {"HEALTHY", "PARTITIONED", "RECOVERING"}, changedAt : Int]
             /\ guard'.state = s /\ guard'.changedAt = clock
  BY <1>3 DEF Become, GuardInv
<1>4. CASE AuditLiveness /\ Recover
  <2>0. clock' = clock /\ lastBad' = lastBad
    BY <1>4 DEF AuditLiveness, Recover
  <2>1. CASE guard.state = "PARTITIONED"
    <3>1. Become("RECOVERING")
      BY <1>4, <2>1 DEF Recover
    <3> QED BY <1>3, <2>0, <3>1 DEF GuardInv, SafeOnlyAfterStability, IsSafeToWrite
  <2>2. CASE guard.state = "RECOVERING" /\ clock - guard.changedAt >= RecoveryWindow
    <3>1. Become("HEALTHY")
      BY <1>4, <2>2 DEF Recover
    <3>2. guard.changedAt \in Int
      BY DEF GuardInv
    <3> QED BY <1>0, <1>3, <2>0, <2>2, <3>1, <3>2 DEF GuardInv, SafeOnlyAfterStability, IsSafeToWrite
  <2>3. CASE guard' = guard
    BY <1>1, <2>0, <2>3
  <2> QED BY <1>4, <2>1, <2>2, <2>3 DEF Recover
<1>5. CASE AuditLiveness /\ Isolate
  <2>1. clock' = clock /\ lastBad' = clock
    BY <1>5 DEF AuditLiveness, Isolate
  <2>2. /\ guard' \in [state : {"HEALTHY", "PARTITIONED", "RECOVERING"}, changedAt : Int]
        /\ guard'.state = "PARTITIONED"
    BY <1>3, <1>5 DEF Isolate, GuardInv
  <2> QED BY <2>1, <2>2 DEF GuardInv, SafeOnlyAfterStability, IsSafeToWrite
<1> QED BY <1>1, <1>2, <1>4, <1>5 DEF GuardNext, guardVars, RecordHeartbeat, RegisterPeer, AuditLiveness

LEMMA GuardInvHolds == ServicesSpec => []GuardInv
<1>1. ServicesInit => GuardInv
  <2> SUFFICES ASSUME ServicesInit PROVE GuardInv
    OBVIOUS
  <2>1. /\ clock = 0 /\ lastBad = Never /\ guard = [state |-> "HEALTHY", changedAt |-> 0]
        /\ Never \in Int /\ Never <= 0
    BY GuardAssumption DEF ServicesInit, GuardInit, GuardAssumption, Never
  <2> QED BY <2>1 DEF GuardInv, SafeOnlyAfterStability
<1>2. GuardInv /\ [ServicesNext]_servicesVars => GuardInv'
  BY GuardStep, EveryStepIsOfAService
<1> HIDE DEF GuardInv
<1> QED BY <1>1, <1>2, PTL DEF ServicesSpec

-----------------------------------------------------------------------------
\* What the selector must know to be right when it has looked.
EgressInv == mode \in {"auto", "specific", "direct"} /\ GatewayIsUsable

LEMMA EgressStep == EgressInv /\ [EgressNext \/ PolicyNext]_egressVars => EgressInv'
<1> SUFFICES ASSUME EgressInv, [EgressNext \/ PolicyNext]_egressVars PROVE EgressInv'
  OBVIOUS
<1>1. CASE UNCHANGED <<egressPeers, egressChoice, evaluated>>
  BY <1>1 DEF EgressInv, GatewayIsUsable, egressPeers, egressChoice, Viable
<1>2. CASE evaluated' = FALSE /\ mode' \in {"auto", "specific", "direct"}
  BY <1>2 DEF EgressInv, GatewayIsUsable
<1>3. CASE EvaluatePeers
  <2>1. /\ mode' = mode /\ specific' = specific /\ egressTime' = egressTime
        /\ healthy' = healthy /\ exits' = exits /\ Viable' = Viable
    BY <1>3 DEF EvaluatePeers, egressPeers, Viable
  <2>2. CASE EvaluateSpecific
    BY <2>1, <2>2 DEF EvaluateSpecific, SwitchTo, EgressInv, GatewayIsUsable
  <2>3. CASE EvaluateDirect
    BY <2>1, <2>3 DEF EvaluateDirect, EgressInv, GatewayIsUsable
  <2>4. CASE EvaluateAuto
    <3>1. CASE Viable = {} /\ active' = Direct
      BY <2>1, <2>4, <3>1 DEF EvaluateAuto, EgressInv, GatewayIsUsable
    <3>2. ASSUME NEW g \in Gateways, IsBest(g), active' = g PROVE EgressInv'
      BY <2>1, <2>4, <3>2 DEF EvaluateAuto, IsBest, EgressInv, GatewayIsUsable
    <3>3. ASSUME NEW g \in Gateways, Clings(g), UNCHANGED <<active, lastSwitch>> PROVE EgressInv'
      BY <2>1, <2>4, <3>3 DEF EvaluateAuto, Clings, EgressInv, GatewayIsUsable
    <3> QED BY <2>4, <3>1, <3>2, <3>3 DEF EvaluateAuto, SwitchTo
  <2> QED BY <1>3, <2>2, <2>3, <2>4 DEF EvaluatePeers
<1>4. CASE PolicyNext
  BY <1>1, <1>4 DEF PolicyNext, SetAllowEgress, SetAllowAnyPeer, AuthorizeDID, RevokeDID, SetPolicy
<1>5. CASE EgressNext /\ ~EvaluatePeers
  <2>1. evaluated' = FALSE
    BY <1>5 DEF EgressNext, Sicken, Heal, SetCapability, RemoveCapability, Measure, Unseen, SetMode,
                EgressTick
  <2>2. mode' \in {"auto", "specific", "direct"}
    BY <1>5 DEF EgressNext, Sicken, Heal, SetCapability, RemoveCapability, Measure, Unseen, SetMode,
                EgressTick, egressChoice, EgressInv
  <2> QED BY <1>2, <2>1, <2>2
<1> QED BY <1>1, <1>3, <1>4, <1>5 DEF egressVars

LEMMA EgressInvHolds == ServicesSpec => []EgressInv
<1>1. ServicesInit => EgressInv
  BY DEF ServicesInit, EgressInit, EgressInv, GatewayIsUsable
<1>2. EgressInv /\ [ServicesNext]_servicesVars => EgressInv'
  BY EgressStep, EveryStepIsOfAService
<1> HIDE DEF EgressInv
<1> QED BY <1>1, <1>2, PTL DEF ServicesSpec

-----------------------------------------------------------------------------
\* An entry is good for no longer than CacheTTL after the time at which it was right, although the
\* clock was read before the answer came; what is under way has read a time that has been.
EntryHolds(e) == e.right \in Times /\ e.expires \in Nat /\ e.expires <= e.right + CacheTTL

LookupHolds(x, now) ==
    \/ x.at = "idle"
    \/ x.at \in {"begun", "asking"} /\ x.now \in Nat /\ x.now <= now
    \/ /\ x.at = "answered" /\ x.now \in Nat /\ x.right \in Nat
       /\ x.now <= x.right /\ x.right <= now
    \/ /\ x.at = "ended" /\ x.now \in Nat /\ x.right \in Nat
       /\ x.now - x.right < CacheTTL

DNSInv ==
    /\ dnsClock \in Times
    /\ \A h \in DOMAIN dnsCache : EntryHolds(dnsCache[h])
    /\ lookup \in [Resolvers -> {NoLookup} \cup Lookups]
    /\ \A g \in Resolvers : LookupHolds(lookup[g], dnsClock)

LEMMA LookupParts ==
    /\ NoLookup.at = "idle"
    /\ \A x \in Lookups : x.at # "idle" /\ x.now \in Times
    /\ \A x \in Lookups : x.at \in {"begun", "asking"} =>
          /\ x.host \in HostNames
          /\ [x EXCEPT !.at = "asking"] \in Lookups
          /\ [x EXCEPT !.at = "asking"].at = "asking"
          /\ [x EXCEPT !.at = "asking"].now = x.now
    /\ \A x \in Lookups : x.at = "answered" => x.host \in HostNames /\ x.right \in Times
    /\ \A h \in HostNames, t \in Times : [at |-> "begun", host |-> h, now |-> t] \in Lookups
    /\ \A h \in HostNames, t \in Times, r \in Times :
          [at |-> "answered", host |-> h, now |-> t, right |-> r] \in Lookups
    /\ Times \subseteq Nat /\ CacheTTL \in Nat /\ CacheTTL > 0
  BY DNSAssumption DEF Lookups, NoLookup, Times, DNSAssumption

\* A lookup that goes on well leaves the others as they are.
LEMMA OneLookupMoves ==
    ASSUME DNSInv, NEW g \in Resolvers, NEW x \in {NoLookup} \cup Lookups,
           lookup' = [lookup EXCEPT ![g] = x], LookupHolds(x, dnsClock), dnsClock' = dnsClock,
           \A h \in DOMAIN dnsCache' : EntryHolds(dnsCache'[h])
    PROVE  DNSInv'
<1>1. /\ lookup' \in [Resolvers -> {NoLookup} \cup Lookups]
      /\ \A e \in Resolvers : lookup'[e] = IF e = g THEN x ELSE lookup[e]
  BY DEF DNSInv
<1>2. \A e \in Resolvers : LookupHolds(lookup'[e], dnsClock)
  BY <1>1 DEF DNSInv
<1> QED BY <1>1, <1>2 DEF DNSInv

LEMMA DNSStep == DNSInv /\ [DNSNext]_dnsVars => DNSInv'
<1> SUFFICES ASSUME DNSInv, [DNSNext]_dnsVars PROVE DNSInv'
  OBVIOUS
<1> USE LookupParts
<1>0. /\ dnsClock \in Times /\ \A h \in DOMAIN dnsCache : EntryHolds(dnsCache[h])
      /\ \A g \in Resolvers : lookup[g] \in {NoLookup} \cup Lookups /\ LookupHolds(lookup[g], dnsClock)
      /\ LookupHolds(NoLookup, dnsClock)
  BY DEF DNSInv, LookupHolds
<1>1. CASE UNCHANGED dnsVars
  BY <1>1 DEF dnsVars, DNSInv
<1>2. ASSUME NEW g \in Resolvers, NEW h \in HostNames, BeginLookup(g, h) PROVE DNSInv'
  <2> DEFINE x == [at |-> "begun", host |-> h, now |-> dnsClock]
  <2>1. LookupHolds(x, dnsClock)
    BY <1>0 DEF LookupHolds
  <2>2. x \in Lookups
    BY <1>0
  <2>3. lookup' = [lookup EXCEPT ![g] = x] /\ UNCHANGED <<dnsCache, dnsClock>>
    BY <1>2 DEF BeginLookup
  <2> HIDE DEF x
  <2> QED BY <1>0, <2>1, <2>2, <2>3, OneLookupMoves
<1>3. ASSUME NEW g \in Resolvers, LookInCache(g) PROVE DNSInv'
  <2>1. lookup[g] \in Lookups /\ lookup[g].at = "begun" /\ lookup[g].now <= dnsClock
        /\ lookup[g].now \in Nat
    BY <1>0, <1>3 DEF LookInCache, LookupHolds
  <2>2. CASE Cached(g)
    <3> DEFINE e == dnsCache[lookup[g].host]
               x == Outcome(g, e.right)
    <3>1. EntryHolds(e) /\ lookup[g].now < e.expires
      BY <1>0, <2>2 DEF Cached
    <3>2. x = [at |-> "ended", now |-> lookup[g].now, right |-> e.right]
      BY DEF Outcome
    <3> HIDE DEF e
    <3>3. x \in Lookups
      BY <2>1, <3>1, <3>2 DEF Lookups, EntryHolds
    <3>4. LookupHolds(x, dnsClock)
      BY <2>1, <3>1, <3>2 DEF LookupHolds, EntryHolds
    <3>5. lookup' = [lookup EXCEPT ![g] = x] /\ UNCHANGED <<dnsCache, dnsClock>>
      BY <1>3, <2>2 DEF LookInCache, e
    <3> HIDE DEF x
    <3> QED BY <1>0, <3>3, <3>4, <3>5, OneLookupMoves
  <2>3. CASE ~Cached(g)
    <3>1. PICK x : x = [lookup[g] EXCEPT !.at = "asking"]
      OBVIOUS
    <3>2. x \in Lookups /\ x.at = "asking" /\ x.now = lookup[g].now
      BY <2>1, <3>1
    <3>3. LookupHolds(x, dnsClock)
      BY <2>1, <3>2 DEF LookupHolds
    <3>4. lookup' = [lookup EXCEPT ![g] = x] /\ UNCHANGED <<dnsCache, dnsClock>>
      BY <1>3, <2>3, <3>1 DEF LookInCache
    <3> QED BY <1>0, <3>2, <3>3, <3>4, OneLookupMoves
  <2> QED BY <2>2, <2>3
<1>4. ASSUME NEW g \in Resolvers, AnswerLookup(g) PROVE DNSInv'
  <2>1. lookup[g] \in Lookups /\ lookup[g].at = "asking" /\ lookup[g].now <= dnsClock
        /\ lookup[g].now \in Nat
    BY <1>0, <1>4 DEF AnswerLookup, LookupHolds
  <2> DEFINE x == [at |-> "answered", host |-> lookup[g].host, now |-> lookup[g].now,
                   right |-> dnsClock]
  <2>2. x \in Lookups
    BY <1>0, <2>1
  <2>3. LookupHolds(x, dnsClock)
    BY <1>0, <2>1 DEF LookupHolds
  <2>4. lookup' = [lookup EXCEPT ![g] = x] /\ UNCHANGED <<dnsCache, dnsClock>>
    BY <1>4 DEF AnswerLookup
  <2> HIDE DEF x
  <2> QED BY <1>0, <2>2, <2>3, <2>4, OneLookupMoves
<1>5. ASSUME NEW g \in Resolvers, FailLookup(g) \/ ReturnAddress(g) PROVE DNSInv'
  <2>1. lookup' = [lookup EXCEPT ![g] = NoLookup] /\ UNCHANGED <<dnsCache, dnsClock>>
    BY <1>5 DEF FailLookup, ReturnAddress
  <2> QED BY <1>0, <2>1, OneLookupMoves
<1>6. ASSUME NEW g \in Resolvers, StoreAnswer(g) PROVE DNSInv'
  <2>1. /\ lookup[g] \in Lookups /\ lookup[g].at = "answered"
        /\ lookup[g].now \in Nat /\ lookup[g].right \in Nat
        /\ lookup[g].now <= lookup[g].right /\ lookup[g].right <= dnsClock
        /\ lookup[g].now \in Times /\ lookup[g].right \in Times
    BY <1>0, <1>6 DEF StoreAnswer, LookupHolds
  <2> DEFINE x == Outcome(g, lookup[g].right)
             e == [right |-> lookup[g].right, expires |-> lookup[g].now + CacheTTL]
  <2>2. x = [at |-> "ended", now |-> lookup[g].now, right |-> lookup[g].right]
    BY DEF Outcome
  <2>3. x \in Lookups
    BY <2>1, <2>2 DEF Lookups
  <2>4. LookupHolds(x, dnsClock)
    BY <2>1, <2>2 DEF LookupHolds
  <2>5. EntryHolds(e)
    BY <2>1 DEF EntryHolds
  <2>6. lookup' = [lookup EXCEPT ![g] = x] /\ dnsClock' = dnsClock
    BY <1>6 DEF StoreAnswer
  <2> HIDE DEF x
  <2>7. PICK kept \in SUBSET DOMAIN dnsCache :
           dnsCache' = [h \in kept \cup {lookup[g].host} |->
                          IF h = lookup[g].host THEN e ELSE dnsCache[h]]
    BY <1>6 DEF StoreAnswer
  <2> HIDE DEF e
  <2>8. \A h \in DOMAIN dnsCache' : EntryHolds(dnsCache'[h])
    BY <1>0, <2>5, <2>7
  <2> QED BY <1>0, <2>3, <2>4, <2>6, <2>8, OneLookupMoves
<1>7. CASE ClearCache
  <2>1. DOMAIN dnsCache' = {} /\ UNCHANGED <<lookup, dnsClock>>
    BY <1>7 DEF ClearCache
  <2> QED BY <2>1 DEF DNSInv
<1>8. CASE DNSTick
  <2>1. dnsClock' = dnsClock + 1 /\ dnsClock' \in Times /\ UNCHANGED <<dnsCache, lookup>>
    BY <1>0, <1>8, DNSAssumption DEF DNSTick, Times, DNSAssumption
  <2>2. dnsClock \in Nat /\ \A x \in Lookups : x.at = "answered" => x.right \in Nat
    BY <1>0
  <2>3. \A g \in Resolvers : LookupHolds(lookup[g], dnsClock')
    BY <1>0, <2>1, <2>2 DEF LookupHolds
  <2> QED BY <1>0, <2>1, <2>3 DEF DNSInv
<1> QED BY <1>1, <1>2, <1>3, <1>4, <1>5, <1>6, <1>7, <1>8 DEF DNSNext

LEMMA DNSInvHolds == ServicesSpec => []DNSInv
<1>1. ServicesInit => DNSInv
  <2> SUFFICES ASSUME ServicesInit PROVE DNSInv
    OBVIOUS
  <2>1. DOMAIN dnsCache = {} /\ dnsClock = 0 /\ lookup = [g \in Resolvers |-> NoLookup]
    BY DEF ServicesInit, DNSInit
  <2>2. 0 \in Times
    BY DNSAssumption DEF DNSAssumption, Times
  <2>3. LookupHolds(NoLookup, 0)
    BY LookupParts DEF LookupHolds
  <2> QED BY <2>1, <2>2, <2>3 DEF DNSInv
<1>2. DNSInv /\ [ServicesNext]_servicesVars => DNSInv'
  BY DNSStep, EveryStepIsOfAService
<1> HIDE DEF DNSInv
<1> QED BY <1>1, <1>2, PTL DEF ServicesSpec

-----------------------------------------------------------------------------
\* Who connects is between "connecting" and the end of it, and who disconnects likewise; whoever is
\* alone is the only one under way, and finds the setting as it left it.
Connecting == {"enable", "watch", "enabled", "failed"}
Disconnecting == {"disable", "disabled"}
AtRest(r) == request[r].at = "none"

PanelInv ==
    /\ vpnState \in {"connected", "connecting", "disconnected", "disconnecting"}
    /\ request \in [Requests -> [alone : BOOLEAN,
          at : {"none", "connect", "exit", "clear", "tell", "leave", "disconnect"}
               \cup Connecting \cup Disconnecting]]
    /\ vpnState = "connecting" => \E r \in Requests : request[r].at \in Connecting
    /\ vpnState = "disconnecting" => \E r \in Requests : request[r].at \in Disconnecting
    /\ \A r \in Requests : request[r].alone /\ ~AtRest(r)
          => /\ \A q \in Requests : q # r => AtRest(q)
             /\ ~gone /\ request[r].at \in {"watch", "enabled"} => setting
             /\ request[r].at = "clear" => vpnState = "disconnected"
    /\ PanelSettles

\* A step of a request.
LEMMA OneGoesOn ==
    ASSUME PanelInv, NEW r \in Requests, NEW from, NEW to, Goes(r, from, to)
    PROVE  /\ request[r].at = from /\ request'[r].at = to
           /\ request'[r].alone = request[r].alone /\ request[r].alone \in BOOLEAN
           /\ \A q \in Requests : q # r => request'[q] = request[q]
           /\ ~gone /\ ~gone' /\ certain' = certain
           /\ request' \in [Requests -> [alone : BOOLEAN,
                 at : {"none", "connect", "exit", "clear", "tell", "leave", "disconnect"}
                      \cup Connecting \cup Disconnecting \cup {to}]]
  BY DEF Goes, PanelInv

LEMMA OneEnds ==
    ASSUME PanelInv, NEW r \in Requests, NEW from, Ends(r, from)
    PROVE  /\ request[r].at = from /\ request'[r].at = "none"
           /\ \A q \in Requests : q # r => request'[q] = request[q]
           /\ ~gone /\ ~gone' /\ certain' = request[r].alone /\ request[r].alone \in BOOLEAN
           /\ request' \in [Requests -> [alone : BOOLEAN,
                 at : {"none", "connect", "exit", "clear", "tell", "leave", "disconnect"}
                      \cup Connecting \cup Disconnecting]]
  BY DEF Ends, NoRequest, PanelInv

Steps == {"none", "connect", "exit", "clear", "tell", "leave", "disconnect"}
         \cup Connecting \cup Disconnecting
Shown == {"connected", "connecting", "disconnected", "disconnecting"}

\* What a request that goes on must leave true.
LEMMA GoingOn ==
    ASSUME PanelInv, NEW r \in Requests, NEW from \in Steps, NEW to \in Steps, Goes(r, from, to),
           from # "none", to # "none", vpnState' \in Shown,
           vpnState' = "connecting" =>
              to \in Connecting \/ (vpnState = "connecting" /\ from \notin Connecting),
           vpnState' = "disconnecting" =>
              to \in Disconnecting \/ (vpnState = "disconnecting" /\ from \notin Disconnecting),
           request[r].alone => /\ to \in {"watch", "enabled"} => setting'
                               /\ to = "clear" => vpnState' = "disconnected"
    PROVE  PanelInv'
<1>1. /\ request[r].at = from /\ request'[r].at = to
      /\ request'[r].alone = request[r].alone
      /\ \A q \in Requests : q # r => request'[q] = request[q]
      /\ ~gone /\ ~gone'
  BY OneGoesOn
<1>2. request' \in [Requests -> [alone : BOOLEAN, at : Steps]]
  BY OneGoesOn DEF Steps
<1>3. vpnState' = "connecting" => \E q \in Requests : request'[q].at \in Connecting
  <2> SUFFICES ASSUME vpnState' = "connecting" PROVE \E q \in Requests : request'[q].at \in Connecting
    OBVIOUS
  <2>1. CASE to \in Connecting
    BY <1>1, <2>1
  <2>2. CASE vpnState = "connecting" /\ from \notin Connecting
    <3>1. PICK q \in Requests : request[q].at \in Connecting
      BY <2>2 DEF PanelInv
    <3> QED BY <1>1, <2>2, <3>1
  <2> QED BY <2>1, <2>2
<1>4. vpnState' = "disconnecting" => \E q \in Requests : request'[q].at \in Disconnecting
  <2> SUFFICES ASSUME vpnState' = "disconnecting"
               PROVE  \E q \in Requests : request'[q].at \in Disconnecting
    OBVIOUS
  <2>1. CASE to \in Disconnecting
    BY <1>1, <2>1
  <2>2. CASE vpnState = "disconnecting" /\ from \notin Disconnecting
    <3>1. PICK q \in Requests : request[q].at \in Disconnecting
      BY <2>2 DEF PanelInv
    <3> QED BY <1>1, <2>2, <3>1
  <2> QED BY <2>1, <2>2
<1>5. ASSUME NEW p \in Requests, request'[p].alone, request'[p].at # "none"
      PROVE  /\ \A q \in Requests : q # p => request'[q].at = "none"
             /\ request'[p].at \in {"watch", "enabled"} => setting'
             /\ request'[p].at = "clear" => vpnState' = "disconnected"
  <2>1. p = r
    BY <1>1, <1>5 DEF PanelInv, AtRest
  <2>2. \A q \in Requests : q # r => request[q].at = "none"
    BY <1>1, <1>5, <2>1 DEF PanelInv, AtRest
  <2> QED BY <1>1, <1>5, <2>1, <2>2
<1>6. PanelSettles'
  BY <1>1 DEF PanelSettles
<1> QED BY <1>2, <1>3, <1>4, <1>5, <1>6 DEF PanelInv, AtRest, Steps, Shown

\* What a request that ends must leave true.
LEMMA Ending ==
    ASSUME PanelInv, NEW r \in Requests, NEW from \in Steps, Ends(r, from), from # "none",
           vpnState' \in Shown,
           vpnState' = "connecting" => vpnState = "connecting" /\ from \notin Connecting,
           vpnState' = "disconnecting" => vpnState = "disconnecting" /\ from \notin Disconnecting,
           request[r].alone /\ vpnState' = "connected" => setting'
    PROVE  PanelInv'
<1>1. /\ request[r].at = from /\ request'[r].at = "none"
      /\ \A q \in Requests : q # r => request'[q] = request[q]
      /\ ~gone /\ ~gone' /\ certain' = request[r].alone
  BY OneEnds
<1>2. request' \in [Requests -> [alone : BOOLEAN, at : Steps]]
  BY OneEnds DEF Steps
<1>3. vpnState' = "connecting" => \E q \in Requests : request'[q].at \in Connecting
  <2> SUFFICES ASSUME vpnState' = "connecting" PROVE \E q \in Requests : request'[q].at \in Connecting
    OBVIOUS
  <2>1. PICK q \in Requests : request[q].at \in Connecting
    BY DEF PanelInv
  <2> QED BY <1>1, <2>1
<1>4. vpnState' = "disconnecting" => \E q \in Requests : request'[q].at \in Disconnecting
  <2> SUFFICES ASSUME vpnState' = "disconnecting"
               PROVE  \E q \in Requests : request'[q].at \in Disconnecting
    OBVIOUS
  <2>1. PICK q \in Requests : request[q].at \in Disconnecting
    BY DEF PanelInv
  <2> QED BY <1>1, <2>1
<1>5. ASSUME NEW p \in Requests, request'[p].alone, request'[p].at # "none" PROVE FALSE
  <2>1. p # r
    BY <1>1, <1>5
  <2> QED BY <1>1, <1>5, <2>1 DEF PanelInv, AtRest
<1>6. PanelSettles'
  <2> SUFFICES ASSUME \A q \in Requests : request'[q].at = "none"
               PROVE  /\ vpnState' \in {"connected", "disconnected"}
                      /\ certain' /\ vpnState' = "connected" => setting'
    BY DEF PanelSettles
  <2>1. vpnState' \notin {"connecting", "disconnecting"}
    BY <1>3, <1>4 DEF Connecting, Disconnecting
  <2> QED BY <1>1, <2>1 DEF Shown
<1> QED BY <1>2, <1>3, <1>4, <1>5, <1>6 DEF PanelInv, AtRest, Steps, Shown

LEMMA PanelStep == PanelInv /\ [PanelNext]_panelVars => PanelInv'
<1> SUFFICES ASSUME PanelInv, [PanelNext]_panelVars PROVE PanelInv'
  OBVIOUS
<1>0. /\ vpnState \in Shown
      /\ \A r \in Requests : request[r].alone /\ ~AtRest(r)
          => /\ ~gone /\ request[r].at \in {"watch", "enabled"} => setting
             /\ request[r].at = "clear" => vpnState = "disconnected"
  BY DEF PanelInv, Shown
<1>1. CASE UNCHANGED <<vpnState, setting, gone, request, certain>>
  BY <1>1 DEF PanelInv, PanelSettles, AtRest
<1>2. CASE gone' /\ UNCHANGED <<vpnState, request>>
  BY <1>2 DEF PanelInv, PanelSettles, AtRest
<1>3. ASSUME NEW r \in Requests, NEW at \in {"connect", "disconnect", "exit"}, Begin(r, at)
      PROVE  PanelInv'
  <2>1. /\ request[r].at = "none"
        /\ request' = [q \in Requests |->
             IF q = r THEN [at |-> at, alone |-> \A p \in Requests : request[p].at = "none"]
             ELSE [request[q] EXCEPT !.alone = request[q].at = "none"]]
        /\ UNCHANGED <<vpnState, setting, gone, certain>>
    BY <1>3 DEF Begin
  <2>2. request' \in [Requests -> [alone : BOOLEAN, at : Steps]]
    BY <2>1 DEF PanelInv, Steps
  <2>3. \A q \in Requests : request'[q].at = IF q = r THEN at ELSE request[q].at
    BY <2>1 DEF PanelInv
  <2>4. ASSUME NEW q \in Requests, request'[q].alone, request'[q].at # "none"
        PROVE  q = r /\ \A p \in Requests : request[p].at = "none"
    BY <2>1, <2>4 DEF PanelInv
  <2>5. PanelSettles'
    BY <2>3 DEF PanelSettles
  <2>6. /\ vpnState' = "connecting" => \E q \in Requests : request'[q].at \in Connecting
        /\ vpnState' = "disconnecting" => \E q \in Requests : request'[q].at \in Disconnecting
    BY <2>1, <2>3 DEF PanelInv, Connecting, Disconnecting
  <2> QED BY <1>0, <2>1, <2>2, <2>3, <2>4, <2>5, <2>6 DEF PanelInv, AtRest, Steps, Shown
<1>4. ASSUME NEW r \in Requests, Cycle(r) \/ \E what \in {"connect", "disconnect", "exit"} : Ask(r, what)
      PROVE  PanelInv'
  BY <1>3, <1>4 DEF Cycle, Ask
<1>5. ASSUME NEW r \in Requests, Execute(r) PROVE PanelInv'
  <2> USE DEF Steps, Shown, Connecting, Disconnecting
  <2>1. CASE StartConnect(r)
    BY <2>1, GoingOn DEF StartConnect
  <2>2. CASE Enable(r)
    BY <1>0, <2>2, GoingOn DEF Enable
  <2>3. CASE StartWatchdog(r)
    <3>1. request[r].at = "watch" /\ ~gone /\ Goes(r, "watch", "enabled") /\ UNCHANGED <<vpnState, setting>>
      BY <2>3, OneGoesOn DEF StartWatchdog
    <3> QED BY <1>0, <3>1, GoingOn DEF AtRest
  <2>4. CASE EndConnect(r)
    <3>1. request[r].at = "enabled" /\ ~gone /\ Ends(r, "enabled")
          /\ vpnState' = "connected" /\ setting' = setting
      BY <2>4, OneEnds DEF EndConnect
    <3> QED BY <1>0, <3>1, Ending DEF AtRest
  <2>5. CASE Fail(r)
    BY <2>5, Ending DEF Fail
  <2>6. CASE StartDisconnect(r)
    BY <2>6, GoingOn DEF StartDisconnect
  <2>7. CASE Disable(r)
    <3>1. Goes(r, "disable", "disabled") /\ vpnState' = vpnState
      BY <2>7 DEF Disable
    <3> QED BY <1>0, <3>1, GoingOn
  <2>8. CASE TellDisconnected(r)
    BY <2>8, GoingOn DEF TellDisconnected
  <2>9. CASE Clear(r)
    <3>1. request[r].at = "clear" /\ Ends(r, "clear") /\ vpnState' = vpnState
      BY <2>9, OneEnds DEF Clear
    <3> QED BY <1>0, <3>1, Ending DEF AtRest
  <2>10. CASE ClearToExit(r)
    <3>1. Goes(r, "exit", "tell") /\ vpnState' = vpnState
      BY <2>10 DEF ClearToExit
    <3> QED BY <1>0, <3>1, GoingOn
  <2>11. CASE TellExit(r)
    BY <2>11, GoingOn DEF TellExit
  <2>12. CASE ExitProcess(r)
    BY <1>2, <2>12 DEF ExitProcess
  <2> QED BY <1>5, <2>1, <2>2, <2>3, <2>4, <2>5, <2>6, <2>7, <2>8, <2>9, <2>10, <2>11, <2>12 DEF Execute
<1> QED BY <1>1, <1>2, <1>4, <1>5 DEF PanelNext, panelVars, Kill, Restore

LEMMA PanelInvHolds == ServicesSpec => []PanelInv
<1>1. ServicesInit => PanelInv
  <2> SUFFICES ASSUME ServicesInit PROVE PanelInv
    OBVIOUS
  <2>1. /\ vpnState \in {"connected", "disconnected"} /\ certain = FALSE
        /\ request = [r \in Requests |-> NoRequest]
    BY DEF ServicesInit, PanelInit
  <2>2. /\ \A r \in Requests : request[r].at = "none"
        /\ request \in [Requests -> [alone : BOOLEAN, at : Steps]]
    BY <2>1 DEF NoRequest, Steps
  <2> QED BY <2>1, <2>2 DEF PanelInv, PanelSettles, AtRest, Steps
<1>2. PanelInv /\ [ServicesNext]_servicesVars => PanelInv'
  BY PanelStep, EveryStepIsOfAService
<1> HIDE DEF PanelInv
<1> QED BY <1>1, <1>2, PTL DEF ServicesSpec

-----------------------------------------------------------------------------
LEMMA TwoPunchers ==
    \A n \in Punchers :
       /\ Facing(n) \in Punchers /\ Facing(n) # n /\ Punchers = {n, Facing(n)}
       /\ \A m \in Punchers : m = n \/ m = Facing(n)
       /\ Facing(Facing(n)) = n
<1>1. IsFiniteSet(Punchers) /\ Cardinality(Punchers) = 2
  BY PunchAssumption DEF PunchAssumption
<1>2. ASSUME NEW n \in Punchers PROVE \E m \in Punchers : m # n /\ Punchers = {n, m}
  <2>1. IsFiniteSet(Punchers \ {n}) /\ Cardinality(Punchers \ {n}) = 1
    BY <1>1, FS_RemoveElement
  <2>2. PICK m : Punchers \ {n} = {m}
    BY <2>1, FS_Singleton
  <2> QED BY <2>2
<1>3. ASSUME NEW n \in Punchers PROVE Facing(n) \in Punchers /\ Facing(n) # n
  BY <1>2 DEF Facing
<1> QED BY <1>2, <1>3

\* A probe is on its way from the owner of its punch, an answer to the owner has been earned by a
\* probe that arrived, and only such an answer fills the channel of a punch.
MessageHolds(m, p, through, h) ==
    /\ m.to \in Punchers /\ m.op \in {"probe", "ack"} /\ m.session \in DOMAIN p
    /\ m.op = "probe" => m.to = Facing(p[m.session].owner) /\ p[m.session].owner \in through
    /\ m.op = "ack" /\ m.to = p[m.session].owner => m.session \in h

PunchTypes ==
    /\ \A s \in DOMAIN punch :
          punch[s] \in [owner : Punchers, at : {"open", "won", "lost"}, probes : Nat]
    /\ \E k \in Nat : DOMAIN punch = 1 .. k
    /\ DOMAIN doneChan \subseteq DOMAIN punch
    /\ \A s \in DOMAIN punch : punch[s].at = "open" => s \in DOMAIN doneChan

NatInv ==
    /\ PunchTypes
    /\ pierced \subseteq Punchers /\ heard \subseteq DOMAIN punch
    /\ heard # {} => pierced = Punchers
    /\ \A s \in DOMAIN doneChan : doneChan[s] => s \in heard
    /\ \A m \in air : MessageHolds(m, punch, pierced, heard)
    /\ \A s \in DOMAIN punch : punch[s].at = "won" => s \in heard

\* The number of a new punch is new.
LEMMA NewNumber ==
    ASSUME PunchTypes PROVE /\ Cardinality(DOMAIN punch) + 1 \notin DOMAIN punch
                            /\ \E k \in Nat : DOMAIN punch \cup {Cardinality(DOMAIN punch) + 1} = 1 .. k
<1>1. PICK k \in Nat : DOMAIN punch = 1 .. k
  BY DEF PunchTypes
<1>2. Cardinality(1 .. k) = k
  BY FS_Interval
<1>3. k + 1 \notin 1 .. k /\ (1 .. k) \cup {k + 1} = 1 .. k + 1
  OBVIOUS
<1> QED BY <1>1, <1>2, <1>3

LEMMA AStateOfAPunch ==
    ASSUME PunchTypes, NEW s \in DOMAIN punch, NEW how \in {"won", "lost"}
    PROVE  LET p == [punch EXCEPT ![s].at = how]
           IN  /\ DOMAIN p = DOMAIN punch /\ p[s].at = how
               /\ \A t \in DOMAIN punch :
                     p[t] \in [owner : Punchers, at : {"open", "won", "lost"}, probes : Nat]
               /\ \A t \in DOMAIN punch : p[t].owner = punch[t].owner
               /\ \A t \in DOMAIN punch : t # s => p[t] = punch[t]
  BY DEF PunchTypes

LEMMA PunchEnds ==
    ASSUME NatInv, NEW s \in DOMAIN punch, NEW how \in {"won", "lost"}, EndPunch(s, how),
           pierced' \subseteq Punchers, pierced \subseteq pierced',
           how = "won" => s \in heard,
           \A m \in air' : MessageHolds(m, punch, pierced', heard)
    PROVE  NatInv'
<1>1. /\ punch' = [punch EXCEPT ![s].at = how] /\ heard' = heard
      /\ doneChan' = [x \in DOMAIN doneChan \ {s} |-> doneChan[x]]
  BY DEF EndPunch, Restrict
<1>2. PunchTypes
  BY DEF NatInv
<1>3. /\ DOMAIN punch' = DOMAIN punch /\ punch'[s].at = how
      /\ \A t \in DOMAIN punch :
            punch'[t] \in [owner : Punchers, at : {"open", "won", "lost"}, probes : Nat]
      /\ \A t \in DOMAIN punch : punch'[t].owner = punch[t].owner
      /\ \A t \in DOMAIN punch : t # s => punch'[t] = punch[t]
  BY <1>1, <1>2, AStateOfAPunch
<1>4. DOMAIN doneChan' = DOMAIN doneChan \ {s}
      /\ \A x \in DOMAIN doneChan' : doneChan'[x] = doneChan[x]
  BY <1>1
<1>5. PunchTypes'
  <2>1. \A t \in DOMAIN punch' : punch'[t].at = "open" => t \in DOMAIN doneChan'
    BY <1>2, <1>3, <1>4 DEF PunchTypes
  <2> QED BY <1>2, <1>3, <1>4, <2>1 DEF PunchTypes
<1>6. \A m \in air' : MessageHolds(m, punch', pierced', heard')
  BY <1>1, <1>3 DEF MessageHolds
<1>7. heard' # {} => pierced' = Punchers
  BY <1>1 DEF NatInv
<1>8. \A t \in DOMAIN punch' : punch'[t].at = "won" => t \in heard'
  BY <1>1, <1>3 DEF NatInv
<1> QED BY <1>1, <1>3, <1>4, <1>5, <1>6, <1>7, <1>8 DEF NatInv

LEMMA NatStep == NatInv /\ [NatNext]_natVars => NatInv'
<1> SUFFICES ASSUME NatInv, [NatNext]_natVars PROVE NatInv'
  OBVIOUS
<1>0. /\ PunchTypes /\ pierced \subseteq Punchers /\ heard \subseteq DOMAIN punch
      /\ \A m \in air : MessageHolds(m, punch, pierced, heard)
      /\ \A s \in DOMAIN punch : punch[s].owner \in Punchers /\ punch[s].probes \in Nat
  BY DEF NatInv, PunchTypes
<1>1. CASE UNCHANGED punchVars
  BY <1>1 DEF punchVars, NatInv, PunchTypes, MessageHolds
<1>2. ASSUME NEW n \in Punchers, BeginPunch(n) PROVE NatInv'
  <2> DEFINE s == Cardinality(DOMAIN punch) + 1
             new == [owner |-> n, at |-> "open", probes |-> 0]
  <2>1. /\ punch' = [t \in DOMAIN punch \cup {s} |-> IF t = s THEN new ELSE punch[t]]
        /\ doneChan' = [t \in DOMAIN doneChan \cup {s} |-> IF t = s THEN FALSE ELSE doneChan[t]]
        /\ UNCHANGED <<air, pierced, heard>>
    BY <1>2 DEF BeginPunch
  <2>2. s \notin DOMAIN punch /\ \E k \in Nat : DOMAIN punch \cup {s} = 1 .. k
    BY <1>0, NewNumber
  <2>3. new \in [owner : Punchers, at : {"open", "won", "lost"}, probes : Nat] /\ new.at = "open"
    OBVIOUS
  <2> HIDE DEF s, new
  <2>4. /\ DOMAIN punch' = DOMAIN punch \cup {s} /\ punch'[s] = new
        /\ \A t \in DOMAIN punch : punch'[t] = punch[t]
        /\ DOMAIN doneChan' = DOMAIN doneChan \cup {s}
    BY <2>1, <2>2
  <2>5. PunchTypes'
    <3>1. \A t \in DOMAIN punch' :
             /\ punch'[t] \in [owner : Punchers, at : {"open", "won", "lost"}, probes : Nat]
             /\ punch'[t].at = "open" => t \in DOMAIN doneChan'
      BY <1>0, <2>3, <2>4 DEF PunchTypes
    <3> QED BY <1>0, <2>2, <2>4, <3>1 DEF PunchTypes
  <2>6. \A t \in DOMAIN doneChan' : doneChan'[t] => t \in heard'
    BY <2>1 DEF NatInv
  <2>7. \A m \in air' : MessageHolds(m, punch', pierced', heard')
    BY <1>0, <2>1, <2>4 DEF MessageHolds
  <2>8. \A t \in DOMAIN punch' : punch'[t].at = "won" => t \in heard'
    BY <2>1, <2>3, <2>4 DEF NatInv
  <2> QED BY <2>1, <2>4, <2>5, <2>6, <2>7, <2>8 DEF NatInv
<1>3. ASSUME NEW s \in DOMAIN punch, Probe(s) PROVE NatInv'
  <2> DEFINE n == punch[s].owner
             msg == [to |-> Facing(n), op |-> "probe", session |-> s]
  <2>1. /\ punch' = [punch EXCEPT ![s].probes = @ + 1]
        /\ air' = air \cup {msg} /\ pierced' = pierced \cup {n} /\ UNCHANGED <<doneChan, heard>>
    BY <1>3 DEF Probe, Emit
  <2>2. /\ DOMAIN punch' = DOMAIN punch
        /\ \A t \in DOMAIN punch :
              /\ punch'[t].owner = punch[t].owner /\ punch'[t].at = punch[t].at
              /\ punch'[t] \in [owner : Punchers, at : {"open", "won", "lost"}, probes : Nat]
    BY <1>0, <2>1 DEF PunchTypes
  <2>3. PunchTypes'
    BY <1>0, <2>1, <2>2 DEF PunchTypes
  <2>4. MessageHolds(msg, punch', pierced', heard')
    BY <1>0, <2>1, <2>2, TwoPunchers DEF MessageHolds
  <2>5. n \in Punchers
    BY <1>0
  <2> HIDE DEF n, msg
  <2>6. \A m \in air : MessageHolds(m, punch', pierced', heard')
    BY <1>0, <2>1, <2>2 DEF MessageHolds
  <2>7. heard' # {} => pierced' = Punchers
    BY <2>1, <2>5 DEF NatInv
  <2>8. \A t \in DOMAIN punch' : punch'[t].at = "won" => t \in heard'
    BY <2>1, <2>2 DEF NatInv
  <2>9. \A t \in DOMAIN doneChan' : doneChan'[t] => t \in heard'
    BY <2>1 DEF NatInv
  <2> QED BY <1>0, <2>1, <2>2, <2>3, <2>4, <2>5, <2>6, <2>7, <2>8, <2>9 DEF NatInv
<1>4. ASSUME NEW s \in DOMAIN punch, Win(s) PROVE NatInv'
  <2> DEFINE n == punch[s].owner
             msg == [to |-> Facing(n), op |-> "ack", session |-> s]
  <2>1. /\ air' = air \cup {msg} /\ pierced' = pierced \cup {n} /\ EndPunch(s, "won")
        /\ s \in DOMAIN doneChan /\ doneChan[s]
    BY <1>0, <1>4 DEF Win, Emit, PunchTypes
  <2>2. s \in heard /\ n \in Punchers
    BY <1>0, <2>1 DEF NatInv
  <2>3. MessageHolds(msg, punch, pierced', heard)
    BY <2>2, TwoPunchers DEF MessageHolds
  <2> HIDE DEF n, msg
  <2>4. \A m \in air : MessageHolds(m, punch, pierced', heard)
    BY <1>0, <2>1 DEF MessageHolds
  <2> QED BY <1>0, <2>1, <2>2, <2>3, <2>4, PunchEnds
<1>5. ASSUME NEW s \in DOMAIN punch, Lose(s) PROVE NatInv'
  BY <1>0, <1>5, PunchEnds DEF Lose
<1>6. ASSUME NEW m \in air, HandleIncomingPacket(m) PROVE NatInv'
  <2>1. /\ m \in air /\ m.to \in pierced /\ punch' = punch
        /\ MessageHolds(m, punch, pierced, heard)
        /\ doneChan' = [s \in DOMAIN doneChan |->
                           doneChan[s] \/ (s = m.session /\ punch[s].owner = m.to)]
    BY <1>0, <1>6 DEF HandleIncomingPacket, Wakes
  <2>2. PunchTypes'
    BY <1>0, <2>1 DEF PunchTypes
  <2>3. CASE m.op = "probe"
    <3> DEFINE msg == [to |-> Facing(m.to), op |-> "ack", session |-> m.session]
    <3>1. air' = air \cup {msg} /\ pierced' = pierced \cup {m.to} /\ heard' = heard \cup {m.session}
      BY <1>6, <2>3 DEF HandleIncomingPacket, Emit
    <3>2. /\ m.session \in DOMAIN punch /\ m.to = Facing(punch[m.session].owner)
          /\ punch[m.session].owner \in pierced /\ pierced' = pierced
      BY <2>1, <2>3, <3>1 DEF MessageHolds
    <3>3. pierced = Punchers
      <4>1. \A x \in Punchers : x = punch[m.session].owner \/ x = m.to
        BY <1>0, <3>2, TwoPunchers
      <4> QED BY <1>0, <2>1, <3>2, <4>1
    <3>4. MessageHolds(msg, punch', pierced', heard')
      BY <1>0, <2>1, <3>1, <3>2, TwoPunchers DEF MessageHolds
    <3> HIDE DEF msg
    <3>5. \A x \in air : MessageHolds(x, punch', pierced', heard')
      BY <1>0, <2>1, <3>1, <3>2 DEF MessageHolds
    <3>6. \A t \in DOMAIN doneChan' : doneChan'[t] => t \in heard'
      BY <2>1, <3>1 DEF NatInv
    <3> QED BY <1>0, <2>1, <2>2, <3>1, <3>2, <3>3, <3>4, <3>5, <3>6 DEF NatInv
  <2>4. CASE m.op = "ack"
    <3>1. UNCHANGED <<air, pierced, heard>>
      BY <1>6, <2>4 DEF HandleIncomingPacket
    <3>2. \A t \in DOMAIN doneChan' : doneChan'[t] => t \in heard'
      BY <2>1, <2>4, <3>1 DEF NatInv, MessageHolds
    <3> QED BY <1>0, <2>1, <2>2, <3>1, <3>2 DEF NatInv
  <2> QED BY <2>1, <2>3, <2>4 DEF MessageHolds
<1>7. ASSUME NatNext,
             ~ \E n \in Punchers : BeginPunch(n), ~PunchStep, ~ \E m \in air : HandleIncomingPacket(m)
      PROVE  UNCHANGED punchVars
  BY <1>7 DEF NatNext, BeginAttempt, EndAttempt, GiveUpAttempt, AnswerAttempt, RegisterDERPRelay,
              RouteViaDERPRelay
<1> QED BY <1>1, <1>2, <1>3, <1>4, <1>5, <1>6, <1>7 DEF PunchStep, natVars, punchVars

LEMMA NatInvHolds == ServicesSpec => []NatInv
<1>1. ServicesInit => NatInv
  <2> SUFFICES ASSUME ServicesInit PROVE NatInv
    OBVIOUS
  <2>1. /\ DOMAIN punch = {} /\ DOMAIN doneChan = {} /\ air = {} /\ pierced = {} /\ heard = {}
        /\ {} = 1 .. 0
    BY DEF ServicesInit, NatInit
  <2> QED BY <2>1 DEF NatInv, PunchTypes
<1>2. NatInv /\ [ServicesNext]_servicesVars => NatInv'
  BY NatStep, EveryStepIsOfAService
<1> HIDE DEF NatInv
<1> QED BY <1>1, <1>2, PTL DEF ServicesSpec

\* What a node reports of its quorum, its gateway, its punches, the desktop and addresses is so,
\* for any number of peers, punches, requests and resolutions under way.
THEOREM ReportsHold == ServicesSpec => []ReportsAreTrue
<1>1. GuardInv => SafeOnlyAfterStability
  BY DEF GuardInv
<1>2. EgressInv => GatewayIsUsable
  BY DEF EgressInv
<1>3. NatInv => PunchIsMutual
  BY DEF NatInv, PunchIsMutual
<1>4. PanelInv => PanelSettles
  BY DEF PanelInv
<1>5. DNSInv => AddressesAreRecent
  BY DEF DNSInv, LookupHolds, AddressesAreRecent
<1>6. GuardInv /\ EgressInv /\ NatInv /\ PanelInv /\ DNSInv => ReportsAreTrue
  BY <1>1, <1>2, <1>3, <1>4, <1>5 DEF ReportsAreTrue
<1> QED BY <1>6, GuardInvHolds, EgressInvHolds, NatInvHolds, PanelInvHolds, DNSInvHolds, PTL

-----------------------------------------------------------------------------
\* Two sets that differ at most in whether x belongs to them.
LEMMA OneDiffers ==
    ASSUME NEW S, NEW T, NEW x, IsFiniteSet(S), \A y : y # x => (y \in S <=> y \in T)
    PROVE  /\ Cardinality(S) \in Nat /\ Cardinality(T) \in Nat
           /\ (x \in S <=> x \in T) => Cardinality(T) = Cardinality(S)
           /\ x \in S /\ x \notin T => Cardinality(T) = Cardinality(S) - 1
           /\ x \notin S /\ x \in T => Cardinality(T) = Cardinality(S) + 1
<1>1. /\ (x \in S <=> x \in T) => T = S
      /\ x \in S /\ x \notin T => T = S \ {x}
      /\ x \notin S /\ x \in T => T = S \cup {x}
  OBVIOUS
<1>2. Cardinality(S) \in Nat
  BY FS_CardinalityType
<1>3. IsFiniteSet(S \ {x}) /\ IsFiniteSet(S \cup {x})
  BY FS_RemoveElement, FS_AddElement
<1>4. Cardinality(S \ {x}) \in Nat /\ Cardinality(S \cup {x}) \in Nat
  BY <1>3, FS_CardinalityType
<1>5. x \in S => Cardinality(S \ {x}) = Cardinality(S) - 1
  BY FS_RemoveElement
<1>6. x \notin S => Cardinality(S \cup {x}) = Cardinality(S) + 1
  BY FS_AddElement
<1> QED BY <1>1, <1>2, <1>4, <1>5, <1>6

(***************************************************************************)
(* The counters agree.                                                     *)
(***************************************************************************)

\* A call is that of a known goroutine with a time that was read, and has a slot.
SilentInv ==
    /\ ticks \in 0 .. MaxTicks /\ call \in [Calls -> CallRecords]
    /\ SlotsMatchCalls

\* The step of one call: its record, and the slots.
LEMMA CallMoves ==
    ASSUME SilentInv, NEW g \in Calls, NEW c \in CallRecords, call' = [call EXCEPT ![g] = c],
           ticks' = ticks,
           sem' = sem + (IF c = NoCall THEN 0 ELSE 1) - (IF call[g] = NoCall THEN 0 ELSE 1)
    PROVE  SilentInv'
<1> DEFINE under == {q \in Calls : call[q] # NoCall}
<1> DEFINE after == {q \in Calls : call'[q] # NoCall}
<1>1. call \in [Calls -> CallRecords] /\ call' \in [Calls -> CallRecords]
  BY DEF SilentInv
<1>2. call'[g] = c /\ \A q \in Calls : q # g => call'[q] = call[q]
  BY <1>1
<1>3. IsFiniteSet(under)
  BY FS_Subset, SilentAssumption DEF SilentAssumption
<1>4. /\ \A q : q # g => (q \in under <=> q \in after)
      /\ g \in under <=> call[g] # NoCall
      /\ g \in after <=> c # NoCall
  BY <1>2
<1>5. sem = Cardinality(under)
  BY DEF SilentInv, SlotsMatchCalls
<1> HIDE DEF under, after
<1>6. sem' = Cardinality(after)
  BY <1>3, <1>4, <1>5, OneDiffers
<1> USE DEF after
<1> QED BY <1>1, <1>6 DEF SilentInv, SlotsMatchCalls

LEMMA SilentStep == SilentInv /\ [SilentNext]_silentVars => SilentInv'
<1> SUFFICES ASSUME SilentInv, [SilentNext]_silentVars PROVE SilentInv'
  OBVIOUS
<1>0. /\ call \in [Calls -> CallRecords] /\ ticks \in 0 .. MaxTicks /\ MaxTicks \in Nat
      /\ sem \in Nat /\ \A g \in Calls : call[g] # NoCall => sem > 0
  <2>1. PICK under : under = {g \in Calls : call[g] # NoCall}
    OBVIOUS
  <2>2. IsFiniteSet(under) /\ sem = Cardinality(under)
    BY <2>1, FS_Subset, SilentAssumption DEF SilentAssumption, SilentInv, SlotsMatchCalls
  <2>3. sem \in Nat /\ (sem = 0 => under = {})
    BY <2>2, FS_CardinalityType, FS_EmptySet
  <2> QED BY <2>1, <2>3, SilentAssumption DEF SilentAssumption, SilentInv
<1>1. NoCall \in CallRecords
  BY DEF CallRecords
<1>2. \A g \in Calls : call[g] # NoCall =>
         call[g] \in [at : {"slot", "ask", "refill", "stamp", "take", "handle"},
                      peer : Callers, now : 0 .. MaxTicks]
  BY <1>0 DEF CallRecords
<1>3. \A g \in Calls : call[g].at # "idle" => call[g] # NoCall
  BY DEF NoCall
<1>4. ASSUME NEW g \in Calls, NEW d \in Callers, TakeSlot(g, d) PROVE SilentInv'
  <2>1. PICK c : c = [at |-> "slot", peer |-> d, now |-> 0]
    OBVIOUS
  <2>2. c \in CallRecords /\ c # NoCall
    BY <1>0, <2>1 DEF CallRecords, NoCall
  <2>3. /\ call[g] = NoCall /\ sem' = sem + 1 - 0 /\ ticks' = ticks
        /\ call' = [call EXCEPT ![g] = c]
    BY <1>0, <1>4, <2>1 DEF TakeSlot
  <2> QED BY <2>2, <2>3, CallMoves
\* A call that goes on keeps its slot.
<1>5. ASSUME NEW g \in Calls, call[g] # NoCall, sem' = sem, ticks' = ticks,
             NEW at \in {"slot", "ask", "refill", "stamp", "take", "handle"},
             NEW now \in 0 .. MaxTicks,
             \/ call' = [call EXCEPT ![g].at = at, ![g].now = now]
             \/ call' = [call EXCEPT ![g].at = at]
      PROVE  SilentInv'
  <2>1. PICK r \in [at : {"slot", "ask", "refill", "stamp", "take", "handle"},
                    peer : Callers, now : 0 .. MaxTicks] : r = call[g]
    BY <1>2, <1>5
  <2>2. PICK c : /\ c \in {[[r EXCEPT !.at = at] EXCEPT !.now = now], [r EXCEPT !.at = at]}
                 /\ call' = [call EXCEPT ![g] = c]
    BY <1>0, <1>5, <2>1
  <2>3. /\ [[r EXCEPT !.at = at] EXCEPT !.now = now] = [at |-> at, peer |-> r.peer, now |-> now]
        /\ [r EXCEPT !.at = at] = [at |-> at, peer |-> r.peer, now |-> r.now]
    <3>1. r = [at |-> r.at, peer |-> r.peer, now |-> r.now]
      OBVIOUS
    <3>2. PICK a, b, d : r = [at |-> a, peer |-> b, now |-> d] /\ b = r.peer /\ d = r.now
      BY <3>1
    <3>3. PICK q : q = [r EXCEPT !.at = at]
      OBVIOUS
    <3>4. q = [at |-> at, peer |-> b, now |-> d]
      BY <3>2, <3>3
    <3>5. [q EXCEPT !.now = now] = [at |-> at, peer |-> b, now |-> now]
      BY <3>4
    <3> QED BY <3>2, <3>3, <3>4, <3>5
  <2>4. /\ c \in [at : {"slot", "ask", "refill", "stamp", "take", "handle"},
                  peer : Callers, now : 0 .. MaxTicks]
        /\ c.at = at
    BY <2>2, <2>3
  <2>5. c \in CallRecords /\ c # NoCall
    BY <2>4 DEF CallRecords, NoCall
  <2>6. sem' = sem + 1 - 1
    BY <1>0, <1>5
  <2> QED BY <1>5, <2>2, <2>5, <2>6, CallMoves
<1>6. 0 \in 0 .. MaxTicks
  BY <1>0
<1>9. ASSUME NEW g \in Calls, FindPeer(g) PROVE SilentInv'
  <2>1. /\ call[g] # NoCall /\ sem' = sem /\ ticks' = ticks
        /\ call' = [call EXCEPT ![g].at = "ask", ![g].now = ticks]
    BY <1>3, <1>9 DEF FindPeer
  <2> QED BY <1>0, <1>5, <2>1
<1>10. ASSUME NEW g \in Calls, AskRefill(g) PROVE SilentInv'
  <2>1. call[g] # NoCall /\ sem' = sem /\ ticks' = ticks
    BY <1>3, <1>10 DEF AskRefill
  <2>2. PICK at, now : /\ at \in {"refill", "take"} /\ now \in {call[g].now, 0}
                       /\ call' = [call EXCEPT ![g].at = at, ![g].now = now]
    BY <1>0, <1>10 DEF AskRefill
  <2>3. now \in 0 .. MaxTicks
    BY <1>2, <1>6, <2>1, <2>2
  <2> QED BY <1>5, <2>1, <2>2, <2>3
<1>11. ASSUME NEW g \in Calls, Refill(g) PROVE SilentInv'
  BY <1>3, <1>5, <1>6, <1>11 DEF Refill
<1>12. ASSUME NEW g \in Calls, Stamp(g) PROVE SilentInv'
  BY <1>3, <1>5, <1>6, <1>12 DEF Stamp
<1>13. ASSUME NEW g \in Calls, call[g] # NoCall, sem' = sem - 1, ticks' = ticks,
              call' = [call EXCEPT ![g] = NoCall]
       PROVE  SilentInv'
  <2>1. sem' = sem + 0 - 1
    BY <1>0, <1>13
  <2> QED BY <1>1, <1>13, <2>1, CallMoves
<1>14. ASSUME NEW g \in Calls, TakeToken(g) PROVE SilentInv'
  <2>1. call[g] # NoCall /\ ticks' = ticks
    BY <1>3, <1>14 DEF TakeToken
  <2>2. \/ call' = [call EXCEPT ![g].at = "handle"] /\ sem' = sem
        \/ call' = [call EXCEPT ![g] = NoCall] /\ sem' = sem - 1
    BY <1>14 DEF TakeToken
  <2> QED BY <1>5, <1>6, <1>13, <2>1, <2>2
<1>15. ASSUME NEW g \in Calls, Answer(g) PROVE SilentInv'
  BY <1>0, <1>3, <1>13, <1>15 DEF Answer
<1>16. ASSUME UNCHANGED <<sem, call>>, ticks' \in 0 .. MaxTicks PROVE SilentInv'
  BY <1>16 DEF SilentInv, SlotsMatchCalls
<1>17. ASSUME SilentTick \/ \E d \in Callers : RegisterCaller(d) PROVE SilentInv'
  BY <1>0, <1>16, <1>17 DEF SilentTick, RegisterCaller
<1>18. CASE UNCHANGED silentVars
  BY <1>0, <1>16, <1>18 DEF silentVars
<1> QED BY <1>4, <1>9, <1>10, <1>11, <1>12, <1>14, <1>15, <1>17, <1>18 DEF SilentNext

LEMMA SilentInvHolds == ServicesSpec => []SilentInv
<1>1. ServicesInit => SilentInv
  <2> SUFFICES ASSUME ServicesInit PROVE SilentInv
    OBVIOUS
  <2>1. call = [g \in Calls |-> NoCall] /\ sem = 0 /\ ticks = 0
    BY DEF ServicesInit, SilentInit
  <2>2. {g \in Calls : call[g] # NoCall} = {}
    BY <2>1
  <2>3. Cardinality({}) = 0
    BY FS_EmptySet
  <2> QED BY <2>1, <2>2, <2>3, SilentAssumption DEF SilentAssumption, SilentInv, SlotsMatchCalls,
                                                    CallRecords
<1>2. SilentInv /\ [ServicesNext]_servicesVars => SilentInv'
  BY SilentStep, EveryStepIsOfAService
<1> HIDE DEF SilentInv
<1> QED BY <1>1, <1>2, PTL DEF ServicesSpec

-----------------------------------------------------------------------------
\* Streams have a kind and a phase, and those that count are counted.
StreamsInv ==
    /\ connections \in [{"proxy", "exit"} -> Int]
    /\ stream \in [Streams -> [kind : Kinds, at : Phases]]
    /\ StreamsAreCounted

\* What a phase counts for.
Weight(p) == IF p \in {"new", "over"} THEN 0 ELSE 1

LEMMA PhaseChanges ==
    ASSUME StreamsInv, NEW s \in Streams, NEW p \in Phases,
           stream' = [stream EXCEPT ![s].at = p],
           Count(stream[s].kind, Weight(p) - Weight(stream[s].at))
    PROVE  StreamsInv'
<1>1. /\ stream \in [Streams -> [kind : Kinds, at : Phases]]
      /\ connections \in [{"proxy", "exit"} -> Int]
      /\ Weight(p) \in {0, 1} /\ Weight(stream[s].at) \in {0, 1}
  BY DEF StreamsInv, Weight
<1>2. /\ stream'[s].at = p /\ stream'[s].kind = stream[s].kind
      /\ \A t \in Streams : t # s => stream'[t] = stream[t]
      /\ stream' \in [Streams -> [kind : Kinds, at : Phases]]
  BY <1>1
<1>3. connections' \in [{"proxy", "exit"} -> Int]
  <2>1. PICK n : n = Weight(p) - Weight(stream[s].at)
    OBVIOUS
  <2>2. n \in Int
    BY <1>1, <2>1
  <2> QED BY <1>1, <2>1, <2>2 DEF Count
<1>4. ASSUME NEW k \in {"proxy", "exit"}
      PROVE  connections'[k] = Cardinality({t \in Streams : stream'[t].kind = k
                                                            /\ stream'[t].at \notin {"new", "over"}})
  <2>1. PICK old : old = {t \in Streams : stream[t].kind = k
                                          /\ stream[t].at \notin {"new", "over"}}
    OBVIOUS
  <2>2. PICK new : new = {t \in Streams : stream'[t].kind = k
                                          /\ stream'[t].at \notin {"new", "over"}}
    OBVIOUS
  <2>3. connections[k] = Cardinality(old) /\ IsFiniteSet(old)
    BY <2>1, FS_Subset, ProxyAssumption DEF ProxyAssumption, StreamsInv, StreamsAreCounted
  <2>4. /\ \A t : t # s => (t \in old <=> t \in new)
        /\ s \in old <=> stream[s].kind = k /\ Weight(stream[s].at) = 1
        /\ s \in new <=> stream[s].kind = k /\ Weight(p) = 1
    BY <1>2, <2>1, <2>2 DEF Weight
  <2>5. connections'[k] = IF stream[s].kind = k
                          THEN connections[k] + (Weight(p) - Weight(stream[s].at))
                          ELSE connections[k]
    BY <1>1 DEF Count
  <2>6. connections'[k] = Cardinality(new)
    BY <1>1, <2>3, <2>4, <2>5, OneDiffers
  <2> QED BY <2>2, <2>6
<1> QED BY <1>2, <1>3, <1>4 DEF StreamsInv, StreamsAreCounted

\* The steps of one stream that change its phase, and the other steps.
LEMMA StreamsStep == StreamsInv /\ [ProxyNext]_proxyVars => StreamsInv'
<1> SUFFICES ASSUME StreamsInv, [ProxyNext]_proxyVars PROVE StreamsInv'
  OBVIOUS
<1>0. /\ connections \in [{"proxy", "exit"} -> Int]
      /\ stream \in [Streams -> [kind : Kinds, at : Phases]]
  BY DEF StreamsInv
\* To count nothing is to leave the counters alone, and so is to count for a bridge.
<1>1. ASSUME NEW kind, NEW n \in Int, UNCHANGED connections, n = 0 \/ kind = "bridge"
      PROVE  Count(kind, n)
  <2>1. connections = [k \in DOMAIN connections |-> connections[k]]
    BY <1>0
  <2>2. \A k \in DOMAIN connections :
           (IF k = kind THEN connections[k] + n ELSE connections[k]) = connections[k]
    BY <1>0, <1>1
  <2> QED BY <1>1, <2>1, <2>2 DEF Count
<1>2. ASSUME NEW s \in Streams, LetGo(s), stream[s].at \notin {"new", "over"} PROVE StreamsInv'
  <2>1. Weight("over") - Weight(stream[s].at) = -1 /\ "over" \in Phases
    BY <1>2 DEF Weight, Phases
  <2> QED BY <1>2, <2>1, PhaseChanges DEF LetGo, Over
<1>3. ASSUME NEW s \in Streams, NEW p \in Phases, stream' = [stream EXCEPT ![s].at = p],
             UNCHANGED connections, Weight(p) = Weight(stream[s].at) \/ stream[s].kind = "bridge"
      PROVE  StreamsInv'
  <2>1. PICK n : n = Weight(p) - Weight(stream[s].at)
    OBVIOUS
  <2>2. n \in Int /\ (Weight(p) = Weight(stream[s].at) => n = 0)
    BY <2>1 DEF Weight
  <2>3. Count(stream[s].kind, n)
    BY <1>1, <1>3, <2>2
  <2> QED BY <1>3, <2>1, <2>3, PhaseChanges
<1>4. ASSUME NEW s \in Streams, Accept(s) PROVE StreamsInv'
  <2>1. /\ stream[s].kind = "proxy" /\ "accepted" \in Phases
        /\ Weight("accepted") - Weight(stream[s].at) = 1
    BY <1>4 DEF Accept, Weight, Phases
  <2> QED BY <1>4, <2>1, PhaseChanges DEF Accept
<1>5. ASSUME NEW s \in Streams, HandleConnection(s) PROVE StreamsInv'
  <2>1. CASE LetGo(s)
    BY <1>2, <1>5, <2>1 DEF HandleConnection
  <2>2. ASSUME NEW p \in {"socks5", "http"}, stream' = [stream EXCEPT ![s].at = p],
               UNCHANGED connections
        PROVE  StreamsInv'
    <3>1. p \in Phases /\ Weight(p) = Weight(stream[s].at)
      BY <1>5 DEF HandleConnection, Weight, Phases
    <3> QED BY <1>3, <2>2, <3>1
  <2> QED BY <1>5, <2>1, <2>2 DEF HandleConnection
<1>6. ASSUME NEW s \in Streams, HandleSOCKS5(s) \/ HandleHTTPProxy(s) PROVE StreamsInv'
  <2>1. /\ stream[s].at \in {"socks5", "http"} /\ "carried" \in Phases
        /\ Weight("carried") = Weight(stream[s].at)
    BY <1>6 DEF HandleSOCKS5, HandleHTTPProxy, Weight, Phases
  <2> QED BY <1>2, <1>3, <1>6, <2>1 DEF HandleSOCKS5, HandleHTTPProxy, StartCopying
<1>7. ASSUME NEW s \in Streams, ForwardToInternet(s) PROVE StreamsInv'
  <2>1. /\ stream[s].kind = "exit" /\ "carried" \in Phases
        /\ Weight("carried") - Weight(stream[s].at) = 1
    BY <1>7 DEF ForwardToInternet, Weight, Phases
  <2> QED BY <1>7, <2>1, PhaseChanges DEF ForwardToInternet, StartCopying
<1>8. ASSUME NEW s \in Streams, ForwardToDevice(s) PROVE StreamsInv'
  <2>1. stream[s].kind = "bridge" /\ "carried" \in Phases
    BY <1>8 DEF ForwardToDevice, Phases
  <2> QED BY <1>3, <1>8, <2>1 DEF ForwardToDevice, StartCopying
<1>9. ASSUME NEW s \in Streams, Return(s) PROVE StreamsInv'
  BY <1>2, <1>9 DEF Return
<1>10. ASSUME UNCHANGED <<connections, stream>> PROVE StreamsInv'
  BY <1>10 DEF StreamsInv, StreamsAreCounted
<1>11. CASE Start \/ Stop \/ AcceptorEnds
  BY <1>10, <1>11 DEF Start, Stop, AcceptorEnds, Connections
<1>12. ASSUME NEW s \in Streams,
              \/ \E dir \in {"up", "down"} : CopyEnds(s, dir)
              \/ \E side \in {"client", "target"} : DoneSending(s, side) \/ GoAway(s, side)
       PROVE  StreamsInv'
  BY <1>10, <1>12 DEF CopyEnds, DoneSending, GoAway
<1>13. CASE UNCHANGED proxyVars
  BY <1>10, <1>13 DEF proxyVars
<1> QED BY <1>4, <1>5, <1>6, <1>7, <1>8, <1>9, <1>11, <1>12, <1>13 DEF ProxyNext

LEMMA StreamsInvHolds == ServicesSpec => []StreamsInv
<1>1. ServicesInit => StreamsInv
  <2> SUFFICES ASSUME ServicesInit PROVE StreamsInv
    OBVIOUS
  <2>1. /\ connections = [k \in {"proxy", "exit"} |-> 0]
        /\ \E k \in [Streams -> Kinds] : stream = [s \in Streams |-> [kind |-> k[s], at |-> "new"]]
    BY DEF ServicesInit, ProxyInit
  <2>2. /\ stream \in [Streams -> [kind : Kinds, at : Phases]]
        /\ \A s \in Streams : stream[s].at = "new"
    BY <2>1 DEF Phases
  <2>3. ASSUME NEW k \in {"proxy", "exit"}
        PROVE  connections[k] = Cardinality({s \in Streams : stream[s].kind = k
                                               /\ stream[s].at \notin {"new", "over"}})
    <3>1. {s \in Streams : stream[s].kind = k /\ stream[s].at \notin {"new", "over"}} = {}
      BY <2>2
    <3> QED BY <2>1, <3>1, FS_EmptySet
  <2> QED BY <2>1, <2>2, <2>3 DEF StreamsInv, StreamsAreCounted
<1>2. StreamsInv /\ [ServicesNext]_servicesVars => StreamsInv'
  BY StreamsStep, EveryStepIsOfAService
<1> HIDE DEF StreamsInv
<1> QED BY <1>1, <1>2, PTL DEF ServicesSpec

-----------------------------------------------------------------------------
\* A finite set in some order: a sequence of its elements without repetition.
LEMMA SetInOrder ==
    ASSUME NEW S, IsFiniteSet(S)
    PROVE  SetToSeq(S) \in Seq(S) /\ IsInjective(SetToSeq(S))
<1>1. PICK n \in Nat : n = Cardinality(S) /\ ExistsBijection(1 .. n, S)
  BY FS_CardinalityType
<1>2. PICK f : f \in [1 .. n -> S] /\ IsInjective(f)
  BY <1>1 DEF ExistsBijection, Bijection, Injection
<1>3. SetToSeq(S) \in [1 .. n -> S] /\ IsInjective(SetToSeq(S))
  BY <1>1, <1>2 DEF SetToSeq
<1> QED BY <1>3

\* One sequence without repetition after another that has nothing in common with it.
LEMMA Disjoined ==
    ASSUME NEW T, NEW p \in Seq(T), NEW q \in Seq(T), IsInjective(p), IsInjective(q),
           \A i \in DOMAIN p, j \in DOMAIN q : p[i] # q[j]
    PROVE  IsInjective(p \o q)
<1> SUFFICES ASSUME NEW i \in 1 .. Len(p) + Len(q), NEW j \in 1 .. Len(p) + Len(q),
                    (p \o q)[i] = (p \o q)[j]
             PROVE  i = j
  BY DEF IsInjective
<1>0. Len(p) \in Nat /\ Len(q) \in Nat /\ DOMAIN p = 1 .. Len(p) /\ DOMAIN q = 1 .. Len(q)
  OBVIOUS
<1>1. \A k \in 1 .. Len(p) + Len(q) :
         (p \o q)[k] = IF k <= Len(p) THEN p[k] ELSE q[k - Len(p)]
  OBVIOUS
<1>2. \A k, l \in 1 .. Len(p) : p[k] = p[l] => k = l
  BY <1>0 DEF IsInjective
<1>3. \A k, l \in 1 .. Len(q) : q[k] = q[l] => k = l
  BY <1>0 DEF IsInjective
<1>4. CASE i <= Len(p) /\ j <= Len(p)
  BY <1>0, <1>1, <1>2, <1>4
<1>5. CASE i > Len(p) /\ j > Len(p)
  <2>1. i - Len(p) \in 1 .. Len(q) /\ j - Len(p) \in 1 .. Len(q)
    BY <1>0, <1>5
  <2>2. q[i - Len(p)] = q[j - Len(p)]
    BY <1>0, <1>1, <1>5
  <2>3. i - Len(p) = j - Len(p)
    BY <1>3, <2>1, <2>2
  <2> QED BY <1>0, <2>3
<1>6. CASE i <= Len(p) /\ j > Len(p)
  <2>1. i \in DOMAIN p /\ j - Len(p) \in DOMAIN q
    BY <1>0, <1>6
  <2>2. p[i] = q[j - Len(p)]
    BY <1>0, <1>1, <1>6
  <2> QED BY <2>1, <2>2
<1>7. CASE i > Len(p) /\ j <= Len(p)
  <2>1. j \in DOMAIN p /\ i - Len(p) \in DOMAIN q
    BY <1>0, <1>7
  <2>2. p[j] = q[i - Len(p)]
    BY <1>0, <1>1, <1>7
  <2> QED BY <2>1, <2>2
<1> QED BY <1>0, <1>4, <1>5, <1>6, <1>7

\* Audits find incidents, and the history has each of them once.
ProbeInv ==
    /\ \A a \in audits : a.found \subseteq Incidents
    /\ incidentList \in Seq(Incidents) /\ IncidentsAreUnique

LEMMA ProbeStep == ProbeInv /\ [ProbeNext]_probeVars => ProbeInv'
<1> SUFFICES ASSUME ProbeInv, [ProbeNext]_probeVars PROVE ProbeInv'
  OBVIOUS
<1>1. ASSUME NEW a \in audits, EndAudit(a) PROVE ProbeInv'
  <2>1. PICK p : p = incidentList
    OBVIOUS
  <2>2. PICK new : new = a.found \ ToSet(p)
    OBVIOUS
  <2>3. PICK q : q = SetToSeq(new)
    OBVIOUS
  <2>4. p \in Seq(Incidents) /\ IsInjective(p) /\ new \subseteq Incidents
    BY <2>1, <2>2 DEF ProbeInv, IncidentsAreUnique
  <2>5. IsFiniteSet(new)
    BY <2>4, FS_Subset, ProbeAssumption DEF ProbeAssumption
  <2>6. q \in Seq(new) /\ IsInjective(q)
    BY <2>3, <2>5, SetInOrder
  <2>7. q \in Seq(Incidents)
    BY <2>4, <2>6
  <2>8. \A i \in DOMAIN p, j \in DOMAIN q : p[i] # q[j]
    <3>1. \A j \in DOMAIN q : q[j] \in new
      BY <2>6
    <3> QED BY <2>2, <3>1 DEF ToSet
  <2>9. p \o q \in Seq(Incidents) /\ IsInjective(p \o q)
    BY <2>4, <2>6, <2>7, <2>8, Disjoined
  <2>10. incidentList' = p \o q /\ \A x \in audits' : x.found \subseteq Incidents
    BY <1>1, <2>1, <2>2, <2>3 DEF EndAudit, NewIncidents, ProbeInv
  <2> QED BY <2>9, <2>10 DEF ProbeInv, IncidentsAreUnique
<1>2. ASSUME UNCHANGED incidentList,
             audits' = audits \/ \E by, f : f \subseteq Incidents
                                            /\ audits' = audits \cup {[by |-> by, found |-> f]}
      PROVE  ProbeInv'
  BY <1>2 DEF ProbeInv, IncidentsAreUnique
<1>3. ASSUME ProbeNext, ~ \E a \in audits : EndAudit(a)
      PROVE  /\ UNCHANGED incidentList
             /\ audits' = audits \/ \E by, f : f \subseteq Incidents
                                               /\ audits' = audits \cup {[by |-> by, found |-> f]}
  <2>1. ASSUME NEW f \in SUBSET Incidents, OpenChannel(f) \/ RunAudit(f)
        PROVE  UNCHANGED incidentList /\ audits' = audits \cup {[by |-> Nobody, found |-> f]}
    BY <2>1 DEF OpenChannel, RunAudit
  <2>2. ASSUME NEW l \in DOMAIN loop, NEW f \in SUBSET Incidents, Awaken(l, f)
        PROVE  /\ UNCHANGED incidentList
               /\ audits' = audits \/ audits' = audits \cup {[by |-> l, found |-> f]}
    BY <2>2 DEF Awaken
  <2>3. ASSUME \/ \E on \in BOOLEAN : SetActive(on)
               \/ CloseChannel
               \/ \E l \in DOMAIN loop : Await(l) \/ EndLoop(l)
        PROVE  UNCHANGED <<incidentList, audits>>
    BY <2>3 DEF SetActive, CloseChannel, Await, EndLoop
  <2> QED BY <1>3, <2>1, <2>2, <2>3 DEF ProbeNext
<1>4. CASE UNCHANGED probeVars
  BY <1>2, <1>4 DEF probeVars
<1> QED BY <1>1, <1>2, <1>3, <1>4

LEMMA ProbeInvHolds == ServicesSpec => []ProbeInv
<1>1. ServicesInit => ProbeInv
  BY DEF ServicesInit, ProbeInit, ProbeInv, IncidentsAreUnique, IsInjective
<1>2. ProbeInv /\ [ServicesNext]_servicesVars => ProbeInv'
  BY ProbeStep, EveryStepIsOfAService
<1> HIDE DEF ProbeInv
<1> QED BY <1>1, <1>2, PTL DEF ServicesSpec

-----------------------------------------------------------------------------
\* The numbers of anomalies are numbers, a task is one, and the events are counted.
TableInv ==
    /\ count \in [Signatures -> Nat] /\ totalCount \in Nat
    /\ task \in [Reporters -> {Resting} \cup Recordings \cup Readings]
    /\ IsFiniteSet(EventsOf(count)) /\ EventsAreCounted

\* With n events more on one entry, there are n events more.
LEMMA MoreEvents ==
    ASSUME NEW f \in [Signatures -> Nat], NEW h \in [Signatures -> Nat], NEW q \in Signatures,
           NEW n \in Nat, IsFiniteSet(EventsOf(f)),
           h[q] = f[q] + n, \A s \in Signatures : s # q => h[s] = f[s]
    PROVE  /\ IsFiniteSet(EventsOf(h)) /\ Cardinality(EventsOf(f)) \in Nat
           /\ Cardinality(EventsOf(h)) = Cardinality(EventsOf(f)) + n
<1> DEFINE new == {q} \X (f[q] + 1 .. f[q] + n)
<1>1. /\ \A x : x \in EventsOf(f) <=> \E s \in Signatures : \E i \in 1 .. f[s] : x = <<s, i>>
      /\ \A x : x \in EventsOf(h) <=> \E s \in Signatures : \E i \in 1 .. h[s] : x = <<s, i>>
  BY DEF EventsOf
<1>2. EventsOf(h) = EventsOf(f) \cup new /\ EventsOf(f) \cap new = {}
  <2>1. ASSUME NEW x \in EventsOf(h) PROVE x \in EventsOf(f) \cup new
    <3>0. PICK s \in Signatures : \E i \in 1 .. h[s] : x = <<s, i>>
      BY <1>1
    <3>1. PICK i \in 1 .. h[s] : x = <<s, i>>
      BY <3>0
    <3>2. CASE s # q
      BY <1>1, <3>1, <3>2
    <3>3. CASE s = q
      <4>1. i \in 1 .. f[q] \/ i \in f[q] + 1 .. f[q] + n
        BY <3>3
      <4> QED BY <1>1, <3>1, <3>3, <4>1
    <3> QED BY <3>2, <3>3
  <2>2. ASSUME NEW x \in EventsOf(f) PROVE x \in EventsOf(h) /\ x \notin new
    <3>0. PICK s \in Signatures : \E i \in 1 .. f[s] : x = <<s, i>>
      BY <1>1
    <3>1. PICK i \in 1 .. f[s] : x = <<s, i>>
      BY <3>0
    <3>2. i \in 1 .. h[s]
      BY <3>1
    <3>3. ~(s = q /\ i \in f[q] + 1 .. f[q] + n)
      OBVIOUS
    <3> QED BY <1>1, <3>1, <3>2, <3>3
  <2>3. ASSUME NEW x \in new PROVE x \in EventsOf(h)
    <3>1. PICK i \in f[q] + 1 .. f[q] + n : x = <<q, i>>
      OBVIOUS
    <3>2. i \in 1 .. h[q]
      BY <3>1
    <3> QED BY <1>1, <3>1, <3>2
  <2> QED BY <2>1, <2>2, <2>3
<1>3. IsFiniteSet(new) /\ Cardinality(new) = n
  <2>1. PICK I : I = f[q] + 1 .. f[q] + n
    OBVIOUS
  <2>2. IsFiniteSet(I) /\ Cardinality(I) = n
    <3>1. f[q] + 1 \in Int /\ f[q] + n \in Int
      OBVIOUS
    <3>2. /\ IsFiniteSet(I)
          /\ Cardinality(I) = IF f[q] + 1 > f[q] + n THEN 0 ELSE (f[q] + n) - (f[q] + 1) + 1
      BY <2>1, <3>1, FS_Interval
    <3>3. (IF f[q] + 1 > f[q] + n THEN 0 ELSE (f[q] + n) - (f[q] + 1) + 1) = n
      OBVIOUS
    <3> QED BY <3>2, <3>3
  <2>3. IsFiniteSet({q}) /\ Cardinality({q}) = 1
    BY FS_Singleton
  <2>4. IsFiniteSet({q} \X I) /\ Cardinality({q} \X I) = Cardinality({q}) * Cardinality(I)
    BY <2>2, <2>3, FS_Product
  <2>5. Cardinality({q}) * Cardinality(I) = n
    BY <2>2, <2>3
  <2> QED BY <2>1, <2>4, <2>5
<1> HIDE DEF new
<1>4. /\ IsFiniteSet(EventsOf(f) \cup new)
      /\ Cardinality(EventsOf(f) \cup new)
           = Cardinality(EventsOf(f)) + Cardinality(new) - Cardinality(EventsOf(f) \cap new)
  BY <1>3, FS_Union
<1>5. Cardinality(EventsOf(f) \cap new) = 0
  BY <1>2, FS_EmptySet
<1>6. Cardinality(EventsOf(f)) \in Nat
  BY FS_CardinalityType
<1>7. Cardinality(EventsOf(h)) = Cardinality(EventsOf(f)) + n - 0
  BY <1>2, <1>3, <1>4, <1>5
<1>8. Cardinality(EventsOf(f)) + n - 0 = Cardinality(EventsOf(f)) + n
  BY <1>6
<1> QED BY <1>2, <1>4, <1>6, <1>7, <1>8

\* The step of one goroutine: n events on the entry of q, and as many on the total, those that are
\* counted on the entry only set apart.
LEMMA TaskMoves ==
    ASSUME TableInv, NEW r \in Reporters, NEW q \in Signatures, NEW n \in Nat, NEW m \in Nat,
           NEW t \in {Resting} \cup Recordings \cup Readings,
           task' = [task EXCEPT ![r] = t],
           count' = [count EXCEPT ![q] = @ + n], totalCount' = totalCount + m,
           n = m + (IF t.at = "total" THEN 1 ELSE 0) - (IF task[r].at = "total" THEN 1 ELSE 0)
    PROVE  TableInv'
<1>1. /\ count \in [Signatures -> Nat] /\ totalCount \in Nat
      /\ task \in [Reporters -> {Resting} \cup Recordings \cup Readings]
      /\ IsFiniteSet(EventsOf(count))
  BY DEF TableInv
<1>2. /\ count' \in [Signatures -> Nat] /\ totalCount' \in Nat
      /\ task' \in [Reporters -> {Resting} \cup Recordings \cup Readings]
  BY <1>1
<1>3. /\ IsFiniteSet(EventsOf(count')) /\ Cardinality(EventsOf(count)) \in Nat
      /\ Cardinality(EventsOf(count')) = Cardinality(EventsOf(count)) + n
  <2>1. PICK f \in [Signatures -> Nat], h \in [Signatures -> Nat] : f = count /\ h = count'
    BY <1>1, <1>2
  <2>2. /\ h[q] = f[q] + n /\ \A s \in Signatures : s # q => h[s] = f[s]
        /\ IsFiniteSet(EventsOf(f))
    BY <1>1, <2>1
  <2>3. /\ IsFiniteSet(EventsOf(h)) /\ Cardinality(EventsOf(f)) \in Nat
        /\ Cardinality(EventsOf(h)) = Cardinality(EventsOf(f)) + n
    BY <2>2, MoreEvents
  <2> QED BY <2>1, <2>3
<1>4. PICK old : old = {p \in Reporters : task[p].at = "total"}
  OBVIOUS
<1>5. PICK new : new = {p \in Reporters : task'[p].at = "total"}
  OBVIOUS
<1>6. IsFiniteSet(old)
  BY <1>4, FS_Subset, TableAssumption DEF TableAssumption
<1>7. /\ \A p : p # r => (p \in old <=> p \in new)
      /\ r \in old <=> task[r].at = "total"
      /\ r \in new <=> t.at = "total"
  BY <1>1, <1>4, <1>5
<1>8. /\ Cardinality(old) \in Nat /\ Cardinality(new) \in Nat
      /\ Cardinality(new) = Cardinality(old) + (IF t.at = "total" THEN 1 ELSE 0)
                                             - (IF task[r].at = "total" THEN 1 ELSE 0)
  BY <1>6, <1>7, OneDiffers
<1>9. Cardinality(EventsOf(count)) = totalCount + Cardinality(old)
  BY <1>4 DEF TableInv, EventsAreCounted
<1>10. Cardinality(EventsOf(count')) = totalCount' + Cardinality(new)
  BY <1>1, <1>3, <1>8, <1>9
<1>11. EventsOf(count)' = EventsOf(count')
  BY DEF EventsOf
<1> QED BY <1>2, <1>3, <1>5, <1>10, <1>11 DEF TableInv, EventsAreCounted

LEMMA TableStep == TableInv /\ [TableNext]_tableVars => TableInv'
<1> SUFFICES ASSUME TableInv, [TableNext]_tableVars PROVE TableInv'
  OBVIOUS
<1>0. /\ count \in [Signatures -> Nat] /\ totalCount \in Nat
      /\ task \in [Reporters -> {Resting} \cup Recordings \cup Readings]
  BY DEF TableInv
<1>1. /\ \A x \in Recordings : /\ x.sig \in Signatures /\ x.by \in Nat
                               /\ x.at \in {"count", "total", "announce", "write"}
      /\ \A x \in {Resting} \cup Readings : x.at \notin {"count", "total", "announce", "write"}
  <2>1. {1} \cup Deltas \subseteq Nat
    BY TableAssumption DEF TableAssumption
  <2>2. \A x \in Recordings : /\ x.sig \in Signatures /\ x.by \in {1} \cup Deltas
                              /\ x.at \in {"count", "total", "announce", "write"}
    BY DEF Recordings
  <2>3. \A x \in {Resting} \cup Readings : x.at \in {"rest", "inner", "dominant", "list"}
    BY DEF Readings, Resting
  <2> QED BY <2>1, <2>2, <2>3
\* A step that counts nothing.
<1>2. ASSUME NEW r \in Reporters, NEW t \in {Resting} \cup Recordings \cup Readings,
             task' = [task EXCEPT ![r] = t], UNCHANGED <<count, totalCount>>,
             t.at = "total" <=> task[r].at = "total"
      PROVE  TableInv'
  <2>1. PICK old : old = {p \in Reporters : task[p].at = "total"}
    OBVIOUS
  <2>2. old = {p \in Reporters : task'[p].at = "total"}
    BY <1>0, <1>2, <2>1
  <2>3. Cardinality(EventsOf(count)) = totalCount + Cardinality(old)
    BY <2>1 DEF TableInv, EventsAreCounted
  <2>4. EventsOf(count)' = EventsOf(count)
    BY <1>2 DEF EventsOf
  <2>5. task' \in [Reporters -> {Resting} \cup Recordings \cup Readings]
    BY <1>0, <1>2
  <2>6. IsFiniteSet(EventsOf(count))
    BY DEF TableInv
  <2> QED BY <1>0, <1>2, <2>2, <2>3, <2>4, <2>5, <2>6 DEF TableInv, EventsAreCounted
<1>3. ASSUME NEW r \in Reporters, NEW s \in Signatures, NEW n \in {1} \cup Deltas,
             NEW at \in {"count", "announce"}, task[r] = Resting, UNCHANGED <<count, totalCount>>,
             task' = [task EXCEPT ![r] = [at |-> at, sig |-> s, by |-> n]]
      PROVE  TableInv'
  <2>1. PICK t : t = [at |-> at, sig |-> s, by |-> n]
    OBVIOUS
  <2>2. t \in Recordings /\ t.at # "total" /\ task[r].at # "total"
    BY <1>1, <1>3, <2>1 DEF Recordings
  <2> QED BY <1>2, <1>3, <2>1, <2>2
<1>4. ASSUME NEW r \in Reporters, NEW s \in Signatures, RecordAnomaly(r, s) PROVE TableInv'
  BY <1>3, <1>4 DEF RecordAnomaly
<1>5. ASSUME NEW r \in Reporters, NEW s \in Signatures, NEW n \in Deltas, RecordBatch(r, s, n)
      PROVE  TableInv'
  BY <1>3, <1>5 DEF RecordBatch
<1>6. ASSUME NEW r \in Reporters, NEW at \in {"total", "write"},
             task[r].at \in {"count", "announce"}
      PROVE  \E t \in Recordings : /\ t.at = at /\ t.sig = task[r].sig
                                   /\ [task EXCEPT ![r].at = at] = [task EXCEPT ![r] = t]
  <2>1. PICK x \in [at : {"count", "total", "announce", "write"}, sig : Signatures,
                    by : {1} \cup Deltas] : x = task[r]
    BY <1>0, <1>1, <1>6 DEF Recordings
  <2>2. PICK t : t = [x EXCEPT !.at = at]
    OBVIOUS
  <2>3. /\ t.at = at /\ t.sig = x.sig
        /\ t \in [at : {"count", "total", "announce", "write"}, sig : Signatures,
                  by : {1} \cup Deltas]
    BY <1>6, <2>2
  <2>4. [task EXCEPT ![r].at = at] = [task EXCEPT ![r] = t]
    BY <1>0, <2>1, <2>2
  <2> QED BY <2>1, <2>3, <2>4 DEF Recordings
<1>7. ASSUME NEW r \in Reporters, CountOnEntry(r) PROVE TableInv'
  <2>1. PICK t \in Recordings : t.at = "total" /\ task' = [task EXCEPT ![r] = t]
    BY <1>6, <1>7 DEF CountOnEntry
  <2>2. PICK q \in Signatures : q = task[r].sig
    BY <1>0, <1>1, <1>7 DEF CountOnEntry
  <2>3. /\ task[r].at # "total" /\ count' = [count EXCEPT ![q] = @ + 1]
        /\ totalCount' = totalCount + 0
    BY <1>0, <1>7, <2>2 DEF CountOnEntry
  <2>4. 1 = 0 + (IF t.at = "total" THEN 1 ELSE 0) - (IF task[r].at = "total" THEN 1 ELSE 0)
    BY <2>1, <2>3
  <2> QED BY <2>1, <2>3, <2>4, TaskMoves
<1>8. ASSUME NEW r \in Reporters, CountOnTotal(r) PROVE TableInv'
  <2>1. PICK q \in Signatures : q = task[r].sig
    BY <1>0, <1>1, <1>8 DEF CountOnTotal
  <2>2. /\ task[r].at = "total" /\ totalCount' = totalCount + 1
        /\ task' = [task EXCEPT ![r] = Resting] /\ Resting.at # "total"
    BY <1>1, <1>8 DEF CountOnTotal
  <2>3. count' = [count EXCEPT ![q] = @ + 0]
    <3>1. PICK f \in [Signatures -> Nat] : f = count
      BY <1>0
    <3>2. f = [f EXCEPT ![q] = @ + 0]
      OBVIOUS
    <3> QED BY <1>8, <3>1, <3>2 DEF CountOnTotal
  <2>4. 0 = 1 + (IF Resting.at = "total" THEN 1 ELSE 0) - (IF task[r].at = "total" THEN 1 ELSE 0)
    BY <2>2
  <2> QED BY <2>2, <2>3, <2>4, TaskMoves
<1>9. ASSUME NEW r \in Reporters, AskToWrite(r) PROVE TableInv'
  <2>1. PICK t \in Recordings : t.at = "write" /\ task' = [task EXCEPT ![r] = t]
    BY <1>6, <1>9 DEF AskToWrite
  <2> QED BY <1>2, <1>9, <2>1 DEF AskToWrite
<1>10. ASSUME NEW r \in Reporters, Write(r) PROVE TableInv'
  <2>1. PICK q, n : /\ q = task[r].sig /\ n = task[r].by
                    /\ q \in Signatures /\ n \in Nat
    BY <1>0, <1>1, <1>10 DEF Write
  <2>2. /\ task[r].at # "total" /\ Resting.at # "total" /\ task' = [task EXCEPT ![r] = Resting]
        /\ totalCount' = totalCount + n /\ count' = [count EXCEPT ![q] = @ + n]
    BY <1>1, <1>10, <2>1 DEF Write
  <2>3. n = n + (IF Resting.at = "total" THEN 1 ELSE 0) - (IF task[r].at = "total" THEN 1 ELSE 0)
    BY <2>1, <2>2
  <2> QED BY <2>1, <2>2, <2>3, TaskMoves
<1>11. ASSUME NEW r \in Reporters,
              GetExecutiveSummary(r) \/ LockAgain(r) \/ GetDominantAnomaly(r) \/ Leave(r)
       PROVE  TableInv'
  <2>1. /\ [at |-> "inner"] \in Readings /\ [at |-> "dominant"] \in Readings
        /\ [at |-> "list"] \in Readings
    BY DEF Readings
  <2>2. task[r].at # "total" /\ UNCHANGED <<count, totalCount>>
    BY <1>1, <1>11 DEF GetExecutiveSummary, LockAgain, GetDominantAnomaly, Leave
  <2>3. \E t \in {Resting} \cup Readings : task' = [task EXCEPT ![r] = t]
    BY <1>11, <2>1 DEF GetExecutiveSummary, LockAgain, GetDominantAnomaly, Leave
  <2> QED BY <1>1, <1>2, <2>2, <2>3
<1>12. CASE UNCHANGED tableVars
  BY <1>12 DEF tableVars, TableInv, EventsAreCounted, EventsOf
<1> QED BY <1>4, <1>5, <1>7, <1>8, <1>9, <1>10, <1>11, <1>12 DEF TableNext, GoAhead

LEMMA TableInvHolds == ServicesSpec => []TableInv
<1>1. ServicesInit => TableInv
  <2> SUFFICES ASSUME ServicesInit PROVE TableInv
    OBVIOUS
  <2>1. /\ count = [s \in Signatures |-> 0] /\ totalCount = 0
        /\ task = [r \in Reporters |-> Resting]
    BY DEF ServicesInit, TableInit
  <2>2. EventsOf(count) = {} /\ {r \in Reporters : task[r].at = "total"} = {}
    <3>1. 1 .. 0 = {}
      OBVIOUS
    <3> QED BY <2>1, <3>1 DEF EventsOf, Resting
  <2>3. IsFiniteSet({}) /\ Cardinality({}) = 0
    BY FS_EmptySet
  <2> QED BY <2>1, <2>2, <2>3 DEF TableInv, EventsAreCounted
<1>2. TableInv /\ [ServicesNext]_servicesVars => TableInv'
  BY TableStep, EveryStepIsOfAService
<1> HIDE DEF TableInv
<1> QED BY <1>1, <1>2, PTL DEF ServicesSpec

\* The counters agree with what they count, for any number of goroutines, streams, calls,
\* incidents and signatures.
THEOREM CountersHold == ServicesSpec => []CountersAgree
<1>1. TableInv /\ StreamsInv /\ SilentInv /\ ProbeInv => CountersAgree
  BY DEF TableInv, StreamsInv, SilentInv, ProbeInv, CountersAgree
<1> QED BY <1>1, TableInvHolds, StreamsInvHolds, SilentInvHolds, ProbeInvHolds, PTL

(***************************************************************************)
(* What is rationed stays within its ration.                               *)
(***************************************************************************)

\* Of the budget of this second, what is left and what was spent for nothing do not exceed it.
BudgetInv ==
    /\ second \in Nat /\ resync.since \in Nat /\ resync.left \in Int /\ unpaid \in Nat
    /\ resync.since <= second /\ resync.left <= ResyncBudget
    /\ resync.since < second => unpaid = 0
    /\ unpaid <= ResyncBudget
    /\ resync.left > 0 => unpaid + resync.left <= ResyncBudget

LEMMA BudgetStep == BudgetInv /\ [AnchorNext]_anchorVars => BudgetInv'
<1> SUFFICES ASSUME BudgetInv, [AnchorNext]_anchorVars PROVE BudgetInv'
  OBVIOUS
<1>0. ResyncBudget \in Nat
  BY AnchorAssumption DEF AnchorAssumption
<1>1. PICK filled : filled = Refilled
  OBVIOUS
<1>2. /\ filled.left \in Int /\ filled.left <= ResyncBudget
      /\ filled.left > 0 => unpaid + filled.left <= ResyncBudget
  BY <1>0, <1>1 DEF Refilled, BudgetInv
<1>3. ASSUME NEW d \in Mobiles, NEW a \in Places, NEW s \in Numbers, NEW p \in Proofs,
             MoveProved(d, a, s, p)
      PROVE  BudgetInv'
  <2>1. second' = second /\ Spend(d, p)
    BY <1>3 DEF MoveProved
  <2>2. \/ UNCHANGED <<resync, unpaid>>
        \/ /\ resync' = [filled EXCEPT !.left = @ - 1]
           /\ unpaid' = IF filled.left > 0 THEN unpaid + 1 ELSE unpaid
    BY <1>1, <2>1 DEF Spend
  <2>3. CASE UNCHANGED <<resync, unpaid>>
    BY <2>1, <2>3 DEF BudgetInv
  <2>4. ASSUME resync' = [filled EXCEPT !.left = @ - 1],
               unpaid' = IF filled.left > 0 THEN unpaid + 1 ELSE unpaid
        PROVE  BudgetInv'
    <3>1. resync'.left = filled.left - 1 /\ resync'.since = second
      BY <1>1, <1>2, <2>4 DEF Refilled, BudgetInv
    <3> QED BY <1>0, <1>2, <2>1, <2>4, <3>1 DEF BudgetInv
  <2> QED BY <2>2, <2>3, <2>4
<1>4. CASE AnchorTick
  BY <1>0, <1>4 DEF AnchorTick, BudgetInv
<1>5. CASE UNCHANGED <<second, resync, unpaid>>
  BY <1>5 DEF BudgetInv
<1> QED BY <1>3, <1>4, <1>5 DEF AnchorNext, anchorVars, MoveUnproved, Sign,
                                ShouldPropagateGlobalSync

LEMMA BudgetInvHolds == ServicesSpec => []BudgetInv
<1>1. ServicesInit => BudgetInv
  BY AnchorAssumption DEF AnchorAssumption, ServicesInit, AnchorInit, BudgetInv
<1>2. BudgetInv /\ [ServicesNext]_servicesVars => BudgetInv'
  BY BudgetStep, EveryStepIsOfAService
<1> HIDE DEF BudgetInv
<1> QED BY <1>1, <1>2, PTL DEF ServicesSpec

-----------------------------------------------------------------------------
\* The bindings that are good are not revoked, and a validation that began too late ends badly.
DelegationInv ==
    /\ DelegationTypeOK
    /\ RevokedKeysStayOut
    /\ \A v \in Validators : validation[v].at = "checked" => ~validation[v].late

ValidationRecords ==
    [at : {"checked", "ended"}, key : BindingKeys, until : Nat, late : BOOLEAN, valid : BOOLEAN]

\* A call of ValidateBinding that goes on.
LEMMA ValidationMoves ==
    ASSUME DelegationInv, NEW v \in Validators, NEW r \in {Unbegun} \cup ValidationRecords,
           validation' = [validation EXCEPT ![v] = r],
           r.at = "checked" => ~r.late, r.at = "ended" /\ r.late => ~r.valid,
           UNCHANGED <<chain, today, bindings, revocations>>
    PROVE  DelegationInv'
<1>1. validation \in [Validators -> {Unbegun} \cup ValidationRecords]
  BY DEF DelegationInv, DelegationTypeOK, ValidationRecords
<1>2. /\ validation' \in [Validators -> {Unbegun} \cup ValidationRecords]
      /\ validation'[v] = r /\ \A w \in Validators : w # v => validation'[w] = validation[w]
  BY <1>1
<1>3. DelegationTypeOK'
  BY <1>2 DEF DelegationInv, DelegationTypeOK, ValidationRecords
<1>4. ASSUME NEW w \in Validators
      PROVE  /\ validation'[w].at = "checked" => ~validation'[w].late
             /\ validation'[w].at = "ended" /\ validation'[w].late => ~validation'[w].valid
  BY <1>2 DEF DelegationInv, RevokedKeysStayOut
<1> QED BY <1>3, <1>4 DEF DelegationInv, RevokedKeysStayOut

LEMMA DelegationStep ==
    DelegationInv /\ [ChainNext \/ BindingNext]_delegationVars => DelegationInv'
<1> SUFFICES ASSUME DelegationInv, [ChainNext \/ BindingNext]_delegationVars
             PROVE  DelegationInv'
  OBVIOUS
<1>0. /\ MaxLinks \in Nat /\ MaxToday \in Nat /\ Validity \in Nat /\ today \in 0 .. MaxToday
      /\ validation \in [Validators -> {Unbegun} \cup ValidationRecords]
      /\ DOMAIN bindings \subseteq BindingKeys /\ revocations \subseteq BindingKeys
      /\ \A k \in DOMAIN bindings : bindings[k] \in Nat
      /\ chain \in Seq(Offered)
  BY DelegationAssumption
     DEF DelegationAssumption, DelegationInv, DelegationTypeOK, ValidationRecords
<1>1. ASSUME NEW link \in Offered, AddLink(link) PROVE DelegationInv'
  <2>1. chain' \in Seq(Offered) /\ Len(chain') = Len(chain) + 1
    BY <1>0, <1>1 DEF AddLink
  <2>2. Len(chain') <= MaxLinks
    BY <1>0, <1>1, <2>1 DEF AddLink
  <2> QED BY <1>1, <2>1, <2>2 DEF AddLink, DelegationInv, DelegationTypeOK, RevokedKeysStayOut
<1>2. CASE Dawn
  <2>1. today' \in 0 .. MaxToday
    BY <1>0, <1>2 DEF Dawn
  <2> QED BY <1>2, <2>1 DEF Dawn, DelegationInv, DelegationTypeOK, RevokedKeysStayOut
<1>3. ASSUME NEW k \in BindingKeys, IssueBinding(k) PROVE DelegationInv'
  <2>1. /\ DOMAIN bindings' = DOMAIN bindings \cup {k} /\ k \notin revocations
        /\ \A c \in DOMAIN bindings' : bindings'[c] \in Nat
    BY <1>0, <1>3 DEF IssueBinding, Put
  <2>2. DelegationTypeOK'
    BY <1>0, <1>3, <2>1 DEF IssueBinding, DelegationInv, DelegationTypeOK
  <2> QED BY <1>3, <2>1, <2>2 DEF IssueBinding, DelegationInv, RevokedKeysStayOut
<1>4. ASSUME NEW k \in BindingKeys, RevokeBinding(k) PROVE DelegationInv'
  <2>1. /\ DOMAIN bindings' = DOMAIN bindings \ {k} /\ revocations' = revocations \cup {k}
        /\ \A c \in DOMAIN bindings' : bindings'[c] \in Nat
    BY <1>0, <1>4 DEF RevokeBinding, Restrict
  <2>2. DelegationTypeOK'
    BY <1>0, <1>4, <2>1 DEF RevokeBinding, DelegationInv, DelegationTypeOK
  <2> QED BY <1>4, <2>1, <2>2 DEF RevokeBinding, DelegationInv, RevokedKeysStayOut
<1>5. ASSUME NEW v \in Validators, NEW k \in DOMAIN bindings \cup revocations,
             NEW u \in 0 .. MaxToday + Validity, BeginValidation(v, k, u)
      PROVE  DelegationInv'
  <2>1. PICK r : r = [at |-> IF k \in revocations THEN "ended" ELSE "checked", key |-> k,
                      until |-> u, late |-> k \in revocations, valid |-> FALSE]
    OBVIOUS
  <2>2. u \in Nat /\ k \in BindingKeys /\ (k \in revocations) \in BOOLEAN
    BY <1>0
  <2>3. r \in ValidationRecords /\ ~r.valid /\ (r.at = "checked" => ~r.late)
    <3>1. CASE k \in revocations
      BY <2>1, <2>2, <3>1 DEF ValidationRecords
    <3>2. CASE k \notin revocations
      BY <2>1, <2>2, <3>2 DEF ValidationRecords
    <3> QED BY <3>1, <3>2
  <2> QED BY <1>5, <2>1, <2>3, ValidationMoves DEF BeginValidation
<1>6. ASSUME NEW v \in Validators, NEW ok_ \in BOOLEAN, EndValidation(v, ok_)
      PROVE  DelegationInv'
  <2>1. PICK q \in ValidationRecords : q = validation[v]
    BY <1>0, <1>6 DEF EndValidation, Unbegun
  <2>2. PICK ok \in BOOLEAN : ok = (ok_ /\ today <= q.until)
    OBVIOUS
  <2>3. validation' = [validation EXCEPT ![v] = [[q EXCEPT !.at = "ended"] EXCEPT !.valid = ok]]
    BY <1>0, <1>6, <2>1, <2>2 DEF EndValidation
  <2>4. PICK e : e = [q EXCEPT !.at = "ended"]
    OBVIOUS
  <2>5. e \in ValidationRecords /\ e.at = "ended" /\ e.late = q.late
    BY <2>4 DEF ValidationRecords
  <2>6. PICK r : r = [e EXCEPT !.valid = ok]
    OBVIOUS
  <2>7. r \in ValidationRecords /\ r.at = "ended" /\ r.late = q.late
    BY <2>5, <2>6 DEF ValidationRecords
  <2>8. ~q.late
    BY <1>6, <2>1 DEF DelegationInv, EndValidation
  <2> QED BY <1>6, <2>3, <2>4, <2>6, <2>7, <2>8, ValidationMoves DEF EndValidation
<1>7. ASSUME NEW v \in Validators, ForgetValidation(v) PROVE DelegationInv'
  <2>1. Unbegun.at = "idle"
    BY DEF Unbegun
  <2> QED BY <1>7, <2>1, ValidationMoves DEF ForgetValidation
<1>8. CASE UNCHANGED delegationVars
  BY <1>8 DEF delegationVars, DelegationInv, DelegationTypeOK, RevokedKeysStayOut
<1> QED BY <1>1, <1>2, <1>3, <1>4, <1>5, <1>6, <1>7, <1>8 DEF ChainNext, BindingNext

LEMMA DelegationInvHolds == ServicesSpec => []DelegationInv
<1>1. ServicesInit => DelegationInv
  <2> SUFFICES ASSUME ServicesInit PROVE DelegationInv
    OBVIOUS
  <2>1. /\ chain = <<>> /\ today = 0 /\ DOMAIN bindings = {} /\ revocations = {}
        /\ validation = [v \in Validators |-> Unbegun]
    BY DEF ServicesInit, DelegationInit
  <2>2. MaxLinks \in Nat /\ MaxToday \in Nat /\ Len(<<>>) = 0 /\ <<>> \in Seq(Offered)
    BY DelegationAssumption DEF DelegationAssumption
  <2>3. DelegationTypeOK
    BY <2>1, <2>2 DEF DelegationTypeOK
  <2>4. \A v \in Validators : validation[v].at = "idle"
    BY <2>1 DEF Unbegun
  <2> QED BY <2>1, <2>3, <2>4 DEF DelegationInv, RevokedKeysStayOut
<1>2. DelegationInv /\ [ServicesNext]_servicesVars => DelegationInv'
  BY DelegationStep, EveryStepIsOfAService
<1> HIDE DEF DelegationInv
<1> QED BY <1>1, <1>2, PTL DEF ServicesSpec

-----------------------------------------------------------------------------
\* Whatever holds of 0 and passes from every number to the next holds of all.
LEMMA NumbersAreReached ==
    ASSUME NEW S, S \subseteq Nat, 0 \in S, \A n \in S : n + 1 \in S
    PROVE  Nat \subseteq S
<1> DEFINE rest == Nat \ S
           less == {ss \in Nat \X Nat : ss[1] < ss[2]}
<1>1. IsWellFoundedOn(less, Nat)
  BY NatLessThanWellFounded, Zenon DEF OpToRel
<1>2. ASSUME rest # {} PROVE FALSE
  <2>1. rest \subseteq Nat
    OBVIOUS
  <2>2. \E x \in rest : \A y \in rest : ~ (<<y, x>> \in less)
    <3> HIDE DEF rest, less
    <3> QED BY <1>1, <1>2, <2>1, WFMin, Zenon
  <2>3. PICK x \in rest : \A y \in rest : ~ (<<y, x>> \in less)
    BY <2>2
  <2>4. x # 0 /\ x - 1 \in Nat /\ <<x - 1, x>> \in less
    OBVIOUS
  <2>5. x - 1 \in S
    BY <2>3, <2>4
  <2>6. (x - 1) + 1 \in S
    BY <2>5
  <2> QED BY <2>4, <2>6
<1> QED BY <1>2

\* The tier of a chain after i of its links, without going along it: denied if a link is not sound
\* or one that is escalated comes after an ordinary one, ordinary if one is.
Denied(links, i) ==
    \/ \E j \in 1 .. i : ~Sound(links, j)
    \/ \E j, k \in 1 .. i : j < k /\ links[j].tier = "ordinary" /\ links[k].tier = "escalated"

TierAfter(links, i) ==
    IF Denied(links, i) THEN "deny"
    ELSE IF \E j \in 1 .. i : links[j].tier = "ordinary" THEN "ordinary" ELSE "escalated"

AreTiers(f, links) ==
    f = [i \in 0 .. Len(links) |->
            IF i = 0 THEN "escalated"
            ELSE IF ~Sound(links, i) THEN "deny" ELSE Attenuated(f[i - 1], links[i])]

LEMMA OneLinkMore ==
    ASSUME NEW links, NEW i \in Nat, i # 0
    PROVE  TierAfter(links, i) = IF ~Sound(links, i) THEN "deny"
                                 ELSE Attenuated(TierAfter(links, i - 1), links[i])
<1>1. \A j : j \in 1 .. i <=> j \in 1 .. i - 1 \/ j = i
  OBVIOUS
<1>2. Denied(links, i) <=> \/ ~Sound(links, i) \/ Denied(links, i - 1)
                           \/ /\ links[i].tier = "escalated"
                              /\ \E j \in 1 .. i - 1 : links[j].tier = "ordinary"
  <2>1. \A j, k \in 1 .. i : j < k => /\ j \in 1 .. i - 1
                                      /\ k \in 1 .. i - 1 \/ k = i
    OBVIOUS
  <2>2. \A j \in 1 .. i - 1 : j < i
    OBVIOUS
  <2> QED BY <1>1, <2>1, <2>2 DEF Denied
<1>3. (\E j \in 1 .. i : links[j].tier = "ordinary")
        <=> links[i].tier = "ordinary" \/ \E j \in 1 .. i - 1 : links[j].tier = "ordinary"
  BY <1>1
<1> QED BY <1>2, <1>3 DEF TierAfter, Attenuated

LEMMA TierOfAChain ==
    ASSUME NEW T, NEW links \in Seq(T), links # <<>>
    PROVE  VerifyChain(links) = TierAfter(links, Len(links))
<1>0. Len(links) \in Nat
  OBVIOUS
<1>1. VerifyChain(links) = (CHOOSE f : AreTiers(f, links))[Len(links)]
  BY DEF VerifyChain, AreTiers
<1>2. TierAfter(links, 0) = "escalated"
  <2>1. \A j : j \notin 1 .. 0
    OBVIOUS
  <2> QED BY <2>1 DEF TierAfter, Denied
<1>3. PICK g : g = [i \in 0 .. Len(links) |-> TierAfter(links, i)]
  OBVIOUS
<1>4. AreTiers(g, links)
  <2>1. \A i \in 0 .. Len(links) : i # 0 => g[i - 1] = TierAfter(links, i - 1)
    BY <1>0, <1>3
  <2>2. \A i \in 0 .. Len(links) : i # 0 =>
           TierAfter(links, i) = IF ~Sound(links, i) THEN "deny"
                                 ELSE Attenuated(TierAfter(links, i - 1), links[i])
    BY <1>0, OneLinkMore
  <2>3. \A i \in 0 .. Len(links) :
           TierAfter(links, i) = IF i = 0 THEN "escalated"
                                 ELSE IF ~Sound(links, i) THEN "deny"
                                 ELSE Attenuated(g[i - 1], links[i])
    BY <1>2, <2>1, <2>2
  <2> QED BY <1>3, <2>3 DEF AreTiers
<1>5. PICK f : f = CHOOSE h : AreTiers(h, links)
  OBVIOUS
<1>6. AreTiers(f, links)
  BY <1>4, <1>5, Zenon
<1>7. \A i \in 0 .. Len(links) :
         f[i] = IF i = 0 THEN "escalated"
                ELSE IF ~Sound(links, i) THEN "deny" ELSE Attenuated(f[i - 1], links[i])
  BY <1>6 DEF AreTiers
<1> DEFINE S == {n \in Nat : n <= Len(links) => f[n] = TierAfter(links, n)}
<1>8. 0 \in S
  BY <1>0, <1>2, <1>7
<1>9. ASSUME NEW n \in S PROVE n + 1 \in S
  <2>1. n \in Nat /\ n + 1 \in Nat /\ (n + 1) - 1 = n /\ n + 1 # 0
    OBVIOUS
  <2>2. CASE n + 1 <= Len(links)
    <3>1. n + 1 \in 0 .. Len(links) /\ f[n] = TierAfter(links, n)
      BY <1>0, <2>1, <2>2
    <3>2. f[n + 1] = IF ~Sound(links, n + 1) THEN "deny" ELSE Attenuated(f[n], links[n + 1])
      BY <1>7, <2>1, <3>1
    <3> QED BY <2>1, <3>1, <3>2, OneLinkMore
  <2> QED BY <1>0, <2>1, <2>2
<1>10. Nat \subseteq S
  <2> HIDE DEF S
  <2>1. S \subseteq Nat
    BY DEF S
  <2> QED BY <1>8, <1>9, <2>1, NumbersAreReached
<1>11. f[Len(links)] = TierAfter(links, Len(links))
  BY <1>0, <1>10
<1> QED BY <1>1, <1>5, <1>11

LEMMA LongerChains == DelegationTypeOK => TierNeverRises
<1> SUFFICES ASSUME DelegationTypeOK, NEW n \in 1 .. Len(chain) - 1
             PROVE  TierRank[VerifyChain(SubSeq(chain, 1, n + 1))]
                      <= TierRank[VerifyChain(SubSeq(chain, 1, n))]
  BY DEF TierNeverRises
<1>1. chain \in Seq(Offered) /\ n \in Nat \ {0} /\ n + 1 <= Len(chain) /\ Len(chain) \in Nat
  BY DEF DelegationTypeOK
<1>2. PICK p, q : p = SubSeq(chain, 1, n) /\ q = SubSeq(chain, 1, n + 1)
  OBVIOUS
<1>3. /\ p \in Seq(Offered) /\ q \in Seq(Offered) /\ Len(p) = n /\ Len(q) = n + 1
      /\ \A i \in 1 .. n : p[i] = chain[i] /\ q[i] = chain[i]
  BY <1>1, <1>2
<1>4. p # <<>> /\ q # <<>>
  BY <1>1, <1>3
<1>5. VerifyChain(p) = TierAfter(p, n) /\ VerifyChain(q) = TierAfter(q, n + 1)
  BY <1>3, <1>4, TierOfAChain
<1>6. \A i \in 1 .. n : Sound(p, i) <=> Sound(q, i)
  <2> SUFFICES ASSUME NEW i \in 1 .. n PROVE Sound(p, i) <=> Sound(q, i)
    OBVIOUS
  <2>1. p[i] = q[i] /\ (i # 1 => p[i - 1] = q[i - 1])
    BY <1>1, <1>3
  <2> QED BY <2>1 DEF Sound
<1>7. \A i : i \in 1 .. n => i \in 1 .. n + 1
  BY <1>1
<1>8. /\ Denied(p, n) => Denied(q, n + 1)
      /\ (\E j \in 1 .. n : p[j].tier = "ordinary") => \E j \in 1 .. n + 1 : q[j].tier = "ordinary"
  BY <1>3, <1>6, <1>7 DEF Denied
<1>9. TierRank["deny"] = 0 /\ TierRank["ordinary"] = 1 /\ TierRank["escalated"] = 2
  BY DEF TierRank
<1>10. TierRank[TierAfter(q, n + 1)] <= TierRank[TierAfter(p, n)]
  BY <1>8, <1>9 DEF TierAfter
<1> QED BY <1>2, <1>5, <1>10

-----------------------------------------------------------------------------
\* The relay has the tags of its cache in their order. One that was taken in, not too long ago and
\* not while the order had it still, is in its place there and nowhere else, and in the cache.
InItsPlace(t, later, order) ==
    /\ later < Len(order) /\ order[Len(order) - later] = t
    /\ \A i \in 1 .. Len(order) : order[i] = t => i = Len(order) - later

RelayCacheInv ==
    /\ DOMAIN replayCache \subseteq Tags
    /\ \A t \in DOMAIN replayCache : replayCache[t] \in 0 .. MaxOnionClock + TagLife
    /\ replayOrder \in Seq(Tags) /\ Len(replayOrder) <= MaxCacheSize
    /\ onionClock \in 0 .. MaxOnionClock
    /\ DOMAIN takenIn \subseteq Tags
    /\ \A t \in DOMAIN takenIn :
          takenIn[t] \in [until : Nat, later : 0 .. MaxCacheSize, again : BOOLEAN]
    /\ \A t \in DOMAIN replayCache : \E i \in 1 .. Len(replayOrder) : replayOrder[i] = t
    /\ \A t \in DOMAIN takenIn :
          takenIn[t].later < MaxCacheSize /\ ~takenIn[t].again
             => /\ t \in DOMAIN replayCache /\ replayCache[t] = takenIn[t].until
                /\ InItsPlace(t, takenIn[t].later, replayOrder)

\* A tag at the end of the order, from the front of which the oldest may have gone.
LEMMA OrderMoves ==
    ASSUME NEW order \in Seq(Tags), NEW t \in Tags, NEW next, MaxCacheSize \in Nat \ {0},
           Len(order) <= MaxCacheSize,
           \/ Len(order) < MaxCacheSize /\ next = Append(order, t)
           \/ Len(order) = MaxCacheSize /\ next = Tail(Append(order, t))
    PROVE  /\ next \in Seq(Tags) /\ Len(next) <= MaxCacheSize
           /\ \A u : (\E i \in 1 .. Len(order) : order[i] = u) \/ u = t
                 => \/ \E i \in 1 .. Len(next) : next[i] = u
                    \/ next # Append(order, t) /\ u = order[1]
           /\ (\A i \in 1 .. Len(order) : order[i] # t) => InItsPlace(t, 0, next)
           /\ \A u : \A later \in Nat : u # t /\ later + 1 < MaxCacheSize /\ InItsPlace(u, later, order)
                 => InItsPlace(u, later + 1, next)
<1>1. /\ Len(order) \in Nat /\ Append(order, t) \in Seq(Tags)
      /\ Len(Append(order, t)) = Len(order) + 1 /\ Append(order, t)[Len(order) + 1] = t
      /\ \A i \in 1 .. Len(order) : Append(order, t)[i] = order[i]
  OBVIOUS
<1>2. CASE Len(order) < MaxCacheSize /\ next = Append(order, t)
  <2>1. /\ next \in Seq(Tags) /\ Len(next) = Len(order) + 1 /\ next[Len(order) + 1] = t
        /\ \A i \in 1 .. Len(order) : next[i] = order[i]
        /\ \A i \in 1 .. Len(next) : i = Len(order) + 1 \/ i \in 1 .. Len(order)
        /\ \A i \in 1 .. Len(order) : i \in 1 .. Len(next)
        /\ Len(order) + 1 \in 1 .. Len(next)
    BY <1>1, <1>2
  <2>2. \A u : \A later \in Nat : u # t /\ later + 1 < MaxCacheSize /\ InItsPlace(u, later, order)
           => InItsPlace(u, later + 1, next)
    <3> SUFFICES ASSUME NEW u, NEW later \in Nat, u # t, InItsPlace(u, later, order)
                 PROVE  InItsPlace(u, later + 1, next)
      OBVIOUS
    <3>1. /\ later + 1 < Len(next) /\ Len(next) - (later + 1) = Len(order) - later
          /\ Len(order) - later \in 1 .. Len(order)
      BY <1>1, <2>1 DEF InItsPlace
    <3> QED BY <2>1, <3>1 DEF InItsPlace
  <2>3. (\A i \in 1 .. Len(order) : order[i] # t) => InItsPlace(t, 0, next)
    <3>1. 0 < Len(next) /\ Len(next) - 0 = Len(order) + 1
      BY <1>1, <2>1
    <3> QED BY <2>1, <3>1 DEF InItsPlace
  <2> QED BY <1>1, <1>2, <2>1, <2>2, <2>3
<1>3. CASE Len(order) = MaxCacheSize /\ next = Tail(Append(order, t))
  <2>1. /\ next \in Seq(Tags) /\ Len(next) = Len(order)
        /\ \A i \in 1 .. Len(next) : next[i] = Append(order, t)[i + 1]
    <3> DEFINE a == Append(order, t)
    <3>1. a \in Seq(Tags) /\ Len(a) = Len(order) + 1 /\ next = Tail(a) /\ Len(order) \in Nat
      BY <1>1, <1>3
    <3> HIDE DEF a
    <3>2. a # <<>>
      BY <3>1
    <3>3. /\ Tail(a) \in Seq(Tags) /\ Len(Tail(a)) = Len(a) - 1
          /\ \A i \in 1 .. Len(Tail(a)) : Tail(a)[i] = a[i + 1]
      BY <3>1, <3>2, HeadTailProperties
    <3>4. Len(a) - 1 = Len(order)
      BY <3>1
    <3>5. \A i \in 1 .. Len(next) : next[i] = a[i + 1]
      BY <3>1, <3>3
    <3>6. next \in Seq(Tags) /\ Len(next) = Len(order)
      BY <3>1, <3>3, <3>4
    <3> QED BY <3>5, <3>6 DEF a
  <2>2. /\ Len(next) \in 1 .. Len(next) /\ next[Len(next)] = t
        /\ \A i \in 1 .. Len(next) : i # Len(next) => /\ i + 1 \in 1 .. Len(order)
                                                      /\ next[i] = order[i + 1]
    <3>1. Len(next) = Len(order) /\ Len(order) \in Nat /\ 1 <= Len(order)
      BY <1>1, <1>3, <2>1
    <3>2. Len(next) \in 1 .. Len(next)
      BY <3>1
    <3>3. next[Len(next)] = t
      BY <1>1, <2>1, <3>1, <3>2
    <3>4. ASSUME NEW i \in 1 .. Len(next), i # Len(next)
          PROVE  i + 1 \in 1 .. Len(order) /\ next[i] = order[i + 1]
      <4>1. i + 1 \in 1 .. Len(order)
        BY <3>1, <3>4
      <4> QED BY <1>1, <2>1, <4>1
    <3> QED BY <3>2, <3>3, <3>4
  <2>3. \A i \in 1 .. Len(order) : i # 1 => i - 1 \in 1 .. Len(next) /\ next[i - 1] = order[i]
    <3> SUFFICES ASSUME NEW i \in 1 .. Len(order), i # 1
                 PROVE  i - 1 \in 1 .. Len(next) /\ next[i - 1] = order[i]
      OBVIOUS
    <3>1. Len(order) \in Nat /\ Len(next) = Len(order)
      BY <1>1, <2>1
    <3>2. i - 1 \in 1 .. Len(next) /\ (i - 1) + 1 = i
      BY <3>1
    <3>3. next[i - 1] = Append(order, t)[i]
      BY <2>1, <3>2
    <3> QED BY <1>1, <3>2, <3>3
  <2>4. \A u : \A later \in Nat : u # t /\ later + 1 < MaxCacheSize /\ InItsPlace(u, later, order)
           => InItsPlace(u, later + 1, next)
    <3> SUFFICES ASSUME NEW u, NEW later \in Nat, u # t, later + 1 < MaxCacheSize,
                        InItsPlace(u, later, order)
                 PROVE  InItsPlace(u, later + 1, next)
      OBVIOUS
    <3>1. /\ later + 1 < Len(next) /\ Len(next) - (later + 1) = (Len(order) - later) - 1
          /\ Len(order) - later \in 1 .. Len(order) /\ Len(order) - later # 1
      BY <1>1, <1>3, <2>1 DEF InItsPlace
    <3>2. next[Len(next) - (later + 1)] = u
      BY <2>3, <3>1 DEF InItsPlace
    <3>3. ASSUME NEW i \in 1 .. Len(next), next[i] = u PROVE i = Len(next) - (later + 1)
      <4>1. i # Len(next)
        BY <2>2, <3>3
      <4>2. i + 1 \in 1 .. Len(order) /\ order[i + 1] = u
        BY <2>2, <3>3, <4>1
      <4>3. i + 1 = Len(order) - later
        BY <4>2 DEF InItsPlace
      <4> QED BY <1>1, <2>1, <4>3
    <3> QED BY <3>1, <3>2, <3>3 DEF InItsPlace
  <2>5. (\A i \in 1 .. Len(order) : order[i] # t) => InItsPlace(t, 0, next)
    <3>1. 0 < Len(next) /\ Len(next) - 0 = Len(next)
      BY <1>1, <1>3, <2>1
    <3> QED BY <2>2, <3>1 DEF InItsPlace
  <2>6. next # Append(order, t)
    BY <1>1, <2>1
  <2>7. ASSUME NEW u, u # order[1], (\E i \in 1 .. Len(order) : order[i] = u) \/ u = t
        PROVE  \E i \in 1 .. Len(next) : next[i] = u
    BY <2>2, <2>3, <2>7
  <2> QED BY <1>1, <1>3, <2>1, <2>4, <2>5, <2>6, <2>7
<1> QED BY <1>1, <1>2, <1>3

LEMMA RelayCacheStep == RelayCacheInv /\ [PeelNext]_relayCacheVars => RelayCacheInv'
<1> SUFFICES ASSUME RelayCacheInv, [PeelNext]_relayCacheVars PROVE RelayCacheInv'
  OBVIOUS
<1>0. /\ MaxCacheSize \in Nat \ {0} /\ TagLife \in Nat \ {0} /\ MaxOnionClock \in Nat
      /\ replayOrder \in Seq(Tags) /\ Len(replayOrder) <= MaxCacheSize /\ Len(replayOrder) \in Nat
      /\ onionClock \in 0 .. MaxOnionClock
  BY OnionAssumption DEF OnionAssumption, RelayCacheInv
<1>1. ASSUME NEW t \in Tags, PeelLayer(t) PROVE RelayCacheInv'
  <2>1. PICK again \in BOOLEAN : again <=> \E i \in 1 .. Len(replayOrder) : replayOrder[i] = t
    OBVIOUS
  <2>2. again <=> t \in ToSet(replayOrder)
    <3>1. DOMAIN replayOrder = 1 .. Len(replayOrder)
      BY <1>0
    <3> QED BY <2>1, <3>1 DEF ToSet
  <2>3. /\ onionClock' = onionClock /\ Remember(t) /\ DOMAIN takenIn' = DOMAIN takenIn \cup {t}
        /\ takenIn'[t] = [until |-> onionClock + TagLife, later |-> 0, again |-> again]
        /\ \A u \in DOMAIN takenIn : u # t =>
              takenIn'[u] = [takenIn[u] EXCEPT !.later = IF @ < MaxCacheSize THEN @ + 1 ELSE @]
    <3>1. takenIn' = [u \in DOMAIN takenIn \cup {t} |->
                        IF u = t THEN [until |-> onionClock + TagLife, later |-> 0, again |-> again]
                        ELSE [takenIn[u] EXCEPT !.later = IF @ < MaxCacheSize THEN @ + 1 ELSE @]]
      BY <1>1, <2>2 DEF PeelLayer
    <3> QED BY <1>1, <3>1 DEF PeelLayer
  <2>4. \A u \in DOMAIN takenIn : u # t =>
           /\ takenIn'[u].until = takenIn[u].until /\ takenIn'[u].again = takenIn[u].again
           /\ takenIn'[u].later = IF takenIn[u].later < MaxCacheSize THEN takenIn[u].later + 1
                                  ELSE takenIn[u].later
           /\ takenIn'[u] \in [until : Nat, later : 0 .. MaxCacheSize, again : BOOLEAN]
    <3> SUFFICES ASSUME NEW u \in DOMAIN takenIn, u # t
                 PROVE  /\ takenIn'[u].until = takenIn[u].until
                        /\ takenIn'[u].again = takenIn[u].again
                        /\ takenIn'[u].later = IF takenIn[u].later < MaxCacheSize
                                               THEN takenIn[u].later + 1 ELSE takenIn[u].later
                        /\ takenIn'[u] \in [until : Nat, later : 0 .. MaxCacheSize, again : BOOLEAN]
      OBVIOUS
    <3>1. PICK r \in [until : Nat, later : 0 .. MaxCacheSize, again : BOOLEAN] : r = takenIn[u]
      BY DEF RelayCacheInv
    <3>2. takenIn'[u] = [r EXCEPT !.later = IF r.later < MaxCacheSize THEN r.later + 1 ELSE r.later]
      BY <2>3, <3>1
    <3>3. (IF r.later < MaxCacheSize THEN r.later + 1 ELSE r.later) \in 0 .. MaxCacheSize
      BY <1>0
    <3> QED BY <3>1, <3>2, <3>3
  <2>5. /\ takenIn'[t] \in [until : Nat, later : 0 .. MaxCacheSize, again : BOOLEAN]
        /\ takenIn'[t].until = onionClock + TagLife /\ takenIn'[t].later = 0
        /\ takenIn'[t].again = again
    BY <1>0, <2>1, <2>3
  <2>6. PICK order : order = Append(replayOrder, t)
    OBVIOUS
  <2>7. /\ Len(order) = Len(replayOrder) + 1
        /\ Head(order) = IF replayOrder = <<>> THEN t ELSE replayOrder[1]
    BY <1>0, <2>6
  <2>8. \/ /\ Len(replayOrder) < MaxCacheSize /\ replayOrder' = order
           /\ replayCache' = WithTag(t)
        \/ /\ Len(replayOrder) = MaxCacheSize /\ replayOrder' = Tail(order)
           /\ replayCache' = Restrict(WithTag(t), (DOMAIN replayCache \cup {t}) \ {replayOrder[1]})
    <3>1. Len(order) <= MaxCacheSize <=> Len(replayOrder) < MaxCacheSize
      BY <1>0, <2>7
    <3>2. Len(replayOrder) = MaxCacheSize => Head(order) = replayOrder[1]
      <4>1. Len(<<>>) = 0
        OBVIOUS
      <4> QED BY <1>0, <2>7, <4>1
    <3>3. \/ Len(order) <= MaxCacheSize /\ replayOrder' = order /\ replayCache' = WithTag(t)
          \/ /\ ~(Len(order) <= MaxCacheSize) /\ replayOrder' = Tail(order)
             /\ replayCache' = Restrict(WithTag(t), (DOMAIN replayCache \cup {t}) \ {Head(order)})
      BY <2>3, <2>6 DEF Remember
    <3>4. CASE Len(replayOrder) < MaxCacheSize
      <4>1. Len(order) <= MaxCacheSize
        BY <3>1, <3>4
      <4> QED BY <3>3, <3>4, <4>1
    <3>5. CASE ~(Len(replayOrder) < MaxCacheSize)
      <4>1. ~(Len(order) <= MaxCacheSize) /\ Len(replayOrder) = MaxCacheSize
        BY <1>0, <3>1, <3>5
      <4>2. Head(order) = replayOrder[1]
        BY <3>2, <4>1
      <4> QED BY <3>3, <4>1, <4>2
    <3> QED BY <3>4, <3>5
  <2>9. /\ replayOrder' \in Seq(Tags) /\ Len(replayOrder') <= MaxCacheSize
        /\ \A u : (\E i \in 1 .. Len(replayOrder) : replayOrder[i] = u) \/ u = t
              => \/ \E i \in 1 .. Len(replayOrder') : replayOrder'[i] = u
                 \/ replayOrder' # order /\ u = replayOrder[1]
        /\ (\A i \in 1 .. Len(replayOrder) : replayOrder[i] # t) => InItsPlace(t, 0, replayOrder')
        /\ \A u : \A later \in Nat :
              u # t /\ later + 1 < MaxCacheSize /\ InItsPlace(u, later, replayOrder)
                 => InItsPlace(u, later + 1, replayOrder')
    <3>1. PICK next : next = replayOrder'
      OBVIOUS
    <3>2. \/ Len(replayOrder) < MaxCacheSize /\ next = Append(replayOrder, t)
          \/ Len(replayOrder) = MaxCacheSize /\ next = Tail(Append(replayOrder, t))
      BY <2>6, <2>8, <3>1
    <3>3. /\ next \in Seq(Tags) /\ Len(next) <= MaxCacheSize
          /\ \A u : (\E i \in 1 .. Len(replayOrder) : replayOrder[i] = u) \/ u = t
                => \/ \E i \in 1 .. Len(next) : next[i] = u
                   \/ next # Append(replayOrder, t) /\ u = replayOrder[1]
          /\ (\A i \in 1 .. Len(replayOrder) : replayOrder[i] # t) => InItsPlace(t, 0, next)
          /\ \A u : \A later \in Nat :
                u # t /\ later + 1 < MaxCacheSize /\ InItsPlace(u, later, replayOrder)
                   => InItsPlace(u, later + 1, next)
      BY <1>0, <3>2, OrderMoves, Zenon
    <3> QED BY <2>6, <3>1, <3>3, Zenon
  <2>10. /\ DOMAIN replayCache' \subseteq DOMAIN replayCache \cup {t}
         /\ \A u \in DOMAIN replayCache \cup {t} :
               u \in DOMAIN replayCache' \/ (Len(replayOrder) = MaxCacheSize /\ u = replayOrder[1])
         /\ replayOrder' # order => replayOrder[1] \notin DOMAIN replayCache'
         /\ \A u \in DOMAIN replayCache' :
               replayCache'[u] = IF u = t THEN onionClock + TagLife ELSE replayCache[u]
    <3>1. /\ DOMAIN WithTag(t) = DOMAIN replayCache \cup {t}
          /\ \A u \in DOMAIN replayCache \cup {t} :
                WithTag(t)[u] = IF u = t THEN onionClock + TagLife ELSE replayCache[u]
      BY DEF WithTag
    <3> QED BY <2>8, <3>1 DEF Restrict
  <2>11. \A u \in DOMAIN replayCache' :
            /\ u \in Tags /\ replayCache'[u] \in 0 .. MaxOnionClock + TagLife
            /\ \E i \in 1 .. Len(replayOrder') : replayOrder'[i] = u
    <3>1. onionClock + TagLife \in 0 .. MaxOnionClock + TagLife
      BY <1>0
    <3>2. \A u \in DOMAIN replayCache : /\ u \in Tags
                                        /\ replayCache[u] \in 0 .. MaxOnionClock + TagLife
                                        /\ \E i \in 1 .. Len(replayOrder) : replayOrder[i] = u
      BY DEF RelayCacheInv
    <3>3. \A u : (\E i \in 1 .. Len(replayOrder) : replayOrder[i] = u) \/ u = t
                => \/ \E i \in 1 .. Len(replayOrder') : replayOrder'[i] = u
                   \/ replayOrder' # order /\ u = replayOrder[1]
      BY <2>9
    <3>4. ASSUME NEW u \in DOMAIN replayCache'
          PROVE  \E i \in 1 .. Len(replayOrder') : replayOrder'[i] = u
      <4>1. /\ u \in DOMAIN replayCache \cup {t}
            /\ ~(replayOrder' # order /\ u = replayOrder[1])
        BY <2>10
      <4>2. (\E i \in 1 .. Len(replayOrder) : replayOrder[i] = u) \/ u = t
        BY <3>2, <4>1
      <4> QED BY <3>3, <4>1, <4>2
    <3>5. ASSUME NEW u \in DOMAIN replayCache'
          PROVE  u \in Tags /\ replayCache'[u] \in 0 .. MaxOnionClock + TagLife
      BY <2>10, <3>1, <3>2
    <3> QED BY <3>4, <3>5
  <2>12. ASSUME NEW u \in DOMAIN takenIn', takenIn'[u].later < MaxCacheSize, ~takenIn'[u].again
         PROVE  /\ u \in DOMAIN replayCache' /\ replayCache'[u] = takenIn'[u].until
                /\ InItsPlace(u, takenIn'[u].later, replayOrder')
    <3>1. CASE u = t
      <4>1. \A i \in 1 .. Len(replayOrder) : replayOrder[i] # t
        BY <2>1, <2>5, <2>12, <3>1
      <4>2. Len(replayOrder) = MaxCacheSize => replayOrder[1] # t
        BY <1>0, <4>1
      <4> QED BY <2>5, <2>9, <2>10, <3>1, <4>1, <4>2
    <3>2. CASE u # t
      <4>1. PICK later \in Nat : later = takenIn[u].later
        BY <2>3, <2>12, <3>2 DEF RelayCacheInv
      <4>2. /\ u \in DOMAIN takenIn /\ ~takenIn[u].again /\ later + 1 < MaxCacheSize
            /\ takenIn'[u].later = later + 1 /\ takenIn'[u].until = takenIn[u].until
        BY <1>0, <2>3, <2>4, <2>12, <3>2, <4>1
      <4>3. /\ u \in DOMAIN replayCache /\ replayCache[u] = takenIn[u].until
            /\ InItsPlace(u, later, replayOrder)
        <5>1. later < MaxCacheSize
          BY <1>0, <4>2
        <5> QED BY <4>1, <4>2, <5>1 DEF RelayCacheInv
      <4>4. Len(replayOrder) = MaxCacheSize => replayOrder[1] # u
        BY <1>0, <4>2, <4>3 DEF InItsPlace
      <4> QED BY <2>9, <2>10, <3>2, <4>2, <4>3, <4>4
    <3> QED BY <3>1, <3>2
  <2>13. /\ onionClock' \in 0 .. MaxOnionClock /\ DOMAIN takenIn' \subseteq Tags
         /\ \A u \in DOMAIN takenIn' :
               takenIn'[u] \in [until : Nat, later : 0 .. MaxCacheSize, again : BOOLEAN]
    BY <1>0, <2>3, <2>4, <2>5 DEF RelayCacheInv
  <2> QED BY <2>9, <2>11, <2>12, <2>13 DEF RelayCacheInv
<1>2. CASE OnionTick
  <2>1. onionClock' \in 0 .. MaxOnionClock
    BY <1>0, <1>2 DEF OnionTick
  <2> QED BY <1>2, <2>1 DEF OnionTick, RelayCacheInv
<1>3. CASE UNCHANGED relayCacheVars
  BY <1>3 DEF relayCacheVars, RelayCacheInv
<1> QED BY <1>1, <1>2, <1>3 DEF PeelNext

LEMMA RelayCacheInvHolds == ServicesSpec => []RelayCacheInv
<1>1. ServicesInit => RelayCacheInv
  <2> SUFFICES ASSUME ServicesInit PROVE RelayCacheInv
    OBVIOUS
  <2>1. DOMAIN replayCache = {} /\ replayOrder = <<>> /\ onionClock = 0 /\ DOMAIN takenIn = {}
    BY DEF ServicesInit, OnionInit
  <2>2. /\ MaxCacheSize \in Nat /\ MaxOnionClock \in Nat /\ <<>> \in Seq(Tags) /\ Len(<<>>) = 0
    BY OnionAssumption DEF OnionAssumption
  <2> QED BY <2>1, <2>2 DEF RelayCacheInv
<1>2. RelayCacheInv /\ [ServicesNext]_servicesVars => RelayCacheInv'
  BY RelayCacheStep, EveryStepIsOfAService
<1> HIDE DEF RelayCacheInv
<1> QED BY <1>1, <1>2, PTL DEF ServicesSpec

LEMMA NoCopyPasses == RelayCacheInv => CopiesAreRefused
<1> SUFFICES ASSUME RelayCacheInv PROVE CopiesAreRefused
  OBVIOUS
<1>1. DOMAIN replayOrder = 1 .. Len(replayOrder)
  BY DEF RelayCacheInv
<1>2. DOMAIN replayCache \subseteq ToSet(replayOrder)
  BY <1>1 DEF RelayCacheInv, ToSet
<1>3. \A t \in DOMAIN takenIn :
         takenIn[t].until > onionClock /\ takenIn[t].later < MaxCacheSize /\ ~takenIn[t].again
            => Repeated(t)
  BY DEF RelayCacheInv, Repeated
<1> QED BY <1>2, <1>3 DEF CopiesAreRefused

-----------------------------------------------------------------------------
\* A call that has looked at the time and has not yet stored it; one whose time is out of date; one
\* that stores the time next; one that fills the bucket next; one that may fill it as things are.
Waits(c, d) == c.at \in {"ask", "refill", "stamp"} /\ c.peer = d
Behind(c, d) == Waits(c, d) /\ ticks - c.now > 1
Stamps(c, d) == c.at = "stamp" /\ c.peer = d
Fills(c, d) == c.at = "refill" /\ c.peer = d
Coming(c, d) == ~Stamps(c, d) /\ (Behind(c, d) \/ Fills(c, d) \/ ticks - lastToken[d] > 1)

CallsBehind(d) == {g \in Calls : Behind(call[g], d)}
CallsComing(d) == {g \in Calls : Coming(call[g], d)}

\* How often, times two, a bucket can be filled, where p of n calls may fill it as things are and s
\* have a time out of date, each of which lets all that are not still late fill it once more.
Turns(n, s, p) == 2 * p + s * (2 * n - s + 1)

\* What was answered, what is in the bucket and what it can be filled with are no more than the
\* bound, or nobody has been answered and everybody is about to fill the bucket.
Rationed(a, t, s, p, n) ==
    \/ s = n /\ p = n /\ a = 0
    \/ 2 * (a + t) + Limit * Turns(n, s, p) <= Limit * (n * (n + 3))

RationHolds(d) ==
    Rationed(answered[d], tokens[d], Cardinality(CallsBehind(d)), Cardinality(CallsComing(d)),
             Cardinality(Calls))

RationTypes ==
    /\ call \in [Calls -> CallRecords]
    /\ tokens \in [Callers -> 0 .. Limit] /\ lastToken \in [Callers -> Nat] /\ ticks \in Nat
    /\ answered \in [Callers -> Nat]
    /\ \A g \in Calls : /\ call[g].at \notin {"idle", "slot"} => call[g].peer \in peers
                        /\ call[g].at # "idle" => call[g].now \in 0 .. ticks

RationInv ==
    /\ RationTypes
    /\ \A d \in Callers : RationHolds(d) /\ (d \notin peers => answered[d] = 0)

LEMMA Scaled ==
    ASSUME NEW x \in Int, NEW y \in Int, x <= y PROVE Limit * x <= Limit * y
<1>1. Limit \in Nat
  BY SilentAssumption DEF SilentAssumption
<1> QED BY <1>1

\* A bucket that may be full, of which nobody had anything yet.
LEMMA FullIsRationed ==
    ASSUME NEW n \in Nat, NEW s \in 0 .. n, NEW p \in 0 .. n, NEW t \in 0 .. Limit
    PROVE  Rationed(0, t, s, p, n)
<1>0. Limit \in Nat
  BY SilentAssumption DEF SilentAssumption
<1>1. CASE s = n /\ p = n
  BY <1>1 DEF Rationed
<1>2. CASE ~(s = n /\ p = n)
  <2>1. Turns(n, s, p) <= n * (n + 3) - 2
    <3>1. CASE s = n
      <4>1. p <= n - 1
        BY <1>2, <3>1
      <4>2. Turns(n, n, p) = 2 * p + n * (n + 1)
        BY DEF Turns
      <4>3. n * (n + 3) = n * (n + 1) + 2 * n
        OBVIOUS
      <4> QED BY <3>1, <4>1, <4>2, <4>3
    <3>2. CASE s # n
      <4>1. PICK k \in Nat : n = s + 1 + k
        <5>1. n - s - 1 \in Nat /\ n = s + 1 + (n - s - 1)
          BY <3>2
        <5> QED BY <5>1
      <4>2. s * (2 * n - s + 1) = s * s + 3 * s + 2 * (s * k)
        BY <4>1
      <4>3. n * (n + 3) = s * s + 5 * s + 2 * (s * k) + 4 + 5 * k + k * k
        BY <4>1
      <4>4. k * k \in Nat
        OBVIOUS
      <4> QED BY <4>1, <4>2, <4>3, <4>4 DEF Turns
    <3> QED BY <3>1, <3>2
  <2>2. Turns(n, s, p) \in Int /\ n * (n + 3) \in Int
    BY DEF Turns
  <2>3. Limit * Turns(n, s, p) <= Limit * (n * (n + 3) - 2)
    BY <2>1, <2>2, Scaled
  <2>4. PICK x, y \in Int : x = Turns(n, s, p) /\ y = n * (n + 3)
    BY <2>2
  <2>5. Limit * (y - 2) = Limit * y - 2 * Limit /\ Limit * y \in Int /\ Limit * x \in Int
    BY <1>0
  <2>6. 2 * (0 + t) + Limit * x <= Limit * y
    BY <1>0, <2>3, <2>4, <2>5
  <2> QED BY <2>4, <2>6 DEF Rationed
<1> QED BY <1>1, <1>2

LEMMA FewerTurns ==
    ASSUME NEW n \in Nat, NEW s \in 0 .. n, NEW p \in 0 .. n, NEW r \in 0 .. n, NEW q \in 0 .. n,
           r <= s, q <= p
    PROVE  Turns(n, r, q) <= Turns(n, s, p)
<1>1. PICK k \in Nat : s = r + k
  <2>1. s - r \in Nat /\ s = r + (s - r)
    OBVIOUS
  <2> QED BY <2>1
<1>2. PICK m \in Nat : n = s + m
  <2>1. n - s \in Nat /\ n = s + (n - s)
    OBVIOUS
  <2> QED BY <2>1
<1>3. s * (2 * n - s + 1) = r * (2 * n - r + 1) + k * k + 2 * (k * m) + k
  BY <1>1, <1>2
<1>4. k * k \in Nat /\ k * m \in Nat
  OBVIOUS
<1> QED BY <1>3, <1>4 DEF Turns

\* A time out of date is stored: the calls that are not behind can fill the bucket once more.
LEMMA AnotherTurn ==
    ASSUME NEW n \in Nat, NEW s \in 1 .. n, NEW p \in 0 .. n, NEW q \in 0 .. n, q <= p + (n - s + 1)
    PROVE  Turns(n, s - 1, q) <= Turns(n, s, p)
<1>1. PICK m \in Nat : n = s + m
  <2>1. n - s \in Nat /\ n = s + (n - s)
    OBVIOUS
  <2> QED BY <2>1
<1>2. s * (2 * n - s + 1) = s * s + 2 * (s * m) + s
  BY <1>1
<1>3. (s - 1) * (2 * n - (s - 1) + 1) = s * s + 2 * (s * m) + s - 2 * m - 2
  BY <1>1
<1> QED BY <1>1, <1>2, <1>3 DEF Turns

\* Fewer turns and no more than was there, or a turn taken that fills the bucket.
LEMMA StaysRationed ==
    ASSUME NEW n \in Nat, NEW s \in 0 .. n, NEW p \in 0 .. n, NEW r \in 0 .. n, NEW q \in 0 .. n,
           NEW a \in Nat, NEW t \in 0 .. Limit, NEW b \in Nat, NEW u \in 0 .. Limit,
           Rationed(a, t, s, p, n), Turns(n, r, q) <= Turns(n, s, p),
           s = n /\ p = n => a = b,
           b + u <= a + t \/ (b = a /\ Turns(n, r, q) <= Turns(n, s, p) - 2)
    PROVE  Rationed(b, u, r, q, n)
<1>0. Limit \in Nat
  BY SilentAssumption DEF SilentAssumption
<1>1. CASE s = n /\ p = n /\ a = 0
  <2>1. b = 0
    BY <1>1
  <2> QED BY <2>1, FullIsRationed
<1>2. CASE 2 * (a + t) + Limit * Turns(n, s, p) <= Limit * (n * (n + 3))
  <2>1. Turns(n, r, q) \in Int /\ Turns(n, s, p) \in Int /\ n * (n + 3) \in Int
    BY DEF Turns
  <2>2. PICK x, y, z \in Int : x = Turns(n, r, q) /\ y = Turns(n, s, p) /\ z = n * (n + 3)
    BY <2>1
  <2>3. Limit * x <= Limit * y
    BY <2>2, Scaled
  <2>4. x <= y - 2 => Limit * x <= Limit * y - 2 * Limit
    <3>1. Limit * (y - 2) = Limit * y - 2 * Limit
      BY <1>0
    <3>2. x <= y - 2 => Limit * x <= Limit * (y - 2)
      BY Scaled
    <3> QED BY <3>1, <3>2
  <2>5. Limit * x \in Int /\ Limit * y \in Int /\ Limit * z \in Int
    BY <1>0
  <2>6. 2 * (a + t) + Limit * y <= Limit * z
    BY <1>2, <2>2
  <2>7. b + u <= a + t \/ (b = a /\ x <= y - 2)
    BY <2>2
  <2>8. 2 * (b + u) + Limit * x <= Limit * z
    BY <1>0, <2>3, <2>4, <2>5, <2>6, <2>7
  <2> QED BY <2>2, <2>8 DEF Rationed
<1> QED BY <1>1, <1>2 DEF Rationed

\* The sets of calls are finite and no larger than all calls.
LEMMA CallsAreFew ==
    ASSUME NEW d
    PROVE  /\ IsFiniteSet(CallsBehind(d)) /\ IsFiniteSet(CallsComing(d)) /\ IsFiniteSet(Calls)
           /\ Cardinality(Calls) \in Nat
           /\ Cardinality(CallsBehind(d)) \in 0 .. Cardinality(Calls)
           /\ Cardinality(CallsComing(d)) \in 0 .. Cardinality(Calls)
<1>1. IsFiniteSet(Calls) /\ Cardinality(Calls) \in Nat
  BY FS_CardinalityType, SilentAssumption DEF SilentAssumption
<1>2. CallsBehind(d) \in SUBSET Calls /\ CallsComing(d) \in SUBSET Calls
  BY DEF CallsBehind, CallsComing
<1>3. /\ IsFiniteSet(CallsBehind(d)) /\ Cardinality(CallsBehind(d)) <= Cardinality(Calls)
      /\ IsFiniteSet(CallsComing(d)) /\ Cardinality(CallsComing(d)) <= Cardinality(Calls)
  BY <1>1, <1>2, FS_Subset
<1>4. Cardinality(CallsBehind(d)) \in Nat /\ Cardinality(CallsComing(d)) \in Nat
  BY <1>3, FS_CardinalityType
<1> QED BY <1>1, <1>3, <1>4

LEMMA CallsAreFewAfter ==
    ASSUME NEW d
    PROVE  /\ IsFiniteSet(CallsBehind(d)') /\ IsFiniteSet(CallsComing(d)')
           /\ Cardinality(CallsBehind(d)') \in 0 .. Cardinality(Calls)
           /\ Cardinality(CallsComing(d)') \in 0 .. Cardinality(Calls)
<1>1. IsFiniteSet(Calls) /\ Cardinality(Calls) \in Nat
  BY FS_CardinalityType, SilentAssumption DEF SilentAssumption
<1>2. CallsBehind(d)' \in SUBSET Calls /\ CallsComing(d)' \in SUBSET Calls
  BY DEF CallsBehind, CallsComing
<1>3. /\ IsFiniteSet(CallsBehind(d)') /\ Cardinality(CallsBehind(d)') <= Cardinality(Calls)
      /\ IsFiniteSet(CallsComing(d)') /\ Cardinality(CallsComing(d)') <= Cardinality(Calls)
  BY <1>1, <1>2, FS_Subset
<1>4. Cardinality(CallsBehind(d)') \in Nat /\ Cardinality(CallsComing(d)') \in Nat
  BY <1>3, FS_CardinalityType
<1> QED BY <1>1, <1>3, <1>4

\* Where nothing was answered yet, a bucket may be full.
LEMMA NothingAnswered ==
    ASSUME NEW d, answered'[d] = 0, tokens'[d] \in 0 .. Limit
    PROVE  RationHolds(d)'
<1>1. PICK s, p, n : /\ s = Cardinality(CallsBehind(d)') /\ p = Cardinality(CallsComing(d)')
                     /\ n = Cardinality(Calls)
  OBVIOUS
<1>2. n \in Nat /\ s \in 0 .. n /\ p \in 0 .. n
  BY <1>1, CallsAreFewAfter, CallsAreFew
<1>3. Rationed(0, tokens'[d], s, p, n)
  BY <1>2, FullIsRationed
<1> QED BY <1>1, <1>3 DEF RationHolds, Rationed

\* One call goes on, and gets no further behind.
LEMMA OneCallMoves ==
    ASSUME RationTypes, NEW g \in Calls, NEW c, call' = [call EXCEPT ![g] = c], ticks' = ticks,
           NEW d \in Callers, lastToken'[d] = lastToken[d],
           Behind(c, d) => Behind(call[g], d), Coming(c, d) => Coming(call[g], d),
           tokens'[d] \in 0 .. Limit, answered'[d] \in Nat, RationHolds(d),
           \/ /\ answered'[d] + tokens'[d] <= answered[d] + tokens[d]
              /\ answered'[d] = answered[d] \/ ~Behind(call[g], d)
           \/ answered'[d] = answered[d] /\ Coming(call[g], d) /\ ~Coming(c, d)
              /\ (Behind(c, d) <=> Behind(call[g], d))
    PROVE  RationHolds(d)'
<1> DEFINE S == CallsBehind(d)
<1> DEFINE T == CallsBehind(d)'
<1> DEFINE P == CallsComing(d)
<1> DEFINE Q == CallsComing(d)'
<1>1. /\ call'[g] = c /\ \A q \in Calls : q # g => call'[q] = call[q]
      /\ \A q : Behind(q, d)' <=> ticks' - q.now > 1 /\ Waits(q, d)
  BY DEF RationTypes, Behind, Waits
<1>2. \A y : y # g => (y \in S <=> y \in T)
  BY <1>1 DEF CallsBehind, Behind, Waits
<1>3. \A y : y # g => (y \in P <=> y \in Q)
  BY <1>1 DEF CallsComing, Coming, Behind, Waits, Stamps, Fills
<1>4. /\ g \in S <=> Behind(call[g], d)
      /\ g \in T <=> Behind(c, d)
  BY <1>1 DEF CallsBehind, Behind, Waits
<1>5. /\ g \in P <=> Coming(call[g], d)
      /\ g \in Q <=> Coming(c, d)
  BY <1>1 DEF CallsComing, Coming, Behind, Waits, Stamps, Fills
<1>6. IsFiniteSet(S) /\ IsFiniteSet(P)
  BY CallsAreFew
<1> HIDE DEF S, T, P, Q
<1>7. PICK s, p, r, q, n : /\ s = Cardinality(S) /\ r = Cardinality(T) /\ p = Cardinality(P)
                           /\ q = Cardinality(Q) /\ n = Cardinality(Calls)
  OBVIOUS
<1>8. /\ n \in Nat /\ s \in 0 .. n /\ p \in 0 .. n /\ r \in 0 .. n /\ q \in 0 .. n
  BY <1>7, CallsAreFewAfter, CallsAreFew DEF S, T, P, Q
<1>9. r <= s /\ ((g \in S <=> g \in T) => r = s)
  <2>1. g \in T => g \in S
    BY <1>4
  <2> QED BY <1>2, <1>6, <1>7, <1>8, <2>1, OneDiffers
<1>10. q <= p /\ (g \in P /\ g \notin Q => q = p - 1)
  <2>1. g \in Q => g \in P
    BY <1>5
  <2> QED BY <1>3, <1>6, <1>7, <1>8, <2>1, OneDiffers
<1>11. s = n => g \in S
  <2>1. S \in SUBSET Calls /\ IsFiniteSet(Calls)
    BY CallsAreFew DEF S, CallsBehind
  <2>2. Cardinality(S) = Cardinality(Calls) => S = Calls
    BY <2>1, FS_Subset
  <2> QED BY <1>7, <2>2
<1>12. PICK a, t, b, u : /\ a = answered[d] /\ t = tokens[d] /\ b = answered'[d] /\ u = tokens'[d]
  OBVIOUS
<1>13. a \in Nat /\ b \in Nat /\ t \in 0 .. Limit /\ u \in 0 .. Limit
  BY <1>12 DEF RationTypes
<1>14. Rationed(a, t, s, p, n)
  BY <1>7, <1>12 DEF RationHolds, S, P
<1>15. Turns(n, r, q) <= Turns(n, s, p)
  BY <1>8, <1>9, <1>10, FewerTurns
<1>16. \/ b + u <= a + t /\ (s = n => a = b)
       \/ b = a /\ r = s /\ q = p - 1
  BY <1>4, <1>5, <1>9, <1>10, <1>11, <1>12
<1>17. r = s /\ q = p - 1 => Turns(n, r, q) <= Turns(n, s, p) - 2
  <2>1. s * (2 * n - s + 1) \in Int
    BY <1>8
  <2> QED BY <1>8, <2>1 DEF Turns
<1>18. Rationed(b, u, r, q, n)
  BY <1>8, <1>13, <1>14, <1>15, <1>16, <1>17, StaysRationed
<1> QED BY <1>7, <1>12, <1>18 DEF RationHolds, Rationed, T, Q

\* A time is stored.
LEMMA ATimeIsStored ==
    ASSUME RationTypes, NEW g \in Calls, Stamp(g), NEW d \in Callers, d = call[g].peer,
           call[g].now \in 0 .. ticks, NEW c, call' = [call EXCEPT ![g] = c], c.at = "take",
           RationHolds(d)
    PROVE  RationHolds(d)'
<1> DEFINE S == CallsBehind(d)
<1> DEFINE T == CallsBehind(d)'
<1> DEFINE P == CallsComing(d)
<1> DEFINE Q == CallsComing(d)'
<1>1. /\ call'[g] = c /\ \A q \in Calls : q # g => call'[q] = call[q]
      /\ ticks' = ticks /\ tokens' = tokens /\ answered' = answered /\ call[g].at = "stamp"
      /\ lastToken'[d] = call[g].now
  BY DEF RationTypes, Stamp
<1>2. T = S \ {g}
  BY <1>1 DEF CallsBehind, Behind, Waits
<1>3. g \in S <=> ticks - call[g].now > 1
  BY <1>1 DEF CallsBehind, Behind, Waits
<1>4. g \notin S => Q \subseteq P
  BY <1>1, <1>3 DEF CallsComing, Coming, Behind, Waits, Stamps, Fills
<1>5. Q \subseteq P \cup (Calls \ T)
  BY <1>1 DEF CallsComing, CallsBehind, Coming, Behind, Waits, Stamps, Fills
<1>6. IsFiniteSet(S) /\ IsFiniteSet(P) /\ IsFiniteSet(Calls) /\ T \subseteq Calls
      /\ g \notin P /\ P \subseteq Calls
  BY <1>1, CallsAreFew DEF CallsBehind, CallsComing, Coming, Stamps
<1> HIDE DEF S, T, P, Q
<1>7. PICK s, p, r, q, n : /\ s = Cardinality(S) /\ r = Cardinality(T) /\ p = Cardinality(P)
                           /\ q = Cardinality(Q) /\ n = Cardinality(Calls)
  OBVIOUS
<1>8. /\ n \in Nat /\ s \in 0 .. n /\ p \in 0 .. n /\ r \in 0 .. n /\ q \in 0 .. n
  BY <1>7, CallsAreFewAfter, CallsAreFew DEF S, T, P, Q
<1>9. r = IF g \in S THEN s - 1 ELSE s
  BY <1>2, <1>6, <1>7, FS_RemoveElement
<1>10. p # n
  BY <1>6, <1>7, FS_Subset
<1>11. g \notin S => q <= p
  BY <1>4, <1>6, <1>7, FS_Subset
<1>12. q <= p + (n - r)
  <2> DEFINE rest == Calls \ T
  <2>1. IsFiniteSet(rest) /\ Cardinality(rest) = n - r
    <3>1. IsFiniteSet(Calls \ T) /\ Cardinality(Calls \ T) = Cardinality(Calls) - Cardinality(Calls \cap T)
      BY <1>6, FS_Difference
    <3>2. Calls \cap T = T
      BY <1>6
    <3> QED BY <1>7, <3>1, <3>2
  <2>2. /\ IsFiniteSet(P \cup rest)
        /\ Cardinality(P \cup rest) = p + (n - r) - Cardinality(P \cap rest)
    BY <1>6, <1>7, <2>1, FS_Union
  <2>3. Cardinality(P \cap rest) \in Nat
    BY <1>6, FS_Intersection, FS_CardinalityType
  <2>4. q <= Cardinality(P \cup rest)
    BY <1>5, <1>7, <2>2, FS_Subset
  <2>5. PICK x, y \in Int : x = Cardinality(P \cup rest) /\ y = Cardinality(P \cap rest)
    BY <1>8, <2>2, <2>3
  <2> HIDE DEF rest
  <2> QED BY <1>8, <2>2, <2>3, <2>4, <2>5
<1>13. Turns(n, r, q) <= Turns(n, s, p)
  <2>1. CASE g \in S
    <3>1. s \in 1 .. n /\ r = s - 1 /\ q <= p + (n - s + 1)
      BY <1>8, <1>9, <1>12, <2>1
    <3> QED BY <1>8, <3>1, AnotherTurn
  <2>2. CASE g \notin S
    BY <1>8, <1>9, <1>11, <2>2, FewerTurns
  <2> QED BY <2>1, <2>2
<1>14. PICK a, t : a = answered[d] /\ t = tokens[d]
  OBVIOUS
<1>15. a \in Nat /\ t \in 0 .. Limit
  BY <1>14 DEF RationTypes
<1>16. Rationed(a, t, s, p, n)
  BY <1>7, <1>14 DEF RationHolds, S, P
<1>17. Rationed(a, t, r, q, n)
  <2>1. a + t <= a + t
    BY <1>15, SilentAssumption DEF SilentAssumption
  <2> QED BY <1>8, <1>10, <1>13, <1>15, <1>16, <2>1, StaysRationed
<1> QED BY <1>1, <1>7, <1>14, <1>17 DEF RationHolds, Rationed, T, Q

\* A call that is under way gets another place and another time, or its place only.
CallTypes == [at : {"slot", "ask", "refill", "stamp", "take", "handle"}, peer : Callers,
              now : 0 .. MaxTicks]

Later(r, at, now) == [at |-> at, peer |-> r.peer, now |-> now]

LEMMA ACallGoesOn ==
    ASSUME NEW r \in CallTypes, NEW at, NEW now
    PROVE  /\ [r EXCEPT !.at = at] = Later(r, at, r.now)
           /\ [Later(r, at, r.now) EXCEPT !.now = now] = Later(r, at, now)
<1>1. r = [at |-> r.at, peer |-> r.peer, now |-> r.now]
  BY DEF CallTypes
<1>2. PICK a, b, d : r = [at |-> a, peer |-> b, now |-> d] /\ b = r.peer /\ d = r.now
  BY <1>1
<1>3. [r EXCEPT !.at = at] = [at |-> at, peer |-> b, now |-> d]
  BY <1>2
<1>4. PICK q : q = [at |-> at, peer |-> b, now |-> d]
  OBVIOUS
<1>5. [q EXCEPT !.now = now] = [at |-> at, peer |-> b, now |-> now]
  BY <1>4
<1> QED BY <1>2, <1>3, <1>4, <1>5 DEF Later

\* What the step of a call asks of the invariant: its record, and the callers one by one.
LEMMA RationAfterCall ==
    ASSUME RationInv, NEW g \in Calls, NEW c \in CallRecords, call' = [call EXCEPT ![g] = c],
           ticks' = ticks, peers \subseteq peers',
           c.at \notin {"idle", "slot"} => c.peer \in peers',
           c.at # "idle" => c.now \in 0 .. ticks,
           tokens' \in [Callers -> 0 .. Limit], lastToken' \in [Callers -> Nat],
           answered' \in [Callers -> Nat],
           \A d \in Callers : RationHolds(d)' /\ (d \notin peers' => answered'[d] = 0)
    PROVE  RationInv'
<1>1. /\ call' \in [Calls -> CallRecords] /\ call'[g] = c
      /\ \A q \in Calls : q # g => call'[q] = call[q]
  BY DEF RationInv, RationTypes
<1>2. ASSUME NEW q \in Calls
      PROVE  /\ call'[q].at \notin {"idle", "slot"} => call'[q].peer \in peers'
             /\ call'[q].at # "idle" => call'[q].now \in 0 .. ticks'
  <2>1. CASE q = g
    BY <1>1, <2>1
  <2>2. CASE q # g
    BY <1>1, <2>2 DEF RationInv, RationTypes
  <2> QED BY <2>1, <2>2
<1>3. ticks' \in Nat
  BY DEF RationInv, RationTypes
<1>4. RationTypes'
  BY <1>1, <1>2, <1>3 DEF RationTypes
<1> QED BY <1>4 DEF RationInv

LEMMA OneLess ==
    ASSUME NEW t \in Nat PROVE Max({0, t - 1}) = IF t > 0 THEN t - 1 ELSE 0
<1>1. PICK m : m = IF t > 0 THEN t - 1 ELSE 0
  OBVIOUS
<1>2. m \in {0, t - 1} /\ \A y \in {0, t - 1} : m >= y
  BY <1>1
<1>3. \A x \in {0, t - 1} : (\A y \in {0, t - 1} : x >= y) => x = m
  BY <1>1
<1> QED BY <1>1, <1>2, <1>3 DEF Max

LEMMA RationStep == SilentInv /\ RationInv /\ [SilentNext]_silentVars => RationInv'
<1> SUFFICES ASSUME SilentInv, RationInv, [SilentNext]_silentVars PROVE RationInv'
  OBVIOUS
<1>0. /\ call \in [Calls -> CallRecords] /\ ticks \in 0 .. MaxTicks /\ MaxTicks \in Nat
      /\ Limit \in Nat \ {0} /\ tokens \in [Callers -> 0 .. Limit]
      /\ lastToken \in [Callers -> Nat] /\ answered \in [Callers -> Nat]
  BY SilentAssumption DEF SilentAssumption, SilentInv, RationInv, RationTypes
<1>1. NoCall \in CallRecords /\ NoCall.at = "idle"
  BY DEF CallRecords, NoCall
<1>2. \A g \in Calls : call[g].at # "idle" => call[g] \in CallTypes
  BY <1>0, <1>1 DEF CallRecords, CallTypes
<1>3. \A d \in Callers : RationHolds(d) /\ (d \notin peers => answered[d] = 0)
  BY DEF RationInv
<1>4. /\ RationTypes
      /\ \A g \in Calls : /\ call[g].at \notin {"idle", "slot"} => call[g].peer \in peers
                          /\ call[g].at # "idle" => call[g].now \in 0 .. ticks
  BY DEF RationInv, RationTypes
<1>5. \A r : r \in CallTypes => r \in CallRecords
  BY DEF CallTypes, CallRecords
\* A caller is entered: nothing changes for the others, and for itself only if it is new.
<1>6. ASSUME NEW d \in Callers, Enter(d)
      PROVE  /\ d \in peers' /\ peers \subseteq peers' /\ tokens' \in [Callers -> 0 .. Limit]
             /\ lastToken' \in [Callers -> Nat]
             /\ \A e \in Callers : \/ e \notin peers
                                   \/ tokens'[e] = tokens[e] /\ lastToken'[e] = lastToken[e]
             /\ \A e \in Callers : e # d => tokens'[e] = tokens[e] /\ lastToken'[e] = lastToken[e]
  BY <1>0, <1>6 DEF Enter
<1>7. ASSUME NEW d \in Callers, RegisterCaller(d) PROVE RationInv'
  <2>1. Enter(d) /\ ticks' = ticks /\ call' = call /\ answered' = answered
    BY <1>7 DEF RegisterCaller
  <2>2. RationTypes'
    BY <1>0, <1>4, <1>6, <2>1 DEF RationTypes
  <2>3. ASSUME NEW e \in Callers PROVE RationHolds(e)' /\ (e \notin peers' => answered'[e] = 0)
    <3>1. CASE tokens'[e] = tokens[e] /\ lastToken'[e] = lastToken[e]
      <4>1. CallsBehind(e)' = CallsBehind(e) /\ CallsComing(e)' = CallsComing(e)
        BY <2>1, <3>1 DEF CallsBehind, CallsComing, Behind, Waits, Coming, Stamps, Fills
      <4>2. RationHolds(e)'
        BY <1>3, <2>1, <3>1, <4>1 DEF RationHolds, Rationed
      <4> QED BY <1>3, <1>6, <2>1, <4>2
    <3>2. CASE e \notin peers
      <4>1. answered'[e] = 0 /\ tokens'[e] \in 0 .. Limit
        BY <1>3, <1>6, <2>1, <3>2
      <4> QED BY <4>1, NothingAnswered
    <3> QED BY <1>6, <2>1, <3>1, <3>2
  <2> QED BY <2>2, <2>3 DEF RationInv
<1>8. ASSUME NEW g \in Calls, NEW d \in Callers, TakeSlot(g, d) PROVE RationInv'
  <2>1. PICK c : c = [at |-> "slot", peer |-> d, now |-> 0]
    OBVIOUS
  <2>2. /\ c \in CallRecords /\ c.at = "slot" /\ c.now = 0
    BY <1>0, <2>1 DEF CallRecords
  <2>3. /\ call[g] = NoCall /\ ticks' = ticks /\ call' = [call EXCEPT ![g] = c] /\ peers' = peers
        /\ tokens' = tokens /\ lastToken' = lastToken /\ answered' = answered
    BY <1>8, <2>1 DEF TakeSlot
  <2>4. \A e : ~Behind(c, e) /\ (Coming(c, e) => Coming(call[g], e))
    BY <1>1, <2>2, <2>3 DEF Behind, Waits, Coming, Stamps, Fills
  <2>5. \A e \in Callers : tokens'[e] \in 0 .. Limit /\ answered'[e] \in Nat
                           /\ answered'[e] + tokens'[e] <= answered[e] + tokens[e]
    BY <1>0, <2>3
  <2>6. \A e \in Callers : RationHolds(e)'
    <3> SUFFICES ASSUME NEW e \in Callers PROVE RationHolds(e)'
      OBVIOUS
    <3>1. /\ tokens'[e] \in 0 .. Limit /\ answered'[e] \in Nat /\ lastToken'[e] = lastToken[e]
          /\ answered'[e] + tokens'[e] <= answered[e] + tokens[e] /\ answered'[e] = answered[e]
      BY <2>3, <2>5
    <3>2. /\ Behind(c, e) => Behind(call[g], e)
          /\ Coming(c, e) => Coming(call[g], e)
      BY <2>4
    <3>3. RationHolds(e)
      BY <1>3
    <3> QED BY <1>4, <2>3, <3>1, <3>2, <3>3, OneCallMoves
  <2>7. /\ c.now \in 0 .. ticks /\ peers \subseteq peers' /\ tokens' \in [Callers -> 0 .. Limit]
        /\ lastToken' \in [Callers -> Nat] /\ answered' \in [Callers -> Nat]
        /\ \A e \in Callers : e \notin peers' => answered'[e] = 0
    BY <1>0, <1>3, <2>2, <2>3
  <2> QED BY <2>2, <2>3, <2>6, <2>7, RationAfterCall
<1>9. ASSUME NEW g \in Calls, FindPeer(g) PROVE RationInv'
  <2>1. PICK r \in CallTypes : r = call[g] /\ r.at = "slot"
    BY <1>2, <1>9 DEF FindPeer
  <2>2. PICK d \in Callers : d = r.peer
    BY <2>1 DEF CallTypes
  <2>3. PICK c : c = [at |-> "ask", peer |-> d, now |-> ticks]
    OBVIOUS
  <2>4. /\ Enter(d) /\ call' = [call EXCEPT ![g] = c] /\ ticks' = ticks /\ answered' = answered
    <3>0. PICK q : q = [r EXCEPT !.at = "ask"]
      OBVIOUS
    <3>1. call' = [call EXCEPT ![g] = [q EXCEPT !.now = ticks]]
      BY <1>9, <2>1, <3>0 DEF FindPeer
    <3>2. q = Later(r, "ask", r.now) /\ [Later(r, "ask", r.now) EXCEPT !.now = ticks] = Later(r, "ask", ticks)
      BY <3>0, ACallGoesOn
    <3> QED BY <1>9, <2>1, <2>2, <2>3, <3>1, <3>2 DEF FindPeer, Later
  <2>5. c \in CallRecords /\ c.at = "ask" /\ c.peer = d /\ c.now = ticks
    BY <1>0, <2>3 DEF CallRecords
  <2>6. \A e : ~Behind(c, e) /\ (Coming(c, e) => Coming(call[g], e))
    BY <1>0, <2>1, <2>5 DEF Behind, Waits, Coming, Stamps, Fills
  <2>7. ASSUME NEW e \in Callers PROVE RationHolds(e)' /\ (e \notin peers' => answered'[e] = 0)
    <3>1. CASE tokens'[e] = tokens[e] /\ lastToken'[e] = lastToken[e]
      <4>1. /\ tokens'[e] \in 0 .. Limit /\ answered'[e] \in Nat
            /\ answered'[e] + tokens'[e] <= answered[e] + tokens[e] /\ answered'[e] = answered[e]
        BY <1>0, <2>4, <3>1
      <4>2. RationHolds(e)'
        BY <1>3, <1>4, <2>4, <2>6, <3>1, <4>1, OneCallMoves
      <4> QED BY <1>3, <1>6, <2>4, <4>2
    <3>2. CASE e \notin peers
      <4>1. answered'[e] = 0 /\ tokens'[e] \in 0 .. Limit
        BY <1>3, <1>6, <2>4, <3>2
      <4> QED BY <4>1, NothingAnswered
    <3> QED BY <1>6, <2>4, <3>1, <3>2
  <2>8. /\ d \in peers' /\ peers \subseteq peers' /\ tokens' \in [Callers -> 0 .. Limit]
        /\ lastToken' \in [Callers -> Nat] /\ answered' \in [Callers -> Nat] /\ ticks \in 0 .. ticks
    BY <1>0, <1>6, <2>4
  <2> QED BY <2>4, <2>5, <2>7, <2>8, RationAfterCall
\* A call goes on without leave to answer.
<1>10. ASSUME NEW g \in Calls, NEW c \in CallTypes, call' = [call EXCEPT ![g] = c],
              call[g] \in CallTypes, c.peer = call[g].peer, c.now \in {call[g].now, 0},
              call[g].at # "slot",
              ticks' = ticks, peers' = peers, lastToken' = lastToken, answered' = answered,
              tokens' \in [Callers -> 0 .. Limit],
              \A e \in Callers : \/ /\ Behind(c, e) => Behind(call[g], e)
                                    /\ Coming(c, e) => Coming(call[g], e)
                                    /\ tokens'[e] <= tokens[e]
                                 \/ /\ Coming(call[g], e) /\ ~Coming(c, e)
                                    /\ Behind(c, e) <=> Behind(call[g], e)
       PROVE  RationInv'
  <2>1. \A e \in Callers : RationHolds(e)'
    <3> SUFFICES ASSUME NEW e \in Callers PROVE RationHolds(e)'
      OBVIOUS
    <3>1. /\ tokens'[e] \in 0 .. Limit /\ answered'[e] \in Nat /\ answered'[e] = answered[e]
          /\ lastToken'[e] = lastToken[e]
          /\ tokens'[e] <= tokens[e] => answered'[e] + tokens'[e] <= answered[e] + tokens[e]
      BY <1>0, <1>10
    <3>2. /\ Behind(c, e) => Behind(call[g], e)
          /\ Coming(c, e) => Coming(call[g], e)
          /\ \/ tokens'[e] <= tokens[e]
             \/ /\ Coming(call[g], e) /\ ~Coming(c, e)
                /\ Behind(c, e) <=> Behind(call[g], e)
      BY <1>10
    <3>3. RationHolds(e)
      BY <1>3
    <3> QED BY <1>4, <1>10, <3>1, <3>2, <3>3, OneCallMoves
  <2>2. c \in CallRecords /\ answered' \in [Callers -> Nat] /\ lastToken' \in [Callers -> Nat]
    BY <1>0, <1>5, <1>10
  <2>3. c.peer \in peers /\ c.now \in 0 .. ticks
    <3>1. call[g].at \notin {"idle", "slot"}
      BY <1>10 DEF CallTypes
    <3> QED BY <1>0, <1>4, <1>10, <3>1
  <2>4. \A d \in Callers : d \notin peers' => answered'[d] = 0
    BY <1>3, <1>10
  <2> QED BY <1>10, <2>1, <2>2, <2>3, <2>4, RationAfterCall
<1>11. ASSUME NEW g \in Calls, AskRefill(g) PROVE RationInv'
  <2>1. PICK r \in CallTypes : r = call[g] /\ r.at = "ask"
    BY <1>2, <1>11 DEF AskRefill
  <2>2. PICK old \in BOOLEAN : old <=> r.now - lastToken[r.peer] > 1
    OBVIOUS
  <2>3. PICK c : c = [at |-> IF old THEN "refill" ELSE "take", peer |-> r.peer,
                      now |-> IF old THEN r.now ELSE 0]
    OBVIOUS
  <2>4. call' = [call EXCEPT ![g] = c]
    <3>1. PICK at, now : at = (IF old THEN "refill" ELSE "take") /\ now = IF old THEN r.now ELSE 0
      OBVIOUS
    <3>2. PICK q : q = [r EXCEPT !.at = at]
      OBVIOUS
    <3>3. call' = [call EXCEPT ![g] = [q EXCEPT !.now = now]]
      BY <1>11, <2>1, <2>2, <3>1, <3>2 DEF AskRefill
    <3>4. q = Later(r, at, r.now) /\ [Later(r, at, r.now) EXCEPT !.now = now] = Later(r, at, now)
      BY <3>2, ACallGoesOn
    <3> QED BY <2>3, <3>1, <3>3, <3>4 DEF Later
  <2>5. /\ c \in CallTypes /\ c.at = (IF old THEN "refill" ELSE "take") /\ c.peer = r.peer
        /\ c.now = IF old THEN r.now ELSE 0
    BY <1>0, <2>1, <2>3 DEF CallTypes
  <2>6. /\ r.now \in 0 .. ticks /\ r.peer \in Callers
    BY <1>4, <2>1 DEF CallTypes
  <2>7. ASSUME NEW e \in Callers
        PROVE  (Behind(c, e) => Behind(r, e)) /\ (Coming(c, e) => Coming(r, e))
    <3>1. lastToken[e] \in Nat /\ ticks \in Nat
      BY <1>0
    <3> QED BY <2>1, <2>2, <2>5, <2>6, <3>1 DEF Behind, Waits, Coming, Stamps, Fills
  <2>8. /\ ticks' = ticks /\ peers' = peers /\ lastToken' = lastToken /\ answered' = answered
        /\ tokens' = tokens
    BY <1>11 DEF AskRefill
  <2>9. \A e \in Callers : tokens'[e] <= tokens[e]
    BY <1>0, <2>8
  <2> QED BY <1>0, <1>10, <2>1, <2>4, <2>5, <2>7, <2>8, <2>9
<1>12. ASSUME NEW g \in Calls, Refill(g) PROVE RationInv'
  <2>1. PICK r \in CallTypes : r = call[g] /\ r.at = "refill"
    BY <1>2, <1>12 DEF Refill
  <2>2. PICK c : c = [at |-> "stamp", peer |-> r.peer, now |-> r.now]
    OBVIOUS
  <2>3. call' = [call EXCEPT ![g] = c]
    <3>1. call' = [call EXCEPT ![g] = [r EXCEPT !.at = "stamp"]]
      BY <1>12, <2>1 DEF Refill
    <3> QED BY <2>2, <3>1, ACallGoesOn DEF Later
  <2>4. c \in CallTypes /\ c.at = "stamp" /\ c.peer = r.peer /\ c.now = r.now /\ r.peer \in Callers
    BY <2>1, <2>2 DEF CallTypes
  <2>5. /\ tokens' = [tokens EXCEPT ![r.peer] = Limit] /\ ticks' = ticks /\ peers' = peers
        /\ lastToken' = lastToken /\ answered' = answered
    BY <1>12, <2>1 DEF Refill
  <2>6. ASSUME NEW e \in Callers
        PROVE  /\ Behind(c, e) <=> Behind(r, e)
               /\ e # r.peer => (Coming(c, e) <=> Coming(r, e)) /\ tokens'[e] <= tokens[e]
               /\ e = r.peer => Coming(r, e) /\ ~Coming(c, e)
    <3>1. e # r.peer => tokens'[e] = tokens[e]
      BY <1>0, <2>5
    <3>2. tokens[e] \in Nat
      BY <1>0
    <3> QED BY <2>1, <2>4, <3>1, <3>2 DEF Behind, Waits, Coming, Stamps, Fills
  <2>7. tokens' \in [Callers -> 0 .. Limit]
    <3>1. Limit \in 0 .. Limit
      BY <1>0
    <3> QED BY <1>0, <2>5, <3>1
  <2> QED BY <1>10, <2>1, <2>3, <2>4, <2>5, <2>6, <2>7
<1>13. ASSUME NEW g \in Calls, Stamp(g) PROVE RationInv'
  <2>1. PICK r \in CallTypes : r = call[g] /\ r.at = "stamp"
    BY <1>2, <1>13 DEF Stamp
  <2>2. PICK c : c = [at |-> "take", peer |-> r.peer, now |-> 0]
    OBVIOUS
  <2>3. call' = [call EXCEPT ![g] = c]
    <3>0. PICK q : q = [r EXCEPT !.at = "take"]
      OBVIOUS
    <3>1. call' = [call EXCEPT ![g] = [q EXCEPT !.now = 0]]
      BY <1>13, <2>1, <3>0 DEF Stamp
    <3>2. q = Later(r, "take", r.now) /\ [Later(r, "take", r.now) EXCEPT !.now = 0] = Later(r, "take", 0)
      BY <3>0, ACallGoesOn
    <3> QED BY <2>2, <3>1, <3>2 DEF Later
  <2>4. PICK d \in Callers : d = r.peer /\ c.at = "take" /\ c.peer = d /\ c.now = 0
    BY <2>1, <2>2 DEF CallTypes
  <2>5. c \in CallTypes /\ r.now \in 0 .. ticks
    BY <1>0, <1>4, <2>1, <2>2 DEF CallTypes
  <2>6. /\ lastToken' = [lastToken EXCEPT ![d] = r.now] /\ ticks' = ticks /\ peers' = peers
        /\ tokens' = tokens /\ answered' = answered
    BY <1>13, <2>1, <2>4 DEF Stamp
  <2>7. RationHolds(d)'
    BY <1>3, <1>4, <1>13, <2>1, <2>3, <2>4, <2>5, ATimeIsStored
  <2>8. ASSUME NEW e \in Callers, e # d PROVE RationHolds(e)'
    <3>1. /\ tokens'[e] \in 0 .. Limit /\ answered'[e] \in Nat /\ answered'[e] = answered[e]
          /\ lastToken'[e] = lastToken[e]
          /\ answered'[e] + tokens'[e] <= answered[e] + tokens[e]
      BY <1>0, <2>6, <2>8
    <3>2. (Behind(c, e) => Behind(r, e)) /\ (Coming(c, e) => Coming(r, e))
      BY <2>1, <2>4, <2>8 DEF Behind, Waits, Coming, Stamps, Fills
    <3> QED BY <1>3, <1>4, <2>1, <2>3, <2>6, <3>1, <3>2, OneCallMoves
  <2>9. /\ c \in CallRecords /\ answered' \in [Callers -> Nat] /\ lastToken' \in [Callers -> Nat]
        /\ tokens' \in [Callers -> 0 .. Limit]
        /\ c.peer \in peers' /\ c.now \in 0 .. ticks /\ peers \subseteq peers'
    BY <1>0, <1>4, <1>5, <2>1, <2>4, <2>5, <2>6
  <2>10. \A e \in Callers : RationHolds(e)' /\ (e \notin peers' => answered'[e] = 0)
    BY <1>3, <2>6, <2>7, <2>8
  <2> QED BY <2>3, <2>6, <2>9, <2>10, RationAfterCall
\* A call ends, or is let through and takes a token.
<1>14. ASSUME NEW g \in Calls, NEW c \in CallRecords, call' = [call EXCEPT ![g] = c],
              call[g] \in CallTypes, call[g].at \in {"take", "handle"},
              \/ c = NoCall
              \/ c.at = "handle" /\ c.peer = call[g].peer /\ c.now = call[g].now,
              ticks' = ticks, peers' = peers, lastToken' = lastToken,
              tokens' \in [Callers -> 0 .. Limit], answered' \in [Callers -> Nat],
              \A e \in Callers : /\ answered'[e] + tokens'[e] <= answered[e] + tokens[e]
                                 /\ answered'[e] = answered[e] \/ e = call[g].peer
       PROVE  RationInv'
  <2>1. \A e \in Callers : RationHolds(e)'
    <3> SUFFICES ASSUME NEW e \in Callers PROVE RationHolds(e)'
      OBVIOUS
    <3>1. /\ ~Behind(call[g], e) /\ ~Behind(c, e)
          /\ Coming(c, e) => Coming(call[g], e)
      BY <1>1, <1>14 DEF Behind, Waits, Coming, Stamps, Fills
    <3>2. /\ tokens'[e] \in 0 .. Limit /\ answered'[e] \in Nat /\ lastToken'[e] = lastToken[e]
          /\ answered'[e] + tokens'[e] <= answered[e] + tokens[e]
      BY <1>14
    <3> QED BY <1>3, <1>4, <1>14, <3>1, <3>2, OneCallMoves
  <2>2. /\ c.at \notin {"idle", "slot"} => c.peer \in peers'
        /\ c.at # "idle" => c.now \in 0 .. ticks
    BY <1>1, <1>4, <1>14
  <2>3. \A d \in Callers : d \notin peers' => answered'[d] = 0
    BY <1>3, <1>4, <1>14
  <2>4. lastToken' \in [Callers -> Nat] /\ peers \subseteq peers'
    BY <1>0, <1>14
  <2> QED BY <1>14, <2>1, <2>2, <2>3, <2>4, RationAfterCall
<1>15. ASSUME NEW g \in Calls, TakeToken(g) PROVE RationInv'
  <2>1. PICK r \in CallTypes : r = call[g] /\ r.at = "take"
    BY <1>2, <1>15 DEF TakeToken
  <2>2. PICK d \in Callers : d = r.peer
    BY <2>1 DEF CallTypes
  <2>3. PICK t \in 0 .. Limit : t = tokens[d]
    BY <1>0
  <2>4. tokens' = [tokens EXCEPT ![d] = IF t > 0 THEN t - 1 ELSE 0]
    <3>1. tokens' = [tokens EXCEPT ![d] = Max({0, t - 1})]
      BY <1>15, <2>1, <2>2, <2>3 DEF TakeToken
    <3>2. Max({0, t - 1}) = IF t > 0 THEN t - 1 ELSE 0
      BY OneLess
    <3> QED BY <3>1, <3>2
  <2>5. tokens' \in [Callers -> 0 .. Limit]
    <3>1. (IF t > 0 THEN t - 1 ELSE 0) \in 0 .. Limit
      BY <1>0
    <3> QED BY <1>0, <2>4, <3>1
  <2>6. peers' = peers /\ lastToken' = lastToken /\ ticks' = ticks
    BY <1>15 DEF TakeToken
  <2>7. CASE t > 0
    <3>1. PICK c : c = [at |-> "handle", peer |-> d, now |-> r.now]
      OBVIOUS
    <3>2. call' = [call EXCEPT ![g] = c] /\ answered' = [answered EXCEPT ![d] = answered[d] + 1]
      <4>1. call' = [call EXCEPT ![g] = [r EXCEPT !.at = "handle"]]
        BY <1>15, <2>1, <2>2, <2>3, <2>7 DEF TakeToken
      <4> QED BY <1>15, <2>1, <2>2, <2>3, <2>7, <3>1, <4>1, ACallGoesOn DEF TakeToken, Later
    <3>3. c \in CallRecords /\ c.at = "handle" /\ c.peer = r.peer /\ c.now = r.now
      <4>1. c \in CallTypes
        BY <2>1, <2>2, <3>1 DEF CallTypes
      <4> QED BY <1>5, <2>2, <3>1, <4>1
    <3>4. answered' \in [Callers -> Nat]
      BY <1>0, <3>2
    <3>5. ASSUME NEW e \in Callers
          PROVE  /\ answered'[e] + tokens'[e] <= answered[e] + tokens[e]
                 /\ answered'[e] = answered[e] \/ e = call[g].peer
      <4>1. CASE e = d
        <5>1. answered'[e] = answered[e] + 1 /\ tokens'[e] = t - 1 /\ answered[e] \in Nat
          BY <1>0, <2>4, <2>7, <3>2, <4>1
        <5> QED BY <2>1, <2>2, <2>3, <4>1, <5>1
      <4>2. CASE e # d
        <5>1. /\ answered'[e] = answered[e] /\ tokens'[e] = tokens[e]
              /\ answered[e] \in Nat /\ tokens[e] \in Nat
          BY <1>0, <2>4, <3>2, <4>2
        <5> QED BY <5>1
      <4> QED BY <4>1, <4>2
    <3> QED BY <1>14, <2>1, <2>5, <2>6, <3>2, <3>3, <3>4, <3>5
  <2>8. CASE ~(t > 0)
    <3>1. call' = [call EXCEPT ![g] = NoCall] /\ answered' = answered
      BY <1>15, <2>1, <2>2, <2>3, <2>8 DEF TakeToken
    <3>2. \A e \in Callers : tokens'[e] = tokens[e] /\ tokens[e] \in Nat /\ answered[e] \in Nat
      BY <1>0, <2>3, <2>4, <2>8
    <3>3. \A e \in Callers : /\ answered'[e] + tokens'[e] <= answered[e] + tokens[e]
                             /\ answered'[e] = answered[e] \/ e = call[g].peer
      BY <3>1, <3>2
    <3>4. answered' \in [Callers -> Nat]
      BY <1>0, <3>1
    <3> QED BY <1>1, <1>14, <2>1, <2>5, <2>6, <3>1, <3>3, <3>4
  <2> QED BY <2>7, <2>8
<1>16. ASSUME NEW g \in Calls, Answer(g) PROVE RationInv'
  <2>1. /\ call[g].at = "handle" /\ call' = [call EXCEPT ![g] = NoCall] /\ ticks' = ticks
        /\ peers' = peers /\ lastToken' = lastToken /\ tokens' = tokens /\ answered' = answered
    BY <1>16 DEF Answer
  <2>2. \A e \in Callers : /\ answered'[e] + tokens'[e] <= answered[e] + tokens[e]
                           /\ answered'[e] = answered[e] \/ e = call[g].peer
    BY <1>0, <2>1
  <2> QED BY <1>0, <1>1, <1>2, <1>14, <2>1, <2>2
<1>17. CASE SilentTick
  <2>1. /\ ticks' = ticks + 1 /\ peers' = peers /\ call' = call /\ lastToken' = lastToken
        /\ tokens' = tokens /\ answered' = [d \in Callers |-> 0]
    BY <1>17 DEF SilentTick
  <2>2. \A d \in Callers : answered'[d] = 0 /\ tokens'[d] \in 0 .. Limit
    BY <1>0, <2>1
  <2>3. \A d \in Callers : RationHolds(d)'
    BY <2>2, NothingAnswered
  <2>4. \A k \in Int : k \in 0 .. ticks => k \in 0 .. ticks'
    BY <1>0, <2>1
  <2>5. RationTypes'
    <3>1. ticks' \in Nat /\ answered' \in [Callers -> Nat]
      BY <1>0, <2>1
    <3> QED BY <1>4, <2>1, <2>4, <3>1 DEF RationTypes
  <2> QED BY <2>2, <2>3, <2>5 DEF RationInv
<1>18. CASE UNCHANGED silentVars
  <2>1. \A d \in Callers : CallsBehind(d)' = CallsBehind(d) /\ CallsComing(d)' = CallsComing(d)
    BY <1>18 DEF silentVars, CallsBehind, CallsComing, Behind, Waits, Coming, Stamps, Fills
  <2>2. \A d \in Callers : RationHolds(d)'
    BY <1>3, <1>18, <2>1 DEF silentVars, RationHolds, Rationed
  <2>3. RationTypes'
    BY <1>4, <1>18 DEF silentVars, RationTypes
  <2> QED BY <1>3, <1>18, <2>2, <2>3 DEF silentVars, RationInv
<1> QED BY <1>7, <1>8, <1>9, <1>11, <1>12, <1>13, <1>15, <1>16, <1>17, <1>18 DEF SilentNext

\* What the invariant says of the rations.
LEMMA BucketsHold == RationInv => BucketsAreBounded
<1> SUFFICES ASSUME RationInv, NEW d \in Callers
             PROVE  2 * answered[d] <= Limit * (Cardinality(Calls) * (Cardinality(Calls) + 3))
  BY DEF BucketsAreBounded
<1>1. PICK s, p, n : /\ s = Cardinality(CallsBehind(d)) /\ p = Cardinality(CallsComing(d))
                     /\ n = Cardinality(Calls)
  OBVIOUS
<1>2. n \in Nat /\ s \in 0 .. n /\ p \in 0 .. n
  BY <1>1, CallsAreFew
<1>3. /\ Rationed(answered[d], tokens[d], s, p, n) /\ answered[d] \in Nat /\ tokens[d] \in Nat
      /\ Limit \in Nat
  BY <1>1, SilentAssumption DEF SilentAssumption, RationInv, RationHolds, RationTypes
<1>4. 0 <= Turns(n, s, p) /\ Turns(n, s, p) \in Int /\ n * (n + 3) \in Nat
  <2>1. 2 * n - s + 1 \in Nat
    BY <1>2
  <2>2. s * (2 * n - s + 1) \in Nat
    BY <1>2, <2>1
  <2> QED BY <1>2, <2>2 DEF Turns
<1>5. PICK x, y \in Int : x = Turns(n, s, p) /\ y = n * (n + 3) /\ 0 <= x /\ 0 <= y
  BY <1>4
<1>6. 0 <= Limit * x /\ 0 <= Limit * y /\ Limit * x \in Int /\ Limit * y \in Int
  BY <1>3, <1>5
<1>7. answered[d] = 0 \/ 2 * (answered[d] + tokens[d]) + Limit * x <= Limit * y
  BY <1>3, <1>5 DEF Rationed
<1>8. 2 * answered[d] <= Limit * y
  BY <1>3, <1>6, <1>7
<1> QED BY <1>1, <1>5, <1>8

LEMMA RationInvHolds == ServicesSpec => []RationInv
<1>1. ServicesInit => RationInv
  <2> SUFFICES ASSUME ServicesInit PROVE RationInv
    OBVIOUS
  <2>1. /\ call = [g \in Calls |-> NoCall] /\ ticks = 0 /\ peers = {}
        /\ tokens = [d \in Callers |-> 0] /\ lastToken = [d \in Callers |-> 0]
        /\ answered = [d \in Callers |-> 0] /\ Limit \in Nat
    BY SilentAssumption DEF SilentAssumption, ServicesInit, SilentInit
  <2>2. RationTypes
    BY <2>1 DEF RationTypes, CallRecords, NoCall
  <2>3. ASSUME NEW d \in Callers PROVE RationHolds(d) /\ (d \notin peers => answered[d] = 0)
    <3>1. PICK s, p, n : /\ s = Cardinality(CallsBehind(d)) /\ p = Cardinality(CallsComing(d))
                         /\ n = Cardinality(Calls)
      OBVIOUS
    <3>2. n \in Nat /\ s \in 0 .. n /\ p \in 0 .. n
      BY <3>1, CallsAreFew
    <3>3. answered[d] = 0 /\ tokens[d] = 0 /\ 0 \in 0 .. Limit
      BY <2>1
    <3>4. Rationed(0, 0, s, p, n)
      BY <3>2, <3>3, FullIsRationed
    <3> QED BY <3>1, <3>3, <3>4 DEF RationHolds
  <2> QED BY <2>2, <2>3 DEF RationInv
<1>2. SilentInv /\ RationInv /\ [ServicesNext]_servicesVars => RationInv'
  BY RationStep, EveryStepIsOfAService
<1> HIDE DEF RationInv, SilentInv
<1> QED BY <1>1, <1>2, SilentInvHolds, PTL DEF ServicesSpec

\* Whatever is rationed stays within its ration, in every state the services get into
\* (silent_call_response.go:158-169, mobility_anchor.go:199-205, delegation.go:83-115,
\* uin_identity.go:169-206, sphinx_onion.go:93-110).
THEOREM RationsAreKept == ServicesSpec => []RationsHold
<1>1. BudgetInv => ResyncBudgetHolds
  BY DEF BudgetInv, ResyncBudgetHolds
<1>2. DelegationInv => TierNeverRises /\ RevokedKeysStayOut
  BY LongerChains DEF DelegationInv
<1>3. RationInv /\ BudgetInv /\ DelegationInv /\ RelayCacheInv => RationsHold
  BY <1>1, <1>2, BucketsHold, NoCopyPasses DEF RationsHold
<1> HIDE DEF RationInv, BudgetInv, DelegationInv, RelayCacheInv
<1> QED BY <1>3, RationInvHolds, BudgetInvHolds, DelegationInvHolds, RelayCacheInvHolds, PTL

-----------------------------------------------------------------------------
\* A stream is that of a device the registry has.
ShadowInv ==
    /\ ShadowTypeOK /\ DeviceTablesAgree
    /\ DOMAIN devicesByVIP \subseteq Int
    /\ \A s \in Forwards : forward[s].at # "none" => forward[s].device \in DOMAIN devices

StreamRecords == [at : {"allowed", "connected"}, device : Devices, port : Ports,
                  host : Hosts \cup {"unread"}]

DeviceRecords == [host : Hosts, type : DeviceTypes, ports : SUBSET Ports,
                  address : FirstAddress .. LastAddress]

LEMMA ShadowStep == ShadowInv /\ [ShadowNext]_shadowVars => ShadowInv'
<1> SUFFICES ASSUME ShadowInv, [ShadowNext]_shadowVars PROVE ShadowInv'
  OBVIOUS
<1>0. /\ DOMAIN devices \subseteq Devices /\ \A d \in DOMAIN devices : devices[d] \in DeviceRecords
      /\ nextIPIndex \in FirstAddress .. LastAddress + 1 /\ FirstAddress \in Nat /\ LastAddress \in Nat
      /\ forward \in [Forwards -> {NoStream} \cup StreamRecords]
  BY ShadowAssumption DEF ShadowAssumption, ShadowInv, ShadowTypeOK, DeviceRecords, StreamRecords
<1>1. NoStream.at = "none" /\ \A q \in StreamRecords : q.at # "none"
  BY DEF NoStream, StreamRecords
\* The records keep their addresses.
<1>2. ASSUME NEW d \in Devices, NEW h \in Hosts, NEW p \in SUBSET Ports, UpdateDevice(d, h, p)
      PROVE  ShadowInv'
  <2>1. PICK r \in DeviceRecords : r = devices[d]
    BY <1>0, <1>2 DEF UpdateDevice
  <2>2. PICK q : q = [r EXCEPT !.host = h]
    OBVIOUS
  <2>3. PICK c : c = [q EXCEPT !.ports = p]
    OBVIOUS
  <2>4. q \in DeviceRecords /\ q.address = r.address
    BY <2>2 DEF DeviceRecords
  <2>5. c \in DeviceRecords /\ c.address = r.address
    BY <2>3, <2>4 DEF DeviceRecords
  <2>6. /\ d \in DOMAIN devices /\ devices' = [devices EXCEPT ![d] = c]
        /\ devicesByVIP' = devicesByVIP /\ nextIPIndex' = nextIPIndex /\ forward' = forward
    BY <1>2, <2>1, <2>2, <2>3 DEF UpdateDevice
  <2>7. /\ DOMAIN devices' = DOMAIN devices
        /\ \A e \in DOMAIN devices : devices'[e] \in DeviceRecords /\ devices'[e].address = devices[e].address
    BY <1>0, <2>1, <2>5, <2>6
  <2>8. ShadowTypeOK'
    BY <1>0, <2>6, <2>7 DEF ShadowTypeOK, DeviceRecords, StreamRecords
  <2>9. DeviceTablesAgree'
    BY <2>6, <2>7 DEF ShadowInv, DeviceTablesAgree
  <2> QED BY <2>6, <2>7, <2>8, <2>9 DEF ShadowInv
\* The address of a new device is one that no device has.
<1>3. ASSUME NEW d \in Devices, NEW h \in Hosts, NEW p \in SUBSET Ports, NEW t \in DeviceTypes,
             EnrollDevice(d, h, t, p)
      PROVE  ShadowInv'
  <2>1. PICK c, n : c = [host |-> h, type |-> t, ports |-> p, address |-> nextIPIndex] /\ n = nextIPIndex
    OBVIOUS
  <2>2. /\ d \notin DOMAIN devices /\ n <= LastAddress /\ devices' = Put(devices, d, c)
        /\ devicesByVIP' = Put(devicesByVIP, n, d) /\ nextIPIndex' = n + 1 /\ forward' = forward
    BY <1>3, <2>1 DEF EnrollDevice
  <2>3. n \in FirstAddress .. LastAddress /\ c \in DeviceRecords /\ c.address = n
    BY <1>0, <2>1, <2>2 DEF DeviceRecords
  <2>4. /\ DOMAIN devices' = DOMAIN devices \cup {d} /\ devices'[d] = c
        /\ \A e \in DOMAIN devices : e # d => devices'[e] = devices[e]
        /\ DOMAIN devicesByVIP' = DOMAIN devicesByVIP \cup {n} /\ devicesByVIP'[n] = d
        /\ \A y \in DOMAIN devicesByVIP : y # n => devicesByVIP'[y] = devicesByVIP[y]
    <3>1. /\ DOMAIN Put(devices, d, c) = DOMAIN devices \cup {d} /\ Put(devices, d, c)[d] = c
          /\ \A e \in DOMAIN devices : e # d => Put(devices, d, c)[e] = devices[e]
      BY DEF Put
    <3>2. /\ DOMAIN Put(devicesByVIP, n, d) = DOMAIN devicesByVIP \cup {n}
          /\ Put(devicesByVIP, n, d)[n] = d
          /\ \A y \in DOMAIN devicesByVIP : y # n => Put(devicesByVIP, n, d)[y] = devicesByVIP[y]
      BY DEF Put
    <3> QED BY <2>2, <3>1, <3>2
  <2>5. n \notin DOMAIN devicesByVIP /\ n \in Int /\ \A y \in DOMAIN devicesByVIP : y \in Int /\ y < n + 1
    BY <1>0, <2>1 DEF ShadowInv, DeviceTablesAgree
  <2>6. nextIPIndex' \in FirstAddress .. LastAddress + 1
    BY <1>0, <2>2, <2>3
  <2>7. ShadowTypeOK'
    <3>1. DOMAIN devices' \subseteq Devices /\ \A e \in DOMAIN devices' : devices'[e] \in DeviceRecords
      BY <1>0, <2>3, <2>4
    <3> QED BY <1>0, <2>2, <2>6, <3>1 DEF ShadowTypeOK, DeviceRecords, StreamRecords
  <2>8. DeviceTablesAgree'
    <3>1. ASSUME NEW e \in DOMAIN devices' PROVE devices'[e].address \in DOMAIN devicesByVIP'
      BY <2>2, <2>3, <2>4 DEF ShadowInv, DeviceTablesAgree
    <3>2. ASSUME NEW y \in DOMAIN devicesByVIP'
          PROVE  /\ devicesByVIP'[y] \in DOMAIN devices' /\ devices'[devicesByVIP'[y]].address = y
                 /\ y < nextIPIndex'
      <4>1. CASE y = n
        BY <2>2, <2>3, <2>4, <2>5, <4>1
      <4>2. CASE y # n
        <5>1. /\ y \in DOMAIN devicesByVIP /\ devicesByVIP'[y] = devicesByVIP[y]
              /\ devicesByVIP[y] \in DOMAIN devices /\ devices[devicesByVIP[y]].address = y
          BY <2>4, <4>2 DEF ShadowInv, DeviceTablesAgree
        <5> QED BY <2>2, <2>4, <2>5, <5>1
      <4> QED BY <4>1, <4>2
    <3> QED BY <3>1, <3>2 DEF DeviceTablesAgree
  <2> QED BY <2>2, <2>4, <2>5, <2>7, <2>8 DEF ShadowInv
\* A stream begins, goes on or ends.
<1>4. ASSUME NEW s \in Forwards, NEW c \in {NoStream} \cup StreamRecords,
             forward' = [forward EXCEPT ![s] = c], UNCHANGED <<devices, devicesByVIP, nextIPIndex>>,
             c # NoStream => c.device \in DOMAIN devices
      PROVE  ShadowInv'
  <2>1. forward' \in [Forwards -> {NoStream} \cup StreamRecords]
    BY <1>0, <1>4
  <2>2. \A q \in Forwards : forward'[q].at # "none" => forward'[q].device \in DOMAIN devices
    BY <1>0, <1>1, <1>4 DEF ShadowInv
  <2>3. ShadowTypeOK'
    BY <1>0, <1>4, <2>1 DEF ShadowTypeOK, DeviceRecords, StreamRecords
  <2> QED BY <1>4, <2>2, <2>3 DEF ShadowInv, DeviceTablesAgree
<1>5. ASSUME NEW s \in Forwards, NEW d \in Devices, NEW p \in Ports, AllowStream(s, d, p)
      PROVE  ShadowInv'
  <2>1. PICK c : c = [at |-> "allowed", device |-> d, port |-> p, host |-> "unread"]
    OBVIOUS
  <2>2. c \in StreamRecords /\ c.device = d
    BY <2>1 DEF StreamRecords
  <2> QED BY <1>4, <1>5, <2>1, <2>2 DEF AllowStream
<1>6. ASSUME NEW s \in Forwards, DialDevice(s) PROVE ShadowInv'
  <2>1. PICK r \in StreamRecords : r = forward[s]
    BY <1>0, <1>1, <1>6 DEF DialDevice
  <2>2. r.device \in DOMAIN devices
    BY <1>1, <2>1 DEF ShadowInv
  <2>3. PICK h \in Hosts : h = devices[r.device].host
    BY <1>0, <2>2 DEF DeviceRecords
  <2>4. PICK q : q = [r EXCEPT !.at = "connected"]
    OBVIOUS
  <2>5. PICK c : c = [q EXCEPT !.host = h]
    OBVIOUS
  <2>6. q \in StreamRecords /\ q.device = r.device
    BY <2>4 DEF StreamRecords
  <2>7. c \in StreamRecords /\ c.device = r.device
    BY <2>5, <2>6 DEF StreamRecords
  <2>8. forward' = [forward EXCEPT ![s] = c] /\ UNCHANGED <<devices, devicesByVIP, nextIPIndex>>
    BY <1>6, <2>1, <2>3, <2>4, <2>5 DEF DialDevice
  <2> QED BY <1>4, <2>2, <2>7, <2>8
<1>7. ASSUME NEW s \in Forwards, EndForward(s) PROVE ShadowInv'
  BY <1>4, <1>7 DEF EndForward
<1>8. CASE UNCHANGED shadowVars
  BY <1>8 DEF shadowVars, ShadowInv, ShadowTypeOK, DeviceTablesAgree
<1> QED BY <1>2, <1>3, <1>5, <1>6, <1>7, <1>8 DEF ShadowNext

LEMMA ShadowStarts == ShadowInit => ShadowInv
<1> SUFFICES ASSUME ShadowInit PROVE ShadowInv
  OBVIOUS
<1>1. /\ FirstAddress \in Nat /\ LastAddress \in Nat /\ FirstAddress <= LastAddress
      /\ DOMAIN devices = {} /\ DOMAIN devicesByVIP = {} /\ nextIPIndex = FirstAddress
      /\ forward = [s \in Forwards |-> NoStream]
  BY ShadowAssumption DEF ShadowAssumption, ShadowInit
<1>2. NoStream.at = "none"
  BY DEF NoStream
<1> QED BY <1>1, <1>2 DEF ShadowInv, ShadowTypeOK, DeviceTablesAgree

LEMMA ShadowInvHolds == ServicesSpec => []ShadowInv
<1>1. ServicesInit => ShadowInv
  BY ShadowStarts DEF ServicesInit
<1>2. ShadowInv /\ [ServicesNext]_servicesVars => ShadowInv'
  BY ShadowStep, EveryStepIsOfAService
<1> HIDE DEF ShadowInv
<1> QED BY <1>1, <1>2, PTL DEF ServicesSpec

-----------------------------------------------------------------------------
\* Two identifiers that differ have a first bit in which they do, after as many as CommonPrefixLen says.
LEMMA FirstDifference ==
    ASSUME NEW a \in ID, NEW b \in ID, a # b
    PROVE  \E p \in Position : a[p] # b[p] /\ \A q \in 1 .. p - 1 : a[q] = b[q]
<1>0. IDLen \in Nat
  BY KademliaAssumption DEF KademliaAssumption
<1>1. PICK p \in Position : a[p] # b[p]
  BY DEF ID
<1>2. SUFFICES ASSUME \A q \in Position : a[q] # b[q] => \E r \in 1 .. q - 1 : a[r] # b[r]
               PROVE  FALSE
  OBVIOUS
<1> DEFINE S == {n \in Nat : \A q \in 1 .. n : q \in Position => a[q] = b[q]}
<1>3. 0 \in S
  OBVIOUS
<1>4. ASSUME NEW n \in S PROVE n + 1 \in S
  <2>1. ASSUME NEW q \in 1 .. n + 1, q \in Position PROVE a[q] = b[q]
    <3>1. CASE q \in 1 .. n
      BY <1>4, <2>1, <3>1
    <3>2. CASE q = n + 1
      <4>1. \A r \in 1 .. q - 1 : r \in 1 .. n /\ r \in Position
        BY <1>0, <1>4, <2>1, <3>2 DEF Position
      <4>2. \A r \in 1 .. q - 1 : a[r] = b[r]
        BY <1>4, <4>1
      <4> QED BY <1>2, <2>1, <4>2
    <3> QED BY <1>4, <2>1, <3>1, <3>2
  <2> QED BY <1>4, <2>1
<1>5. S \subseteq Nat
  OBVIOUS
<1> HIDE DEF S
<1>6. Nat \subseteq S
  BY <1>3, <1>4, <1>5, NumbersAreReached
<1>7. p \in S
  BY <1>0, <1>1, <1>6 DEF Position
<1> USE DEF S
<1>8. p \in 1 .. p
  BY <1>0 DEF Position
<1> QED BY <1>1, <1>7, <1>8

LEMMA PrefixIsALength ==
    ASSUME NEW a \in ID, NEW b \in ID, a # b PROVE CommonPrefixLen(a, b) \in Lengths
<1>1. PICK p \in Position : a[p] # b[p] /\ \A q \in 1 .. p - 1 : a[q] = b[q]
  BY FirstDifference
<1>2. p - 1 \in Lengths /\ (p - 1) + 1 = p
  BY KademliaAssumption DEF KademliaAssumption, Position, Lengths
<1>3. \E l \in Lengths : a[l + 1] # b[l + 1] /\ \A q \in 1 .. l : a[q] = b[q]
  BY <1>1, <1>2
<1> QED BY <1>3 DEF CommonPrefixLen

\* Nobody is in a sequence twice; what a sequence has is the contact c or was in s as someone else.
Once(s) == \A i, j \in 1 .. Len(s) : s[i].id = s[j].id => i = j
Renews(n, s, c) ==
    \A j \in 1 .. Len(n) : n[j] = c \/ \E k \in 1 .. Len(s) : n[j] = s[k] /\ s[k].id # c.id

LEMMA MovedToTheEnd ==
    ASSUME NEW s \in Seq(Contact), NEW c \in Contact, NEW k \in 1 .. Len(s), s[k].id = c.id, Once(s),
           NEW n \in Seq(Contact), Len(n) = Len(s), n[Len(s)] = c,
           \A j \in 1 .. Len(s) - 1 : n[j] = IF j < k THEN s[j] ELSE s[j + 1]
    PROVE  /\ Renews(n, s, c) /\ Once(n) /\ n[Len(n)] = c /\ Len(n) \in 1 .. Len(n)
           /\ \A i \in 1 .. Len(s) : \E j \in 1 .. Len(n) : n[j].id = s[i].id
<1>0. Len(s) \in Nat
  OBVIOUS
<1>3. Len(n) = Len(s) /\ n[Len(s)] = c
  OBVIOUS
\* The place in s of what has place j now.
<1> DEFINE Origin(j) == IF j < k THEN j ELSE j + 1
<1>4. ASSUME NEW j \in 1 .. Len(s) - 1
      PROVE  Origin(j) \in 1 .. Len(s) /\ Origin(j) # k /\ n[j] = s[Origin(j)] /\ s[Origin(j)].id # c.id
  <2>1. Origin(j) \in 1 .. Len(s) /\ Origin(j) # k /\ n[j] = s[Origin(j)]
    BY <1>0
  <2> QED BY <2>1 DEF Once
<1>5. Renews(n, s, c)
  <2> SUFFICES ASSUME NEW j \in 1 .. Len(s), n[j] # c
               PROVE  \E i \in 1 .. Len(s) : n[j] = s[i] /\ s[i].id # c.id
    BY <1>3 DEF Renews
  <2>1. j \in 1 .. Len(s) - 1
    BY <1>0, <1>3
  <2> QED BY <1>4, <2>1
<1>6. Once(n)
  <2> SUFFICES ASSUME NEW i \in 1 .. Len(s), NEW j \in 1 .. Len(s), n[i].id = n[j].id PROVE i = j
    BY <1>3 DEF Once
  <2>1. CASE i = Len(s) /\ j # Len(s)
    <3>1. j \in 1 .. Len(s) - 1 /\ n[j].id = c.id
      BY <1>0, <1>3, <2>1
    <3> QED BY <1>4, <3>1
  <2>2. CASE i # Len(s) /\ j = Len(s)
    <3>1. i \in 1 .. Len(s) - 1 /\ n[i].id = c.id
      BY <1>0, <1>3, <2>2
    <3> QED BY <1>4, <3>1
  <2>3. CASE i # Len(s) /\ j # Len(s)
    <3>1. i \in 1 .. Len(s) - 1 /\ j \in 1 .. Len(s) - 1
      BY <1>0, <2>3
    <3>2. Origin(i) = Origin(j)
      <4>1. Origin(i) \in 1 .. Len(s) /\ Origin(j) \in 1 .. Len(s) /\ s[Origin(i)].id = s[Origin(j)].id
        BY <1>4, <3>1
      <4> HIDE DEF Origin
      <4> QED BY <4>1 DEF Once
    <3> QED BY <3>1, <3>2
  <2> QED BY <2>1, <2>2, <2>3
<1>7. ASSUME NEW i \in 1 .. Len(s) PROVE \E j \in 1 .. Len(n) : n[j].id = s[i].id
  <2>1. CASE i = k
    BY <1>0, <1>3, <2>1
  <2>2. CASE i # k
    <3>1. PICK j \in 1 .. Len(s) - 1 : Origin(j) = i
      <4>1. CASE i < k
        BY <1>0, <4>1
      <4>2. CASE ~(i < k)
        <5>1. i - 1 \in 1 .. Len(s) - 1 /\ Origin(i - 1) = i
          BY <1>0, <2>2, <4>2
        <5> QED BY <5>1
      <4> QED BY <4>1, <4>2
    <3>2. n[j] = s[i]
      BY <1>4, <3>1
    <3>3. j \in 1 .. Len(n)
      BY <1>0, <1>3
    <3> QED BY <3>2, <3>3
  <2> QED BY <2>1, <2>2
<1>8. Len(n) \in 1 .. Len(n)
  BY <1>0, <1>3
<1> QED BY <1>3, <1>5, <1>6, <1>7, <1>8

LEMMA AddedAtTheEnd ==
    ASSUME NEW s \in Seq(Contact), NEW c \in Contact, ~Holds(s, c.id), Once(s),
           NEW n \in Seq(Contact), Len(n) = Len(s) + 1, n[Len(s) + 1] = c,
           \A i \in 1 .. Len(s) : n[i] = s[i]
    PROVE  /\ Renews(n, s, c) /\ Once(n) /\ n[Len(n)] = c /\ Len(n) \in 1 .. Len(n)
           /\ \A i \in 1 .. Len(s) : \E j \in 1 .. Len(n) : n[j].id = s[i].id
<1>1. Len(s) \in Nat
  OBVIOUS
<1>2. \A i \in 1 .. Len(s) : s[i].id # c.id
  BY DEF Holds
<1>3. \A j \in 1 .. Len(n) : j = Len(s) + 1 \/ j \in 1 .. Len(s)
  BY <1>1
<1>4. Renews(n, s, c)
  BY <1>1, <1>2, <1>3 DEF Renews
<1>5. Once(n)
  BY <1>1, <1>2, <1>3 DEF Once
<1>6. Len(n) \in 1 .. Len(n) /\ \A i \in 1 .. Len(s) : i \in 1 .. Len(n)
  BY <1>1
<1> QED BY <1>1, <1>4, <1>5, <1>6

LEMMA PutInPlace ==
    ASSUME NEW s \in Seq(Contact), NEW c \in Contact, Once(s), NEW n \in Seq(Contact), Len(n) = Len(s),
           \A i \in 1 .. Len(s) : n[i] = IF s[i].id = c.id THEN c ELSE s[i]
    PROVE  Renews(n, s, c) /\ Once(n)
<1>3. Len(n) = Len(s)
  OBVIOUS
<1>4. \A i \in 1 .. Len(s) : n[i] = IF s[i].id = c.id THEN c ELSE s[i]
  OBVIOUS
<1>5. \A i \in 1 .. Len(s) : n[i].id = s[i].id /\ (n[i] = c \/ (n[i] = s[i] /\ s[i].id # c.id))
  BY <1>4
<1>6. Once(n)
  BY <1>3, <1>5 DEF Once
<1>7. Renews(n, s, c)
  BY <1>3, <1>5 DEF Renews
<1> QED BY <1>3, <1>6, <1>7

LEMMA OldestPushedOut ==
    ASSUME NEW s \in Seq(Contact), NEW c \in Contact, ~Holds(s, c.id), Once(s), Len(s) > 0,
           NEW n \in Seq(Contact), Len(n) = Len(s), n[Len(s)] = c,
           \A i \in 1 .. Len(s) - 1 : n[i] = s[i + 1]
    PROVE  Renews(n, s, c) /\ Once(n)
<1>0. Len(s) \in Nat /\ DOMAIN s = 1 .. Len(s)
  OBVIOUS
<1>1. \A i \in 1 .. Len(s) : s[i].id # c.id
  BY <1>0 DEF Holds
<1>2. \A i \in 1 .. Len(s) : i = Len(s) \/ (i \in 1 .. Len(s) - 1 /\ i + 1 \in 1 .. Len(s))
  BY <1>0
<1>3. Renews(n, s, c)
  BY <1>1, <1>2 DEF Renews
<1>4. Once(n)
  <2> SUFFICES ASSUME NEW i \in 1 .. Len(s), NEW j \in 1 .. Len(s), n[i].id = n[j].id PROVE i = j
    BY DEF Once
  <2>1. CASE i = Len(s) \/ j = Len(s)
    BY <1>1, <1>2, <2>1
  <2>2. CASE i # Len(s) /\ j # Len(s)
    <3>1. i + 1 \in 1 .. Len(s) /\ j + 1 \in 1 .. Len(s) /\ s[i + 1].id = s[j + 1].id
      BY <1>2, <2>2
    <3>2. i + 1 = j + 1
      BY <3>1 DEF Once
    <3> QED BY <3>2
  <2> QED BY <2>1, <2>2
<1> QED BY <1>3, <1>4

\* A bucket and its replacement cache: whom they have is of their prefix and as it was last heard of,
\* and is there once; nobody waits where there is room.
UpToDate(s, l, version) ==
    \A i \in 1 .. Len(s) : /\ CommonPrefixLen(Self, s[i].id) = l /\ s[i].id # Self
                           /\ s[i].version = version[s[i].id]
Orderly(b, r, l, version) ==
    /\ b \in Seq(Contact) /\ r \in Seq(Contact)
    /\ Len(b) <= KBucketSize /\ Len(r) <= ReplacementCacheSize
    /\ UpToDate(b, l, version) /\ UpToDate(r, l, version) /\ Once(b) /\ Once(r)
    /\ \A i \in 1 .. Len(b) : \A j \in 1 .. Len(r) : b[i].id # r[j].id
    /\ Len(r) > 0 => Len(b) = KBucketSize

OrderInv ==
    /\ bucket \in [Lengths -> Seq(Contact)] /\ replacement \in [Lengths -> Seq(Contact)]
    /\ latest \in [Known -> 0 .. MaxVersions]
    /\ \A l \in Lengths : Orderly(bucket[l], replacement[l], l, latest)
    /\ \A id \in Known : latest[id] > 0 /\ id # Self
          => \/ Holds(bucket[CommonPrefixLen(Self, id)], id)
             \/ Len(bucket[CommonPrefixLen(Self, id)]) = KBucketSize

\* Whoever has been renewed fits as of now, and so do the others as before.
LEMMA RenewedFits ==
    ASSUME NEW s \in Seq(Contact), NEW n \in Seq(Contact), NEW c \in Contact, NEW l, NEW u, NEW v,
           Renews(n, s, c), UpToDate(s, l, u), CommonPrefixLen(Self, c.id) = l, c.id # Self,
           c.version = v[c.id], \A i \in Known : i # c.id => v[i] = u[i]
    PROVE  UpToDate(n, l, v)
<1> SUFFICES ASSUME NEW j \in 1 .. Len(n)
             PROVE  /\ CommonPrefixLen(Self, n[j].id) = l /\ n[j].id # Self
                    /\ n[j].version = v[n[j].id]
  BY DEF UpToDate
<1>1. CASE n[j] = c
  BY <1>1
<1>2. CASE n[j] # c
  <2>1. PICK k \in 1 .. Len(s) : n[j] = s[k] /\ s[k].id # c.id
    BY <1>2 DEF Renews
  <2>2. s[k] \in Contact
    OBVIOUS
  <2>3. s[k].id \in Known
    BY <2>2 DEF Contact
  <2> QED BY <2>1, <2>3 DEF UpToDate
<1> QED BY <1>1, <1>2

\* Where nobody has the identifier, nothing is out of date.
LEMMA OthersFit ==
    ASSUME NEW s \in Seq(Contact), NEW l, NEW u, NEW v, NEW id, UpToDate(s, l, u),
           \A i \in 1 .. Len(s) : s[i].id # id, \A i \in Known : i # id => v[i] = u[i]
    PROVE  UpToDate(s, l, v)
<1>1. \A i \in 1 .. Len(s) : s[i] \in Contact
  OBVIOUS
<1>2. \A i \in 1 .. Len(s) : s[i].id \in Known
  BY <1>1 DEF Contact
<1> QED BY <1>2 DEF UpToDate

LEMMA OrderStep == OrderInv /\ [KademliaNext]_kademliaVars => OrderInv'
<1> SUFFICES ASSUME OrderInv, [KademliaNext]_kademliaVars PROVE OrderInv'
  OBVIOUS
<1>0. /\ KBucketSize \in Nat \ {0} /\ ReplacementCacheSize \in Nat \ {0} /\ MaxVersions \in Nat
      /\ Self \in ID /\ Known \subseteq ID
      /\ bucket \in [Lengths -> Seq(Contact)] /\ replacement \in [Lengths -> Seq(Contact)]
      /\ latest \in [Known -> 0 .. MaxVersions]
  BY KademliaAssumption DEF KademliaAssumption, OrderInv
<1>1. CASE UNCHANGED kademliaVars
  BY <1>1 DEF kademliaVars, OrderInv
<1>2. ASSUME NEW id \in Known, Update(id) PROVE OrderInv'
  <2>1. PICK c, l : /\ c = [id |-> id, version |-> latest[id] + 1] /\ l = CommonPrefixLen(Self, id)
                    /\ SeenAgain(c, l) \/ InBucket(c, l) \/ InReplacement(c, l)
    BY <1>2 DEF Update
  <2>2. PICK v : v = latest'
    OBVIOUS
  <2>3. /\ id # Self /\ v \in [Known -> 0 .. MaxVersions] /\ v[id] = latest[id] + 1
        /\ \A i \in Known : i # id => v[i] = latest[i]
    BY <1>0, <1>2, <2>2 DEF Update
  <2>4. c \in Contact /\ c.id = id /\ c.version = v[c.id] /\ \A i \in Known : i # c.id => v[i] = latest[i]
    BY <1>0, <1>2, <2>1, <2>3 DEF Contact, Update
  <2>5. l \in Lengths /\ CommonPrefixLen(Self, c.id) = l /\ c.id # Self
    BY <1>0, <2>1, <2>3, <2>4, PrefixIsALength
  <2>6. PICK b, r : b = bucket[l] /\ r = replacement[l]
    OBVIOUS
  <2>7. /\ b \in Seq(Contact) /\ r \in Seq(Contact)
        /\ Len(b) <= KBucketSize /\ Len(r) <= ReplacementCacheSize
        /\ UpToDate(b, l, latest) /\ UpToDate(r, l, latest) /\ Once(b) /\ Once(r)
        /\ \A i \in 1 .. Len(b) : \A j \in 1 .. Len(r) : b[i].id # r[j].id
        /\ Len(r) > 0 => Len(b) = KBucketSize
    <3>1. Orderly(b, r, l, latest)
      BY <2>5, <2>6 DEF OrderInv
    <3> QED BY <3>1 DEF Orderly
  <2>8. Len(b) \in Nat /\ Len(r) \in Nat /\ DOMAIN b = 1 .. Len(b) /\ DOMAIN r = 1 .. Len(r)
    BY <2>7
\* It is enough that the one bucket is in order and has lost nobody.
  <2>9. ASSUME NEW p, NEW q, bucket' = [bucket EXCEPT ![l] = p],
               replacement' = [replacement EXCEPT ![l] = q], Orderly(p, q, l, v),
               \A i \in 1 .. Len(b) : \E j \in 1 .. Len(p) : p[j].id = b[i].id,
               Len(b) <= Len(p), Holds(p, id) \/ Len(p) = KBucketSize
        PROVE  OrderInv'
    <3>1. p \in Seq(Contact) /\ q \in Seq(Contact) /\ Len(p) <= KBucketSize /\ Len(p) \in Nat
          /\ DOMAIN p = 1 .. Len(p)
      BY <2>9 DEF Orderly
    <3>2. /\ bucket' \in [Lengths -> Seq(Contact)] /\ replacement' \in [Lengths -> Seq(Contact)]
          /\ bucket'[l] = p /\ replacement'[l] = q
          /\ \A m \in Lengths : m # l => bucket'[m] = bucket[m] /\ replacement'[m] = replacement[m]
      BY <1>0, <2>5, <2>9, <3>1
    <3>3. ASSUME NEW m \in Lengths PROVE Orderly(bucket'[m], replacement'[m], m, v)
      <4>1. CASE m = l
        BY <2>9, <3>2, <4>1
      <4>2. CASE m # l
        <5>1. PICK s, t : s = bucket[m] /\ t = replacement[m]
          OBVIOUS
        <5>2. Orderly(s, t, m, latest)
          BY <5>1 DEF OrderInv
        <5>3. /\ \A i \in 1 .. Len(s) : s[i].id # id
              /\ \A i \in 1 .. Len(t) : t[i].id # id
          BY <2>4, <2>5, <4>2, <5>2 DEF Orderly, UpToDate
        <5>4. UpToDate(s, m, v) /\ UpToDate(t, m, v)
          BY <2>3, <5>2, <5>3, OthersFit DEF Orderly
        <5> QED BY <3>2, <4>2, <5>1, <5>2, <5>4 DEF Orderly
      <4> QED BY <4>1, <4>2
    <3>4. ASSUME NEW i \in Known, v[i] > 0, i # Self
          PROVE  \/ Holds(bucket'[CommonPrefixLen(Self, i)], i)
                 \/ Len(bucket'[CommonPrefixLen(Self, i)]) = KBucketSize
      <4>1. PICK m \in Lengths : m = CommonPrefixLen(Self, i)
        BY <1>0, <3>4, PrefixIsALength
      <4>2. CASE i = id
        BY <2>1, <2>9, <3>2, <4>1, <4>2
      <4>3. CASE i # id
        <5>1. Holds(bucket[m], i) \/ Len(bucket[m]) = KBucketSize
          BY <2>3, <3>4, <4>1, <4>3 DEF OrderInv
        <5>2. CASE m # l
          BY <3>2, <4>1, <5>1, <5>2
        <5>3. CASE m = l /\ Len(bucket[m]) = KBucketSize
          <6>1. Len(p) = KBucketSize
            <7>1. Len(b) = KBucketSize /\ Len(b) <= Len(p)
              BY <2>6, <2>9, <5>3
            <7>2. Len(p) <= KBucketSize /\ Len(p) \in Nat /\ KBucketSize \in Nat
              BY <1>0, <3>1
            <7> QED BY <7>1, <7>2
          <6> QED BY <3>2, <4>1, <5>3, <6>1
        <5>4. CASE m = l /\ Holds(bucket[m], i)
          <6>1. PICK k \in 1 .. Len(b) : b[k].id = i
            BY <2>6, <2>8, <5>4 DEF Holds
          <6>2. \E j \in 1 .. Len(p) : p[j].id = i
            BY <2>9, <6>1
          <6>3. Holds(p, i)
            BY <3>1, <6>2 DEF Holds
          <6> QED BY <3>2, <4>1, <5>4, <6>3
        <5> QED BY <5>1, <5>2, <5>3, <5>4
      <4> QED BY <4>2, <4>3
    <3> QED BY <2>2, <2>3, <3>2, <3>3, <3>4 DEF OrderInv
  <2>10. b[1] = b[1] /\ \A i \in 1 .. Len(b) : \E j \in 1 .. Len(b) : b[j].id = b[i].id
    OBVIOUS
  <2>11. CASE SeenAgain(c, l)
    <3>1. PICK k \in 1 .. Len(b) : /\ b[k].id = c.id /\ replacement' = replacement
                                   /\ bucket' = [bucket EXCEPT ![l] = Append(RemoveAt(b, k), c)]
      BY <2>6, <2>8, <2>11 DEF SeenAgain
    <3>2. PICK n : n = Append(RemoveAt(b, k), c)
      OBVIOUS
    <3>3. /\ n \in Seq(Contact) /\ Len(n) = Len(b) /\ n[Len(b)] = c
          /\ \A j \in 1 .. Len(b) - 1 : n[j] = IF j < k THEN b[j] ELSE b[j + 1]
      <4>1. PICK m : m = RemoveAt(b, k)
        OBVIOUS
      <4>2. /\ m \in Seq(Contact) /\ Len(m) = Len(b) - 1
            /\ \A j \in 1 .. Len(b) - 1 : m[j] = IF j < k THEN b[j] ELSE b[j + 1]
        BY <2>7, <4>1, RemoveAtEffect
      <4>3. /\ Append(m, c) \in Seq(Contact) /\ Len(Append(m, c)) = Len(b)
            /\ Append(m, c)[Len(b)] = c /\ \A j \in 1 .. Len(b) - 1 : Append(m, c)[j] = m[j]
        <5>1. /\ Append(m, c) \in Seq(Contact) /\ Len(Append(m, c)) = Len(m) + 1
              /\ Append(m, c)[Len(m) + 1] = c /\ \A j \in 1 .. Len(m) : Append(m, c)[j] = m[j]
          BY <2>4, <4>2
        <5>2. Len(m) + 1 = Len(b) /\ Len(m) = Len(b) - 1
          BY <2>8, <4>2
        <5> QED BY <5>1, <5>2
      <4> QED BY <3>2, <4>1, <4>2, <4>3
    <3>12. /\ Renews(n, b, c) /\ Once(n) /\ n[Len(n)] = c /\ Len(n) \in 1 .. Len(n)
          /\ \A i \in 1 .. Len(b) : \E j \in 1 .. Len(n) : n[j].id = b[i].id
      <4>1. b[k].id = c.id /\ k \in 1 .. Len(b)
        BY <3>1
      <4>2. c \in Contact /\ b \in Seq(Contact) /\ Once(b)
        BY <2>4, <2>7
      <4> QED BY <3>3, <4>1, <4>2, MovedToTheEnd
    <3>4. UpToDate(n, l, v)
      <4>1. n \in Seq(Contact) /\ Renews(n, b, c)
        BY <3>3, <3>12
      <4> QED BY <2>4, <2>5, <2>7, <4>1, RenewedFits
    <3>5. \A j \in 1 .. Len(r) : r[j].id # c.id
      BY <2>7, <3>1
    <3>6. UpToDate(r, l, v)
      BY <2>4, <2>7, <3>5, OthersFit
    <3>7. ASSUME NEW i \in 1 .. Len(n), NEW j \in 1 .. Len(r) PROVE n[i].id # r[j].id
      <4>1. n[i] = c \/ \E m \in 1 .. Len(b) : n[i] = b[m]
        BY <3>12 DEF Renews
      <4> QED BY <2>7, <3>5, <4>1
    <3>8. Orderly(n, r, l, v)
      BY <2>7, <3>3, <3>4, <3>6, <3>7, <3>12 DEF Orderly
    <3>9. Holds(n, id)
      <4>1. DOMAIN n = 1 .. Len(n)
        BY <3>3
      <4> QED BY <2>4, <3>12, <4>1 DEF Holds
    <3>10. replacement' = [replacement EXCEPT ![l] = r] /\ bucket' = [bucket EXCEPT ![l] = n]
      BY <1>0, <2>5, <2>6, <3>1, <3>2
    <3>11. Len(b) <= Len(n)
      BY <2>8, <3>3
    <3> QED BY <2>9, <3>8, <3>9, <3>10, <3>11, <3>12
  <2>12. CASE InBucket(c, l)
    <3>1. /\ ~Holds(b, c.id) /\ Len(b) < KBucketSize /\ replacement' = replacement
          /\ bucket' = [bucket EXCEPT ![l] = Append(b, c)]
      BY <2>6, <2>12 DEF InBucket
    <3>2. PICK n : n = Append(b, c)
      OBVIOUS
    <3>3. /\ n \in Seq(Contact) /\ Len(n) = Len(b) + 1 /\ n[Len(b) + 1] = c
          /\ \A i \in 1 .. Len(b) : n[i] = b[i]
      BY <2>4, <2>7, <3>2
    <3>4. /\ Renews(n, b, c) /\ Once(n) /\ n[Len(n)] = c /\ Len(n) \in 1 .. Len(n)
          /\ \A i \in 1 .. Len(b) : \E j \in 1 .. Len(n) : n[j].id = b[i].id
      BY <2>4, <2>7, <3>1, <3>3, AddedAtTheEnd
    <3>5. UpToDate(n, l, v)
      <4>1. b \in Seq(Contact) /\ UpToDate(b, l, latest) /\ n \in Seq(Contact) /\ Renews(n, b, c)
        BY <2>7, <3>3, <3>4
      <4> QED BY <2>4, <2>5, <4>1, RenewedFits
    <3>6. Len(r) = 0
      <4>1. Len(b) # KBucketSize
        <5>1. Len(b) < KBucketSize /\ Len(b) \in Nat /\ KBucketSize \in Nat
          BY <1>0, <2>8, <3>1
        <5> QED BY <5>1
      <4>2. ~(Len(r) > 0)
        BY <2>7, <4>1
      <4> QED BY <2>8, <4>2
    <3>7. Orderly(n, r, l, v)
      <4>1. Len(n) <= KBucketSize /\ 1 .. Len(r) = {}
        BY <1>0, <2>8, <3>1, <3>3, <3>6
      <4>2. UpToDate(r, l, v) /\ ~(Len(r) > 0)
        BY <3>6, <4>1 DEF UpToDate
      <4> QED BY <2>7, <3>3, <3>4, <3>5, <4>1, <4>2 DEF Orderly
    <3>8. Holds(n, id)
      <4>1. DOMAIN n = 1 .. Len(n)
        BY <3>3
      <4> QED BY <2>4, <3>4, <4>1 DEF Holds
    <3>9. replacement' = [replacement EXCEPT ![l] = r] /\ bucket' = [bucket EXCEPT ![l] = n]
      BY <1>0, <2>5, <2>6, <3>1, <3>2
    <3>10. Len(b) <= Len(n)
      BY <2>8, <3>3
    <3> QED BY <2>9, <3>4, <3>7, <3>8, <3>9, <3>10
  <2>13. CASE InReplacement(c, l)
    <3>1. /\ ~Holds(b, c.id) /\ Len(b) = KBucketSize /\ bucket' = bucket
          /\ replacement' = [replacement EXCEPT ![l] =
                IF Holds(r, c.id) THEN [i \in DOMAIN r |-> IF r[i].id = c.id THEN c ELSE r[i]]
                ELSE IF Len(r) < ReplacementCacheSize THEN Append(r, c) ELSE Append(Tail(r), c)]
      BY <2>6, <2>13 DEF InReplacement
    <3>2. PICK n : n = IF Holds(r, c.id) THEN [i \in DOMAIN r |-> IF r[i].id = c.id THEN c ELSE r[i]]
                       ELSE IF Len(r) < ReplacementCacheSize THEN Append(r, c)
                       ELSE Append(Tail(r), c)
      OBVIOUS
    <3>3. /\ n \in Seq(Contact) /\ Len(n) <= ReplacementCacheSize /\ Renews(n, r, c) /\ Once(n)
      <4>1. CASE Holds(r, c.id)
        <5>1. n = [i \in 1 .. Len(r) |-> IF r[i].id = c.id THEN c ELSE r[i]]
          BY <2>8, <3>2, <4>1
        <5>2. \A i \in 1 .. Len(r) : r[i] \in Contact
          BY <2>7
        <5>3. n \in [1 .. Len(r) -> Contact]
          BY <2>4, <5>1, <5>2
        <5>4. n \in Seq(Contact) /\ Len(n) = Len(r)
          BY <2>8, <5>3
        <5>5. \A i \in 1 .. Len(r) : n[i] = IF r[i].id = c.id THEN c ELSE r[i]
          BY <5>1
        <5>6. Renews(n, r, c) /\ Once(n)
          BY <2>4, <2>7, <5>4, <5>5, PutInPlace
        <5> QED BY <2>7, <5>4, <5>6
      <4>2. CASE ~Holds(r, c.id) /\ Len(r) < ReplacementCacheSize
        <5>1. /\ n \in Seq(Contact) /\ Len(n) = Len(r) + 1 /\ n[Len(r) + 1] = c
              /\ \A i \in 1 .. Len(r) : n[i] = r[i]
          BY <2>4, <2>7, <3>2, <4>2
        <5>2. Renews(n, r, c) /\ Once(n)
          BY <2>4, <2>7, <4>2, <5>1, AddedAtTheEnd
        <5> QED BY <1>0, <2>8, <4>2, <5>1, <5>2
      <4>3. CASE ~Holds(r, c.id) /\ ~(Len(r) < ReplacementCacheSize)
        <5>1. n = Append(Tail(r), c) /\ Len(r) > 0
          BY <1>0, <2>8, <3>2, <4>3
        <5>2. /\ n \in Seq(Contact) /\ Len(n) = Len(r) /\ n[Len(r)] = c
              /\ \A i \in 1 .. Len(r) - 1 : n[i] = r[i + 1]
          <6>1. r # <<>>
            <7>1. Len(<<>>) = 0
              OBVIOUS
            <7> QED BY <5>1, <7>1
          <6>2. PICK m : m = Tail(r)
            OBVIOUS
          <6>3. m \in Seq(Contact) /\ Len(m) = Len(r) - 1 /\ \A i \in 1 .. Len(m) : m[i] = r[i + 1]
            BY <2>7, <6>1, <6>2
          <6>4. /\ Append(m, c) \in Seq(Contact) /\ Len(Append(m, c)) = Len(r)
                /\ Append(m, c)[Len(r)] = c /\ \A i \in 1 .. Len(r) - 1 : Append(m, c)[i] = m[i]
            <7>1. /\ Append(m, c) \in Seq(Contact) /\ Len(Append(m, c)) = Len(m) + 1
                  /\ Append(m, c)[Len(m) + 1] = c
                  /\ \A i \in 1 .. Len(m) : Append(m, c)[i] = m[i]
              BY <2>4, <6>3
            <7>2. Len(m) + 1 = Len(r) /\ Len(m) = Len(r) - 1
              BY <2>8, <6>3
            <7> QED BY <7>1, <7>2
          <6> QED BY <5>1, <6>2, <6>3, <6>4
        <5>3. Renews(n, r, c) /\ Once(n)
          BY <2>4, <2>7, <4>3, <5>1, <5>2, OldestPushedOut
        <5> QED BY <2>7, <5>2, <5>3
      <4> QED BY <4>1, <4>2, <4>3
    <3>4. UpToDate(n, l, v)
      BY <2>4, <2>5, <2>7, <3>3, RenewedFits
    <3>5. \A i \in 1 .. Len(b) : b[i].id # c.id
      BY <2>8, <3>1 DEF Holds
    <3>6. UpToDate(b, l, v)
      BY <2>4, <2>7, <3>5, OthersFit
    <3>7. \A i \in 1 .. Len(b) : \A j \in 1 .. Len(n) : b[i].id # n[j].id
      BY <2>7, <3>3, <3>5 DEF Renews
    <3>8. Orderly(b, n, l, v)
      BY <2>7, <3>1, <3>3, <3>4, <3>6, <3>7 DEF Orderly
    <3>9. bucket' = [bucket EXCEPT ![l] = b] /\ replacement' = [replacement EXCEPT ![l] = n]
      BY <1>0, <2>5, <2>6, <3>1, <3>2
    <3>10. Len(b) <= Len(b)
      BY <2>8
    <3> QED BY <2>9, <2>10, <3>1, <3>8, <3>9, <3>10
  <2> QED BY <2>1, <2>11, <2>12, <2>13
<1> QED BY <1>1, <1>2 DEF KademliaNext

LEMMA OrderTypes == OrderInv => KademliaTypeOK
<1> SUFFICES ASSUME OrderInv, NEW l \in Lengths
             PROVE  /\ Range(bucket[l]) \subseteq Contact /\ Len(bucket[l]) <= KBucketSize
                    /\ Range(replacement[l]) \subseteq Contact
                    /\ Len(replacement[l]) <= ReplacementCacheSize
  BY DEF OrderInv, KademliaTypeOK
<1>1. Orderly(bucket[l], replacement[l], l, latest)
  BY DEF OrderInv
<1> QED BY <1>1 DEF Orderly, Range

LEMMA OrderIsSeen == OrderInv => TableIsOrderly
<1> SUFFICES ASSUME OrderInv PROVE TableIsOrderly
  OBVIOUS
<1>1. ASSUME NEW l \in Lengths
      PROVE  LET all == bucket[l] \o replacement[l]
             IN  /\ \A i \in DOMAIN all : /\ CommonPrefixLen(Self, all[i].id) = l
                                          /\ all[i].version = latest[all[i].id]
                 /\ \A i, j \in DOMAIN all : all[i].id = all[j].id => i = j
                 /\ replacement[l] # <<>> => Len(bucket[l]) = KBucketSize
  <2>1. PICK b, r : b = bucket[l] /\ r = replacement[l]
    OBVIOUS
  <2>2. PICK s : s = b \o r
    OBVIOUS
  <2>3. /\ b \in Seq(Contact) /\ r \in Seq(Contact) /\ UpToDate(b, l, latest) /\ UpToDate(r, l, latest)
        /\ Once(b) /\ Once(r) /\ \A i \in 1 .. Len(b) : \A j \in 1 .. Len(r) : b[i].id # r[j].id
        /\ Len(r) > 0 => Len(b) = KBucketSize
    BY <2>1 DEF OrderInv, Orderly
  <2>4. Len(b) \in Nat /\ Len(r) \in Nat
    BY <2>3
  <2>5. /\ DOMAIN s = 1 .. Len(b) + Len(r)
        /\ \A i \in DOMAIN s : \/ i \in 1 .. Len(b) /\ s[i] = b[i]
                               \/ i - Len(b) \in 1 .. Len(r) /\ s[i] = r[i - Len(b)] /\ i \in Nat
    BY <2>2, <2>3, <2>4
  <2>6. \A i \in DOMAIN s : CommonPrefixLen(Self, s[i].id) = l /\ s[i].version = latest[s[i].id]
    <3>1. /\ \A i \in 1 .. Len(b) : /\ CommonPrefixLen(Self, b[i].id) = l
                                    /\ b[i].version = latest[b[i].id]
          /\ \A i \in 1 .. Len(r) : /\ CommonPrefixLen(Self, r[i].id) = l
                                    /\ r[i].version = latest[r[i].id]
      BY <2>3 DEF UpToDate
    <3> QED BY <2>5, <3>1
  <2>7. \A i, j \in DOMAIN s : s[i].id = s[j].id => i = j
    <3> SUFFICES ASSUME NEW i \in DOMAIN s, NEW j \in DOMAIN s, s[i].id = s[j].id PROVE i = j
      OBVIOUS
    <3>1. CASE i \in 1 .. Len(b) /\ s[i] = b[i] /\ j \in 1 .. Len(b) /\ s[j] = b[j]
      BY <2>3, <3>1 DEF Once
    <3>2. CASE i \in 1 .. Len(b) /\ s[i] = b[i] /\ j - Len(b) \in 1 .. Len(r) /\ s[j] = r[j - Len(b)]
      BY <2>3, <3>2
    <3>3. CASE i - Len(b) \in 1 .. Len(r) /\ s[i] = r[i - Len(b)] /\ j \in 1 .. Len(b) /\ s[j] = b[j]
      BY <2>3, <3>3
    <3>4. CASE /\ i - Len(b) \in 1 .. Len(r) /\ s[i] = r[i - Len(b)] /\ i \in Nat
               /\ j - Len(b) \in 1 .. Len(r) /\ s[j] = r[j - Len(b)] /\ j \in Nat
      <4>1. i - Len(b) = j - Len(b)
        BY <2>3, <3>4 DEF Once
      <4> QED BY <2>4, <3>4, <4>1
    <3> QED BY <2>5, <3>1, <3>2, <3>3, <3>4
  <2>8. replacement[l] # <<>> => Len(bucket[l]) = KBucketSize
    <3>1. r # <<>> => Len(r) # 0
      BY <2>3
    <3> QED BY <2>1, <2>3, <2>4, <3>1
  <2> QED BY <2>1, <2>2, <2>6, <2>7, <2>8
<1> QED BY <1>1 DEF OrderInv, TableIsOrderly

\* The nearest to an identifier is whoever has it: everybody else differs in some bit.
LEMMA NearestIsItself ==
    ASSUME NEW a \in ID, NEW b \in ID
    PROVE  /\ ~ Nearer(XORDistance(a, b), XORDistance(a, a))
           /\ a # b => Nearer(XORDistance(a, a), XORDistance(a, b))
<1>1. \A p \in Position : XORDistance(a, a)[p] = 0
  BY DEF XORDistance
<1>2. \A p \in Position : XORDistance(a, b)[p] = IF a[p] = b[p] THEN 0 ELSE 1
  BY DEF XORDistance
<1>3. ~ Nearer(XORDistance(a, b), XORDistance(a, a))
  <2>1. \A p \in Position : ~ (XORDistance(a, b)[p] < XORDistance(a, a)[p])
    BY <1>1, <1>2
  <2> QED BY <2>1 DEF Nearer
<1>4. ASSUME a # b PROVE Nearer(XORDistance(a, a), XORDistance(a, b))
  <2>1. PICK p \in Position : a[p] # b[p] /\ \A q \in 1 .. p - 1 : a[q] = b[q]
    BY <1>4, FirstDifference
  <2>2. \A q \in 1 .. p - 1 : q \in Position
    BY KademliaAssumption DEF KademliaAssumption, Position
  <2>3. \A q \in 1 .. p - 1 : XORDistance(a, a)[q] = XORDistance(a, b)[q]
    BY <1>1, <1>2, <2>1, <2>2
  <2>4. XORDistance(a, a)[p] < XORDistance(a, b)[p]
    BY <1>1, <1>2, <2>1
  <2> QED BY <2>3, <2>4 DEF Nearer
<1> QED BY <1>3, <1>4

\* Whoever is in a bucket is known, and is there as it was last heard of: an identifier tells who it is.
LEMMA ActiveAreKnown ==
    ASSUME OrderInv
    PROVE  /\ Active \subseteq Contact /\ IsFiniteSet(Active)
           /\ \A c, e \in Active : c.id = e.id => c = e
<1>1. ASSUME NEW c \in Active PROVE c \in Contact /\ c.version = latest[c.id]
  <2>1. PICK l \in Lengths : c \in Range(bucket[l])
    BY DEF Active
  <2>2. PICK b : b = bucket[l]
    OBVIOUS
  <2>3. b \in Seq(Contact) /\ UpToDate(b, l, latest)
    BY <2>2 DEF OrderInv, Orderly
  <2>4. PICK i \in 1 .. Len(b) : c = b[i]
    BY <2>1, <2>2, <2>3 DEF Range
  <2> QED BY <2>3, <2>4 DEF UpToDate
<1>2. \A c, e \in Active : c.id = e.id => c = e
  <2> SUFFICES ASSUME NEW c \in Active, NEW e \in Active, c.id = e.id PROVE c = e
    OBVIOUS
  <2>1. c \in Contact /\ e \in Contact /\ c.id = e.id /\ c.version = e.version
    BY <1>1
  <2> QED BY <2>1 DEF Contact
<1>3. IsFiniteSet(Active)
  <2> DEFINE f == [c \in Active |-> c.id]
  <2>1. \A c \in Active : c.id \in Known
    BY <1>1 DEF Contact
  <2>2. f \in [Active -> Known] /\ \A c, e \in Active : f[c] = f[e] => c = e
    BY <1>2, <2>1
  <2>3. IsFiniteSet(Known)
    BY KademliaAssumption DEF KademliaAssumption
  <2> HIDE DEF f
  <2>4. f \in Injection(Active, Known)
    BY <2>2 DEF Injection, IsInjective
  <2> QED BY <2>3, <2>4, FS_Injection
<1> QED BY <1>1, <1>2, <1>3

LEMMA OrderFinds == OrderInv => HeldIsFound
<1> SUFFICES ASSUME OrderInv, NEW c \in Active PROVE FindClosest(c.id, 1) = <<c>>
  BY DEF HeldIsFound
<1>1. /\ Active \subseteq Contact /\ IsFiniteSet(Active) /\ \A d, e \in Active : d.id = e.id => d = e
  BY ActiveAreKnown
<1>2. \A e \in Active : e.id \in ID
  BY <1>1, KademliaAssumption DEF KademliaAssumption, Contact
<1>3. NearerTo(c.id, c) = {}
  BY <1>2, NearestIsItself DEF NearerTo
<1>4. Cardinality(NearerTo(c.id, c)) = 0
  BY <1>3, FS_EmptySet
<1>5. ASSUME NEW e \in Active, e # c PROVE Cardinality(NearerTo(c.id, e)) # 0
  <2>1. c.id # e.id
    BY <1>1, <1>5
  <2>2. c \in NearerTo(c.id, e)
    BY <1>2, <2>1, NearestIsItself DEF NearerTo
  <2>3. NearerTo(c.id, e) \subseteq Active
    BY DEF NearerTo
  <2>4. IsFiniteSet(NearerTo(c.id, e))
    BY <1>1, <2>3, FS_Subset
  <2> QED BY <2>2, <2>4, FS_EmptySet
<1>6. (CHOOSE e \in Active : Cardinality(NearerTo(c.id, e)) = 0) = c
  BY <1>4, <1>5
<1>7. (IF Cardinality(Active) > 1 THEN 1 ELSE Cardinality(Active)) = 1
  <2>1. Cardinality(Active) \in Nat /\ Cardinality(Active) # 0
    BY <1>1, FS_EmptySet, FS_CardinalityType
  <2> QED BY <2>1
<1>8. FindClosest(c.id, 1) = [k \in 1 .. 1 |-> CHOOSE e \in Active : Cardinality(NearerTo(c.id, e)) = k - 1]
  BY <1>7 DEF FindClosest
<1>9. \A k \in 1 .. 1 : k - 1 = 0
  OBVIOUS
<1>10. FindClosest(c.id, 1) = [k \in 1 .. 1 |-> c]
  BY <1>6, <1>8, <1>9
<1> QED BY <1>10

LEMMA OrderStarts == KademliaInit => OrderInv
<1> SUFFICES ASSUME KademliaInit PROVE OrderInv
  OBVIOUS
<1>1. /\ KBucketSize \in Nat \ {0} /\ ReplacementCacheSize \in Nat \ {0} /\ MaxVersions \in Nat
  BY KademliaAssumption DEF KademliaAssumption
<1>2. <<>> \in Seq(Contact) /\ Len(<<>>) = 0 /\ 1 .. 0 = {}
  OBVIOUS
<1>3. \A l : Orderly(<<>>, <<>>, l, latest)
  <2>1. Len(<<>>) <= KBucketSize /\ Len(<<>>) <= ReplacementCacheSize /\ ~ (Len(<<>>) > 0)
    BY <1>1, <1>2
  <2>2. Once(<<>>) /\ \A l : UpToDate(<<>>, l, latest)
    BY <1>2 DEF Once, UpToDate
  <2> QED BY <1>2, <2>1, <2>2 DEF Orderly
<1>4. /\ bucket = [l \in Lengths |-> <<>>] /\ replacement = [l \in Lengths |-> <<>>]
      /\ latest = [i \in Known |-> 0]
  BY DEF KademliaInit
<1>5. \A l \in Lengths : bucket[l] = <<>> /\ replacement[l] = <<>>
  BY <1>4
<1>6. latest \in [Known -> 0 .. MaxVersions] /\ \A i \in Known : ~ (latest[i] > 0)
  <2>1. 0 \in 0 .. MaxVersions /\ ~ (0 > 0)
    BY <1>1
  <2> QED BY <1>4, <2>1
<1>7. bucket \in [Lengths -> Seq(Contact)] /\ replacement \in [Lengths -> Seq(Contact)]
  BY <1>2, <1>4
<1> QED BY <1>3, <1>5, <1>6, <1>7 DEF OrderInv

LEMMA OrderInvHolds == ServicesSpec => []OrderInv
<1>1. ServicesInit => OrderInv
  BY OrderStarts DEF ServicesInit
<1>2. OrderInv /\ [ServicesNext]_servicesVars => OrderInv'
  BY OrderStep, EveryStepIsOfAService
<1> HIDE DEF OrderInv
<1> QED BY <1>1, <1>2, PTL DEF ServicesSpec

-----------------------------------------------------------------------------
\* The place of a node on the grid.
LEMMA PlaceOnTheGrid ==
    ASSUME NEW n \in Nat, NEW g \in Nat, g > 0
    PROVE  /\ n \div g \in Nat /\ n % g \in Nat /\ n % g < g /\ n = g * (n \div g) + (n % g)
           /\ g * (n \div g) \in Nat
<1>1. n \div g \in Int /\ n % g \in 0 .. g - 1 /\ n = g * (n \div g) + (n % g)
  OBVIOUS
<1>2. n \div g >= 0
  BY <1>1
<1> QED BY <1>1, <1>2

LEMMA OnlyPlace ==
    ASSUME NEW g \in Nat, g > 0, NEW q \in Nat, NEW r \in Nat, r < g, NEW n \in Nat, n = g * q + r
    PROVE  n \div g = q /\ n % g = r
<1>1. PICK p, s : p = n \div g /\ s = n % g
  OBVIOUS
<1>2. p \in Nat /\ s \in Nat /\ s < g /\ n = g * p + s
  BY <1>1, PlaceOnTheGrid
<1>3. ~ (p < q)
  <2> SUFFICES ASSUME p < q PROVE FALSE
    OBVIOUS
  <2>1. PICK e \in Nat : q = p + 1 + e
    <3>1. q - p - 1 \in Nat /\ q = p + 1 + (q - p - 1)
      BY <1>2
    <3> QED BY <3>1
  <2>2. g * q = g * p + g + g * e /\ g * e \in Nat /\ g * p \in Nat
    BY <1>2, <2>1
  <2>3. g * p + s = g * p + g + g * e + r
    BY <1>2, <2>2
  <2> QED BY <1>2, <2>2, <2>3
<1>4. ~ (q < p)
  <2> SUFFICES ASSUME q < p PROVE FALSE
    OBVIOUS
  <2>1. PICK e \in Nat : p = q + 1 + e
    <3>1. p - q - 1 \in Nat /\ p = q + 1 + (p - q - 1)
      BY <1>2
    <3> QED BY <3>1
  <2>2. g * p = g * q + g + g * e /\ g * e \in Nat /\ g * q \in Nat
    BY <1>2, <2>1
  <2>3. g * q + r = g * q + g + g * e + s
    BY <1>2, <2>2
  <2> QED BY <1>2, <2>2, <2>3
<1>5. p = q
  BY <1>2, <1>3, <1>4
<1>6. s = r
  <2>1. g * q \in Nat /\ g * q + r = g * q + s
    BY <1>2, <1>5
  <2> QED BY <1>2, <2>1
<1> QED BY <1>1, <1>5, <1>6

\* Moving to the next node along one axis: how far the distance drops with it.
LEMMA NextInRow ==
    ASSUME NEW n \in Planet, Y(n) + 1 < GridDim
    PROVE  X(n + 1) = X(n) /\ Y(n + 1) = Y(n) + 1
<1>1. n \in Nat /\ GridDim \in Nat /\ GridDim > 0
  BY MeshAssumption DEF MeshAssumption, Planet
<1>2. /\ X(n) \in Nat /\ Y(n) \in Nat /\ n = GridDim * X(n) + Y(n) /\ GridDim * X(n) \in Nat
  BY <1>1, PlaceOnTheGrid DEF X, Y
<1>3. n + 1 = GridDim * X(n) + (Y(n) + 1) /\ Y(n) + 1 \in Nat /\ n + 1 \in Nat
  BY <1>1, <1>2
<1>4. (n + 1) \div GridDim = X(n) /\ (n + 1) % GridDim = Y(n) + 1
  BY <1>1, <1>2, <1>3, OnlyPlace
<1> QED BY <1>4 DEF X, Y

LEMMA PreviousInRow ==
    ASSUME NEW n \in Planet, Y(n) > 0
    PROVE  X(n - 1) = X(n) /\ Y(n - 1) = Y(n) - 1 /\ n - 1 \in Planet
<1>1. n \in Nat /\ n < NodeCount /\ NodeCount \in Nat /\ GridDim \in Nat /\ GridDim > 0
  BY MeshAssumption DEF MeshAssumption, Planet
<1>2. /\ X(n) \in Nat /\ Y(n) \in Nat /\ n = GridDim * X(n) + Y(n) /\ GridDim * X(n) \in Nat
      /\ Y(n) < GridDim
  BY <1>1, PlaceOnTheGrid DEF X, Y
<1>3. PICK m, r : m = n - 1 /\ r = Y(n) - 1
  OBVIOUS
<1>6. m = GridDim * X(n) + r /\ r \in Nat /\ m \in Nat /\ r < GridDim
  BY <1>1, <1>2, <1>3
<1>4. m \div GridDim = X(n) /\ m % GridDim = r
  BY <1>1, <1>2, <1>6, OnlyPlace
<1>5. n - 1 \in Planet
  BY <1>1, <1>3, <1>6 DEF Planet
<1> QED BY <1>3, <1>4, <1>5 DEF X, Y

LEMMA NextRow ==
    ASSUME NEW n \in Planet
    PROVE  X(n + GridDim) = X(n) + 1 /\ Y(n + GridDim) = Y(n)
<1>1. n \in Nat /\ GridDim \in Nat /\ GridDim > 0
  BY MeshAssumption DEF MeshAssumption, Planet
<1>2. /\ X(n) \in Nat /\ Y(n) \in Nat /\ n = GridDim * X(n) + Y(n) /\ GridDim * X(n) \in Nat
      /\ Y(n) < GridDim
  BY <1>1, PlaceOnTheGrid DEF X, Y
<1>3. n + GridDim = GridDim * (X(n) + 1) + Y(n) /\ X(n) + 1 \in Nat /\ n + GridDim \in Nat
  BY <1>1, <1>2
<1>4. (n + GridDim) \div GridDim = X(n) + 1 /\ (n + GridDim) % GridDim = Y(n)
  BY <1>1, <1>2, <1>3, OnlyPlace
<1> QED BY <1>4 DEF X, Y

LEMMA PreviousRow ==
    ASSUME NEW n \in Planet, X(n) > 0
    PROVE  X(n - GridDim) = X(n) - 1 /\ Y(n - GridDim) = Y(n) /\ n - GridDim \in Planet
<1>1. n \in Nat /\ n < NodeCount /\ NodeCount \in Nat /\ GridDim \in Nat /\ GridDim > 0
  BY MeshAssumption DEF MeshAssumption, Planet
<1>2. /\ X(n) \in Nat /\ Y(n) \in Nat /\ n = GridDim * X(n) + Y(n) /\ GridDim * X(n) \in Nat
      /\ Y(n) < GridDim
  BY <1>1, PlaceOnTheGrid DEF X, Y
<1>3. PICK e \in Nat : X(n) = e + 1
  <2>1. X(n) - 1 \in Nat /\ X(n) = (X(n) - 1) + 1
    BY <1>2
  <2> QED BY <2>1
<1>4. GridDim * X(n) = GridDim * e + GridDim /\ GridDim * e \in Nat
  BY <1>1, <1>3
<1>5. n - GridDim = GridDim * e + Y(n) /\ n - GridDim \in Nat /\ n - GridDim < NodeCount
  BY <1>1, <1>2, <1>4
<1>6. (n - GridDim) \div GridDim = e /\ (n - GridDim) % GridDim = Y(n)
  BY <1>1, <1>2, <1>5, OnlyPlace
<1>7. n - GridDim \in Planet
  BY <1>1, <1>5 DEF Planet
<1> QED BY <1>2, <1>3, <1>6, <1>7 DEF X, Y

\* Squares, of differences that shrink by one.
LEMMA SquareFacts ==
    ASSUME NEW a \in Int
    PROVE  /\ Square(a) \in Nat /\ Square(a - 1) = Square(a) - 2 * a + 1
           /\ Square(a + 1) = Square(a) + 2 * a + 1 /\ Square(0) = 0 /\ Square(1) = 1 /\ Square(-1) = 1
           /\ a # 0 => Square(a) >= 1
<1>1. a * a \in Int /\ a * a >= 0 /\ (a # 0 => a * a >= 1)
  OBVIOUS
<1>2. (a - 1) * (a - 1) = a * a - 2 * a + 1 /\ (a + 1) * (a + 1) = a * a + 2 * a + 1
  OBVIOUS
<1> QED BY <1>1, <1>2 DEF Square

\* How much nearer the longer of two sides brings: a square of which two are as much as both.
Nearing(before, after) ==
    \E m \in Nat : m >= 1 /\ 2 * (m * m) >= before /\ after <= before - 2 * m + 1

LEMMA LongerSide ==
    ASSUME NEW a \in Int, NEW b \in Int, NEW after \in Nat,
           \/ a >= b /\ a >= -b /\ a > 0 /\ after = Square(a - 1) + Square(b)
           \/ -a >= b /\ -a >= -b /\ a < 0 /\ after = Square(a + 1) + Square(b)
    PROVE  Nearing(Square(a) + Square(b), after)
<1>1. Square(a) \in Nat /\ Square(b) \in Nat
  BY SquareFacts
<1>2. CASE a >= b /\ a >= -b /\ a > 0 /\ after = Square(a - 1) + Square(b)
  <2>1. b * b <= a * a
    <3>1. a - b >= 0 /\ a + b >= 0 /\ (a - b) * (a + b) = a * a - b * b
      BY <1>2
    <3>2. (a - b) * (a + b) >= 0
      <4>1. PICK u \in Nat, v \in Nat : u = a - b /\ v = a + b
        BY <3>1
      <4>2. u * v \in Nat
        OBVIOUS
      <4> QED BY <4>1, <4>2
    <3> QED BY <3>1, <3>2
  <2>2. Square(a) = a * a /\ Square(b) = b * b /\ Square(a - 1) = Square(a) - 2 * a + 1
    BY SquareFacts DEF Square
  <2>3. 2 * (a * a) >= Square(a) + Square(b) /\ after <= Square(a) + Square(b) - 2 * a + 1
    BY <1>1, <1>2, <2>1, <2>2
  <2>4. a \in Nat /\ a >= 1
    BY <1>2
  <2> QED BY <1>1, <2>3, <2>4 DEF Nearing
<1>3. CASE -a >= b /\ -a >= -b /\ a < 0 /\ after = Square(a + 1) + Square(b)
  <2>5. PICK c : c = -a
    OBVIOUS
  <2>1. c \in Nat /\ c >= 1 /\ c * c = a * a /\ c >= b /\ c + b >= 0 /\ a = -c
    BY <1>3, <2>5
  <2>2. b * b <= c * c
    <3>1. c - b >= 0 /\ c + b >= 0 /\ (c - b) * (c + b) = c * c - b * b
      BY <2>1
    <3>2. (c - b) * (c + b) >= 0
      <4>1. PICK u \in Nat, v \in Nat : u = c - b /\ v = c + b
        BY <2>1, <3>1
      <4>2. u * v \in Nat
        OBVIOUS
      <4> QED BY <4>1, <4>2
    <3> QED BY <2>1, <3>1, <3>2
  <2>3. Square(a) = c * c /\ Square(b) = b * b /\ Square(a + 1) = Square(a) - 2 * c + 1
    <3>1. Square(a + 1) = Square(a) + 2 * a + 1 /\ 2 * a = - (2 * c)
      BY <2>1, SquareFacts
    <3>2. Square(a) = c * c /\ Square(b) = b * b
      BY <2>1 DEF Square
    <3>3. Square(a) \in Int /\ 2 * c \in Int
      BY <2>1, SquareFacts
    <3> QED BY <3>1, <3>2, <3>3
  <2>4. 2 * (c * c) >= Square(a) + Square(b) /\ after <= Square(a) + Square(b) - 2 * c + 1
    BY <1>1, <1>3, <2>1, <2>2, <2>3
  <2> QED BY <1>1, <2>1, <2>4 DEF Nearing
<1> QED BY <1>2, <1>3

\* Whatever fits into the square that is left fits, one larger, into the one before.
LEMMA RoomForOneMore ==
    ASSUME NEW before \in Nat, NEW after \in Nat, Nearing(before, after),
           NEW x \in Nat, NEW y \in Nat, x * x + y * y <= after
    PROVE  \/ x * x + (y + 1) * (y + 1) <= before
           \/ (x + 1) * (x + 1) + y * y <= before
<1>1. PICK m \in Nat : m >= 1 /\ 2 * (m * m) >= before /\ after <= before - 2 * m + 1
  BY DEF Nearing
<1>2. ASSUME NEW u \in Nat, NEW v \in Nat, u <= v, u * u + v * v <= after
      PROVE  v * v + (u + 1) * (u + 1) <= before
  <2>1. u * u \in Nat /\ v * v \in Nat /\ m * m \in Nat /\ (u + 1) * (u + 1) = u * u + 2 * u + 1
    OBVIOUS
  <2>2. u * u <= v * v
    <3>1. PICK e \in Nat : v = u + e
      <4>1. v - u \in Nat /\ v = u + (v - u)
        BY <1>2
      <4> QED BY <4>1
    <3>2. v * v = u * u + 2 * (u * e) + e * e /\ u * e \in Nat /\ e * e \in Nat
      BY <3>1
    <3> QED BY <2>1, <3>2
  <2>3. 2 * (u * u) < 2 * (m * m)
    BY <1>1, <1>2, <2>1, <2>2
  <2>4. u < m
    <3> SUFFICES ASSUME ~ (u < m) PROVE FALSE
      OBVIOUS
    <3>1. PICK e \in Nat : u = m + e
      <4>1. u - m \in Nat /\ u = m + (u - m)
        OBVIOUS
      <4> QED BY <4>1
    <3>2. u * u = m * m + 2 * (m * e) + e * e /\ m * e \in Nat /\ e * e \in Nat
      BY <3>1
    <3> QED BY <2>1, <2>3, <3>2
  <2> QED BY <1>1, <1>2, <2>1, <2>4
<1>3. CASE y <= x
  <2>1. y * y + x * x <= after
    <3>1. x * x \in Nat /\ y * y \in Nat
      OBVIOUS
    <3> QED BY <3>1
  <2> QED BY <1>2, <1>3, <2>1
<1>4. CASE x <= y
  <2>1. y * y + (x + 1) * (x + 1) <= before
    BY <1>2, <1>4
  <2>2. y * y \in Nat /\ (x + 1) * (x + 1) \in Nat
    OBVIOUS
  <2> QED BY <2>1, <2>2
<1> QED BY <1>3, <1>4

LEMMA PlacesOfNodes ==
    ASSUME NEW n \in Planet
    PROVE  /\ X(n) \in Nat /\ Y(n) \in Nat /\ Y(n) < GridDim /\ X(n) < GridDim
           /\ n = GridDim * X(n) + Y(n) /\ GridDim * X(n) \in Nat
<1>1. /\ n \in Nat /\ n < NodeCount /\ NodeCount \in Nat /\ GridDim \in Nat /\ GridDim > 0
      /\ NodeCount <= GridDim * GridDim
  BY MeshAssumption DEF MeshAssumption, Planet
<1>2. /\ X(n) \in Nat /\ Y(n) \in Nat /\ n = GridDim * X(n) + Y(n) /\ GridDim * X(n) \in Nat
      /\ Y(n) < GridDim
  BY <1>1, PlaceOnTheGrid DEF X, Y
<1>3. X(n) < GridDim
  <2> SUFFICES ASSUME ~ (X(n) < GridDim) PROVE FALSE
    OBVIOUS
  <2>1. PICK e \in Nat : X(n) = GridDim + e
    <3>1. X(n) - GridDim \in Nat /\ X(n) = GridDim + (X(n) - GridDim)
      BY <1>1, <1>2
    <3> QED BY <3>1
  <2>2. GridDim * X(n) = GridDim * GridDim + GridDim * e /\ GridDim * e \in Nat
        /\ GridDim * GridDim \in Nat
    BY <1>1, <2>1
  <2> QED BY <1>1, <1>2, <2>2
<1> QED BY <1>2, <1>3

LEMMA DistanceIsANumber ==
    ASSUME NEW m \in Planet, NEW n \in Planet
    PROVE  /\ Distance(m, n) \in Nat
           /\ Distance(m, n) = 0 => m = n
<1>1. X(m) - X(n) \in Int /\ Y(m) - Y(n) \in Int
  BY PlacesOfNodes
<1>2. Square(X(m) - X(n)) \in Nat /\ Square(Y(m) - Y(n)) \in Nat
  BY <1>1, SquareFacts
<1>3. Distance(m, n) \in Nat
  BY <1>2 DEF Distance
<1>4. ASSUME Distance(m, n) = 0 PROVE m = n
  <2>1. Square(X(m) - X(n)) = 0 /\ Square(Y(m) - Y(n)) = 0
    BY <1>2, <1>4 DEF Distance
  <2>2. X(m) - X(n) = 0 /\ Y(m) - Y(n) = 0
    <3>1. \A a \in Int : Square(a) = 0 => a = 0
      BY SquareFacts
    <3> QED BY <1>1, <2>1, <3>1
  <2>3. X(m) = X(n) /\ Y(m) = Y(n)
    BY <2>2, PlacesOfNodes
  <2> QED BY <2>3, PlacesOfNodes
<1> QED BY <1>3, <1>4

\* A packet that is not where it is going has a neighbour nearer to it on the grid, and but at the
\* end of the last row one along the side that is longer.
LEMMA NeighbourAhead ==
    ASSUME NEW h \in Planet, NEW t \in Planet, h # t
    PROVE  \E k \in Planet : /\ Distance(k, h) = 1 /\ Distance(k, t) < Distance(h, t)
                             /\ h # NodeCount - 1 => Nearing(Distance(h, t), Distance(k, t))
<1>0. NodeCount \in Nat /\ GridDim \in Nat /\ GridDim > 0 /\ h < NodeCount /\ t < NodeCount
      /\ h \in Nat /\ t \in Nat
  BY MeshAssumption DEF MeshAssumption, Planet
<1>1. PICK a, b, c, d : a = X(h) /\ b = Y(h) /\ c = X(t) /\ d = Y(t)
  OBVIOUS
<1>2. /\ a \in Nat /\ b \in Nat /\ b < GridDim /\ a < GridDim /\ h = GridDim * a + b /\ GridDim * a \in Nat
      /\ c \in Nat /\ d \in Nat /\ d < GridDim /\ c < GridDim /\ t = GridDim * c + d /\ GridDim * c \in Nat
  BY <1>1, PlacesOfNodes
<1>3. Distance(h, t) = Square(a - c) + Square(b - d) /\ Distance(h, t) \in Nat
  BY <1>1, DistanceIsANumber DEF Distance
<1>4. PICK u, v : u = a - c /\ v = b - d
  OBVIOUS
<1>5. u \in Int /\ v \in Int /\ Square(u) \in Nat /\ Square(v) \in Nat
  <2>1. u \in Int /\ v \in Int
    BY <1>2, <1>4
  <2> QED BY <2>1, SquareFacts
\* The four directions: how far the neighbour is, and what the distance becomes.
<1>6. ASSUME NEW k \in Planet, X(k) = a, Y(k) = b - 1 \/ Y(k) = b + 1
      PROVE  /\ Distance(k, h) = 1
             /\ Distance(k, t) = Square(u) + Square(Y(k) - d)
  <2>1. a - a = 0 /\ (Y(k) - b = 1 \/ Y(k) - b = -1)
    BY <1>2, <1>6
  <2>2. Square(0) = 0 /\ Square(1) = 1 /\ Square(-1) = 1
    BY SquareFacts
  <2>3. Distance(k, h) = Square(a - a) + Square(Y(k) - b)
    BY <1>1, <1>6 DEF Distance
  <2>4. Distance(k, t) = Square(a - c) + Square(Y(k) - d)
    BY <1>1, <1>6 DEF Distance
  <2> QED BY <1>4, <2>1, <2>2, <2>3, <2>4
<1>7. ASSUME NEW k \in Planet, Y(k) = b, X(k) = a - 1 \/ X(k) = a + 1
      PROVE  /\ Distance(k, h) = 1
             /\ Distance(k, t) = Square(X(k) - c) + Square(v)
  <2>1. b - b = 0 /\ (X(k) - a = 1 \/ X(k) - a = -1)
    BY <1>2, <1>7
  <2>2. Square(0) = 0 /\ Square(1) = 1 /\ Square(-1) = 1
    BY SquareFacts
  <2>3. Distance(k, h) = Square(X(k) - a) + Square(b - b)
    BY <1>1, <1>7 DEF Distance
  <2>4. Distance(k, t) = Square(X(k) - c) + Square(b - d)
    BY <1>1, <1>7 DEF Distance
  <2> QED BY <1>4, <2>1, <2>2, <2>3, <2>4
<1>8. ASSUME v > 0
      PROVE  \E k \in Planet : /\ Distance(k, h) = 1 /\ Distance(k, t) = Square(u) + Square(v - 1)
                               /\ Distance(k, t) < Distance(h, t)
  <2>1. b > 0
    BY <1>2, <1>4, <1>8
  <2>2. PICK k \in Planet : X(k) = a /\ Y(k) = b - 1
    BY <1>1, <2>1, PreviousInRow
  <2>3. Y(k) - d = v - 1
    BY <1>2, <1>4, <2>2
  <2>4. Square(v - 1) = Square(v) - 2 * v + 1
    BY <1>5, SquareFacts
  <2>5. Distance(k, h) = 1 /\ Distance(k, t) = Square(u) + Square(v - 1)
    BY <1>6, <2>2, <2>3
  <2>6. Square(u) + Square(v - 1) < Square(u) + Square(v)
    BY <1>5, <1>8, <2>4
  <2> QED BY <1>3, <1>4, <2>5, <2>6
<1>9. ASSUME v < 0, h # NodeCount - 1
      PROVE  \E k \in Planet : /\ Distance(k, h) = 1 /\ Distance(k, t) = Square(u) + Square(v + 1)
                               /\ Distance(k, t) < Distance(h, t)
  <2>1. b + 1 < GridDim
    BY <1>0, <1>2, <1>4, <1>9
  <2>2. PICK k : k = h + 1
    OBVIOUS
  <2>3. k \in Planet
    BY <1>0, <1>9, <2>2 DEF Planet
  <2>4. X(k) = a /\ Y(k) = b + 1
    BY <1>1, <2>1, <2>2, NextInRow
  <2>5. Y(k) - d = v + 1
    BY <1>2, <1>4, <2>4
  <2>6. Square(v + 1) = Square(v) + 2 * v + 1
    BY <1>5, SquareFacts
  <2>7. Distance(k, h) = 1 /\ Distance(k, t) = Square(u) + Square(v + 1)
    BY <1>6, <2>3, <2>4, <2>5
  <2>8. Square(u) + Square(v + 1) < Square(u) + Square(v)
    BY <1>5, <1>9, <2>6
  <2> QED BY <1>3, <1>4, <2>3, <2>7, <2>8
<1>10. ASSUME u > 0
       PROVE  \E k \in Planet : /\ Distance(k, h) = 1 /\ Distance(k, t) = Square(u - 1) + Square(v)
                                /\ Distance(k, t) < Distance(h, t)
  <2>1. a > 0
    BY <1>2, <1>4, <1>10
  <2>2. PICK k \in Planet : X(k) = a - 1 /\ Y(k) = b
    BY <1>1, <2>1, PreviousRow
  <2>3. X(k) - c = u - 1
    BY <1>2, <1>4, <2>2
  <2>4. Square(u - 1) = Square(u) - 2 * u + 1
    BY <1>5, SquareFacts
  <2>5. Distance(k, h) = 1 /\ Distance(k, t) = Square(u - 1) + Square(v)
    BY <1>7, <2>2, <2>3
  <2>6. Square(u - 1) + Square(v) < Square(u) + Square(v)
    BY <1>5, <1>10, <2>4
  <2> QED BY <1>3, <1>4, <2>5, <2>6
\* Below, the row may end before: not if the target is further down, or no further to the left.
<1>11. ASSUME u < 0, u < -1 \/ v <= 0
       PROVE  \E k \in Planet : /\ Distance(k, h) = 1 /\ Distance(k, t) = Square(u + 1) + Square(v)
                                /\ Distance(k, t) < Distance(h, t)
  <2>1. PICK e \in Nat : c = a + 1 + e
    <3>1. c - a - 1 \in Nat /\ c = a + 1 + (c - a - 1)
      BY <1>2, <1>4, <1>11
    <3> QED BY <3>1
  <2>2. GridDim * c = GridDim * a + GridDim + GridDim * e /\ GridDim * e \in Nat
        /\ (e # 0 => GridDim * e >= GridDim)
    <3>1. GridDim * c = GridDim * a + GridDim + GridDim * e /\ GridDim * e \in Nat
      BY <1>0, <1>2, <2>1
    <3>2. ASSUME e # 0 PROVE GridDim * e >= GridDim
      <4>1. PICK f \in Nat : e = f + 1
        <5>1. e - 1 \in Nat /\ e = (e - 1) + 1
          BY <3>2
        <5> QED BY <5>1
      <4>2. GridDim * e = GridDim * f + GridDim /\ GridDim * f \in Nat
        BY <1>0, <4>1
      <4> QED BY <1>0, <4>2
    <3> QED BY <3>1, <3>2
  <2>3. PICK k : k = h + GridDim
    OBVIOUS
  <2>4. k \in Nat /\ k < NodeCount
    <3>1. CASE e # 0
      BY <1>0, <1>2, <2>2, <2>3, <3>1
    <3>2. CASE e = 0
      <4>1. b <= d
        BY <1>2, <1>4, <1>11, <2>1, <3>2
      <4> QED BY <1>0, <1>2, <2>2, <2>3, <4>1
    <3> QED BY <3>1, <3>2
  <2>5. k \in Planet
    BY <1>0, <2>4 DEF Planet
  <2>6. X(k) = a + 1 /\ Y(k) = b
    BY <1>1, <2>3, NextRow
  <2>7. X(k) - c = u + 1
    BY <1>2, <1>4, <2>6
  <2>8. Square(u + 1) = Square(u) + 2 * u + 1
    BY <1>5, SquareFacts
  <2>9. Distance(k, h) = 1 /\ Distance(k, t) = Square(u + 1) + Square(v)
    BY <1>7, <2>5, <2>6, <2>7
  <2>10. Square(u + 1) + Square(v) < Square(u) + Square(v)
    BY <1>5, <1>11, <2>8
  <2> QED BY <1>3, <1>4, <2>5, <2>9, <2>10
<1>12. u # 0 \/ v # 0
  <2>1. u = 0 /\ v = 0 => a = c /\ b = d
    BY <1>2, <1>4
  <2> QED BY <1>2, <2>1
<1>13. CASE h = NodeCount - 1
\* The last row has nothing below, and nothing to the right of its end.
  <2>1. u >= 0
    <3> SUFFICES ASSUME u < 0 PROVE FALSE
      BY <1>5
    <3>1. PICK e \in Nat : c = a + 1 + e
      <4>1. c - a - 1 \in Nat /\ c = a + 1 + (c - a - 1)
        BY <1>2, <1>4
      <4> QED BY <4>1
    <3>2. GridDim * c = GridDim * a + GridDim + GridDim * e /\ GridDim * e \in Nat
      BY <1>0, <1>2, <3>1
    <3> QED BY <1>0, <1>2, <1>13, <3>2
  <2>2. u = 0 => v >= 0
    <3> SUFFICES ASSUME u = 0, v < 0 PROVE FALSE
      BY <1>5
    <3>1. a = c /\ b < d
      BY <1>2, <1>4
    <3> QED BY <1>0, <1>2, <1>13, <3>1
  <2>3. u > 0 \/ v > 0
    BY <1>5, <1>12, <2>1, <2>2
  <2> QED BY <1>8, <1>10, <1>13, <2>3
<1>14. CASE h # NodeCount - 1 /\ v >= u /\ v >= -u /\ v > 0
  <2>1. PICK k \in Planet : /\ Distance(k, h) = 1 /\ Distance(k, t) = Square(u) + Square(v - 1)
                            /\ Distance(k, t) < Distance(h, t)
    BY <1>8, <1>14
  <2>2. Distance(k, t) \in Nat /\ Distance(k, t) = Square(v - 1) + Square(u)
    BY <1>5, <2>1, DistanceIsANumber, SquareFacts
  <2>3. Nearing(Square(v) + Square(u), Distance(k, t))
    BY <1>5, <1>14, <2>2, LongerSide
  <2>4. Distance(h, t) = Square(v) + Square(u)
    BY <1>3, <1>4, <1>5
  <2> QED BY <2>1, <2>3, <2>4
<1>15. CASE h # NodeCount - 1 /\ -v >= u /\ -v >= -u /\ v < 0
  <2>1. PICK k \in Planet : /\ Distance(k, h) = 1 /\ Distance(k, t) = Square(u) + Square(v + 1)
                            /\ Distance(k, t) < Distance(h, t)
    BY <1>9, <1>15
  <2>2. Distance(k, t) \in Nat /\ Distance(k, t) = Square(v + 1) + Square(u)
    BY <1>5, <2>1, DistanceIsANumber, SquareFacts
  <2>3. Nearing(Square(v) + Square(u), Distance(k, t))
    BY <1>5, <1>15, <2>2, LongerSide
  <2>4. Distance(h, t) = Square(v) + Square(u)
    BY <1>3, <1>4, <1>5
  <2> QED BY <2>1, <2>3, <2>4
<1>16. CASE h # NodeCount - 1 /\ u > v /\ u > -v
  <2>0. u > 0 /\ u >= v /\ u >= -v
    BY <1>5, <1>16
  <2>1. PICK k \in Planet : /\ Distance(k, h) = 1 /\ Distance(k, t) = Square(u - 1) + Square(v)
                            /\ Distance(k, t) < Distance(h, t)
    BY <1>10, <2>0
  <2>2. Distance(k, t) \in Nat
    BY DistanceIsANumber
  <2>3. Nearing(Square(u) + Square(v), Distance(k, t))
    BY <1>5, <2>0, <2>1, <2>2, LongerSide
  <2> QED BY <1>3, <1>4, <2>1, <2>3
<1>17. CASE h # NodeCount - 1 /\ -u > v /\ -u > -v
  <2>0. u < 0 /\ -u >= v /\ -u >= -v /\ (u < -1 \/ v <= 0)
    BY <1>5, <1>17
  <2>1. PICK k \in Planet : /\ Distance(k, h) = 1 /\ Distance(k, t) = Square(u + 1) + Square(v)
                            /\ Distance(k, t) < Distance(h, t)
    BY <1>11, <2>0
  <2>2. Distance(k, t) \in Nat
    BY DistanceIsANumber
  <2>3. Nearing(Square(u) + Square(v), Distance(k, t))
    BY <1>5, <2>0, <2>1, <2>2, LongerSide
  <2> QED BY <1>3, <1>4, <2>1, <2>3
<1>18. \/ v >= u /\ v >= -u /\ v > 0
       \/ -v >= u /\ -v >= -u /\ v < 0
       \/ u > v /\ u > -v
       \/ -u > v /\ -u > -v
  BY <1>5, <1>12
<1> QED BY <1>13, <1>14, <1>15, <1>16, <1>17, <1>18

LEMMA SquareInside ==
    ASSUME NEW u \in Int, NEW g \in Nat, u <= g, -u <= g PROVE Square(u) <= g * g
<1>1. PICK m \in Nat, n \in Nat : m = g - u /\ n = g + u
  OBVIOUS
<1>2. m * n \in Nat
  OBVIOUS
<1>3. (g - u) * (g + u) = g * g - u * u
  OBVIOUS
<1>4. g * g - u * u >= 0 /\ g * g \in Int /\ u * u \in Int
  BY <1>1, <1>2, <1>3
<1> QED BY <1>4 DEF Square

\* The sides of what fits between two nodes are together not longer than two of the grid.
LEMMA Widest ==
    ASSUME NEW m \in Planet, NEW n \in Planet, NEW x \in Nat, NEW y \in Nat,
           x * x + y * y <= Distance(m, n)
    PROVE  x + y <= 2 * (GridDim - 1)
<1>1. PICK g \in Nat : g = GridDim - 1
  <2>1. GridDim \in Nat /\ GridDim > 0
    BY MeshAssumption DEF MeshAssumption
  <2> QED BY <2>1
<1>2. PICK u \in Int, v \in Int : u = X(m) - X(n) /\ v = Y(m) - Y(n)
  BY PlacesOfNodes
<1>3. u <= g /\ -u <= g /\ v <= g /\ -v <= g
  <2>1. /\ X(m) \in Nat /\ Y(m) \in Nat /\ Y(m) < GridDim /\ X(m) < GridDim
        /\ X(n) \in Nat /\ Y(n) \in Nat /\ Y(n) < GridDim /\ X(n) < GridDim
    BY PlacesOfNodes
  <2>2. GridDim \in Nat
    BY MeshAssumption DEF MeshAssumption
  <2> QED BY <1>1, <1>2, <2>1, <2>2
<1>4. Square(u) <= g * g /\ Square(v) <= g * g /\ Square(u) \in Nat /\ Square(v) \in Nat
  BY <1>3, SquareInside, SquareFacts
<1>5. x * x + y * y <= Square(u) + Square(v)
  BY <1>2 DEF Distance
<1>6. x * x + y * y <= 2 * (g * g)
  <2>1. g * g \in Nat /\ x * x \in Nat /\ y * y \in Nat
    OBVIOUS
  <2> QED BY <1>4, <1>5, <2>1
<1>7. x + y <= 2 * g
  <2> SUFFICES ASSUME ~ (x + y <= 2 * g) PROVE FALSE
    OBVIOUS
  <2>1. PICK e \in Nat : x + y = 2 * g + 1 + e
    <3>1. x + y - 2 * g - 1 \in Nat /\ x + y = 2 * g + 1 + (x + y - 2 * g - 1)
      OBVIOUS
    <3> QED BY <3>1
  <2>2. (x + y) * (x + y) + (x - y) * (x - y) = 2 * (x * x) + 2 * (y * y)
    OBVIOUS
  <2>3. (x - y) * (x - y) >= 0
    <3>1. PICK d \in Int : d = x - y
      OBVIOUS
    <3>2. Square(d) \in Nat
      BY SquareFacts
    <3>3. d * d \in Nat
      BY <3>2 DEF Square
    <3> QED BY <3>1, <3>3
  <2>4. (2 * g + 1 + e) * (2 * g + 1 + e)
          = 4 * (g * g) + 1 + e * e + 4 * g + 4 * (g * e) + 2 * e
    OBVIOUS
  <2>5. g * g \in Nat /\ e * e \in Nat /\ g * e \in Nat /\ x * x \in Nat /\ y * y \in Nat
    OBVIOUS
  <2>6. (x + y) * (x + y) = 4 * (g * g) + 1 + e * e + 4 * g + 4 * (g * e) + 2 * e
    BY <2>1, <2>4
  <2>7. (x + y) * (x + y) \in Int /\ (x - y) * (x - y) \in Int
    OBVIOUS
  <2> QED BY <1>6, <2>2, <2>3, <2>5, <2>6, <2>7
<1> QED BY <1>1, <1>7

LEMMA NearestExists ==
    ASSUME NEW t \in Planet, NEW S, S \subseteq Planet, S # {}
    PROVE  \E m \in S : \A k \in S : Distance(m, t) <= Distance(k, t)
<1> DEFINE reached == {Distance(m, t) : m \in S}
           less == {ss \in Nat \X Nat : ss[1] < ss[2]}
<1>1. IsWellFoundedOn(less, Nat)
  BY NatLessThanWellFounded, Zenon DEF OpToRel
<1>2. reached \subseteq Nat /\ reached # {}
  BY DistanceIsANumber
<1>3. \E x \in reached : \A y \in reached : ~ (<<y, x>> \in less)
  <2> HIDE DEF reached, less
  <2> QED BY <1>1, <1>2, WFMin, Zenon
<1>4. PICK x \in reached : \A y \in reached : ~ (<<y, x>> \in less)
  BY <1>3
<1>5. \A y \in reached : x <= y
  <2> SUFFICES ASSUME NEW y \in reached, ~ (x <= y) PROVE FALSE
    OBVIOUS
  <2>1. x \in Nat /\ y \in Nat
    BY <1>2
  <2>2. <<y, x>> \in less
    BY <2>1
  <2> QED BY <1>4, <2>2
<1>6. PICK m \in S : x = Distance(m, t)
  BY <1>4
<1> QED BY <1>5, <1>6

\* A path that comes nearer with every hop, and has so much of the way behind it that what is left
\* cannot be too long. The end of the last row is the one place from which a hop may be a detour.
PastTheEnd(p) == \E i \in 1 .. Len(p) - 1 : p[i] = NodeCount - 1
Ahead(p, t) ==
    /\ \A i \in 1 .. Len(p) - 1 : Distance(p[i + 1], t) < Distance(p[i], t)
    /\ \A i \in 1 .. Len(p) - 1 : Distance(p[Len(p)], t) < Distance(p[i], t)
    /\ \A x, y \in Nat :
          x * x + y * y <= Distance(p[Len(p)], t)
             => x + y + Len(p) <= 2 * GridDim - 1 + (IF PastTheEnd(p) THEN 1 ELSE 0)

PlanetInv ==
    /\ online \subseteq Planet /\ target \in Planet /\ path \in Seq(Planet)
    /\ outcome \in {"none", "delivered", "unreachable"}
    /\ \A i, j \in 1 .. Len(path) : path[i] = path[j] => i = j
    /\ online = Planet => outcome # "unreachable" /\ (path # <<>> => Ahead(path, target))

LEMMA AheadAtFirst ==
    ASSUME NEW p \in Seq(Planet), Len(p) = 1, NEW t \in Planet PROVE Ahead(p, t)
<1>1. p[1] \in Planet /\ 1 .. Len(p) - 1 = {} /\ GridDim \in Nat
  BY MeshAssumption DEF MeshAssumption
<1>2. ASSUME NEW x \in Nat, NEW y \in Nat, x * x + y * y <= Distance(p[1], t)
      PROVE  x + y + Len(p) <= 2 * GridDim - 1 + (IF PastTheEnd(p) THEN 1 ELSE 0)
  <2>1. x + y <= 2 * (GridDim - 1)
    BY <1>1, <1>2, Widest
  <2> QED BY <1>1, <2>1
<1> QED BY <1>1, <1>2 DEF Ahead

LEMMA AheadOfLimit ==
    ASSUME NEW p \in Seq(Planet), Len(p) > 0, NEW t \in Planet, Ahead(p, t) PROVE Len(p) < MaxHops
<1>1. /\ GridDim \in Nat /\ GridDim > 0 /\ HopFactor \in Nat /\ HopFactor >= 3
  BY MeshAssumption DEF MeshAssumption
<1>2. p[Len(p)] \in Planet /\ Len(p) \in Nat
  OBVIOUS
<1>3. Distance(p[Len(p)], t) >= 0
  BY <1>2, DistanceIsANumber
<1>4. 0 * 0 + 0 * 0 <= Distance(p[Len(p)], t)
  BY <1>2, <1>3, DistanceIsANumber
<1>5. 0 + 0 + Len(p) <= 2 * GridDim - 1 + (IF PastTheEnd(p) THEN 1 ELSE 0)
  BY <1>4 DEF Ahead
<1>6. Len(p) <= 2 * GridDim
  BY <1>1, <1>2, <1>5
<1>7. PICK e \in Nat : HopFactor = 3 + e
  <2>1. HopFactor - 3 \in Nat /\ HopFactor = 3 + (HopFactor - 3)
    BY <1>1
  <2> QED BY <2>1
<1>8. HopFactor * GridDim = 3 * GridDim + e * GridDim /\ e * GridDim \in Nat
  BY <1>1, <1>7
<1> QED BY <1>1, <1>2, <1>6, <1>8 DEF MaxHops

LEMMA AheadAfterHop ==
    ASSUME NEW p \in Seq(Planet), Len(p) > 0, NEW t \in Planet, Ahead(p, t),
           NEW k \in Planet, NEW m \in Planet, Distance(m, t) <= Distance(k, t),
           Distance(k, t) < Distance(p[Len(p)], t),
           p[Len(p)] # NodeCount - 1 => Nearing(Distance(p[Len(p)], t), Distance(k, t)),
           NEW n \in Seq(Planet), Len(n) = Len(p) + 1, n[Len(p) + 1] = m,
           \A i \in 1 .. Len(p) : n[i] = p[i]
    PROVE  Ahead(n, t)
<1>0. GridDim \in Nat /\ Len(p) \in Nat /\ Len(n) = Len(p) + 1 /\ n[Len(p) + 1] = m
  BY MeshAssumption DEF MeshAssumption
<1>1. PICK h \in Planet : h = p[Len(p)]
  BY <1>0
<1>2. PICK before \in Nat, between \in Nat, after \in Nat :
         before = Distance(h, t) /\ between = Distance(k, t) /\ after = Distance(m, t)
  BY DistanceIsANumber
<1>3. after <= between /\ between < before
  BY <1>1, <1>2
<1>4. \A i \in 1 .. Len(p) : Distance(p[i], t) \in Nat /\ before <= Distance(p[i], t)
  <2> SUFFICES ASSUME NEW i \in 1 .. Len(p)
               PROVE  Distance(p[i], t) \in Nat /\ before <= Distance(p[i], t)
    OBVIOUS
  <2>1. p[i] \in Planet
    OBVIOUS
  <2>2. Distance(p[i], t) \in Nat
    BY <2>1, DistanceIsANumber
  <2>3. CASE i = Len(p)
    BY <1>1, <1>2, <2>2, <2>3
  <2>4. CASE i # Len(p)
    <3>1. i \in 1 .. Len(p) - 1
      BY <1>0, <2>4
    <3>2. before < Distance(p[i], t)
      BY <1>1, <1>2, <3>1 DEF Ahead
    <3> QED BY <2>2, <3>2
  <2> QED BY <2>3, <2>4
<1>5. \A i \in 1 .. Len(n) - 1 : /\ i \in 1 .. Len(p) /\ n[i] = p[i]
                                 /\ i # Len(p) => i \in 1 .. Len(p) - 1 /\ i + 1 \in 1 .. Len(p)
  BY <1>0
<1>6. ASSUME NEW i \in 1 .. Len(n) - 1 PROVE Distance(n[Len(n)], t) < Distance(n[i], t)
  <2>1. Distance(n[i], t) \in Nat /\ before <= Distance(n[i], t)
    BY <1>4, <1>5
  <2>2. Distance(n[Len(n)], t) = after
    BY <1>0, <1>2
  <2> QED BY <1>3, <2>1, <2>2
<1>7. ASSUME NEW i \in 1 .. Len(n) - 1 PROVE Distance(n[i + 1], t) < Distance(n[i], t)
  <2>1. CASE i = Len(p)
    BY <1>0, <1>6, <2>1
  <2>2. CASE i # Len(p)
    <3>1. i \in 1 .. Len(p) - 1 /\ n[i] = p[i] /\ n[i + 1] = p[i + 1]
      BY <1>5, <2>2
    <3> QED BY <3>1 DEF Ahead
  <2> QED BY <2>1, <2>2
<1>8. ASSUME NEW x \in Nat, NEW y \in Nat, x * x + y * y <= Distance(n[Len(n)], t)
      PROVE  x + y + Len(n) <= 2 * GridDim - 1 + (IF PastTheEnd(n) THEN 1 ELSE 0)
  <2>1. x * x + y * y <= after /\ x * x + y * y \in Nat
    BY <1>0, <1>2, <1>8
  <2>2. \A a, b \in Nat : a * a + b * b <= before
           => a + b + Len(p) <= 2 * GridDim - 1 + (IF PastTheEnd(p) THEN 1 ELSE 0)
    BY <1>1, <1>2 DEF Ahead
  <2>3. PastTheEnd(p) => PastTheEnd(n)
    <3> SUFFICES ASSUME PastTheEnd(p) PROVE PastTheEnd(n)
      OBVIOUS
    <3>1. PICK i \in 1 .. Len(p) - 1 : p[i] = NodeCount - 1
      BY DEF PastTheEnd
    <3>2. i \in 1 .. Len(n) - 1 /\ i \in 1 .. Len(p)
      BY <1>0
    <3>3. n[i] = NodeCount - 1
      BY <1>5, <3>1, <3>2
    <3> QED BY <3>2, <3>3 DEF PastTheEnd
  <2>4. CASE h # NodeCount - 1
    <3>1. Nearing(before, between)
      BY <1>1, <1>2, <2>4
    <3>2. x * x + y * y <= between
      BY <1>3, <2>1
    <3>3. x * x + (y + 1) * (y + 1) <= before \/ (x + 1) * (x + 1) + y * y <= before
      BY <3>1, <3>2, RoomForOneMore
    <3>4. \/ x + (y + 1) + Len(p) <= 2 * GridDim - 1 + (IF PastTheEnd(p) THEN 1 ELSE 0)
          \/ (x + 1) + y + Len(p) <= 2 * GridDim - 1 + (IF PastTheEnd(p) THEN 1 ELSE 0)
      <4>1. x + 1 \in Nat /\ y + 1 \in Nat
        OBVIOUS
      <4> QED BY <2>2, <3>3, <4>1
    <3> QED BY <1>0, <2>3, <3>4
  <2>5. CASE h = NodeCount - 1
    <3>1. ~ PastTheEnd(p)
      <4> SUFFICES ASSUME PastTheEnd(p) PROVE FALSE
        OBVIOUS
      <4>1. PICK i \in 1 .. Len(p) - 1 : p[i] = NodeCount - 1
        BY DEF PastTheEnd
      <4>2. Distance(p[Len(p)], t) < Distance(p[i], t)
        BY DEF Ahead
      <4>3. before < before
        BY <1>1, <1>2, <2>5, <4>1, <4>2
      <4> QED BY <4>3
    <3>2. PastTheEnd(n)
      <4>1. Len(p) \in 1 .. Len(n) - 1 /\ n[Len(p)] = h
        BY <1>0, <1>1
      <4> QED BY <2>5, <4>1 DEF PastTheEnd
    <3>3. x * x + y * y <= before
      BY <1>3, <2>1
    <3>4. x + y + Len(p) <= 2 * GridDim - 1
      BY <1>0, <2>2, <3>1, <3>3
    <3> QED BY <1>0, <3>2, <3>4
  <2> QED BY <2>4, <2>5
<1> QED BY <1>6, <1>7, <1>8 DEF Ahead

LEMMA PlanetStep == PlanetInv /\ [PlanetNext]_planetVars => PlanetInv'
<1> SUFFICES ASSUME PlanetInv, [PlanetNext]_planetVars PROVE PlanetInv'
  OBVIOUS
<1>0. /\ online \subseteq Planet /\ target \in Planet /\ path \in Seq(Planet)
      /\ outcome \in {"none", "delivered", "unreachable"}
      /\ \A i, j \in 1 .. Len(path) : path[i] = path[j] => i = j
      /\ online = Planet => outcome # "unreachable" /\ (path # <<>> => Ahead(path, target))
  BY DEF PlanetInv
\* A packet that is no longer under way leaves nothing behind but how it ended.
<1>1. ASSUME NEW o \in {"none", "delivered", "unreachable"}, path' = <<>>, online' \subseteq online,
             target' = target, outcome' = o, online' = Planet => o # "unreachable"
      PROVE  PlanetInv'
  <2>1. path' \in Seq(Planet) /\ 1 .. Len(path') = {}
    BY <1>1
  <2> QED BY <1>0, <1>1, <2>1 DEF PlanetInv
<1>2. CASE UNCHANGED planetVars
  BY <1>2 DEF planetVars, PlanetInv
<1>3. ASSUME NEW s \in Planet, NEW d \in Planet, Depart(s, d) PROVE PlanetInv'
  <2>1. PICK p : p = <<s>>
    OBVIOUS
  <2>2. p \in Seq(Planet) /\ Len(p) = 1 /\ \A i, j \in 1 .. Len(p) : i = j
    BY <2>1
  <2>3. Ahead(p, d)
    BY <2>2, AheadAtFirst
  <2>4. path' = p /\ target' = d /\ outcome' = "none" /\ online' = online
    BY <1>3, <2>1 DEF Depart
  <2> QED BY <1>0, <2>2, <2>3, <2>4 DEF PlanetInv
<1>4. CASE Arrive
  BY <1>1, <1>4 DEF Arrive, End
<1>5. CASE RunOut
  <2>1. path # <<>> /\ ~ (Len(path) < MaxHops) /\ path' = <<>> /\ outcome' = "unreachable"
        /\ online' = online /\ target' = target
    <3>1. path # <<>> /\ Len(path) >= MaxHops /\ path' = <<>> /\ outcome' = "unreachable"
          /\ online' = online /\ target' = target
      BY <1>5 DEF RunOut, End
    <3>2. Len(path) \in Nat /\ MaxHops \in Int
      BY <1>0, MeshAssumption DEF MeshAssumption, MaxHops
    <3> QED BY <3>1, <3>2
  <2>2. Len(path) > 0
    BY <1>0, <2>1
  <2>3. online # Planet
    BY <1>0, <2>1, <2>2, AheadOfLimit
  <2> QED BY <1>1, <2>1, <2>3
<1>6. CASE Travel
  <2>1. path # <<>> /\ Here # target
    BY <1>6 DEF Travel, Moving
  <2>2. Len(path) \in Nat /\ Len(path) > 0 /\ DOMAIN path = 1 .. Len(path)
    BY <1>0, <2>1
  <2>3. Here \in Planet /\ Len(path) \in 1 .. Len(path)
    BY <1>0, <2>2 DEF Here
  <2>4. PICK links, first : \/ \E m \in first : /\ Hop(m) /\ m \in Open(ShortLinks(Here) \cup links)
                                                /\ m \in Best(ShortLinks(Here) \cup links)
                                                   \/ Best(ShortLinks(Here) \cup links) = {}
                            \/ /\ Best(ShortLinks(Here) \cup links) = {} /\ End("unreachable")
    <3>1. PICK s \in Shortcuts(Here) :
            LET best == Best(ShortLinks(Here) \cup s)
                open == Open(ShortLinks(Here) \cup s)
                first(set) == IF set \cap ShortLinks(Here) # {} THEN set \cap ShortLinks(Here) ELSE set
            IN  \/ \E m \in first(best) : Hop(m)
                \/ best = {} /\ \E m \in first(open) : Hop(m)
                \/ best = {} /\ open = {} /\ End("unreachable")
      BY <1>6 DEF Travel
    <3>2. PICK best, open : best = Best(ShortLinks(Here) \cup s) /\ open = Open(ShortLinks(Here) \cup s)
      OBVIOUS
    <3>3. best \subseteq open
      BY <3>2 DEF Best
    <3>4. \/ \E m \in best : Hop(m)
          \/ best = {} /\ \E m \in open : Hop(m)
          \/ best = {} /\ open = {} /\ End("unreachable")
      BY <3>1, <3>2
    <3> QED BY <3>2, <3>3, <3>4
  <2>5. PICK all : all = ShortLinks(Here) \cup links
    OBVIOUS
\* While every node is online the next one along the longer side is open, so one is the best.
  <2>6. ASSUME online = Planet
        PROVE  \E k \in Planet : /\ k \in Open(all) /\ Distance(k, target) < Distance(Here, target)
                                 /\ Here # NodeCount - 1
                                      => Nearing(Distance(Here, target), Distance(k, target))
    <3>1. PICK k \in Planet : /\ Distance(k, Here) = 1 /\ Distance(k, target) < Distance(Here, target)
                              /\ Here # NodeCount - 1
                                   => Nearing(Distance(Here, target), Distance(k, target))
      BY <1>0, <2>1, <2>3, NeighbourAhead
    <3>2. k \in all /\ k \in online
      BY <2>5, <2>6, <3>1 DEF ShortLinks
    <3>3. \A i \in 1 .. Len(path) : path[i] # k
      <4> SUFFICES ASSUME NEW i \in 1 .. Len(path), path[i] = k PROVE FALSE
        OBVIOUS
      <4>1. i # Len(path)
        <5>1. Distance(k, target) \in Nat
          BY <1>0, DistanceIsANumber
        <5>2. k # Here
          BY <3>1, <5>1
        <5> QED BY <5>2 DEF Here
      <4>2. i \in 1 .. Len(path) - 1
        <5>1. Len(path) \in Nat
          BY <2>2
        <5> QED BY <4>1, <5>1
      <4>3. Distance(Here, target) < Distance(k, target)
        BY <1>0, <2>1, <2>6, <4>2 DEF Ahead, Here
      <4>4. Distance(k, target) \in Nat /\ Distance(Here, target) \in Nat
        BY <1>0, <2>3, DistanceIsANumber
      <4> QED BY <3>1, <4>3, <4>4
    <3>4. k \notin Range(path)
      BY <2>2, <3>3 DEF Range
    <3>5. k \in Open(all)
      BY <3>2, <3>4 DEF Open
    <3> QED BY <3>1, <3>5
  <2>7. online = Planet => Best(all) # {}
    <3> SUFFICES ASSUME online = Planet PROVE Best(all) # {}
      OBVIOUS
    <3>1. PICK k \in Planet : k \in Open(all) /\ Distance(k, target) < Distance(Here, target)
      BY <2>6
    <3>2. Open(all) \subseteq Planet /\ Open(all) # {}
      BY <3>1 DEF Open
    <3>3. PICK m \in Open(all) : \A j \in Open(all) : Distance(m, target) <= Distance(j, target)
      BY <1>0, <3>2, NearestExists
    <3>4. Distance(m, target) < Distance(Here, target)
      <4>1. /\ Distance(m, target) \in Nat /\ Distance(k, target) \in Nat
            /\ Distance(Here, target) \in Nat
        BY <1>0, <2>3, <3>2, <3>3, DistanceIsANumber
      <4>2. Distance(m, target) <= Distance(k, target)
        BY <3>1, <3>3
      <4> QED BY <3>1, <4>1, <4>2
    <3> QED BY <3>3, <3>4 DEF Best
  <2>8. CASE Best(all) = {} /\ End("unreachable")
    BY <1>1, <2>7, <2>8 DEF End
  <2>9. ASSUME NEW m, Hop(m), m \in Open(all), m \in Best(all) \/ Best(all) = {}
        PROVE  PlanetInv'
    <3>1. m \in Planet /\ m \notin Range(path)
      BY <1>0, <2>9 DEF Open
    <3>2. /\ path' = Append(path, m) /\ online' = online /\ target' = target /\ outcome' = outcome
      BY <2>9 DEF Hop
    <3>3. PICK n : n = Append(path, m)
      OBVIOUS
    <3>4. /\ n \in Seq(Planet) /\ Len(n) = Len(path) + 1 /\ n[Len(path) + 1] = m
          /\ \A i \in 1 .. Len(path) : n[i] = path[i]
      BY <1>0, <3>1, <3>3
    <3>5. ASSUME NEW i \in 1 .. Len(n), NEW j \in 1 .. Len(n), n[i] = n[j] PROVE i = j
      <4>1. \A l \in 1 .. Len(path) : path[l] # m
        BY <2>2, <3>1 DEF Range
      <4>2. /\ i \in 1 .. Len(path) \/ i = Len(path) + 1
            /\ j \in 1 .. Len(path) \/ j = Len(path) + 1
        BY <2>2, <3>4
      <4> QED BY <1>0, <3>4, <3>5, <4>1, <4>2
    <3>6. ASSUME online = Planet PROVE outcome # "unreachable" /\ Ahead(n, target)
      <4>1. PICK k \in Planet : /\ k \in Open(all) /\ Distance(k, target) < Distance(Here, target)
                                /\ Here # NodeCount - 1
                                     => Nearing(Distance(Here, target), Distance(k, target))
        BY <2>6, <3>6
      <4>2. m \in Best(all)
        BY <2>7, <2>9, <3>6
      <4>3. Distance(m, target) <= Distance(k, target)
        BY <4>1, <4>2 DEF Best
      <4>4. PICK p, t : p = path /\ t = target
        OBVIOUS
      <4>5. /\ p \in Seq(Planet) /\ Len(p) > 0 /\ t \in Planet /\ Ahead(p, t) /\ Here = p[Len(p)]
        BY <1>0, <2>1, <2>2, <3>6, <4>4 DEF Here
      <4>6. Len(n) = Len(p) + 1 /\ n[Len(p) + 1] = m /\ \A i \in 1 .. Len(p) : n[i] = p[i]
        BY <3>4, <4>4
      <4>7. /\ Distance(m, t) <= Distance(k, t) /\ Distance(k, t) < Distance(p[Len(p)], t)
            /\ p[Len(p)] # NodeCount - 1 => Nearing(Distance(p[Len(p)], t), Distance(k, t))
        BY <4>1, <4>3, <4>4, <4>5
      <4>8. Ahead(n, t)
        BY <3>1, <3>4, <4>5, <4>6, <4>7, AheadAfterHop
      <4> QED BY <1>0, <3>6, <4>4, <4>8
    <3>7. path' = n
      BY <3>2, <3>3
    <3> QED BY <1>0, <3>2, <3>4, <3>5, <3>6, <3>7 DEF PlanetInv
  <2> QED BY <2>4, <2>5, <2>8, <2>9
<1>7. ASSUME NEW failed \in SUBSET Planet, SimulateFailure(failed) PROVE PlanetInv'
  <2>1. /\ path' = <<>> /\ online' \subseteq online /\ target' = target /\ outcome' = outcome
    BY <1>7 DEF SimulateFailure
  <2>2. online' = Planet => outcome # "unreachable"
    BY <1>0, <2>1
  <2> QED BY <1>0, <1>1, <2>1, <2>2
<1> QED BY <1>2, <1>3, <1>4, <1>5, <1>6, <1>7 DEF PlanetNext

LEMMA PlanetStarts == PlanetInit => PlanetInv
<1> SUFFICES ASSUME PlanetInit PROVE PlanetInv
  OBVIOUS
<1>1. 0 \in Planet
  BY MeshAssumption DEF MeshAssumption, Planet
<1>2. path \in Seq(Planet) /\ 1 .. Len(path) = {}
  BY DEF PlanetInit
<1> QED BY <1>1, <1>2 DEF PlanetInit, PlanetInv

LEMMA PlanetRoutes == PlanetInv => IntactMeshRoutes
<1> SUFFICES ASSUME PlanetInv PROVE IntactMeshRoutes
  OBVIOUS
<1>1. CASE path = <<>>
  <2>1. 1 .. Len(path) - 1 = {}
    BY <1>1
  <2> QED BY <2>1 DEF PlanetInv, IntactMeshRoutes
<1>2. CASE path # <<>>
  BY <1>2 DEF PlanetInv, Ahead, IntactMeshRoutes
<1> QED BY <1>1, <1>2

\* No node is visited twice, so that a path is no longer than there are nodes.
LEMMA PlanetTypes == PlanetInv => PlanetTypeOK
<1> SUFFICES ASSUME PlanetInv PROVE Len(path) <= NodeCount
  BY DEF PlanetInv, PlanetTypeOK
<1>0. NodeCount \in Nat /\ NodeCount >= 4
  BY MeshAssumption DEF MeshAssumption
<1>1. path \in Seq(Planet) /\ \A i, j \in 1 .. Len(path) : path[i] = path[j] => i = j
  BY DEF PlanetInv
<1>2. Len(path) \in Nat /\ path \in [1 .. Len(path) -> Planet]
  BY <1>1
<1>3. path \in Injection(1 .. Len(path), Planet)
  BY <1>1, <1>2 DEF Injection, IsInjective
<1>4. IsFiniteSet(Planet) /\ Cardinality(Planet) = NodeCount
  BY <1>0, FS_Interval DEF Planet
<1>5. Cardinality(1 .. Len(path)) = Len(path)
  BY <1>2, FS_Interval
<1>6. Cardinality(1 .. Len(path)) <= Cardinality(Planet)
  BY <1>3, <1>4, FS_Injection
<1> QED BY <1>4, <1>5, <1>6

LEMMA PlanetInvHolds == ServicesSpec => []PlanetInv
<1>1. ServicesInit => PlanetInv
  BY PlanetStarts DEF ServicesInit
<1>2. PlanetInv /\ [ServicesNext]_servicesVars => PlanetInv'
  BY PlanetStep, EveryStepIsOfAService
<1> HIDE DEF PlanetInv
<1> QED BY <1>1, <1>2, PTL DEF ServicesSpec

\* Every table agrees with what it is a table of, in every state the services get into: the routing
\* table, what is looked up in it, the mesh while all of it is online, the devices and their
\* addresses (dht_kademlia.go:86-169, planetary_mesh.go:141-199, shadow_device.go:77-107).
THEOREM TablesHold == ServicesSpec => []TablesAgree
<1>1. OrderInv => TableIsOrderly /\ HeldIsFound
  BY OrderIsSeen, OrderFinds
<1>2. ShadowInv => DeviceTablesAgree
  BY DEF ShadowInv
<1>3. OrderInv /\ PlanetInv /\ ShadowInv => TablesAgree
  BY <1>1, <1>2, PlanetRoutes DEF TablesAgree
<1> HIDE DEF OrderInv, PlanetInv, ShadowInv
<1> QED BY <1>3, OrderInvHolds, PlanetInvHolds, ShadowInvHolds, PTL

-----------------------------------------------------------------------------
(***************************************************************************)
(* Types and capacities of all services.                                   *)
(***************************************************************************)

LEMMA TunTypes == /\ TunInit => TunTypeOK
                  /\ TunTypeOK /\ [TunNext]_tunVars => TunTypeOK'
<1>0. QueueCapacity \in Nat \ {0} /\ MaxForwarded \in Nat
  BY TunAssumption DEF TunAssumption
<1>1. TunInit => TunTypeOK
  <2> SUFFICES ASSUME TunInit PROVE TunTypeOK
    OBVIOUS
  <2>1. held \in [Channels -> 0 .. QueueCapacity] /\ sending \in [Writers -> BOOLEAN]
    BY <1>0 DEF TunInit
  <2>2. forwarded \in 0 .. MaxForwarded
    BY <1>0 DEF TunInit
  <2> QED BY <2>1, <2>2 DEF TunInit, TunTypeOK
<1>2. ASSUME TunTypeOK, [TunNext]_tunVars PROVE TunTypeOK'
  <2> USE DEF Channels
  <2>0. /\ held \in [Channels -> 0 .. QueueCapacity] /\ sending \in [Writers -> BOOLEAN]
        /\ forwarded \in 0 .. MaxForwarded
    BY <1>2 DEF TunTypeOK
  \* What a step may do to the packets of one channel.
  <2>1. ASSUME NEW c \in Channels, NEW n \in 0 .. QueueCapacity
        PROVE  [held EXCEPT ![c] = n] \in [Channels -> 0 .. QueueCapacity]
    BY <2>0
  <2>2. CASE CheckContext \/ EnterRead \/ Pause
    BY <1>2, <2>2 DEF CheckContext, EnterRead, Pause, TunTypeOK
  <2>3. CASE ReadPacket
    <3>1. held' \in [Channels -> 0 .. QueueCapacity]
      BY <1>0, <2>0, <2>3 DEF ReadPacket
    <3>2. forwarded' \in 0 .. MaxForwarded
      BY <1>0, <2>0, <2>3 DEF ReadPacket, HandleInboundFromOS
    <3> QED BY <1>2, <2>3, <3>1, <3>2 DEF ReadPacket, TunTypeOK
  <2>4. CASE BeginClose \/ Closing
    BY <1>2, <2>4 DEF BeginClose, Closing, CloseAdapter, TunTypeOK
  <2>5. CASE Consume
    <3>1. held' \in [Channels -> 0 .. QueueCapacity]
      BY <1>0, <2>0, <2>5 DEF Consume
    <3> QED BY <1>2, <2>5, <3>1 DEF Consume, TunTypeOK
  <2>6. ASSUME NEW w \in Writers, FindOpen(w) PROVE TunTypeOK'
    BY <1>2, <2>0, <2>6 DEF FindOpen, TunTypeOK
  <2>7. ASSUME NEW w \in Writers, Send(w) PROVE TunTypeOK'
    <3>1. PICK c \in Channels : /\ tunPanic' = (c \in closedChans)
                                /\ held' = IF c \in closedChans \/ held[c] = QueueCapacity THEN held
                                           ELSE [held EXCEPT ![c] = @ + 1]
      BY <2>7 DEF Send
    <3>2. held' \in [Channels -> 0 .. QueueCapacity]
      BY <1>0, <2>0, <3>1
    <3>3. sending' \in [Writers -> BOOLEAN]
      BY <2>0, <2>7 DEF Send
    <3> QED BY <1>2, <2>7, <3>1, <3>2, <3>3 DEF Send, TunTypeOK
  <2>8. CASE UNCHANGED tunVars
    BY <1>2, <2>8 DEF tunVars, TunTypeOK
  <2> QED BY <1>2, <2>2, <2>3, <2>4, <2>5, <2>6, <2>7, <2>8 DEF TunNext, Reading
<1> QED BY <1>1, <1>2

LEMMA GuardTypes == /\ GuardInit => GuardTypeOK
                    /\ GuardTypeOK /\ [GuardNext]_guardVars => GuardTypeOK'
<1>0. HeartbeatTimeout \in Nat /\ MaxClock \in Nat
  BY GuardAssumption DEF GuardAssumption
<1>1. GuardInit => GuardTypeOK
  BY <1>0 DEF GuardInit, GuardTypeOK
<1>2. ASSUME GuardTypeOK, [GuardNext]_guardVars PROVE GuardTypeOK'
  <2>0. /\ clock \in 0 .. MaxClock /\ DOMAIN census \subseteq Members
        /\ \A d \in DOMAIN census : census[d] \in {Never} \cup 0 .. clock
        /\ alive \subseteq DOMAIN census
    BY <1>2 DEF GuardTypeOK
  <2>1. ASSUME NEW d \in Members, NEW t \in {Never} \cup 0 .. clock, census' = Noted(d, t),
               alive' \subseteq DOMAIN census \cup {d}, UNCHANGED <<clock, guard, lastBad>>
        PROVE  GuardTypeOK'
    <3>1. /\ DOMAIN census' = DOMAIN census \cup {d}
          /\ \A e \in DOMAIN census' : census'[e] \in {Never} \cup 0 .. clock
      BY <2>0, <2>1 DEF Noted
    <3> QED BY <1>2, <2>0, <2>1, <3>1 DEF GuardTypeOK
  <2>2. ASSUME NEW d \in Members, RecordHeartbeat(d) \/ RegisterPeer(d) PROVE GuardTypeOK'
    <3>1. clock \in 0 .. clock
      BY <2>0
    <3> QED BY <2>0, <2>1, <2>2, <3>1 DEF RecordHeartbeat, RegisterPeer
  <2>3. CASE AuditLiveness
    <3>1. alive' \subseteq DOMAIN census /\ UNCHANGED <<clock, census>>
      BY <2>3 DEF AuditLiveness, Heard
    <3>2. guard' \in [state : {"HEALTHY", "PARTITIONED", "RECOVERING"}, changedAt : 0 .. clock]
      <4>1. \A s \in {"HEALTHY", "PARTITIONED", "RECOVERING"} :
               Become(s) => guard' \in [state : {"HEALTHY", "PARTITIONED", "RECOVERING"},
                                        changedAt : 0 .. clock]
        BY <2>0 DEF Become
      <4> QED BY <1>2, <2>3, <4>1 DEF AuditLiveness, Recover, Isolate, GuardTypeOK
    <3>3. lastBad' \in {Never} \cup 0 .. clock
      BY <1>2, <2>0, <2>3 DEF AuditLiveness, Recover, Isolate, GuardTypeOK
    <3> QED BY <1>2, <3>1, <3>2, <3>3 DEF GuardTypeOK
  <2>4. CASE GuardTick
    <3>1. clock' \in 0 .. MaxClock /\ 0 .. clock \subseteq 0 .. clock'
      BY <1>0, <2>0, <2>4 DEF GuardTick
    <3> QED BY <1>2, <2>4, <3>1 DEF GuardTick, GuardTypeOK
  <2>5. CASE UNCHANGED guardVars
    BY <1>2, <2>5 DEF guardVars, GuardTypeOK
  <2> QED BY <1>2, <2>2, <2>3, <2>4, <2>5 DEF GuardNext
<1> QED BY <1>1, <1>2

LEMMA EgressTypes == /\ EgressInit => EgressTypeOK
                     /\ EgressTypeOK /\ [EgressNext \/ PolicyNext]_egressVars => EgressTypeOK'
<1>0. GatewayScores \subseteq Nat /\ MinObservation \in Nat /\ MaxEgressTime \in Nat
  BY EgressAssumption DEF EgressAssumption
<1>1. EgressInit => EgressTypeOK
  <2> SUFFICES ASSUME EgressInit PROVE EgressTypeOK
    OBVIOUS
  <2>1. egressTime \in 0 .. MaxEgressTime /\ lastSwitch \in -MinObservation .. egressTime
    BY <1>0 DEF EgressInit
  <2>2. score \in [Gateways -> GatewayScores]
    BY DEF EgressInit
  <2> QED BY <2>1, <2>2 DEF EgressInit, EgressTypeOK
<1>2. ASSUME EgressTypeOK, [EgressNext \/ PolicyNext]_egressVars PROVE EgressTypeOK'
  <2>0. /\ egressTime \in 0 .. MaxEgressTime /\ score \in [Gateways -> GatewayScores]
        /\ active \in Gateways \cup {Direct} /\ activeScore \in GatewayScores \cup {0}
        /\ specific \in Gateways \cup {Direct} /\ lastSwitch \in -MinObservation .. egressTime
        /\ egressTime \in -MinObservation .. egressTime
        /\ policy \in [allow : BOOLEAN, any : BOOLEAN, dids : SUBSET Gateways]
    BY <1>0, <1>2 DEF EgressTypeOK
  <2>1. ASSUME NEW g \in Gateways,
               \/ Sicken(g) \/ Heal(g) \/ SetCapability(g) \/ RemoveCapability(g)
               \/ \E s \in GatewayScores : Measure(g, s)
        PROVE  EgressTypeOK'
    <3>1. ASSUME NEW s \in GatewayScores, Measure(g, s) PROVE EgressTypeOK'
      BY <1>2, <2>0, <3>1 DEF Measure, Unseen, egressChoice, EgressTypeOK
    <3> QED BY <1>2, <2>1, <3>1 DEF Sicken, Heal, SetCapability, RemoveCapability, Unseen,
                                     egressChoice, EgressTypeOK
  <2>2. ASSUME NEW m \in {"auto", "specific", "direct"}, NEW g \in Gateways \cup {Direct},
               SetMode(m, g)
        PROVE  EgressTypeOK'
    <3>1. /\ active' \in Gateways \cup {Direct} /\ activeScore' \in GatewayScores \cup {0}
          /\ lastSwitch' \in -MinObservation .. egressTime
      BY <2>0, <2>2 DEF SetMode
    <3> QED BY <1>2, <2>2, <3>1 DEF SetMode, egressPeers, EgressTypeOK
  <2>3. CASE EvaluatePeers
    <3>1. ASSUME NEW g \in Gateways \cup {Direct}, NEW s \in GatewayScores \cup {0}, SwitchTo(g, s)
          PROVE  /\ active' \in Gateways \cup {Direct} /\ activeScore' \in GatewayScores \cup {0}
                 /\ lastSwitch' \in -MinObservation .. egressTime
      BY <2>0, <3>1 DEF SwitchTo
    <3>2. /\ active' \in Gateways \cup {Direct} /\ activeScore' \in GatewayScores \cup {0}
          /\ lastSwitch' \in -MinObservation .. egressTime
      <4>1. CASE EvaluateSpecific
        BY <2>0, <3>1, <4>1 DEF EvaluateSpecific
      <4>2. CASE EvaluateDirect
        BY <2>0, <4>2 DEF EvaluateDirect
      <4>3. CASE EvaluateAuto
        <5>1. CASE SwitchTo(Direct, IF active # Direct THEN 0 ELSE activeScore)
          BY <2>0, <3>1, <5>1
        <5>2. CASE UNCHANGED <<active, activeScore, lastSwitch>>
          BY <2>0, <5>2
        <5>3. ASSUME NEW g \in Gateways, SwitchTo(g, score[g])
              PROVE  /\ active' \in Gateways \cup {Direct}
                     /\ activeScore' \in GatewayScores \cup {0}
                     /\ lastSwitch' \in -MinObservation .. egressTime
          BY <2>0, <3>1, <5>3
        <5> QED BY <4>3, <5>1, <5>2, <5>3 DEF EvaluateAuto
      <4> QED BY <2>3, <4>1, <4>2, <4>3 DEF EvaluatePeers
    <3> QED BY <1>2, <2>3, <3>2 DEF EvaluatePeers, egressPeers, EgressTypeOK
  <2>4. CASE EgressTick
    <3>1. egressTime' \in 0 .. MaxEgressTime /\ lastSwitch \in -MinObservation .. egressTime'
      BY <1>0, <2>0, <2>4 DEF EgressTick
    <3> QED BY <1>2, <2>4, <3>1 DEF EgressTick, Unseen, egressChoice, EgressTypeOK
  <2>5. CASE PolicyNext
    <3>1. PICK p \in [allow : BOOLEAN, any : BOOLEAN, dids : SUBSET Gateways] : SetPolicy(p)
      BY <2>0, <2>5 DEF PolicyNext, SetAllowEgress, SetAllowAnyPeer, AuthorizeDID, RevokeDID
    <3> QED BY <1>2, <3>1 DEF SetPolicy, egressPeers, egressChoice, EgressTypeOK
  <2>6. CASE UNCHANGED egressVars
    BY <1>2, <2>6 DEF egressVars, egressPeers, egressChoice, EgressTypeOK
  <2> QED BY <1>2, <2>1, <2>2, <2>3, <2>4, <2>5, <2>6 DEF EgressNext
<1> QED BY <1>1, <1>2

\* No more loops run than were started, and each stream has its two sides.
ProxyTypes ==
    /\ ProxyTypeOK /\ acceptors <= proxy.starts

\* What may happen to the two sides of a stream.
LEMMA SidesOfStreams ==
    ASSUME ends \in [Streams -> [client : Sides, target : Sides]], NEW s \in Streams, NEW b \in BOOLEAN
    PROVE  /\ \A side \in {"client", "target"} :
                 /\ [ends EXCEPT ![s][side].open = b] \in [Streams -> [client : Sides, target : Sides]]
                 /\ [ends EXCEPT ![s][side].sends = b] \in [Streams -> [client : Sides, target : Sides]]
           /\ [ends EXCEPT ![s].target.open = FALSE, ![s].client.open = b]
                 \in [Streams -> [client : Sides, target : Sides]]
<1>1. PICK e \in [client : Sides, target : Sides] : e = ends[s]
  OBVIOUS
<1>2. \A x \in Sides : [x EXCEPT !.open = b] \in Sides /\ [x EXCEPT !.sends = b] \in Sides
                       /\ [x EXCEPT !.open = FALSE] \in Sides
  BY DEF Sides
<1>3. ASSUME NEW f \in [client : Sides, target : Sides]
      PROVE  [ends EXCEPT ![s] = f] \in [Streams -> [client : Sides, target : Sides]]
  OBVIOUS
<1>4. ASSUME NEW side \in {"client", "target"}
      PROVE  /\ [ends EXCEPT ![s][side].open = b] \in [Streams -> [client : Sides, target : Sides]]
             /\ [ends EXCEPT ![s][side].sends = b] \in [Streams -> [client : Sides, target : Sides]]
  <2>1. PICK x \in Sides : x = e[side]
    OBVIOUS
  <2>2. \A y \in Sides : [e EXCEPT ![side] = y] \in [client : Sides, target : Sides]
    OBVIOUS
  <2>3. /\ [ends EXCEPT ![s][side].open = b] = [ends EXCEPT ![s] = [e EXCEPT ![side] = [x EXCEPT !.open = b]]]
        /\ [ends EXCEPT ![s][side].sends = b] = [ends EXCEPT ![s] = [e EXCEPT ![side] = [x EXCEPT !.sends = b]]]
    BY <1>1, <2>1
  <2>4. PICK y \in Sides, z \in Sides : y = [x EXCEPT !.open = b] /\ z = [x EXCEPT !.sends = b]
    BY <1>2
  <2>5. PICK f \in [client : Sides, target : Sides], g \in [client : Sides, target : Sides] :
           f = [e EXCEPT ![side] = y] /\ g = [e EXCEPT ![side] = z]
    BY <2>2
  <2> QED BY <1>3, <2>3, <2>4, <2>5
<1>5. [ends EXCEPT ![s].target.open = FALSE, ![s].client.open = b]
         \in [Streams -> [client : Sides, target : Sides]]
  <2>1. PICK f \in [client : Sides, target : Sides] : f = [e EXCEPT !.target.open = FALSE, !.client.open = b]
    BY <1>2 DEF Sides
  <2>2. [ends EXCEPT ![s].target.open = FALSE, ![s].client.open = b] = [ends EXCEPT ![s] = f]
    BY <1>1, <2>1
  <2> QED BY <1>3, <2>2
<1> QED BY <1>4, <1>5

LEMMA ProxyTypesStep ==
    /\ ProxyInit => ProxyTypes
    /\ ProxyTypes /\ StreamsInv' /\ [ProxyNext]_proxyVars => ProxyTypes'
<1>0. MaxStarts \in Nat
  BY ProxyAssumption DEF ProxyAssumption
<1>1. ProxyInit => ProxyTypes
  <2> SUFFICES ASSUME ProxyInit PROVE ProxyTypes
    OBVIOUS
  <2>1. ends \in [Streams -> [client : Sides, target : Sides]]
    BY DEF ProxyInit, Fresh, Sides
  <2>2. stream \in [Streams -> [kind : Kinds, at : Phases]]
    BY DEF ProxyInit, Phases
  <2>3. proxy \in [running : BOOLEAN, quit : BOOLEAN, starts : 0 .. MaxStarts] /\ proxy.starts = 0
    BY <1>0 DEF ProxyInit
  <2>4. connections \in [{"proxy", "exit"} -> Int] /\ copying \in [Streams -> SUBSET {"up", "down"}]
    BY DEF ProxyInit
  <2>5. acceptors \in 0 .. MaxStarts /\ acceptors = 0 /\ proxyPanic = FALSE
    BY <1>0 DEF ProxyInit
  <2>6. acceptors <= proxy.starts
    BY <2>3, <2>5
  <2>7. ProxyTypeOK
    BY <2>1, <2>2, <2>3, <2>4, <2>5 DEF ProxyTypeOK
  <2> QED BY <2>6, <2>7 DEF ProxyTypes
<1>2. ASSUME ProxyTypes, StreamsInv', [ProxyNext]_proxyVars PROVE ProxyTypes'
  <2> DEFINE AllSides == [Streams -> [client : Sides, target : Sides]]
             AllCopying == [Streams -> SUBSET {"up", "down"}]
  <2>0. /\ proxy \in [running : BOOLEAN, quit : BOOLEAN, starts : 0 .. MaxStarts]
        /\ proxyPanic \in BOOLEAN /\ acceptors \in 0 .. MaxStarts /\ acceptors <= proxy.starts
        /\ ends \in AllSides /\ copying \in AllCopying
        /\ stream \in [Streams -> [kind : Kinds, at : Phases]]
    BY <1>2 DEF ProxyTypes, ProxyTypeOK
  <2>1. ASSUME UNCHANGED <<proxy, proxyPanic, acceptors>>, ends' \in AllSides, copying' \in AllCopying
        PROVE  ProxyTypes'
    BY <1>2, <2>0, <2>1 DEF ProxyTypes, ProxyTypeOK, StreamsInv
  <2>2. ASSUME proxy' \in [running : BOOLEAN, quit : BOOLEAN, starts : 0 .. MaxStarts],
               proxyPanic' \in BOOLEAN, acceptors' \in Nat, acceptors' <= proxy'.starts,
               UNCHANGED Connections
        PROVE  ProxyTypes'
    <3>1. acceptors' \in 0 .. MaxStarts
      BY <1>0, <2>2
    <3> QED BY <1>2, <2>0, <2>2, <3>1 DEF ProxyTypes, ProxyTypeOK, StreamsInv, Connections
  <2>3. CASE Start
    <3>0. PICK n : n = proxy.starts + 1
      OBVIOUS
    <3>4. n \in 0 .. MaxStarts
      BY <1>0, <2>0, <2>3, <3>0 DEF Start
    <3>5. proxy' = [proxy EXCEPT !.running = TRUE, !.starts = n]
      BY <2>0, <2>3, <3>0 DEF Start
    <3>1. /\ proxy' \in [running : BOOLEAN, quit : BOOLEAN, starts : 0 .. MaxStarts]
          /\ proxy'.starts = proxy.starts + 1
      BY <2>0, <3>0, <3>4, <3>5
    <3>2. acceptors' \in Nat /\ acceptors' <= proxy'.starts
      BY <1>0, <2>0, <2>3, <3>1 DEF Start
    <3> QED BY <2>0, <2>2, <2>3, <3>1, <3>2 DEF Start
  <2>4. CASE Stop
    <3>1. /\ proxy' \in [running : BOOLEAN, quit : BOOLEAN, starts : 0 .. MaxStarts]
          /\ proxy'.starts = proxy.starts
      BY <2>0, <2>4 DEF Stop
    <3>2. proxyPanic' \in BOOLEAN /\ acceptors' = acceptors /\ UNCHANGED Connections
      BY <2>0, <2>4 DEF Stop
    <3>3. acceptors' \in Nat /\ acceptors' <= proxy'.starts
      BY <1>0, <2>0, <3>1, <3>2
    <3> QED BY <2>2, <3>1, <3>2, <3>3
  <2>5. CASE AcceptorEnds
    BY <2>0, <2>2, <2>5 DEF AcceptorEnds
  <2>6. ASSUME NEW s \in Streams
        PROVE  /\ Over(s) => ends' \in AllSides
               /\ StartCopying(s) => ends' \in AllSides /\ copying' \in AllCopying
    <3>1. ASSUME Over(s) PROVE ends' \in AllSides
      <4>1. PICK b : b = (IF stream[s].kind = "proxy" THEN FALSE ELSE ends[s].client.open)
        OBVIOUS
      <4>2. b \in BOOLEAN
        BY <2>0, <4>1 DEF Sides
      <4>3. ends' = [ends EXCEPT ![s].target.open = FALSE, ![s].client.open = b]
        BY <2>0, <3>1, <4>1 DEF Over
      <4> QED BY <2>0, <4>2, <4>3, SidesOfStreams
    <3>2. ASSUME StartCopying(s) PROVE ends' \in AllSides /\ copying' \in AllCopying
      BY <2>0, <3>2 DEF StartCopying
    <3> QED BY <3>1, <3>2
  <2>7. ASSUME NEW s \in Streams, Accept(s) PROVE ProxyTypes'
    BY <2>0, <2>1, <2>7 DEF Accept
  <2>8. ASSUME NEW s \in Streams, HandleConnection(s) \/ HandleSOCKS5(s) \/ HandleHTTPProxy(s)
                                  \/ ForwardToInternet(s) \/ ForwardToDevice(s) \/ Return(s)
        PROVE  ProxyTypes'
    <3>1. \/ UNCHANGED <<ends, copying>>
          \/ Over(s) /\ UNCHANGED copying
          \/ StartCopying(s)
      BY <2>8 DEF HandleConnection, HandleSOCKS5, HandleHTTPProxy, ForwardToInternet, ForwardToDevice,
                  Return, LetGo
    <3>2. UNCHANGED <<proxy, proxyPanic, acceptors>>
      BY <2>8 DEF HandleConnection, HandleSOCKS5, HandleHTTPProxy, ForwardToInternet, ForwardToDevice,
                  Return
    <3> QED BY <2>0, <2>1, <2>6, <3>1, <3>2
  <2>9. ASSUME NEW s \in Streams, NEW dir \in {"up", "down"}, CopyEnds(s, dir) PROVE ProxyTypes'
    <3>1. PICK side \in {"client", "target"} : side = To(dir)
      BY DEF To
    <3>2. PICK b : b = (ends[s][side].open /\ stream[s].kind = "exit")
      OBVIOUS
    <3>3. b \in BOOLEAN
      BY <2>0, <3>2 DEF Sides
    <3>4. ends' = [ends EXCEPT ![s][side].open = b]
      BY <2>0, <2>9, <3>1, <3>2 DEF CopyEnds
    <3>5. ends' \in AllSides
      BY <2>0, <3>3, <3>4, SidesOfStreams
    <3>6. copying' \in AllCopying
      BY <2>0, <2>9 DEF CopyEnds
    <3> QED BY <2>1, <2>9, <3>5, <3>6 DEF CopyEnds
  <2>10. ASSUME NEW s \in Streams, NEW side \in {"client", "target"},
                DoneSending(s, side) \/ GoAway(s, side)
         PROVE  ProxyTypes'
    <3>1. ends' \in AllSides
      <4>1. ends' \in {[ends EXCEPT ![s][side].open = FALSE], [ends EXCEPT ![s][side].sends = FALSE]}
        BY <2>10 DEF DoneSending, GoAway
      <4>2. ends \in [Streams -> [client : Sides, target : Sides]]
        BY <2>0
      <4>3. /\ [ends EXCEPT ![s][side].open = FALSE] \in AllSides
            /\ [ends EXCEPT ![s][side].sends = FALSE] \in AllSides
        BY <4>2, SidesOfStreams
      <4> QED BY <4>1, <4>3
    <3> QED BY <2>0, <2>1, <2>10, <3>1 DEF DoneSending, GoAway
  <2>11. CASE UNCHANGED proxyVars
    BY <2>0, <2>1, <2>11 DEF proxyVars
  <2> QED BY <1>2, <2>3, <2>4, <2>5, <2>7, <2>8, <2>9, <2>10, <2>11 DEF ProxyNext
<1> QED BY <1>1, <1>2

\* What the budgets, the bindings and the times of an anchor can be.
LEMMA AnchorTypes == /\ AnchorInit => AnchorTypeOK
                     /\ AnchorTypeOK /\ [AnchorNext]_anchorVars => AnchorTypeOK'
<1>0. /\ MaxSeq \in Nat /\ ResyncBudget \in Nat /\ ColdBudget \in Nat /\ EpochLength \in Nat \ {0}
      /\ EpochNames \in Nat \ {0} /\ SyncInterval \in Nat /\ MaxSecond \in Nat
  BY AnchorAssumption DEF AnchorAssumption
<1>1. AnchorInit => AnchorTypeOK
  <2> SUFFICES ASSUME AnchorInit PROVE AnchorTypeOK
    OBVIOUS
  <2>1. /\ second \in 0 .. MaxSecond /\ lastSync \in -SyncInterval .. second
        /\ coldSince \in 0 .. second /\ resync.left \in Int /\ resync.since \in 0 .. second
    BY <1>0 DEF AnchorInit
  <2>2. cold \in [Mobiles -> Int]
    BY <1>0 DEF AnchorInit
  <2> QED BY <2>1, <2>2 DEF AnchorInit, AnchorTypeOK
<1>2. ASSUME AnchorTypeOK, [AnchorNext]_anchorVars PROVE AnchorTypeOK'
  <2>0. /\ DOMAIN locators \subseteq Mobiles
        /\ \A d \in DOMAIN locators :
              locators[d] \in [addr : Places, lastSeq : Numbers, ticket : 0 .. EpochNames - 1]
        /\ second \in 0 .. MaxSecond /\ resync.left \in Int /\ resync.since \in 0 .. second
        /\ cold \in [Mobiles -> Int] /\ coldSince \in 0 .. second
        /\ lastSync \in -SyncInterval .. second /\ signed \subseteq Mobiles \X Numbers /\ unpaid \in Nat
    BY <1>2 DEF AnchorTypeOK
  <2>1. ASSUME NEW d \in Mobiles, NEW a \in Places, NEW s \in Numbers, locators' = Moved(d, a, s)
        PROVE  /\ DOMAIN locators' \subseteq Mobiles
               /\ \A e \in DOMAIN locators' :
                     locators'[e] \in [addr : Places, lastSeq : Numbers, ticket : 0 .. EpochNames - 1]
    <3>1. PICK t : t = Issued
      OBVIOUS
    <3>2. t \in 0 .. EpochNames - 1
      <4>1. PICK e : e = Epoch
        OBVIOUS
      <4>2. e \in Nat
        BY <1>0, <2>0, <4>1 DEF Epoch
      <4> QED BY <1>0, <3>1, <4>1, <4>2 DEF Issued, EpochByte
    <3>3. PICK q : q = IF s > 0 \/ d \notin DOMAIN locators THEN s ELSE locators[d].lastSeq
      OBVIOUS
    <3>4. q \in Numbers
      BY <2>0, <3>3
    <3>5. locators' = [e \in DOMAIN locators \cup {d} |->
                         IF e # d THEN locators[e] ELSE [addr |-> a, ticket |-> t, lastSeq |-> q]]
      BY <2>1, <3>1, <3>3 DEF Moved
    <3> QED BY <2>0, <3>2, <3>4, <3>5
  <2>2. ASSUME NEW d \in Mobiles, NEW a \in Places, NEW s \in Numbers, MoveUnproved(d, a, s)
        PROVE  AnchorTypeOK'
    <3>1. locators' = Moved(d, a, s) /\ UNCHANGED <<second, resync, cold, coldSince, lastSync, signed, unpaid>>
      BY <2>2 DEF MoveUnproved
    <3> QED BY <2>0, <2>1, <3>1 DEF AnchorTypeOK
  <2>3. ASSUME NEW d \in Mobiles, NEW a \in Places, NEW s \in Numbers, NEW p \in Proofs,
               MoveProved(d, a, s, p)
        PROVE  AnchorTypeOK'
    <3>1. locators' \in {Moved(d, a, s), locators} /\ UNCHANGED <<second, lastSync, signed>>
          /\ Spend(d, p)
      BY <2>3 DEF MoveProved
    <3>2. PICK b : b = Refilled
      OBVIOUS
    <3>3. b.left \in Int /\ b.since \in 0 .. second
      BY <1>0, <2>0, <3>2 DEF Refilled
    <3>4. resync'.left \in Int /\ resync'.since \in 0 .. second
      <4>1. resync' \in {[b EXCEPT !.left = @ - 1], resync}
        BY <3>1, <3>2 DEF Spend
      <4>2. CASE resync' = [b EXCEPT !.left = @ - 1]
        <5>1. b = resync \/ b = [left |-> ResyncBudget, since |-> second]
          BY <3>2 DEF Refilled
        <5>2. resync'.left = b.left - 1 /\ resync'.since = b.since
          BY <4>2, <5>1, <2>0
        <5> QED BY <3>3, <5>2
      <4> QED BY <2>0, <4>1, <4>2
    <3>5. ColdRefilled \in [Mobiles -> Int]
      BY <1>0, <2>0 DEF ColdRefilled
    <3>6. cold' \in [Mobiles -> Int]
      BY <2>0, <3>1, <3>5 DEF Spend
    <3>7. coldSince' \in 0 .. second /\ unpaid' \in Nat
      BY <2>0, <3>1 DEF Spend
    <3> QED BY <2>0, <2>1, <3>1, <3>4, <3>6, <3>7 DEF AnchorTypeOK
  <2>4. ASSUME NEW d \in Mobiles, NEW s \in Numbers, Sign(d, s) PROVE AnchorTypeOK'
    BY <2>0, <2>4 DEF Sign, AnchorTypeOK
  <2>5. CASE ShouldPropagateGlobalSync
    <3>1. lastSync' \in -SyncInterval .. second
      BY <1>0, <2>0, <2>5 DEF ShouldPropagateGlobalSync
    <3> QED BY <2>0, <2>5, <3>1 DEF ShouldPropagateGlobalSync, AnchorTypeOK
  <2>6. CASE AnchorTick
    <3>1. /\ second' \in 0 .. MaxSecond /\ 0 .. second \subseteq 0 .. second'
          /\ -SyncInterval .. second \subseteq -SyncInterval .. second'
      BY <1>0, <2>0, <2>6 DEF AnchorTick
    <3> QED BY <2>0, <2>6, <3>1 DEF AnchorTick, AnchorTypeOK
  <2>7. CASE UNCHANGED anchorVars
    BY <2>0, <2>7 DEF anchorVars, AnchorTypeOK
  <2> QED BY <1>2, <2>2, <2>3, <2>4, <2>5, <2>6, <2>7 DEF AnchorNext
<1> QED BY <1>1, <1>2

\* Whatever a frame is taken for fits into a datagram, because the frame did.
AdapterInv ==
    /\ AdapterTypeOK
    /\ got \in [Receivers -> [tag : Nat, payload : Nat]]
    /\ \A c \in frames \cup writing : Fits(c)

LEMMA AdapterStep == /\ AdapterInit => AdapterInv
                     /\ AdapterInv /\ [AdapterNext]_adapterVars => AdapterInv'
<1>0. /\ LengthBase \in Nat \ {0} /\ ContainerMTU \in Nat /\ ContainerMTU >= 8
      /\ TagLengths \subseteq Nat /\ PayloadLengths \subseteq Nat
  BY AdapterAssumption DEF AdapterAssumption
<1>1. AdapterInit => AdapterInv
  <2> SUFFICES ASSUME AdapterInit PROVE AdapterInv
    OBVIOUS
  <2>1. got \in [Receivers -> [tag : Nat, payload : Nat]]
    BY DEF AdapterInit
  <2>2. \A r \in Receivers : got[r].tag = 0 /\ got[r].payload = 0
    BY DEF AdapterInit
  <2>3. \A r \in Receivers : Fits(got[r])
    BY <1>0, <2>2 DEF Fits, WireLength, FixedBytes
  <2>4. \A r \in Receivers : got[r].tag >= 0 /\ got[r].payload >= 0
    BY <2>2
  <2>5. receive \in [Receivers -> {"idle", "admitted", "reading"}]
    BY DEF AdapterInit
  <2> QED BY <2>1, <2>3, <2>4, <2>5 DEF AdapterInit, AdapterInv, AdapterTypeOK
<1>2. ASSUME NEW c \in Containers, Fits(c), NEW d \in ReadAs(c)
      PROVE  d \in [tag : Nat, payload : Nat] /\ Fits(d)
  <2>0. c.tag \in Nat /\ c.payload \in Nat /\ 8 + c.tag + c.payload <= ContainerMTU
    BY <1>0, <1>2 DEF Containers, Fits, WireLength, FixedBytes
  <2>1. CASE c.tag < LengthBase
    BY <1>0, <1>2, <2>1 DEF ReadAs, Containers
  <2>2. CASE ~(c.tag < LengthBase)
    <3>1. PICK m : m = c.tag % LengthBase
      OBVIOUS
    <3>2. m \in Nat
      BY <1>0, <2>0, <3>1
    <3>3. PICK n \in 0 .. (WireLength(c) - FixedBytes - m) : d = [tag |-> m, payload |-> n]
      BY <2>2, <3>1 DEF ReadAs
    <3>4. n \in Nat /\ 8 + m + n <= ContainerMTU
      BY <1>0, <2>0, <3>2, <3>3 DEF WireLength, FixedBytes
    <3>5. d.tag = m /\ d.payload = n /\ d \in [tag : Nat, payload : Nat]
      BY <3>2, <3>3, <3>4
    <3> QED BY <3>4, <3>5 DEF Fits, WireLength, FixedBytes
  <2> QED BY <2>1, <2>2
<1>3. ASSUME AdapterInv, [AdapterNext]_adapterVars PROVE AdapterInv'
  <2>0. /\ frames \subseteq Containers /\ writing \subseteq Containers
        /\ receive \in [Receivers -> {"idle", "admitted", "reading"}]
        /\ got \in [Receivers -> [tag : Nat, payload : Nat]] /\ \A r \in Receivers : Fits(got[r])
        /\ \A c \in frames \cup writing : Fits(c)
        /\ deadline \in BOOLEAN /\ closing \in BOOLEAN /\ adapterClosed \in BOOLEAN
    BY <1>3 DEF AdapterInv, AdapterTypeOK
  <2>1. ASSUME frames' \subseteq Containers, writing' \subseteq Containers,
               \A c \in frames' \cup writing' : Fits(c),
               receive' \in [Receivers -> {"idle", "admitted", "reading"}],
               got' \in [Receivers -> [tag : Nat, payload : Nat]],
               \A r \in Receivers : Fits(got'[r]),
               deadline' \in BOOLEAN, closing' \in BOOLEAN, adapterClosed' \in BOOLEAN
        PROVE  AdapterInv'
    <3>1. \A r \in Receivers : got'[r].tag >= 0 /\ got'[r].payload >= 0
      BY <2>1
    <3> QED BY <2>1, <3>1 DEF AdapterInv, AdapterTypeOK
  <2>2. ASSUME NEW c \in Containers, BeginSend(c) \/ EndSend(c) \/ LoseFrame(c) PROVE AdapterInv'
    BY <2>0, <2>1, <2>2 DEF BeginSend, EndSend, LoseFrame
  <2>3. ASSUME NEW r \in Receivers, BeginReceive(r) \/ ReadFails(r) PROVE AdapterInv'
    BY <2>0, <2>1, <2>3 DEF BeginReceive, ReadFails
  <2>4. ASSUME NEW r \in Receivers, NEW timed \in BOOLEAN, SetDeadline(r, timed) PROVE AdapterInv'
    BY <2>0, <2>1, <2>4 DEF SetDeadline
  <2>5. ASSUME NEW r \in Receivers, NEW c \in Containers, ReadFrame(r, c) PROVE AdapterInv'
    <3>1. /\ UNCHANGED <<frames, writing, deadline, closing, adapterClosed>>
          /\ receive' \in [Receivers -> {"idle", "admitted", "reading"}] /\ Fits(c)
      BY <2>0, <2>5 DEF ReadFrame
    <3>2. /\ got' \in [Receivers -> [tag : Nat, payload : Nat]]
          /\ \A q \in Receivers : Fits(got'[q])
      <4>1. ASSUME NEW d \in ReadAs(c), got' = [got EXCEPT ![r] = d]
            PROVE  /\ got' \in [Receivers -> [tag : Nat, payload : Nat]]
                   /\ \A q \in Receivers : Fits(got'[q])
        <5>1. d \in [tag : Nat, payload : Nat] /\ Fits(d)
          BY <1>2, <3>1
        <5>2. got'[r] = d /\ \A q \in Receivers : q # r => got'[q] = got[q]
          BY <2>0, <4>1
        <5>3. got' \in [Receivers -> [tag : Nat, payload : Nat]]
          BY <2>0, <4>1, <5>1
        <5> QED BY <2>0, <5>1, <5>2, <5>3
      <4> QED BY <2>0, <2>5, <4>1 DEF ReadFrame
    <3> QED BY <2>0, <2>1, <3>1, <3>2
  <2>6. CASE AskToClose \/ CloseSocket
    BY <2>0, <2>1, <2>6 DEF AskToClose, CloseSocket
  <2>7. CASE UNCHANGED adapterVars
    BY <2>0, <2>1, <2>7 DEF adapterVars
  <2> QED BY <1>3, <2>2, <2>3, <2>4, <2>5, <2>6, <2>7 DEF AdapterNext
<1> QED BY <1>1, <1>3

\* Slots, tokens and times: no more slots are taken than there are, and no bucket was filled in the
\* future.
LEMMA SilentTypes ==
    /\ SilentInit => SilentTypeOK
    /\ SilentTypeOK /\ SilentInv /\ RationTypes /\ SilentInv' /\ RationTypes' /\ [SilentNext]_silentVars
          => SilentTypeOK'
<1>0. Slots \in Nat /\ Limit \in Nat /\ MaxTicks \in Nat
  BY SilentAssumption DEF SilentAssumption
<1>1. SilentInit => SilentTypeOK
  <2> SUFFICES ASSUME SilentInit PROVE SilentTypeOK
    OBVIOUS
  <2>1. sem \in 0 .. Slots /\ ticks \in 0 .. MaxTicks /\ peers = {}
    BY <1>0 DEF SilentInit
  <2>2. tokens \in [Callers -> 0 .. Limit] /\ lastToken \in [Callers -> 0 .. ticks]
    BY <1>0 DEF SilentInit
  <2>3. call \in [Calls -> CallRecords] /\ answered \in [Callers -> Nat]
    BY DEF SilentInit, CallRecords
  <2> QED BY <2>1, <2>2, <2>3 DEF SilentTypeOK
<1>2. ASSUME SilentTypeOK, SilentInv, RationTypes, SilentInv', RationTypes', [SilentNext]_silentVars
      PROVE  SilentTypeOK'
  <2>0. /\ sem \in 0 .. Slots /\ peers \subseteq Callers /\ ticks \in 0 .. MaxTicks
        /\ lastToken \in [Callers -> 0 .. ticks] /\ call \in [Calls -> CallRecords]
    BY <1>2 DEF SilentTypeOK
  <2>1. \A g \in Calls : call[g].at # "idle" => call[g].peer \in Callers /\ call[g].now \in 0 .. ticks
    BY <1>2, <2>0 DEF CallRecords, NoCall, RationTypes
  <2>2. sem' \in Nat
    <3>1. IsFiniteSet({g \in Calls : call'[g] # NoCall})
      BY FS_Subset, SilentAssumption DEF SilentAssumption
    <3> QED BY <1>2, <3>1, FS_CardinalityType DEF SilentInv, SlotsMatchCalls
  <2>3. ASSUME sem' <= Slots, peers' \subseteq Callers, \A d \in Callers : lastToken'[d] <= ticks'
        PROVE  SilentTypeOK'
    <3>1. sem' \in 0 .. Slots
      BY <1>0, <2>2, <2>3
    <3>2. lastToken' \in [Callers -> 0 .. ticks']
      <4>1. lastToken' \in [Callers -> Nat] /\ ticks' \in Nat
        BY <1>2 DEF RationTypes
      <4> QED BY <2>3, <4>1
    <3> QED BY <1>2, <2>3, <3>1, <3>2 DEF SilentTypeOK, SilentInv, RationTypes
  <2>4. ASSUME NEW d \in Callers, Enter(d), ticks' = ticks
        PROVE  peers' \subseteq Callers /\ \A e \in Callers : lastToken'[e] <= ticks'
    BY <1>0, <2>0, <2>4 DEF Enter
  <2>5. ASSUME NEW d \in Callers, RegisterCaller(d) PROVE SilentTypeOK'
    <3>1. sem' <= Slots
      BY <1>0, <2>0, <2>5 DEF RegisterCaller
    <3> QED BY <2>3, <2>4, <2>5, <3>1 DEF RegisterCaller
  <2>6. \A d \in Callers : lastToken[d] <= ticks
    BY <1>0, <2>0
  <2>7. ASSUME NEW g \in Calls, NEW d \in Callers, TakeSlot(g, d) PROVE SilentTypeOK'
    <3>1. sem' <= Slots
      BY <1>0, <2>0, <2>7 DEF TakeSlot
    <3> QED BY <2>0, <2>3, <2>6, <2>7, <3>1 DEF TakeSlot
  <2>8. ASSUME NEW g \in Calls, FindPeer(g) PROVE SilentTypeOK'
    <3>1. call[g].peer \in Callers /\ Enter(call[g].peer) /\ ticks' = ticks /\ sem' = sem
      BY <2>1, <2>8 DEF FindPeer
    <3>2. sem' <= Slots
      BY <1>0, <2>0, <3>1
    <3> QED BY <2>3, <2>4, <3>1, <3>2
  <2>9. ASSUME NEW g \in Calls, Stamp(g) PROVE SilentTypeOK'
    <3>1. call[g].now <= ticks /\ sem' <= Slots
      BY <1>0, <2>0, <2>1, <2>9 DEF Stamp
    <3>2. \A d \in Callers : lastToken'[d] \in {lastToken[d], call[g].now}
      BY <2>0, <2>9 DEF Stamp
    <3>3. \A d \in Callers : lastToken'[d] <= ticks'
      BY <2>6, <2>9, <3>1, <3>2 DEF Stamp
    <3> QED BY <2>0, <2>3, <2>9, <3>1, <3>3 DEF Stamp
  <2>10. ASSUME NEW g \in Calls, AskRefill(g) \/ Refill(g) \/ TakeToken(g) \/ Answer(g)
         PROVE  SilentTypeOK'
    <3>1. UNCHANGED <<peers, lastToken, ticks>>
      BY <2>10 DEF AskRefill, Refill, TakeToken, Answer
    <3>2. sem' \in {sem, sem - 1, 0}
      BY <2>10 DEF AskRefill, Refill, TakeToken, Answer
    <3>3. sem' <= Slots
      BY <1>0, <2>0, <3>2
    <3> QED BY <2>0, <2>3, <2>6, <3>1, <3>3
  <2>11. CASE SilentTick
    <3>1. sem' <= Slots /\ \A d \in Callers : lastToken'[d] <= ticks'
      BY <1>0, <2>0, <2>11 DEF SilentTick
    <3> QED BY <2>0, <2>3, <2>11, <3>1 DEF SilentTick
  <2>12. CASE UNCHANGED silentVars
    BY <1>2, <2>12 DEF silentVars, SilentTypeOK
  <2> QED BY <1>2, <2>5, <2>7, <2>8, <2>9, <2>10, <2>11, <2>12 DEF SilentNext
<1> QED BY <1>1, <1>2

\* The packets of an account are counted up to the bound of the model.
LEMMA TransitTypes ==
    /\ TransitInit => TransitTypeOK
    /\ TransitTypeOK /\ TransitInv /\ [TransitNext]_transitVars => TransitTypeOK'
<1> DEFINE Records == [tx : Nat, rx : Nat, ptx : Nat, prx : Nat, tier : Tiers]
           Fit(a) == a.tier \in Tiers /\ a.ptx \in 0 .. MaxPackets /\ a.prx \in 0 .. MaxPackets
<1>0. MaxPackets \in Nat /\ Amounts \subseteq Nat
  BY TransitAssumption DEF TransitAssumption
<1>1. TransitInit => TransitTypeOK
  BY DEF TransitInit, TransitTypeOK
<1>2. ASSUME TransitTypeOK, TransitInv, [TransitNext]_transitVars PROVE TransitTypeOK'
  <2>1. ASSUME NEW d PROVE Account(d) \in Records /\ (d \in Partners => Fit(Account(d)))
    <3>1. Account(d) \in Records
      BY <1>2, AccountsAreOpenedSound DEF AccountHolds
    <3> QED BY <1>0, <1>2, <3>1 DEF TransitTypeOK, Account, Tiers
  <2>2. ASSUME NEW d \in Partners, NEW a, Fit(a), PutAccount(d, a) PROVE TransitTypeOK'
    <3>1. /\ DOMAIN accounts' = DOMAIN accounts \cup {d}
          /\ \A e \in DOMAIN accounts' : accounts'[e] = IF e = d THEN a ELSE accounts[e]
      BY <2>2 DEF PutAccount
    <3> QED BY <1>2, <2>2, <3>1 DEF TransitTypeOK
  <2>3. ASSUME NEW a \in Records, Fit(a) PROVE Fit(Recalculated(a)) /\ Fit([a EXCEPT !.tier = "THROTTLED"])
    BY <2>3, TheFourTiers DEF Recalculated, Tiers
  <2>4. ASSUME NEW d \in Partners, SlashPeer(d) PROVE TransitTypeOK'
    BY <2>1, <2>2, <2>3, <2>4 DEF SlashPeer
  <2>5. ASSUME NEW d \in Partners, NEW n \in Amounts, RecordTx(d, n) PROVE TransitTypeOK'
    <3>1. PICK o \in Records : o = Account(d)
      BY <2>1
    <3>2. Fit(o) /\ o.ptx < MaxPackets /\ o.tx + n \in Nat /\ o.ptx + 1 \in Nat /\ o.ptx + 1 \in 0 .. MaxPackets
      BY <1>0, <2>1, <2>5, <3>1 DEF RecordTx
    <3>3. PICK x \in Nat, y \in 0 .. MaxPackets : x = o.tx + n /\ y = o.ptx + 1
      BY <3>2
    <3>4. PICK q \in Records : q = [o EXCEPT !.tx = x]
      OBVIOUS
    <3>5. PICK a : a = [q EXCEPT !.ptx = y]
      OBVIOUS
    <3>6. y \in Nat
      BY <1>0
    <3>7. a \in Records
      BY <3>5, <3>6
    <3>8. a.tier = o.tier /\ {a.ptx, a.prx} \subseteq {o.ptx, o.prx, y}
      BY <3>4, <3>5
    <3>9. Fit(a)
      BY <3>2, <3>8
    <3>10. a = [o EXCEPT !.tx = o.tx + n, !.ptx = o.ptx + 1]
      BY <3>3, <3>4, <3>5
    <3>11. PutAccount(d, Recalculated(a))
      BY <2>5, <3>1, <3>10 DEF RecordTx
    <3>12. Fit(Recalculated(a))
      BY <2>3, <3>7, <3>9
    <3> HIDE DEF Fit
    <3> QED BY <2>2, <3>11, <3>12
  <2>6. ASSUME NEW d \in Partners, NEW n \in Amounts, RecordRx(d, n) PROVE TransitTypeOK'
    <3>1. PICK o \in Records : o = Account(d)
      BY <2>1
    <3>2. Fit(o) /\ o.prx < MaxPackets /\ o.rx + n \in Nat /\ o.prx + 1 \in Nat /\ o.prx + 1 \in 0 .. MaxPackets
      BY <1>0, <2>1, <2>6, <3>1 DEF RecordRx
    <3>3. PICK x \in Nat, y \in 0 .. MaxPackets : x = o.rx + n /\ y = o.prx + 1
      BY <3>2
    <3>4. PICK q \in Records : q = [o EXCEPT !.rx = x]
      OBVIOUS
    <3>5. PICK a : a = [q EXCEPT !.prx = y]
      OBVIOUS
    <3>6. y \in Nat
      BY <1>0
    <3>7. a \in Records
      BY <3>5, <3>6
    <3>8. a.tier = o.tier /\ {a.ptx, a.prx} \subseteq {o.ptx, o.prx, y}
      BY <3>4, <3>5
    <3>9. Fit(a)
      BY <3>2, <3>8
    <3>10. a = [o EXCEPT !.rx = o.rx + n, !.prx = o.prx + 1]
      BY <3>3, <3>4, <3>5
    <3>11. PutAccount(d, Recalculated(a))
      BY <2>6, <3>1, <3>10 DEF RecordRx
    <3>12. Fit(Recalculated(a))
      BY <2>3, <3>7, <3>9
    <3> HIDE DEF Fit
    <3> QED BY <2>2, <3>11, <3>12
  <2>7. CASE UNCHANGED transitVars
    BY <1>2, <2>7 DEF transitVars, TransitTypeOK
  <2> QED BY <1>2, <2>4, <2>5, <2>6, <2>7 DEF TransitNext
<1> QED BY <1>1, <1>2

\* Whoever reads holds as many locks as it has taken, which is two at most.
LocksOf(t) == IF t.at = "dominant" THEN 2 ELSE IF t.at \in {"inner", "list"} THEN 1 ELSE 0

LocksAreHeld ==
    /\ inside \in [Reporters -> Nat] /\ writer \in Reporters \cup {NoReporter}
    /\ \A r \in Reporters : inside[r] = LocksOf(task[r])

LEMMA LocksStep ==
    /\ TableInit => LocksAreHeld
    /\ LocksAreHeld /\ TableInv /\ TableInv' /\ [TableNext]_tableVars => LocksAreHeld'
<1>1. TableInit => LocksAreHeld
  BY DEF TableInit, LocksAreHeld, LocksOf, Resting
<1>2. ASSUME LocksAreHeld, TableInv, TableInv', [TableNext]_tableVars PROVE LocksAreHeld'
  <2>0. /\ inside \in [Reporters -> Nat] /\ writer \in Reporters \cup {NoReporter}
        /\ \A r \in Reporters : inside[r] = LocksOf(task[r])
        /\ task \in [Reporters -> {Resting} \cup Recordings \cup Readings]
    BY <1>2 DEF LocksAreHeld, TableInv
  <2>1. ASSUME NEW r \in Reporters, NEW t, task' = [task EXCEPT ![r] = t], inside' = inside,
               LocksOf(t) = LocksOf(task[r]), writer' \in Reporters \cup {NoReporter}
        PROVE  LocksAreHeld'
    <3>1. \A q \in Reporters : task'[q] = IF q = r THEN t ELSE task[q]
      BY <2>0, <2>1
    <3> QED BY <2>0, <2>1, <3>1 DEF LocksAreHeld
  <2>2. ASSUME NEW r \in Reporters, NEW t, task' = [task EXCEPT ![r] = t], NEW n \in Nat,
               inside' = [inside EXCEPT ![r] = n], n = LocksOf(t), writer' = writer
        PROVE  LocksAreHeld'
    <3>1. \A q \in Reporters : /\ task'[q] = IF q = r THEN t ELSE task[q]
                               /\ inside'[q] = IF q = r THEN n ELSE inside[q]
      BY <2>0, <2>2
    <3>2. inside' \in [Reporters -> Nat]
      BY <2>0, <2>2
    <3> QED BY <2>0, <2>2, <3>1, <3>2 DEF LocksAreHeld
  <2>3. ASSUME NEW r \in Reporters, task[r] \in Recordings, NEW at \in {"total", "write"}
        PROVE  LocksOf([task[r] EXCEPT !.at = at]) = 0 /\ LocksOf(task[r]) = 0
    BY <2>3 DEF Recordings, LocksOf
  <2>4. /\ LocksOf(Resting) = 0 /\ LocksOf([at |-> "list"]) = 1
        /\ LocksOf([at |-> "inner"]) = 1 /\ LocksOf([at |-> "dominant"]) = 2
        /\ \A a \in {"count", "announce"} : \A s, n : LocksOf([at |-> a, sig |-> s, by |-> n]) = 0
    BY DEF Resting, LocksOf
  <2>5. ASSUME NEW r \in Reporters, task[r].at \in {"count", "announce"} PROVE task[r] \in Recordings
    BY <2>0, <2>5 DEF Resting, Readings
  <2>6. ASSUME NEW r \in Reporters, NEW s \in Signatures, RecordAnomaly(r, s) PROVE LocksAreHeld'
    <3>1. PICK a \in {"count", "announce"} : task' = [task EXCEPT ![r] = [at |-> a, sig |-> s, by |-> 1]]
      BY <2>6 DEF RecordAnomaly
    <3>2. PICK t : t = [at |-> a, sig |-> s, by |-> 1]
      OBVIOUS
    <3>3. LocksOf(t) = 0 /\ LocksOf(task[r]) = 0
      BY <2>4, <2>6, <3>2 DEF RecordAnomaly
    <3> QED BY <2>0, <2>1, <2>6, <3>1, <3>2, <3>3 DEF RecordAnomaly
  <2>7. ASSUME NEW r \in Reporters, NEW s \in Signatures, NEW n \in Deltas, RecordBatch(r, s, n)
        PROVE  LocksAreHeld'
    <3>1. PICK t : t = [at |-> "announce", sig |-> s, by |-> n]
      OBVIOUS
    <3>2. LocksOf(t) = 0 /\ LocksOf(task[r]) = 0
      BY <2>4, <2>7, <3>1 DEF RecordBatch
    <3> QED BY <2>0, <2>1, <2>7, <3>1, <3>2 DEF RecordBatch
  <2>8. ASSUME NEW r \in Reporters, CountOnEntry(r) PROVE LocksAreHeld'
    <3>1. task' = [task EXCEPT ![r] = [task[r] EXCEPT !.at = "total"]] /\ UNCHANGED <<inside, writer>>
      BY <2>8 DEF CountOnEntry
    <3>2. PICK t : t = [task[r] EXCEPT !.at = "total"]
      OBVIOUS
    <3>3. LocksOf(t) = 0 /\ LocksOf(task[r]) = 0
      BY <2>3, <2>5, <2>8, <3>2 DEF CountOnEntry
    <3> QED BY <2>0, <2>1, <3>1, <3>2, <3>3
  <2>9. ASSUME NEW r \in Reporters, CountOnTotal(r) PROVE LocksAreHeld'
    <3>1. LocksOf(task[r]) = 0
      BY <2>9 DEF CountOnTotal, LocksOf
    <3> QED BY <2>0, <2>1, <2>4, <2>9, <3>1 DEF CountOnTotal
  <2>10. ASSUME NEW r \in Reporters, AskToWrite(r) PROVE LocksAreHeld'
    <3>1. /\ task' = [task EXCEPT ![r] = [task[r] EXCEPT !.at = "write"]] /\ UNCHANGED inside
          /\ writer' \in Reporters
      BY <2>10 DEF AskToWrite, Announce
    <3>2. PICK t : t = [task[r] EXCEPT !.at = "write"]
      OBVIOUS
    <3>3. LocksOf(t) = 0 /\ LocksOf(task[r]) = 0
      BY <2>3, <2>5, <2>10, <3>2 DEF AskToWrite
    <3> QED BY <2>1, <3>1, <3>2, <3>3
  <2>11. ASSUME NEW r \in Reporters, Write(r) PROVE LocksAreHeld'
    <3>1. LocksOf(task[r]) = 0
      BY <2>11 DEF Write, LocksOf
    <3> QED BY <2>1, <2>4, <2>11, <3>1 DEF Write
  <2>12. ASSUME NEW r \in Reporters, NEW t, NEW m \in 0 .. 1, RLock(r), writer' = writer,
                task' = [task EXCEPT ![r] = t], m = LocksOf(task[r]), m + 1 = LocksOf(t)
         PROVE  LocksAreHeld'
    <3>1. PICK n \in Nat : n = m + 1
      OBVIOUS
    <3>2. inside' = [inside EXCEPT ![r] = n]
      BY <2>0, <2>12, <3>1 DEF RLock
    <3>3. n = LocksOf(t)
      BY <2>12, <3>1
    <3> QED BY <2>2, <2>12, <3>2, <3>3
  <2>13. ASSUME NEW r \in Reporters, LockAgain(r) PROVE LocksAreHeld'
    <3>1. PICK t : t = [at |-> "dominant"]
      OBVIOUS
    <3>2. LocksOf(task[r]) = 1 /\ LocksOf(t) = 2
      BY <2>4, <2>13, <3>1 DEF LockAgain, LocksOf
    <3>3. RLock(r) /\ writer' = writer /\ task' = [task EXCEPT ![r] = t] /\ 1 + 1 = 2 /\ 1 \in 0 .. 1
      BY <2>13, <3>1 DEF LockAgain
    <3> QED BY <2>12, <3>2, <3>3
  <2>14. ASSUME NEW r \in Reporters, GetExecutiveSummary(r) \/ GetDominantAnomaly(r)
         PROVE  LocksAreHeld'
    <3>1. PICK a \in {"inner", "list"} : task' = [task EXCEPT ![r] = [at |-> a]]
      BY <2>14 DEF GetExecutiveSummary, GetDominantAnomaly
    <3>2. PICK t : t = [at |-> a]
      OBVIOUS
    <3>3. LocksOf(task[r]) = 0 /\ LocksOf(t) = 1
      BY <2>4, <2>14, <3>2 DEF GetExecutiveSummary, GetDominantAnomaly
    <3>4. RLock(r) /\ writer' = writer /\ 0 + 1 = 1 /\ 0 \in 0 .. 1
      BY <2>14 DEF GetExecutiveSummary, GetDominantAnomaly
    <3> QED BY <2>12, <3>1, <3>2, <3>3, <3>4
  <2>15. ASSUME NEW r \in Reporters, Leave(r) PROVE LocksAreHeld'
    <3>1. PICK t : t = IF task[r].at = "dominant" THEN [at |-> "list"] ELSE Resting
      OBVIOUS
    <3>2. inside' = [inside EXCEPT ![r] = inside[r] - 1] /\ writer' = writer
      BY <2>15 DEF Leave, RUnlock
    <3>3. task' = [task EXCEPT ![r] = t]
      BY <2>15, <3>1 DEF Leave
    <3>4. LocksOf(task[r]) = LocksOf(t) + 1 /\ LocksOf(t) \in Nat
      <4>1. CASE task[r].at = "dominant"
        BY <2>4, <3>1, <4>1 DEF LocksOf
      <4>2. CASE task[r].at = "list"
        <5>1. LocksOf(task[r]) = 1
          BY <4>2 DEF LocksOf
        <5>2. LocksOf(t) = 0
          BY <2>4, <3>1, <4>2
        <5> QED BY <5>1, <5>2
      <4> QED BY <2>15, <4>1, <4>2 DEF Leave
    <3>5. PICK n \in Nat : n = LocksOf(t)
      BY <3>4
    <3>6. inside[r] - 1 = n
      BY <2>0, <3>4, <3>5
    <3> QED BY <2>2, <3>2, <3>3, <3>5, <3>6
  <2>16. CASE UNCHANGED tableVars
    BY <2>0, <2>16 DEF tableVars, LocksAreHeld
  <2> QED BY <1>2, <2>6, <2>7, <2>8, <2>9, <2>10, <2>11, <2>13, <2>14, <2>15, <2>16 DEF TableNext, GoAhead
<1> QED BY <1>1, <1>2

LEMMA TableTypes == TableInv /\ LocksAreHeld => TableTypeOK
  BY DEF TableInv, LocksAreHeld, LocksOf, TableTypeOK

\* The cache is within its capacity: a full one is thrown away before it is added to.
CacheFits ==
    /\ DOMAIN dnsCache \subseteq HostNames
    /\ IsFiniteSet(DOMAIN dnsCache) /\ Cardinality(DOMAIN dnsCache) <= MaxDNSCacheEntries
    /\ \A h \in DOMAIN dnsCache :
          dnsCache[h] \in [right : Times, expires : 0 .. MaxDNSClock + CacheTTL]

LEMMA CacheStep ==
    /\ DNSInit => CacheFits
    /\ DNSInv /\ CacheFits /\ [DNSNext]_dnsVars => CacheFits'
<1>0. MaxDNSCacheEntries \in Nat \ {0} /\ CacheTTL \in Nat /\ MaxDNSClock \in Nat
  BY DNSAssumption DEF DNSAssumption
<1>1. ASSUME NEW c, DOMAIN c = {}
      PROVE  IsFiniteSet(DOMAIN c) /\ Cardinality(DOMAIN c) <= MaxDNSCacheEntries
  BY <1>0, <1>1, FS_EmptySet
<1>2. DNSInit => CacheFits
  <2> SUFFICES ASSUME DNSInit PROVE CacheFits
    OBVIOUS
  <2>1. DOMAIN dnsCache = {}
    BY DEF DNSInit
  <2> QED BY <1>1, <2>1 DEF CacheFits
<1>3. ASSUME DNSInv, CacheFits, [DNSNext]_dnsVars PROVE CacheFits'
  <2>1. ASSUME NEW g \in Resolvers, StoreAnswer(g) PROVE CacheFits'
    <3>1. PICK l \in Lookups : l = lookup[g] /\ l.at = "answered"
      BY <1>3, <2>1 DEF DNSInv, StoreAnswer, NoLookup
    <3>2. l.host \in HostNames /\ l.now \in Times /\ l.right \in Times
      BY <3>1 DEF Lookups
    <3>3. PICK h \in HostNames, x \in Times, n \in Times : h = l.host /\ x = l.right /\ n = l.now
      BY <3>2
    <3>4. PICK e : e = [right |-> x, expires |-> n + CacheTTL]
      OBVIOUS
    <3>5. n + CacheTTL \in 0 .. MaxDNSClock + CacheTTL
      BY <1>0 DEF Times
    <3>6. e \in [right : Times, expires : 0 .. MaxDNSClock + CacheTTL]
      BY <3>4, <3>5
    <3>7. PICK kept : kept = IF Cardinality(DOMAIN dnsCache) >= MaxDNSCacheEntries THEN {} ELSE DOMAIN dnsCache
      OBVIOUS
    <3>8. /\ DOMAIN dnsCache' = kept \cup {h}
          /\ \A k \in DOMAIN dnsCache' : dnsCache'[k] = IF k = h THEN e ELSE dnsCache[k]
      BY <2>1, <3>1, <3>3, <3>4, <3>7 DEF StoreAnswer
    <3>9. kept \subseteq DOMAIN dnsCache /\ IsFiniteSet(kept)
      BY <1>3, <3>7, FS_Subset DEF CacheFits
    <3>10. Cardinality(kept) \in Nat /\ Cardinality(kept) + 1 <= MaxDNSCacheEntries
      <4>1. CASE kept = {}
        BY <1>0, <4>1, FS_EmptySet
      <4>2. CASE kept # {}
        <5>1. kept = DOMAIN dnsCache /\ ~(Cardinality(DOMAIN dnsCache) >= MaxDNSCacheEntries)
          BY <3>7, <4>2
        <5>2. Cardinality(kept) \in Nat
          BY <3>9, FS_CardinalityType
        <5> QED BY <1>0, <5>1, <5>2
      <4> QED BY <4>1, <4>2
    <3>11. IsFiniteSet(kept \cup {h}) /\ Cardinality(kept \cup {h}) <= MaxDNSCacheEntries
      <4>1. IsFiniteSet(kept \cup {h})
        BY <3>9, FS_AddElement
      <4>2. Cardinality(kept \cup {h}) \in {Cardinality(kept), Cardinality(kept) + 1}
        BY <3>9, FS_AddElement
      <4> QED BY <1>0, <3>10, <4>1, <4>2
    <3>12. \A k \in DOMAIN dnsCache' :
              dnsCache'[k] \in [right : Times, expires : 0 .. MaxDNSClock + CacheTTL]
      BY <1>3, <3>6, <3>8, <3>9 DEF CacheFits
    <3>13. DOMAIN dnsCache' \subseteq HostNames
      BY <1>3, <3>8, <3>9 DEF CacheFits
    <3> QED BY <3>8, <3>11, <3>12, <3>13 DEF CacheFits
  <2>2. CASE ClearCache
    <3>1. DOMAIN dnsCache' = {}
      BY <2>2 DEF ClearCache
    <3> QED BY <1>1, <3>1 DEF CacheFits
  <2>3. CASE UNCHANGED dnsCache
    BY <1>3, <2>3 DEF CacheFits
  <2>4. ASSUME NEW g \in Resolvers, LookInCache(g) \/ AnswerLookup(g) \/ FailLookup(g) \/ ReturnAddress(g)
        PROVE  UNCHANGED dnsCache
    BY <2>4 DEF LookInCache, AnswerLookup, FailLookup, ReturnAddress
  <2>5. ASSUME NEW g \in Resolvers, NEW h \in HostNames, BeginLookup(g, h) PROVE UNCHANGED dnsCache
    BY <2>5 DEF BeginLookup
  <2>6. DNSTick \/ UNCHANGED dnsVars => UNCHANGED dnsCache
    BY DEF DNSTick, dnsVars
  <2> QED BY <1>3, <2>1, <2>2, <2>3, <2>4, <2>5, <2>6 DEF DNSNext
<1> QED BY <1>2, <1>3

LEMMA DNSTypes == DNSInv /\ CacheFits => DNSTypeOK
  BY DEF DNSInv, CacheFits, DNSTypeOK

\* Every padding loop waits for a channel that was made.
PaddingRecords == [at : {"awake", "waiting", "sending", "ended"}, on : Nat]

LoopsOfPadding ==
    /\ padding \in BOOLEAN /\ padChannels \in 0 .. MaxStartsOfPadding
    /\ padLoop \in Seq(PaddingRecords)
    /\ Len(padLoop) = padChannels
    /\ \A l \in 1 .. padChannels : padLoop[l].on <= padChannels

LEMMA PaddingTypes ==
    /\ OnionInit => LoopsOfPadding
    /\ LoopsOfPadding /\ [PaddingNext]_paddingVars => LoopsOfPadding'
<1>0. MaxStartsOfPadding \in Nat
  BY OnionAssumption DEF OnionAssumption
<1>1. OnionInit => LoopsOfPadding
  <2> SUFFICES ASSUME OnionInit PROVE LoopsOfPadding
    OBVIOUS
  <2>1. padding = FALSE /\ padChannels = 0 /\ padLoop = <<>>
    BY DEF OnionInit
  <2>2. padLoop \in Seq(PaddingRecords) /\ Len(padLoop) = 0
    BY <2>1
  <2>3. padChannels \in 0 .. MaxStartsOfPadding /\ \A l \in 1 .. padChannels : FALSE
    BY <1>0, <2>1
  <2> QED BY <2>1, <2>2, <2>3 DEF LoopsOfPadding
<1>2. ASSUME LoopsOfPadding, [PaddingNext]_paddingVars PROVE LoopsOfPadding'
  <2>0. /\ padding \in BOOLEAN /\ padChannels \in 0 .. MaxStartsOfPadding /\ padLoop \in Seq(PaddingRecords)
        /\ padChannels \in Nat /\ Len(padLoop) = padChannels
        /\ \A l \in 1 .. padChannels : padLoop[l].on <= padChannels
    BY <1>0, <1>2 DEF LoopsOfPadding
  <2>00. DOMAIN padLoop = 1 .. padChannels /\ \A l \in DOMAIN padLoop : padLoop[l] \in PaddingRecords
    BY <2>0
  <2>1. ASSUME NEW l \in DOMAIN padLoop, NEW e \in PaddingRecords, e.on <= padChannels,
               padLoop' = [padLoop EXCEPT ![l] = e], UNCHANGED <<padding, padChannels>>
        PROVE  LoopsOfPadding'
    <3>1. padLoop' \in Seq(PaddingRecords) /\ Len(padLoop') = Len(padLoop)
      BY <2>0, <2>00, <2>1
    <3>2. \A k \in 1 .. padChannels : padLoop'[k] = IF k = l THEN e ELSE padLoop[k]
      BY <2>0, <2>00, <2>1
    <3> QED BY <2>0, <2>1, <3>1, <3>2 DEF LoopsOfPadding
  <2>2. CASE StartPadding
    <3>1. PICK e \in PaddingRecords : e = [at |-> "awake", on |-> 0]
      BY DEF PaddingRecords
    <3>2. padding' \in BOOLEAN /\ padChannels' = padChannels + 1 /\ padChannels' \in 0 .. MaxStartsOfPadding
      BY <1>0, <2>0, <2>2 DEF StartPadding
    <3>3. padLoop' = Append(padLoop, e)
      BY <2>2, <3>1 DEF StartPadding
    <3>4. padLoop' \in Seq(PaddingRecords) /\ Len(padLoop') = padChannels'
      BY <2>0, <3>2, <3>3
    <3>5. \A k \in 1 .. padChannels' : padLoop'[k] = IF k = padChannels' THEN e ELSE padLoop[k]
      BY <2>0, <3>2, <3>3
    <3>6. \A k \in 1 .. padChannels' : padLoop'[k].on <= padChannels'
      <4>1. \A k \in 1 .. padChannels' : k = padChannels' \/ k \in 1 .. padChannels
        BY <2>0, <3>2
      <4>2. padLoop'[padChannels'] = e /\ e.on = 0 /\ padChannels' \in Nat
        BY <2>0, <3>1, <3>2, <3>5
      <4>3. ASSUME NEW k \in 1 .. padChannels PROVE padLoop'[k].on <= padChannels'
        <5>1. padLoop'[k] = padLoop[k] /\ padLoop[k] \in PaddingRecords /\ padLoop[k].on <= padChannels
          BY <2>0, <2>00, <3>2, <3>5
        <5>2. padLoop[k].on \in Nat
          BY <5>1 DEF PaddingRecords
        <5> QED BY <2>0, <3>2, <5>1, <5>2
      <4>4. padLoop'[padChannels'].on <= padChannels'
        BY <4>2
      <4> QED BY <4>1, <4>3, <4>4
    <3> QED BY <3>2, <3>4, <3>6 DEF LoopsOfPadding
  <2>3. CASE StopPadding
    BY <1>2, <2>3 DEF StopPadding, LoopsOfPadding
  <2>4. ASSUME NEW l \in DOMAIN padLoop, AwaitGap(l) \/ GapOver(l) \/ Sent(l) \/ EndPadding(l)
        PROVE  LoopsOfPadding'
    <3>1. UNCHANGED <<padding, padChannels>>
      BY <2>4 DEF AwaitGap, GapOver, Sent, EndPadding
    <3>2. CASE AwaitGap(l)
      <4>1. PICK e : e = [at |-> "waiting", on |-> padChannels]
        OBVIOUS
      <4>2. e \in PaddingRecords /\ e.on <= padChannels
        BY <2>0, <4>1 DEF PaddingRecords
      <4>3. padLoop' = [padLoop EXCEPT ![l] = e]
        BY <3>2, <4>1 DEF AwaitGap
      <4> QED BY <2>1, <3>1, <4>2, <4>3
    <3>3. CASE GapOver(l) \/ Sent(l) \/ EndPadding(l)
      <4>1. PICK at \in {"awake", "waiting", "sending", "ended"} : padLoop' = [padLoop EXCEPT ![l].at = at]
        BY <3>3 DEF GapOver, Sent, EndPadding, GenerateDummyPacket
      <4>2. PICK e : e = [padLoop[l] EXCEPT !.at = at]
        OBVIOUS
      <4>3. e \in PaddingRecords /\ e.on <= padChannels
        BY <2>0, <2>00, <4>2 DEF PaddingRecords
      <4>4. padLoop' = [padLoop EXCEPT ![l] = e]
        BY <4>1, <4>2
      <4> QED BY <2>1, <3>1, <4>3, <4>4
    <3> QED BY <2>4, <3>2, <3>3
  <2>5. CASE UNCHANGED paddingVars
    BY <1>2, <2>5 DEF paddingVars, LoopsOfPadding
  <2> QED BY <1>2, <2>2, <2>3, <2>4, <2>5 DEF PaddingNext
<1> QED BY <1>1, <1>2

LEMMA OnionTypes == RelayCacheInv /\ LoopsOfPadding => OnionTypeOK
<1> SUFFICES ASSUME RelayCacheInv, LoopsOfPadding PROVE OnionTypeOK
  OBVIOUS
<1>1. DOMAIN padLoop = 1 .. padChannels /\ padChannels \in Nat
  BY OnionAssumption DEF LoopsOfPadding, OnionAssumption
<1>2. \A l \in DOMAIN padLoop : padLoop[l] \in PaddingRecords
  BY DEF LoopsOfPadding
<1>3. \A l \in DOMAIN padLoop : padLoop[l].on \in 0 .. padChannels
  BY <1>1, <1>2 DEF LoopsOfPadding, PaddingRecords
<1>4. \A l \in DOMAIN padLoop :
         padLoop[l] \in [at : {"awake", "waiting", "sending", "ended"}, on : 0 .. padChannels]
  BY <1>2, <1>3 DEF PaddingRecords
<1> QED BY <1>1, <1>4 DEF RelayCacheInv, LoopsOfPadding, OnionTypeOK

\* The panel: its requests are counted up to the bound of the model, the rest is yes or no.
PanelFlags ==
    /\ setting \in BOOLEAN /\ watchdog \in BOOLEAN /\ gone \in BOOLEAN /\ certain \in BOOLEAN
    /\ requested \in 0 .. MaxRequested

LEMMA PanelFlagsStep ==
    /\ PanelInit => PanelFlags
    /\ PanelInv /\ PanelFlags /\ [PanelNext]_panelVars => PanelFlags'
<1>0. MaxRequested \in Nat
  BY PanelAssumption DEF PanelAssumption
<1>1. PanelInit => PanelFlags
  <2> SUFFICES ASSUME PanelInit PROVE PanelFlags
    OBVIOUS
  <2>1. setting \in BOOLEAN /\ gone = FALSE /\ certain = FALSE /\ requested = 0
    BY DEF PanelInit
  <2>2. watchdog \in BOOLEAN
    BY DEF PanelInit
  <2>3. requested \in 0 .. MaxRequested
    BY <1>0, <2>1
  <2>4. gone \in BOOLEAN /\ certain \in BOOLEAN
    BY <2>1
  <2> QED BY <2>1, <2>2, <2>3, <2>4 DEF PanelFlags
<1>2. ASSUME PanelInv, PanelFlags, [PanelNext]_panelVars PROVE PanelFlags'
  <2>0. PanelFlags /\ \A r \in Requests : request[r].alone \in BOOLEAN
    BY <1>2 DEF PanelInv
  <2>1. ASSUME NEW r \in Requests, NEW at, Begin(r, at) PROVE PanelFlags'
    BY <1>0, <2>0, <2>1 DEF PanelFlags, Begin
  <2>2. ASSUME NEW r \in Requests, Execute(r)
        PROVE  setting' \in BOOLEAN /\ watchdog' \in BOOLEAN
    BY <2>0, <2>2 DEF PanelFlags, Execute, StartConnect, Enable, StartWatchdog, EndConnect, Fail,
                      StartDisconnect, Disable, TellDisconnected, Clear, ClearToExit, TellExit,
                      ExitProcess
  <2>3. ASSUME NEW r \in Requests, Execute(r)
        PROVE  /\ gone' \in BOOLEAN /\ requested' = requested
               /\ certain' \in {certain, request[r].alone}
    BY <2>0, <2>3 DEF PanelFlags, Goes, Ends, Execute, StartConnect, Enable, StartWatchdog,
                      EndConnect, Fail, StartDisconnect, Disable, TellDisconnected, Clear,
                      ClearToExit, TellExit, ExitProcess
  <2>4. ASSUME NEW r \in Requests, Execute(r) PROVE PanelFlags'
    BY <2>0, <2>2, <2>3, <2>4 DEF PanelFlags
  <2>5. CASE Kill \/ Restore
    BY <2>0, <2>5 DEF PanelFlags, Kill, Restore
  <2>6. CASE UNCHANGED panelVars
    BY <2>0, <2>6 DEF PanelFlags, panelVars
  <2> QED BY <1>2, <2>1, <2>4, <2>5, <2>6 DEF PanelNext, Ask, Cycle
<1> QED BY <1>1, <1>2

LEMMA PanelTypes == PanelInv /\ PanelFlags => PanelTypeOK
  BY DEF PanelInv, PanelFlags, PanelTypeOK, Connecting, Disconnecting

\* Sessions, probes and messages within their bounds.
PunchesFit ==
    /\ DOMAIN punch \subseteq Sessions /\ \A s \in DOMAIN punch : punch[s].probes <= PunchRetries
    /\ \A s \in DOMAIN doneChan : doneChan[s] \in BOOLEAN
    /\ air \subseteq [to : Punchers, op : {"probe", "ack"}, session : Sessions]
    /\ relays \subseteq RelayNodes /\ relayQueue \in 0 .. RelayCapacity

\* The successes are counted: there are as many as calls that ended well.
AttemptRecords == [at : {"unasked", "waiting", "ok", "failed"}, prober : {"none", "reading", "done"},
                   reply : {"none", "ok", "failed"}]
Successes(f) == {c \in Attempts : f[c].at = "ok"}

SuccessesAreCounted ==
    attempt \in [Attempts -> AttemptRecords] /\ punchesOk = Cardinality(Successes(attempt))

LEMMA PunchesStep ==
    /\ NatInit => PunchesFit
    /\ NatInv /\ PunchesFit /\ [NatNext]_natVars => PunchesFit'
<1>0. PunchRetries \in Nat /\ RelayCapacity \in Nat /\ MaxPunches \in Nat
  BY PunchAssumption DEF PunchAssumption
<1>1. NatInit => PunchesFit
  BY <1>0 DEF NatInit, PunchesFit
<1>2. ASSUME NatInv, PunchesFit, [NatNext]_natVars PROVE PunchesFit'
  <2>0. /\ PunchesFit
        /\ \A s \in DOMAIN punch :
              punch[s] \in [owner : Punchers, at : {"open", "won", "lost"}, probes : Nat]
        /\ \A s \in DOMAIN punch : punch[s].owner \in Punchers /\ punch[s].probes \in Nat
    BY <1>2 DEF NatInv, PunchTypes
  <2>1. ASSUME NEW n \in Punchers, NEW op \in {"probe", "ack"}, NEW s \in Sessions, Emit(n, op, s)
        PROVE  air' \subseteq [to : Punchers, op : {"probe", "ack"}, session : Sessions]
    BY <2>0, <2>1, TwoPunchers DEF PunchesFit, Emit
  <2>2. ASSUME NEW n \in Punchers, BeginPunch(n) PROVE PunchesFit'
    <3>1. PICK s \in Sessions : s = Cardinality(DOMAIN punch) + 1
      BY <2>2 DEF BeginPunch
    <3>2. PICK e : e = [owner |-> n, at |-> "open", probes |-> 0]
      OBVIOUS
    <3>3. /\ DOMAIN punch' = DOMAIN punch \cup {s}
          /\ \A t \in DOMAIN punch' : punch'[t] = IF t = s THEN e ELSE punch[t]
          /\ \A t \in DOMAIN doneChan' : doneChan'[t] = IF t = s THEN FALSE ELSE doneChan[t]
          /\ DOMAIN doneChan' = DOMAIN doneChan \cup {s}
      BY <2>2, <3>1, <3>2 DEF BeginPunch
    <3>4. \A t \in DOMAIN punch' : punch'[t].probes <= PunchRetries
      BY <1>0, <2>0, <3>2, <3>3 DEF PunchesFit
    <3>5. \A t \in DOMAIN doneChan' : doneChan'[t] \in BOOLEAN
      BY <2>0, <3>3 DEF PunchesFit
    <3> QED BY <2>0, <2>2, <3>1, <3>3, <3>4, <3>5 DEF PunchesFit, BeginPunch, relayOwn
  <2>3. ASSUME NEW s \in DOMAIN punch, NEW how, EndPunch(s, how)
        PROVE  /\ DOMAIN punch' \subseteq Sessions
               /\ \A t \in DOMAIN punch' : punch'[t].probes <= PunchRetries
               /\ \A t \in DOMAIN doneChan' : doneChan'[t] \in BOOLEAN
               /\ relays' \subseteq RelayNodes /\ relayQueue' \in 0 .. RelayCapacity
    <3>1. PICK e : e = [punch[s] EXCEPT !.at = how]
      OBVIOUS
    <3>2. punch' = [punch EXCEPT ![s] = e]
      BY <2>3, <3>1 DEF EndPunch
    <3>3. e.probes = punch[s].probes
      BY <2>0, <3>1
    <3>4. \A t \in DOMAIN punch' : punch'[t].probes <= PunchRetries
      BY <2>0, <3>2, <3>3 DEF PunchesFit
    <3>5. \A t \in DOMAIN doneChan' : t \in DOMAIN doneChan /\ doneChan'[t] = doneChan[t]
      BY <2>3 DEF EndPunch, Restrict
    <3> QED BY <2>0, <2>3, <3>2, <3>4, <3>5 DEF PunchesFit, EndPunch, relayOwn
  <2>4. ASSUME NEW s \in DOMAIN punch, Probe(s) PROVE PunchesFit'
    <3>1. PICK k \in Nat : k = punch[s].probes + 1
      BY <2>0
    <3>2. PICK e : e = [punch[s] EXCEPT !.probes = k]
      OBVIOUS
    <3>3. punch' = [punch EXCEPT ![s] = e]
      BY <2>4, <3>1, <3>2 DEF Probe
    <3>4. e.probes = k /\ k <= PunchRetries
      BY <1>0, <2>0, <2>4, <3>1, <3>2 DEF Probe
    <3>5. \A t \in DOMAIN punch' : punch'[t].probes <= PunchRetries
      BY <2>0, <3>3, <3>4 DEF PunchesFit
    <3>6. air' \subseteq [to : Punchers, op : {"probe", "ack"}, session : Sessions]
      BY <2>0, <2>1, <2>4 DEF PunchesFit, Probe
    <3> QED BY <2>0, <2>4, <3>3, <3>5, <3>6 DEF PunchesFit, Probe, relayOwn
  <2>5. ASSUME NEW s \in DOMAIN punch, Win(s) PROVE PunchesFit'
    <3>1. air' \subseteq [to : Punchers, op : {"probe", "ack"}, session : Sessions]
      BY <2>0, <2>1, <2>5 DEF PunchesFit, Win
    <3> QED BY <2>3, <2>5, <3>1 DEF PunchesFit, Win
  <2>6. ASSUME NEW s \in DOMAIN punch, Lose(s) PROVE PunchesFit'
    BY <2>0, <2>3, <2>6 DEF PunchesFit, Lose
  <2>7. ASSUME NEW m \in air, HandleIncomingPacket(m) PROVE PunchesFit'
    <3>1. m.to \in Punchers /\ m.session \in Sessions
      BY <2>0 DEF PunchesFit
    <3>2. air' \subseteq [to : Punchers, op : {"probe", "ack"}, session : Sessions]
      BY <2>0, <2>1, <2>7, <3>1 DEF PunchesFit, HandleIncomingPacket
    <3>3. \A s \in DOMAIN doneChan' : doneChan'[s] \in BOOLEAN
      BY <2>7 DEF HandleIncomingPacket, Wakes
    <3> QED BY <2>0, <2>7, <3>2, <3>3 DEF PunchesFit, HandleIncomingPacket, relayOwn
  <2>8. ASSUME NEW c \in Attempts, \/ BeginAttempt(c) \/ EndAttempt(c) \/ GiveUpAttempt(c)
                                   \/ \E r \in {"ok", "failed"} : AnswerAttempt(c, r)
        PROVE  UNCHANGED <<punchVars, relayOwn>>
    BY <2>8 DEF BeginAttempt, EndAttempt, GiveUpAttempt, AnswerAttempt
  <2>9. UNCHANGED <<punchVars, relayOwn>> => PunchesFit'
    BY <2>0 DEF PunchesFit, punchVars, relayOwn
  <2>10. ASSUME NEW r \in RelayNodes, RegisterDERPRelay(r) PROVE PunchesFit'
    BY <2>0, <2>10 DEF PunchesFit, RegisterDERPRelay, punchVars
  <2>11. CASE RouteViaDERPRelay
    BY <1>0, <2>0, <2>11 DEF PunchesFit, RouteViaDERPRelay, punchVars
  <2>12. UNCHANGED natVars => UNCHANGED <<punchVars, relayOwn>>
    BY DEF natVars, punchVars, relayOwn
  <2> QED BY <1>2, <2>2, <2>4, <2>5, <2>6, <2>7, <2>8, <2>9, <2>10, <2>11, <2>12 DEF NatNext, PunchStep
<1> QED BY <1>1, <1>2

LEMMA SuccessesStep ==
    /\ NatInit => SuccessesAreCounted
    /\ SuccessesAreCounted /\ [NatNext]_natVars => SuccessesAreCounted'
<1>0. \A f : IsFiniteSet(Successes(f))
  BY FS_Subset, PunchAssumption DEF PunchAssumption, Successes
<1>1. NatInit => SuccessesAreCounted
  <2> SUFFICES ASSUME NatInit PROVE SuccessesAreCounted
    OBVIOUS
  <2>1. attempt \in [Attempts -> AttemptRecords] /\ punchesOk = 0
    BY DEF NatInit, Unasked, AttemptRecords
  <2>2. Successes(attempt) = {}
    BY DEF NatInit, Unasked, Successes
  <2> QED BY <2>1, <2>2, FS_EmptySet DEF SuccessesAreCounted
<1>2. ASSUME SuccessesAreCounted, [NatNext]_natVars PROVE SuccessesAreCounted'
  <2>0. /\ attempt \in [Attempts -> AttemptRecords] /\ punchesOk = Cardinality(Successes(attempt))
    BY <1>2 DEF SuccessesAreCounted
  <2>1. ASSUME NEW c \in Attempts, NEW a \in AttemptRecords, attempt' = [attempt EXCEPT ![c] = a],
               attempt[c].at # "ok",
               punchesOk' = IF a.at = "ok" THEN punchesOk + 1 ELSE punchesOk
        PROVE  SuccessesAreCounted'
    <3>1. PICK f : f = attempt'
      OBVIOUS
    <3>2. f \in [Attempts -> AttemptRecords] /\ \A d \in Attempts : f[d] = IF d = c THEN a ELSE attempt[d]
      BY <2>0, <2>1, <3>1
    <3>3. PICK S : S = Successes(attempt)
      OBVIOUS
    <3>4. PICK T : T = Successes(f)
      OBVIOUS
    <3>5. c \notin S /\ (c \in T <=> a.at = "ok") /\ \A d : d # c => (d \in S <=> d \in T)
      BY <2>1, <3>2, <3>3, <3>4 DEF Successes
    <3>6. IsFiniteSet(S)
      BY <1>0, <3>3
    <3>7. Cardinality(T) = IF a.at = "ok" THEN Cardinality(S) + 1 ELSE Cardinality(S)
      BY <3>5, <3>6, OneDiffers
    <3>8. punchesOk' = Cardinality(T)
      BY <2>0, <2>1, <3>3, <3>7
    <3>9. Successes(attempt') = T /\ attempt' \in [Attempts -> AttemptRecords]
      BY <3>1, <3>2, <3>4
    <3> QED BY <3>8, <3>9 DEF SuccessesAreCounted, Successes
  <2>3. ASSUME NEW c \in Attempts, BeginAttempt(c) PROVE SuccessesAreCounted'
    <3>1. PICK a \in AttemptRecords : a = [at |-> "waiting", prober |-> "reading", reply |-> "none"]
      BY DEF AttemptRecords
    <3> QED BY <2>1, <2>3, <3>1 DEF BeginAttempt
  <2>4. ASSUME NEW c \in Attempts, NEW a \in AttemptRecords, attempt' = [attempt EXCEPT ![c] = a],
               a.at = attempt[c].at, punchesOk' = punchesOk
        PROVE  SuccessesAreCounted'
    <3>1. /\ attempt' \in [Attempts -> AttemptRecords]
          /\ \A d \in Attempts : attempt'[d] = IF d = c THEN a ELSE attempt[d]
      BY <2>0, <2>4
    <3>2. {d \in Attempts : attempt'[d].at = "ok"} = {d \in Attempts : attempt[d].at = "ok"}
      BY <2>4, <3>1
    <3> QED BY <2>0, <2>4, <3>1, <3>2 DEF SuccessesAreCounted, Successes
  <2>5. ASSUME NEW c \in Attempts, NEW r \in {"ok", "failed"}, AnswerAttempt(c, r)
        PROVE  SuccessesAreCounted'
    <3>1. PICK o \in AttemptRecords : o = attempt[c]
      BY <2>0
    <3>2. PICK q : q = [o EXCEPT !.prober = "done"]
      OBVIOUS
    <3>3. PICK a : a = [q EXCEPT !.reply = r]
      OBVIOUS
    <3>4. a \in AttemptRecords /\ a.at = o.at
      BY <3>2, <3>3 DEF AttemptRecords
    <3>5. attempt' = [attempt EXCEPT ![c] = a] /\ punchesOk' = punchesOk
      BY <2>0, <2>5, <3>1, <3>2, <3>3 DEF AnswerAttempt, AttemptRecords
    <3> QED BY <2>4, <3>1, <3>4, <3>5
  <2>6. ASSUME NEW c \in Attempts, EndAttempt(c) PROVE SuccessesAreCounted'
    <3>1. PICK o \in AttemptRecords : o = attempt[c]
      BY <2>0
    <3>2. o.at = "waiting" /\ o.reply \in {"ok", "failed"}
      BY <2>6, <3>1 DEF EndAttempt, AttemptRecords
    <3>3. PICK q : q = [o EXCEPT !.at = o.reply]
      OBVIOUS
    <3>4. PICK a : a = [q EXCEPT !.reply = "none"]
      OBVIOUS
    <3>5. a \in AttemptRecords /\ a.at = o.reply
      BY <3>2, <3>3, <3>4 DEF AttemptRecords
    <3>6. attempt' = [attempt EXCEPT ![c] = a]
      BY <2>0, <2>6, <3>1, <3>3, <3>4 DEF EndAttempt, AttemptRecords
    <3>7. punchesOk' = IF a.at = "ok" THEN punchesOk + 1 ELSE punchesOk
      BY <2>6, <3>1, <3>5 DEF EndAttempt
    <3>8. attempt[c].at # "ok"
      BY <3>1, <3>2
    <3> QED BY <2>1, <3>5, <3>6, <3>7, <3>8
  <2>7. ASSUME NEW c \in Attempts, GiveUpAttempt(c) PROVE SuccessesAreCounted'
    <3>1. PICK o \in AttemptRecords : o = attempt[c]
      BY <2>0
    <3>2. PICK a : a = [o EXCEPT !.at = "failed"]
      OBVIOUS
    <3>3. a \in AttemptRecords /\ a.at = "failed"
      BY <3>2 DEF AttemptRecords
    <3>4. /\ attempt' = [attempt EXCEPT ![c] = a] /\ attempt[c].at # "ok"
          /\ punchesOk' = IF a.at = "ok" THEN punchesOk + 1 ELSE punchesOk
      BY <2>7, <3>1, <3>2, <3>3 DEF GiveUpAttempt
    <3> QED BY <2>1, <3>3, <3>4
  <2>8. UNCHANGED attemptVars => SuccessesAreCounted'
    BY <2>0 DEF SuccessesAreCounted, attemptVars, Successes
  <2>9. ASSUME NEW n \in Punchers, BeginPunch(n) PROVE UNCHANGED attemptVars
    BY <2>9 DEF BeginPunch
  <2>10. PunchStep => UNCHANGED attemptVars
    BY DEF PunchStep, Probe, Win, Lose, EndPunch
  <2>11. ASSUME NEW m \in air, HandleIncomingPacket(m) PROVE UNCHANGED attemptVars
    BY <2>11 DEF HandleIncomingPacket
  <2>12. (\E r \in RelayNodes : RegisterDERPRelay(r)) \/ RouteViaDERPRelay => UNCHANGED attemptVars
    BY DEF RegisterDERPRelay, RouteViaDERPRelay
  <2>13. UNCHANGED natVars => UNCHANGED attemptVars
    BY DEF natVars, attemptVars
  <2> QED BY <1>2, <2>3, <2>5, <2>6, <2>7, <2>8, <2>9, <2>10, <2>11, <2>12, <2>13 DEF NatNext
<1> QED BY <1>1, <1>2

LEMMA NatTypes == NatInv /\ PunchesFit /\ SuccessesAreCounted => NatTypeOK
<1> SUFFICES ASSUME NatInv, PunchesFit, SuccessesAreCounted PROVE NatTypeOK
  OBVIOUS
<1>1. punchesOk \in 0 .. Cardinality(Attempts)
  <2>1. IsFiniteSet(Attempts) /\ Successes(attempt) \subseteq Attempts
    BY PunchAssumption DEF PunchAssumption, Successes
  <2>2. /\ Cardinality(Successes(attempt)) \in Nat /\ Cardinality(Attempts) \in Nat
        /\ Cardinality(Successes(attempt)) <= Cardinality(Attempts)
    BY <2>1, FS_Subset, FS_CardinalityType
  <2> QED BY <2>2 DEF SuccessesAreCounted
<1>2. \A s \in DOMAIN punch :
         punch[s] \in [owner : Punchers, at : {"open", "won", "lost"}, probes : 0 .. PunchRetries]
  <2>1. \A s \in DOMAIN punch : punch[s].probes \in 0 .. PunchRetries
    BY PunchAssumption DEF PunchAssumption, NatInv, PunchTypes, PunchesFit
  <2> QED BY <2>1 DEF NatInv, PunchTypes
<1>3. DOMAIN doneChan \subseteq DOMAIN punch /\ pierced \subseteq Punchers /\ heard \subseteq DOMAIN punch
  BY DEF NatInv, PunchTypes
<1> QED BY <1>1, <1>2, <1>3 DEF PunchesFit, SuccessesAreCounted, AttemptRecords, NatTypeOK

\* A call of SetActive that is under way still finds room for its channel, or one to close.
LoopRecords == [at : {"awake", "waiting", "busy", "ended"}, on : Nat]

SwitchHolds ==
    /\ probing \in BOOLEAN /\ switching \in {"no", "on", "off"} /\ channel \in 0 .. MaxSwitches
    /\ switching = "on" => channel < MaxSwitches
    /\ switching = "off" \/ (switching = "no" /\ probing) => channel >= 1
    /\ closed \subseteq 1 .. channel

LoopsHold ==
    /\ DOMAIN loop \subseteq Loops
    /\ \A l \in DOMAIN loop : loop[l] \in LoopRecords /\ loop[l].on <= channel
    /\ audits \subseteq [by : Loops \cup {Nobody}, found : SUBSET Incidents]
    /\ requests \in 0 .. MaxRequests

LEMMA ProbeTypesStep ==
    /\ ProbeInit => SwitchHolds /\ LoopsHold
    /\ SwitchHolds /\ LoopsHold /\ [ProbeNext]_probeVars => SwitchHolds' /\ LoopsHold'
<1>0. MaxSwitches \in Nat /\ MaxRequests \in Nat
  BY ProbeAssumption DEF ProbeAssumption
<1>1. ProbeInit => SwitchHolds /\ LoopsHold
  <2> SUFFICES ASSUME ProbeInit PROVE SwitchHolds /\ LoopsHold
    OBVIOUS
  <2>1. /\ probing = FALSE /\ switching = "no" /\ channel = 0 /\ closed = {} /\ audits = {}
        /\ DOMAIN loop = {} /\ requests = 0
    BY DEF ProbeInit
  <2>2. channel \in 0 .. MaxSwitches /\ requests \in 0 .. MaxRequests
    BY <1>0, <2>1
  <2>3. SwitchHolds
    BY <2>1, <2>2 DEF SwitchHolds
  <2>4. LoopsHold
    BY <2>1, <2>2 DEF LoopsHold
  <2> QED BY <2>3, <2>4
<1>2. ASSUME SwitchHolds, LoopsHold, [ProbeNext]_probeVars PROVE SwitchHolds' /\ LoopsHold'
  <2>0. SwitchHolds /\ LoopsHold /\ channel \in Nat /\ DOMAIN loop \subseteq Loops
    BY <1>0, <1>2 DEF SwitchHolds, LoopsHold
  <2>1. UNCHANGED <<probing, switching, channel, closed>> => SwitchHolds'
    BY <2>0 DEF SwitchHolds
  <2>2. UNCHANGED <<channel, loop, audits, requests>> => LoopsHold'
    BY <2>0 DEF LoopsHold
  <2>3. ASSUME NEW l \in Loops \cup {Nobody}, NEW f \in SUBSET Incidents
        PROVE  [by |-> l, found |-> f] \in [by : Loops \cup {Nobody}, found : SUBSET Incidents]
    OBVIOUS
  <2>4. ASSUME NEW l, NEW at \in {"awake", "waiting", "busy", "ended"}, NEW n \in 0 .. channel,
               loop' \in {loop, [loop EXCEPT ![l].at = at], [loop EXCEPT ![l] = [at |-> at, on |-> n]]},
               channel' = channel
        PROVE  DOMAIN loop' \subseteq Loops
               /\ \A k \in DOMAIN loop' : loop'[k] \in LoopRecords /\ loop'[k].on <= channel'
    <3>1. CASE loop' = loop
      BY <2>0, <2>4, <3>1 DEF LoopsHold
    <3>2. CASE loop' = [loop EXCEPT ![l].at = at]
      <4>1. PICK e : e = [loop[l] EXCEPT !.at = at]
        OBVIOUS
      <4>2. /\ DOMAIN loop' = DOMAIN loop
            /\ \A k \in DOMAIN loop : loop'[k] = IF k = l THEN e ELSE loop[k]
        BY <3>2, <4>1
      <4>3. l \in DOMAIN loop => e \in LoopRecords /\ e.on = loop[l].on
        BY <2>0, <4>1 DEF LoopsHold, LoopRecords
      <4>4. \A k \in DOMAIN loop : loop'[k] \in LoopRecords /\ loop'[k].on = loop[k].on
        BY <2>0, <4>2, <4>3 DEF LoopsHold
      <4> QED BY <2>0, <2>4, <4>2, <4>4 DEF LoopsHold
    <3>3. CASE loop' = [loop EXCEPT ![l] = [at |-> at, on |-> n]]
      <4>1. PICK e : e = [at |-> at, on |-> n]
        OBVIOUS
      <4>2. /\ DOMAIN loop' = DOMAIN loop
            /\ \A k \in DOMAIN loop : loop'[k] = IF k = l THEN e ELSE loop[k]
        BY <3>3, <4>1
      <4>3. e \in LoopRecords /\ e.on <= channel
        BY <2>0, <4>1 DEF LoopRecords
      <4> QED BY <2>0, <2>4, <4>2, <4>3 DEF LoopsHold
    <3> QED BY <2>4, <3>1, <3>2, <3>3
  <2>5. ASSUME NEW on \in BOOLEAN, SetActive(on) PROVE SwitchHolds' /\ LoopsHold'
    <3>1. UNCHANGED <<channel, closed, loop, audits, requests>> /\ probing' = on
          /\ switching = "no" /\ on # probing /\ (on => channel < MaxSwitches)
          /\ switching' = IF on THEN "on" ELSE "off"
      BY <2>5 DEF SetActive
    <3>2. on \/ probing
      BY <2>0, <3>1 DEF SwitchHolds
    <3>3. SwitchHolds'
      BY <2>0, <3>1, <3>2 DEF SwitchHolds
    <3> QED BY <2>2, <3>1, <3>3
  <2>6. ASSUME NEW f \in SUBSET Incidents, OpenChannel(f) PROVE SwitchHolds' /\ LoopsHold'
    <3>1. PICK c \in Nat : c = channel + 1
      BY <2>0
    <3>2. c \in 1 .. MaxSwitches /\ channel' = c /\ channel < c
      BY <1>0, <2>0, <2>6, <3>1 DEF SwitchHolds, OpenChannel
    <3>3. SwitchHolds'
      <4>1. closed' \subseteq 1 .. c
        BY <2>0, <2>6, <3>1 DEF SwitchHolds, OpenChannel
      <4>2. switching' = "no" /\ probing' = probing /\ c >= 1 /\ c \in 0 .. MaxSwitches
        BY <1>0, <2>6, <3>2 DEF OpenChannel
      <4> QED BY <2>0, <3>2, <4>1, <4>2 DEF SwitchHolds
    <3>4. PICK e : e = [at |-> "awake", on |-> 0]
      OBVIOUS
    <3>5. /\ DOMAIN loop' = DOMAIN loop \cup {c}
          /\ \A l \in DOMAIN loop' : loop'[l] = IF l = c THEN e ELSE loop[l]
      BY <2>6, <3>1, <3>4 DEF OpenChannel
    <3>6. e \in LoopRecords /\ e.on = 0
      BY <3>4 DEF LoopRecords
    <3>7. ASSUME NEW l \in DOMAIN loop' PROVE loop'[l] \in LoopRecords /\ loop'[l].on <= channel'
      <4>1. CASE l = c
        BY <3>2, <3>5, <3>6, <4>1
      <4>2. CASE l # c
        <5>1. loop'[l] = loop[l] /\ loop[l] \in LoopRecords /\ loop[l].on <= channel
          BY <2>0, <3>5, <4>2 DEF LoopsHold
        <5>2. loop[l].on \in Nat
          BY <5>1 DEF LoopRecords
        <5> QED BY <2>0, <3>2, <5>1, <5>2
      <4> QED BY <4>1, <4>2
    <3>8. audits' \subseteq [by : Loops \cup {Nobody}, found : SUBSET Incidents]
      BY <2>0, <2>3, <2>6 DEF LoopsHold, OpenChannel
    <3>9. DOMAIN loop' \subseteq Loops
      BY <2>0, <3>2, <3>5 DEF Loops
    <3>10. requests' \in 0 .. MaxRequests
      BY <2>0, <2>6 DEF LoopsHold, OpenChannel
    <3> QED BY <3>3, <3>7, <3>8, <3>9, <3>10 DEF LoopsHold
  <2>7. CASE CloseChannel
    <3>1. SwitchHolds'
      BY <2>0, <2>7 DEF SwitchHolds, CloseChannel
    <3> QED BY <2>2, <2>7, <3>1 DEF CloseChannel
  <2>8. ASSUME NEW l \in DOMAIN loop, Await(l) \/ EndLoop(l) PROVE SwitchHolds' /\ LoopsHold'
    <3>1. UNCHANGED <<probing, switching, channel, closed, audits, requests>>
      BY <2>8 DEF Await, EndLoop
    <3>2. channel \in 0 .. channel
      BY <2>0
    <3>3. \/ loop' = [loop EXCEPT ![l].at = "ended"]
          \/ loop' = [loop EXCEPT ![l] = [at |-> "waiting", on |-> channel]]
      BY <2>8 DEF Await, EndLoop
    <3>4. /\ DOMAIN loop' \subseteq Loops
          /\ \A k \in DOMAIN loop' : loop'[k] \in LoopRecords /\ loop'[k].on <= channel'
      BY <2>4, <3>1, <3>2, <3>3
    <3> QED BY <2>0, <2>1, <3>1, <3>4 DEF LoopsHold
  <2>9. ASSUME NEW l \in DOMAIN loop, NEW f \in SUBSET Incidents, Awaken(l, f)
        PROVE  SwitchHolds' /\ LoopsHold'
    <3>1. UNCHANGED <<probing, switching, channel, closed, requests>>
      BY <2>9 DEF Awaken
    <3>2. channel \in 0 .. channel
      BY <2>0
    <3>3. \E at \in {"busy", "awake"} : loop' = [loop EXCEPT ![l].at = at]
      BY <2>9 DEF Awaken
    <3>4. /\ DOMAIN loop' \subseteq Loops
          /\ \A k \in DOMAIN loop' : loop'[k] \in LoopRecords /\ loop'[k].on <= channel'
      BY <2>4, <3>1, <3>2, <3>3
    <3>5. audits' \subseteq [by : Loops \cup {Nobody}, found : SUBSET Incidents]
      BY <2>0, <2>3, <2>9 DEF LoopsHold, Awaken
    <3> QED BY <2>0, <2>1, <3>1, <3>4, <3>5 DEF LoopsHold
  <2>10. ASSUME NEW f \in SUBSET Incidents, RunAudit(f) PROVE SwitchHolds' /\ LoopsHold'
    <3>1. audits' \subseteq [by : Loops \cup {Nobody}, found : SUBSET Incidents]
      BY <2>0, <2>3, <2>10 DEF LoopsHold, RunAudit
    <3>2. requests' \in 0 .. MaxRequests
      BY <1>0, <2>0, <2>10 DEF LoopsHold, RunAudit
    <3> QED BY <2>0, <2>1, <2>10, <3>1, <3>2 DEF LoopsHold, RunAudit
  <2>11. ASSUME NEW a \in audits, EndAudit(a) PROVE SwitchHolds' /\ LoopsHold'
    <3>1. UNCHANGED <<probing, switching, channel, closed, requests>> /\ audits' \subseteq audits
      BY <2>11 DEF EndAudit
    <3>2. channel \in 0 .. channel
      BY <2>0
    <3>3. loop' \in {loop, [loop EXCEPT ![a.by].at = "awake"]}
      BY <2>11 DEF EndAudit
    <3>4. /\ DOMAIN loop' \subseteq Loops
          /\ \A k \in DOMAIN loop' : loop'[k] \in LoopRecords /\ loop'[k].on <= channel'
      BY <2>4, <3>1, <3>2, <3>3
    <3> QED BY <2>0, <2>1, <3>1, <3>4 DEF LoopsHold
  <2>12. CASE UNCHANGED probeVars
    BY <2>1, <2>2, <2>12 DEF probeVars
  <2> QED BY <1>2, <2>5, <2>6, <2>7, <2>8, <2>9, <2>10, <2>11, <2>12 DEF ProbeNext
<1> QED BY <1>1, <1>2

LEMMA ProbeTypes == ProbeInv /\ SwitchHolds /\ LoopsHold => ProbeTypeOK
<1> SUFFICES ASSUME ProbeInv, SwitchHolds, LoopsHold PROVE ProbeTypeOK
  OBVIOUS
<1>1. channel \in Nat /\ \A l \in DOMAIN loop : loop[l] \in LoopRecords /\ loop[l].on <= channel
  BY ProbeAssumption DEF ProbeAssumption, SwitchHolds, LoopsHold
<1>2. \A l \in DOMAIN loop : loop[l].on \in 0 .. channel
  BY <1>1 DEF LoopRecords
<1>3. \A l \in DOMAIN loop :
         loop[l] \in [at : {"awake", "waiting", "busy", "ended"}, on : 0 .. channel]
  BY <1>1, <1>2 DEF LoopRecords
<1> QED BY <1>3 DEF ProbeInv, SwitchHolds, LoopsHold, ProbeTypeOK

\* Each of these is carried on by the steps of its service.
LEMMA SimpleTypesHold ==
    ServicesSpec => [](TunTypeOK /\ GuardTypeOK /\ EgressTypeOK /\ AnchorTypeOK /\ AdapterInv
                         /\ LoopsOfPadding /\ SuccessesAreCounted /\ SwitchHolds /\ LoopsHold)
<1>1. ServicesInit => /\ TunTypeOK /\ GuardTypeOK /\ EgressTypeOK /\ AnchorTypeOK /\ AdapterInv
                      /\ LoopsOfPadding /\ SuccessesAreCounted /\ SwitchHolds /\ LoopsHold
  BY TunTypes, GuardTypes, EgressTypes, AnchorTypes, AdapterStep, PaddingTypes, SuccessesStep,
     ProbeTypesStep DEF ServicesInit
<1>2. /\ TunTypeOK /\ GuardTypeOK /\ EgressTypeOK /\ AnchorTypeOK /\ AdapterInv
      /\ LoopsOfPadding /\ SuccessesAreCounted /\ SwitchHolds /\ LoopsHold
      /\ [ServicesNext]_servicesVars
      => (/\ TunTypeOK /\ GuardTypeOK /\ EgressTypeOK /\ AnchorTypeOK /\ AdapterInv
          /\ LoopsOfPadding /\ SuccessesAreCounted /\ SwitchHolds /\ LoopsHold)'
  BY TunTypes, GuardTypes, EgressTypes, AnchorTypes, AdapterStep, PaddingTypes, SuccessesStep,
     ProbeTypesStep, EveryStepIsOfAService
<1> HIDE DEF TunTypeOK, GuardTypeOK, EgressTypeOK, AnchorTypeOK, AdapterInv, LoopsOfPadding,
             SuccessesAreCounted, SwitchHolds, LoopsHold
<1> QED BY <1>1, <1>2, PTL DEF ServicesSpec

\* Each of these needs another invariant of its service.
LEMMA FittingTypesHold ==
    ServicesSpec => [](ProxyTypes /\ SilentTypeOK /\ TransitTypeOK /\ LocksAreHeld /\ CacheFits
                         /\ PanelFlags /\ PunchesFit)
<1>1. ServicesInit => /\ ProxyTypes /\ SilentTypeOK /\ TransitTypeOK /\ LocksAreHeld /\ CacheFits
                      /\ PanelFlags /\ PunchesFit
  BY ProxyTypesStep, SilentTypes, TransitTypes, LocksStep, CacheStep, PanelFlagsStep, PunchesStep
     DEF ServicesInit
<1>2. /\ ProxyTypes /\ SilentTypeOK /\ TransitTypeOK /\ LocksAreHeld /\ CacheFits
      /\ PanelFlags /\ PunchesFit
      /\ StreamsInv' /\ SilentInv /\ SilentInv' /\ RationInv /\ RationInv' /\ TransitInv /\ TableInv
      /\ TableInv' /\ DNSInv /\ PanelInv /\ NatInv
      /\ [ServicesNext]_servicesVars
      => (/\ ProxyTypes /\ SilentTypeOK /\ TransitTypeOK /\ LocksAreHeld /\ CacheFits
          /\ PanelFlags /\ PunchesFit)'
  <2>1. (RationInv => RationTypes) /\ (RationInv' => RationTypes')
    BY DEF RationInv
  <2> QED BY <2>1, ProxyTypesStep, SilentTypes, TransitTypes, LocksStep, CacheStep, PanelFlagsStep,
             PunchesStep, EveryStepIsOfAService
<1> HIDE DEF ProxyTypes, SilentTypeOK, TransitTypeOK, LocksAreHeld, CacheFits, PanelFlags,
             PunchesFit, StreamsInv, SilentInv, RationInv, TransitInv, TableInv, DNSInv, PanelInv,
             NatInv
<1> QED BY <1>1, <1>2, StreamsInvHolds, SilentInvHolds, RationInvHolds, TransitInvHolds,
           TableInvHolds, DNSInvHolds, PanelInvHolds, NatInvHolds, PTL DEF ServicesSpec

\* Types and capacities of all services, in every state they get into: no queue, bucket, cache or
\* address range outgrows its limit, for any number of streams, calls, punches, peers and loops
\* (tun_adapter.go:72-90, dht_kademlia.go:86-131, dns_resolver.go:96-126).
THEOREM ServicesTypes == ServicesSpec => []ServicesTypeOK
<1>1. TunTypeOK /\ GuardTypeOK /\ EgressTypeOK /\ AnchorTypeOK /\ AdapterInv
         /\ ProxyTypes /\ SilentTypeOK /\ TransitTypeOK
      => /\ TunTypeOK /\ GuardTypeOK /\ EgressTypeOK /\ AnchorTypeOK /\ AdapterTypeOK
         /\ ProxyTypeOK /\ SilentTypeOK /\ TransitTypeOK
  BY DEF AdapterInv, ProxyTypes
<1>2. TableInv /\ LocksAreHeld => TableTypeOK
  BY TableTypes
<1>3. DNSInv /\ CacheFits => DNSTypeOK
  BY DNSTypes
<1>4. RelayCacheInv /\ LoopsOfPadding => OnionTypeOK
  BY OnionTypes
<1>5. PanelInv /\ PanelFlags => PanelTypeOK
  BY PanelTypes
<1>6. NatInv /\ PunchesFit /\ SuccessesAreCounted => NatTypeOK
  BY NatTypes
<1>7. ProbeInv /\ SwitchHolds /\ LoopsHold => ProbeTypeOK
  BY ProbeTypes
<1>8. (OrderInv => KademliaTypeOK) /\ (PlanetInv => PlanetTypeOK)
  BY OrderTypes, PlanetTypes
<1>9. (ShadowInv => ShadowTypeOK) /\ (DelegationInv => DelegationTypeOK)
  BY DEF ShadowInv, DelegationInv
<1>10. /\ TunTypeOK /\ GuardTypeOK /\ EgressTypeOK /\ AnchorTypeOK /\ AdapterInv
       /\ LoopsOfPadding /\ SuccessesAreCounted /\ SwitchHolds /\ LoopsHold
       /\ ProxyTypes /\ SilentTypeOK /\ TransitTypeOK /\ LocksAreHeld /\ CacheFits
       /\ PanelFlags /\ PunchesFit /\ TableInv /\ DNSInv /\ RelayCacheInv /\ PanelInv /\ NatInv
       /\ ProbeInv /\ OrderInv /\ PlanetInv /\ ShadowInv /\ DelegationInv
       => ServicesTypeOK
  BY <1>1, <1>2, <1>3, <1>4, <1>5, <1>6, <1>7, <1>8, <1>9 DEF ServicesTypeOK
<1> HIDE DEF TunTypeOK, GuardTypeOK, EgressTypeOK, AnchorTypeOK, AdapterInv, LoopsOfPadding,
             SuccessesAreCounted, SwitchHolds, LoopsHold, ProxyTypes, SilentTypeOK, TransitTypeOK,
             LocksAreHeld, CacheFits, PanelFlags, PunchesFit, TableInv, DNSInv, RelayCacheInv,
             PanelInv, NatInv, ProbeInv, OrderInv, PlanetInv, ShadowInv, DelegationInv,
             ServicesTypeOK
<1> QED BY <1>10, SimpleTypesHold, FittingTypesHold, TableInvHolds, DNSInvHolds, RelayCacheInvHolds,
           PanelInvHolds, NatInvHolds, ProbeInvHolds, OrderInvHolds, PlanetInvHolds, ShadowInvHolds,
           DelegationInvHolds, PTL

-----------------------------------------------------------------------------
(***************************************************************************)
(* What the end of everything rests on.  That something happens in the end *)
(* is for TLC to see; that whoever must act for it can, and that nothing   *)
(* undoes what has been done for it, is safety.                            *)
(***************************************************************************)

\* A stream the proxy or a bridge carries, one side of which has gone, has a copy whose read fails,
\* or none left and returns: neither direction waits for the other (socks5_gateway.go:267-281,
\* shadow_device.go:184-196).
StreamsHandOver ==
    \A s \in Streams :
      /\ stream[s].kind # "exit" /\ stream[s].at = "carried"
      /\ ~ends[s].client.open \/ ~ends[s].target.open
      => copying[s] = {} \/ \E dir \in copying[s] : Ended(ends[s][From(dir)])

\* A stream that is over stays so, and one that is carried comes nearer to its end: copies are not
\* begun again, and no connection is opened again (socks5_gateway.go:267-281).
StreamsGoOn ==
    [][\A s \in Streams :
         /\ stream[s].at = "over" => stream'[s].at = "over"
         /\ stream[s].at = "carried" =>
              /\ stream'[s].at \in {"carried", "over"} /\ copying'[s] \subseteq copying[s]
              /\ \A side \in {"client", "target"} :
                    ~ends[s][side].open => ~ends'[s][side].open]_proxyVars

\* A copy that has ended has closed the connection it wrote to, unless it was one of the exit.
HandedOver ==
    \A s \in Streams :
      stream[s].at = "carried" /\ stream[s].kind # "exit" =>
        \A dir \in {"up", "down"} \ copying[s] : ~ends[s][To(dir)].open

\* What a step does to one stream and leaves of the others.
Apart(s) ==
    \A t \in Streams : t # s =>
      stream'[t] = stream[t] /\ ends'[t] = ends[t] /\ copying'[t] = copying[t]
StayClosed(s) ==
    \A side \in {"client", "target"} : ~ends[s][side].open => ~ends'[s][side].open
Served(s) ==
    /\ stream[s].at \notin {"carried", "over"}
    /\ stream'[s].at = "carried" => copying'[s] = {"up", "down"}
LetDown(s) ==
    /\ stream[s].at = "carried" /\ stream'[s].at = "over"
    /\ copying'[s] = copying[s] /\ StayClosed(s)
RunDown(s) ==
    /\ stream'[s] = stream[s] /\ copying'[s] \subseteq copying[s] /\ StayClosed(s)
    /\ stream[s].kind # "exit" =>
         \A dir \in copying[s] \ copying'[s] : ~ends'[s][To(dir)].open
StreamMoves(s) ==
    /\ Apart(s) /\ stream'[s].kind = stream[s].kind
    /\ Served(s) \/ LetDown(s) \/ RunDown(s)

AtPhase(s, p) == [stream EXCEPT ![s].at = p]
WithSide(s, side, x) == [ends EXCEPT ![s] = [ends[s] EXCEPT ![side] = x]]

LEMMA PhaseMoves ==
    ASSUME ProxyTypeOK, NEW s \in Streams, NEW p, stream' = AtPhase(s, p)
    PROVE  /\ stream'[s].at = p /\ stream'[s].kind = stream[s].kind
           /\ \A t \in Streams : t # s => stream'[t] = stream[t]
<1>1. stream \in [Streams -> [kind : Kinds, at : Phases]]
  BY DEF ProxyTypeOK
<1> QED BY <1>1 DEF AtPhase

LEMMA SideMoves ==
    ASSUME NEW e \in [client : Sides, target : Sides], NEW side \in {"client", "target"},
           NEW x \in Sides, NEW f, f = [e EXCEPT ![side] = x]
    PROVE  /\ f \in [client : Sides, target : Sides] /\ f[side] = x
           /\ \A o \in {"client", "target"} : o # side => f[o] = e[o]
<1>1. CASE side = "client"
  BY <1>1
<1>2. CASE side = "target"
  BY <1>2
<1> QED BY <1>1, <1>2

\* One of the two sides becomes x.
LEMMA EndsMove ==
    ASSUME ProxyTypeOK, NEW s \in Streams, NEW side \in {"client", "target"}, NEW x \in Sides,
           ends' = WithSide(s, side, x)
    PROVE  /\ ends'[s][side] = x
           /\ \A o \in {"client", "target"} : o # side => ends'[s][o] = ends[s][o]
           /\ \A t \in Streams : t # s => ends'[t] = ends[t]
<1>1. ends \in [Streams -> [client : Sides, target : Sides]]
  BY DEF ProxyTypeOK
<1>2. PICK f : f = [ends[s] EXCEPT ![side] = x]
  OBVIOUS
<1>3. f[side] = x /\ \A o \in {"client", "target"} : o # side => f[o] = ends[s][o]
  BY <1>1, <1>2, SideMoves
<1>4. ends' = [ends EXCEPT ![s] = f]
  BY <1>2 DEF WithSide
<1>5. ends'[s] = f /\ \A t \in Streams : t # s => ends'[t] = ends[t]
  BY <1>1, <1>4
<1> QED BY <1>3, <1>5

\* One connection is closed, or may be.
LEMMA ConnectionCloses ==
    ASSUME ProxyTypeOK, NEW s \in Streams, NEW side \in {"client", "target"},
           NEW b \in {FALSE, ends[s][side].open}, ends' = [ends EXCEPT ![s][side].open = b]
    PROVE  /\ StayClosed(s) /\ ends'[s][side].open = b
           /\ \A t \in Streams : t # s => ends'[t] = ends[t]
<1>1. ends[s] \in [client : Sides, target : Sides]
  BY DEF ProxyTypeOK
<1>2. ends[s][side] \in Sides
  BY <1>1
<1>3. PICK x : x = [ends[s][side] EXCEPT !.open = b]
  OBVIOUS
<1>4. x \in Sides /\ x.open = b
  BY <1>2, <1>3 DEF Sides
<1>5. ends' = WithSide(s, side, x)
  BY <1>3 DEF WithSide
<1>6. /\ ends'[s][side] = x
      /\ \A o \in {"client", "target"} : o # side => ends'[s][o] = ends[s][o]
      /\ \A t \in Streams : t # s => ends'[t] = ends[t]
  BY <1>4, <1>5, EndsMove
<1> QED BY <1>4, <1>6 DEF StayClosed

LEMMA CarrierReturns ==
    ASSUME ProxyTypeOK, NEW s \in Streams, LetGo(s)
    PROVE  /\ Apart(s) /\ StayClosed(s) /\ copying' = copying
           /\ stream'[s].at = "over" /\ stream'[s].kind = stream[s].kind
<1>1. ends \in [Streams -> [client : Sides, target : Sides]]
  BY DEF ProxyTypeOK
<1>2. PICK c \in BOOLEAN : /\ c \in {FALSE, ends[s].client.open}
                           /\ c = IF stream[s].kind = "proxy" THEN FALSE ELSE ends[s].client.open
  BY <1>1 DEF Sides
<1>3. PICK x : x = [ends[s].target EXCEPT !.open = FALSE]
  OBVIOUS
<1>4. PICK y : y = [ends[s].client EXCEPT !.open = c]
  OBVIOUS
<1>5. x \in Sides /\ y \in Sides /\ x.open = FALSE /\ y.open = c
  BY <1>1, <1>2, <1>3, <1>4 DEF Sides
<1>6. PICK g : g = [ends[s] EXCEPT !.target = x]
  OBVIOUS
<1>7. /\ ends'[s].client = y /\ ends'[s].target = x
      /\ \A t \in Streams : t # s => ends'[t] = ends[t]
  <2>1. g.client = ends[s].client /\ g.target = x /\ DOMAIN g = {"client", "target"}
    BY <1>1, <1>6
  <2>2. ends' = [ends EXCEPT ![s] = [g EXCEPT !.client = y]]
    BY <1>1, <1>2, <1>3, <1>4, <1>6, <2>1 DEF LetGo, Over
  <2>3. PICK h : h = [g EXCEPT !.client = y]
    OBVIOUS
  <2>4. h.client = y /\ h.target = x
    BY <2>1, <2>3
  <2> QED BY <1>1, <2>2, <2>3, <2>4
<1>8. StayClosed(s)
  BY <1>2, <1>5, <1>7 DEF StayClosed
<1>9. /\ stream'[s].at = "over" /\ stream'[s].kind = stream[s].kind
      /\ \A t \in Streams : t # s => stream'[t] = stream[t]
  BY PhaseMoves DEF LetGo, Over, AtPhase
<1> QED BY <1>7, <1>8, <1>9 DEF LetGo, Apart

LEMMA CopyingStarts ==
    ASSUME ProxyTypeOK, NEW s \in Streams, StartCopying(s)
    PROVE  /\ Apart(s) /\ copying'[s] = {"up", "down"}
           /\ stream'[s].kind = stream[s].kind
<1>1. copying \in [Streams -> SUBSET {"up", "down"}]
  BY DEF ProxyTypeOK
<1>2. /\ copying'[s] = {"up", "down"} /\ ends' = ends
      /\ \A t \in Streams : t # s => copying'[t] = copying[t]
  BY <1>1 DEF StartCopying
<1>3. /\ stream'[s].kind = stream[s].kind
      /\ \A t \in Streams : t # s => stream'[t] = stream[t]
  BY PhaseMoves DEF StartCopying, AtPhase
<1> QED BY <1>2, <1>3 DEF Apart

\* Every step serves a stream, lets it down or runs it down, or touches none.
LEMMA EveryStreamMoves ==
    ASSUME ProxyTypeOK, [ProxyNext]_proxyVars
    PROVE  UNCHANGED <<stream, ends, copying>> \/ \E s \in Streams : StreamMoves(s)
<1>1. ASSUME NEW s \in Streams, NEW p, stream' = AtPhase(s, p), p # "carried",
             stream[s].at \notin {"carried", "over"}, UNCHANGED <<ends, copying>>
      PROVE  StreamMoves(s)
  <2>1. /\ stream'[s].at = p /\ stream'[s].kind = stream[s].kind
        /\ \A t \in Streams : t # s => stream'[t] = stream[t]
    BY <1>1, PhaseMoves
  <2> QED BY <1>1, <2>1 DEF StreamMoves, Apart, Served
<1>2. ASSUME NEW s \in Streams, LetGo(s), stream[s].at # "over" PROVE StreamMoves(s)
  BY <1>2, CarrierReturns DEF StreamMoves, Served, LetDown
<1>3. ASSUME NEW s \in Streams, StartCopying(s), stream[s].at \notin {"carried", "over"}
      PROVE  StreamMoves(s)
  BY <1>3, CopyingStarts DEF StreamMoves, Served
<1>4. ASSUME NEW s \in Streams, Accept(s) PROVE StreamMoves(s)
  <2>1. /\ stream' = AtPhase(s, "accepted") /\ stream[s].at = "new"
        /\ UNCHANGED <<ends, copying>>
    BY <1>4 DEF Accept, AtPhase
  <2> QED BY <1>1, <2>1
<1>5. ASSUME NEW s \in Streams, HandleConnection(s) PROVE StreamMoves(s)
  <2>1. ASSUME NEW h \in {"socks5", "http"}, stream' = [stream EXCEPT ![s].at = h],
               UNCHANGED <<ends, copying>>
        PROVE  StreamMoves(s)
    <3>1. stream' = AtPhase(s, h) /\ h # "carried" /\ stream[s].at = "accepted"
      BY <1>5, <2>1 DEF HandleConnection, AtPhase
    <3> QED BY <1>1, <2>1, <3>1
  <2> QED BY <1>2, <1>5, <2>1 DEF HandleConnection
<1>6. ASSUME NEW s \in Streams,
             \/ HandleSOCKS5(s) \/ HandleHTTPProxy(s) \/ ForwardToInternet(s)
             \/ ForwardToDevice(s) \/ Return(s)
      PROVE  StreamMoves(s)
  <2>1. stream[s].at # "over" /\ (LetGo(s) \/ (StartCopying(s) /\ stream[s].at # "carried"))
    <3>1. CASE HandleSOCKS5(s) \/ HandleHTTPProxy(s) \/ Return(s)
      BY <3>1 DEF HandleSOCKS5, HandleHTTPProxy, Return
    <3>2. CASE ForwardToInternet(s) \/ ForwardToDevice(s)
      <4>1. stream[s].at = "new" /\ StartCopying(s)
        BY <3>2 DEF ForwardToInternet, ForwardToDevice
      <4> QED BY <4>1
    <3> QED BY <1>6, <3>1, <3>2
  <2> QED BY <1>2, <1>3, <2>1
<1>7. ASSUME NEW s \in Streams, NEW dir \in {"up", "down"}, CopyEnds(s, dir)
      PROVE  StreamMoves(s)
  <2>1. /\ copying'[s] = copying[s] \ {dir}
        /\ \A t \in Streams : t # s => copying'[t] = copying[t]
    BY <1>7 DEF CopyEnds, ProxyTypeOK
  <2>2. PICK side \in {"client", "target"} : side = To(dir)
    BY DEF To
  <2>3. PICK b \in {FALSE, ends[s][side].open} :
          /\ ends' = [ends EXCEPT ![s][side].open = b] /\ (stream[s].kind # "exit" => ~b)
    <3>1. ends[s][side].open \in BOOLEAN
      BY DEF ProxyTypeOK, Sides
    <3> QED BY <1>7, <2>2, <3>1 DEF CopyEnds
  <2>4. /\ StayClosed(s) /\ ends'[s][side].open = b
        /\ \A t \in Streams : t # s => ends'[t] = ends[t]
    BY <2>3, ConnectionCloses
  <2>5. stream' = stream
    BY <1>7 DEF CopyEnds
  <2>6. RunDown(s)
    BY <2>1, <2>2, <2>3, <2>4, <2>5 DEF RunDown
  <2> QED BY <2>1, <2>4, <2>5, <2>6 DEF StreamMoves, Apart
<1>8. ASSUME NEW s \in Streams, NEW side \in {"client", "target"}, DoneSending(s, side)
      PROVE  StreamMoves(s)
  <2>1. ends[s] \in [client : Sides, target : Sides] /\ ends[s][side] \in Sides
    BY DEF ProxyTypeOK
  <2>2. PICK x : x = [ends[s][side] EXCEPT !.sends = FALSE]
    OBVIOUS
  <2>3. x \in Sides /\ x.open = ends[s][side].open
    BY <2>1, <2>2 DEF Sides
  <2>4. ends' = WithSide(s, side, x)
    BY <1>8, <2>2 DEF DoneSending, WithSide
  <2>5. /\ ends'[s][side] = x
        /\ \A o \in {"client", "target"} : o # side => ends'[s][o] = ends[s][o]
        /\ \A t \in Streams : t # s => ends'[t] = ends[t]
    BY <2>3, <2>4, EndsMove
  <2> QED BY <1>8, <2>3, <2>5 DEF DoneSending, StreamMoves, Apart, RunDown, StayClosed
<1>9. ASSUME NEW s \in Streams, NEW side \in {"client", "target"}, GoAway(s, side)
      PROVE  StreamMoves(s)
  <2>1. /\ StayClosed(s) /\ \A t \in Streams : t # s => ends'[t] = ends[t]
    BY <1>9, ConnectionCloses DEF GoAway
  <2> QED BY <1>9, <2>1 DEF GoAway, StreamMoves, Apart, RunDown
<1>10. Start \/ Stop \/ AcceptorEnds \/ UNCHANGED proxyVars => UNCHANGED <<stream, ends, copying>>
  BY DEF Start, Stop, AcceptorEnds, Connections, proxyVars
<1> QED BY <1>4, <1>5, <1>6, <1>7, <1>8, <1>9, <1>10 DEF ProxyNext

LEMMA HandedOverStep == ProxyTypeOK /\ HandedOver /\ [ProxyNext]_proxyVars => HandedOver'
<1> SUFFICES ASSUME ProxyTypeOK, HandedOver, [ProxyNext]_proxyVars PROVE HandedOver'
  OBVIOUS
<1>1. CASE UNCHANGED <<stream, ends, copying>>
  BY <1>1 DEF HandedOver
<1>2. ASSUME NEW s \in Streams, StreamMoves(s) PROVE HandedOver'
  <2>1. ASSUME NEW t \in Streams, stream'[t].at = "carried", stream'[t].kind # "exit",
               NEW dir \in {"up", "down"} \ copying'[t]
        PROVE  ~ends'[t][To(dir)].open
    <3>1. To(dir) \in {"client", "target"}
      BY DEF To
    <3>2. CASE t # s
      BY <1>2, <2>1, <3>2 DEF StreamMoves, Apart, HandedOver
    <3>3. CASE t = s
      BY <1>2, <2>1, <3>1, <3>3 DEF StreamMoves, Served, LetDown, RunDown, StayClosed, HandedOver
    <3> QED BY <3>2, <3>3
  <2> QED BY <2>1 DEF HandedOver
<1> QED BY <1>1, <1>2, EveryStreamMoves

LEMMA HandedOverHolds == ServicesSpec => []HandedOver
<1>1. ServicesInit => HandedOver
  BY DEF ServicesInit, ProxyInit, HandedOver
<1>2. ServicesTypeOK /\ HandedOver /\ [ServicesNext]_servicesVars => HandedOver'
  BY HandedOverStep, EveryStepIsOfAService DEF ServicesTypeOK
<1> HIDE DEF ServicesTypeOK, HandedOver
<1> QED BY <1>1, <1>2, ServicesTypes, PTL DEF ServicesSpec

\* Closing the router goes on to the end once it has begun, and after it the reader is stopped by
\* whatever it does next: both flags are set and both channels closed (tun_router.go:163-171).
CloseIsOnItsWay ==
    ~routing => /\ closer # "none"
                /\ closer = "done" => cancelled /\ closedFlag /\ closedChans = Channels

\* How many steps the reader has left at most once the router is closed.
StepsLeft == [ended |-> 0, check |-> 1, pause |-> 2, wait |-> 3, enter |-> 3]

\* Every step of the reader of a closed router brings it nearer to its end
\* (tun_router.go:80-103).
ReaderGoesHome ==
    [][closer = "done" => reader' = reader \/ StepsLeft[reader'] < StepsLeft[reader]]_tunVars

\* What Close of the router has done by the time it has come so far.
CloserInv ==
    /\ ~routing => closer # "none"
    /\ closer \in {"flag", "inbound", "outbound", "done"} => cancelled
    /\ closer \in {"inbound", "outbound", "done"} => closedFlag
    /\ closer = "done" => closedChans = Channels

LEMMA CloserStep == CloserInv /\ [TunNext]_tunVars => CloserInv'
<1> SUFFICES ASSUME CloserInv, [TunNext]_tunVars PROVE CloserInv'
  OBVIOUS
<1>1. UNCHANGED <<routing, cancelled, closedFlag, closedChans, closer>> => CloserInv'
  BY DEF CloserInv
<1>2. CASE Reading \/ Consume \/ UNCHANGED tunVars \/ \E w \in Writers : FindOpen(w) \/ Send(w)
  <2>1. UNCHANGED <<routing, cancelled, closedFlag, closedChans, closer>>
    BY <1>2 DEF Reading, CheckContext, EnterRead, ReadPacket, Pause, Consume, FindOpen, Send,
                tunVars
  <2> QED BY <1>1, <2>1
<1>3. CASE BeginClose
  BY <1>3 DEF BeginClose, CloserInv
<1>4. CASE Closing
  BY <1>4 DEF Closing, CloseAdapter, CloserInv
<1> QED BY <1>2, <1>3, <1>4 DEF TunNext

LEMMA CloserHolds == ServicesSpec => []CloserInv
<1>1. ServicesInit => CloserInv
  BY DEF ServicesInit, TunInit, CloserInv
<1>2. CloserInv /\ [ServicesNext]_servicesVars => CloserInv'
  BY CloserStep, EveryStepIsOfAService
<1> HIDE DEF CloserInv
<1> QED BY <1>1, <1>2, PTL DEF ServicesSpec

LEMMA ReaderMoves ==
    ASSUME CloserInv, [TunNext]_tunVars, closer = "done"
    PROVE  reader' = reader \/ StepsLeft[reader'] < StepsLeft[reader]
<1>1. cancelled /\ closedFlag
  BY DEF CloserInv
<1>2. CASE Reading
  <2>1. \/ reader = "check" /\ reader' = "ended"
        \/ reader = "enter" /\ reader' = "pause"
        \/ reader = "wait" /\ reader' \in {"check", "pause"}
        \/ reader = "pause" /\ reader' = "check"
    BY <1>1, <1>2 DEF Reading, CheckContext, EnterRead, ReadPacket, Pause
  <2> QED BY <2>1 DEF StepsLeft
<1>3. CASE \/ BeginClose \/ Closing \/ Consume \/ UNCHANGED tunVars
           \/ \E w \in Writers : FindOpen(w) \/ Send(w)
  BY <1>3 DEF BeginClose, Closing, Consume, FindOpen, Send, tunVars
<1> QED BY <1>2, <1>3 DEF TunNext

\* A probe that is off, once the call that has switched it off is through, has no loop that waits
\* for a channel that is open, and a loop that is busy has an audit that will end
\* (network_probe.go:81-96, 233-247).
LoopsAreReleased ==
    ~probing =>
      /\ switching # "on"
      /\ switching = "no" =>
           \A l \in DOMAIN loop : loop[l].at = "waiting" => loop[l].on \in closed
      /\ \A l \in DOMAIN loop : loop[l].at = "busy" => \E a \in audits : a.by = l

\* A loop that has ended does not come back, and a probe that is off begins none.
LoopsStayEnded ==
    [][/\ ~probing => DOMAIN loop' = DOMAIN loop
       /\ \A l \in DOMAIN loop :
            l \in DOMAIN loop' /\ (loop[l].at = "ended" => loop'[l].at = "ended")]_probeVars

\* Only the last channel can be open, and only while the probe is on or being switched off; loops
\* wait for a channel that was made; and a loop is busy with one audit.
ChannelsInv ==
    /\ switching = "on" => probing
    /\ \A c \in 1 .. channel :
         c \in closed \/ (c = channel /\ (switching = "off" \/ (switching = "no" /\ probing)))
    /\ DOMAIN loop \subseteq 1 .. channel
    /\ \A l \in DOMAIN loop : loop[l].at = "waiting" => loop[l].on \in 1 .. channel
AuditsInv ==
    /\ \A l \in DOMAIN loop : loop[l].at = "busy" => \E a \in audits : a.by = l
    /\ \A a \in audits : a.by # Nobody => a.by \in DOMAIN loop /\ loop[a.by].at = "busy"
    /\ \A a, b \in audits : a.by = b.by => a = b \/ a.by = Nobody

\* One loop is somewhere else, and no longer or not yet busy.
LEMMA LoopMoves ==
    ASSUME ProbeTypeOK, ChannelsInv, NEW l \in DOMAIN loop,
           NEW r \in [at : {"awake", "waiting", "busy", "ended"}, on : 0 .. channel],
           r.at = "waiting" => r.on \in 1 .. channel,
           loop' = [loop EXCEPT ![l] = r], UNCHANGED <<probing, switching, channel, closed>>
    PROVE  /\ ChannelsInv' /\ DOMAIN loop' = DOMAIN loop /\ loop'[l] = r
           /\ \A k \in DOMAIN loop : k # l => loop'[k] = loop[k]
           /\ (loop[l].at # "busy" /\ r.at # "busy" /\ audits' = audits /\ AuditsInv) => AuditsInv'
<1>1. /\ DOMAIN loop' = DOMAIN loop /\ loop'[l] = r
      /\ \A k \in DOMAIN loop : k # l => loop'[k] = loop[k]
  OBVIOUS
<1>2. ChannelsInv'
  BY <1>1 DEF ChannelsInv
<1>3. ASSUME loop[l].at # "busy", r.at # "busy", audits' = audits, AuditsInv PROVE AuditsInv'
  BY <1>1, <1>3 DEF AuditsInv
<1> QED BY <1>1, <1>2, <1>3

LEMMA ChannelsStep ==
    ProbeTypeOK /\ ChannelsInv /\ AuditsInv /\ [ProbeNext]_probeVars
      => /\ ChannelsInv' /\ AuditsInv'
         /\ ~probing => DOMAIN loop' = DOMAIN loop
         /\ \A l \in DOMAIN loop :
              l \in DOMAIN loop' /\ (loop[l].at = "ended" => loop'[l].at = "ended")
<1> DEFINE LoopsStay == /\ ~probing => DOMAIN loop' = DOMAIN loop
                        /\ \A l \in DOMAIN loop :
                             l \in DOMAIN loop' /\ (loop[l].at = "ended" => loop'[l].at = "ended")
           Goal == ChannelsInv' /\ AuditsInv' /\ LoopsStay
<1> SUFFICES ASSUME ProbeTypeOK, ChannelsInv, AuditsInv, [ProbeNext]_probeVars PROVE Goal
  OBVIOUS
<1>0. /\ channel \in Nat /\ closed \subseteq 1 .. channel
      /\ DOMAIN loop \subseteq Loops /\ DOMAIN loop \subseteq 1 .. channel
      /\ \A l \in DOMAIN loop :
           loop[l] \in [at : {"awake", "waiting", "busy", "ended"}, on : 0 .. channel]
      /\ \A l \in DOMAIN loop : l # Nobody
  BY ProbeAssumption DEF ProbeAssumption, ProbeTypeOK, ChannelsInv, Loops, Nobody
<1>1. ASSUME UNCHANGED <<loop, audits>> PROVE AuditsInv' /\ LoopsStay
  BY <1>1 DEF AuditsInv
<1>2. ASSUME NEW wanted \in BOOLEAN, SetActive(wanted) PROVE Goal
  <2>1. ChannelsInv'
    BY <1>2 DEF SetActive, ChannelsInv
  <2> QED BY <1>1, <1>2, <2>1 DEF SetActive
<1>3. CASE CloseChannel
  <2>1. ChannelsInv'
    BY <1>3 DEF CloseChannel, ChannelsInv
  <2> QED BY <1>1, <1>3, <2>1 DEF CloseChannel
<1>4. ASSUME NEW f \in SUBSET Incidents, OpenChannel(f) PROVE Goal
  <2>1. PICK c \in Nat : c = channel + 1
    BY <1>0
  <2>2. c \notin DOMAIN loop /\ \A d \in 1 .. c : d = c \/ d \in 1 .. channel
    BY <1>0, <2>1
  <2>3. /\ channel' = c /\ switching' = "no" /\ probing' = probing /\ closed' = closed
        /\ DOMAIN loop' = DOMAIN loop \cup {c} /\ loop'[c] = [at |-> "awake", on |-> 0]
        /\ \A k \in DOMAIN loop : loop'[k] = loop[k]
        /\ audits' = audits \cup {[by |-> Nobody, found |-> f]}
    BY <1>4, <2>1, <2>2 DEF OpenChannel
  <2>4. probing /\ \A d \in 1 .. channel : d \in closed
    BY <1>4 DEF OpenChannel, ChannelsInv
  <2>5. \A d \in 1 .. channel : d \in 1 .. c
    BY <1>0, <2>1
  <2>6. c \in 1 .. c
    BY <1>0, <2>1
  <2>7. ChannelsInv'
    BY <1>0, <2>2, <2>3, <2>4, <2>5, <2>6 DEF ChannelsInv
  <2>8. AuditsInv'
    BY <2>2, <2>3 DEF AuditsInv
  <2> QED BY <2>3, <2>4, <2>7, <2>8
<1>5. ASSUME NEW l \in DOMAIN loop, Await(l) PROVE Goal
  <2>1. channel \in 1 .. channel
    BY <1>0
  <2>2. PICK r : r = [at |-> "waiting", on |-> channel]
    OBVIOUS
  <2>3. r \in [at : {"awake", "waiting", "busy", "ended"}, on : 0 .. channel]
        /\ r.on \in 1 .. channel /\ r.at = "waiting"
    BY <1>0, <2>1, <2>2
  <2>4. loop' = [loop EXCEPT ![l] = r] /\ loop[l].at = "awake"
    BY <1>5, <2>2 DEF Await
  <2>5. UNCHANGED <<probing, switching, channel, closed, audits>>
    BY <1>5 DEF Await
  <2> QED BY <2>3, <2>4, <2>5, LoopMoves
<1>6. ASSUME NEW l \in DOMAIN loop, NEW at \in {"awake", "ended"}, loop[l].at = "waiting",
             loop' = [loop EXCEPT ![l].at = at],
             UNCHANGED <<probing, switching, channel, closed, audits>>
      PROVE  Goal
  <2>1. PICK r : r = [loop[l] EXCEPT !.at = at]
    OBVIOUS
  <2>2. r \in [at : {"awake", "waiting", "busy", "ended"}, on : 0 .. channel] /\ r.at = at
    BY <1>0, <2>1
  <2>3. loop' = [loop EXCEPT ![l] = r]
    BY <1>6, <2>1
  <2> QED BY <1>6, <2>2, <2>3, LoopMoves
<1>7. ASSUME NEW l \in DOMAIN loop, NEW f \in SUBSET Incidents, Awaken(l, f), probing PROVE Goal
  <2>1. PICK r : r = [loop[l] EXCEPT !.at = "busy"]
    OBVIOUS
  <2>2. r \in [at : {"awake", "waiting", "busy", "ended"}, on : 0 .. channel] /\ r.at = "busy"
    BY <1>0, <2>1
  <2>3. loop' = [loop EXCEPT ![l] = r] /\ loop[l].at = "waiting"
    BY <1>7, <2>1 DEF Awaken
  <2>4. UNCHANGED <<probing, switching, channel, closed>>
    BY <1>7 DEF Awaken
  <2>5. /\ ChannelsInv' /\ DOMAIN loop' = DOMAIN loop /\ loop'[l] = r
        /\ \A k \in DOMAIN loop : k # l => loop'[k] = loop[k]
    BY <2>2, <2>3, <2>4, LoopMoves
  <2>6. PICK e : e = [by |-> l, found |-> f]
    OBVIOUS
  <2>7. audits' = audits \cup {e} /\ e.by = l
    BY <1>7, <2>6 DEF Awaken
  <2>8. \A a \in audits : a.by # l
    BY <1>0, <2>3 DEF AuditsInv
  <2>9. AuditsInv'
    BY <1>0, <2>2, <2>5, <2>7, <2>8 DEF AuditsInv
  <2> QED BY <2>3, <2>5, <2>9
<1>8. ASSUME NEW l \in DOMAIN loop, NEW f \in SUBSET Incidents, Awaken(l, f), ~probing PROVE Goal
  BY <1>6, <1>8 DEF Awaken
<1>9. ASSUME NEW l \in DOMAIN loop, EndLoop(l) PROVE Goal
  BY <1>6, <1>9 DEF EndLoop
<1>10. ASSUME NEW f \in SUBSET Incidents, RunAudit(f) PROVE Goal
  <2>1. ChannelsInv' /\ LoopsStay
    BY <1>10 DEF RunAudit, ChannelsInv
  <2>2. PICK e : e = [by |-> Nobody, found |-> f]
    OBVIOUS
  <2>3. audits' = audits \cup {e} /\ e.by = Nobody /\ loop' = loop
    BY <1>10, <2>2 DEF RunAudit
  <2>4. AuditsInv'
    BY <2>3 DEF AuditsInv
  <2> QED BY <2>1, <2>4
<1>11. ASSUME NEW a \in audits, EndAudit(a) PROVE Goal
  <2>1. UNCHANGED <<probing, switching, channel, closed>> /\ audits' = audits \ {a}
    BY <1>11 DEF EndAudit
  <2>2. CASE a.by = Nobody
    <3>1. loop' = loop
      BY <1>11, <2>2 DEF EndAudit
    <3>2. ChannelsInv'
      BY <2>1, <3>1 DEF ChannelsInv
    <3>3. AuditsInv'
      BY <1>0, <2>1, <2>2, <3>1 DEF AuditsInv
    <3> QED BY <3>1, <3>2, <3>3
  <2>3. CASE a.by # Nobody
    <3>1. PICK l \in DOMAIN loop : l = a.by /\ loop[l].at = "busy"
      BY <2>3 DEF AuditsInv
    <3>2. PICK r : r = [loop[l] EXCEPT !.at = "awake"]
      OBVIOUS
    <3>3. r \in [at : {"awake", "waiting", "busy", "ended"}, on : 0 .. channel] /\ r.at = "awake"
      BY <1>0, <3>2
    <3>4. loop' = [loop EXCEPT ![l] = r]
      BY <1>11, <2>3, <3>1, <3>2 DEF EndAudit
    <3>5. /\ ChannelsInv' /\ DOMAIN loop' = DOMAIN loop /\ loop'[l] = r
          /\ \A k \in DOMAIN loop : k # l => loop'[k] = loop[k]
      BY <2>1, <3>3, <3>4, LoopMoves
    <3>6. \A b \in audits : b.by = l => b = a
      BY <2>3, <3>1 DEF AuditsInv
    <3>7. AuditsInv'
      BY <2>1, <3>1, <3>3, <3>5, <3>6 DEF AuditsInv
    <3> QED BY <3>1, <3>5, <3>7
  <2> QED BY <2>2, <2>3
<1>12. CASE UNCHANGED probeVars
  <2>1. ChannelsInv'
    BY <1>12 DEF probeVars, ChannelsInv
  <2> QED BY <1>1, <1>12, <2>1 DEF probeVars
<1> HIDE DEF Goal
<1>13. Goal
  BY <1>2, <1>3, <1>4, <1>5, <1>7, <1>8, <1>9, <1>10, <1>11, <1>12 DEF ProbeNext
<1> QED BY <1>13

LEMMA ChannelsHold == ServicesSpec => [](ChannelsInv /\ AuditsInv)
<1>1. ServicesInit => ChannelsInv /\ AuditsInv
  BY DEF ServicesInit, ProbeInit, ChannelsInv, AuditsInv
<1>2. ServicesTypeOK /\ ChannelsInv /\ AuditsInv /\ [ServicesNext]_servicesVars
        => ChannelsInv' /\ AuditsInv'
  BY ChannelsStep, EveryStepIsOfAService DEF ServicesTypeOK
<1> HIDE DEF ServicesTypeOK, ChannelsInv, AuditsInv
<1> QED BY <1>1, <1>2, ServicesTypes, PTL DEF ServicesSpec

\* While the padding is off every channel a loop may wait for is closed
\* (sphinx_padding.go:153-193).
PaddingIsReleased ==
    ~padding =>
      \A l \in DOMAIN padLoop : padLoop[l].at = "waiting" => padLoop[l].on \in ClosedChannels

\* A padding loop waits for a channel that was made.
PaddingWaits ==
    \A l \in DOMAIN padLoop : padLoop[l].at = "waiting" => padLoop[l].on \in 1 .. padChannels

LEMMA PaddingStep ==
    ASSUME LoopsOfPadding, PaddingWaits, [PaddingNext]_paddingVars
    PROVE  PaddingWaits'
<1>0. /\ padChannels \in Nat /\ padLoop \in Seq(PaddingRecords) /\ Len(padLoop) = padChannels
      /\ DOMAIN padLoop = 1 .. padChannels
      /\ \A l \in DOMAIN padLoop : padLoop[l] \in PaddingRecords
  BY OnionAssumption DEF OnionAssumption, LoopsOfPadding
<1>1. ASSUME NEW l \in DOMAIN padLoop, NEW e, padLoop' = [padLoop EXCEPT ![l] = e],
             e.at = "waiting" => e.on \in 1 .. padChannels, padChannels' = padChannels
      PROVE  PaddingWaits'
  BY <1>1 DEF PaddingWaits
<1>2. CASE StartPadding
  <2>1. PICK c \in Nat : c = padChannels + 1
    BY <1>0
  <2>2. PICK e \in PaddingRecords : e = [at |-> "awake", on |-> 0]
    BY DEF PaddingRecords
  <2>3. padLoop' = Append(padLoop, e) /\ padChannels' = c /\ e.at # "waiting"
    BY <1>2, <2>1, <2>2 DEF StartPadding
  <2>4. /\ DOMAIN padLoop' = 1 .. c /\ padLoop'[c] = e
        /\ \A k \in 1 .. padChannels : padLoop'[k] = padLoop[k]
    BY <1>0, <2>1, <2>3
  <2>5. \A k \in 1 .. c : k = c \/ k \in 1 .. padChannels
    BY <1>0, <2>1
  <2>6. \A k \in 1 .. padChannels : k \in 1 .. c
    BY <1>0, <2>1
  <2> QED BY <1>0, <2>3, <2>4, <2>5, <2>6 DEF PaddingWaits
<1>3. ASSUME NEW l \in DOMAIN padLoop, AwaitGap(l) PROVE PaddingWaits'
  <2>1. PICK e : e = [at |-> "waiting", on |-> padChannels]
    OBVIOUS
  <2>2. e.on \in 1 .. padChannels
    BY <1>0, <2>1
  <2>3. padLoop' = [padLoop EXCEPT ![l] = e] /\ padChannels' = padChannels
    BY <1>3, <2>1 DEF AwaitGap
  <2> QED BY <1>1, <2>2, <2>3
<1>4. ASSUME NEW l \in DOMAIN padLoop, GapOver(l) \/ Sent(l) \/ EndPadding(l) PROVE PaddingWaits'
  <2>1. PICK at \in {"sending", "awake", "ended"} : padLoop' = [padLoop EXCEPT ![l].at = at]
    BY <1>4 DEF GapOver, Sent, EndPadding, GenerateDummyPacket
  <2>2. PICK e : e = [padLoop[l] EXCEPT !.at = at]
    OBVIOUS
  <2>3. e.at = at
    BY <1>0, <2>2 DEF PaddingRecords
  <2>4. padLoop' = [padLoop EXCEPT ![l] = e] /\ padChannels' = padChannels
    BY <1>4, <2>1, <2>2 DEF GapOver, Sent, EndPadding
  <2> QED BY <1>1, <2>3, <2>4
<1>5. CASE StopPadding \/ UNCHANGED paddingVars
  BY <1>5 DEF StopPadding, paddingVars, PaddingWaits
<1> QED BY <1>2, <1>3, <1>4, <1>5 DEF PaddingNext

LEMMA PaddingHolds == ServicesSpec => []PaddingWaits
<1>1. ServicesInit => PaddingWaits
  BY DEF ServicesInit, OnionInit, PaddingWaits
<1>2. LoopsOfPadding /\ PaddingWaits /\ [ServicesNext]_servicesVars => PaddingWaits'
  BY PaddingStep, EveryStepIsOfAService
<1> HIDE DEF LoopsOfPadding, PaddingWaits, TunTypeOK, GuardTypeOK, EgressTypeOK, AnchorTypeOK,
             AdapterInv, SuccessesAreCounted, SwitchHolds, LoopsHold
<1> QED BY <1>1, <1>2, SimpleTypesHold, PTL DEF ServicesSpec

\* Once the adapter is being closed, or is, no call is admitted to it any more and the closing is
\* not taken back (i7_adapter.go:57-97, 114-124).
NobodyComesIn ==
    [][closing \/ adapterClosed =>
         /\ writing' \subseteq writing /\ (closing' \/ adapterClosed')
         /\ \A r \in Receivers : receive[r] = "idle" => receive'[r] = "idle"]_adapterVars

LEMMA AdapterMoves ==
    ASSUME AdapterTypeOK, [AdapterNext]_adapterVars, closing \/ adapterClosed
    PROVE  /\ writing' \subseteq writing /\ (closing' \/ adapterClosed')
           /\ \A r \in Receivers : receive[r] = "idle" => receive'[r] = "idle"
<1>0. receive \in [Receivers -> {"idle", "admitted", "reading"}]
  BY DEF AdapterTypeOK
<1>1. ASSUME NEW c \in Containers, BeginSend(c) \/ EndSend(c) \/ LoseFrame(c)
      PROVE  receive' = receive /\ writing' \subseteq writing /\ (closing' \/ adapterClosed')
  BY <1>1 DEF BeginSend, EndSend, LoseFrame
<1>2. ASSUME NEW r \in Receivers, NEW at \in {"reading", "idle"}, receive[r] # "idle",
             receive' = [receive EXCEPT ![r] = at]
      PROVE  \A q \in Receivers : receive[q] = "idle" => receive'[q] = "idle"
  BY <1>0, <1>2
<1>3. ASSUME NEW r \in Receivers,
             \/ BeginReceive(r) \/ ReadFails(r) \/ \E timed \in BOOLEAN : SetDeadline(r, timed)
             \/ \E c \in Containers : ReadFrame(r, c)
      PROVE  /\ UNCHANGED <<writing, closing, adapterClosed>>
             /\ receive[r] # "idle"
             /\ \E at \in {"reading", "idle"} : receive' = [receive EXCEPT ![r] = at]
  BY <1>3 DEF BeginReceive, ReadFails, SetDeadline, ReadFrame
<1>4. CASE AskToClose \/ CloseSocket \/ UNCHANGED adapterVars
  BY <1>4 DEF AskToClose, CloseSocket, adapterVars
<1> QED BY <1>1, <1>2, <1>3, <1>4 DEF AdapterNext

\* Nobody is left waiting by who has gone: a stream that lost a side has a copy that fails or none
\* left, a router that is off is being closed or is, and the loops of a probe and of a padding that
\* are off wait for channels that are closed (socks5_gateway.go:267-281, tun_router.go:163-171,
\* network_probe.go:81-96, sphinx_padding.go:153-193).
NobodyIsStranded ==
    StreamsHandOver /\ CloseIsOnItsWay /\ LoopsAreReleased /\ PaddingIsReleased

\* No step leads away from an end: copies are not begun again and no connection is reopened, the
\* reader of a closed router has fewer steps left after each, a loop that has ended does not come
\* back, and an adapter that is being closed admits nobody (socks5_gateway.go:267-281,
\* tun_router.go:80-103, network_probe.go:81-96, i7_adapter.go:57-124).
EndsComeNearer == StreamsGoOn /\ ReaderGoesHome /\ LoopsStayEnded /\ NobodyComesIn

LEMMA HandedOverReleases == ASSUME ProxyTypeOK, HandedOver PROVE StreamsHandOver
<1> SUFFICES ASSUME NEW s \in Streams, stream[s].kind # "exit", stream[s].at = "carried",
                    NEW side \in {"client", "target"}, ~ends[s][side].open, copying[s] # {}
             PROVE  \E dir \in copying[s] : Ended(ends[s][From(dir)])
  BY DEF StreamsHandOver
<1>1. copying[s] \subseteq {"up", "down"}
  BY DEF ProxyTypeOK
<1>2. PICK from \in {"up", "down"}, other \in {"up", "down"} :
         From(from) = side /\ To(from) = From(other) /\ To(other) = side /\ from # other
  <2>1. CASE side = "client"
    BY <2>1 DEF From, To
  <2>2. CASE side = "target"
    BY <2>2 DEF From, To
  <2> QED BY <2>1, <2>2
<1>3. CASE from \in copying[s]
  BY <1>2, <1>3 DEF Ended
<1>4. CASE from \notin copying[s]
  <2>1. other \in copying[s] /\ ~ends[s][To(from)].open
    BY <1>1, <1>2, <1>4 DEF HandedOver
  <2> QED BY <1>2, <2>1 DEF Ended
<1> QED BY <1>3, <1>4

LEMMA LoopsWaitForTheClosed == ASSUME ChannelsInv, AuditsInv PROVE LoopsAreReleased
  BY DEF ChannelsInv, AuditsInv, LoopsAreReleased

\* The safety half of what EverythingEnds asks: in every state whoever must act for an end can.
THEOREM NobodyStaysBehind == ServicesSpec => []NobodyIsStranded
<1>1. ServicesTypeOK /\ HandedOver => StreamsHandOver
  BY HandedOverReleases DEF ServicesTypeOK
<1>2. CloserInv => CloseIsOnItsWay
  BY DEF CloserInv, CloseIsOnItsWay
<1>3. ChannelsInv /\ AuditsInv => LoopsAreReleased
  BY LoopsWaitForTheClosed
<1>4. PaddingWaits => PaddingIsReleased
  BY DEF PaddingWaits, PaddingIsReleased, ClosedChannels
<1>5. ServicesTypeOK /\ HandedOver /\ CloserInv /\ ChannelsInv /\ AuditsInv /\ PaddingWaits
        => NobodyIsStranded
  BY <1>1, <1>2, <1>3, <1>4 DEF NobodyIsStranded
<1> HIDE DEF ServicesTypeOK, HandedOver, CloserInv, ChannelsInv, AuditsInv, PaddingWaits,
             NobodyIsStranded
<1> QED BY <1>5, ServicesTypes, HandedOverHolds, CloserHolds, ChannelsHold, PaddingHolds, PTL

LEMMA StreamsComeNearer ==
    ASSUME ProxyTypeOK, [ProxyNext]_proxyVars, NEW s \in Streams
    PROVE  /\ stream[s].at = "over" => stream'[s].at = "over"
           /\ stream[s].at = "carried" =>
                /\ stream'[s].at \in {"carried", "over"} /\ copying'[s] \subseteq copying[s]
                /\ StayClosed(s)
<1>1. CASE UNCHANGED <<stream, ends, copying>>
  BY <1>1 DEF StayClosed
<1>2. ASSUME NEW t \in Streams, StreamMoves(t), t # s
      PROVE  UNCHANGED <<stream[s], ends[s], copying[s]>>
  BY <1>2 DEF StreamMoves, Apart
<1>3. CASE StreamMoves(s)
  BY <1>3 DEF StreamMoves, Served, LetDown, RunDown
<1>4. UNCHANGED <<stream[s], ends[s], copying[s]>> => StayClosed(s)
  BY DEF StayClosed
<1> QED BY <1>1, <1>2, <1>3, <1>4, EveryStreamMoves

\* Nothing undoes what has been done for an end, and the reader of a closed router has only so many
\* steps left.
THEOREM EndsAreApproached == ServicesSpec => EndsComeNearer
<1> DEFINE StreamsGo ==
             \A s \in Streams :
               /\ stream[s].at = "over" => stream'[s].at = "over"
               /\ stream[s].at = "carried" =>
                    /\ stream'[s].at \in {"carried", "over"} /\ copying'[s] \subseteq copying[s]
                    /\ \A side \in {"client", "target"} :
                          ~ends[s][side].open => ~ends'[s][side].open
           ReaderGoes == closer = "done" => reader' = reader \/ StepsLeft[reader'] < StepsLeft[reader]
           LoopsGo ==
             /\ ~probing => DOMAIN loop' = DOMAIN loop
             /\ \A l \in DOMAIN loop :
                  l \in DOMAIN loop' /\ (loop[l].at = "ended" => loop'[l].at = "ended")
           AdapterStays ==
             closing \/ adapterClosed =>
               /\ writing' \subseteq writing /\ (closing' \/ adapterClosed')
               /\ \A r \in Receivers : receive[r] = "idle" => receive'[r] = "idle"
<1>1. ServicesTypeOK /\ [ServicesNext]_servicesVars => [StreamsGo]_proxyVars
  BY StreamsComeNearer, EveryStepIsOfAService DEF ServicesTypeOK, StayClosed
<1>2. CloserInv /\ [ServicesNext]_servicesVars => [ReaderGoes]_tunVars
  BY ReaderMoves, EveryStepIsOfAService
<1>3. ServicesTypeOK /\ ChannelsInv /\ AuditsInv /\ [ServicesNext]_servicesVars
        => [LoopsGo]_probeVars
  BY ChannelsStep, EveryStepIsOfAService DEF ServicesTypeOK
<1>4. ServicesTypeOK /\ [ServicesNext]_servicesVars => [AdapterStays]_adapterVars
  BY AdapterMoves, EveryStepIsOfAService DEF ServicesTypeOK
<1> HIDE DEF ServicesTypeOK, CloserInv, ChannelsInv, AuditsInv
<1>5. ServicesSpec => StreamsGoOn
  BY <1>1, ServicesTypes, PTL DEF ServicesSpec, StreamsGoOn
<1>6. ServicesSpec => ReaderGoesHome
  BY <1>2, CloserHolds, PTL DEF ServicesSpec, ReaderGoesHome
<1>7. ServicesSpec => LoopsStayEnded
  BY <1>3, ServicesTypes, ChannelsHold, PTL DEF ServicesSpec, LoopsStayEnded
<1>8. ServicesSpec => NobodyComesIn
  BY <1>4, ServicesTypes, PTL DEF ServicesSpec, NobodyComesIn
<1> QED BY <1>5, <1>6, <1>7, <1>8 DEF EndsComeNearer
==============================================================================
