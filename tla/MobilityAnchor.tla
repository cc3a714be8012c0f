--------------------------- MODULE MobilityAnchor ----------------------------
(* The anchor that keeps where mobile nodes are                                *)
(* (src/src/pkg/l1/mobility_anchor.go).                                        *)
(*                                                                             *)
(* An update is admitted by its sequence number. A large jump of the number    *)
(* needs a signature of the node, and looking at the signature is dear: a      *)
(* ticket of the anchor, a budget per second, or a proof of work must come     *)
(* first. The whole update runs under one lock, so it is one action. Whoever   *)
(* knows the DID can send one; only the node itself can sign, and it signs     *)
(* the number, not the address. Time is counted in seconds, and an epoch of    *)
(* tickets lasts EpochLength of them.                                          *)
EXTENDS Integers, FiniteSets

CONSTANTS
    Mobiles,        \* DIDs
    Places,         \* physical addresses
    MaxSeq,         \* bound of the model: sequence numbers
    MaxJump,        \* jumps that need no proof (1000000 in the code)
    ResyncBudget,   \* signatures looked at in a second without ticket (500)
    ColdBudget,     \* proofs of low difficulty in a second and bucket (100)
    EpochLength,    \* seconds of an epoch (60)
    EpochNames,     \* epochs that can be told apart: one byte in the code
    SyncInterval,   \* seconds between global synchronisations (5)
    AnchorDebt,     \* bound of the model: what is asked of a budget that is used up
    MaxSecond       \* bound of the model

AnchorAssumption ==
    /\ MaxSeq \in Nat /\ MaxJump \in Nat /\ ResyncBudget \in Nat /\ ColdBudget \in Nat
    /\ EpochLength \in Nat \ {0} /\ EpochNames \in Nat \ {0} /\ SyncInterval \in Nat
    /\ AnchorDebt \in Nat /\ MaxSecond \in Nat

ASSUME AnchorAssumption

VARIABLES
    locators,       \* DID -> [addr, lastSeq, ticket]
    second,
    resync,         \* [left, since]: the budget of signatures
    cold,           \* DID -> proofs left in its bucket; a bucket is taken for one DID
    coldSince,
    lastSync,
    signed,         \* (DID, number) pairs the nodes have signed
    unpaid          \* signatures looked at in this second for nothing: history

anchorVars == <<locators, second, resync, cold, coldSince, lastSync, signed, unpaid>>

Numbers == 0 .. MaxSeq

AnchorTypeOK ==
    /\ DOMAIN locators \subseteq Mobiles
    /\ \A d \in DOMAIN locators :
          locators[d] \in [addr : Places, lastSeq : Numbers, ticket : 0 .. EpochNames - 1]
    /\ second \in 0 .. MaxSecond
    /\ resync.left \in Int /\ resync.since \in 0 .. second
    /\ cold \in [Mobiles -> Int] /\ coldSince \in 0 .. second
    /\ lastSync \in -SyncInterval .. second
    /\ signed \subseteq Mobiles \X Numbers /\ unpaid \in Nat

AnchorInit ==
    /\ locators = [d \in {} |-> {}] /\ second = 0
    /\ resync = [left |-> ResyncBudget, since |-> 0]
    /\ cold = [d \in Mobiles |-> ColdBudget] /\ coldSince = 0
    /\ lastSync = -SyncInterval /\ signed = {} /\ unpaid = 0

\* The byte of the epoch that goes into a ticket.
EpochByte(e) == e % EpochNames

Epoch == second \div EpochLength

\* IssueResyncChallenge and ValidateResyncChallenge: the epoch and its neighbours.
Issued == EpochByte(Epoch)
Valid(ticket) == ticket \in {EpochByte(Epoch + EpochNames - 1), EpochByte(Epoch), EpochByte(Epoch + 1)}

\* What comes with an update: a signature of the right length that verifies or not, or none;
\* a ticket of some epoch, a false one, or none; the bits of the proof of work, of which one is
\* too few, and zero is no nonce at all or one that fails the look at its tag.
NoTicket == -1
FalseTicket == -2
Proofs == [sig : {"none", "garbage", "real"}, bits : {0, 1, 8, 12},
           ticket : {NoTicket, FalseTicket} \cup 0 .. EpochNames - 1]

Ticketed(p) == Valid(p.ticket)

\* Both budgets are filled by the first who asks in a new second.
\* Mutant: the second of the last refill is refilled again.
RefilledAnyway == [left |-> ResyncBudget, since |-> second]

Refilled == IF second > resync.since THEN [left |-> ResyncBudget, since |-> second] ELSE resync
ColdRefilled == IF second > coldSince THEN [d \in Mobiles |-> ColdBudget] ELSE cold

\* VerifyColdResyncPoW, called when the budget is used up: eight bits do while the bucket
\* lasts, twelve afterwards.
Worked(d, p) == p.bits >= IF ColdRefilled[d] > 0 THEN 8 ELSE 12

\* verifyResyncSignatureWithTicketAndPoW up to the signature: who gets it looked at, and what
\* that takes from the budgets.
Considered(d, p) ==
    /\ p.sig # "none"
    /\ p.ticket = NoTicket \/ Ticketed(p)
    /\ Ticketed(p) \/ Refilled.left > 0 \/ (p.bits # 0 /\ Worked(d, p))

Spend(d, p) ==
    LET asked == p.sig # "none" /\ p.ticket = NoTicket
        proven == asked /\ Refilled.left <= 0 /\ p.bits # 0
    IN  /\ asked => Refilled.left > -AnchorDebt /\ ColdRefilled[d] > -AnchorDebt
        /\ resync' = IF asked THEN [Refilled EXCEPT !.left = @ - 1] ELSE resync
        /\ cold' = IF proven THEN [ColdRefilled EXCEPT ![d] = @ - 1] ELSE cold
        /\ coldSince' = IF proven THEN second ELSE coldSince
        /\ unpaid' = IF asked /\ Refilled.left > 0 THEN unpaid + 1 ELSE unpaid

Authentic(d, seq, p) == p.sig = "real" /\ <<d, seq>> \in signed

Moved(d, addr, seq) ==
    [e \in DOMAIN locators \cup {d} |->
        IF e # d THEN locators[e]
        ELSE [addr |-> addr, ticket |-> Issued,
              lastSeq |-> IF seq > 0 \/ d \notin DOMAIN locators THEN seq ELSE locators[d].lastSeq]]

LargeJump(d, seq) == locators[d].lastSeq > 0 /\ seq - locators[d].lastSeq > MaxJump

\* The first update of a DID, in order ones and those without a number need no proof.
MoveUnproved(d, addr, seq) ==
    /\ d \in DOMAIN locators /\ seq > 0
          => seq > locators[d].lastSeq /\ ~LargeJump(d, seq)
    /\ locators' = Moved(d, addr, seq)
    /\ UNCHANGED <<second, resync, cold, coldSince, lastSync, signed, unpaid>>

\* A large jump: admitted if its signature is looked at and right.
\* Mutant: a valid ticket stands for the signature.
MoveTicketed(d, addr, seq, p) ==
    /\ d \in DOMAIN locators /\ seq > locators[d].lastSeq /\ LargeJump(d, seq)
    /\ Spend(d, p)
    /\ locators' = IF Considered(d, p) /\ (Ticketed(p) \/ Authentic(d, seq, p))
                   THEN Moved(d, addr, seq) ELSE locators
    /\ UNCHANGED <<second, lastSync, signed>>

MoveProved(d, addr, seq, p) ==
    /\ d \in DOMAIN locators /\ seq > locators[d].lastSeq /\ LargeJump(d, seq)
    /\ Spend(d, p)
    /\ locators' = IF Considered(d, p) /\ Authentic(d, seq, p)
                   THEN Moved(d, addr, seq) ELSE locators
    /\ UNCHANGED <<second, lastSync, signed>>

\* The node signs a number for this anchor; who sees the signature may use it.
Sign(d, seq) ==
    /\ signed' = signed \cup {<<d, seq>>}
    /\ UNCHANGED <<locators, second, resync, cold, coldSince, lastSync, unpaid>>

ShouldPropagateGlobalSync ==
    /\ second - lastSync >= SyncInterval
    /\ lastSync' = second
    /\ UNCHANGED <<locators, second, resync, cold, coldSince, signed, unpaid>>

AnchorTick ==
    /\ second < MaxSecond /\ second' = second + 1 /\ unpaid' = 0
    /\ UNCHANGED <<locators, resync, cold, coldSince, lastSync, signed>>

AnchorNext ==
    \/ \E d \in Mobiles, a \in Places, s \in Numbers :
          MoveUnproved(d, a, s) \/ \E p \in Proofs : MoveProved(d, a, s, p)
    \/ \E d \in Mobiles, s \in Numbers : Sign(d, s)
    \/ ShouldPropagateGlobalSync \/ AnchorTick

(***************************************************************************)
(* Properties.                                                             *)
(***************************************************************************)

\* The number of a binding never falls, and it leaps far only to a number the node itself has
\* signed for this anchor, whatever tickets and proofs of work others collect
\* (mobility_anchor.go:151-163, 186-220).
LeapsAreSigned ==
    [][\A d \in DOMAIN locators :
          /\ locators'[d].lastSeq >= locators[d].lastSeq
          /\ locators[d].lastSeq > 0 /\ locators'[d].lastSeq > locators[d].lastSeq + MaxJump
                => <<d, locators'[d].lastSeq>> \in signed]_anchorVars

\* In no second are more signatures looked at for nothing than the budget allows (199-205).
ResyncBudgetHolds == unpaid <= ResyncBudget
==============================================================================
