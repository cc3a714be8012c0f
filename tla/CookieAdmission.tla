--------------------------- MODULE CookieAdmission ---------------------------
(* Stateless cookies, admitted per bucket of addresses                         *)
(* (StatelessCookieGenerator, src/src/pkg/l0/crypto.go).                       *)
(*                                                                             *)
(* There is no lock: the moment of the last refill is advanced by a            *)
(* compare-and-swap, whose winner then fills bucket after bucket, while        *)
(* other callers take tokens. A bucket is a hash of the address and of the     *)
(* time, so that any bucket can be the one of a call, and the bucket of the    *)
(* proof of work may be another one than that of the cookie.                   *)
EXTENDS Integers, FiniteSets, FiniteSetsExt

CONSTANTS
    Guests,         \* calls that can be under way at once
    NumBuckets,     \* subnetTokens (256 in the code)
    CookieBurst,    \* maxBurst (1000)
    ProofBurst,     \* proofs of work checked per second and bucket (50)
    CookieEpoch,    \* epochSec (120)
    MaxSeconds, MaxCalls        \* bounds of the model

CookieAssumption ==
    /\ NumBuckets \in Nat \ {0} /\ CookieBurst \in Nat \ {0} /\ ProofBurst \in Nat
    /\ CookieEpoch \in Nat \ {0} /\ MaxSeconds \in Nat /\ MaxCalls \in Nat

ASSUME CookieAssumption

BucketIds == 1 .. NumBuckets

\* The nonce of a caller: none, a wrong one, a right one, or a right one that is aligned too.
Nonces == {"none", "wrong", "right", "aligned"}

VARIABLES
    second,         \* the wall clock
    lastRefill,
    tokens,         \* bucket -> subnetTokens; all that is below zero is -1
    proofTokens,    \* bucket -> subnetPoWTokens
    guest,          \* call -> where it is
    free,           \* bucket -> cookies given without a proof of work: history
    cookies,        \* second at which a call was begun that got a cookie: history
    guests          \* calls begun

cookieVars == <<second, lastRefill, tokens, proofTokens, guest, free, cookies, guests>>

Away == [at |-> "away"]

CookieTypeOK ==
    /\ second \in 0 .. MaxSeconds /\ lastRefill \in 0 .. second
    /\ tokens \in [BucketIds -> -1 .. CookieBurst]
    /\ proofTokens \in [BucketIds -> -1 .. ProofBurst]
    /\ guest \in [Guests -> {Away} \cup
          [at : {"swap", "fill", "token", "proof"}, now : 0 .. MaxSeconds, last : 0 .. MaxSeconds,
           nonce : Nonces, next : 1 .. NumBuckets + 1]]
    /\ free \in [BucketIds -> Nat] /\ cookies \subseteq 0 .. second /\ guests \in 0 .. MaxCalls

CookieInit ==
    /\ second = 0 /\ lastRefill = 0
    /\ tokens = [b \in BucketIds |-> CookieBurst]
    /\ proofTokens = [b \in BucketIds |-> ProofBurst]
    /\ guest = [g \in Guests |-> Away]
    /\ free = [b \in BucketIds |-> 0] /\ cookies = {} /\ guests = 0

\* GenerateCookieWithPoW begins: the clock and the last refill are read.
AskForCookie(g, n) ==
    /\ guest[g].at = "away" /\ guests < MaxCalls
    /\ guests' = guests + 1
    /\ guest' = [guest EXCEPT ![g] = [at |-> IF second > lastRefill THEN "swap" ELSE "token",
                                      now |-> second, last |-> lastRefill, nonce |-> n, next |-> 1]]
    /\ UNCHANGED <<second, lastRefill, tokens, proofTokens, free, cookies>>

\* The compare-and-swap: who loses it goes on with the tokens there are.
\* Mutant: the moment is stored without a comparison.
SwapBlindly(g) ==
    /\ guest[g].at = "swap"
    /\ lastRefill' = Max({lastRefill, guest[g].now})
    /\ guest' = [guest EXCEPT ![g].at = "fill"]
    /\ UNCHANGED <<second, tokens, proofTokens, free, cookies, guests>>

Swap(g) ==
    /\ guest[g].at = "swap"
    /\ IF lastRefill = guest[g].last
       THEN lastRefill' = guest[g].now /\ guest' = [guest EXCEPT ![g].at = "fill"]
       ELSE UNCHANGED lastRefill /\ guest' = [guest EXCEPT ![g].at = "token"]
    /\ UNCHANGED <<second, tokens, proofTokens, free, cookies, guests>>

\* One round of the loop over the buckets.
Fill(g) ==
    LET round == guest[g].next
    IN  /\ guest[g].at = "fill"
        /\ tokens' = [tokens EXCEPT ![round] = CookieBurst]
        /\ proofTokens' = [proofTokens EXCEPT ![round] = ProofBurst]
        /\ guest' = [guest EXCEPT ![g].next = round + 1,
                                  ![g].at = IF round = NumBuckets THEN "token" ELSE "fill"]
        /\ UNCHANGED <<second, lastRefill, free, cookies, guests>>

Give(g) == guest' = [guest EXCEPT ![g] = Away] /\ cookies' = cookies \cup {guest[g].now}

Refuse(g) == guest' = [guest EXCEPT ![g] = Away] /\ UNCHANGED cookies

\* One token of the bucket; if there is none, a nonce can still earn the cookie.
TakeCookieToken(g, b) ==
    /\ guest[g].at = "token"
    /\ tokens' = [tokens EXCEPT ![b] = Max({-1, @ - 1})]
    /\ IF tokens[b] > 0
       THEN free' = [free EXCEPT ![b] = @ + 1] /\ Give(g)
       ELSE /\ UNCHANGED free
            /\ IF guest[g].nonce = "none" THEN Refuse(g)
               ELSE guest' = [guest EXCEPT ![g].at = "proof"] /\ UNCHANGED cookies
    /\ UNCHANGED <<second, lastRefill, proofTokens, guests>>

\* VerifyMicroPoW: once the bucket has spent its proofs, only an aligned nonce is looked at.
VerifyMicroPoW(g, b) ==
    /\ guest[g].at = "proof"
    /\ proofTokens' = [proofTokens EXCEPT ![b] = Max({-1, @ - 1})]
    /\ IF guest[g].nonce = "aligned" \/ (guest[g].nonce = "right" /\ proofTokens[b] > 0)
       THEN Give(g) ELSE Refuse(g)
    /\ UNCHANGED <<second, lastRefill, tokens, free, guests>>

CookieTick ==
    /\ second < MaxSeconds
    /\ second' = second + 1
    /\ UNCHANGED <<lastRefill, tokens, proofTokens, guest, free, cookies, guests>>

\* ValidateCookie of a cookie that belongs to a call begun at the second given.
CookieIsValid(begun) ==
    begun \div CookieEpoch \in {second \div CookieEpoch, second \div CookieEpoch - 1}

CookieNext ==
    \/ \E g \in Guests : \/ \E n \in Nonces : AskForCookie(g, n)
                         \/ Swap(g) \/ Fill(g)
                         \/ \E b \in BucketIds : TakeCookieToken(g, b) \/ VerifyMicroPoW(g, b)
    \/ CookieTick

CookieSpec == CookieInit /\ [][CookieNext]_cookieVars

(***************************************************************************)
(* Properties.                                                             *)
(***************************************************************************)

\* However calls race for the refill, are overtaken between the swap and the buckets, or fill a
\* bucket again in a later second, a bucket never gives more cookies away than one burst at the
\* start and one for each second since (crypto.go:219-237).
CookiesAreRationed == \A b \in BucketIds : free[b] <= CookieBurst * (1 + second)

\* A cookie is good for one epoch at least and two at most, counted from the start of the call
\* that got it, even if that call was held up (crypto.go:272-287).
CookiesExpire ==
    \A c \in cookies : /\ second - c <= CookieEpoch => CookieIsValid(c)
                       /\ CookieIsValid(c) => second - c < 2 * CookieEpoch
==============================================================================
