-------------------------- MODULE DelegatedIdentity --------------------------
(* Identities that stand for others: keys bound to a root, chains of          *)
(* delegation, and the devices of a local network a node represents.          *)
EXTENDS Integers, Sequences, SequencesExt, Functions

\* A map with one entry set.
Put(f, x, value) == [y \in DOMAIN f \cup {x} |-> IF y = x THEN value ELSE f[y]]

(***************************************************************************)
(* Delegation and bindings.                                                *)
(***************************************************************************)
\* Keys bound to a root identity and revoked (src/src/pkg/l1/uin_identity.go),
\* and chains of delegation (l0/delegation.go).
\*
\* A chain grows by one link at a time, added by anybody: a link may be out of
\* custody, badly signed or expired, and claims a tier. A binding is issued
\* and revoked under a lock; its validation reads the revocations under the
\* lock and looks at the clock and the signature after that.

CONSTANTS
    Principals,     \* DIDs that issue and receive links
    RootDID,
    Offered,        \* the links that are made
    MaxLinks,       \* bound of the model
    MaxToday,       \* bound of the clock
    BindingKeys,    \* keys that can be bound
    Validators,     \* calls of ValidateBinding under way
    Validity        \* how long a binding is good

ExecutionTiers == {"deny", "quarantine", "ordinary", "escalated"}

LinkRecords ==
    [issuer : Principals, subject : Principals, tier : ExecutionTiers, genuine : BOOLEAN, until : Nat]

DelegationAssumption ==
    /\ RootDID \in Principals /\ Offered \subseteq LinkRecords
    /\ MaxLinks \in Nat /\ MaxToday \in Nat /\ Validity \in Nat

ASSUME DelegationAssumption

VARIABLES
    chain,          \* Links
    today,
    bindings,       \* key bound -> last day it is good
    revocations,    \* keys revoked
    validation      \* call of ValidateBinding -> [at, key, until, late, valid]

delegationVars == <<chain, today, bindings, revocations, validation>>

Unbegun == [at |-> "idle"]

DelegationTypeOK ==
    /\ chain \in Seq(Offered) /\ Len(chain) <= MaxLinks /\ today \in 0 .. MaxToday
    /\ DOMAIN bindings \subseteq BindingKeys /\ \A k \in DOMAIN bindings : bindings[k] \in Nat
    /\ revocations \subseteq BindingKeys
    /\ validation \in [Validators -> {Unbegun} \cup
          [at : {"checked", "ended"}, key : BindingKeys, until : Nat, late : BOOLEAN, valid : BOOLEAN]]

DelegationInit ==
    /\ chain = <<>> /\ today = 0
    /\ bindings = [k \in {} |-> 0] /\ revocations = {}
    /\ validation = [v \in Validators |-> Unbegun]

(***************************************************************************)
(* Chains.                                                                 *)
(***************************************************************************)

\* Custody, signature and date of link i of a chain.
Sound(links, i) ==
    /\ links[i].issuer = IF i = 1 THEN RootDID ELSE links[i - 1].subject
    /\ links[i].genuine /\ today <= links[i].until

\* What a link makes of the tier the chain has had so far: it never gives a tier back that an
\* earlier link has taken. Links of the two other tiers change nothing.
Attenuated(tier, link) ==
    IF tier = "deny" \/ (tier = "ordinary" /\ link.tier = "escalated") THEN "deny"
    ELSE IF link.tier = "ordinary" THEN "ordinary" ELSE tier

\* VerifyChain; an error is the tier "deny", but for the empty chain.
VerifyChain(links) ==
    LET tier[i \in 0 .. Len(links)] ==
            IF i = 0 THEN "escalated"
            ELSE IF ~Sound(links, i) THEN "deny" ELSE Attenuated(tier[i - 1], links[i])
    IN  IF links = <<>> THEN "quarantine" ELSE tier[Len(links)]

\* CreateDelegationLink, or a link made up by somebody else.
AddLink(link) ==
    /\ Len(chain) < MaxLinks
    /\ chain' = Append(chain, link)
    /\ UNCHANGED <<today, bindings, revocations, validation>>

(***************************************************************************)
(* Bindings.                                                               *)
(***************************************************************************)

\* The key identifier is drawn anew for every binding.
IssueBinding(k) ==
    /\ k \notin DOMAIN bindings \cup revocations
    /\ bindings' = Put(bindings, k, today + Validity)
    /\ UNCHANGED <<chain, today, revocations, validation>>

RevokeBinding(k) ==
    /\ k \in DOMAIN bindings
    /\ bindings' = Restrict(bindings, DOMAIN bindings \ {k})
    /\ revocations' = revocations \cup {k}
    /\ UNCHANGED <<chain, today, validation>>

\* ValidateBinding of a record of this root; an end that is wrong is one the signature does not fit.
BeginValidation(v, k, until) ==
    /\ validation[v].at = "idle"
    /\ validation' = [validation EXCEPT ![v] =
          [at |-> IF k \in revocations THEN "ended" ELSE "checked", key |-> k, until |-> until,
           late |-> k \in revocations, valid |-> FALSE]]
    /\ UNCHANGED <<chain, today, bindings, revocations>>

EndValidation(v, signed) ==
    /\ validation[v].at = "checked"
    /\ validation' = [validation EXCEPT ![v].at = "ended",
                                        ![v].valid = signed /\ today <= validation[v].until]
    /\ UNCHANGED <<chain, today, bindings, revocations>>

ForgetValidation(v) ==
    /\ validation[v].at = "ended"
    /\ validation' = [validation EXCEPT ![v] = Unbegun]
    /\ UNCHANGED <<chain, today, bindings, revocations>>

Dawn == today < MaxToday /\ today' = today + 1 /\ UNCHANGED <<chain, bindings, revocations, validation>>

ChainNext == (\E link \in Offered : AddLink(link)) \/ Dawn

BindingNext ==
    \/ \E k \in BindingKeys : IssueBinding(k) \/ RevokeBinding(k)
    \/ \E v \in Validators :
          \/ \E k \in DOMAIN bindings \cup revocations, u \in 0 .. MaxToday + Validity : BeginValidation(v, k, u)
          \/ \E signed \in BOOLEAN : EndValidation(v, signed)
          \/ ForgetValidation(v)
    \/ Dawn

DelegationNext == ChainNext \/ BindingNext

DelegationSpec == DelegationInit /\ [][DelegationNext]_delegationVars

(***************************************************************************)
(* Properties.                                                             *)
(***************************************************************************)

TierRank == [deny |-> 0, ordinary |-> 1, escalated |-> 2]

\* Whoever adds links, and whatever tiers they claim: a longer chain never has a higher tier than
\* the chain it continues (delegation.go:83-115).
TierNeverRises ==
    \A n \in 1 .. Len(chain) - 1 :
        TierRank[VerifyChain(SubSeq(chain, 1, n + 1))] <= TierRank[VerifyChain(SubSeq(chain, 1, n))]

\* The passport of an entity never lists a key as active and as revoked, and no validation begun
\* after the revocation of its key ends well, however late the rest of it runs
\* (uin_identity.go:169-206).
RevokedKeysStayOut ==
    /\ DOMAIN bindings \cap revocations = {}
    /\ \A v \in Validators : validation[v].at = "ended" /\ validation[v].late => ~validation[v].valid

(***************************************************************************)
(* Shadow devices.                                                         *)
(***************************************************************************)
\* The devices of a local network that a node represents in the mesh
\* (src/src/pkg/l1/shadow_device.go). One record per device is kept in two
\* tables, by DID and by virtual address, under one lock; but the records
\* themselves are shared, and a stream reads them after the lock is gone.
\*
\* A DID is a hash of the hardware address. A record that exists already is
\* updated in place, except for its type and its virtual address.

CONSTANTS
    Devices,        \* hardware addresses
    Hosts,          \* physical addresses
    Ports,
    FirstAddress, LastAddress,  \* nextIPIndex of the start, and its limit (10 and 254)
    Forwards         \* calls of ForwardStream

ShadowAssumption == FirstAddress \in Nat /\ LastAddress \in Nat /\ FirstAddress <= LastAddress

ASSUME ShadowAssumption

DeviceTypes == {"edge_ai", "generic"}

VARIABLES
    devices,        \* the records: device -> [host, type, ports, address]
    devicesByVIP,   \* virtual address -> device
    nextIPIndex,
    forward         \* stream -> [at, device, port, host]

shadowVars == <<devices, devicesByVIP, nextIPIndex, forward>>

NoStream == [at |-> "none"]

ShadowTypeOK ==
    /\ DOMAIN devices \subseteq Devices
    /\ \A d \in DOMAIN devices :
          devices[d] \in [host : Hosts, type : DeviceTypes, ports : SUBSET Ports,
                          address : FirstAddress .. LastAddress]
    /\ nextIPIndex \in FirstAddress .. LastAddress + 1
    /\ forward \in [Forwards -> {NoStream} \cup
          [at : {"allowed", "connected"}, device : Devices, port : Ports, host : Hosts \cup {"unread"}]]

ShadowInit ==
    /\ devices = [d \in {} |-> {}] /\ devicesByVIP = [a \in {} |-> {}]
    /\ nextIPIndex = FirstAddress /\ forward = [s \in Forwards |-> NoStream]

\* RegisterDevice of a device the registry has; it is enabled, as all are.
\* Mutant: the device gets another address, and the old one stays in its table.
UpdateAndMove(d, host, ports) ==
    /\ d \in DOMAIN devices /\ nextIPIndex <= LastAddress
    /\ devices' = [devices EXCEPT ![d].host = host, ![d].ports = ports, ![d].address = nextIPIndex]
    /\ devicesByVIP' = Put(devicesByVIP, nextIPIndex, d)
    /\ nextIPIndex' = nextIPIndex + 1
    /\ UNCHANGED forward

UpdateDevice(d, host, ports) ==
    /\ d \in DOMAIN devices
    /\ devices' = [devices EXCEPT ![d].host = host, ![d].ports = ports]
    /\ UNCHANGED <<devicesByVIP, nextIPIndex, forward>>

\* RegisterDevice of a new one, unless the addresses are used up.
EnrollDevice(d, host, type, ports) ==
    /\ d \notin DOMAIN devices /\ nextIPIndex <= LastAddress
    /\ devices' = Put(devices, d, [host |-> host, type |-> type, ports |-> ports,
                                   address |-> nextIPIndex])
    /\ devicesByVIP' = Put(devicesByVIP, nextIPIndex, d)
    /\ nextIPIndex' = nextIPIndex + 1
    /\ UNCHANGED forward

\* ForwardStream: a device without a list of ports allows all.
AllowStream(s, d, port) ==
    /\ forward[s].at = "none" /\ d \in DOMAIN devices
    /\ devices[d].ports = {} \/ port \in devices[d].ports
    /\ forward' = [forward EXCEPT ![s] =
                      [at |-> "allowed", device |-> d, port |-> port, host |-> "unread"]]
    /\ UNCHANGED <<devices, devicesByVIP, nextIPIndex>>

\* The address dialled is the one the record has by now.
DialDevice(s) ==
    /\ forward[s].at = "allowed"
    /\ forward' = [forward EXCEPT ![s].at = "connected", ![s].host = devices[forward[s].device].host]
    /\ UNCHANGED <<devices, devicesByVIP, nextIPIndex>>

\* The device does not answer, or both directions have been copied to their end.
EndForward(s) ==
    /\ forward[s].at \in {"allowed", "connected"}
    /\ forward' = [forward EXCEPT ![s] = NoStream]
    /\ UNCHANGED <<devices, devicesByVIP, nextIPIndex>>

ShadowNext ==
    \/ \E d \in Devices, h \in Hosts, p \in SUBSET Ports :
          UpdateDevice(d, h, p) \/ \E t \in DeviceTypes : EnrollDevice(d, h, t, p)
    \/ \E s \in Forwards : \/ \E d \in Devices, p \in Ports : AllowStream(s, d, p)
                          \/ DialDevice(s) \/ EndForward(s)

ShadowSpec == ShadowInit /\ [][ShadowNext]_shadowVars

(***************************************************************************)
(* Properties.                                                             *)
(***************************************************************************)

\* The two tables have the same devices, each under the one address its record names, so that no
\* virtual address leads to two devices, or to one that has another address by now; and an
\* address is given out only once (shadow_device.go:77-107).
DeviceTablesAgree ==
    /\ \A d \in DOMAIN devices : devices[d].address \in DOMAIN devicesByVIP
    /\ \A a \in DOMAIN devicesByVIP : /\ devicesByVIP[a] \in DOMAIN devices
                                      /\ devices[devicesByVIP[a]].address = a
                                      /\ a < nextIPIndex
==============================================================================
