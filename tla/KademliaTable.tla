---------------------------- MODULE KademliaTable ----------------------------
(* The routing table by XOR distance (src/src/pkg/l2/dht_kademlia.go).         *)
(*                                                                             *)
(* An identifier is a function from bit positions, the first the most          *)
(* significant, to bits. What a contact carries beside its identifier comes    *)
(* down to the version of it: an update brings a newer one. An update and a    *)
(* search run under the lock of the table, so each is one action.              *)
EXTENDS Integers, Sequences, FiniteSets, SequencesExt

CONSTANTS
    IDLen,          \* bits of an identifier (256 in the code)
    Self,           \* the identifier of this node
    Known,          \* identifiers of the nodes it can hear of
    KBucketSize,    \* 8
    ReplacementCacheSize,   \* 4
    MaxVersions     \* bound of the model: updates of one contact

Position == 1 .. IDLen
ID == [Position -> {0, 1}]

KademliaAssumption ==
    /\ IDLen \in Nat \ {0} /\ Self \in ID /\ Known \subseteq ID /\ IsFiniteSet(Known)
    /\ KBucketSize \in Nat \ {0} /\ ReplacementCacheSize \in Nat \ {0} /\ MaxVersions \in Nat

ASSUME KademliaAssumption

VARIABLES
    bucket,         \* common prefix length -> contacts, the one seen last at the end
    replacement,    \* common prefix length -> contacts that found their bucket full
    latest          \* identifier -> version of its last update: history

kademliaVars == <<bucket, replacement, latest>>

Lengths == 0 .. IDLen - 1
Contact == [id : Known, version : 1 .. MaxVersions]

KademliaTypeOK ==
    /\ \A l \in Lengths : /\ Range(bucket[l]) \subseteq Contact /\ Len(bucket[l]) <= KBucketSize
                          /\ Range(replacement[l]) \subseteq Contact
                          /\ Len(replacement[l]) <= ReplacementCacheSize
    /\ latest \in [Known -> 0 .. MaxVersions]

KademliaInit ==
    /\ bucket = [l \in Lengths |-> <<>>] /\ replacement = [l \in Lengths |-> <<>>]
    /\ latest = [i \in Known |-> 0]

XORDistance(a, b) == [p \in Position |-> IF a[p] = b[p] THEN 0 ELSE 1]

\* The number of bits before the first in which two different identifiers differ.
CommonPrefixLen(a, b) ==
    CHOOSE l \in Lengths : a[l + 1] # b[l + 1] /\ \A p \in 1 .. l : a[p] = b[p]

\* CompareDistance: the first difference decides.
Nearer(d, e) == \E p \in Position : d[p] < e[p] /\ \A q \in 1 .. p - 1 : d[q] = e[q]

Holds(seq, id) == \E i \in DOMAIN seq : seq[i].id = id

\* A contact the bucket has moves to its end.
SeenAgain(c, l) ==
    \E i \in DOMAIN bucket[l] :
        /\ bucket[l][i].id = c.id /\ \A j \in 1 .. i - 1 : bucket[l][j].id # c.id
        /\ bucket' = [bucket EXCEPT ![l] = Append(RemoveAt(@, i), c)]
        /\ UNCHANGED replacement

\* A new one is added if there is room.
InBucket(c, l) ==
    /\ ~Holds(bucket[l], c.id) /\ Len(bucket[l]) < KBucketSize
    /\ bucket' = [bucket EXCEPT ![l] = Append(@, c)]
    /\ UNCHANGED replacement

\* Otherwise it waits in the replacement cache, in its old place or at the end, from which it
\* pushes the oldest out.
\* Mutant: nobody is pushed out.
InReplacementUnbounded(c, l) ==
    /\ ~Holds(bucket[l], c.id) /\ Len(bucket[l]) = KBucketSize
    /\ replacement' = [replacement EXCEPT ![l] =
          IF Holds(@, c.id) THEN [i \in DOMAIN @ |-> IF @[i].id = c.id THEN c ELSE @[i]]
          ELSE Append(@, c)]
    /\ UNCHANGED bucket

InReplacement(c, l) ==
    /\ ~Holds(bucket[l], c.id) /\ Len(bucket[l]) = KBucketSize
    /\ replacement' = [replacement EXCEPT ![l] =
          IF Holds(@, c.id) THEN [i \in DOMAIN @ |-> IF @[i].id = c.id THEN c ELSE @[i]]
          ELSE IF Len(@) < ReplacementCacheSize THEN Append(@, c) ELSE Append(Tail(@), c)]
    /\ UNCHANGED bucket

\* Update; the node does not enter itself.
Update(id) ==
    /\ id # Self /\ latest[id] < MaxVersions
    /\ latest' = [latest EXCEPT ![id] = @ + 1]
    /\ LET c == [id |-> id, version |-> latest[id] + 1]
           l == CommonPrefixLen(Self, id)
       IN  SeenAgain(c, l) \/ InBucket(c, l) \/ InReplacement(c, l)

\* FindClosest: what is in the buckets, nearest first, cut off after a number of contacts. In
\* place k comes the contact that k - 1 others are nearer than.
Active == UNION {Range(bucket[l]) : l \in Lengths}
NearerTo(target, c) == {e \in Active : Nearer(XORDistance(target, e.id), XORDistance(target, c.id))}
FindClosest(target, n) ==
    [k \in 1 .. IF Cardinality(Active) > n THEN n ELSE Cardinality(Active) |->
        CHOOSE c \in Active : Cardinality(NearerTo(target, c)) = k - 1]

KademliaNext == \E id \in Known : Update(id)

(***************************************************************************)
(* Properties.                                                             *)
(***************************************************************************)

\* Every contact is in one place, the one of its prefix, and as it was last heard of; nobody
\* waits who has a place, or where there is room (dht_kademlia.go:86-131).
TableIsOrderly ==
    /\ \A l \in Lengths :
          LET all == bucket[l] \o replacement[l]
          IN  /\ \A i \in DOMAIN all : /\ CommonPrefixLen(Self, all[i].id) = l
                                       /\ all[i].version = latest[all[i].id]
              /\ \A i, j \in DOMAIN all : all[i].id = all[j].id => i = j
              /\ replacement[l] # <<>> => Len(bucket[l]) = KBucketSize
    /\ \A id \in Known : latest[id] > 0 /\ id # Self
          => \/ Holds(bucket[CommonPrefixLen(Self, id)], id)
             \/ Len(bucket[CommonPrefixLen(Self, id)]) = KBucketSize

\* Looking for an identifier the table holds finds it first (134-169).
HeldIsFound == \A c \in Active : FindClosest(c.id, 1) = <<c>>

\* A contact that has got a place keeps it: later ones never displace it (108-130).
OldContactsStay ==
    [][\A l \in Lengths : \A c \in Range(bucket[l]) : Holds(bucket'[l], c.id)]_kademliaVars
==============================================================================
