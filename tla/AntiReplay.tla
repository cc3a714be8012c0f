----------------------------- MODULE AntiReplay -----------------------------
(***************************************************************************)
(* The datapath's replay filter (src/src/pkg/l1/anti_replay_session.go):   *)
(* one window per origin DID and session, a freshness test on the packet's *)
(* timestamp, and a cross-session test against the newest session and the  *)
(* newest timestamp seen from that origin.                                 *)
(*                                                                         *)
(* Accept reads the clock and tests the timestamp before it takes the      *)
(* lock, and decides everything else under the lock, so a call is two      *)
(* steps of its goroutine: Arrive, then one of the outcomes below.         *)
(*                                                                         *)
(* The bitmap is the set of the offsets (below the highest number) whose   *)
(* bit is set; ReplayWindow looks at the words.  Timestamps are in         *)
(* seconds, the unit the code normalises to.  Numbers are compared, and    *)
(* subtracted only from larger ones, so 64 bits never wrap.                *)
(***************************************************************************)
EXTENDS Integers, FiniteSets

CONSTANTS Worker,        \* goroutines calling Accept
          Origin,        \* origin DIDs
          SessionID,     \* session identifiers; 0 is "no session yet"
          SeqNo,         \* packet sequence numbers
          WindowSize,    \* AntiReplayWindowSize
          MaxJitter,     \* MaxAllowedJitterSec
          MaxSkew,       \* the 10 s a timestamp may lie in the future
          TrackerQuota,  \* trackers the memory arbiter grants (its replay
                         \* budget divided by 256)
          MaxNow         \* bound on the clock

ASSUME AntiReplayAssumption ==
    /\ SessionID \subseteq Nat
    /\ SeqNo \subseteq Nat
    /\ WindowSize \in Nat \ {0}
    /\ MaxJitter \in Nat
    /\ MaxSkew \in Nat
    /\ TrackerQuota \in Nat
    /\ MaxNow \in Nat

VARIABLES now,            \* Unix seconds
          call,           \* what each goroutine is evaluating
          sessions,       \* keys of the sessions map
          maxSeq,         \* MaxSeq of each tracker
          seenBits,       \* SeenBits of each tracker, as offsets
          latestSeen,     \* newest timestamp per origin
          latestSession,  \* largest session identifier per origin
          count,          \* history: deliveries per session and number
          newestTs        \* history: newest delivered timestamp per session

vars == <<now, call, sessions, maxSeq, seenBits, latestSeen, latestSession,
          count, newestTs>>

Key == Origin \X SessionID
Offset == 0 .. WindowSize - 1
Timestamp == 0 .. MaxNow + MaxSkew
Packet == [key : Key, seq : SeqNo, ts : Timestamp]
Idle == [idle |-> TRUE]

TypeOK ==
    /\ now \in 0 .. MaxNow
    /\ call \in [Worker -> Packet \cup {Idle}]
    /\ sessions \in SUBSET Key
    /\ maxSeq \in [Key -> Nat]
    /\ seenBits \in [Key -> SUBSET Offset]
    /\ latestSeen \in [Origin -> Nat]
    /\ latestSession \in [Origin -> Nat]
    /\ count \in [Key -> [SeqNo -> Nat]]
    /\ newestTs \in [Key -> Nat]

Init ==
    /\ now = 0
    /\ call = [w \in Worker |-> Idle]
    /\ sessions = {}
    /\ maxSeq = [k \in Key |-> 0]
    /\ seenBits = [k \in Key |-> {}]
    /\ latestSeen = [o \in Origin |-> 0]
    /\ latestSession = [o \in Origin |-> 0]
    /\ count = [k \in Key |-> [q \in SeqNo |-> 0]]
    /\ newestTs = [k \in Key |-> 0]

-----------------------------------------------------------------------------
\* A packet passes the timestamp test; the lock is not yet taken.
Arrive(w, p) ==
    /\ call[w] = Idle
    /\ now - p.ts <= MaxJitter
    /\ p.ts - now <= MaxSkew
    /\ call' = [call EXCEPT ![w] = p]
    /\ UNCHANGED <<now, sessions, maxSeq, seenBits, latestSeen, latestSession,
                   count, newestTs>>

Larger(a, b) == IF a > b THEN a ELSE b

StaleSession(p) ==
    LET o == p.key[1] IN
    /\ latestSession[o] > 0
    /\ p.key[2] < latestSession[o]
    /\ p.ts < latestSeen[o]

\* Mutant: every bit lands one place low.
ShiftedLow(bits, n) == {i \in Offset : i - n + 1 \in bits}

\* The bits after the window moves up by n: none survives a jump of the size.
Shifted(bits, n) == {i \in Offset : i - n \in bits}

Finish(w) ==
    /\ call' = [call EXCEPT ![w] = Idle]
    /\ UNCHANGED now

\* Mutant: an older timestamp replaces a newer one.
NoteLast(p) ==
    LET o == p.key[1] IN
    /\ latestSeen' = [latestSeen EXCEPT ![o] = p.ts]
    /\ latestSession' = [latestSession EXCEPT ![o] = Larger(@, p.key[2])]

NoteLatest(p) ==
    LET o == p.key[1] IN
    /\ latestSeen' = [latestSeen EXCEPT ![o] = Larger(@, p.ts)]
    /\ latestSession' = [latestSession EXCEPT ![o] = Larger(@, p.key[2])]

Deliver(p) ==
    /\ count' = [count EXCEPT ![p.key][p.seq] = @ + 1]
    /\ newestTs' = [newestTs EXCEPT ![p.key] = Larger(@, p.ts)]

DropStaleSession(w, p) ==
    /\ call[w] = p
    /\ StaleSession(p)
    /\ Finish(w)
    /\ UNCHANGED <<sessions, maxSeq, seenBits, latestSeen, latestSession,
                   count, newestTs>>

\* The arbiter has no room for another tracker.
RefuseTracker(w, p) ==
    /\ call[w] = p
    /\ ~StaleSession(p)
    /\ p.key \notin sessions
    /\ Cardinality(sessions) >= TrackerQuota
    /\ Finish(w)
    /\ UNCHANGED <<sessions, maxSeq, seenBits, latestSeen, latestSession,
                   count, newestTs>>

OpenSession(w, p) ==
    /\ call[w] = p
    /\ ~StaleSession(p)
    /\ p.key \notin sessions
    /\ Cardinality(sessions) < TrackerQuota
    /\ sessions' = sessions \cup {p.key}
    /\ maxSeq' = [maxSeq EXCEPT ![p.key] = p.seq]
    /\ seenBits' = [seenBits EXCEPT ![p.key] = {0}]
    /\ NoteLatest(p)
    /\ Deliver(p)
    /\ Finish(w)

Advance(w, p) ==
    /\ call[w] = p
    /\ ~StaleSession(p)
    /\ p.key \in sessions
    /\ p.seq > maxSeq[p.key]
    /\ seenBits' = [seenBits EXCEPT
                      ![p.key] = Shifted(@, p.seq - maxSeq[p.key]) \cup {0}]
    /\ maxSeq' = [maxSeq EXCEPT ![p.key] = p.seq]
    /\ NoteLatest(p)
    /\ Deliver(p)
    /\ Finish(w)
    /\ UNCHANGED sessions

\* Mutant: the bit is tested and not set.
ReorderUnmarked(w, p) ==
    /\ call[w] = p
    /\ ~StaleSession(p)
    /\ p.key \in sessions
    /\ p.seq <= maxSeq[p.key]
    /\ maxSeq[p.key] - p.seq \in Offset \ seenBits[p.key]
    /\ NoteLatest(p)
    /\ Deliver(p)
    /\ Finish(w)
    /\ UNCHANGED <<sessions, maxSeq, seenBits>>

\* Mutant: the window is one number too long.
ReorderPastWindow(w, p) ==
    /\ call[w] = p
    /\ ~StaleSession(p)
    /\ p.key \in sessions
    /\ p.seq <= maxSeq[p.key]
    /\ maxSeq[p.key] - p.seq \in (0 .. WindowSize) \ seenBits[p.key]
    /\ seenBits' = [seenBits EXCEPT ![p.key] = @ \cup {maxSeq[p.key] - p.seq}]
    /\ NoteLatest(p)
    /\ Deliver(p)
    /\ Finish(w)
    /\ UNCHANGED <<sessions, maxSeq>>

\* A late packet that the window still covers and whose bit is clear.
Reorder(w, p) ==
    /\ call[w] = p
    /\ ~StaleSession(p)
    /\ p.key \in sessions
    /\ p.seq <= maxSeq[p.key]
    /\ maxSeq[p.key] - p.seq \in Offset \ seenBits[p.key]
    /\ seenBits' = [seenBits EXCEPT ![p.key] = @ \cup {maxSeq[p.key] - p.seq}]
    /\ NoteLatest(p)
    /\ Deliver(p)
    /\ Finish(w)
    /\ UNCHANGED <<sessions, maxSeq>>

\* Too old for the window, or its bit is set.  Both are found only after the
\* origin's newest session and timestamp have been moved up.
DropReplay(w, p) ==
    /\ call[w] = p
    /\ ~StaleSession(p)
    /\ p.key \in sessions
    /\ p.seq <= maxSeq[p.key]
    /\ maxSeq[p.key] - p.seq \notin Offset \ seenBits[p.key]
    /\ NoteLatest(p)
    /\ Finish(w)
    /\ UNCHANGED <<sessions, maxSeq, seenBits, count, newestTs>>

Tick ==
    /\ now < MaxNow
    /\ now' = now + 1
    /\ UNCHANGED <<call, sessions, maxSeq, seenBits, latestSeen, latestSession,
                   count, newestTs>>

Accept(w, p) ==
    \/ DropStaleSession(w, p) \/ RefuseTracker(w, p) \/ OpenSession(w, p)
    \/ Advance(w, p) \/ Reorder(w, p) \/ DropReplay(w, p)

Next ==
    \/ Tick
    \/ \E w \in Worker, p \in Packet : Arrive(w, p) \/ Accept(w, p)

Spec == Init /\ [][Next]_vars
-----------------------------------------------------------------------------
\* No number is delivered twice within one session of one origin, however the
\* network duplicates and reorders it and however many goroutines evaluate it
\* (Accept; docs/ARQUITECTURA.md:103).
DeliveredOnce == \A k \in Key, q \in SeqNo : count[k][q] <= 1

\* The bitmap says exactly which numbers inside the window were delivered: a
\* bit set too many would drop a packet that jitter merely delayed, a bit lost
\* in a shift would let a duplicate through (markBit, isBitSet, shiftWindow).
TrackerExact(k) ==
    /\ maxSeq[k] \in SeqNo
    /\ count[k][maxSeq[k]] > 0
    /\ \A q \in SeqNo :
         /\ q > maxSeq[k] => count[k][q] = 0
         /\ maxSeq[k] - q \in Offset
            => (count[k][q] > 0 <=> maxSeq[k] - q \in seenBits[k])

WindowExact ==
    \A k \in Key : IF k \in sessions THEN TrackerExact(k)
                   ELSE \A q \in SeqNo : count[k][q] = 0

\* A packet of an earlier session is never delivered once a later session of
\* the same origin has delivered a packet with a newer timestamp.
NoLateOldSession ==
    [][\A k, l \in Key :
         (count'[k] # count[k] /\ k[1] = l[1] /\ k[2] < l[2])
         => \E w \in Worker : call[w] # Idle /\ call[w].key = k
                              /\ call[w].ts >= newestTs[l]]_vars

\* Each session's stream is a sliding window: this filter implements the
\* abstract promise for every origin and session.
Stream(k) == INSTANCE SlidingWindow WITH count <- count[k]
StreamsAreWindows ==
    /\ \A k \in Key : Stream(k)!Init
    /\ [][\A k \in Key : Stream(k)!Next \/ UNCHANGED count[k]]_count
=============================================================================
