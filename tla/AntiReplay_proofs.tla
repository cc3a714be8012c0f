------------------------- MODULE AntiReplay_proofs -------------------------
(***************************************************************************)
(* The replay filter delivers every number of a session at most once, for  *)
(* any window size, any origins, sessions and goroutines, and each session *)
(* implements the abstract SlidingWindow.  WindowExact carries the         *)
(* induction: DeliveredOnce alone does not say what a clear bit means.     *)
(***************************************************************************)
EXTENDS AntiReplay, TLAPS

IInv == TypeOK /\ WindowExact /\ DeliveredOnce

\* The parts of a packet have the types the maps are indexed by.
LEMMA PacketParts ==
    ASSUME NEW p \in Packet
    PROVE  /\ p.key \in Key /\ p.seq \in SeqNo /\ p.seq \in Nat /\ p.ts \in Nat
           /\ p.key[1] \in Origin
           /\ p.key[2] \in SessionID /\ p.key[2] \in Nat
<1>1. p.key \in Key /\ p.seq \in SeqNo /\ p.ts \in Timestamp
    BY DEF Packet
<1>2. p.key[1] \in Origin /\ p.key[2] \in SessionID
    BY <1>1 DEF Key
<1>3. p.seq \in Nat
    BY <1>1, AntiReplayAssumption
<1>4. p.key[2] \in Nat
    BY <1>2, AntiReplayAssumption
<1>5. p.ts \in Nat
    BY <1>1, AntiReplayAssumption DEF Timestamp
<1> QED
    BY <1>1, <1>2, <1>3, <1>4, <1>5

\* What the shared steps do to the maps they write.
LEMMA NoteLatestType ==
    ASSUME TypeOK, NEW p \in Packet, NoteLatest(p)
    PROVE  latestSeen' \in [Origin -> Nat] /\ latestSession' \in [Origin -> Nat]
BY PacketParts DEF TypeOK, NoteLatest, Larger

LEMMA DeliverType ==
    ASSUME TypeOK, NEW p \in Packet, Deliver(p)
    PROVE  count' \in [Key -> [SeqNo -> Nat]] /\ newestTs' \in [Key -> Nat]
BY PacketParts DEF TypeOK, Deliver, Larger

\* A step of the filter leaves the type invariant true (all of Accept).
LEMMA TypeStep == TypeOK /\ [Next]_vars => TypeOK'
<1> USE AntiReplayAssumption DEF TypeOK, Key, Offset, Timestamp, Packet
<1> SUFFICES ASSUME TypeOK, [Next]_vars PROVE TypeOK'
    OBVIOUS
<1>1. CASE Tick
    BY <1>1 DEF Tick
<1>2. ASSUME NEW w \in Worker, NEW p \in Packet, Arrive(w, p)
      PROVE  TypeOK'
    BY <1>2 DEF Arrive
<1>3. ASSUME NEW w \in Worker, NEW p \in Packet, DropStaleSession(w, p)
      PROVE  TypeOK'
    BY <1>3 DEF DropStaleSession, Finish
<1>4. ASSUME NEW w \in Worker, NEW p \in Packet, RefuseTracker(w, p)
      PROVE  TypeOK'
    BY <1>4 DEF RefuseTracker, Finish
<1>5. ASSUME NEW w \in Worker, NEW p \in Packet, OpenSession(w, p)
      PROVE  TypeOK'
    BY <1>5, PacketParts, NoteLatestType, DeliverType DEF OpenSession, Finish
<1>6. ASSUME NEW w \in Worker, NEW p \in Packet, Advance(w, p)
      PROVE  TypeOK'
    BY <1>6, PacketParts, NoteLatestType, DeliverType
       DEF Advance, Finish, Shifted
<1>7. ASSUME NEW w \in Worker, NEW p \in Packet, Reorder(w, p)
      PROVE  TypeOK'
    BY <1>7, PacketParts, NoteLatestType, DeliverType DEF Reorder, Finish
<1>8. ASSUME NEW w \in Worker, NEW p \in Packet, DropReplay(w, p)
      PROVE  TypeOK'
    BY <1>8, PacketParts, NoteLatestType DEF DropReplay, Finish
<1>9. CASE UNCHANGED vars
    BY <1>9 DEF vars
<1> QED
    BY <1>1, <1>2, <1>3, <1>4, <1>5, <1>6, <1>7, <1>8, <1>9 DEF Next, Accept

\* Every reachable state is well typed.
THEOREM TypeCorrect == Spec => []TypeOK
<1>1. Init => TypeOK
    BY AntiReplayAssumption DEF Init, TypeOK, Key, Offset
<1> QED
    BY <1>1, TypeStep, PTL DEF Spec


-----------------------------------------------------------------------------
\* A delivery concerns one session only; the others keep their counters.
LEMMA DeliverOther ==
    ASSUME TypeOK, NEW p \in Packet, Deliver(p)
    PROVE  /\ \A k \in Key \ {p.key} : count'[k] = count[k]
           /\ count'[p.key] = [count[p.key] EXCEPT ![p.seq] = @ + 1]
BY PacketParts DEF TypeOK, Deliver

\* OpenSession starts the tracker with the one number it has delivered.
LEMMA OpenExact ==
    ASSUME IInv, NEW w \in Worker, NEW p \in Packet, OpenSession(w, p)
    PROVE  WindowExact' /\ DeliveredOnce'
<1>1. /\ sessions' = sessions \cup {p.key}
      /\ \A k \in Key \ {p.key} :
           maxSeq'[k] = maxSeq[k] /\ seenBits'[k] = seenBits[k]
      /\ maxSeq'[p.key] = p.seq /\ seenBits'[p.key] = {0}
      /\ p.key \notin sessions
    BY PacketParts DEF IInv, TypeOK, OpenSession
<1>2. /\ \A k \in Key \ {p.key} : count'[k] = count[k]
      /\ count'[p.key] = [count[p.key] EXCEPT ![p.seq] = @ + 1]
    BY DeliverOther DEF IInv, OpenSession
<1>3. \A q \in SeqNo : count[p.key][q] = 0
    BY <1>1, PacketParts DEF IInv, WindowExact
<1>4. \A q \in SeqNo : count'[p.key][q] = IF q = p.seq THEN 1 ELSE 0
    BY <1>2, <1>3, PacketParts DEF IInv, TypeOK
<1>5. TrackerExact(p.key)'
    BY <1>1, <1>4, PacketParts, AntiReplayAssumption DEF TrackerExact, Offset
<1>6. \A k \in Key \ {p.key} : TrackerExact(k) => TrackerExact(k)'
    BY <1>1, <1>2 DEF TrackerExact
<1>7. WindowExact'
    BY <1>1, <1>2, <1>5, <1>6 DEF IInv, WindowExact
<1>8. ASSUME NEW k \in Key, NEW q \in SeqNo PROVE count'[k][q] <= 1
  <2>1. CASE k = p.key
      BY <1>4, <2>1
  <2>2. CASE k # p.key
      BY <1>2, <2>2 DEF IInv, DeliveredOnce
  <2> QED
      BY <2>1, <2>2
<1> QED
    BY <1>7, <1>8 DEF DeliveredOnce

\* Advance: every surviving bit moves by as much as the top of the window.
LEMMA AdvanceExact ==
    ASSUME IInv, NEW w \in Worker, NEW p \in Packet, Advance(w, p)
    PROVE  WindowExact' /\ DeliveredOnce'
<1> DEFINE k0 == p.key
           m == maxSeq[k0]
<1>1. /\ sessions' = sessions /\ k0 \in sessions /\ p.seq > m
      /\ \A k \in Key \ {k0} :
           maxSeq'[k] = maxSeq[k] /\ seenBits'[k] = seenBits[k]
      /\ maxSeq'[k0] = p.seq
      /\ seenBits'[k0] = Shifted(seenBits[k0], p.seq - m) \cup {0}
    BY PacketParts DEF IInv, TypeOK, Advance
<1>2. /\ \A k \in Key \ {k0} : count'[k] = count[k]
      /\ count'[k0] = [count[k0] EXCEPT ![p.seq] = @ + 1]
    BY DeliverOther DEF IInv, Advance
<1>3. TrackerExact(k0) /\ m \in SeqNo /\ m \in Nat
    BY <1>1, PacketParts, AntiReplayAssumption
       DEF IInv, WindowExact, TrackerExact
<1>4. \A q \in SeqNo : count'[k0][q] = IF q = p.seq THEN 1 ELSE count[k0][q]
    BY <1>1, <1>2, <1>3, PacketParts DEF IInv, TypeOK, TrackerExact
<1>5. ASSUME NEW q \in SeqNo, p.seq - q \in Offset
      PROVE  count'[k0][q] > 0 <=> p.seq - q \in seenBits'[k0]
  <2>1. q \in Nat /\ seenBits[k0] \subseteq Offset /\ count[k0][q] \in Nat
      BY AntiReplayAssumption, PacketParts DEF IInv, TypeOK
  <2>2. p.seq - q \in Shifted(seenBits[k0], p.seq - m) <=> m - q \in seenBits[k0]
      BY <1>3, <1>5, <2>1, PacketParts DEF Shifted
  <2>3. CASE q = p.seq
      BY <1>1, <1>4, <2>1, <2>3
  <2>4. CASE q # p.seq /\ q > m
      BY <1>1, <1>3, <1>4, <2>1, <2>2, <2>4, PacketParts
         DEF TrackerExact, Offset
  <2>5. CASE q # p.seq /\ q <= m
    <3>1. m - q \in Offset
        BY <1>1, <1>3, <1>5, <2>1, <2>5, PacketParts, AntiReplayAssumption
           DEF Offset
    <3>2. count[k0][q] > 0 <=> m - q \in seenBits[k0]
        BY <1>3, <3>1 DEF TrackerExact
    <3> QED
        BY <1>1, <1>4, <2>1, <2>2, <2>5, <3>2, PacketParts
  <2> QED
      BY <1>3, <2>1, <2>3, <2>4, <2>5
<1>6. ASSUME NEW q \in SeqNo, q > p.seq
      PROVE  count'[k0][q] = 0
    BY <1>1, <1>3, <1>4, <1>6, PacketParts, AntiReplayAssumption
       DEF TrackerExact
<1>7. TrackerExact(k0)'
    BY <1>1, <1>4, <1>5, <1>6, PacketParts DEF TrackerExact, Offset
<1>8. \A k \in Key \ {k0} : TrackerExact(k) => TrackerExact(k)'
    BY <1>1, <1>2 DEF TrackerExact
<1>9. WindowExact'
    BY <1>1, <1>2, <1>7, <1>8 DEF IInv, WindowExact
<1>10. ASSUME NEW k \in Key, NEW q \in SeqNo PROVE count'[k][q] <= 1
  <2>1. CASE k = k0
      BY <1>4, <2>1 DEF IInv, DeliveredOnce
  <2>2. CASE k # k0
      BY <1>2, <2>2 DEF IInv, DeliveredOnce
  <2> QED
      BY <2>1, <2>2
<1> QED
    BY <1>9, <1>10 DEF DeliveredOnce

\* Reorder: the clear bit it fills belongs to a number never delivered.
LEMMA ReorderExact ==
    ASSUME IInv, NEW w \in Worker, NEW p \in Packet, Reorder(w, p)
    PROVE  WindowExact' /\ DeliveredOnce'
<1> DEFINE k0 == p.key
           m == maxSeq[k0]
<1>1. /\ sessions' = sessions /\ maxSeq' = maxSeq
      /\ k0 \in sessions /\ p.seq <= m
      /\ m - p.seq \in Offset /\ m - p.seq \notin seenBits[k0]
      /\ \A k \in Key \ {k0} : seenBits'[k] = seenBits[k]
      /\ seenBits'[k0] = seenBits[k0] \cup {m - p.seq}
    BY PacketParts DEF IInv, TypeOK, Reorder
<1>2. /\ \A k \in Key \ {k0} : count'[k] = count[k]
      /\ count'[k0] = [count[k0] EXCEPT ![p.seq] = @ + 1]
    BY DeliverOther DEF IInv, Reorder
<1>3. TrackerExact(k0) /\ m \in SeqNo /\ m \in Nat
    BY <1>1, PacketParts, AntiReplayAssumption
       DEF IInv, WindowExact, TrackerExact
<1>4. count[k0][p.seq] = 0
    BY <1>1, <1>3, PacketParts DEF IInv, TypeOK, TrackerExact
<1>5. \A q \in SeqNo : count'[k0][q] = IF q = p.seq THEN 1 ELSE count[k0][q]
    BY <1>2, <1>4, PacketParts DEF IInv, TypeOK
<1>6. ASSUME NEW q \in SeqNo
      PROVE  /\ q > m => count'[k0][q] = 0
             /\ m - q \in Offset
                => (count'[k0][q] > 0 <=> m - q \in seenBits'[k0])
    BY <1>1, <1>3, <1>5, PacketParts, AntiReplayAssumption DEF TrackerExact
<1>7. TrackerExact(k0)'
    BY <1>1, <1>3, <1>5, <1>6, PacketParts DEF TrackerExact, Offset
<1>8. \A k \in Key \ {k0} : TrackerExact(k) => TrackerExact(k)'
    BY <1>1, <1>2 DEF TrackerExact
<1>9. WindowExact'
    BY <1>1, <1>2, <1>7, <1>8 DEF IInv, WindowExact
<1>10. ASSUME NEW k \in Key, NEW q \in SeqNo PROVE count'[k][q] <= 1
  <2>1. CASE k = k0
      BY <1>5, <2>1 DEF IInv, DeliveredOnce
  <2>2. CASE k # k0
      BY <1>2, <2>2 DEF IInv, DeliveredOnce
  <2> QED
      BY <2>1, <2>2
<1> QED
    BY <1>9, <1>10 DEF DeliveredOnce

\* The invariant is inductive: the three delivering steps are the lemmas above
\* and no other step touches a window or a counter.
LEMMA InvStep == IInv /\ [Next]_vars => IInv'
<1> SUFFICES ASSUME IInv, [Next]_vars PROVE WindowExact' /\ DeliveredOnce'
    BY TypeStep DEF IInv
<1> DEFINE Same == UNCHANGED <<sessions, maxSeq, seenBits, count>>
<1>1. Same => WindowExact' /\ DeliveredOnce'
    BY DEF IInv, WindowExact, DeliveredOnce, TrackerExact
<1>2. CASE Tick
    BY <1>1, <1>2 DEF Tick
<1>3. ASSUME NEW w \in Worker, NEW p \in Packet, Arrive(w, p) PROVE Same
    BY <1>3 DEF Arrive
<1>4. ASSUME NEW w \in Worker, NEW p \in Packet,
             \/ DropStaleSession(w, p) \/ RefuseTracker(w, p) \/ DropReplay(w, p)
      PROVE  Same
    BY <1>4 DEF DropStaleSession, RefuseTracker, DropReplay
<1>5. CASE UNCHANGED vars
    BY <1>1, <1>5 DEF vars
<1> QED
    BY <1>1, <1>2, <1>3, <1>4, <1>5, OpenExact, AdvanceExact, ReorderExact
       DEF Next, Accept

\* The inductive invariant holds initially and forever.
LEMMA Invariance == Spec => []IInv
<1>1. Init => IInv
    BY AntiReplayAssumption
       DEF Init, IInv, TypeOK, WindowExact, DeliveredOnce, Key, Offset
<1> QED
    BY <1>1, InvStep, PTL DEF Spec

\* No number is delivered twice within a session, for any window and any
\* number of goroutines.
THEOREM NoReplay == Spec => []DeliveredOnce
<1>1. IInv => DeliveredOnce
    BY DEF IInv
<1> QED
    BY <1>1, Invariance, PTL

\* The bitmap always tells exactly which numbers it covers were delivered.
THEOREM ExactWindow == Spec => []WindowExact
<1>1. IInv => WindowExact
    BY DEF IInv
<1> QED
    BY <1>1, Invariance, PTL

-----------------------------------------------------------------------------
\* What the cross-session test relies on: an origin's newest session and newest
\* timestamp are at least those of every session it has delivered from.
LatestInv ==
    \A k \in Key :
      /\ newestTs[k] <= latestSeen[k[1]]
      /\ k \in sessions => k[2] <= latestSession[k[1]]
      /\ k \notin sessions => newestTs[k] = 0

\* The three delivering steps move the history and the latest values together.
LEMMA DeliverLatest ==
    ASSUME TypeOK, LatestInv, NEW p \in Packet, NoteLatest(p), Deliver(p),
           sessions' = sessions \cup {p.key}
    PROVE  LatestInv'
<1> SUFFICES ASSUME NEW k \in Key
             PROVE  /\ newestTs'[k] <= latestSeen'[k[1]]
                    /\ k \in sessions' => k[2] <= latestSession'[k[1]]
                    /\ k \notin sessions' => newestTs'[k] = 0
    BY DEF LatestInv
<1>1. k[1] \in Origin /\ k[2] \in Nat
  <2>1. k[1] \in Origin /\ k[2] \in SessionID
      BY DEF Key
  <2> QED
      BY <2>1, AntiReplayAssumption
<1>2. /\ newestTs[k] \in Nat /\ latestSeen[k[1]] \in Nat
      /\ latestSession[k[1]] \in Nat
    BY <1>1 DEF TypeOK
<1>3. /\ latestSeen'[k[1]] >= latestSeen[k[1]]
      /\ latestSession'[k[1]] >= latestSession[k[1]]
      /\ k = p.key => latestSeen'[k[1]] >= p.ts /\ latestSession'[k[1]] >= k[2]
    BY <1>1, <1>2, PacketParts DEF NoteLatest, Larger, TypeOK
<1>4. newestTs'[k] = IF k = p.key THEN Larger(newestTs[k], p.ts) ELSE newestTs[k]
    BY PacketParts DEF Deliver, TypeOK
<1>5. latestSeen'[k[1]] \in Nat /\ latestSession'[k[1]] \in Nat
    BY <1>1, NoteLatestType
<1>6. newestTs'[k] <= latestSeen'[k[1]]
    BY <1>2, <1>3, <1>4, <1>5, PacketParts DEF Larger, LatestInv
<1>7. k \in sessions' => k[2] <= latestSession'[k[1]]
    BY <1>1, <1>2, <1>3, <1>5 DEF LatestInv
<1>8. k \notin sessions' => newestTs'[k] = 0
    BY <1>4 DEF LatestInv
<1> QED
    BY <1>6, <1>7, <1>8

\* A replay that is dropped may still raise the latest values, never lower them.
LEMMA DropLatest ==
    ASSUME TypeOK, LatestInv, NEW p \in Packet, NoteLatest(p),
           UNCHANGED <<sessions, newestTs>>
    PROVE  LatestInv'
<1> SUFFICES ASSUME NEW k \in Key
             PROVE  /\ newestTs[k] <= latestSeen'[k[1]]
                    /\ k \in sessions => k[2] <= latestSession'[k[1]]
                    /\ k \notin sessions => newestTs[k] = 0
    BY DEF LatestInv
<1>1. k[1] \in Origin /\ k[2] \in Nat
  <2>1. k[1] \in Origin /\ k[2] \in SessionID
      BY DEF Key
  <2> QED
      BY <2>1, AntiReplayAssumption
<1>2. /\ newestTs[k] \in Nat /\ latestSeen[k[1]] \in Nat
      /\ latestSession[k[1]] \in Nat
    BY <1>1 DEF TypeOK
<1>3. /\ latestSeen'[k[1]] >= latestSeen[k[1]]
      /\ latestSession'[k[1]] >= latestSession[k[1]]
      /\ latestSeen'[k[1]] \in Nat /\ latestSession'[k[1]] \in Nat
    BY <1>1, <1>2, PacketParts, NoteLatestType DEF NoteLatest, Larger, TypeOK
<1> QED
    BY <1>1, <1>2, <1>3 DEF LatestInv

\* The latest values stay ahead of the history in every step.
LEMMA LatestStep == TypeOK /\ LatestInv /\ [Next]_vars => LatestInv'
<1> SUFFICES ASSUME TypeOK, LatestInv, [Next]_vars PROVE LatestInv'
    OBVIOUS
<1> DEFINE Same == UNCHANGED <<sessions, latestSeen, latestSession, newestTs>>
<1>1. Same => LatestInv'
    BY DEF LatestInv
<1>2. CASE Tick
    BY <1>1, <1>2 DEF Tick
<1>3. ASSUME NEW w \in Worker, NEW p \in Packet,
             \/ Arrive(w, p) \/ DropStaleSession(w, p) \/ RefuseTracker(w, p)
      PROVE  Same
    BY <1>3 DEF Arrive, DropStaleSession, RefuseTracker
<1>4. ASSUME NEW w \in Worker, NEW p \in Packet,
             OpenSession(w, p) \/ Advance(w, p) \/ Reorder(w, p)
      PROVE  LatestInv'
  <2>1. sessions' = sessions \cup {p.key} /\ NoteLatest(p) /\ Deliver(p)
      BY <1>4 DEF OpenSession, Advance, Reorder
  <2> QED
      BY <2>1, DeliverLatest
<1>5. ASSUME NEW w \in Worker, NEW p \in Packet, DropReplay(w, p)
      PROVE  LatestInv'
    BY <1>5, DropLatest DEF DropReplay
<1>6. CASE UNCHANGED vars
    BY <1>1, <1>6 DEF vars
<1> QED
    BY <1>1, <1>2, <1>3, <1>4, <1>5, <1>6 DEF Next, Accept

\* A delivery of an older session is at least as new as every delivery of a
\* later one: the cross-session test protects what it is meant to protect.
THEOREM CrossSession == Spec => NoLateOldSession
<1> DEFINE Late ==
      \A k, l \in Key :
        (count'[k] # count[k] /\ k[1] = l[1] /\ k[2] < l[2])
        => \E w \in Worker : call[w] # Idle /\ call[w].key = k
                             /\ call[w].ts >= newestTs[l]
<1>1. Init => LatestInv
  <2> SUFFICES ASSUME Init, NEW k \in Key
               PROVE  /\ newestTs[k] <= latestSeen[k[1]]
                      /\ k \notin sessions /\ newestTs[k] = 0
      BY DEF LatestInv
  <2>1. k[1] \in Origin
      BY DEF Key
  <2> QED
      BY <2>1 DEF Init
<1>2. TypeOK /\ LatestInv /\ [Next]_vars => [Late]_vars
  <2> SUFFICES ASSUME TypeOK, LatestInv, Next, NEW k \in Key, NEW l \in Key,
                      count'[k] # count[k], k[1] = l[1], k[2] < l[2]
               PROVE  \E w \in Worker : call[w] # Idle /\ call[w].key = k
                                       /\ call[w].ts >= newestTs[l]
      OBVIOUS
  <2>1. PICK w \in Worker, p \in Packet :
             OpenSession(w, p) \/ Advance(w, p) \/ Reorder(w, p)
      BY DEF Next, Accept, Tick, Arrive, DropStaleSession, RefuseTracker,
             DropReplay
  <2>2. call[w] = p /\ ~StaleSession(p) /\ Deliver(p)
      BY <2>1 DEF OpenSession, Advance, Reorder
  <2>3. k = p.key
      BY <2>2, DeliverOther
  <2>4. p # Idle
      BY DEF Packet, Idle
  <2>5. l[1] \in Origin /\ l[2] \in Nat /\ k[2] \in Nat
    <3>1. l[1] \in Origin /\ l[2] \in SessionID /\ k[2] \in SessionID
        BY DEF Key
    <3> QED
        BY <3>1, AntiReplayAssumption
  <2>6. newestTs[l] \in Nat /\ latestSeen[l[1]] \in Nat /\ latestSession[l[1]] \in Nat
      BY <2>5 DEF TypeOK
  <2>7. CASE l \notin sessions
      BY <2>2, <2>3, <2>4, <2>7, PacketParts DEF LatestInv
  <2>8. CASE l \in sessions
    <3>1. l[2] <= latestSession[l[1]] /\ newestTs[l] <= latestSeen[l[1]]
        BY <2>8 DEF LatestInv
    <3>2. p.ts >= latestSeen[l[1]]
        BY <2>2, <2>3, <2>5, <2>6, <3>1, PacketParts DEF StaleSession
    <3> QED
        BY <2>2, <2>3, <2>4, <2>6, <3>1, <3>2, PacketParts
  <2> QED
      BY <2>7, <2>8
<1>3. NoLateOldSession <=> [][Late]_vars
    BY DEF NoLateOldSession
<1> QED
    BY <1>1, <1>2, <1>3, LatestStep, TypeCorrect, PTL DEF Spec

-----------------------------------------------------------------------------
\* Every origin and session is a sliding window: a step of the filter is a
\* Deliver step of the abstract window of the packet's session, and leaves the
\* windows of the others alone.
THEOREM Refinement == Spec => StreamsAreWindows
<1> DEFINE Window(k) == Stream(k)!Next \/ UNCHANGED count[k]
<1>1. Init => \A k \in Key : Stream(k)!Init
    BY DEF Init, Stream!Init
<1>2. IInv /\ [Next]_vars => [\A k \in Key : Window(k)]_count
  <2> SUFFICES ASSUME IInv, Next, count' # count, NEW k \in Key,
                      count'[k] # count[k]
               PROVE  Stream(k)!Next
      BY DEF vars
  <2>1. PICK w \in Worker, p \in Packet :
             OpenSession(w, p) \/ Advance(w, p) \/ Reorder(w, p)
      BY DEF Next, Accept, Tick, Arrive, DropStaleSession, RefuseTracker,
             DropReplay
  <2>2. Deliver(p)
      BY <2>1 DEF OpenSession, Advance, Reorder
  <2>3. k = p.key /\ count'[k] = [count[k] EXCEPT ![p.seq] = @ + 1]
      BY <2>2, DeliverOther DEF IInv
  <2>4. count[k][p.seq] = 0 /\ count'[k] = [count[k] EXCEPT ![p.seq] = 1]
    <3>1. count[k][p.seq] \in Nat /\ count'[k][p.seq] = count[k][p.seq] + 1
        BY <2>3, PacketParts DEF IInv, TypeOK
    <3>2. count'[k][p.seq] <= 1
        BY <2>1, OpenExact, AdvanceExact, ReorderExact, PacketParts
           DEF DeliveredOnce
    <3> QED
        BY <2>3, <3>1, <3>2
  <2>5. ASSUME NEW r \in SeqNo, count[k][r] > 0
        PROVE  r - p.seq < WindowSize
    <3>1. r \in Nat /\ WindowSize \in Nat \ {0}
        BY AntiReplayAssumption
    <3>2. CASE OpenSession(w, p)
        BY <2>3, <2>5, <3>2 DEF IInv, WindowExact, OpenSession
    <3>3. CASE Advance(w, p) \/ Reorder(w, p)
      <4>1. /\ TrackerExact(k)
            /\ p.seq > maxSeq[k] \/ maxSeq[k] - p.seq \in Offset
          BY <2>3, <3>3 DEF Advance, Reorder, IInv, WindowExact
      <4>2. maxSeq[k] \in Nat /\ r <= maxSeq[k]
        <5>1. maxSeq[k] \in Nat
            BY <4>1, AntiReplayAssumption DEF TrackerExact
        <5>2. ~(r > maxSeq[k])
            BY <2>5, <4>1 DEF TrackerExact
        <5> QED
            BY <3>1, <5>1, <5>2
      <4> QED
          BY <3>1, <4>1, <4>2, PacketParts DEF Offset
    <3> QED
        BY <2>1, <3>2, <3>3
  <2> QED
      BY <2>3, <2>4, <2>5, PacketParts
         DEF Stream!Next, Stream!Deliver, Stream!Fresh
<1>3. StreamsAreWindows
      <=> (\A k \in Key : Stream(k)!Init) /\ [][\A k \in Key : Window(k)]_count
    BY DEF StreamsAreWindows
<1> QED
    BY <1>1, <1>2, <1>3, Invariance, PTL DEF Spec
=============================================================================
