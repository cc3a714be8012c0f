------------------------ MODULE NodeDatapath_proofs ------------------------
(***************************************************************************)
(* The receive loop opens a sealed payload at most once, and injects       *)
(* ciphertext only after a restart, for any number of attempts, payloads   *)
(* and restarts of either node.                                            *)
(*                                                                         *)
(* What was opened determines its record in done but for how often it      *)
(* happened: the payload has one packet, the packet one key, and the key   *)
(* names the run of the receiver.  A second time needs the slot of that    *)
(* key and number to be free again in the same run, and it is not.         *)
(***************************************************************************)
EXTENDS NodeDatapath, FiniteSetTheorems, TLAPS

LEMMA BoundsAreNat ==
    /\ MaxAttempts \in Nat /\ MaxData \in Nat
    /\ MaxTxRestarts \in Nat /\ MaxRxRestarts \in Nat
BY NodeDatapathAssumption

\* A number is taken from the counter once for each packet at most.
CounterLags == seqCounter <= attempts + sent

\* A payload is in one packet; a sealed one has a number and a key that the
\* receiver answered with.
PacketsAreSealed ==
    \A p \in net : p.type = "data" =>
      /\ p.id <= sent
      /\ \A q \in net : q.type = "data" /\ q.id = p.id => q = p
      /\ p.key # None => p.seq > 0 /\ p.key \in answered

\* The receiver has a session from the moment it answers until it restarts, and
\* its key names the run it is in.
AnswersAreKept ==
    /\ txSession # None => txSession \in answered
    /\ rxSession # None => rxSession.run = rxRun
    /\ \A k \in answered : k.run <= rxRun /\ (k.run = rxRun => rxSession # None)

\* A record of an opening is that of its packet, and its slot stays taken for
\* the rest of the run.
OpeningsAreFiled ==
    \A e \in done : e.outcome = "opened" =>
      /\ e.pkt \in net /\ e.pkt.type = "data" /\ e.times = 1
      /\ e.pkt.key # None /\ e.session = e.pkt.key /\ e.run = e.pkt.key.run
      /\ e.run <= rxRun
      /\ e.run = rxRun
         => [type |-> "data", session |-> e.session, seq |-> e.pkt.seq] \in accepted

DatapathInv ==
    /\ TypeOK /\ CounterLags /\ PacketsAreSealed /\ AnswersAreKept
    /\ OpeningsAreFiled /\ RawOnlyAfterRestart

-----------------------------------------------------------------------------
\* The parts of what is in the network.
LEMMA PacketParts ==
    ASSUME TypeOK, NEW p \in net
    PROVE  /\ p \in InitMsg \cup DataMsg
           /\ p.type \in {"init", "data"} /\ p.seq \in Seq0 /\ p.seq \in Nat
           /\ p.type = "init" => p \in InitMsg /\ p.attempt \in 1 .. MaxAttempts
           /\ p.type = "data" => /\ p \in DataMsg /\ p.id \in 1 .. MaxData
                                 /\ p.key \in Key \cup {None}
<1>1. p \in InitMsg \cup DataMsg
    BY DEF TypeOK
<1>2. \A m \in InitMsg : m.type = "init" /\ m.seq \in Seq0 /\ m.attempt \in 1 .. MaxAttempts
    BY DEF InitMsg
<1>3. \A m \in DataMsg : /\ m.type = "data" /\ m.seq \in Seq0 /\ m.id \in 1 .. MaxData
                         /\ m.key \in Key \cup {None}
    BY DEF DataMsg
<1>4. Seq0 \subseteq Nat
    BY BoundsAreNat DEF Seq0
<1> QED
    BY <1>1, <1>2, <1>3, <1>4

\* What the filter and the record of the loop do to the types.
LEMMA AcceptType ==
    ASSUME TypeOK, NEW p \in net, Accept(p)
    PROVE  accepted' \in SUBSET Slot /\ accepted \subseteq accepted'
<1>1. SlotOf(p) \in Slot
    BY PacketParts DEF SlotOf, Slot, TypeOK
<1> QED
    BY <1>1 DEF Accept, TypeOK

DoneBefore(p, outcome) ==
    \E d \in done : d.pkt = p /\ d.session = rxSession /\ d.run = rxRun /\ d.outcome = outcome

LEMMA NoteType ==
    ASSUME TypeOK, NEW p \in net, NEW outcome \in Outcome, Note(p, outcome)
    PROVE  /\ done' \in SUBSET Processed
           /\ \A e \in done' : \/ e \in done
                               \/ /\ e.pkt = p /\ e.session = rxSession /\ e.run = rxRun
                                  /\ e.outcome = outcome
                                  /\ e.times = 1 \/ DoneBefore(p, outcome)
<1> DEFINE entry(t) == [pkt |-> p, session |-> rxSession, run |-> rxRun,
                        outcome |-> outcome, times |-> t]
<1>1. entry(1) \in Processed /\ entry(2) \in Processed
    BY PacketParts DEF Processed, TypeOK
<1>2. done' = done \cup {entry(IF entry(1) \in done THEN 2 ELSE 1)}
    BY DEF Note
<1>3. entry(1) \in done => DoneBefore(p, outcome)
    BY DEF DoneBefore
<1>4. done \in SUBSET Processed
    BY DEF TypeOK
<1>5. done' \in SUBSET Processed
    BY <1>1, <1>2, <1>4
<1>6. ASSUME NEW e \in done', e \notin done
      PROVE  /\ e.pkt = p /\ e.session = rxSession /\ e.run = rxRun /\ e.outcome = outcome
             /\ e.times = 1 \/ DoneBefore(p, outcome)
  <2>1. CASE entry(1) \in done
    <3>1. e = entry(2)
        BY <1>2, <1>6, <2>1
    <3> QED
        BY <1>3, <2>1, <3>1
  <2>2. CASE entry(1) \notin done
    <3>1. e = entry(1)
        BY <1>2, <1>6, <2>2
    <3> QED
        BY <3>1
  <2> QED
    BY <2>1, <2>2
<1> QED
    BY <1>5, <1>6

\* A step of either node, or of the network, leaves the types true.
LEMMA TypeStep == TypeOK /\ CounterLags /\ [Next]_vars => TypeOK' /\ CounterLags'
<1> USE BoundsAreNat
<1> SUFFICES ASSUME TypeOK, CounterLags, [Next]_vars PROVE TypeOK' /\ CounterLags'
    OBVIOUS
<1>0. /\ seqCounter \in Nat /\ attempts \in Nat /\ sent \in Nat /\ rxRun \in Nat
      /\ seqCounter <= attempts + sent
      /\ accepted \in SUBSET Slot /\ answered \in SUBSET Key
    BY DEF TypeOK, CounterLags, Seq0, Run
<1>1. ASSUME NEW r \in Run, CreateHandshakeInitPacket(r) PROVE TypeOK' /\ CounterLags'
  <2>1. /\ attempts' \in 1 .. MaxAttempts /\ seqCounter' \in Seq0
        /\ seqCounter' <= attempts' + sent'
    BY <1>0, <1>1 DEF CreateHandshakeInitPacket, TypeOK, Seq0
  <2>2. [type |-> "init", attempt |-> attempts', seq |-> seqCounter'] \in InitMsg
    BY <2>1 DEF InitMsg
  <2>3. pending' \in Key
    BY <1>1, <2>1 DEF CreateHandshakeInitPacket, Key
  <2> QED
    BY <1>1, <2>1, <2>2, <2>3 DEF CreateHandshakeInitPacket, TypeOK, receiver, CounterLags
<1>2. ASSUME NEW key \in answered, HandleHandshakeRespPacket(key) PROVE TypeOK' /\ CounterLags'
    BY <1>0, <1>2 DEF HandleHandshakeRespPacket, TypeOK, receiver, CounterLags
<1>3. CASE ForwardToMesh
  <2>1. sent' \in 1 .. MaxData /\ seqCounter' \in Seq0 /\ seqCounter' <= attempts' + sent'
    BY <1>0, <1>3 DEF ForwardToMesh, TypeOK, Seq0
  <2>2. 0 \in Seq0
    BY DEF Seq0
  <2>3. [type |-> "data", id |-> sent', key |-> txSession,
         seq |-> IF txSession = None THEN 0 ELSE seqCounter'] \in DataMsg
    BY <2>1, <2>2 DEF DataMsg, TypeOK
  <2> QED
    BY <1>3, <2>1, <2>3 DEF ForwardToMesh, TypeOK, receiver, CounterLags
<1>4. CASE RestartSender
    BY <1>0, <1>4 DEF RestartSender, TypeOK, receiver, Seq0, CounterLags
<1>5. ASSUME NEW p \in net, HandleHandshakeInitPacket(p) PROVE TypeOK' /\ CounterLags'
  <2>1. accepted' \in SUBSET Slot
    BY <1>5, AcceptType DEF HandleHandshakeInitPacket
  <2>2. [attempt |-> p.attempt, run |-> rxRun] \in Key
    BY <1>5, PacketParts DEF HandleHandshakeInitPacket, Key, TypeOK
  <2>3. done' \in SUBSET Processed
    BY <1>5, NoteType DEF HandleHandshakeInitPacket, TypeOK, Outcome
  <2> QED
    BY <1>0, <1>5, <2>1, <2>2, <2>3
       DEF HandleHandshakeInitPacket, TypeOK, sender, CounterLags
<1>6. ASSUME NEW p \in net, HandleData(p) PROVE TypeOK' /\ CounterLags'
  <2>1. accepted' \in SUBSET Slot
    BY <1>6, AcceptType DEF HandleData
  <2>2. done' = done \/ Note(p, "raw") \/ Note(p, "opened")
    BY <1>6 DEF HandleData
  <2>3. done' \in SUBSET Processed
    BY <2>2, NoteType DEF TypeOK, Outcome
  <2> QED
    BY <1>0, <1>6, <2>1, <2>3 DEF HandleData, TypeOK, sender, CounterLags
<1>7. CASE AuthorizeDID
    BY <1>0, <1>7 DEF AuthorizeDID, TypeOK, sender, CounterLags
<1>8. CASE RestartReceiver
    BY <1>0, <1>8 DEF RestartReceiver, TypeOK, sender, Run, CounterLags
<1>9. CASE UNCHANGED vars
    BY <1>0, <1>9 DEF vars, sender, receiver, TypeOK, CounterLags
<1> QED
    BY <1>1, <1>2, <1>3, <1>4, <1>5, <1>6, <1>7, <1>8, <1>9 DEF Next

\* A payload is sealed under a session the receiver has answered for, with a
\* number of its own.
LEMMA SealedStep ==
    ASSUME DatapathInv, [Next]_vars
    PROVE  PacketsAreSealed' /\ AnswersAreKept'
<1> USE BoundsAreNat
<1>0. /\ TypeOK /\ PacketsAreSealed /\ AnswersAreKept
      /\ seqCounter \in Nat /\ sent \in Nat /\ rxRun \in Nat
      /\ answered \subseteq Key /\ \A k \in answered : k.run \in Nat /\ k # None
    BY DEF DatapathInv, TypeOK, Seq0, Run, Key, None
<1>1. ASSUME NEW r \in Run, CreateHandshakeInitPacket(r)
      PROVE  PacketsAreSealed' /\ AnswersAreKept'
    BY <1>0, <1>1 DEF CreateHandshakeInitPacket, PacketsAreSealed, AnswersAreKept, receiver
<1>2. ASSUME NEW key \in answered, HandleHandshakeRespPacket(key)
      PROVE  PacketsAreSealed' /\ AnswersAreKept'
    BY <1>0, <1>2 DEF HandleHandshakeRespPacket, PacketsAreSealed, AnswersAreKept, receiver
<1>3. CASE ForwardToMesh
  <2> DEFINE new == [type |-> "data", id |-> sent', key |-> txSession,
                     seq |-> IF txSession = None THEN 0 ELSE seqCounter']
  <2>1. net' = net \cup {new} /\ sent' = sent + 1 /\ UNCHANGED receiver /\ txSession' = txSession
    BY <1>3 DEF ForwardToMesh
  <2>2. new.key # None => new.seq > 0 /\ new.key \in answered
    BY <1>0, <1>3 DEF ForwardToMesh, AnswersAreKept
  <2>3. \A p \in net : p.type = "data" => p.id \in Nat /\ p.id <= sent
    BY <1>0, PacketParts DEF PacketsAreSealed
  <2>4. PacketsAreSealed'
    BY <1>0, <2>1, <2>2, <2>3 DEF PacketsAreSealed, receiver
  <2>5. AnswersAreKept'
    BY <1>0, <2>1 DEF AnswersAreKept, receiver
  <2> QED
    BY <2>4, <2>5
<1>4. CASE RestartSender
    BY <1>0, <1>4 DEF RestartSender, PacketsAreSealed, AnswersAreKept, receiver
<1>5. ASSUME NEW p \in net, HandleHandshakeInitPacket(p)
      PROVE  PacketsAreSealed' /\ AnswersAreKept'
  <2> DEFINE key == [attempt |-> p.attempt, run |-> rxRun]
  <2>1. /\ UNCHANGED <<rxRun, sender, net>>
        /\ \/ rxSession' = key /\ answered' = answered \cup {key}
           \/ UNCHANGED <<rxSession, answered>>
    BY <1>5 DEF HandleHandshakeInitPacket
  <2>2. key # None /\ key.run = rxRun
    BY DEF None
  <2>3. PacketsAreSealed'
    BY <1>0, <2>1 DEF PacketsAreSealed, sender
  <2>4. AnswersAreKept'
    BY <1>0, <2>1, <2>2 DEF AnswersAreKept, sender
  <2> QED
    BY <2>3, <2>4
<1>6. ASSUME NEW p \in net, HandleData(p) PROVE PacketsAreSealed' /\ AnswersAreKept'
    BY <1>0, <1>6 DEF HandleData, PacketsAreSealed, AnswersAreKept, sender
<1>7. CASE AuthorizeDID
    BY <1>0, <1>7 DEF AuthorizeDID, PacketsAreSealed, AnswersAreKept, sender
<1>8. CASE RestartReceiver
    BY <1>0, <1>8 DEF RestartReceiver, PacketsAreSealed, AnswersAreKept, sender
<1>9. CASE UNCHANGED vars
    BY <1>0, <1>9 DEF vars, sender, receiver, PacketsAreSealed, AnswersAreKept
<1> QED
    BY <1>1, <1>2, <1>3, <1>4, <1>5, <1>6, <1>7, <1>8, <1>9 DEF Next

\* A step that opens nothing; what was accepted is forgotten with the run only.
OpensNothing ==
    /\ net \subseteq net' /\ done' = done
    /\ \/ accepted \subseteq accepted' /\ rxRun' = rxRun
       \/ rxRun' = rxRun + 1

LEMMA OpeningsLast ==
    ASSUME DatapathInv, OpensNothing
    PROVE  OpeningsAreFiled' /\ RawOnlyAfterRestart'
<1>1. rxRun \in Nat /\ \A e \in done : e.run \in Nat
    BY BoundsAreNat DEF DatapathInv, TypeOK, Run, Processed
<1>2. RawOnlyAfterRestart'
    BY DEF DatapathInv, RawOnlyAfterRestart, OpensNothing
<1>3. OpeningsAreFiled'
    BY <1>1 DEF DatapathInv, OpeningsAreFiled, OpensNothing
<1> QED
    BY <1>2, <1>3

\* A packet opens under the session it is filed under, so that its slot is the
\* one that tells whether it was opened before.
LEMMA OpeningStep ==
    ASSUME DatapathInv, [Next]_vars
    PROVE  OpeningsAreFiled' /\ RawOnlyAfterRestart'
<1> USE BoundsAreNat
<1>0. /\ TypeOK /\ PacketsAreSealed /\ AnswersAreKept /\ OpeningsAreFiled /\ RawOnlyAfterRestart
      /\ rxRun \in Nat /\ done \subseteq Processed
    BY DEF DatapathInv, TypeOK, Run
<1>1. ASSUME NEW r \in Run, CreateHandshakeInitPacket(r)
      PROVE  OpeningsAreFiled' /\ RawOnlyAfterRestart'
  <2>1. OpensNothing
    BY <1>1 DEF CreateHandshakeInitPacket, receiver, OpensNothing
  <2> QED
    BY <2>1, OpeningsLast
<1>2. ASSUME NEW key \in answered, HandleHandshakeRespPacket(key)
      PROVE  OpeningsAreFiled' /\ RawOnlyAfterRestart'
  <2>1. OpensNothing
    BY <1>2 DEF HandleHandshakeRespPacket, receiver, OpensNothing
  <2> QED
    BY <2>1, OpeningsLast
<1>3. CASE ForwardToMesh
  <2>1. OpensNothing
    BY <1>3 DEF ForwardToMesh, receiver, OpensNothing
  <2> QED
    BY <2>1, OpeningsLast
<1>4. CASE RestartSender
  <2>1. OpensNothing
    BY <1>4 DEF RestartSender, receiver, OpensNothing
  <2> QED
    BY <2>1, OpeningsLast
<1>5. ASSUME NEW p \in net, HandleHandshakeInitPacket(p)
      PROVE  OpeningsAreFiled' /\ RawOnlyAfterRestart'
  <2>1. accepted \subseteq accepted' /\ UNCHANGED <<rxRun, net>>
    BY <1>0, <1>5, AcceptType DEF HandleHandshakeInitPacket
  <2>2. CASE UNCHANGED done
    <3>1. OpensNothing
        BY <2>1, <2>2 DEF OpensNothing
    <3> QED
        BY <3>1, OpeningsLast
  <2>3. CASE Note(p, "answered")
    <3>1. \A e \in done' : e \in done \/ e.outcome = "answered"
        BY <1>0, <2>3, NoteType DEF Outcome
    <3>2. RawOnlyAfterRestart'
        BY <1>0, <3>1 DEF RawOnlyAfterRestart
    <3>3. OpeningsAreFiled'
        BY <1>0, <2>1, <3>1 DEF OpeningsAreFiled
    <3> QED
        BY <3>2, <3>3
  <2> QED
    BY <1>5, <2>2, <2>3 DEF HandleHandshakeInitPacket
<1>6. ASSUME NEW p \in net, HandleData(p) PROVE OpeningsAreFiled' /\ RawOnlyAfterRestart'
  <2>0. p.type = "data" /\ Accept(p) /\ UNCHANGED <<rxSession, rxRun, net>>
    BY <1>6 DEF HandleData, sender
  <2>1. accepted \subseteq accepted'
    BY <1>0, <2>0, AcceptType
  <2>2. CASE UNCHANGED done
    <3>1. OpensNothing
        BY <2>0, <2>1, <2>2 DEF OpensNothing
    <3> QED
        BY <3>1, OpeningsLast
  <2>3. CASE authorised /\ rxSession = None /\ Note(p, "raw")
    <3>1. \A e \in done' :
            e \in done \/ (e.outcome = "raw" /\ e.pkt = p /\ e.run = rxRun)
      <4>1. Note(p, "raw") /\ "raw" \in Outcome
          BY <2>3 DEF Outcome
      <4> QED
          BY <1>0, <4>1, NoteType
    <3>2. p.key # None => p.key.run < rxRun
        BY <1>0, <2>0, <2>3 DEF PacketsAreSealed, AnswersAreKept, TypeOK, Key, Run
    <3>3. RawOnlyAfterRestart'
        BY <1>0, <3>1, <3>2 DEF RawOnlyAfterRestart
    <3>4. OpeningsAreFiled'
        BY <1>0, <2>0, <2>1, <3>1 DEF OpeningsAreFiled
    <3> QED
        BY <3>3, <3>4
  <2>4. CASE authorised /\ Opens(p) /\ Note(p, "opened")
    <3>1. rxSession # None /\ p.key = rxSession /\ p.key.run = rxRun /\ p.seq > 0
        BY <1>0, <2>0, <2>4 DEF Opens, PacketsAreSealed, AnswersAreKept
    <3>2. SlotOf(p) \notin accepted /\ SlotOf(p) \in accepted'
        BY <1>0, <2>0, <3>1, PacketParts DEF Accept
    <3>3. SlotOf(p) = [type |-> "data", session |-> p.key, seq |-> p.seq]
        BY <2>0, <3>1 DEF SlotOf
    <3>4. ASSUME NEW e \in done', e \notin done
          PROVE  /\ e.pkt = p /\ e.session = p.key /\ e.run = rxRun
                 /\ e.outcome = "opened" /\ e.times = 1
      <4>1. /\ e.pkt = p /\ e.session = p.key /\ e.run = rxRun /\ e.outcome = "opened"
            /\ e.times = 1 \/ DoneBefore(p, "opened")
          BY <1>0, <2>4, <3>1, <3>4, NoteType DEF Outcome
      <4>2. ~DoneBefore(p, "opened")
          BY <1>0, <3>1, <3>2, <3>3 DEF DoneBefore, OpeningsAreFiled
      <4> QED
          BY <4>1, <4>2
    <3>5. RawOnlyAfterRestart'
        BY <1>0, <3>4 DEF RawOnlyAfterRestart
    <3>6. OpeningsAreFiled'
        BY <1>0, <2>0, <2>1, <3>1, <3>2, <3>3, <3>4 DEF OpeningsAreFiled
    <3> QED
        BY <3>5, <3>6
  <2> QED
    BY <1>6, <2>2, <2>3, <2>4 DEF HandleData
<1>7. CASE AuthorizeDID
  <2>1. OpensNothing
    BY <1>7 DEF AuthorizeDID, sender, OpensNothing
  <2> QED
    BY <2>1, OpeningsLast
<1>8. CASE RestartReceiver
  <2>1. OpensNothing
    BY <1>8 DEF RestartReceiver, sender, OpensNothing
  <2> QED
    BY <2>1, OpeningsLast
<1>9. CASE UNCHANGED vars
  <2>1. OpensNothing
    BY <1>9 DEF vars, sender, receiver, OpensNothing
  <2> QED
    BY <2>1, OpeningsLast
<1> QED
    BY <1>1, <1>2, <1>3, <1>4, <1>5, <1>6, <1>7, <1>8, <1>9 DEF Next

LEMMA DatapathHolds == Spec => []DatapathInv
<1>1. Init => DatapathInv
    BY BoundsAreNat DEF Init, DatapathInv, TypeOK, CounterLags, PacketsAreSealed, AnswersAreKept,
        OpeningsAreFiled, RawOnlyAfterRestart, Seq0, Run
<1>2. DatapathInv /\ [Next]_vars => DatapathInv'
    BY TypeStep, SealedStep, OpeningStep DEF DatapathInv
<1> QED
    BY <1>1, <1>2, PTL DEF Spec

\* A sealed payload is opened and injected once at most (the receive loop:
\* GetSession, Accept, DecryptDataPacket).
THEOREM PayloadsOpenOnce == Spec => []OpenedOnce
<1>1. DatapathInv => OpenedOnce
  <2> SUFFICES ASSUME DatapathInv, NEW id \in 1 .. MaxData
               PROVE  Cardinality(Opened(id)) <= 1 /\ \A e \in Opened(id) : e.times = 1
    BY DEF OpenedOnce
  <2>1. \A e \in Opened(id) : e.times = 1
    BY DEF DatapathInv, OpeningsAreFiled, Opened
  <2>2. ASSUME NEW d \in Opened(id), NEW e \in Opened(id) PROVE d = e
    <3>1. d.pkt = e.pkt
        BY DEF DatapathInv, OpeningsAreFiled, PacketsAreSealed, Opened
    <3>2. d \in Processed /\ e \in Processed
        BY DEF DatapathInv, TypeOK, Opened
    <3>3. d.session = e.session /\ d.run = e.run /\ d.times = e.times /\ d.outcome = e.outcome
        BY <3>1 DEF DatapathInv, OpeningsAreFiled, Opened
    <3> QED
        BY <3>1, <3>2, <3>3 DEF Processed
  <2>3. Opened(id) = {} \/ \E e : Opened(id) = {e}
    BY <2>2
  <2>4. Cardinality(Opened(id)) <= 1
    <3>1. CASE Opened(id) = {}
        BY <3>1, FS_EmptySet
    <3>2. CASE \E e : Opened(id) = {e}
        BY <3>2, FS_Singleton
    <3> QED
        BY <2>3, <3>1, <3>2
  <2> QED
    BY <2>1, <2>4
<1> QED
    BY <1>1, DatapathHolds, PTL

\* Ciphertext is injected in place of the payload only by a receiver that has
\* restarted since (the branch of the loop without a session).
THEOREM RawAfterRestart == Spec => []RawOnlyAfterRestart
BY DatapathHolds, PTL DEF DatapathInv

-----------------------------------------------------------------------------
\* The slot that a record was filed under.
RecordSlot(e) == [type |-> e.pkt.type, session |-> e.session, seq |-> e.pkt.seq]

\* A numbered record of the present run has its slot taken, whatever became of
\* the packet.
NumbersAreFiled ==
    \A e \in done : /\ e.run <= rxRun
                    /\ e.pkt.seq # 0 /\ e.run = rxRun => RecordSlot(e) \in accepted

\* What a step does to the records: a restart forgets the slots and keeps the
\* records; otherwise the slots stay, and a record is that of a packet the filter
\* accepted in the same step.
Restarts == rxRun' = rxRun + 1 /\ UNCHANGED done
Records(p, outcome) ==
    p \in net /\ outcome \in Outcome /\ Accept(p) /\ Note(p, outcome) /\ UNCHANGED rxRun
Idles == UNCHANGED <<done, rxRun>> /\ accepted \subseteq accepted'

LEMMA RecordingStep ==
    ASSUME TypeOK, [Next]_vars
    PROVE  Restarts \/ Idles \/ \E p \in net, outcome \in Outcome : Records(p, outcome)
<1>1. ASSUME NEW r \in Run, CreateHandshakeInitPacket(r) PROVE Idles
    BY <1>1 DEF CreateHandshakeInitPacket, receiver, Idles
<1>2. ASSUME NEW key \in answered, HandleHandshakeRespPacket(key) PROVE Idles
    BY <1>2 DEF HandleHandshakeRespPacket, receiver, Idles
<1>3. ForwardToMesh => Idles
    BY DEF ForwardToMesh, receiver, Idles
<1>4. RestartSender => Idles
    BY DEF RestartSender, receiver, Idles
<1>5. ASSUME NEW p \in net, HandleHandshakeInitPacket(p)
      PROVE  Idles \/ Records(p, "answered")
    BY <1>5, AcceptType DEF HandleHandshakeInitPacket, Idles, Records, Outcome
<1>6. ASSUME NEW p \in net, HandleData(p)
      PROVE  Idles \/ Records(p, "raw") \/ Records(p, "opened")
    BY <1>6, AcceptType DEF HandleData, Idles, Records, Outcome
<1>7. AuthorizeDID => Idles
    BY DEF AuthorizeDID, Idles
<1>8. RestartReceiver => Restarts
    BY DEF RestartReceiver, Restarts
<1>9. UNCHANGED vars => Idles
    BY DEF vars, receiver, Idles
<1>10. "answered" \in Outcome /\ "raw" \in Outcome /\ "opened" \in Outcome
    BY DEF Outcome
<1> QED
    BY <1>1, <1>2, <1>3, <1>4, <1>5, <1>6, <1>7, <1>8, <1>9, <1>10 DEF Next

\* A numbered packet that is recorded found its slot free, and takes it.
LEMMA SlotIsTaken ==
    ASSUME TypeOK, NumbersAreFiled, NEW p \in net, NEW outcome \in Outcome,
           Records(p, outcome), p.seq # 0
    PROVE  /\ SlotOf(p) \notin accepted /\ accepted' = accepted \cup {SlotOf(p)}
           /\ Handled(rxRun, p.type, rxSession, p.seq) = {}
<1>1. SlotOf(p) \notin accepted /\ accepted' = accepted \cup {SlotOf(p)}
    BY PacketParts DEF Records, Accept
<1>2. ASSUME NEW e \in Handled(rxRun, p.type, rxSession, p.seq) PROVE FALSE
  <2>1. e \in done /\ e.run = rxRun /\ e.pkt.seq = p.seq /\ RecordSlot(e) = SlotOf(p)
    BY DEF Handled, RecordSlot, SlotOf
  <2> QED
    BY <1>1, <2>1 DEF NumbersAreFiled
<1> QED
    BY <1>1, <1>2

LEMMA FilingStep ==
    ASSUME TypeOK, NumbersAreFiled, [Next]_vars
    PROVE  NumbersAreFiled'
<1>0. rxRun \in Nat /\ \A e \in done : e.run \in Nat
    BY BoundsAreNat DEF TypeOK, Run, Processed
<1>1. CASE Restarts
    BY <1>0, <1>1 DEF Restarts, NumbersAreFiled
<1>2. CASE Idles
    BY <1>0, <1>2 DEF Idles, NumbersAreFiled
<1>3. ASSUME NEW p \in net, NEW outcome \in Outcome, Records(p, outcome)
      PROVE  NumbersAreFiled'
  <2>1. accepted \subseteq accepted' /\ rxRun' = rxRun
    BY <1>3, AcceptType DEF Records
  <2>2. ASSUME NEW e \in done', e \notin done
        PROVE  e.pkt = p /\ e.session = rxSession /\ e.run = rxRun
    BY <1>3, <2>2, NoteType DEF Records
  <2>3. ASSUME NEW e \in done', e \notin done, e.pkt.seq # 0
        PROVE  RecordSlot(e) \in accepted'
    <3>1. RecordSlot(e) = SlotOf(p)
        BY <2>2, <2>3 DEF RecordSlot, SlotOf
    <3> QED
        BY <1>3, <2>2, <2>3, <3>1, SlotIsTaken
  <2> QED
    BY <1>0, <2>1, <2>2, <2>3 DEF NumbersAreFiled
<1> QED
    BY <1>1, <1>2, <1>3, RecordingStep

\* The abstract step: the count of the record's number was zero and becomes one,
\* and the other numbers of its stream keep theirs.
LEMMA CountsMove ==
    ASSUME TypeOK, NumbersAreFiled, NEW p \in net, NEW outcome \in Outcome,
           Records(p, outcome), NEW e \in done', e \notin done, e.pkt.seq # 0
    PROVE  /\ e.pkt = p
           /\ Handled(e.run, e.pkt.type, e.session, e.pkt.seq) = {}
           /\ Handled(e.run, e.pkt.type, e.session, e.pkt.seq)' = {e}
           /\ \A q \in Number : q # e.pkt.seq =>
                Handled(e.run, e.pkt.type, e.session, q)'
                  = Handled(e.run, e.pkt.type, e.session, q)
<1> DEFINE entry(t) == [pkt |-> p, session |-> rxSession, run |-> rxRun,
                        outcome |-> outcome, times |-> t]
<1>1. e.pkt = p /\ e.session = rxSession /\ e.run = rxRun
    BY NoteType DEF Records
<1>2. Handled(e.run, e.pkt.type, e.session, e.pkt.seq) = {}
    BY <1>1, SlotIsTaken
<1>3. done' = done \cup {e}
  <2>1. done' = done \cup {entry(IF entry(1) \in done THEN 2 ELSE 1)}
    BY DEF Records, Note
  <2> QED
    BY <2>1
<1>4. ASSUME NEW q PROVE Handled(e.run, e.pkt.type, e.session, q)'
                         = {d \in done \cup {e} : /\ d.run = e.run /\ d.session = e.session
                                                  /\ d.pkt.type = e.pkt.type /\ d.pkt.seq = q}
    BY <1>3 DEF Handled
<1>5. Handled(e.run, e.pkt.type, e.session, e.pkt.seq)' = {e}
  <2>1. \A d \in done : ~(/\ d.run = e.run /\ d.session = e.session
                          /\ d.pkt.type = e.pkt.type /\ d.pkt.seq = e.pkt.seq)
    BY <1>2 DEF Handled
  <2> QED
    BY <1>4, <2>1
<1>6. ASSUME NEW q \in Number, q # e.pkt.seq
      PROVE  Handled(e.run, e.pkt.type, e.session, q)'
             = Handled(e.run, e.pkt.type, e.session, q)
    BY <1>4, <1>6 DEF Handled
<1> QED
    BY <1>1, <1>2, <1>5, <1>6

LEMMA DeliverStep ==
    ASSUME TypeOK, NumbersAreFiled, NEW p \in net, NEW outcome \in Outcome,
           Records(p, outcome), NEW e \in done', e \notin done, e.pkt.seq # 0
    PROVE  Stream(e.run, e.pkt.type, e.session)!Next
<1> DEFINE H(q) == Handled(e.run, e.pkt.type, e.session, q)
           before == [q \in Number |-> Cardinality(H(q))]
           after == [q \in Number |-> Cardinality(H(q)')]
           n == e.pkt.seq
<1>1. /\ e.pkt = p /\ H(n) = {} /\ H(n)' = {e}
      /\ \A q \in Number : q # n => H(q)' = H(q)
    BY CountsMove
<1>2. n \in Number
    BY <1>1, PacketParts, BoundsAreNat DEF Number, Seq0
<1>3. before[n] = 0 /\ Cardinality(H(n)') = 1
    BY <1>1, <1>2, FS_EmptySet, FS_Singleton
<1>4. after = [before EXCEPT ![n] = 1]
    BY <1>1, <1>2, <1>3
<1>5. \A r \in Number : r - n < MaxAttempts + MaxData
    BY <1>2, BoundsAreNat DEF Number
<1> QED
    BY <1>2, <1>3, <1>4, <1>5 DEF Stream!Next, Stream!Deliver, Stream!Fresh

\* The receive loop is one sliding window per packet type, session and run: no
\* numbered packet is answered or injected twice under the same session of the
\* same run (main.go: GetSession, Accept, and what follows).
THEOREM ReceiveLoopIsWindows == Spec => NumbersHandledOnce
<1> DEFINE Grows == /\ done \subseteq done'
                    /\ \A e \in done' \ done :
                         e.pkt.seq # 0 => Stream(e.run, e.pkt.type, e.session)!Next
           Empty == \A run \in Run, type \in {"init", "data"}, session \in Key \cup {None} :
                      Stream(run, type, session)!Init
<1>1. Init => Empty
  <2> SUFFICES ASSUME done = {}, NEW run, NEW type, NEW session
               PROVE  Stream(run, type, session)!Init
    BY DEF Init
  <2>1. \A q \in Number : Handled(run, type, session, q) = {}
    BY DEF Handled
  <2> QED
    BY <2>1, FS_EmptySet DEF Stream!Init
<1>2. Init => NumbersAreFiled
    BY DEF Init, NumbersAreFiled
<1>3. TypeOK /\ NumbersAreFiled /\ [Next]_vars => NumbersAreFiled'
    BY FilingStep
<1>4. TypeOK /\ NumbersAreFiled /\ [Next]_vars => [Grows]_done
  <2> SUFFICES ASSUME TypeOK, NumbersAreFiled, [Next]_vars, done' # done PROVE Grows
    OBVIOUS
  <2>1. PICK p \in net, outcome \in Outcome : Records(p, outcome)
    BY RecordingStep DEF Restarts, Idles
  <2>2. done \subseteq done'
    BY <2>1 DEF Records, Note
  <2> QED
    BY <2>1, <2>2, DeliverStep
<1>5. DatapathInv => TypeOK
    BY DEF DatapathInv
<1>6. NumbersHandledOnce <=> Empty /\ [][Grows]_done
    BY DEF NumbersHandledOnce
<1> QED
    BY <1>1, <1>2, <1>3, <1>4, <1>5, <1>6, DatapathHolds, PTL DEF Spec

\* No two records of a run share a slot, and a handshake init is numbered.
RecordsAreApart ==
    \A d, e \in done :
      d.pkt.seq # 0 /\ d.run = e.run /\ RecordSlot(d) = RecordSlot(e) => d = e
InitsAreNumbered ==
    /\ \A p \in net : p.type = "init" => p.seq # 0
    /\ \A e \in done : e.pkt \in net

LEMMA ApartStep ==
    ASSUME TypeOK, NumbersAreFiled, RecordsAreApart, [Next]_vars
    PROVE  RecordsAreApart'
<1>1. ASSUME NEW p \in net, NEW outcome \in Outcome, Records(p, outcome)
      PROVE  RecordsAreApart'
  <2>1. ASSUME NEW e \in done', e \notin done, e.pkt.seq # 0,
               NEW d \in done, d.run = e.run, RecordSlot(d) = RecordSlot(e)
        PROVE  FALSE
    <3>1. Handled(e.run, e.pkt.type, e.session, e.pkt.seq) = {}
        BY <1>1, <2>1, CountsMove
    <3>2. d \in Handled(e.run, e.pkt.type, e.session, e.pkt.seq)
        BY <2>1 DEF Handled, RecordSlot
    <3> QED
        BY <3>1, <3>2
  <2>2. ASSUME NEW d \in done', NEW e \in done', d \notin done, e \notin done PROVE d = e
    BY <1>1, <2>2 DEF Records, Note
  <2>3. \A d, e : RecordSlot(d) = RecordSlot(e) => d.pkt.seq = e.pkt.seq
    BY DEF RecordSlot
  <2> QED
    BY <2>1, <2>2, <2>3 DEF RecordsAreApart, RecordSlot
<1>2. CASE UNCHANGED done
    BY <1>2 DEF RecordsAreApart, RecordSlot
<1> QED
    BY <1>1, <1>2, RecordingStep DEF Restarts, Idles

LEMMA NumberedStep ==
    ASSUME TypeOK, InitsAreNumbered, [Next]_vars
    PROVE  InitsAreNumbered'
<1>1. seqCounter \in Nat
    BY BoundsAreNat DEF TypeOK, Seq0
<1>2. net \subseteq net' /\ \A p \in net' : p.type = "init" => p \in net \/ p.seq # 0
  <2>1. ASSUME NEW r \in Run, CreateHandshakeInitPacket(r)
        PROVE  net \subseteq net' /\ \A p \in net' : p \in net \/ p.seq = seqCounter + 1
      BY <2>1 DEF CreateHandshakeInitPacket
  <2>2. ForwardToMesh => net \subseteq net' /\ \A p \in net' : p \in net \/ p.type = "data"
      BY DEF ForwardToMesh
  <2>3. \/ \E r \in Run : CreateHandshakeInitPacket(r)
        \/ ForwardToMesh
        \/ UNCHANGED net
      BY DEF Next, HandleHandshakeRespPacket, RestartSender, HandleHandshakeInitPacket,
             HandleData, AuthorizeDID, RestartReceiver, vars
  <2> QED
      BY <1>1, <2>1, <2>2, <2>3
<1>3. \A e \in done' : e \in done \/ e.pkt \in net
  <2>1. ASSUME NEW p \in net, NEW outcome \in Outcome, Records(p, outcome)
        PROVE  \A e \in done' : e \in done \/ e.pkt \in net
      BY <2>1, NoteType DEF Records
  <2> QED
      BY <2>1, RecordingStep DEF Restarts, Idles
<1> QED
    BY <1>2, <1>3 DEF InitsAreNumbered

\* What remains true of HandshakeInitOnce: a captured handshake init is answered
\* once for each session it is filed under, and so again only after the session
\* with its origin has changed (main.go: the key of Accept).
InitOncePerSession ==
    \A d, e \in done :
      (d.pkt = e.pkt /\ d.pkt.type = "init" /\ d.run = e.run) =>
        d = e \/ d.session # e.session

THEOREM CapturedInits == Spec => []InitOncePerSession
<1>1. Init => NumbersAreFiled /\ RecordsAreApart /\ InitsAreNumbered
    BY DEF Init, NumbersAreFiled, RecordsAreApart, InitsAreNumbered
<1>2. TypeOK /\ NumbersAreFiled /\ RecordsAreApart /\ InitsAreNumbered /\ [Next]_vars
      => NumbersAreFiled' /\ RecordsAreApart' /\ InitsAreNumbered'
    BY FilingStep, ApartStep, NumberedStep
<1>3. DatapathInv => TypeOK
    BY DEF DatapathInv
<1>4. RecordsAreApart /\ InitsAreNumbered => InitOncePerSession
    BY DEF RecordsAreApart, InitsAreNumbered, InitOncePerSession, RecordSlot
<1> QED
    BY <1>1, <1>2, <1>3, <1>4, DatapathHolds, PTL DEF Spec
=============================================================================
