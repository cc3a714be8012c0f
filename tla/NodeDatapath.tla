---------------------------- MODULE NodeDatapath ----------------------------
(***************************************************************************)
(* What happens to the packets one node sends another: the sender's        *)
(* forwarder (src/src/cmd/ipvn7/diagnostics.go) and the receive loop       *)
(* (src/src/cmd/ipvn7/main.go), which joins the session manager, the       *)
(* anti-replay filter, the firewall and the TUN router.                    *)
(*                                                                         *)
(* The filter is used through what it promises, proved in AntiReplay: it   *)
(* accepts a sequence of an origin and a session at most once.  It may     *)
(* refuse more, and so may the network: net keeps every packet and a       *)
(* packet may be received late, again, or never.                           *)
(*                                                                         *)
(* A key is an attempt of the sender and the receiver's run whose KEM key  *)
(* pair opened it (see PQCSession).  Both nodes may restart: sessions, KEM *)
(* keys, sequence counters and windows are in memory only.                 *)
(***************************************************************************)
EXTENDS Integers, FiniteSets

CONSTANTS MaxAttempts,   \* bound on the sender's CreateHandshakeInitPacket calls
          MaxData,       \* bound on the payloads it sends
          MaxTxRestarts, \* bound on the sender's restarts
          MaxRxRestarts  \* bound on the receiver's restarts

ASSUME NodeDatapathAssumption ==
    {MaxAttempts, MaxData, MaxTxRestarts, MaxRxRestarts} \subseteq Nat

VARIABLES seqCounter,   \* the sender's, shared by all it sends
          txSession,    \* the sender's session with the receiver
          pending,      \* the sender's open attempt
          attempts, sent, txRestarts,
          authorised,   \* whether the receiver's firewall accepts the sender
          rxSession,    \* the receiver's session with the sender
          rxRun,        \* which start of the receiver this is
          accepted,     \* what the receiver's filter has accepted
          answered,     \* keys the receiver has sent a response for
          net,
          done          \* history: every packet answered or injected

sender == <<seqCounter, txSession, pending, attempts, sent, txRestarts>>
receiver == <<authorised, rxSession, rxRun, accepted, answered, done>>
vars == <<sender, receiver, net>>

None == [none |-> TRUE]
Run == 0 .. MaxRxRestarts
Key == [attempt : 1 .. MaxAttempts, run : Run]
Seq0 == 0 .. MaxAttempts + MaxData
InitMsg == [type : {"init"}, attempt : 1 .. MaxAttempts, seq : Seq0]
DataMsg == [type : {"data"}, id : 1 .. MaxData, seq : Seq0, key : Key \cup {None}]

\* The origin is the source DID as written, and an init writes it differently.
Slot == [type : {"init", "data"}, session : Key \cup {None}, seq : Seq0]
Outcome == {"answered", "opened", "raw"}
Processed == [pkt : InitMsg \cup DataMsg, session : Key \cup {None},
              run : Run, outcome : Outcome, times : 1 .. 2]

TypeOK ==
    /\ seqCounter \in Seq0
    /\ {txSession, pending, rxSession} \subseteq Key \cup {None}
    /\ attempts \in 0 .. MaxAttempts /\ sent \in 0 .. MaxData
    /\ txRestarts \in 0 .. MaxTxRestarts /\ rxRun \in Run
    /\ authorised \in BOOLEAN
    /\ accepted \in SUBSET Slot
    /\ answered \in SUBSET Key
    /\ net \in SUBSET (InitMsg \cup DataMsg)
    /\ done \in SUBSET Processed

Init ==
    /\ seqCounter = 0 /\ attempts = 0 /\ sent = 0 /\ txRestarts = 0
    /\ txSession = None /\ pending = None /\ rxSession = None
    /\ authorised \in BOOLEAN
    /\ rxRun = 0
    /\ accepted = {} /\ answered = {} /\ net = {} /\ done = {}
-----------------------------------------------------------------------------
\* The sender encapsulates for the KEM key of run r, maybe an earlier one.
CreateHandshakeInitPacket(r) ==
    /\ attempts < MaxAttempts /\ r <= rxRun
    /\ attempts' = attempts + 1
    /\ seqCounter' = seqCounter + 1
    /\ pending' = [attempt |-> attempts', run |-> r]
    /\ net' = net \cup
         {[type |-> "init", attempt |-> attempts', seq |-> seqCounter']}
    /\ UNCHANGED <<txSession, sent, txRestarts, receiver>>

\* The response to the open attempt arrives; any other only uses it up.
HandleHandshakeRespPacket(key) ==
    /\ pending # None
    /\ pending' = None
    /\ txSession' = IF key = pending THEN key ELSE txSession
    /\ UNCHANGED <<seqCounter, attempts, sent, txRestarts, receiver, net>>

\* Sealed under the session if there is one, and else in the clear with
\* sequence 0.
ForwardToMesh ==
    /\ sent < MaxData
    /\ sent' = sent + 1
    /\ seqCounter' = IF txSession = None THEN seqCounter ELSE seqCounter + 1
    /\ net' = net \cup
         {[type |-> "data", id |-> sent', key |-> txSession,
           seq |-> IF txSession = None THEN 0 ELSE seqCounter']}
    /\ UNCHANGED <<txSession, pending, attempts, txRestarts, receiver>>

RestartSender ==
    /\ txRestarts < MaxTxRestarts
    /\ txRestarts' = txRestarts + 1
    /\ seqCounter' = 0 /\ txSession' = None /\ pending' = None
    /\ UNCHANGED <<attempts, sent, receiver, net>>
-----------------------------------------------------------------------------
\* The loop files a packet under the session the receiver has with its source
\* at this moment, whatever session the packet belongs to.
SlotOf(pkt) == [type |-> pkt.type, session |-> rxSession, seq |-> pkt.seq]

\* Mutant: the filter accepts everything.
AcceptAll(pkt) == accepted' = accepted \cup {SlotOf(pkt)} /\ pkt.seq \in Nat

\* Mutant: handshakes pass without the filter.
AcceptInits(pkt) ==
    \/ (pkt.seq = 0 \/ pkt.type = "init") /\ UNCHANGED accepted
    \/ /\ pkt.seq > 0 /\ SlotOf(pkt) \notin accepted
       /\ accepted' = accepted \cup {SlotOf(pkt)}

Accept(pkt) ==
    \/ pkt.seq = 0 /\ UNCHANGED accepted
    \/ /\ pkt.seq > 0 /\ SlotOf(pkt) \notin accepted
       /\ accepted' = accepted \cup {SlotOf(pkt)}

Note(pkt, outcome) ==
    LET entry(t) == [pkt |-> pkt, session |-> rxSession, run |-> rxRun,
                     outcome |-> outcome, times |-> t]
    IN  done' = done \cup {entry(IF entry(1) \in done THEN 2 ELSE 1)}

\* Mutant: the response goes out and the session is not registered.
AnswerOnly(pkt) ==
    /\ pkt.type = "init"
    /\ Accept(pkt)
    /\ IF authorised
       THEN /\ answered' = answered \cup {[attempt |-> pkt.attempt, run |-> rxRun]}
            /\ Note(pkt, "answered")
       ELSE UNCHANGED <<answered, done>>
    /\ UNCHANGED <<authorised, rxSession, rxRun, sender, net>>

HandleHandshakeInitPacket(pkt) ==
    /\ pkt.type = "init"
    /\ Accept(pkt)
    /\ LET key == [attempt |-> pkt.attempt, run |-> rxRun] IN
       IF authorised
       THEN /\ rxSession' = key
            /\ answered' = answered \cup {key}
            /\ Note(pkt, "answered")
       ELSE UNCHANGED <<rxSession, answered, done>>
    /\ UNCHANGED <<authorised, rxRun, sender, net>>

\* DecryptDataPacket, under the session there is with the source by now.
Opens(pkt) == rxSession # None /\ pkt.key = rxSession

\* Without a session a payload is injected as it came; one that does not open
\* is dropped.
HandleData(pkt) ==
    /\ pkt.type = "data"
    /\ Accept(pkt)
    /\ CASE authorised /\ rxSession = None -> Note(pkt, "raw")
         [] authorised /\ Opens(pkt) -> Note(pkt, "opened")
         [] OTHER -> UNCHANGED done
    /\ UNCHANGED <<authorised, rxSession, rxRun, answered, sender, net>>

AuthorizeDID ==
    /\ ~authorised
    /\ authorised' = TRUE
    /\ UNCHANGED <<rxSession, rxRun, accepted, answered, done, sender, net>>

RestartReceiver ==
    /\ rxRun < MaxRxRestarts
    /\ rxRun' = rxRun + 1
    /\ rxSession' = None /\ accepted' = {}
    /\ UNCHANGED <<authorised, answered, done, sender, net>>

Next ==
    \/ \E r \in Run : CreateHandshakeInitPacket(r)
    \/ \E key \in answered : HandleHandshakeRespPacket(key)
    \/ ForwardToMesh
    \/ RestartSender
    \/ \E pkt \in net : HandleHandshakeInitPacket(pkt) \/ HandleData(pkt)
    \/ AuthorizeDID
    \/ RestartReceiver

Spec == Init /\ [][Next]_vars
-----------------------------------------------------------------------------
Opened(id) == {e \in done : e.pkt.type = "data" /\ e.pkt.id = id
                            /\ e.outcome = "opened"}

\* A sealed payload is opened and injected once at most, though its copies may
\* be filed under different sessions and old inits may bring an old key back
\* (the receive loop: GetSession, Accept, DecryptDataPacket).
OpenedOnce ==
    \A id \in 1 .. MaxData :
      Cardinality(Opened(id)) <= 1 /\ \A e \in Opened(id) : e.times = 1

\* Ciphertext is injected in place of the payload only by a receiver that has
\* restarted since the payload was sealed: the sender seals only under a session
\* the receiver has, and a running receiver forgets none.
RawOnlyAfterRestart ==
    \A e \in done :
      (e.outcome = "raw" /\ e.pkt.key # None) => e.pkt.key.run < e.run

\* The loop from the filter to the response or the TUN device is one sliding
\* window per packet type and session, which begins anew with the run: what it
\* handles is recorded for good, and each record of a numbered packet is a step
\* of the window of its type, session and run, so that no number is handled twice
\* there.  (That a number far behind is refused is the filter's own promise.)
Number == 1 .. MaxAttempts + MaxData
Handled(run, type, session, q) ==
    {e \in done : /\ e.run = run /\ e.session = session
                  /\ e.pkt.type = type /\ e.pkt.seq = q}
Stream(run, type, session) ==
    INSTANCE SlidingWindow
    WITH SeqNo <- Number, WindowSize <- MaxAttempts + MaxData,
         count <- [q \in Number |-> Cardinality(Handled(run, type, session, q))]
NumbersHandledOnce ==
    /\ \A run \in Run, type \in {"init", "data"}, session \in Key \cup {None} :
         Stream(run, type, session)!Init
    /\ [][/\ done \subseteq done'
          /\ \A e \in done' \ done :
               e.pkt.seq # 0 => Stream(e.run, e.pkt.type, e.session)!Next]_done

\* session_adversarial_test.go:136 says that the filter rejects a captured
\* HandshakeInit sent again.  (The loop files the copy under the new session.)
HandshakeInitOnce ==
    \A d, e \in done :
      (d.pkt = e.pkt /\ d.pkt.type = "init" /\ d.run = e.run) => d = e
=============================================================================
