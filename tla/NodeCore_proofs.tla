--------------------------- MODULE NodeCore_proofs ---------------------------
(* Proofs about the path of a packet through a node (MCNodeCore): the sessions *)
(* and the order of their keys, the automaton and its modes, the register of   *)
(* the gateway, what is rationed, the life of keys, and the pooled buffers.    *)
(*                                                                             *)
(* Every step of the composition is a step of one part or leaves it alone, so  *)
(* each part has an inductive invariant of its own, proved for its own actions *)
(* and carried over by one lemma.                                              *)
EXTENDS MCNodeCore, ReplayWindow_proofs, FiniteSetTheorems, NaturalsInduction, SequenceTheorems,
        TLAPS

\* A step of the node is a step of a part or leaves all its variables alone.
LEMMA EveryStepIsOfItsParts ==
    ASSUME [CoreNext]_coreVars
    PROVE  /\ [PipelineNext]_pipelineVars /\ [GatewayNext]_gatewayVars
           /\ [SessionNext]_sessionVars /\ [WindowNext]_windowVars
           /\ [BatcherNext]_batcherVars /\ [ArbiterNext]_arbiterVars
           /\ [KeyNext]_keyVars /\ [CookieNext]_cookieVars
  BY DEF CoreNext, coreVars, PacketNext, TrafficNext, LinkNext, KeepingNext,
         PipelineNext, pipelineVars, lineOwn, GatewayNext, gatewayVars, linkVars, keepingVars

(***************************************************************************)
(* Sessions.                                                               *)
(***************************************************************************)

\* A session or an attempt is not the mark that there is none.
LEMMA NoneIsNothing ==
    /\ \A s \in Session : s # None
    /\ \A p \in Pending : p # None
    /\ \A f \in [peer : Node, key : Key] : f # None
<1>1. ASSUME NEW s \in Session PROVE s # None
  <2>1. DOMAIN s = {"key", "role"}
    BY DEF Session
  <2>2. DOMAIN None = {"none"}
    BY DEF None
  <2> QED BY <2>1, <2>2
<1>2. ASSUME NEW s \in Pending PROVE s # None
  <2>1. DOMAIN s = {"key", "at"}
    BY DEF Pending
  <2>2. DOMAIN None = {"none"}
    BY DEF None
  <2> QED BY <2>1, <2>2
<1>3. ASSUME NEW s \in [peer : Node, key : Key] PROVE s # None
  <2>1. DOMAIN s = {"peer", "key"}
    OBVIOUS
  <2>2. DOMAIN None = {"none"}
    BY DEF None
  <2> QED BY <2>1, <2>2
<1> QED BY <1>1, <1>2, <1>3

\* Attempts are numbered in the order of their creation, which never goes past the bound.
Numbered ==
    /\ Cardinality(DOMAIN born) \in Nat
    /\ DOMAIN born = 1 .. Cardinality(DOMAIN born)
    /\ \A h \in DOMAIN born : born[h] \in Nat

\* What is under way bears the date of its attempt, and what is being finished is in time.
Dated ==
    /\ \A p \in net : p.kind = "init" => p.hs \in DOMAIN born /\ born[p.hs] = p.ts
    /\ \A n, m \in Node : pending[n][m] # None =>
          pending[n][m].key.hs \in DOMAIN born /\ born[pending[n][m].key.hs] = pending[n][m].at
    /\ \A n \in Node : finishing[n] # None =>
          /\ finishing[n].key.hs \in DOMAIN born
          /\ now - born[finishing[n].key.hs] <= HandshakeLifetime

\* Who answers has installed the session before; who finishes has an answer.
Answered ==
    /\ \A p \in net : p.kind = "resp" =>
          \E j \in installed : /\ j.node = p.src /\ j.peer = p.dst
                               /\ j.session = [key |-> p.key, role |-> "responder"]
    /\ \A n \in Node : finishing[n] # None =>
          \E p \in net : /\ p.kind = "resp" /\ p.src = finishing[n].peer
                         /\ p.dst = n /\ p.key = finishing[n].key

\* The session i of n with m was opened by an attempt of n's.
Opened(i, n, m) == i.session.role = "initiator" /\ i.node = n /\ i.peer = m

\* What a node has under way towards a peer is younger than what it has completed, and an open
\* attempt is younger than the one being finished.
Ordered ==
    /\ \A i \in installed : i.session.key.hs \in DOMAIN born
    /\ \A n, m \in Node : pending[n][m] # None =>
          \A j \in installed : Opened(j, n, m) => j.session.key.hs < pending[n][m].key.hs
    /\ \A n \in Node : finishing[n] # None =>
          /\ \A j \in installed : Opened(j, n, finishing[n].peer)
                                    => j.session.key.hs < finishing[n].key.hs
          /\ pending[n][finishing[n].peer] # None
                => finishing[n].key.hs < pending[n][finishing[n].peer].key.hs

SessionInv == SessionTypeOK /\ Numbered /\ Dated /\ Answered /\ Ordered /\ KeyConfirmed

LEMMA SessionInvAtFirst == SessionInit => SessionInv
<1> SUFFICES ASSUME SessionInit PROVE SessionInv
  OBVIOUS
<1> USE DEF SessionInit
<1>1. SessionTypeOK
  BY PQCSessionAssumption DEF SessionTypeOK, NoPeers
<1>2. Numbered
  <2>1. DOMAIN born = {}
    OBVIOUS
  <2>2. Cardinality(DOMAIN born) = 0
    BY <2>1, FS_EmptySet
  <2> QED BY <2>1, <2>2 DEF Numbered
<1>3. Dated /\ Answered /\ Ordered /\ KeyConfirmed
  BY DEF Dated, Answered, Ordered, KeyConfirmed, NoPeers
<1> QED BY <1>1, <1>2, <1>3 DEF SessionInv

\* A new attempt has the next number, and is the youngest there is.
LEMMA ANewAttempt ==
    ASSUME SessionInv, NEW n \in Node, NEW m \in Node, NEW r \in 0 .. MaxRestarts,
           CreateHandshakeInitPacket(n, m, r)
    PROVE  SessionInv'
<1> DEFINE hs == Cardinality(DOMAIN born) + 1
           attempt == [key |-> [hs |-> hs, pair |-> <<m, r>>], at |-> now]
           init == [kind |-> "init", src |-> n, hs |-> hs, ts |-> now]
<1>1. /\ hs - 1 \in Nat /\ DOMAIN born = 1 .. (hs - 1) /\ hs \in Nat /\ hs \notin DOMAIN born
      /\ hs \in 1 .. MaxHandshakes /\ now \in 0 .. MaxNow
      /\ n # m
  BY PQCSessionAssumption DEF SessionInv, Numbered, CreateHandshakeInitPacket, SessionTypeOK
<1>2. /\ pending' = [pending EXCEPT ![n][m] = attempt]
      /\ net' = net \cup {init}
      /\ born' = [h \in 1 .. hs |-> IF h = hs THEN now ELSE born[h]]
      /\ UNCHANGED <<now, run, sessions, finishing, installed>>
  BY DEF CreateHandshakeInitPacket
<1> HIDE DEF hs
<1>3. attempt \in Pending /\ attempt # None /\ init \in InitMsg
  <2>1. attempt \in Pending /\ init \in InitMsg
    BY <1>1 DEF Pending, Key, Handshake, KeyPair, InitMsg
  <2> QED BY <2>1, NoneIsNothing
<1>4. /\ \A h \in DOMAIN born : h \in DOMAIN born' /\ born'[h] = born[h] /\ h < hs
      /\ hs \in DOMAIN born' /\ born'[hs] = now
      /\ DOMAIN born' = 1 .. hs
  BY <1>1, <1>2
<1>5. /\ pending[n] \in [Node -> Pending \cup {None}]
      /\ \A k, q \in Node : pending'[k][q] = IF k = n /\ q = m THEN attempt ELSE pending[k][q]
  BY <1>2 DEF SessionInv, SessionTypeOK
<1> HIDE DEF attempt, init
<1>6. SessionTypeOK'
  <2>1. pending' \in [Node -> [Node -> Pending \cup {None}]]
    BY <1>2, <1>3, <1>5 DEF SessionInv, SessionTypeOK
  <2>2. net' \in SUBSET (InitMsg \cup RespMsg)
    BY <1>2, <1>3 DEF SessionInv, SessionTypeOK
  <2>3. DOMAIN born' \subseteq Handshake
    BY <1>1, <1>4, PQCSessionAssumption DEF Handshake
  <2> QED BY <2>1, <2>2, <2>3, <1>2 DEF SessionInv, SessionTypeOK
<1>7. Numbered'
  <2>1. Cardinality(1 .. hs) = hs
    BY <1>1, FS_Interval
  <2>2. \A h \in DOMAIN born' : born'[h] \in Nat
    BY <1>1, <1>2 DEF SessionInv, Numbered
  <2> QED BY <1>1, <1>4, <2>1, <2>2 DEF Numbered
<1>8. Dated'
  <2>1. \A p \in net' : p.kind = "init" => p.hs \in DOMAIN born' /\ born'[p.hs] = p.ts
    <3>1. init.hs = hs /\ init.ts = now
      BY DEF init
    <3>2. \A p \in net : p.kind = "init" => p.hs \in DOMAIN born /\ born[p.hs] = p.ts
      BY DEF SessionInv, Dated
    <3> QED BY <1>2, <1>4, <3>1, <3>2
  <2>2. \A k, q \in Node : pending'[k][q] # None =>
          /\ pending'[k][q].key.hs \in DOMAIN born'
          /\ born'[pending'[k][q].key.hs] = pending'[k][q].at
    BY <1>4, <1>5 DEF SessionInv, Dated, attempt
  <2>3. \A k \in Node : finishing'[k] # None =>
          /\ finishing'[k].key.hs \in DOMAIN born'
          /\ now' - born'[finishing'[k].key.hs] <= HandshakeLifetime
    BY <1>2, <1>4 DEF SessionInv, Dated
  <2> QED BY <2>1, <2>2, <2>3 DEF Dated
<1>9. Answered'
  BY <1>2 DEF SessionInv, Answered, init
<1>10. Ordered'
  <2>1. \A i \in installed' : i.session.key.hs \in DOMAIN born' /\ i.session.key.hs < hs
    BY <1>2, <1>4 DEF SessionInv, Ordered
  <2>2. attempt.key.hs = hs
    BY DEF attempt
  <2>3. \A k, q \in Node : pending'[k][q] # None =>
          \A j \in installed' : Opened(j, k, q) => j.session.key.hs < pending'[k][q].key.hs
    BY <1>2, <1>5, <2>1, <2>2 DEF SessionInv, Ordered
  <2>4. \A k \in Node : finishing'[k] # None =>
          /\ \A j \in installed' : Opened(j, k, finishing'[k].peer)
                                    => j.session.key.hs < finishing'[k].key.hs
          /\ pending'[k][finishing'[k].peer] # None
                => finishing'[k].key.hs < pending'[k][finishing'[k].peer].key.hs
    <3> SUFFICES ASSUME NEW k \in Node, finishing[k] # None
                 PROVE  /\ \A j \in installed : Opened(j, k, finishing[k].peer)
                                    => j.session.key.hs < finishing[k].key.hs
                        /\ pending'[k][finishing[k].peer] # None
                             => finishing[k].key.hs < pending'[k][finishing[k].peer].key.hs
      BY <1>2
    <3>1. finishing[k].peer \in Node /\ finishing[k].key.hs < hs
      BY <1>4 DEF SessionInv, Dated, SessionTypeOK
    <3> QED BY <3>1, <1>5, <2>2 DEF SessionInv, Ordered
  <2> QED BY <2>1, <2>3, <2>4 DEF Ordered
<1>11. KeyConfirmed'
  BY <1>2 DEF SessionInv, KeyConfirmed
<1> QED BY <1>6, <1>7, <1>8, <1>9, <1>10, <1>11 DEF SessionInv

\* An answer is in the network only after its session has been installed.
LEMMA AnInitIsAnswered ==
    ASSUME SessionInv, NEW n \in Node, NEW pkt \in net, HandleHandshakeInitPacket(n, pkt)
    PROVE  SessionInv'
<1> DEFINE key == [hs |-> pkt.hs, pair |-> <<n, run[n]>>]
           session == [key |-> key, role |-> "responder"]
           entry == [node |-> n, peer |-> pkt.src, session |-> session]
           answer == [kind |-> "resp", src |-> n, dst |-> pkt.src, key |-> key]
<1>1. /\ sessions' = [sessions EXCEPT ![n][pkt.src] = session]
      /\ installed' = installed \cup {entry}
      /\ net' = net \cup {answer}
      /\ UNCHANGED <<now, run, pending, finishing, born>>
      /\ pkt.kind = "init"
  BY DEF HandleHandshakeInitPacket, Install
<1>2. pkt \in InitMsg
  BY <1>1 DEF SessionInv, SessionTypeOK, InitMsg, RespMsg
<1>3. pkt.src \in Node /\ pkt.hs \in Handshake /\ pkt.hs \in DOMAIN born /\ run[n] \in 0 .. MaxRestarts
  BY <1>1, <1>2 DEF SessionInv, SessionTypeOK, InitMsg, Dated
<1>4. /\ key \in Key /\ session \in Session /\ entry.session = session /\ answer \in RespMsg
      /\ entry \in [node : Node, peer : Node, session : Session]
  BY <1>3 DEF Key, KeyPair, Session, RespMsg
<1>5. /\ session.role = "responder" /\ session.key.hs = pkt.hs
      /\ answer.kind = "resp" /\ answer.src = n /\ answer.dst = pkt.src /\ answer.key = key
      /\ session = [key |-> key, role |-> "responder"]
      /\ entry.node = n /\ entry.peer = pkt.src /\ entry.session = session
  OBVIOUS
<1> HIDE DEF key, session, entry, answer
<1>6. SessionTypeOK'
  <2>1. sessions' \in [Node -> [Node -> Session \cup {None}]]
    <3>1. sessions[n] \in [Node -> Session \cup {None}]
      BY DEF SessionInv, SessionTypeOK
    <3> QED BY <1>1, <1>3, <1>4, <3>1 DEF SessionInv, SessionTypeOK
  <2> QED BY <1>1, <1>4, <2>1 DEF SessionInv, SessionTypeOK
<1>7. Numbered'
  BY <1>1 DEF SessionInv, Numbered
<1>8. Dated'
  BY <1>1, <1>5 DEF SessionInv, Dated
<1>9. Answered'
  <2>1. \A p \in net' : p.kind = "resp" =>
          \E j \in installed' : /\ j.node = p.src /\ j.peer = p.dst
                                /\ j.session = [key |-> p.key, role |-> "responder"]
    <3>1. \A p \in net : p.kind = "resp" =>
            \E j \in installed' : /\ j.node = p.src /\ j.peer = p.dst
                                  /\ j.session = [key |-> p.key, role |-> "responder"]
      <4> SUFFICES ASSUME NEW p \in net, p.kind = "resp"
                   PROVE  \E j \in installed' :
                            /\ j.node = p.src /\ j.peer = p.dst
                            /\ j.session = [key |-> p.key, role |-> "responder"]
        OBVIOUS
      <4>1. PICK j \in installed : /\ j.node = p.src /\ j.peer = p.dst
                                   /\ j.session = [key |-> p.key, role |-> "responder"]
        BY DEF SessionInv, Answered
      <4>2. j \in installed'
        BY <1>1
      <4> QED BY <4>1, <4>2
    <3>2. \E j \in installed' : /\ j.node = answer.src /\ j.peer = answer.dst
                                /\ j.session = [key |-> answer.key, role |-> "responder"]
      BY <1>1, <1>5
    <3> QED BY <1>1, <3>1, <3>2
  <2>2. \A k \in Node : finishing'[k] # None =>
          \E p \in net' : /\ p.kind = "resp" /\ p.src = finishing'[k].peer
                          /\ p.dst = k /\ p.key = finishing'[k].key
    BY <1>1 DEF SessionInv, Answered
  <2> QED BY <2>1, <2>2 DEF Answered
<1>10. Ordered'
  <2>1. \A k, q \in Node : ~ Opened(entry, k, q)
    BY <1>5 DEF Opened
  <2>2. \A i \in installed' : i.session.key.hs \in DOMAIN born'
    BY <1>1, <1>3, <1>5 DEF SessionInv, Ordered
  <2>3. \A k, q \in Node : pending'[k][q] # None =>
          \A j \in installed' : Opened(j, k, q) => j.session.key.hs < pending'[k][q].key.hs
    BY <1>1, <2>1 DEF SessionInv, Ordered
  <2>4. \A k \in Node : finishing'[k] # None => finishing'[k].peer \in Node
    BY <1>1 DEF SessionInv, SessionTypeOK
  <2>5. \A k \in Node : finishing'[k] # None =>
          /\ \A j \in installed' : Opened(j, k, finishing'[k].peer)
                                    => j.session.key.hs < finishing'[k].key.hs
          /\ pending'[k][finishing'[k].peer] # None
                => finishing'[k].key.hs < pending'[k][finishing'[k].peer].key.hs
    BY <1>1, <2>1, <2>4 DEF SessionInv, Ordered
  <2> QED BY <2>2, <2>3, <2>5 DEF Ordered
<1>11. KeyConfirmed'
  BY <1>1, <1>5 DEF SessionInv, KeyConfirmed
<1> QED BY <1>6, <1>7, <1>8, <1>9, <1>10, <1>11 DEF SessionInv

\* What is taken for finishing is in time and has its answer; the rest is only forgotten.
LEMMA AnAttemptIsTaken ==
    ASSUME SessionInv, NEW n \in Node, NEW pkt \in net, TakePending(n, pkt)
    PROVE  SessionInv'
<1> DEFINE attempt == pending[n][pkt.src]
           last == [peer |-> pkt.src, key |-> attempt.key]
<1>1. /\ pkt.kind = "resp" /\ pkt.dst = n /\ finishing[n] = None
      /\ attempt # None
      /\ finishing' = [finishing EXCEPT ![n] =
            IF now - attempt.at <= HandshakeLifetime /\ attempt.key = pkt.key THEN last ELSE None]
      /\ pending' = [pending EXCEPT ![n][pkt.src] = None]
      /\ UNCHANGED <<now, run, sessions, net, born, installed>>
  BY DEF TakePending
<1>2. pkt \in RespMsg
  BY <1>1 DEF SessionInv, SessionTypeOK, InitMsg, RespMsg
<1>3. pkt.src \in Node
  BY <1>2 DEF RespMsg
<1>4. /\ pending[n] \in [Node -> Pending \cup {None}] /\ attempt \in Pending
      /\ \A k, q \in Node : pending'[k][q] = IF k = n /\ q = pkt.src THEN None ELSE pending[k][q]
  BY <1>1, <1>3 DEF SessionInv, SessionTypeOK
<1>5. /\ last \in [peer : Node, key : Key] /\ last # None
      /\ last.peer = pkt.src /\ last.key = attempt.key
  <2>1. last \in [peer : Node, key : Key]
    BY <1>3, <1>4 DEF Pending
  <2> QED BY <2>1, NoneIsNothing
<1>6. \A k \in Node : finishing'[k] # None =>
        \/ k # n /\ finishing'[k] = finishing[k]
        \/ /\ k = n /\ finishing'[k] = last /\ now - attempt.at <= HandshakeLifetime
           /\ attempt.key = pkt.key
  BY <1>1 DEF SessionInv, SessionTypeOK
<1>7. SessionTypeOK'
  <2>1. pending' \in [Node -> [Node -> Pending \cup {None}]]
    BY <1>1, <1>3, <1>4 DEF SessionInv, SessionTypeOK
  <2>2. finishing' \in [Node -> [peer : Node, key : Key] \cup {None}]
    BY <1>1, <1>5 DEF SessionInv, SessionTypeOK
  <2> QED BY <1>1, <2>1, <2>2 DEF SessionInv, SessionTypeOK
<1>8. Numbered'
  BY <1>1 DEF SessionInv, Numbered
<1> HIDE DEF last
<1>9. Dated'
  <2>1. \A k, q \in Node : pending'[k][q] # None =>
          /\ pending'[k][q].key.hs \in DOMAIN born'
          /\ born'[pending'[k][q].key.hs] = pending'[k][q].at
    BY <1>1, <1>4 DEF SessionInv, Dated
  <2>2. attempt.key.hs \in DOMAIN born /\ born[attempt.key.hs] = attempt.at
    BY <1>1, <1>3 DEF SessionInv, Dated
  <2>3. \A k \in Node : finishing'[k] # None =>
          /\ finishing'[k].key.hs \in DOMAIN born'
          /\ now' - born'[finishing'[k].key.hs] <= HandshakeLifetime
    BY <1>1, <1>5, <1>6, <2>2 DEF SessionInv, Dated
  <2>4. \A p \in net' : p.kind = "init" => p.hs \in DOMAIN born' /\ born'[p.hs] = p.ts
    BY <1>1 DEF SessionInv, Dated
  <2> QED BY <2>1, <2>3, <2>4 DEF Dated
<1>10. Answered'
  <2>1. \A p \in net' : p.kind = "resp" =>
          \E j \in installed' : /\ j.node = p.src /\ j.peer = p.dst
                                /\ j.session = [key |-> p.key, role |-> "responder"]
    BY <1>1 DEF SessionInv, Answered
  <2>2. \A k \in Node : finishing'[k] # None =>
          \E p \in net' : /\ p.kind = "resp" /\ p.src = finishing'[k].peer
                          /\ p.dst = k /\ p.key = finishing'[k].key
    BY <1>1, <1>5, <1>6 DEF SessionInv, Answered
  <2> QED BY <2>1, <2>2 DEF Answered
<1>11. Ordered'
  <2>1. \A i \in installed' : i.session.key.hs \in DOMAIN born'
    BY <1>1 DEF SessionInv, Ordered
  <2>2. \A k, q \in Node : pending'[k][q] # None =>
          \A j \in installed' : Opened(j, k, q) => j.session.key.hs < pending'[k][q].key.hs
    BY <1>1, <1>4 DEF SessionInv, Ordered
  <2>3. \A k \in Node : finishing'[k] # None =>
          /\ \A j \in installed' : Opened(j, k, finishing'[k].peer)
                                    => j.session.key.hs < finishing'[k].key.hs
          /\ pending'[k][finishing'[k].peer] # None
                => finishing'[k].key.hs < pending'[k][finishing'[k].peer].key.hs
    <3> SUFFICES ASSUME NEW k \in Node, finishing'[k] # None
                 PROVE  /\ \A j \in installed' : Opened(j, k, finishing'[k].peer)
                                    => j.session.key.hs < finishing'[k].key.hs
                        /\ pending'[k][finishing'[k].peer] # None
                             => finishing'[k].key.hs < pending'[k][finishing'[k].peer].key.hs
      OBVIOUS
    <3>1. CASE k # n /\ finishing'[k] = finishing[k]
      <4>1. finishing[k].peer \in Node
        BY <3>1 DEF SessionInv, SessionTypeOK
      <4> QED BY <3>1, <4>1, <1>1, <1>4 DEF SessionInv, Ordered
    <3>2. CASE k = n /\ finishing'[k] = last
      <4>1. pending'[n][pkt.src] = None
        BY <1>3, <1>4
      <4>2. \A j \in installed : Opened(j, n, pkt.src) => j.session.key.hs < attempt.key.hs
        BY <1>1, <1>3 DEF SessionInv, Ordered
      <4> QED BY <3>2, <4>1, <4>2, <1>1, <1>5
    <3> QED BY <1>6, <3>1, <3>2
  <2> QED BY <2>1, <2>2, <2>3 DEF Ordered
<1>12. KeyConfirmed'
  BY <1>1 DEF SessionInv, KeyConfirmed
<1> QED BY <1>7, <1>8, <1>9, <1>10, <1>11, <1>12 DEF SessionInv

\* The session an initiator installs is confirmed by the answer it is finishing with.
LEMMA AnAttemptIsInstalled ==
    ASSUME SessionInv, NEW n \in Node, InstallPending(n)
    PROVE  SessionInv'
<1> DEFINE f == finishing[n]
           session == [key |-> f.key, role |-> "initiator"]
           entry == [node |-> n, peer |-> f.peer, session |-> session]
<1>1. /\ f # None
      /\ sessions' = [sessions EXCEPT ![n][f.peer] = session]
      /\ installed' = installed \cup {entry}
      /\ finishing' = [finishing EXCEPT ![n] = None]
      /\ UNCHANGED <<now, run, pending, net, born>>
  BY DEF InstallPending, Install
<1>2. f \in [peer : Node, key : Key] /\ f.peer \in Node /\ f.key \in Key
  BY <1>1 DEF SessionInv, SessionTypeOK
<1>3. f.key.hs \in DOMAIN born
  BY <1>1 DEF SessionInv, Dated
<1>4. session \in Session /\ entry \in [node : Node, peer : Node, session : Session]
  BY <1>2 DEF Session
<1>5. /\ session.role = "initiator" /\ session.key = f.key
      /\ entry.node = n /\ entry.peer = f.peer /\ entry.session = session
  OBVIOUS
<1> HIDE DEF f, session, entry
<1>6. \A k \in Node : finishing'[k] # None => k # n /\ finishing'[k] = finishing[k]
  BY <1>1 DEF SessionInv, SessionTypeOK
<1>7. SessionTypeOK'
  <2>1. sessions' \in [Node -> [Node -> Session \cup {None}]]
    <3>1. sessions[n] \in [Node -> Session \cup {None}]
      BY DEF SessionInv, SessionTypeOK
    <3> QED BY <1>1, <1>2, <1>4, <3>1 DEF SessionInv, SessionTypeOK
  <2>2. finishing' \in [Node -> [peer : Node, key : Key] \cup {None}]
    BY <1>1 DEF SessionInv, SessionTypeOK
  <2> QED BY <1>1, <1>4, <2>1, <2>2 DEF SessionInv, SessionTypeOK
<1>8. Numbered'
  BY <1>1 DEF SessionInv, Numbered
<1>9. Dated'
  <2>1. \A k \in Node : finishing'[k] # None =>
          /\ finishing'[k].key.hs \in DOMAIN born'
          /\ now' - born'[finishing'[k].key.hs] <= HandshakeLifetime
    BY <1>1, <1>6 DEF SessionInv, Dated
  <2> QED BY <1>1, <2>1 DEF SessionInv, Dated
<1>10. Answered'
  <2>1. \A k \in Node : finishing'[k] # None =>
          \E p \in net' : /\ p.kind = "resp" /\ p.src = finishing'[k].peer
                          /\ p.dst = k /\ p.key = finishing'[k].key
    BY <1>1, <1>6 DEF SessionInv, Answered
  <2>2. \A p \in net' : p.kind = "resp" =>
          \E j \in installed' : /\ j.node = p.src /\ j.peer = p.dst
                                /\ j.session = [key |-> p.key, role |-> "responder"]
    BY <1>1 DEF SessionInv, Answered
  <2> QED BY <2>1, <2>2 DEF Answered
<1>11. Ordered'
  <2>1. \A i \in installed' : i.session.key.hs \in DOMAIN born'
    BY <1>1, <1>3, <1>5 DEF SessionInv, Ordered
  <2>2. \A k, q \in Node : pending'[k][q] # None =>
          \A j \in installed' : Opened(j, k, q) => j.session.key.hs < pending'[k][q].key.hs
    <3>1. ASSUME NEW k \in Node, NEW q \in Node, pending[k][q] # None, Opened(entry, k, q)
          PROVE  entry.session.key.hs < pending[k][q].key.hs
      <4>1. k = n /\ q = f.peer
        BY <3>1, <1>5 DEF Opened
      <4>2. finishing[n] # None /\ pending[n][finishing[n].peer] # None
        BY <3>1, <4>1, <1>1 DEF f
      <4>3. finishing[n].key.hs < pending[n][finishing[n].peer].key.hs
        BY <4>2 DEF SessionInv, Ordered
      <4> QED BY <4>1, <4>3, <1>5 DEF f
    <3>2. \A k, q \in Node : pending[k][q] # None =>
            \A j \in installed : Opened(j, k, q) => j.session.key.hs < pending[k][q].key.hs
      BY DEF SessionInv, Ordered
    <3> QED BY <1>1, <3>1, <3>2
  <2>3. \A k \in Node : finishing'[k] # None =>
          /\ \A j \in installed' : Opened(j, k, finishing'[k].peer)
                                    => j.session.key.hs < finishing'[k].key.hs
          /\ pending'[k][finishing'[k].peer] # None
                => finishing'[k].key.hs < pending'[k][finishing'[k].peer].key.hs
    <3>1. \A k \in Node, q \in Node : k # n => ~ Opened(entry, k, q)
      BY <1>5 DEF Opened
    <3>2. \A k \in Node : finishing'[k] # None => finishing[k].peer \in Node
      BY <1>6 DEF SessionInv, SessionTypeOK
    <3> QED BY <1>1, <1>6, <3>1, <3>2 DEF SessionInv, Ordered
  <2> QED BY <2>1, <2>2, <2>3 DEF Ordered
<1>12. KeyConfirmed'
  <2>1. PICK p \in net : p.kind = "resp" /\ p.src = f.peer /\ p.dst = n /\ p.key = f.key
    BY <1>1 DEF SessionInv, Answered, f
  <2>2. PICK j \in installed : /\ j.node = p.src /\ j.peer = p.dst
                               /\ j.session = [key |-> p.key, role |-> "responder"]
    BY <2>1 DEF SessionInv, Answered
  <2>3. j.session \in Session /\ session # None /\ j.session # None
    BY <1>4, NoneIsNothing DEF SessionInv, SessionTypeOK
  <2>4. j.node = entry.peer /\ j.peer = entry.node /\ Matches(entry.session, j.session)
    BY <1>5, <2>1, <2>2, <2>3 DEF Matches
  <2> QED BY <1>1, <2>2, <2>4 DEF SessionInv, KeyConfirmed
<1> QED BY <1>7, <1>8, <1>9, <1>10, <1>11, <1>12 DEF SessionInv

\* A restart forgets, and nothing is being finished while a second goes by.
LEMMA RestartsAndTime ==
    ASSUME SessionInv, Tick \/ \E n \in Node : Restart(n)
    PROVE  SessionInv'
<1>1. CASE Tick
  <2>1. SessionTypeOK'
    BY <1>1, PQCSessionAssumption DEF Tick, SessionInv, SessionTypeOK
  <2>2. Numbered' /\ Answered' /\ KeyConfirmed'
    BY <1>1 DEF Tick, SessionInv, Numbered, Answered, KeyConfirmed
  <2>3. Dated'
    BY <1>1 DEF Tick, SessionInv, Dated
  <2>4. Ordered'
    BY <1>1 DEF Tick, SessionInv, Ordered
  <2> QED BY <2>1, <2>2, <2>3, <2>4 DEF SessionInv
<1>2. ASSUME NEW n \in Node, Restart(n) PROVE SessionInv'
  <2>1. /\ run[n] < MaxRestarts
        /\ run' = [run EXCEPT ![n] = @ + 1]
        /\ sessions' = [sessions EXCEPT ![n] = NoPeers]
        /\ pending' = [pending EXCEPT ![n] = NoPeers]
        /\ finishing' = [finishing EXCEPT ![n] = None]
        /\ UNCHANGED <<now, net, born, installed>>
    BY <1>2 DEF Restart
  <2>2. /\ \A k, q \in Node : pending'[k][q] = None \/ pending'[k][q] = pending[k][q]
        /\ \A k \in Node : finishing'[k] # None => finishing'[k] = finishing[k]
    BY <2>1 DEF SessionInv, SessionTypeOK, NoPeers
  <2>3. SessionTypeOK'
    BY <2>1, PQCSessionAssumption DEF SessionInv, SessionTypeOK, NoPeers
  <2>4. Numbered' /\ KeyConfirmed'
    BY <2>1 DEF SessionInv, Numbered, KeyConfirmed
  <2>5. Dated'
    BY <2>1, <2>2 DEF SessionInv, Dated
  <2>6. Answered'
    BY <2>1, <2>2 DEF SessionInv, Answered
  <2>7. Ordered'
    <3>1. \A k \in Node : finishing'[k] # None => finishing'[k].peer \in Node
      BY <2>3 DEF SessionTypeOK
    <3> QED BY <2>1, <2>2, <3>1 DEF SessionInv, Ordered
  <2> QED BY <2>3, <2>4, <2>5, <2>6, <2>7 DEF SessionInv
<1> QED BY <1>1, <1>2

LEMMA SessionInvIsKept == SessionInv /\ [SessionNext]_sessionVars => SessionInv'
<1> SUFFICES ASSUME SessionInv, [SessionNext]_sessionVars PROVE SessionInv'
  OBVIOUS
<1>1. CASE UNCHANGED sessionVars
  BY <1>1 DEF sessionVars, SessionInv, SessionTypeOK, Numbered, Dated, Answered, Ordered,
              KeyConfirmed
<1>2. CASE SessionNext
  BY <1>2, ANewAttempt, AnInitIsAnswered, AnAttemptIsTaken, AnAttemptIsInstalled,
     RestartsAndTime DEF SessionNext
<1> QED BY <1>1, <1>2

LEMMA SessionInvHolds == CoreSpec => []SessionInv
<1>1. CoreInit => SessionInv
  BY SessionInvAtFirst DEF CoreInit
<1>2. SessionInv /\ [CoreNext]_coreVars => SessionInv'
  BY SessionInvIsKept, EveryStepIsOfItsParts
<1> QED BY <1>1, <1>2, PTL DEF CoreSpec

\* Key confirmation, for any number of nodes, attempts and restarts: an initiator's session is
\* one its peer has installed too, as responder and under the same key
\* (session_manager.go:150-260).
THEOREM SessionKeysAreConfirmed == CoreSpec => []KeyConfirmed
<1>1. SessionInv => KeyConfirmed
  BY DEF SessionInv
<1> QED BY <1>1, SessionInvHolds, PTL

\* A completed attempt is younger than every one the node has completed towards that peer.
LEMMA CompletedInOrder ==
    SessionInv /\ [SessionNext]_sessionVars =>
        [\A i \in installed' \ installed, j \in installed :
           (/\ i.session.role = "initiator" /\ j.session.role = "initiator"
            /\ i.node = j.node /\ i.peer = j.peer)
           => j.session.key.hs < i.session.key.hs]_sessionVars
<1> SUFFICES ASSUME SessionInv, SessionNext,
                    NEW i \in installed' \ installed, NEW j \in installed,
                    i.session.role = "initiator", j.session.role = "initiator",
                    i.node = j.node, i.peer = j.peer
             PROVE  j.session.key.hs < i.session.key.hs
  BY DEF sessionVars
<1>1. ASSUME NEW n \in Node, InstallPending(n) PROVE j.session.key.hs < i.session.key.hs
  <2>1. /\ finishing[n] # None
        /\ i = [node |-> n, peer |-> finishing[n].peer,
                session |-> [key |-> finishing[n].key, role |-> "initiator"]]
    BY <1>1 DEF InstallPending, Install
  <2>2. Opened(j, n, finishing[n].peer)
    BY <2>1 DEF Opened
  <2>3. j.session.key.hs < finishing[n].key.hs
    BY <2>1, <2>2 DEF SessionInv, Ordered
  <2> QED BY <2>1, <2>3
<1>2. ASSUME NEW n \in Node, NEW pkt \in net, HandleHandshakeInitPacket(n, pkt) PROVE FALSE
  BY <1>2 DEF HandleHandshakeInitPacket, Install
<1>3. ASSUME Tick \/ (\E n \in Node : Restart(n) \/ \E pkt \in net : TakePending(n, pkt))
             \/ (\E n, m \in Node, r \in 0 .. MaxRestarts : CreateHandshakeInitPacket(n, m, r))
      PROVE  FALSE
  BY <1>3 DEF Tick, Restart, TakePending, CreateHandshakeInitPacket
<1> QED BY <1>1, <1>2, <1>3 DEF SessionNext

\* What is installed comes from an attempt that has not expired.
LEMMA InstalledInTime ==
    SessionInv /\ [SessionNext]_sessionVars =>
        [\A n, m \in Node :
           (sessions'[n][m] # sessions[n][m] /\ sessions'[n][m] # None)
           => now - born[sessions'[n][m].key.hs] <= HandshakeLifetime]_sessionVars
<1> SUFFICES ASSUME SessionInv, SessionNext, NEW n \in Node, NEW m \in Node,
                    sessions'[n][m] # sessions[n][m], sessions'[n][m] # None
             PROVE  now - born[sessions'[n][m].key.hs] <= HandshakeLifetime
  BY DEF sessionVars
<1> DEFINE Goal == now - born[sessions'[n][m].key.hs] <= HandshakeLifetime
<1>1. ASSUME NEW k \in Node, InstallPending(k) PROVE Goal
  <2>1. /\ finishing[k] # None
        /\ sessions' = [sessions EXCEPT ![k][finishing[k].peer] =
                          [key |-> finishing[k].key, role |-> "initiator"]]
    BY <1>1 DEF InstallPending, Install
  <2>2. sessions'[n][m].key = finishing[k].key
    BY <2>1 DEF SessionInv, SessionTypeOK
  <2>3. now - born[finishing[k].key.hs] <= HandshakeLifetime
    BY <2>1 DEF SessionInv, Dated
  <2> QED BY <2>2, <2>3
<1>2. ASSUME NEW k \in Node, NEW pkt \in net, HandleHandshakeInitPacket(k, pkt) PROVE Goal
  <2>1. /\ sessions' = [sessions EXCEPT ![k][pkt.src] =
                          [key |-> [hs |-> pkt.hs, pair |-> <<k, run[k]>>],
                           role |-> "responder"]]
        /\ now - pkt.ts <= HandshakeLifetime /\ pkt.kind = "init"
    BY <1>2 DEF HandleHandshakeInitPacket, Install
  <2>2. sessions'[n][m].key.hs = pkt.hs
    BY <2>1 DEF SessionInv, SessionTypeOK
  <2>3. born[pkt.hs] = pkt.ts
    BY <2>1 DEF SessionInv, Dated
  <2> QED BY <2>1, <2>2, <2>3
<1>3. ASSUME NEW k \in Node, Restart(k) PROVE FALSE
  BY <1>3 DEF Restart, SessionInv, SessionTypeOK, NoPeers
<1>4. ASSUME Tick \/ (\E k \in Node, pkt \in net : TakePending(k, pkt))
             \/ (\E k, q \in Node, r \in 0 .. MaxRestarts : CreateHandshakeInitPacket(k, q, r))
      PROVE  FALSE
  BY <1>4 DEF Tick, TakePending, CreateHandshakeInitPacket
<1> QED BY <1>1, <1>2, <1>3, <1>4 DEF SessionNext

LEMMA NeverRegresses == CoreSpec => InitiatorNeverRegresses
<1> DEFINE Younger == \A i \in installed' \ installed, j \in installed :
                        (/\ i.session.role = "initiator" /\ j.session.role = "initiator"
                         /\ i.node = j.node /\ i.peer = j.peer)
                        => j.session.key.hs < i.session.key.hs
<1>1. SessionInv /\ [CoreNext]_coreVars => [Younger]_sessionVars
  BY EveryStepIsOfItsParts, CompletedInOrder
<1> HIDE DEF Younger
<1>2. CoreSpec => [][Younger]_sessionVars
  BY <1>1, SessionInvHolds, PTL DEF CoreSpec
<1> QED BY <1>2 DEF Younger, InitiatorNeverRegresses

LEMMA NeverLate == CoreSpec => NoLateInstall
<1> DEFINE InTime == \A n, m \in Node :
                       (sessions'[n][m] # sessions[n][m] /\ sessions'[n][m] # None)
                       => now - born[sessions'[n][m].key.hs] <= HandshakeLifetime
<1>1. SessionInv /\ [CoreNext]_coreVars => [InTime]_sessionVars
  BY EveryStepIsOfItsParts, InstalledInTime
<1> HIDE DEF InTime
<1>2. CoreSpec => [][InTime]_sessionVars
  BY <1>1, SessionInvHolds, PTL DEF CoreSpec
<1> QED BY <1>2 DEF InTime, NoLateInstall

(***************************************************************************)
(* The automaton and its modes.                                            *)
(***************************************************************************)

FSMInv == FSMTypeOK /\ HistoryIsAChain

LEMMA FSMInvAtFirst == FSMInit => FSMInv
  BY FSMAssumption
     DEF FSMInit, ModesInit, FSMInv, FSMTypeOK, HistoryIsAChain, NodeStates, Modes, FSMAssumption

\* The states events lead to are states, and the table allows the move; but for a threat found
\* while disconnected.
LEMMA ResolvedIsAllowed ==
    ASSUME NEW s \in NodeStates, NEW e \in FSMEvents, NEW t \in Resolved(s, e)
    PROVE  /\ t \in NodeStates
           /\ CanTransitionTo(s, t) \/ (s = "Disconnected" /\ t = "Quarantined")
  BY DEF Resolved, NodeStates, FSMEvents, CanTransitionTo, Successors

LEMMA EventsAreResolved ==
    ASSUME node \in NodeStates, NEW e \in FSMEvents, TriggerEvent(e)
    PROVE  /\ node' \in NodeStates
           /\ CanTransitionTo(node, node') \/ (node = "Disconnected" /\ node' = "Quarantined")
<1>1. CASE Resolved(node, e) = {}
  <2>1. node' = node
    BY <1>1 DEF TriggerEvent
  <2> QED BY <2>1 DEF CanTransitionTo
<1>2. CASE Resolved(node, e) # {}
  <2>1. node' \in Resolved(node, e)
    BY <1>2 DEF TriggerEvent
  <2> QED BY <2>1, ResolvedIsAllowed
<1> QED BY <1>1, <1>2

\* A change of mode continues the chain, whether or not the oldest change is dropped for it.
LEMMA HistoryIsContinued ==
    ASSUME FSMInv, NEW m \in Modes, SetMode(m)
    PROVE  FSMInv'
<1> DEFINE H == Modes \X Modes
           change == <<mode, m>>
           kept == IF Len(changes) >= MaxHistory THEN Tail(changes) ELSE changes
<1>1. /\ changes \in Seq(H) /\ Len(changes) \in Nat /\ Len(changes) <= MaxHistory
      /\ change \in H /\ change[1] = mode /\ change[2] = m /\ mode \in Modes
      /\ MaxHistory \in Nat /\ MaxHistory >= 1
  BY FSMAssumption DEF FSMInv, FSMTypeOK, FSMAssumption
<1>2. \A i \in 1 .. Len(changes) - 1 : changes[i][2] = changes[i + 1][1]
  BY DEF FSMInv, HistoryIsAChain
<1>3. changes # <<>> => changes[Len(changes)][2] = mode
  BY DEF FSMInv, HistoryIsAChain, Last
<1>4. /\ changes' = Append(kept, change) /\ mode' = m /\ UNCHANGED node
  BY DEF SetMode, Remembered
<1> HIDE DEF H, change
<1>5. /\ kept \in Seq(H) /\ Len(kept) \in Nat /\ Len(kept) < MaxHistory
      /\ \A i \in 1 .. Len(kept) - 1 : kept[i][2] = kept[i + 1][1]
      /\ Len(kept) >= 1 => kept[Len(kept)][2] = mode
  <2>1. CASE Len(changes) >= MaxHistory
    <3>1. changes # <<>>
      BY <2>1, <1>1
    <3>2. /\ Tail(changes) \in Seq(H) /\ Len(Tail(changes)) = Len(changes) - 1
          /\ \A i \in 1 .. Len(changes) - 1 : Tail(changes)[i] = changes[i + 1]
      BY <3>1, <1>1
    <3>3. kept = Tail(changes)
      BY <2>1
    <3> HIDE DEF kept
    <3> QED BY <3>1, <3>2, <3>3, <1>1, <1>2, <1>3
  <2>2. CASE ~ Len(changes) >= MaxHistory
    <3>1. kept = changes
      BY <2>2
    <3>2. Len(changes) >= 1 => changes # <<>>
      BY <1>1
    <3> QED BY <2>2, <3>1, <3>2, <1>1, <1>2, <1>3
  <2> QED BY <2>1, <2>2
<1> HIDE DEF kept
<1>6. /\ changes' \in Seq(H) /\ Len(changes') = Len(kept) + 1
      /\ \A i \in 1 .. Len(kept) : changes'[i] = kept[i]
      /\ changes'[Len(kept) + 1] = change
  BY <1>1, <1>4, <1>5
<1>7. \A i \in 1 .. Len(changes') - 1 : changes'[i][2] = changes'[i + 1][1]
  <2> SUFFICES ASSUME NEW i \in 1 .. Len(kept) PROVE changes'[i][2] = changes'[i + 1][1]
    BY <1>5, <1>6
  <2>1. CASE i = Len(kept)
    BY <2>1, <1>1, <1>5, <1>6
  <2>2. CASE i < Len(kept)
    BY <2>2, <1>5, <1>6
  <2> QED BY <2>1, <2>2, <1>5
<1>8. changes' # <<>> /\ Last(changes')[2] = mode'
  BY <1>1, <1>4, <1>5, <1>6 DEF Last
<1>9. FSMTypeOK'
  <2>1. Len(changes') <= MaxHistory
    BY <1>1, <1>5, <1>6
  <2> QED BY <2>1, <1>4, <1>6 DEF FSMInv, FSMTypeOK, H
<1> QED BY <1>7, <1>8, <1>9 DEF FSMInv, HistoryIsAChain

LEMMA FSMInvIsKept == FSMInv /\ [FSMNext]_fsmVars => FSMInv'
<1> SUFFICES ASSUME FSMInv, [FSMNext]_fsmVars PROVE FSMInv'
  OBVIOUS
<1>1. CASE UNCHANGED fsmVars
  BY <1>1 DEF fsmVars, FSMInv, FSMTypeOK, HistoryIsAChain
<1>2. ASSUME NEW e \in FSMEvents, TriggerEvent(e) PROVE FSMInv'
  <2>1. node' \in NodeStates
    BY <1>2, EventsAreResolved DEF FSMInv, FSMTypeOK
  <2> QED BY <1>2, <2>1 DEF TriggerEvent, FSMInv, FSMTypeOK, HistoryIsAChain
<1> QED BY <1>1, <1>2, HistoryIsContinued DEF FSMNext

\* The stages of the line reach the automaton only through its events.
LEMMA TheLineSignals == [PipelineNext]_pipelineVars => [FSMNext]_fsmVars
<1> SUFFICES ASSUME [PipelineNext]_pipelineVars PROVE [FSMNext]_fsmVars
  OBVIOUS
<1>1. ASSUME NEW w \in Workers, Step(w) \/ Retain(w) PROVE [FSMNext]_fsmVars
  <2>1. CASE Signal(w) \/ Verify(w)
    <3>1. "NetworkSignal" \in FSMEvents /\ "DIDVerified" \in FSMEvents
      BY DEF FSMEvents
    <3> QED BY <2>1, <3>1 DEF Signal, Verify, FSMNext
  <2>2. CASE Retain(w) \/ Cancel(w) \/ DecodeCBORStage(w) \/ ZTNAFilterStage(w)
             \/ QoSFilterStage(w) \/ TopologyFSMStage(w) \/ HandleRoamingUpdate(w) \/ Finish(w)
    BY <2>2 DEF Retain, Cancel, DecodeCBORStage, ZTNAFilterStage, QoSFilterStage,
                TopologyFSMStage, HandleRoamingUpdate, Finish, fsmVars
  <2> QED BY <1>1, <2>1, <2>2 DEF Step
<1>2. CASE UNCHANGED pipelineVars \/ FSMNext
  BY <1>2 DEF pipelineVars
<1>3. CASE \/ \E w \in Workers, d \in Datagrams, s \in Sizes : Receive(w, d, s)
           \/ \E c \in Buffers, d \in Datagrams : LetGo(c, d)
           \/ AddStage
           \/ \E d \in Origins : Decide(d)
  BY <1>3 DEF Receive, LetGo, AddStage, Decide, fsmVars
<1> QED BY <1>1, <1>2, <1>3 DEF PipelineNext, LineNext

LEMMA FSMInvHolds == CoreSpec => []FSMInv
<1>1. CoreInit => FSMInv
  BY FSMInvAtFirst DEF CoreInit, PipelineInit
<1>2. FSMInv /\ [CoreNext]_coreVars => FSMInv'
  BY FSMInvIsKept, TheLineSignals, EveryStepIsOfItsParts
<1> QED BY <1>1, <1>2, PTL DEF CoreSpec

LEMMA OnlyMovesOfTheTable == CoreSpec => MovesAreAllowed
<1> DEFINE Foreseen == CanTransitionTo(node, node')
                       \/ (node = "Disconnected" /\ node' = "Quarantined")
<1>1. FSMInv /\ [CoreNext]_coreVars => [Foreseen]_node
  <2> SUFFICES ASSUME FSMInv, [FSMNext]_fsmVars PROVE [Foreseen]_node
    BY TheLineSignals, EveryStepIsOfItsParts
  <2>1. CASE UNCHANGED fsmVars \/ \E m \in Modes : SetMode(m)
    BY <2>1 DEF fsmVars, SetMode
  <2>2. ASSUME NEW e \in FSMEvents, TriggerEvent(e) PROVE Foreseen
    BY <2>2, EventsAreResolved DEF FSMInv, FSMTypeOK
  <2> QED BY <2>1, <2>2 DEF FSMNext
<1> HIDE DEF Foreseen
<1>2. CoreSpec => [][Foreseen]_node
  BY <1>1, FSMInvHolds, PTL DEF CoreSpec
<1> QED BY <1>2 DEF Foreseen, MovesAreAllowed

\* No step of the node leaves the automaton's table of moves, no initiator goes back to an older
\* attempt, and no session comes from an attempt that had expired (fsm.go:39-126,
\* session_manager.go:150-260).
THEOREM CoreStepsAreLegal == CoreSpec => StepsAreLegal
  BY OnlyMovesOfTheTable, NeverRegresses, NeverLate DEF StepsAreLegal

(***************************************************************************)
(* The gateway.                                                            *)
(***************************************************************************)

\* What is at rest has its reason, in a register of registrations.
ComponentsInv ==
    /\ DOMAIN components \subseteq Components
    /\ components \in [DOMAIN components -> Registrations]
    /\ RestHasAReason

\* A registered channel has been made, is open and has one subscriber.
ChannelsInv ==
    /\ queue \in Seq(Seq(MeshEvents)) /\ Len(queue) <= MaxChannels
    /\ \A n \in 1 .. Len(queue) : Len(queue[n]) <= Capacity
    /\ DOMAIN channel \subseteq Subscribers
    /\ \A s \in DOMAIN channel : channel[s] \in 1 .. Len(queue)
    /\ shut \subseteq 1 .. Len(queue) /\ stopped \in BOOLEAN
    /\ RegisteredChannelsAreOpen

RegisterInv == ComponentsInv /\ ChannelsInv

LEMMA RegisterInvAtFirst == GatewayInit => RegisterInv
<1> SUFFICES ASSUME GatewayInit PROVE RegisterInv
  OBVIOUS
<1>1. /\ DOMAIN components = {} /\ components = [c \in {} |-> {}] /\ DOMAIN channel = {}
      /\ queue = <<>> /\ shut = {} /\ stopped = FALSE
  BY DEF GatewayInit
<1>2. ComponentsInv
  BY <1>1 DEF ComponentsInv, RestHasAReason
<1>3. queue \in Seq(Seq(MeshEvents)) /\ Len(queue) = 0 /\ 1 .. Len(queue) = {}
  BY <1>1
<1>4. ChannelsInv
  <2>1. Len(queue) <= MaxChannels /\ \A n \in 1 .. Len(queue) : Len(queue[n]) <= Capacity
    BY <1>3, GatewayAssumption DEF GatewayAssumption
  <2> QED BY <1>1, <1>3, <2>1 DEF ChannelsInv, RegisteredChannelsAreOpen
<1> QED BY <1>2, <1>4 DEF RegisterInv

\* An operator, a heartbeat or the clock: each changes the state of a component together with
\* what is the reason for it.
LEMMA RestKeepsItsReason ==
    ASSUME ComponentsInv,
           NEW c \in Components,
           \/ RegisterComponent(c) \/ UnregisterComponent(c) \/ Heartbeat(c)
           \/ \E i, e \in BOOLEAN : SetComponentState(c, i, e)
           \/ Silence \/ CheckHealth
    PROVE  ComponentsInv'
<1> USE DEF ComponentsInv, RestHasAReason
<1>1. CASE RegisterComponent(c)
  <2> DEFINE new == [state |-> "Active", installed |-> TRUE, enabled |-> TRUE, fresh |-> TRUE]
  <2>1. new \in Registrations /\ new.state = "Active"
    BY DEF Registrations
  <2> HIDE DEF new
  <2>2. components' = [d \in DOMAIN components \cup {c} |->
                         IF d # c THEN components[d] ELSE new]
    BY <1>1 DEF RegisterComponent, new
  <2> QED BY <2>1, <2>2
<1>2. CASE UnregisterComponent(c)
  BY <1>2 DEF UnregisterComponent
<1>3. CASE Heartbeat(c)
  <2>1. c \in DOMAIN components /\ components[c] \in Registrations
    BY <1>3 DEF Heartbeat
  <2> DEFINE seen == [components[c] EXCEPT !.fresh = TRUE, !.state = "Active"]
  <2>2. seen \in Registrations /\ seen.state = "Active"
    <3>1. PICK r \in Registrations : r = components[c]
      BY <2>1
    <3> QED BY <3>1 DEF Registrations
  <2>3. components' = [components EXCEPT ![c] = seen]
    BY <1>3 DEF Heartbeat
  <2> HIDE DEF seen
  <2> QED BY <2>1, <2>2, <2>3
<1>4. ASSUME NEW i \in BOOLEAN, NEW e \in BOOLEAN, SetComponentState(c, i, e)
      PROVE  ComponentsInv'
  <2>1. c \in DOMAIN components /\ components[c] \in Registrations
    BY <1>4 DEF SetComponentState
  <2> DEFINE set == [components[c] EXCEPT !.installed = i, !.enabled = e,
                       !.state = IF i /\ e THEN "Active" ELSE "Suspended"]
  <2>2. /\ set \in Registrations /\ set.state # "Idle"
        /\ set.state = "Suspended" => ~ (set.installed /\ set.enabled)
    <3>1. PICK r \in Registrations : r = components[c]
      BY <2>1
    <3> QED BY <3>1 DEF Registrations
  <2>3. components' = [components EXCEPT ![c] = set]
    BY <1>4 DEF SetComponentState
  <2> HIDE DEF set
  <2> QED BY <2>1, <2>2, <2>3
<1>5. CASE Silence
  <2>1. \A d \in DOMAIN components :
          /\ [components[d] EXCEPT !.fresh = FALSE] \in Registrations
          /\ [components[d] EXCEPT !.fresh = FALSE].state = components[d].state
          /\ [components[d] EXCEPT !.fresh = FALSE].installed = components[d].installed
          /\ [components[d] EXCEPT !.fresh = FALSE].enabled = components[d].enabled
          /\ ~ [components[d] EXCEPT !.fresh = FALSE].fresh
    <3> SUFFICES ASSUME NEW r \in Registrations
                 PROVE  /\ [r EXCEPT !.fresh = FALSE] \in Registrations
                        /\ [r EXCEPT !.fresh = FALSE].state = r.state
                        /\ [r EXCEPT !.fresh = FALSE].installed = r.installed
                        /\ [r EXCEPT !.fresh = FALSE].enabled = r.enabled
                        /\ ~ [r EXCEPT !.fresh = FALSE].fresh
      OBVIOUS
    <3> QED BY DEF Registrations
  <2> QED BY <1>5, <2>1 DEF Silence
<1>6. CASE CheckHealth
  <2>1. \A d \in DOMAIN components :
          /\ [components[d] EXCEPT !.state = "Idle"] \in Registrations
          /\ [components[d] EXCEPT !.state = "Idle"].state = "Idle"
          /\ [components[d] EXCEPT !.state = "Idle"].fresh = components[d].fresh
    <3> SUFFICES ASSUME NEW r \in Registrations
                 PROVE  /\ [r EXCEPT !.state = "Idle"] \in Registrations
                        /\ [r EXCEPT !.state = "Idle"].state = "Idle"
                        /\ [r EXCEPT !.state = "Idle"].fresh = r.fresh
      OBVIOUS
    <3> QED BY DEF Registrations
  <2> QED BY <1>6, <2>1 DEF CheckHealth
<1> QED BY <1>1, <1>2, <1>3, <1>4, <1>5, <1>6

\* An event is appended where there is room and makes no channel.
LEMMA BroadcastEffect ==
    ASSUME ChannelsInv, NEW e \in MeshEvents, Broadcast(e)
    PROVE  /\ queue' \in Seq(Seq(MeshEvents)) /\ Len(queue') = Len(queue)
           /\ \A n \in 1 .. Len(queue') : Len(queue'[n]) <= Capacity
<1>1. /\ queue \in Seq(Seq(MeshEvents)) /\ Len(queue) \in Nat /\ Capacity \in Nat
      /\ \A n \in 1 .. Len(queue) : queue[n] \in Seq(MeshEvents) /\ Len(queue[n]) <= Capacity
  BY GatewayAssumption DEF ChannelsInv, GatewayAssumption
<1> DEFINE fed(n) == IF (\E s \in DOMAIN channel : channel[s] = n) /\ Len(queue[n]) < Capacity
                     THEN Append(queue[n], e) ELSE queue[n]
<1>2. ASSUME NEW n \in 1 .. Len(queue)
      PROVE  fed(n) \in Seq(MeshEvents) /\ Len(fed(n)) <= Capacity
  <2>1. PICK q \in Seq(MeshEvents) : q = queue[n] /\ Len(q) <= Capacity
    BY <1>1
  <2>2. Append(q, e) \in Seq(MeshEvents) /\ Len(Append(q, e)) = Len(q) + 1 /\ Len(q) \in Nat
    OBVIOUS
  <2> QED BY <2>1, <2>2, <1>1
<1>3. queue' = [n \in 1 .. Len(queue) |-> fed(n)]
  BY DEF Broadcast
<1> HIDE DEF fed
<1>4. queue' \in [1 .. Len(queue) -> Seq(MeshEvents)]
  BY <1>2, <1>3
<1> QED BY <1>1, <1>2, <1>3, <1>4

\* Channels are made, closed, fed and read, but never fed or closed once they are closed.
LEMMA ChannelsStayOpen ==
    ASSUME ChannelsInv, GatewayNext \/ UNCHANGED gatewayVars
    PROVE  ChannelsInv'
<1> USE DEF RegisteredChannelsAreOpen
<1>1. /\ queue \in Seq(Seq(MeshEvents)) /\ Len(queue) \in Nat
      /\ \A n \in 1 .. Len(queue) : queue[n] \in Seq(MeshEvents) /\ Len(queue[n]) \in Nat
  BY DEF ChannelsInv
<1>2. CASE UNCHANGED <<channel, queue, shut, stopped>>
  BY <1>2 DEF ChannelsInv
<1>3. ASSUME NEW e \in MeshEvents, Broadcast(e), UNCHANGED <<channel, shut, stopped>>
      PROVE  ChannelsInv'
  BY <1>3, BroadcastEffect DEF ChannelsInv
<1>4. ASSUME NEW s \in Subscribers, SubscribeEvents(s) PROVE ChannelsInv'
  <2>1. /\ Len(queue) < MaxChannels
        /\ queue' = Append(queue, <<>>)
        /\ channel' = [t \in DOMAIN channel \cup {s} |->
                         IF t = s THEN Len(queue) + 1 ELSE channel[t]]
        /\ UNCHANGED <<shut, stopped>>
    BY <1>4 DEF SubscribeEvents
  <2>2. <<>> \in Seq(MeshEvents) /\ Len(<<>>) = 0 /\ Len(<<>>) <= Capacity
    BY GatewayAssumption DEF GatewayAssumption
  <2>3. /\ queue' \in Seq(Seq(MeshEvents)) /\ Len(queue') = Len(queue) + 1
        /\ \A n \in 1 .. Len(queue) : queue'[n] = queue[n]
        /\ queue'[Len(queue) + 1] = <<>>
    BY <1>1, <2>1, <2>2
  <2>4. \A n \in 1 .. Len(queue') : Len(queue'[n]) <= Capacity
    <3>1. \A n \in 1 .. Len(queue) : Len(queue[n]) <= Capacity
      BY DEF ChannelsInv
    <3>2. \A n \in 1 .. Len(queue') : n \in 1 .. Len(queue) \/ n = Len(queue) + 1
      BY <1>1, <2>3
    <3> QED BY <2>2, <2>3, <3>1, <3>2
  <2>5. Len(queue') <= MaxChannels
    BY <1>1, <2>1, <2>3, GatewayAssumption DEF GatewayAssumption
  <2>6. /\ DOMAIN channel' \subseteq Subscribers
        /\ \A t \in DOMAIN channel' : channel'[t] \in 1 .. Len(queue')
        /\ shut' \subseteq 1 .. Len(queue') /\ stopped' \in BOOLEAN
    BY <1>1, <2>1, <2>3 DEF ChannelsInv
  <2>7. RegisteredChannelsAreOpen'
    BY <1>1, <2>1 DEF ChannelsInv
  <2> QED BY <2>3, <2>4, <2>5, <2>6, <2>7 DEF ChannelsInv
<1>5. ASSUME NEW s \in Subscribers, UnsubscribeEvents(s) PROVE ChannelsInv'
  BY <1>5 DEF UnsubscribeEvents, ChannelsInv
<1>6. CASE Stop
  BY <1>6 DEF Stop, ChannelsInv
<1>7. ASSUME NEW n \in 1 .. Len(queue), ReadEvent(n) PROVE ChannelsInv'
  <2>1. PICK q \in Seq(MeshEvents) : q = queue[n] /\ q # <<>>
    BY <1>1, <1>7 DEF ReadEvent
  <2>2. Tail(q) \in Seq(MeshEvents) /\ Len(Tail(q)) = Len(q) - 1 /\ Len(q) \in Nat
    BY <2>1
  <2>3. queue' = [queue EXCEPT ![n] = Tail(q)] /\ UNCHANGED <<channel, shut, stopped>>
    BY <1>7, <2>1 DEF ReadEvent
  <2>4. queue' \in Seq(Seq(MeshEvents)) /\ Len(queue') = Len(queue)
    BY <1>1, <2>2, <2>3
  <2>5. \A k \in 1 .. Len(queue) : queue'[k] = IF k = n THEN Tail(q) ELSE queue[k]
    BY <1>1, <2>3
  <2>6. Len(q) <= Capacity /\ Capacity \in Nat
    BY <2>1, GatewayAssumption DEF ChannelsInv, GatewayAssumption
  <2>7. \A k \in 1 .. Len(queue') : Len(queue'[k]) <= Capacity
    <3>1. \A k \in 1 .. Len(queue) : Len(queue[k]) <= Capacity
      BY DEF ChannelsInv
    <3>2. Len(Tail(q)) <= Capacity
      BY <2>2, <2>6
    <3> QED BY <2>4, <2>5, <3>1, <3>2
  <2> QED BY <2>3, <2>4, <2>7 DEF ChannelsInv
<1>8. ASSUME NEW t, NEW k, NEW l, SendDatagram(t, k, l) PROVE ChannelsInv'
  <2>1. "PACKET_TX" \in MeshEvents
    BY DEF MeshEvents
  <2>2. UNCHANGED <<channel, shut, stopped>> /\ (UNCHANGED queue \/ Broadcast("PACKET_TX"))
    BY <1>8 DEF SendDatagram
  <2> QED BY <1>2, <1>3, <2>1, <2>2
<1>9. ASSUME NEW c \in Components,
             \/ RegisterComponent(c) \/ UnregisterComponent(c) \/ Heartbeat(c)
             \/ \E i, e \in BOOLEAN : SetComponentState(c, i, e)
      PROVE  ChannelsInv'
  <2>1. "COMPONENT_BOUND" \in MeshEvents /\ "COMPONENT_UNBOUND" \in MeshEvents
    BY DEF MeshEvents
  <2>2. /\ UNCHANGED <<channel, shut, stopped>>
        /\ UNCHANGED queue \/ Broadcast("COMPONENT_BOUND") \/ Broadcast("COMPONENT_UNBOUND")
    BY <1>9 DEF RegisterComponent, UnregisterComponent, Heartbeat, SetComponentState
  <2> QED BY <1>2, <1>3, <2>1, <2>2
<1>10. CASE Silence \/ CheckHealth \/ PublishEvent
  <2>1. "other" \in MeshEvents
    BY DEF MeshEvents
  <2>2. UNCHANGED <<channel, shut, stopped>> /\ (UNCHANGED queue \/ Broadcast("other"))
    BY <1>10 DEF Silence, CheckHealth, PublishEvent
  <2> QED BY <1>2, <1>3, <2>1, <2>2
<1>11. CASE UNCHANGED gatewayVars \/ UNCHANGED gatewayOwn
  BY <1>2, <1>11 DEF gatewayVars, gatewayOwn
<1> QED BY <1>4, <1>5, <1>6, <1>7, <1>8, <1>9, <1>10, <1>11 DEF GatewayNext, RegistryNext

LEMMA RegisterInvIsKept == RegisterInv /\ [GatewayNext]_gatewayVars => RegisterInv'
<1> SUFFICES ASSUME ComponentsInv, [GatewayNext]_gatewayVars PROVE ComponentsInv'
  BY ChannelsStayOpen DEF RegisterInv
<1>1. CASE UNCHANGED components
  BY <1>1 DEF ComponentsInv, RestHasAReason
<1>2. CASE \/ \E c \in Components : \/ RegisterComponent(c) \/ UnregisterComponent(c)
                                    \/ Heartbeat(c)
                                    \/ \E i, e \in BOOLEAN : SetComponentState(c, i, e)
  BY <1>2, RestKeepsItsReason
<1>3. CASE (Silence \/ CheckHealth) /\ Components # {}
  BY <1>3, RestKeepsItsReason
<1>4. CASE (Silence \/ CheckHealth) /\ Components = {}
  <2>1. DOMAIN components = {}
    BY <1>4 DEF ComponentsInv
  <2>2. DOMAIN components' = {} /\ components' \in [{} -> Registrations]
    BY <1>4, <2>1 DEF Silence, CheckHealth
  <2> QED BY <2>2 DEF ComponentsInv, RestHasAReason
<1>5. CASE \/ \E s \in Subscribers : SubscribeEvents(s) \/ UnsubscribeEvents(s)
           \/ PublishEvent \/ Stop
           \/ \E n \in 1 .. Len(queue) : ReadEvent(n)
           \/ \E t \in Senders \cup {Self}, k \in {"Control", "Bulk"}, l \in Lengths :
                 SendDatagram(t, k, l)
           \/ UNCHANGED gatewayVars \/ UNCHANGED gatewayOwn
  BY <1>1, <1>5 DEF SubscribeEvents, UnsubscribeEvents, PublishEvent, Stop, ReadEvent,
                    SendDatagram, gatewayVars, gatewayOwn
<1> QED BY <1>2, <1>3, <1>4, <1>5 DEF GatewayNext, RegistryNext

LEMMA RegisterInvHolds == CoreSpec => []RegisterInv
<1>1. CoreInit => RegisterInv
  BY RegisterInvAtFirst DEF CoreInit
<1>2. RegisterInv /\ [CoreNext]_coreVars => RegisterInv'
  BY RegisterInvIsKept, EveryStepIsOfItsParts
<1> QED BY <1>1, <1>2, PTL DEF CoreSpec

\* The gateway feeds and closes only open channels, each of one subscriber; a component at rest
\* has a reason; and the modes remembered are a chain that ends in the present one
\* (gateway.go:117-227, 341-367, operating_modes.go:70-81).
THEOREM TheRegistersAreHonest == CoreSpec => []RegistersAreHonest
<1>1. RegisterInv /\ FSMInv => RegistersAreHonest
  BY DEF RegisterInv, ComponentsInv, ChannelsInv, FSMInv, RegistersAreHonest
<1> QED BY <1>1, RegisterInvHolds, FSMInvHolds, PTL

(***************************************************************************)
(* Traffic.                                                                *)
(***************************************************************************)

LEMMA LesserOfTwo ==
    ASSUME NEW x \in Int, NEW y \in Int
    PROVE  Min({x, y}) \in Int /\ Min({x, y}) <= x /\ Min({x, y}) <= y /\ Min({x, y}) \in {x, y}
<1>1. \E z \in {x, y} : \A t \in {x, y} : z <= t
  OBVIOUS
<1>2. Min({x, y}) \in {x, y} /\ \A t \in {x, y} : Min({x, y}) <= t
  BY <1>1 DEF Min
<1> QED BY <1>2

LEMMA GreaterOfTwo ==
    ASSUME NEW x \in Int, NEW y \in Int
    PROVE  Max({x, y}) \in Int /\ Max({x, y}) >= x /\ Max({x, y}) >= y /\ Max({x, y}) \in {x, y}
<1>1. \E z \in {x, y} : \A t \in {x, y} : z >= t
  OBVIOUS
<1>2. Max({x, y}) \in {x, y} /\ \A t \in {x, y} : Max({x, y}) >= t
  BY <1>1 DEF Max
<1> QED BY <1>2

\* Products with a number that is not negative.
LEMMA Products ==
    ASSUME NEW x \in Nat, NEW y \in Nat, NEW r \in Nat
    PROVE  /\ x * r \in Nat /\ (x - y) * r = x * r - y * r /\ (x + 1) * r = x * r + r
           /\ x <= y => x * r <= y * r
<1>1. x * r \in Nat /\ (x - y) * r = x * r - y * r /\ (x + 1) * r = x * r + r
  OBVIOUS
<1>2. ASSUME x <= y PROVE x * r <= y * r
  <2>1. y - x \in Nat
    BY <1>2
  <2>2. (y - x) * r \in Nat /\ (y - x) * r = y * r - x * r /\ x * r \in Int /\ y * r \in Int
    BY <2>1
  <2> HIDE <1>2, <2>1
  <2>3. \A p, q \in Int : p - q \in Nat => q <= p
    OBVIOUS
  <2> QED BY <2>2, <2>3
<1> QED BY <1>1, <1>2

BucketRecord == [tokens : Int, last : Int]

\* A bucket is neither overfull nor overdrawn, and was last used at some time up to t.
IsBucket(q, t) ==
    /\ q \in BucketRecord /\ q.tokens >= 0 /\ q.tokens <= Burst
    /\ q.last \in Nat /\ q.last <= t

\* What got through, p, and what is left in the bucket q were paid for: by the first burst, the
\* rate until the bucket was last used, and n challenges solved.
Paid(p, q, n) == p + q.tokens <= Burst + q.last * Rate + n * Burst

\* The accounts of the traffic: nothing passes unseen, and a challenge is rewarded once.
QoSInv ==
    /\ QoSTypeOK
    /\ \A d \in DOMAIN buckets : IsBucket(buckets[d], time)
    /\ \A d \in DOMAIN buckets : Paid(passed[d], buckets[d], Cardinality(solved[d]))
    /\ \A d \in Senders : d \notin DOMAIN buckets => passed[d] = 0
    /\ \A c \in challenges : \A d \in Senders : c.id \notin solved[d]
    /\ \A c, e \in challenges : c.id = e.id => c = e

LEMMA QoSInvAtFirst == QoSInit => QoSInv
<1> SUFFICES ASSUME QoSInit PROVE QoSInv
  OBVIOUS
<1>1. /\ DOMAIN buckets = {} /\ challenges = {} /\ issued = 0 /\ time = 0
      /\ passed = [d \in Senders |-> 0] /\ solved = [d \in Senders |-> {}]
  BY DEF QoSInit
<1> QED BY <1>1, QoSAssumption DEF QoSInv, QoSTypeOK, QoSAssumption

LEMMA Solutions ==
    ASSUME QoSInv, NEW d \in Senders
    PROVE  /\ IsFiniteSet(solved[d]) /\ Cardinality(solved[d]) \in Nat
<1>1. IsFiniteSet(1 .. issued) /\ solved[d] \subseteq 1 .. issued
  BY FS_Interval, QoSAssumption DEF QoSInv, QoSTypeOK, QoSAssumption
<1> QED BY <1>1, FS_Subset, FS_CardinalityType

\* The bucket a packet is judged by is paid for, whether it is new or not.
LEMMA TheBucketIsPaidFor ==
    ASSUME QoSInv, NEW d \in Senders
    PROVE  /\ IsBucket(Bucket(d), time)
           /\ passed[d] \in Nat
           /\ Paid(passed[d], Bucket(d), Cardinality(solved[d]))
<1>1. /\ time \in Nat /\ Burst \in Nat /\ Rate \in Nat /\ passed[d] \in Nat
  BY QoSAssumption DEF QoSInv, QoSTypeOK, QoSAssumption
<1>2. CASE d \in DOMAIN buckets
  BY <1>1, <1>2 DEF Bucket, QoSInv
<1>3. CASE d \notin DOMAIN buckets
  <2> DEFINE n == Cardinality(solved[d])
  <2>1. passed[d] = 0 /\ n \in Nat
    BY <1>3, Solutions DEF QoSInv
  <2>2. Bucket(d) = [tokens |-> Burst, last |-> time]
    BY <1>3 DEF Bucket, NewTokenBucket
  <2>3. IsBucket(Bucket(d), time)
    BY <1>1, <2>2 DEF IsBucket, BucketRecord
  <2>4. time * Rate \in Nat /\ n * Burst \in Nat
    BY <1>1, <2>1, Products
  <2> HIDE DEF n
  <2>5. 0 + Burst <= Burst + time * Rate + n * Burst
    BY <1>1, <2>4
  <2>6. Bucket(d).tokens = Burst /\ Bucket(d).last = time
    BY <2>2
  <2>7. Paid(passed[d], Bucket(d), n)
    BY <2>1, <2>5, <2>6 DEF Paid
  <2> QED BY <1>1, <2>3, <2>7 DEF n
<1> QED BY <1>2, <1>3

\* What a refill adds is paid by the time that has passed.
LEMMA ConsumingPays ==
    ASSUME NEW t \in Nat, time = t, NEW q, IsBucket(q, t), NEW len \in Nat, NEW p \in Nat,
           NEW n \in Nat, Paid(p, q, n)
    PROVE  /\ IsBucket(Consumed(q, len), t)
           /\ Covers(q, len) => Paid(p + len, Consumed(q, len), n)
           /\ ~ Covers(q, len) => Paid(p, Consumed(q, len), n)
<1> DEFINE more == q.tokens + (t - q.last) * Rate
           full == Min({Burst, more})
<1>1. /\ q.tokens \in Int /\ q.tokens >= 0 /\ q.tokens <= Burst /\ q.last \in Nat
      /\ q.last <= t /\ t - q.last \in Nat /\ Rate \in Nat /\ Burst \in Nat
  BY QoSAssumption DEF IsBucket, BucketRecord, QoSAssumption
<1>2. /\ (t - q.last) * Rate \in Nat
      /\ (t - q.last) * Rate = t * Rate - q.last * Rate
      /\ t * Rate \in Nat /\ q.last * Rate \in Nat /\ n * Burst \in Nat
  BY <1>1, Products
<1>3. more \in Int /\ more >= 0 /\ more = q.tokens + t * Rate - q.last * Rate
  BY <1>1, <1>2
<1> HIDE DEF more
<1>4. full \in Int /\ full <= Burst /\ full <= more /\ full >= 0
  <2>1. Burst \in Int
    BY <1>1
  <2>2. /\ Min({Burst, more}) \in Int /\ Min({Burst, more}) <= Burst
        /\ Min({Burst, more}) <= more /\ Min({Burst, more}) \in {Burst, more}
    BY <1>3, <2>1, LesserOfTwo
  <2> QED BY <1>1, <1>3, <2>2
<1>5. Filled(q) = [tokens |-> full, last |-> t]
  BY DEF Filled, more
<1> HIDE DEF full
<1>6. Covers(q, len) <=> full >= len
  BY <1>5 DEF Covers
<1>7. Consumed(q, len) = [tokens |-> IF full >= len THEN full - len ELSE full, last |-> t]
  BY <1>4, <1>5, <1>6 DEF Consumed
<1>8. IsBucket(Consumed(q, len), t)
  BY <1>1, <1>4, <1>7 DEF IsBucket, BucketRecord
<1>9. p + full <= Burst + t * Rate + n * Burst
  <2>1. p + q.tokens <= Burst + q.last * Rate + n * Burst
    BY DEF Paid
  <2> QED BY <1>1, <1>2, <1>3, <1>4, <2>1
<1>10. Consumed(q, len).last = t
  BY <1>7
<1>11. ASSUME Covers(q, len) PROVE Paid(p + len, Consumed(q, len), n)
  <2>1. Consumed(q, len).tokens = full - len
    BY <1>6, <1>7, <1>11
  <2>2. p + len + (full - len) = p + full
    BY <1>4
  <2> QED BY <1>9, <1>10, <2>1, <2>2 DEF Paid
<1>12. ASSUME ~ Covers(q, len) PROVE Paid(p, Consumed(q, len), n)
  <2>1. Consumed(q, len).tokens = full
    BY <1>6, <1>7, <1>12
  <2> QED BY <1>9, <1>10, <2>1 DEF Paid
<1> QED BY <1>8, <1>11, <1>12

\* A packet judged: its length is taken from the bucket if it passes, and a challenge with a new
\* number is made if it does not.
LEMMA JudgingPays ==
    ASSUME QoSInv, NEW d \in Senders, NEW class, NEW len \in Lengths,
           Admit(d, class, len) \/ Throttle(d, class, len)
    PROVE  QoSInv'
<1> DEFINE n == Cardinality(solved[d])
           q == Consumed(Bucket(d), len)
<1>1. /\ time \in Nat /\ len \in Nat /\ n \in Nat /\ Burst \in Nat /\ issued \in Nat
      /\ MaxChallenges \in Nat
  BY Solutions, QoSAssumption DEF QoSInv, QoSTypeOK, QoSAssumption
<1>2. /\ IsBucket(Bucket(d), time) /\ passed[d] \in Nat /\ Paid(passed[d], Bucket(d), n)
  BY TheBucketIsPaidFor
<1>3. /\ IsBucket(q, time)
      /\ Covers(Bucket(d), len) => Paid(passed[d] + len, q, n)
      /\ ~ Covers(Bucket(d), len) => Paid(passed[d], q, n)
  BY <1>1, <1>2, ConsumingPays
<1>4. CASE UNCHANGED qosVars
  BY <1>4 DEF qosVars, QoSInv, QoSTypeOK
<1>5. ASSUME buckets' = PutBucket(d, q), UNCHANGED time
      PROVE  /\ DOMAIN buckets' = DOMAIN buckets \cup {d}
             /\ \A e \in DOMAIN buckets' : IsBucket(buckets'[e], time')
             /\ \A e \in DOMAIN buckets' : buckets'[e] = IF e = d THEN q ELSE buckets[e]
             /\ \A e \in DOMAIN buckets' :
                  buckets'[e].tokens \in 0 .. Burst /\ buckets'[e].last \in 0 .. time'
             /\ DOMAIN buckets' \subseteq Senders
  <2>1. \A e \in DOMAIN buckets : IsBucket(buckets[e], time)
    BY DEF QoSInv
  <2>2. /\ DOMAIN buckets' = DOMAIN buckets \cup {d}
        /\ \A e \in DOMAIN buckets' : buckets'[e] = IF e = d THEN q ELSE buckets[e]
    BY <1>5 DEF PutBucket
  <2>3. \A e \in DOMAIN buckets' : IsBucket(buckets'[e], time')
    BY <1>3, <1>5, <2>1, <2>2
  <2>4. \A e \in DOMAIN buckets' :
          buckets'[e].tokens \in 0 .. Burst /\ buckets'[e].last \in 0 .. time'
    BY <2>3, <1>1, <1>5 DEF IsBucket, BucketRecord
  <2> QED BY <2>2, <2>3, <2>4 DEF QoSInv, QoSTypeOK
<1>6. CASE /\ Covers(Bucket(d), len)
           /\ buckets' = PutBucket(d, q)
           /\ passed' = [passed EXCEPT ![d] = @ + len]
           /\ UNCHANGED <<challenges, issued, time, solved>>
  <2>1. passed' \in [Senders -> Nat] /\ \A e \in Senders :
          passed'[e] = IF e = d THEN passed[d] + len ELSE passed[e]
    BY <1>1, <1>6 DEF QoSInv, QoSTypeOK
  <2>2. QoSTypeOK'
    BY <1>5, <1>6, <2>1 DEF QoSInv, QoSTypeOK
  <2>3. \A e \in DOMAIN buckets' : Paid(passed'[e], buckets'[e], Cardinality(solved'[e]))
    BY <1>3, <1>5, <1>6, <2>1 DEF QoSInv, QoSTypeOK
  <2> QED BY <1>5, <1>6, <2>1, <2>2, <2>3 DEF QoSInv
<1>7. CASE Throttle(d, class, len)
  <2> DEFINE new == [id |-> issued + 1, did |-> d, expires |-> time + Lifetime]
  <2>1. /\ ~ Covers(Bucket(d), len) /\ issued < MaxChallenges
        /\ buckets' = PutBucket(d, q)
        /\ issued' = issued + 1 /\ challenges' = challenges \cup {new}
        /\ UNCHANGED <<time, passed, solved>>
    BY <1>7 DEF Throttle
  <2>2. new.id = issued + 1 /\ new.did = d
    OBVIOUS
  <2> HIDE DEF new
  <2>3. /\ issued' \in 0 .. MaxChallenges
        /\ solved' \in [Senders -> SUBSET (1 .. issued')]
    <3>1. 1 .. issued \subseteq 1 .. issued'
      BY <1>1, <2>1
    <3> QED BY <3>1, <1>1, <2>1 DEF QoSInv, QoSTypeOK
  <2>4. \A c \in challenges : c.id \in 1 .. issued /\ c.did \in DOMAIN buckets
    BY DEF QoSInv, QoSTypeOK
  <2>5. \A c \in challenges' : c.id \in 1 .. issued' /\ c.did \in DOMAIN buckets'
    BY <2>1, <2>2, <2>4, <1>1, <1>5
  <2>6. QoSTypeOK'
    BY <1>5, <2>1, <2>3, <2>5 DEF QoSInv, QoSTypeOK
  <2>7. \A e \in DOMAIN buckets' : Paid(passed'[e], buckets'[e], Cardinality(solved'[e]))
    BY <1>3, <1>5, <2>1 DEF QoSInv
  <2>8. \A e \in Senders : solved[e] \subseteq 1 .. issued
    BY DEF QoSInv, QoSTypeOK
  <2>9. \A c \in challenges' : \A e \in Senders : c.id \notin solved'[e]
    BY <2>1, <2>2, <2>8, <1>1 DEF QoSInv
  <2>10. \A c, e \in challenges' : c.id = e.id => c = e
    BY <2>1, <2>2, <2>4, <1>1 DEF QoSInv
  <2> QED BY <1>5, <2>1, <2>6, <2>7, <2>9, <2>10 DEF QoSInv
<1> QED BY <1>4, <1>6, <1>7 DEF Admit

\* A challenge answered fills the bucket, and the solution pays for it.
LEMMA SolutionsPay ==
    ASSUME QoSInv, NEW c \in challenges, VerifyAndCreditPoW(c)
    PROVE  QoSInv'
<1>1. CASE Forget(c)
  BY <1>1 DEF Forget, QoSInv, QoSTypeOK
<1>2. CASE Credit(c)
  <2> DEFINE d == c.did
             n == Cardinality(solved[d])
  <2>1. /\ challenges' = challenges \ {c}
        /\ buckets' = [buckets EXCEPT ![d].tokens = Burst]
        /\ solved' = [solved EXCEPT ![d] = @ \cup {c.id}]
        /\ UNCHANGED <<issued, time, passed>>
    BY <1>2 DEF Credit
  <2>2. /\ d \in DOMAIN buckets /\ d \in Senders /\ c.id \in 1 .. issued
        /\ c.id \notin solved[d] /\ Burst \in Nat /\ Rate \in Nat /\ time \in Nat
        /\ passed[d] \in Nat
    BY QoSAssumption DEF QoSInv, QoSTypeOK, QoSAssumption
  <2>3. n \in Nat /\ Cardinality(solved'[d]) = n + 1
    <3>1. solved'[d] = solved[d] \cup {c.id}
      BY <2>1, <2>2 DEF QoSInv, QoSTypeOK
    <3> QED BY <3>1, <2>2, Solutions, FS_AddElement
  <2>4. PICK q \in BucketRecord : q = buckets[d] /\ IsBucket(q, time) /\ Paid(passed[d], q, n)
    BY <2>2 DEF QoSInv, IsBucket
  <2> DEFINE full == [q EXCEPT !.tokens = Burst]
  <2>5. full.tokens = Burst /\ full.last = q.last /\ full \in BucketRecord
    BY <2>2 DEF BucketRecord
  <2>6. buckets' = [buckets EXCEPT ![d] = full]
    BY <2>1, <2>4
  <2> HIDE DEF full, n
  <2>7. IsBucket(full, time)
    BY <2>2, <2>4, <2>5 DEF IsBucket
  <2>8. Paid(passed[d], full, n + 1)
    <3>1. /\ q.tokens \in Int /\ q.tokens >= 0 /\ q.last \in Nat
          /\ passed[d] + q.tokens <= Burst + q.last * Rate + n * Burst
      BY <2>4 DEF IsBucket, Paid, BucketRecord
    <3>2. q.last * Rate \in Nat /\ n * Burst \in Nat /\ (n + 1) * Burst = n * Burst + Burst
      BY <2>2, <2>3, <3>1, Products
    <3>3. passed[d] + Burst <= Burst + q.last * Rate + (n + 1) * Burst
      BY <2>2, <3>1, <3>2
    <3> QED BY <2>5, <3>3 DEF Paid
  <2>9. /\ DOMAIN buckets' = DOMAIN buckets
        /\ \A e \in DOMAIN buckets : buckets'[e] = IF e = d THEN full ELSE buckets[e]
        /\ \A e \in Senders : e # d => solved'[e] = solved[e]
    BY <2>1, <2>2, <2>6 DEF QoSInv, QoSTypeOK
  <2>10. \A e \in DOMAIN buckets' : IsBucket(buckets'[e], time')
    BY <2>1, <2>7, <2>9 DEF QoSInv
  <2>11. \A e \in DOMAIN buckets' :
           buckets'[e].tokens \in 0 .. Burst /\ buckets'[e].last \in 0 .. time'
    BY <2>1, <2>2, <2>10 DEF IsBucket, BucketRecord
  <2>12. solved' \in [Senders -> SUBSET (1 .. issued')]
    BY <2>1, <2>2 DEF QoSInv, QoSTypeOK
  <2>13. QoSTypeOK'
    BY <2>1, <2>9, <2>11, <2>12 DEF QoSInv, QoSTypeOK
  <2>14. \A e \in DOMAIN buckets' : Paid(passed'[e], buckets'[e], Cardinality(solved'[e]))
    BY <2>1, <2>3, <2>8, <2>9 DEF QoSInv, QoSTypeOK, n
  <2>15. \A k \in challenges' : \A e \in Senders : k.id \notin solved'[e]
    BY <2>1, <2>2, <2>9 DEF QoSInv, QoSTypeOK
  <2> QED BY <2>1, <2>9, <2>10, <2>13, <2>14, <2>15 DEF QoSInv
<1> QED BY <1>1, <1>2 DEF VerifyAndCreditPoW

LEMMA QoSInvIsKept == QoSInv /\ [GatewayNext]_gatewayVars => QoSInv'
<1> SUFFICES ASSUME QoSInv, [GatewayNext]_gatewayVars PROVE QoSInv'
  OBVIOUS
<1>1. CASE UNCHANGED qosVars
  BY <1>1 DEF qosVars, QoSInv, QoSTypeOK
<1>2. ASSUME NEW t \in Senders \cup {Self}, NEW k \in {"Control", "Bulk"}, NEW l \in Lengths,
             SendDatagram(t, k, l)
      PROVE  QoSInv'
  <2>1. CASE t = Self
    BY <1>1, <1>2, <2>1 DEF SendDatagram
  <2>2. CASE t # Self
    BY <1>2, <2>2, JudgingPays DEF SendDatagram
  <2> QED BY <2>1, <2>2
<1>3. CASE QoSTick
  <2>1. time' = time + 1 /\ time' \in 0 .. MaxTime
        /\ UNCHANGED <<buckets, challenges, issued, passed, solved>>
    BY <1>3, QoSAssumption DEF QoSTick, QoSInv, QoSTypeOK, QoSAssumption
  <2>2. \A d \in DOMAIN buckets : IsBucket(buckets[d], time')
    BY <2>1 DEF QoSInv, IsBucket, QoSTypeOK
  <2>3. QoSTypeOK'
    BY <2>1 DEF QoSInv, QoSTypeOK
  <2> QED BY <2>1, <2>2, <2>3 DEF QoSInv
<1>4. CASE QoSNext
  BY <1>3, <1>4, JudgingPays, SolutionsPay DEF QoSNext, EvaluatePacket
<1>5. CASE \/ \E c \in Components : \/ RegisterComponent(c) \/ UnregisterComponent(c)
                                    \/ Heartbeat(c)
                                    \/ \E i, e \in BOOLEAN : SetComponentState(c, i, e)
           \/ Silence \/ CheckHealth
           \/ \E s \in Subscribers : SubscribeEvents(s) \/ UnsubscribeEvents(s)
           \/ PublishEvent \/ Stop
           \/ \E n \in 1 .. Len(queue) : ReadEvent(n)
           \/ UNCHANGED gatewayVars
  BY <1>1, <1>5 DEF RegisterComponent, UnregisterComponent, Heartbeat, SetComponentState,
                    Silence, CheckHealth, SubscribeEvents, UnsubscribeEvents, PublishEvent,
                    Stop, ReadEvent, gatewayVars
<1> QED BY <1>2, <1>4, <1>5 DEF GatewayNext, RegistryNext

LEMMA QoSInvHolds == CoreSpec => []QoSInv
<1>1. CoreInit => QoSInv
  BY QoSInvAtFirst DEF CoreInit, GatewayInit
<1>2. QoSInv /\ [CoreNext]_coreVars => QoSInv'
  BY QoSInvIsKept, EveryStepIsOfItsParts
<1> QED BY <1>1, <1>2, PTL DEF CoreSpec

LEMMA PaidByNow == QoSInv => TrafficIsPaidFor
<1> SUFFICES ASSUME QoSInv, NEW d \in Senders
             PROVE  passed[d] <= Burst + time * Rate + Cardinality(solved[d]) * Burst
  BY DEF TrafficIsPaidFor
<1> DEFINE n == Cardinality(solved[d])
           q == Bucket(d)
<1>1. /\ time \in Nat /\ n \in Nat /\ Burst \in Nat /\ Rate \in Nat
      /\ IsBucket(q, time) /\ passed[d] \in Nat /\ Paid(passed[d], q, n)
  BY Solutions, TheBucketIsPaidFor, QoSAssumption DEF QoSInv, QoSTypeOK, QoSAssumption
<1> HIDE DEF n, q
<1>2. /\ q.tokens \in Int /\ q.tokens >= 0 /\ q.last \in Nat /\ q.last <= time
      /\ passed[d] + q.tokens <= Burst + q.last * Rate + n * Burst
  BY <1>1 DEF IsBucket, Paid, BucketRecord
<1>3. /\ q.last * Rate \in Nat /\ time * Rate \in Nat /\ q.last * Rate <= time * Rate
      /\ n * Burst \in Nat
  BY <1>1, <1>2, Products
<1>4. passed[d] <= Burst + time * Rate + n * Burst
  BY <1>1, <1>2, <1>3
<1> QED BY <1>4 DEF n

(***************************************************************************)
(* Cookies.                                                                *)
(***************************************************************************)

Seconds == 0 .. MaxSeconds
Rounds == 1 .. NumBuckets + 1
Calls == [at : {"swap", "fill", "token", "proof"}, now : Seconds, last : Seconds,
          nonce : Nonces, next : Rounds]

\* Who has won the refill and still has to fill bucket r.
Filling(r) == {g \in Guests : guest[g].at = "fill" /\ guest[g].next <= r}

\* What a bucket with n tokens can still give away.
Remaining(n) == IF n > 0 THEN n ELSE 0

\* What has been given away without a proof, f, what is left of n tokens and what k fillers may
\* still bring were paid for by the burst at the start and one for each second up to t.
Rationed(f, n, k, t) == f + Remaining(n) + k * CookieBurst <= CookieBurst + t * CookieBurst

\* A call c is begun by the second t; when it is going to swap it has seen a later second than
\* that of the refill it has read, and when it fills there is a bucket left to fill.
InOrder(c, t) ==
    /\ c.at # "away" => c.now <= t
    /\ c.at = "swap" => c.last < c.now /\ c.next = 1
    /\ c.at = "fill" => c.next \in BucketIds

\* The accounts of the cookies.
CookieInv ==
    /\ second \in Seconds /\ lastRefill \in Nat /\ lastRefill <= second
    /\ tokens \in [BucketIds -> Int] /\ free \in [BucketIds -> Nat]
    /\ cookies \subseteq Nat /\ \A c \in cookies : c <= second
    /\ guest \in [Guests -> Calls \cup {Away}]
    /\ \A g \in Guests : InOrder(guest[g], second)
    /\ \A r \in BucketIds :
          /\ IsFiniteSet(Filling(r))
          /\ Rationed(free[r], tokens[r], Cardinality(Filling(r)), lastRefill)

LEMMA CookieNumbers ==
    /\ NumBuckets \in Nat /\ NumBuckets >= 1 /\ CookieBurst \in Nat /\ CookieBurst >= 1
    /\ CookieEpoch \in Nat /\ CookieEpoch >= 1 /\ MaxSeconds \in Nat /\ MaxCalls \in Nat
    /\ ProofBurst \in Nat
    /\ Away.at = "away"
    /\ \A c \in Calls : c # Away /\ c.at \in {"swap", "fill", "token", "proof"}
  BY CookieAssumption DEF CookieAssumption, Calls, Away

LEMMA CookieInvAtFirst == CookieInit => CookieInv
<1> SUFFICES ASSUME CookieInit PROVE CookieInv
  OBVIOUS
<1> USE DEF CookieInit
<1>1. \A r \in BucketIds : Filling(r) = {}
  BY CookieNumbers DEF Filling
<1>2. \A r \in BucketIds :
        /\ IsFiniteSet(Filling(r))
        /\ Rationed(free[r], tokens[r], Cardinality(Filling(r)), lastRefill)
  <2> SUFFICES ASSUME NEW r \in BucketIds
               PROVE  /\ IsFiniteSet(Filling(r))
                      /\ Rationed(free[r], tokens[r], Cardinality(Filling(r)), lastRefill)
    OBVIOUS
  <2>1. IsFiniteSet(Filling(r)) /\ Cardinality(Filling(r)) = 0
    BY <1>1, FS_EmptySet
  <2>2. free[r] = 0 /\ tokens[r] = CookieBurst /\ lastRefill = 0
    OBVIOUS
  <2>3. Rationed(0, CookieBurst, 0, 0)
    BY CookieNumbers DEF Rationed, Remaining
  <2> QED BY <2>1, <2>2, <2>3
<1>3. \A g \in Guests : guest[g] = Away
  OBVIOUS
<1>4. /\ second \in Seconds /\ lastRefill \in Nat /\ lastRefill <= second
      /\ tokens \in [BucketIds -> Int] /\ free \in [BucketIds -> Nat]
      /\ cookies \subseteq Nat /\ \A c \in cookies : c <= second
      /\ guest \in [Guests -> Calls \cup {Away}]
  BY CookieNumbers DEF Seconds
<1>5. \A g \in Guests : InOrder(guest[g], second)
  BY <1>3, CookieNumbers DEF InOrder
<1> QED BY <1>2, <1>4, <1>5 DEF CookieInv

\* A call in one of its stages is a record of a call.
LEMMA ACall ==
    ASSUME CookieInv, NEW g \in Guests, guest[g].at # "away"
    PROVE  guest[g] \in Calls
  BY CookieNumbers DEF CookieInv

\* Only what a step does to the fillers, the tokens and the cookies given matters to the ration.
LEMMA RationsKept ==
    ASSUME CookieInv, UNCHANGED lastRefill,
           tokens' \in [BucketIds -> Int], free' \in [BucketIds -> Nat],
           \A r \in BucketIds : Filling(r)' = Filling(r),
           \A r \in BucketIds : free'[r] + Remaining(tokens'[r]) <= free[r] + Remaining(tokens[r])
    PROVE  \A r \in BucketIds :
             /\ IsFiniteSet(Filling(r)')
             /\ Rationed(free'[r], tokens'[r], Cardinality(Filling(r)'), lastRefill')
<1> SUFFICES ASSUME NEW r \in BucketIds
             PROVE  /\ IsFiniteSet(Filling(r))
                    /\ Rationed(free'[r], tokens'[r], Cardinality(Filling(r)), lastRefill)
  OBVIOUS
<1>1. /\ IsFiniteSet(Filling(r)) /\ lastRefill \in Nat
      /\ Rationed(free[r], tokens[r], Cardinality(Filling(r)), lastRefill)
  BY DEF CookieInv
<1>2. PICK k \in Nat : k = Cardinality(Filling(r))
  BY <1>1, FS_CardinalityType
<1>3. /\ k * CookieBurst \in Nat /\ lastRefill * CookieBurst \in Nat
      /\ Remaining(tokens[r]) \in Nat /\ Remaining(tokens'[r]) \in Nat
      /\ free[r] \in Nat /\ free'[r] \in Nat
  BY <1>1, CookieNumbers, Products DEF CookieInv, Remaining
<1>4. Rationed(free'[r], tokens'[r], k, lastRefill)
  BY <1>1, <1>2, <1>3, CookieNumbers DEF Rationed
<1> QED BY <1>1, <1>2, <1>4

\* A call is begun, which reads the clock and the last refill.
LEMMA BeginsACall ==
    ASSUME CookieInv, NEW g \in Guests, NEW n \in Nonces, AskForCookie(g, n)
    PROVE  CookieInv'
<1> DEFINE call == [at |-> IF second > lastRefill THEN "swap" ELSE "token",
                    now |-> second, last |-> lastRefill, nonce |-> n, next |-> 1]
<1>1. /\ guest[g].at = "away" /\ guest' = [guest EXCEPT ![g] = call]
      /\ UNCHANGED <<second, lastRefill, tokens, free, cookies>>
  BY DEF AskForCookie
<1>2. /\ call \in Calls /\ call.at # "fill" /\ call.now = second /\ call.next = 1
      /\ call.at = "swap" => call.last < call.now
  <2>1. second \in Seconds /\ lastRefill \in Seconds /\ 1 \in Rounds
    BY CookieNumbers DEF CookieInv, Seconds, Rounds
  <2> QED BY <2>1 DEF Calls, CookieInv
<1> HIDE DEF call
<1>3. \A h \in Guests : guest'[h] = IF h = g THEN call ELSE guest[h]
  BY <1>1 DEF CookieInv
<1>4. \A r \in BucketIds : Filling(r)' = Filling(r)
  BY <1>1, <1>2, <1>3 DEF Filling
<1>5. \A r \in BucketIds :
         /\ IsFiniteSet(Filling(r)')
         /\ Rationed(free'[r], tokens'[r], Cardinality(Filling(r)'), lastRefill')
  BY <1>1, <1>4 DEF CookieInv
<1>6. guest' \in [Guests -> Calls \cup {Away}]
  BY <1>1, <1>2 DEF CookieInv
<1>7. \A h \in Guests : InOrder(guest'[h], second')
  BY <1>1, <1>2, <1>3 DEF CookieInv, Seconds, InOrder
<1> QED BY <1>1, <1>5, <1>6, <1>7 DEF CookieInv

\* Whoever wins the swap moves the last refill by a second at least, which pays for what it is
\* going to fill.
LEMMA SwapsAreRationed ==
    ASSUME CookieInv, NEW g \in Guests, Swap(g)
    PROVE  CookieInv'
<1>1. PICK c \in Calls : /\ c = guest[g] /\ c.at = "swap" /\ c.last < c.now /\ c.next = 1
                         /\ c.now <= second
  BY ACall DEF CookieInv, Swap, InOrder
<1>2. /\ c.now \in Nat /\ c.last \in Nat
      /\ [c EXCEPT !.at = "fill"] \in Calls /\ [c EXCEPT !.at = "token"] \in Calls
      /\ [c EXCEPT !.at = "fill"].at = "fill" /\ [c EXCEPT !.at = "token"].at = "token"
      /\ [c EXCEPT !.at = "fill"].next = 1
      /\ [c EXCEPT !.at = "fill"].now = c.now /\ [c EXCEPT !.at = "token"].now = c.now
  BY <1>1 DEF Calls, Seconds
<1>3. CASE lastRefill = c.last
  <2> DEFINE call == [c EXCEPT !.at = "fill"]
  <2>1. /\ lastRefill' = c.now /\ guest' = [guest EXCEPT ![g] = call]
        /\ UNCHANGED <<second, tokens, free, cookies>>
    BY <1>1, <1>3 DEF Swap
  <2>2. call \in Calls /\ call.at = "fill" /\ call.next = 1 /\ call.now = c.now
    BY <1>2
  <2> HIDE DEF call
  <2>3. \A h \in Guests : guest'[h] = IF h = g THEN call ELSE guest[h]
    BY <2>1 DEF CookieInv
  <2>4. ASSUME NEW r \in BucketIds
        PROVE  /\ IsFiniteSet(Filling(r)')
               /\ Rationed(free'[r], tokens'[r], Cardinality(Filling(r)'), lastRefill')
    <3>1. g \notin Filling(r) /\ Filling(r)' = Filling(r) \cup {g}
      <4>1. 1 <= r
        BY DEF BucketIds
      <4>2. g \notin Filling(r)
        BY <1>1 DEF Filling
      <4>3. \A h \in Guests : h # g => (h \in Filling(r)' <=> h \in Filling(r))
        BY <2>3 DEF Filling
      <4>4. g \in Filling(r)'
        BY <2>2, <2>3, <4>1 DEF Filling
      <4>5. Filling(r) \subseteq Guests /\ Filling(r)' \subseteq Guests
        BY DEF Filling
      <4> QED BY <4>2, <4>3, <4>4, <4>5
    <3>2. IsFiniteSet(Filling(r)) /\ Cardinality(Filling(r)) \in Nat
      BY FS_CardinalityType DEF CookieInv
    <3>3. IsFiniteSet(Filling(r)') /\ Cardinality(Filling(r)') = Cardinality(Filling(r)) + 1
      BY <3>1, <3>2, FS_AddElement
    <3>4. PICK k \in Nat : k = Cardinality(Filling(r))
      BY <3>2
    <3>5. Rationed(free[r], tokens[r], k, lastRefill)
      BY <3>4 DEF CookieInv
    <3>6. /\ (k + 1) * CookieBurst = k * CookieBurst + CookieBurst
          /\ (lastRefill + 1) * CookieBurst = lastRefill * CookieBurst + CookieBurst
          /\ (lastRefill + 1) * CookieBurst <= c.now * CookieBurst
          /\ k * CookieBurst \in Nat /\ lastRefill * CookieBurst \in Nat
          /\ c.now * CookieBurst \in Nat
      <4>1. lastRefill \in Nat /\ lastRefill + 1 \in Nat /\ lastRefill + 1 <= c.now
        BY <1>1, <1>2, <1>3
      <4> QED BY <1>2, <4>1, CookieNumbers, Products
    <3>7. Remaining(tokens[r]) \in Nat /\ free[r] \in Nat
      BY DEF Remaining, CookieInv
    <3>8. Rationed(free[r], tokens[r], k + 1, c.now)
      BY <3>5, <3>6, <3>7, CookieNumbers DEF Rationed
    <3> QED BY <2>1, <3>3, <3>4, <3>8
  <2>5. guest' \in [Guests -> Calls \cup {Away}]
    BY <2>1, <2>2 DEF CookieInv
  <2>6. \A h \in Guests : InOrder(guest'[h], second')
    BY <1>1, <2>1, <2>2, <2>3, CookieNumbers DEF CookieInv, InOrder, BucketIds
  <2> QED BY <1>1, <1>2, <2>1, <2>4, <2>5, <2>6 DEF CookieInv
<1>4. CASE lastRefill # c.last
  <2> DEFINE call == [c EXCEPT !.at = "token"]
  <2>1. /\ guest' = [guest EXCEPT ![g] = call]
        /\ UNCHANGED <<second, lastRefill, tokens, free, cookies>>
    BY <1>1, <1>4 DEF Swap
  <2>2. call \in Calls /\ call.at = "token" /\ call.now = c.now
    BY <1>2
  <2> HIDE DEF call
  <2>3. \A h \in Guests : guest'[h] = IF h = g THEN call ELSE guest[h]
    BY <2>1 DEF CookieInv
  <2>4. \A r \in BucketIds : Filling(r)' = Filling(r)
    BY <1>1, <2>2, <2>3 DEF Filling
  <2>5. guest' \in [Guests -> Calls \cup {Away}]
    BY <2>1, <2>2 DEF CookieInv
  <2>6. \A h \in Guests : InOrder(guest'[h], second')
    BY <1>1, <2>1, <2>2, <2>3, CookieNumbers DEF CookieInv, InOrder, BucketIds
  <2> QED BY <2>1, <2>4, <2>5, <2>6 DEF CookieInv
<1> QED BY <1>3, <1>4

\* A bucket filled is filled by one of those whose share had been set aside.
LEMMA FillsAreRationed ==
    ASSUME CookieInv, NEW g \in Guests, Fill(g)
    PROVE  CookieInv'
<1>1. PICK c \in Calls : c = guest[g] /\ c.at = "fill" /\ c.now <= second /\ c.next \in BucketIds
  BY ACall DEF CookieInv, Fill, InOrder
<1> DEFINE stage == IF c.next = NumBuckets THEN "token" ELSE "fill"
           call == [c EXCEPT !.next = c.next + 1, !.at = stage]
<1>2. /\ tokens' = [tokens EXCEPT ![c.next] = CookieBurst]
      /\ guest' = [guest EXCEPT ![g] = call]
      /\ UNCHANGED <<second, lastRefill, free, cookies>>
  BY <1>1 DEF Fill
<1>3. /\ call \in Calls /\ call.at = stage /\ call.next = c.next + 1 /\ call.now = c.now
      /\ stage \in {"token", "fill"} /\ (stage = "fill" => c.next + 1 \in BucketIds)
  <2>1. c.next + 1 \in Rounds /\ (stage = "fill" => c.next + 1 \in BucketIds)
    BY <1>1, CookieNumbers DEF Rounds, BucketIds
  <2>2. stage \in {"token", "fill"}
    OBVIOUS
  <2> HIDE DEF stage
  <2> QED BY <2>1, <2>2 DEF Calls
<1> HIDE DEF call
<1>4. \A h \in Guests : guest'[h] = IF h = g THEN call ELSE guest[h]
  BY <1>2 DEF CookieInv
<1>5. \A r \in BucketIds : tokens'[r] = IF r = c.next THEN CookieBurst ELSE tokens[r]
  BY <1>2 DEF CookieInv
<1>6. ASSUME NEW r \in BucketIds
      PROVE  /\ IsFiniteSet(Filling(r)')
             /\ Rationed(free'[r], tokens'[r], Cardinality(Filling(r)'), lastRefill')
  <2>1. /\ IsFiniteSet(Filling(r)) /\ lastRefill \in Nat
        /\ Rationed(free[r], tokens[r], Cardinality(Filling(r)), lastRefill)
    BY DEF CookieInv
  <2>2. PICK k \in Nat : k = Cardinality(Filling(r))
    BY <2>1, FS_CardinalityType
  <2>3. \A h \in Guests : h # g => (h \in Filling(r)' <=> h \in Filling(r))
    BY <1>4 DEF Filling
  <2>4. Filling(r) \subseteq Guests /\ Filling(r)' \subseteq Guests
    BY DEF Filling
  <2>5. CASE r = c.next
    <3>1. g \in Filling(r)
      BY <1>1, <2>5 DEF Filling, BucketIds
    <3>2. g \notin Filling(r)'
      BY <1>1, <1>3, <1>4, <2>5 DEF Filling, BucketIds
    <3>3. Filling(r)' = Filling(r) \ {g}
      BY <2>3, <2>4, <3>1, <3>2
    <3>4. IsFiniteSet(Filling(r)') /\ Cardinality(Filling(r)') = k - 1
      BY <2>1, <2>2, <3>1, <3>3, FS_RemoveElement
    <3>5. k >= 1
      BY <2>1, <2>2, <3>1, <3>4, FS_CardinalityType
    <3>6. PICK m \in Nat : m = k - 1
      BY <2>2, <3>5
    <3>7. (m + 1) * CookieBurst = m * CookieBurst + CookieBurst /\ m * CookieBurst \in Nat
      BY <3>6, CookieNumbers, Products
    <3>8. Remaining(tokens[r]) \in Nat /\ free[r] \in Nat /\ lastRefill * CookieBurst \in Nat
      BY <2>1, CookieNumbers, Products DEF Remaining, CookieInv
    <3>9. m + 1 = k
      BY <2>2, <3>6
    <3>10. Rationed(free[r], tokens[r], m + 1, lastRefill)
      BY <2>1, <2>2, <3>9
    <3>11. Remaining(CookieBurst) = CookieBurst
      BY CookieNumbers DEF Remaining
    <3>12. Rationed(free[r], CookieBurst, m, lastRefill)
      BY <3>7, <3>8, <3>10, <3>11, CookieNumbers DEF Rationed
    <3> QED BY <1>2, <1>5, <2>5, <3>4, <3>6, <3>12
  <2>6. CASE r # c.next
    <3>1. c.next <= r => c.next # NumBuckets
      BY <1>1, <2>6 DEF BucketIds
    <3>2. g \in Filling(r)' <=> g \in Filling(r)
      BY <1>1, <1>3, <1>4, <2>6, <3>1 DEF Filling, BucketIds
    <3>3. Filling(r)' = Filling(r)
      BY <2>3, <2>4, <3>2
    <3> QED BY <1>2, <1>5, <2>1, <2>6, <3>3
  <2> QED BY <2>5, <2>6
<1>7. tokens' \in [BucketIds -> Int]
  <2>1. CookieBurst \in Int
    BY CookieNumbers
  <2> QED BY <1>2, <2>1 DEF CookieInv
<1>8. guest' \in [Guests -> Calls \cup {Away}]
  BY <1>2, <1>3 DEF CookieInv
<1>9. \A h \in Guests : InOrder(guest'[h], second')
  <2>1. InOrder(call, second)
    BY <1>1, <1>3 DEF InOrder
  <2> QED BY <1>2, <1>4, <2>1 DEF CookieInv
<1> QED BY <1>2, <1>6, <1>7, <1>8, <1>9 DEF CookieInv

\* A cookie given without a proof costs a token; the rest costs at most one.
LEMMA TakingIsRationed ==
    ASSUME CookieInv, NEW g \in Guests, NEW r \in BucketIds,
           TakeCookieToken(g, r) \/ VerifyMicroPoW(g, r)
    PROVE  CookieInv'
<1>1. PICK c \in Calls : c = guest[g] /\ c.at \in {"token", "proof"} /\ c.now <= second
  BY ACall DEF CookieInv, TakeCookieToken, VerifyMicroPoW, InOrder
<1> DEFINE proof == [c EXCEPT !.at = "proof"]
<1>2. proof \in Calls /\ proof.at = "proof" /\ proof.now = c.now
  BY <1>1 DEF Calls
<1>3. /\ guest' = [guest EXCEPT ![g] = Away] \/ guest' = [guest EXCEPT ![g] = proof]
      /\ cookies' = cookies \/ cookies' = cookies \cup {c.now}
      /\ UNCHANGED <<second, lastRefill>>
  BY <1>1 DEF TakeCookieToken, VerifyMicroPoW, Give, Refuse
<1> HIDE DEF proof
<1>4. /\ \A h \in Guests : h # g => guest'[h] = guest[h]
      /\ guest'[g] = Away \/ guest'[g] = proof
  BY <1>3 DEF CookieInv
<1>5. /\ tokens' \in [BucketIds -> Int] /\ free' \in [BucketIds -> Nat]
      /\ \A q \in BucketIds : free'[q] + Remaining(tokens'[q]) <= free[q] + Remaining(tokens[q])
  <2>1. PICK t \in Int : t = tokens[r]
    BY DEF CookieInv
  <2>2. \A q \in BucketIds : free[q] \in Nat /\ Remaining(tokens[q]) \in Nat
    BY DEF CookieInv, Remaining
  <2>3. CASE VerifyMicroPoW(g, r)
    BY <2>2, <2>3 DEF VerifyMicroPoW, CookieInv
  <2>4. CASE TakeCookieToken(g, r)
    <3> DEFINE less == Max({-1, t - 1})
    <3>1. -1 \in Int /\ t - 1 \in Int
      BY <2>1
    <3>2. less \in Int /\ less >= t - 1 /\ less \in {-1, t - 1}
      BY <3>1, GreaterOfTwo
    <3>3. tokens' = [tokens EXCEPT ![r] = less]
      BY <2>1, <2>4 DEF TakeCookieToken
    <3> HIDE DEF less
    <3>4. \A q \in BucketIds : tokens'[q] = IF q = r THEN less ELSE tokens[q]
      BY <3>3 DEF CookieInv
    <3>5. t > 0 => Remaining(less) = Remaining(t) - 1
      BY <3>2 DEF Remaining
    <3>6. ~ (t > 0) => Remaining(less) = 0 /\ Remaining(t) = 0
      BY <3>2 DEF Remaining
    <3>7. CASE t > 0
      <4>1. free' = [free EXCEPT ![r] = @ + 1]
        BY <2>1, <2>4, <3>7 DEF TakeCookieToken
      <4>2. free' \in [BucketIds -> Nat] /\ \A q \in BucketIds :
              free'[q] = IF q = r THEN free[q] + 1 ELSE free[q]
        BY <4>1 DEF CookieInv
      <4>3. tokens' \in [BucketIds -> Int]
        BY <3>2, <3>3 DEF CookieInv
      <4>4. ASSUME NEW q \in BucketIds
            PROVE  free'[q] + Remaining(tokens'[q]) <= free[q] + Remaining(tokens[q])
        <5>1. CASE q = r
          BY <2>1, <2>2, <3>4, <3>5, <3>7, <4>2, <5>1
        <5>2. CASE q # r
          BY <2>2, <3>4, <4>2, <5>2
        <5> QED BY <5>1, <5>2
      <4> QED BY <4>2, <4>3, <4>4
    <3>8. CASE ~ (t > 0)
      <4>1. free' = free
        BY <2>1, <2>4, <3>8 DEF TakeCookieToken
      <4>2. tokens' \in [BucketIds -> Int]
        BY <3>2, <3>3 DEF CookieInv
      <4>3. ASSUME NEW q \in BucketIds
            PROVE  free'[q] + Remaining(tokens'[q]) <= free[q] + Remaining(tokens[q])
        <5>1. CASE q = r
          BY <2>1, <2>2, <3>4, <3>6, <3>8, <4>1, <5>1
        <5>2. CASE q # r
          BY <2>2, <3>4, <4>1, <5>2
        <5> QED BY <5>1, <5>2
      <4> QED BY <4>1, <4>2, <4>3 DEF CookieInv
    <3> QED BY <3>7, <3>8
  <2> QED BY <2>3, <2>4
<1>6. \A q \in BucketIds : Filling(q)' = Filling(q)
  <2>1. g \in Guests /\ guest[g].at # "fill" /\ guest'[g].at # "fill"
    BY <1>1, <1>2, <1>4, CookieNumbers
  <2> QED BY <1>4, <2>1 DEF Filling
<1>7. \A q \in BucketIds :
         /\ IsFiniteSet(Filling(q)')
         /\ Rationed(free'[q], tokens'[q], Cardinality(Filling(q)'), lastRefill')
  BY <1>3, <1>5, <1>6, RationsKept
<1>8. guest' \in [Guests -> Calls \cup {Away}]
  BY <1>2, <1>3 DEF CookieInv
<1>9. \A h \in Guests : InOrder(guest'[h], second')
  <2>1. InOrder(proof, second) /\ InOrder(Away, second)
    BY <1>1, <1>2, CookieNumbers DEF InOrder
  <2> QED BY <1>3, <1>4, <2>1 DEF CookieInv
<1>10. cookies' \subseteq Nat /\ \A k \in cookies' : k <= second'
  <2>1. c.now \in Nat
    BY <1>1 DEF Calls, Seconds
  <2>2. cookies \subseteq Nat /\ \A k \in cookies : k <= second
    BY DEF CookieInv
  <2> QED BY <1>1, <1>3, <2>1, <2>2
<1> QED BY <1>3, <1>5, <1>7, <1>8, <1>9, <1>10 DEF CookieInv

LEMMA CookieInvIsKept == CookieInv /\ [CookieNext]_cookieVars => CookieInv'
<1> SUFFICES ASSUME CookieInv, [CookieNext]_cookieVars PROVE CookieInv'
  OBVIOUS
<1>1. CASE UNCHANGED cookieVars
  <2>1. \A r \in BucketIds : Filling(r)' = Filling(r)
    BY <1>1 DEF Filling, cookieVars
  <2> QED BY <1>1, <2>1 DEF cookieVars, CookieInv
<1>2. CASE CookieTick
  <2>1. /\ second' = second + 1 /\ second' \in Seconds /\ second \in Nat
        /\ UNCHANGED <<lastRefill, tokens, guest, free, cookies>>
    BY <1>2, CookieNumbers DEF CookieTick, CookieInv, Seconds
  <2>2. \A r \in BucketIds : Filling(r)' = Filling(r)
    BY <2>1 DEF Filling
  <2>3. \A g \in Guests : InOrder(guest'[g], second')
    <3>1. \A g \in Guests : guest[g].at # "away" => guest[g].now \in Nat
      BY ACall DEF Calls, Seconds
    <3> QED BY <2>1, <3>1 DEF CookieInv, InOrder
  <2>4. \A c \in cookies' : c <= second'
    BY <2>1 DEF CookieInv
  <2> QED BY <2>1, <2>2, <2>3, <2>4 DEF CookieInv
<1> QED BY <1>1, <1>2, BeginsACall, SwapsAreRationed, FillsAreRationed, TakingIsRationed
        DEF CookieNext

LEMMA CookieInvHolds == CoreSpec => []CookieInv
<1>1. CoreInit => CookieInv
  BY CookieInvAtFirst DEF CoreInit
<1>2. CookieInv /\ [CoreNext]_coreVars => CookieInv'
  BY CookieInvIsKept, EveryStepIsOfItsParts
<1> QED BY <1>1, <1>2, PTL DEF CoreSpec

LEMMA RationedByNow == CookieInv => CookiesAreRationed
<1> SUFFICES ASSUME CookieInv, NEW r \in BucketIds
             PROVE  free[r] <= CookieBurst * (1 + second)
  BY DEF CookiesAreRationed
<1>1. /\ IsFiniteSet(Filling(r)) /\ lastRefill \in Nat /\ second \in Nat /\ lastRefill <= second
      /\ Rationed(free[r], tokens[r], Cardinality(Filling(r)), lastRefill)
  BY CookieNumbers DEF CookieInv, Seconds
<1>2. PICK k \in Nat : k = Cardinality(Filling(r))
  BY <1>1, FS_CardinalityType
<1>3. /\ k * CookieBurst \in Nat /\ lastRefill * CookieBurst \in Nat /\ second * CookieBurst \in Nat
      /\ lastRefill * CookieBurst <= second * CookieBurst
      /\ free[r] \in Nat /\ Remaining(tokens[r]) \in Nat
  BY <1>1, CookieNumbers, Products DEF CookieInv, Remaining
<1>4. free[r] <= CookieBurst + second * CookieBurst
  <2>1. /\ free[r] + Remaining(tokens[r]) + k * CookieBurst
             <= CookieBurst + lastRefill * CookieBurst
        /\ CookieBurst \in Nat
    BY <1>1, <1>2, CookieNumbers DEF Rationed
  <2>2. \A f, l, x, y, z \in Nat :
           f + l + x <= CookieBurst + y /\ y <= z => f <= CookieBurst + z
    BY <2>1
  <2> QED BY <1>3, <2>1, <2>2
<1>5. CookieBurst * (1 + second) = CookieBurst + second * CookieBurst
  BY <1>1, CookieNumbers
<1> QED BY <1>4, <1>5

\* The epochs of two moments tell how far apart they are.
LEMMA Epochs ==
    ASSUME NEW c \in Nat, NEW t \in Nat, NEW n \in Nat, n >= 1, c <= t
    PROVE  /\ t - c <= n => c \div n \in {t \div n, t \div n - 1}
           /\ c \div n \in {t \div n, t \div n - 1} => t - c < 2 * n
<1> DEFINE p == c \div n
           q == t \div n
<1>1. p \in Int /\ p * n <= c /\ c < p * n + n
  OBVIOUS
<1>2. q \in Int /\ q * n <= t /\ t < q * n + n
  OBVIOUS
<1> HIDE DEF p, q
<1>3. PICK d \in Int : d = q - p
  BY <1>1, <1>2
<1>4. d * n = q * n - p * n /\ d * n \in Int /\ p * n \in Int /\ q * n \in Int
  BY <1>1, <1>2, <1>3
<1>5. ASSUME t - c <= n PROVE p \in {q, q - 1}
  <2>1. d * n < 2 * n /\ d * n > -n
    BY <1>1, <1>2, <1>4, <1>5
  <2>2. d < 2 /\ d > -1
    BY <1>3, <2>1
  <2>3. d = 0 \/ d = 1
    BY <1>3, <2>2
  <2> QED BY <1>1, <1>2, <1>3, <2>3
<1>6. ASSUME p \in {q, q - 1} PROVE t - c < 2 * n
  <2>1. d = 0 \/ d = 1
    BY <1>1, <1>2, <1>3, <1>6
  <2>2. d * n <= n
    BY <2>1
  <2> QED BY <1>1, <1>2, <1>4, <2>2
<1> QED BY <1>5, <1>6 DEF p, q

LEMMA ValidForTwoEpochs == CookieInv => CookiesExpire
<1> SUFFICES ASSUME CookieInv, NEW c \in cookies
             PROVE  /\ second - c <= CookieEpoch => CookieIsValid(c)
                    /\ CookieIsValid(c) => second - c < 2 * CookieEpoch
  BY DEF CookiesExpire
<1>1. c \in Nat /\ second \in Nat /\ c <= second
  BY CookieNumbers DEF CookieInv, Seconds
<1> QED BY <1>1, CookieNumbers, Epochs DEF CookieIsValid

\* What is let through is paid for: traffic by the burst, the rate and the challenges solved,
\* free cookies by one burst and one more for each second; and a cookie is good for one epoch at
\* least and two at most (qos.go:56-76, 207-212, crypto.go:219-288).
THEOREM AdmissionIsPaidFor == CoreSpec => []AdmissionIsRationed
<1>1. QoSInv /\ CookieInv => AdmissionIsRationed
  BY PaidByNow, RationedByNow, ValidForTwoEpochs DEF AdmissionIsRationed
<1> QED BY <1>1, QoSInvHolds, CookieInvHolds, PTL

(***************************************************************************)
(* Keys.                                                                   *)
(***************************************************************************)

KeyNumbers == 0 .. MaxEpoch
Turns == [at : {"idle", "seal", "ask", "rotate"}, key : KeyNumbers]

\* Who is about to seal a packet under key e, and who has sealed one and not left since.
Sealing(e) == {g \in Sealers : sealer[g].at = "seal" /\ sealer[g].key = e}
Reporting == {g \in Sealers : sealer[g].at \in {"ask", "rotate"}}

\* What has been counted over the limit was counted by somebody who has not come back for a key
\* since: that is why n goroutines can exceed it by n - 1 packets and no more.
KeyInv ==
    /\ epoch \in 1 .. MaxEpoch /\ hasPrevious \in BOOLEAN /\ age \in 0 .. MaxAge
    /\ packetsCount \in Nat
    /\ sealer \in [Sealers -> Turns] /\ sealedWith \in [1 .. MaxEpoch -> Nat]
    /\ \A g \in Sealers :
          sealer[g].key <= epoch /\ (sealer[g].at = "seal" => sealer[g].key >= 1)
    /\ \A e \in 1 .. MaxEpoch : e > epoch => sealedWith[e] = 0
    /\ sealedWith[epoch] <= packetsCount
    /\ packetsCount <= MaxPackets - 1 + Cardinality(Reporting)
    /\ \A e \in 1 .. MaxEpoch :
          sealedWith[e] + Cardinality(Sealing(e)) <= MaxPackets + Cardinality(Sealers) - 1

LEMMA KeyFacts ==
    /\ IsFiniteSet(Sealers) /\ Cardinality(Sealers) \in Nat
    /\ MaxPackets \in Nat /\ MaxPackets >= 1 /\ MaxEpoch \in Nat /\ MaxEpoch >= 1
    /\ MaxAge \in Nat /\ KeyLifetime \in Nat /\ Grace \in Nat
    /\ IsFiniteSet(Reporting) /\ Cardinality(Reporting) \in Nat
    /\ \A e : IsFiniteSet(Sealing(e)) /\ Cardinality(Sealing(e)) \in Nat
<1>1. /\ IsFiniteSet(Sealers)
      /\ MaxPackets \in Nat /\ MaxPackets >= 1 /\ MaxEpoch \in Nat /\ MaxEpoch >= 1
      /\ MaxAge \in Nat /\ KeyLifetime \in Nat /\ Grace \in Nat
  BY KeyAssumption DEF KeyAssumption
<1>2. Reporting \subseteq Sealers /\ \A e : Sealing(e) \subseteq Sealers
  BY DEF Reporting, Sealing
<1>3. IsFiniteSet(Reporting) /\ \A e : IsFiniteSet(Sealing(e))
  BY <1>1, <1>2, FS_Subset
<1> QED BY <1>1, <1>3, FS_CardinalityType

LEMMA KeyInvAtFirst == KeyInit => KeyInv
<1> SUFFICES ASSUME KeyInit PROVE KeyInv
  OBVIOUS
<1>1. /\ epoch = 1 /\ hasPrevious = FALSE /\ age = 0 /\ packetsCount = 0
      /\ sealer = [g \in Sealers |-> [at |-> "idle", key |-> 0]]
      /\ sealedWith = [e \in 1 .. MaxEpoch |-> 0]
  BY DEF KeyInit
<1>2. [at |-> "idle", key |-> 0] \in Turns
  <2>1. 0 \in KeyNumbers
    BY KeyFacts DEF KeyNumbers
  <2> QED BY <2>1 DEF Turns
<1>3. \A g \in Sealers : sealer[g].at = "idle" /\ sealer[g].key = 0
  BY <1>1
<1>4. \A e : Sealing(e) = {}
  BY <1>3 DEF Sealing
<1>5. \A e : Cardinality(Sealing(e)) = 0
  BY <1>4, FS_EmptySet
<1>6. sealer \in [Sealers -> Turns] /\ sealedWith \in [1 .. MaxEpoch -> Nat]
  BY <1>1, <1>2
<1>7. \A e \in 1 .. MaxEpoch : sealedWith[e] = 0
  BY <1>1
<1>8. 1 \in 1 .. MaxEpoch /\ 0 \in 0 .. MaxAge
  BY KeyFacts
<1>9. 0 <= MaxPackets - 1 + Cardinality(Reporting)
  BY KeyFacts
<1>10. 0 + 0 <= MaxPackets + Cardinality(Sealers) - 1
  BY KeyFacts
<1>11. \A e \in 1 .. MaxEpoch :
         sealedWith[e] + Cardinality(Sealing(e)) <= MaxPackets + Cardinality(Sealers) - 1
  BY <1>5, <1>7, <1>10
<1>12. /\ epoch \in 1 .. MaxEpoch /\ age \in 0 .. MaxAge /\ hasPrevious \in BOOLEAN
       /\ packetsCount \in Nat /\ packetsCount <= MaxPackets - 1 + Cardinality(Reporting)
       /\ sealedWith[epoch] <= packetsCount
  <2>1. sealedWith[epoch] = 0 /\ 0 <= 0 /\ 0 \in Nat
    BY <1>1, <1>7, <1>8
  <2> QED BY <1>1, <1>8, <1>9, <2>1
<1>13. \A g \in Sealers :
         sealer[g].key <= epoch /\ (sealer[g].at = "seal" => sealer[g].key >= 1)
  BY <1>1, <1>3
<1> QED BY <1>6, <1>7, <1>11, <1>12, <1>13 DEF KeyInv

\* Who takes a key is not among those who seal under it or have been counted.
LEMMA TakingAKey ==
    ASSUME KeyInv, NEW g \in Sealers, GetKeys(g)
    PROVE  KeyInv'
<1> DEFINE turn == [at |-> "seal", key |-> epoch]
<1>1. /\ sealer[g].at = "idle" /\ sealer' = [sealer EXCEPT ![g] = turn]
      /\ UNCHANGED <<epoch, hasPrevious, age, packetsCount, sealedWith>>
  BY DEF GetKeys
<1>2. turn \in Turns /\ turn.at = "seal" /\ turn.key = epoch /\ epoch >= 1
  <2>1. epoch \in KeyNumbers /\ epoch >= 1
    BY KeyFacts DEF KeyInv, KeyNumbers
  <2> QED BY <2>1 DEF Turns
<1> HIDE DEF turn
<1>3. \A h \in Sealers : sealer'[h] = IF h = g THEN turn ELSE sealer[h]
  BY <1>1 DEF KeyInv
<1>4. Reporting' = Reporting
  BY <1>1, <1>2, <1>3 DEF Reporting
<1>5. \A e : e # epoch => Sealing(e)' = Sealing(e)
  <2>1. ASSUME NEW e, e # epoch PROVE Sealing(e)' = Sealing(e)
    <3>1. \A h \in Sealers : (sealer'[h].at = "seal" /\ sealer'[h].key = e)
                               <=> (sealer[h].at = "seal" /\ sealer[h].key = e)
      BY <1>1, <1>2, <1>3, <2>1
    <3> QED BY <3>1 DEF Sealing
  <2> QED BY <2>1
<1>6. Sealing(epoch)' = Sealing(epoch) \cup {g} /\ g \notin Sealing(epoch)
  BY <1>1, <1>2, <1>3 DEF Sealing
<1>7. Cardinality(Sealing(epoch)') = Cardinality(Sealing(epoch)) + 1
  BY <1>6, KeyFacts, FS_AddElement
<1>8. Cardinality(Sealing(epoch)) + Cardinality(Reporting) <= Cardinality(Sealers) - 1
  <2> DEFINE S == Sealing(epoch)
             others == Sealers \ {g}
  <2>1. S \cap Reporting = {}
    BY DEF Sealing, Reporting
  <2>2. S \cup Reporting \subseteq others
    BY <1>1, <1>6 DEF Sealing, Reporting
  <2>3. IsFiniteSet(others) /\ Cardinality(others) = Cardinality(Sealers) - 1
    BY KeyFacts, FS_RemoveElement
  <2>4. Cardinality(S \cup Reporting) <= Cardinality(others)
    BY <2>2, <2>3, FS_Subset
  <2>5. Cardinality(S \cup Reporting) = Cardinality(S) + Cardinality(Reporting) - Cardinality({})
    BY <2>1, KeyFacts, FS_Union
  <2>6. Cardinality({}) = 0
    BY FS_EmptySet
  <2> HIDE DEF S, others
  <2>7. Cardinality(S) \in Nat
    BY KeyFacts DEF S
  <2>8. Cardinality(S) + Cardinality(Reporting) <= Cardinality(Sealers) - 1
    BY <2>3, <2>4, <2>5, <2>6, <2>7, KeyFacts
  <2> QED BY <2>8 DEF S
<1>9. sealedWith'[epoch] + Cardinality(Sealing(epoch)') <= MaxPackets + Cardinality(Sealers) - 1
  <2>1. /\ sealedWith[epoch] \in Nat /\ sealedWith[epoch] <= packetsCount
        /\ packetsCount <= MaxPackets - 1 + Cardinality(Reporting) /\ packetsCount \in Nat
    BY DEF KeyInv
  <2> QED BY <1>1, <1>7, <1>8, <2>1, KeyFacts
<1>10. \A e \in 1 .. MaxEpoch :
         sealedWith'[e] + Cardinality(Sealing(e)') <= MaxPackets + Cardinality(Sealers) - 1
  BY <1>1, <1>5, <1>9 DEF KeyInv
<1>11. sealer' \in [Sealers -> Turns]
  BY <1>1, <1>2 DEF KeyInv
<1>12. \A h \in Sealers :
         sealer'[h].key <= epoch' /\ (sealer'[h].at = "seal" => sealer'[h].key >= 1)
  BY <1>1, <1>2, <1>3 DEF KeyInv
<1> QED BY <1>1, <1>4, <1>10, <1>11, <1>12 DEF KeyInv

\* A packet sealed moves its goroutine from those who will to those who have.
LEMMA SealingIsCounted ==
    ASSUME KeyInv, NEW g \in Sealers, TrackTraffic(g)
    PROVE  KeyInv'
<1>1. PICK t \in Turns : t = sealer[g] /\ t.at = "seal" /\ t.key \in 1 .. MaxEpoch /\ t.key <= epoch
  BY KeyFacts DEF KeyInv, TrackTraffic, Turns, KeyNumbers
<1> DEFINE turn == [t EXCEPT !.at = "ask"]
<1>2. /\ packetsCount' = packetsCount + 1
      /\ sealedWith' = [sealedWith EXCEPT ![t.key] = @ + 1]
      /\ sealer' = [sealer EXCEPT ![g] = turn]
      /\ UNCHANGED <<epoch, hasPrevious, age>>
  BY <1>1 DEF TrackTraffic
<1>3. turn \in Turns /\ turn.at = "ask" /\ turn.key = t.key
  BY <1>1 DEF Turns
<1> HIDE DEF turn
<1>4. /\ \A h \in Sealers : sealer'[h] = IF h = g THEN turn ELSE sealer[h]
      /\ \A e \in 1 .. MaxEpoch : sealedWith[e] \in Nat /\
           sealedWith'[e] = IF e = t.key THEN sealedWith[e] + 1 ELSE sealedWith[e]
      /\ sealedWith' \in [1 .. MaxEpoch -> Nat]
  BY <1>1, <1>2 DEF KeyInv
<1>5. Reporting' = Reporting \cup {g} /\ g \notin Reporting
  BY <1>1, <1>3, <1>4 DEF Reporting
<1>6. Cardinality(Reporting') = Cardinality(Reporting) + 1
  BY <1>5, KeyFacts, FS_AddElement
<1>7. Sealing(t.key)' = Sealing(t.key) \ {g} /\ g \in Sealing(t.key)
  BY <1>1, <1>3, <1>4 DEF Sealing
<1>8. Cardinality(Sealing(t.key)') = Cardinality(Sealing(t.key)) - 1
  <2>1. PICK S, n : S = Sealing(t.key) /\ n = t.key
    OBVIOUS
  <2>2. IsFiniteSet(S) /\ g \in S /\ Sealing(t.key)' = S \ {g}
    BY <1>7, <2>1, KeyFacts
  <2>3. Cardinality(S \ {g}) = Cardinality(S) - 1
    BY <2>2, FS_RemoveElement
  <2> QED BY <2>1, <2>2, <2>3
<1>9. \A e : e # t.key => Sealing(e)' = Sealing(e)
  <2>1. ASSUME NEW e, e # t.key PROVE Sealing(e)' = Sealing(e)
    <3>1. \A h \in Sealers : (sealer'[h].at = "seal" /\ sealer'[h].key = e)
                               <=> (sealer[h].at = "seal" /\ sealer[h].key = e)
      BY <1>1, <1>3, <1>4, <2>1
    <3> QED BY <3>1 DEF Sealing
  <2> QED BY <2>1
<1>10. \A e \in 1 .. MaxEpoch :
         sealedWith'[e] + Cardinality(Sealing(e)') <= MaxPackets + Cardinality(Sealers) - 1
  <2> SUFFICES ASSUME NEW e \in 1 .. MaxEpoch
               PROVE  sealedWith'[e] + Cardinality(Sealing(e)')
                        <= MaxPackets + Cardinality(Sealers) - 1
    OBVIOUS
  <2>1. sealedWith[e] + Cardinality(Sealing(e)) <= MaxPackets + Cardinality(Sealers) - 1
    BY DEF KeyInv
  <2>2. CASE e = t.key
    <3>1. /\ sealedWith'[e] = sealedWith[e] + 1 /\ sealedWith[e] \in Nat
          /\ Cardinality(Sealing(e)') = Cardinality(Sealing(e)) - 1
      BY <1>4, <1>8, <2>2
    <3>2. Cardinality(Sealing(e)) \in Nat
      BY KeyFacts
    <3> QED BY <2>1, <3>1, <3>2
  <2>3. CASE e # t.key
    BY <1>4, <1>9, <2>1, <2>3
  <2> QED BY <2>2, <2>3
<1>11. sealedWith'[epoch'] <= packetsCount'
  BY <1>1, <1>2, <1>4 DEF KeyInv
<1>12. packetsCount' \in Nat /\ packetsCount' <= MaxPackets - 1 + Cardinality(Reporting')
  BY <1>2, <1>6, KeyFacts DEF KeyInv
<1>13. \A e \in 1 .. MaxEpoch : e > epoch' => sealedWith'[e] = 0
  BY <1>1, <1>2, <1>4 DEF KeyInv
<1>14. sealer' \in [Sealers -> Turns]
  BY <1>2, <1>3 DEF KeyInv
<1>15. \A h \in Sealers :
         sealer'[h].key <= epoch' /\ (sealer'[h].at = "seal" => sealer'[h].key >= 1)
  BY <1>1, <1>2, <1>3, <1>4 DEF KeyInv
<1> QED BY <1>2, <1>4, <1>10, <1>11, <1>12, <1>13, <1>14, <1>15 DEF KeyInv

\* Nobody leaves while the count is over the limit.
LEMMA AskingForRotation ==
    ASSUME KeyInv, NEW g \in Sealers, Ask(g)
    PROVE  KeyInv'
<1>1. PICK t \in Turns : t = sealer[g] /\ t.at = "ask" /\ t.key <= epoch
  BY DEF KeyInv, Ask
<1> DEFINE rest == [at |-> "idle", key |-> 0]
           turn == IF NeedsRotation THEN [t EXCEPT !.at = "rotate"] ELSE rest
<1>2. /\ sealer' = [sealer EXCEPT ![g] = turn]
      /\ UNCHANGED <<epoch, hasPrevious, age, packetsCount, sealedWith>>
  BY <1>1 DEF Ask
<1>3. rest \in Turns /\ rest.key = 0 /\ rest.at = "idle"
  <2>1. 0 \in KeyNumbers
    BY KeyFacts DEF KeyNumbers
  <2> QED BY <2>1 DEF Turns
<1>4. /\ turn \in Turns /\ turn.key <= epoch /\ turn.at \in {"rotate", "idle"}
      /\ turn.at = "idle" => packetsCount < MaxPackets
  <2>1. CASE NeedsRotation
    BY <1>1, <2>1 DEF Turns
  <2>2. CASE ~ NeedsRotation
    BY <1>3, <2>2, KeyFacts DEF NeedsRotation, KeyInv
  <2> QED BY <2>1, <2>2
<1> HIDE DEF turn, rest
<1>5. \A h \in Sealers : sealer'[h] = IF h = g THEN turn ELSE sealer[h]
  BY <1>2 DEF KeyInv
<1>6. \A e : Sealing(e)' = Sealing(e)
  <2>1. ASSUME NEW e PROVE Sealing(e)' = Sealing(e)
    <3>1. \A h \in Sealers : (sealer'[h].at = "seal" /\ sealer'[h].key = e)
                               <=> (sealer[h].at = "seal" /\ sealer[h].key = e)
      BY <1>1, <1>4, <1>5
    <3> QED BY <3>1 DEF Sealing
  <2> QED BY <2>1
<1>7. packetsCount' <= MaxPackets - 1 + Cardinality(Reporting')
  <2>1. CASE turn.at = "idle"
    <3>1. packetsCount \in Nat /\ packetsCount < MaxPackets
      BY <1>4, <2>1 DEF KeyInv
    <3>2. IsFiniteSet(Reporting') /\ Cardinality(Reporting') \in Nat
      <4>1. Reporting' \subseteq Sealers
        BY DEF Reporting
      <4>2. IsFiniteSet(Reporting')
        BY <4>1, KeyFacts, FS_Subset
      <4> QED BY <4>2, FS_CardinalityType
    <3> QED BY <1>2, <3>1, <3>2, KeyFacts
  <2>2. CASE turn.at = "rotate"
    <3>1. Reporting' = Reporting
      BY <1>1, <1>5, <2>2 DEF Reporting
    <3> QED BY <1>2, <3>1 DEF KeyInv
  <2> QED BY <1>4, <2>1, <2>2
<1>8. sealer' \in [Sealers -> Turns]
  BY <1>2, <1>4 DEF KeyInv
<1>9. \A h \in Sealers :
        sealer'[h].key <= epoch' /\ (sealer'[h].at = "seal" => sealer'[h].key >= 1)
  BY <1>2, <1>4, <1>5 DEF KeyInv
<1> QED BY <1>2, <1>6, <1>7, <1>8, <1>9 DEF KeyInv

\* A rotation begins with a key that has sealed nothing.
LEMMA RotationsStartAnew ==
    ASSUME KeyInv, NEW g \in Sealers, Rotate(g)
    PROVE  KeyInv'
<1> DEFINE rest == [at |-> "idle", key |-> 0]
<1>1. /\ sealer[g].at = "rotate" /\ epoch < MaxEpoch
      /\ epoch' = epoch + 1
      /\ hasPrevious' = TRUE /\ age' = 0 /\ packetsCount' = 0
      /\ sealer' = [sealer EXCEPT ![g] = rest]
      /\ UNCHANGED sealedWith
  BY DEF Rotate
<1>2. rest \in Turns /\ rest.key = 0 /\ rest.at = "idle"
  <2>1. 0 \in KeyNumbers
    BY KeyFacts DEF KeyNumbers
  <2> QED BY <2>1 DEF Turns
<1> HIDE DEF rest
<1>3. \A h \in Sealers : sealer'[h] = IF h = g THEN rest ELSE sealer[h]
  BY <1>1 DEF KeyInv
<1>4. \A e : Sealing(e)' = Sealing(e)
  <2>1. ASSUME NEW e PROVE Sealing(e)' = Sealing(e)
    <3>1. \A h \in Sealers : (sealer'[h].at = "seal" /\ sealer'[h].key = e)
                               <=> (sealer[h].at = "seal" /\ sealer[h].key = e)
      BY <1>1, <1>2, <1>3
    <3> QED BY <3>1 DEF Sealing
  <2> QED BY <2>1
<1>5. /\ epoch' \in 1 .. MaxEpoch /\ epoch' > epoch /\ epoch \in Nat /\ age' \in 0 .. MaxAge
      /\ sealedWith'[epoch'] = 0
      /\ \A e \in 1 .. MaxEpoch : e > epoch' => sealedWith'[e] = 0
  <2>1. /\ epoch \in Nat /\ epoch + 1 \in 1 .. MaxEpoch /\ age' \in 0 .. MaxAge
        /\ \A e \in 1 .. MaxEpoch : e > epoch => sealedWith[e] = 0
    BY <1>1, KeyFacts DEF KeyInv
  <2>2. epoch + 1 > epoch /\ \A e \in 1 .. MaxEpoch : e > epoch + 1 => e > epoch
    BY <2>1
  <2> QED BY <1>1, <2>1, <2>2
<1>6. packetsCount' <= MaxPackets - 1 + Cardinality(Reporting')
  <2>1. Reporting' \subseteq Sealers
    BY DEF Reporting
  <2>2. IsFiniteSet(Reporting')
    BY <2>1, KeyFacts, FS_Subset
  <2>3. Cardinality(Reporting') \in Nat
    BY <2>2, FS_CardinalityType
  <2> QED BY <1>1, <2>3, KeyFacts
<1>7. sealer' \in [Sealers -> Turns]
  BY <1>1, <1>2 DEF KeyInv
<1>8. \A h \in Sealers :
        sealer'[h].key <= epoch' /\ (sealer'[h].at = "seal" => sealer'[h].key >= 1)
  <2>1. \A h \in Sealers : sealer[h].key \in Int
    BY KeyFacts DEF KeyInv, Turns, KeyNumbers
  <2> QED BY <1>1, <1>2, <1>3, <1>5, <2>1 DEF KeyInv
<1> QED BY <1>1, <1>4, <1>5, <1>6, <1>7, <1>8 DEF KeyInv

LEMMA KeyInvIsKept == KeyInv /\ [KeyNext]_keyVars => KeyInv'
<1> SUFFICES ASSUME KeyInv, [KeyNext]_keyVars PROVE KeyInv'
  OBVIOUS
<1>1. CASE UNCHANGED keyVars \/ KeyTick
  <2>1. /\ UNCHANGED <<epoch, hasPrevious, packetsCount, sealer, sealedWith>>
        /\ age' \in 0 .. MaxAge
    <3>1. CASE UNCHANGED keyVars
      BY <3>1 DEF keyVars, KeyInv
    <3>2. CASE KeyTick
      BY <3>2, KeyFacts DEF KeyTick, KeyInv
    <3> QED BY <1>1, <3>1, <3>2
  <2>2. Reporting' = Reporting /\ \A e : Sealing(e)' = Sealing(e)
    BY <2>1 DEF Reporting, Sealing
  <2> QED BY <2>1, <2>2 DEF KeyInv
<1> QED BY <1>1, TakingAKey, SealingIsCounted, AskingForRotation, RotationsStartAnew DEF KeyNext

LEMMA KeyInvHolds == CoreSpec => []KeyInv
<1>1. CoreInit => KeyInv
  BY KeyInvAtFirst DEF CoreInit
<1>2. KeyInv /\ [CoreNext]_coreVars => KeyInv'
  BY KeyInvIsKept, EveryStepIsOfItsParts
<1> QED BY <1>1, <1>2, PTL DEF CoreSpec

LEMMA BoundedByNow == KeyInv => KeyUseIsBounded
<1> SUFFICES ASSUME KeyInv, NEW e \in 1 .. MaxEpoch
             PROVE  sealedWith[e] <= MaxPackets + Cardinality(Sealers) - 1
  BY DEF KeyUseIsBounded
<1>1. /\ sealedWith[e] \in Nat
      /\ sealedWith[e] + Cardinality(Sealing(e)) <= MaxPackets + Cardinality(Sealers) - 1
  BY DEF KeyInv
<1> QED BY <1>1, KeyFacts

\* However many goroutines seal, count and rotate at once, a key seals no more packets than its
\* limit and one more for each of them but one (key_rotation.go:70-86, 109-114).
THEOREM KeysAreUsedWithinBounds == CoreSpec => []KeyUseIsBounded
  BY BoundedByNow, KeyInvHolds, PTL

(***************************************************************************)
(* The line and its buffers.                                               *)
(***************************************************************************)

Positions == 1 .. Len(Stages) + 1
Lines == 0 .. Len(Stages)
Counts == 0 .. 2

\* A job of a worker that is not idle.
Work == [at : {"stage", "update", "signal", "verify", "done"}, datagram : Datagrams,
         buf : Buffers \cup {NoBuffer}, next : Positions, last : Lines, handled : BOOLEAN]

PoolTypes ==
    /\ DOMAIN level \subseteq Buffers /\ \A c \in DOMAIN level : level[c] \in Sizes
    /\ idle \in [Buffers -> Counts] /\ refs \in [Buffers -> Int]
    /\ content \in [Buffers -> Datagrams \cup {Blank}]

LineTypes ==
    /\ work \in [Workers -> {Idle} \cup Work] /\ retained \subseteq Buffers \X Datagrams
    /\ built \in Lines /\ trusted \subseteq Origins
    /\ \A w \in Workers : work[w].at \in {"stage", "update"} => work[w].next <= work[w].last

\* Nobody holds a buffer that has not been allocated.
HoldersInv ==
    /\ \A c \in Buffers : IsFiniteSet(Carriers(c)) /\ IsFiniteSet(Retainers(c))
    /\ \A c \in Buffers : c \notin DOMAIN level => Carriers(c) = {} /\ Retainers(c) = {}
    /\ BuffersAccountedFor /\ BuffersAreStable

BuffersInv == PoolTypes /\ LineTypes /\ HoldersInv

LEMMA TheStages == Len(Stages) = 4
  BY DEF Stages

LEMMA JobsAreNotIdle ==
    /\ Idle.at = "idle"
    /\ \A j \in Work : j.at # "idle" /\ j.at \in {"stage", "update", "signal", "verify", "done"}
    /\ NoBuffer \notin Buffers
  BY PipelineAssumption DEF Idle, Work, PipelineAssumption

LEMMA BuffersInvAtFirst == PipelineInit => BuffersInv
<1> SUFFICES ASSUME PipelineInit PROVE BuffersInv
  OBVIOUS
<1>1. /\ level = [c \in {} |-> 0] /\ idle = [c \in Buffers |-> 0]
      /\ refs = [c \in Buffers |-> 0] /\ content = [c \in Buffers |-> Blank]
      /\ retained = {} /\ work = [w \in Workers |-> Idle] /\ built = 0 /\ trusted = {}
  BY DEF PipelineInit, PoolInit
<1>2. DOMAIN level = {} /\ \A w \in Workers : work[w] = Idle
  BY <1>1
<1>3. \A c \in Buffers : Carriers(c) = {} /\ Retainers(c) = {}
  BY <1>1, <1>2, JobsAreNotIdle DEF Carriers, Retainers
<1>4. HoldersInv
  BY <1>1, <1>2, <1>3, FS_EmptySet, JobsAreNotIdle
     DEF HoldersInv, BuffersAccountedFor, BuffersAreStable
<1>5. PoolTypes
  <2>1. 0 \in Counts
    BY DEF Counts
  <2> QED BY <1>1, <1>2, <2>1 DEF PoolTypes
<1>6. LineTypes
  <2>1. 0 \in Lines
    BY TheStages DEF Lines
  <2> QED BY <1>1, <1>2, <2>1, JobsAreNotIdle DEF LineTypes
<1> QED BY <1>4, <1>5, <1>6 DEF BuffersInv

\* A buffer a worker has is allocated, and the worker is one of its holders.
LEMMA WhatAWorkerHas ==
    ASSUME BuffersInv, NEW w \in Workers, work[w].at # "idle", work[w].buf # NoBuffer
    PROVE  /\ work[w].buf \in Buffers /\ work[w].buf \in DOMAIN level
           /\ w \in Carriers(work[w].buf)
           /\ content[work[w].buf] = work[w].datagram /\ work[w].datagram \in Datagrams
<1>1. work[w] \in Work
  BY JobsAreNotIdle DEF BuffersInv, LineTypes
<1>2. work[w].buf \in Buffers /\ work[w].datagram \in Datagrams
  BY <1>1 DEF Work
<1>3. w \in Carriers(work[w].buf)
  BY DEF Carriers
<1> QED BY <1>2, <1>3 DEF BuffersInv, HoldersInv, BuffersAreStable

\* The worker w holds in the next state what it held before, if it holds anything.
SameHold(w) ==
    /\ work'[w].at # "idle" <=> work[w].at # "idle"
    /\ work[w].at # "idle" => /\ work'[w].buf = work[w].buf
                              /\ work'[w].datagram = work[w].datagram

\* A step that touches neither the buffers nor who holds them.
LEMMA HoldsAreKept ==
    ASSUME BuffersInv, UNCHANGED <<poolVars, retained>>, \A w \in Workers : SameHold(w)
    PROVE  PoolTypes' /\ HoldersInv'
<1>1. UNCHANGED <<level, idle, refs, content, retained>>
  BY DEF poolVars
<1>2. \A c \in Buffers : Carriers(c)' = Carriers(c) /\ Retainers(c)' = Retainers(c)
  BY <1>1 DEF Carriers, Retainers, SameHold
<1>3. PoolTypes'
  BY <1>1 DEF PoolTypes, BuffersInv
<1>4. BuffersAccountedFor'
  BY <1>1, <1>2 DEF BuffersInv, HoldersInv, BuffersAccountedFor, PoolTypes
<1>5. BuffersAreStable'
  BY <1>1 DEF BuffersInv, HoldersInv, BuffersAreStable, SameHold
<1> QED BY <1>1, <1>2, <1>3, <1>4, <1>5 DEF BuffersInv, HoldersInv

\* A buffer loses one of its holders when it is released: its count follows, and if it was the
\* last one the buffer goes back to its pool once, or is forgotten when it is oversize.
LEMMA Releasing ==
    ASSUME BuffersInv, NEW c \in DOMAIN level, Release(c),
           \A e \in Buffers : e # c => Carriers(e)' = Carriers(e) /\ Retainers(e)' = Retainers(e),
           \/ /\ Retainers(c)' = Retainers(c)
              /\ \E w \in Carriers(c) : Carriers(c)' = Carriers(c) \ {w}
           \/ /\ Carriers(c)' = Carriers(c)
              /\ \E p \in Retainers(c) : Retainers(c)' = Retainers(c) \ {p},
           \A w \in Workers : work'[w].at # "idle" /\ work'[w].buf # NoBuffer
                                 => SameHold(w) /\ work'[w].buf \in Buffers,
           retained' \subseteq retained
    PROVE  PoolTypes' /\ HoldersInv'
<1> DEFINE C == Carriers(c)
           R == Retainers(c)
           D == Carriers(c)'
           S == Retainers(c)'
<1>1. /\ c \in Buffers /\ IsFiniteSet(C) /\ IsFiniteSet(R)
      /\ refs[c] = Cardinality(C) + Cardinality(R)
      /\ idle[c] = IF C \cup R = {} THEN 1 ELSE 0
  BY DEF BuffersInv, HoldersInv, BuffersAccountedFor, PoolTypes
<1>2. /\ IsFiniteSet(D) /\ IsFiniteSet(S) /\ Cardinality(C) \in Nat /\ Cardinality(R) \in Nat
      /\ Cardinality(D) + Cardinality(S) = Cardinality(C) + Cardinality(R) - 1
      /\ C \cup R # {}
  <2>1. CASE S = R /\ \E w \in C : D = C \ {w}
    <3>1. PICK w \in C : D = C \ {w}
      BY <2>1
    <3>2. IsFiniteSet(D) /\ Cardinality(D) = Cardinality(C) - 1
      BY <1>1, <3>1, FS_RemoveElement
    <3>3. Cardinality(C) \in Nat /\ Cardinality(R) \in Nat
      BY <1>1, FS_CardinalityType
    <3> HIDE DEF C, R, D, S
    <3> QED BY <1>1, <2>1, <3>1, <3>2, <3>3
  <2>2. CASE D = C /\ \E p \in R : S = R \ {p}
    <3>1. PICK p \in R : S = R \ {p}
      BY <2>2
    <3>2. IsFiniteSet(S) /\ Cardinality(S) = Cardinality(R) - 1
      BY <1>1, <3>1, FS_RemoveElement
    <3>3. Cardinality(C) \in Nat /\ Cardinality(R) \in Nat
      BY <1>1, FS_CardinalityType
    <3> HIDE DEF C, R, D, S
    <3> QED BY <1>1, <2>2, <3>1, <3>2, <3>3
  <2> QED BY <2>1, <2>2
<1>3. refs[c] = 1 <=> D \cup S = {}
  <2>1. Cardinality(D) \in Nat /\ Cardinality(S) \in Nat
    BY <1>2, FS_CardinalityType
  <2>2. (Cardinality(D) = 0 <=> D = {}) /\ (Cardinality(S) = 0 <=> S = {})
    BY <1>2, FS_EmptySet
  <2> HIDE DEF C, R, D, S
  <2> QED BY <1>1, <1>2, <2>1, <2>2
<1>4. idle[c] = 0
  BY <1>1, <1>2
<1> HIDE DEF C, R
<1>5. /\ refs' = [refs EXCEPT ![c] = @ - 1]
      /\ \A e \in Buffers : e # c => /\ idle'[e] = idle[e] /\ content'[e] = content[e]
                                     /\ e \in DOMAIN level' <=> e \in DOMAIN level
      /\ \A e \in DOMAIN level' : e \in DOMAIN level /\ level'[e] = level[e]
      /\ D \cup S # {} => /\ idle'[c] = 0 /\ content'[c] = content[c]
                          /\ c \in DOMAIN level'
      /\ D \cup S = {} /\ c \in DOMAIN level' => idle'[c] = 1
  <2>1. refs' = [refs EXCEPT ![c] = @ - 1]
    BY DEF Release
  <2>2. CASE refs[c] # 1
    <3>1. idle' = idle /\ level' = level /\ content' = content
      BY <2>2 DEF Release
    <3> QED BY <1>3, <1>4, <2>1, <2>2, <3>1
  <2>3. CASE refs[c] = 1 /\ level[c] # Oversize
    <3>1. /\ idle' = [idle EXCEPT ![c] = @ + 1] /\ level' = level
          /\ content' = [content EXCEPT ![c] = Blank]
      BY <2>3 DEF Release
    <3> QED BY <1>1, <1>3, <1>4, <2>1, <2>3, <3>1 DEF BuffersInv, PoolTypes
  <2>4. CASE refs[c] = 1 /\ level[c] = Oversize
    <3>1. /\ idle' = idle /\ level' = [e \in DOMAIN level \ {c} |-> level[e]]
          /\ content' = [content EXCEPT ![c] = Blank]
      BY <2>4 DEF Release
    <3> QED BY <1>1, <1>3, <1>4, <2>1, <2>4, <3>1 DEF BuffersInv, PoolTypes
  <2> QED BY <2>2, <2>3, <2>4
<1>6. PoolTypes'
  <2>1. idle' \in [Buffers -> Counts] /\ content' \in [Buffers -> Datagrams \cup {Blank}]
    <3>1. \/ idle' = idle
          \/ idle' = [idle EXCEPT ![c] = 1]
      <4>1. idle' = idle \/ idle' = [idle EXCEPT ![c] = idle[c] + 1]
        BY DEF Release
      <4>2. idle[c] + 1 = 1
        BY <1>4
      <4> QED BY <4>1, <4>2
    <3>2. content' = content \/ content' = [content EXCEPT ![c] = Blank]
      BY DEF Release
    <3>3. 1 \in Counts
      BY DEF Counts
    <3> QED BY <3>1, <3>2, <3>3 DEF BuffersInv, PoolTypes
  <2>2. refs' \in [Buffers -> Int]
    BY <1>5 DEF BuffersInv, PoolTypes
  <2>3. DOMAIN level' \subseteq Buffers /\ \A e \in DOMAIN level' : level'[e] \in Sizes
    BY <1>5 DEF BuffersInv, PoolTypes
  <2> QED BY <2>1, <2>2, <2>3 DEF PoolTypes
<1>7. BuffersAccountedFor'
  <2> SUFFICES ASSUME NEW e \in DOMAIN level'
               PROVE  /\ refs'[e] = Cardinality(Carriers(e)') + Cardinality(Retainers(e)')
                      /\ idle'[e] = IF Carriers(e)' \cup Retainers(e)' = {} THEN 1 ELSE 0
    BY DEF BuffersAccountedFor
  <2>1. e \in DOMAIN level /\ e \in Buffers
    BY <1>5 DEF BuffersInv, PoolTypes
  <2>2. CASE e = c
    <3>1. refs'[c] = refs[c] - 1
      BY <1>1, <1>5 DEF BuffersInv, PoolTypes
    <3>2. refs'[c] = Cardinality(D) + Cardinality(S)
      BY <1>1, <1>2, <3>1 DEF C, R
    <3>3. idle'[c] = IF D \cup S = {} THEN 1 ELSE 0
      BY <1>5, <2>2
    <3> QED BY <2>2, <3>2, <3>3
  <2>3. CASE e # c
    <3>1. refs'[e] = refs[e] /\ idle'[e] = idle[e]
      BY <1>1, <1>5, <2>1, <2>3 DEF BuffersInv, PoolTypes
    <3> QED BY <2>1, <2>3, <3>1 DEF BuffersInv, HoldersInv, BuffersAccountedFor
  <2> QED BY <2>2, <2>3
<1>8. BuffersAreStable'
  <2>1. ASSUME NEW w \in Workers, work'[w].at # "idle", work'[w].buf # NoBuffer
        PROVE  content'[work'[w].buf] = work'[w].datagram
    <3>1. work[w].at # "idle" /\ work[w].buf # NoBuffer /\ work'[w].buf \in Buffers
          /\ work'[w].buf = work[w].buf /\ work'[w].datagram = work[w].datagram
      BY <2>1 DEF SameHold
    <3>2. content[work[w].buf] = work[w].datagram
      BY <3>1 DEF BuffersInv, HoldersInv, BuffersAreStable
    <3>3. CASE work'[w].buf = c
      <4>1. w \in D
        BY <2>1, <3>3 DEF Carriers
      <4> QED BY <1>5, <3>1, <3>2, <3>3, <4>1
    <3>4. CASE work'[w].buf # c
      BY <1>5, <3>1, <3>2, <3>4
    <3> QED BY <3>3, <3>4
  <2>2. ASSUME NEW p \in retained' PROVE content'[p[1]] = p[2]
    <3>1. p[1] \in Buffers /\ content[p[1]] = p[2]
      BY DEF BuffersInv, LineTypes, HoldersInv, BuffersAreStable
    <3>2. CASE p[1] = c
      <4>1. p \in S
        BY <2>2, <3>2 DEF Retainers
      <4> QED BY <1>5, <3>1, <3>2, <4>1
    <3>3. CASE p[1] # c
      BY <1>5, <3>1, <3>3
    <3> QED BY <3>2, <3>3
  <2> QED BY <2>1, <2>2 DEF BuffersAreStable
<1>9. \A e \in Buffers : IsFiniteSet(Carriers(e)') /\ IsFiniteSet(Retainers(e)')
  BY <1>2 DEF BuffersInv, HoldersInv
<1>10. \A e \in Buffers : e \notin DOMAIN level' => Carriers(e)' = {} /\ Retainers(e)' = {}
  BY <1>5 DEF BuffersInv, HoldersInv
<1> QED BY <1>6, <1>7, <1>8, <1>9, <1>10 DEF HoldersInv

\* A worker lets go of what it has.
LEMMA AWorkerLetsGo ==
    ASSUME BuffersInv, NEW w \in Workers, work[w].at # "idle",
           work'[w].at = "idle" \/ work'[w].buf = NoBuffer,
           \A v \in Workers : v # w => work'[v] = work[v],
           IF work[w].buf = NoBuffer THEN UNCHANGED poolVars ELSE Release(work[w].buf),
           UNCHANGED retained
    PROVE  PoolTypes' /\ HoldersInv'
<1>1. \A v \in Workers : v # w => SameHold(v)
  BY DEF SameHold
<1>2. \A e \in Buffers : Retainers(e)' = Retainers(e)
  BY DEF Retainers
<1>3. \A e \in Buffers : Carriers(e)' = Carriers(e) \ {w}
  BY JobsAreNotIdle DEF Carriers
<1>4. CASE work[w].buf = NoBuffer
  <2>1. \A e \in Buffers : Carriers(e)' = Carriers(e)
    BY <1>3, <1>4, JobsAreNotIdle DEF Carriers
  <2>2. UNCHANGED <<level, idle, refs, content, retained>>
    BY <1>4 DEF poolVars
  <2>3. PoolTypes'
    BY <2>2 DEF PoolTypes, BuffersInv
  <2>4. BuffersAccountedFor'
    BY <1>2, <2>1, <2>2 DEF BuffersInv, HoldersInv, BuffersAccountedFor, PoolTypes
  <2>5. BuffersAreStable'
    BY <1>1, <2>2 DEF BuffersInv, HoldersInv, BuffersAreStable, SameHold
  <2> QED BY <1>2, <2>1, <2>2, <2>3, <2>4, <2>5 DEF BuffersInv, HoldersInv
<1>5. CASE work[w].buf # NoBuffer
  <2> PICK c : c = work[w].buf
    OBVIOUS
  <2>1. c \in Buffers /\ c \in DOMAIN level /\ w \in Carriers(c)
    BY <1>5, WhatAWorkerHas
  <2>2. Release(c)
    BY <1>5
  <2>3. \A e \in Buffers : e # c => Carriers(e)' = Carriers(e) /\ Retainers(e)' = Retainers(e)
    <3>1. \A e \in Buffers : e # c => w \notin Carriers(e)
      BY DEF Carriers
    <3> QED BY <1>2, <1>3, <3>1
  <2>4. Retainers(c)' = Retainers(c) /\ \E v \in Carriers(c) : Carriers(c)' = Carriers(c) \ {v}
    <3>1. Retainers(c)' = Retainers(c)
      BY <1>2, <2>1
    <3>2. Carriers(c)' = Carriers(c) \ {w}
      BY <1>3, <2>1
    <3> QED BY <2>1, <3>1, <3>2
  <2>5. ASSUME NEW v \in Workers, work'[v].at # "idle", work'[v].buf # NoBuffer
        PROVE  SameHold(v) /\ work'[v].buf \in Buffers
    <3>1. v # w
      BY <2>5
    <3>2. work[v] = work'[v] /\ work[v] \in Work
      BY <2>5, <3>1, JobsAreNotIdle DEF BuffersInv, LineTypes
    <3> QED BY <1>1, <2>5, <3>1, <3>2 DEF Work
  <2>6. retained' \subseteq retained
    OBVIOUS
  <2> QED BY <2>1, <2>2, <2>3, <2>4, <2>5, <2>6, Releasing
<1> QED BY <1>4, <1>5

\* A worker goes from one stage to the next, and past none.
LEMMA JobsGoOn ==
    ASSUME BuffersInv, NEW w \in Workers, work[w].at \in {"stage", "update"}, GoOn(w)
    PROVE  /\ work' \in [Workers -> {Idle} \cup Work]
           /\ \A v \in Workers : SameHold(v)
           /\ \A v \in Workers : work'[v].at \in {"stage", "update"}
                                   => work'[v].next <= work'[v].last
<1>1. PICK j \in Work : j = work[w] /\ j.next <= j.last
  BY JobsAreNotIdle DEF BuffersInv, LineTypes
<1> DEFINE stage == IF j.next = j.last THEN "done" ELSE "stage"
           job == [j EXCEPT !.at = stage, !.next = j.next + 1]
<1>2. work' = [work EXCEPT ![w] = job]
  BY <1>1 DEF GoOn
<1>3. /\ j.next + 1 \in Positions /\ (stage = "stage" => j.next + 1 <= j.last)
      /\ stage \in {"done", "stage"}
  <2>1. j.next \in 1 .. 5 /\ j.last \in 0 .. 4
    BY TheStages DEF Work, Positions, Lines
  <2> QED BY <1>1, <2>1, TheStages DEF Positions
<1> HIDE DEF stage
<1>4. /\ job \in Work /\ job.at = stage /\ job.next = j.next + 1 /\ job.last = j.last
      /\ job.buf = j.buf /\ job.datagram = j.datagram
  BY <1>3 DEF Work
<1> HIDE DEF job
<1>5. \A v \in Workers : work'[v] = IF v = w THEN job ELSE work[v]
  BY <1>2 DEF BuffersInv, LineTypes
<1>6. work' \in [Workers -> {Idle} \cup Work]
  BY <1>2, <1>4 DEF BuffersInv, LineTypes
<1>7. \A v \in Workers : SameHold(v)
  BY <1>1, <1>3, <1>4, <1>5, JobsAreNotIdle DEF SameHold
<1>8. \A v \in Workers : work'[v].at \in {"stage", "update"} => work'[v].next <= work'[v].last
  BY <1>3, <1>4, <1>5 DEF BuffersInv, LineTypes
<1> QED BY <1>6, <1>7, <1>8

\* A worker that only changes what it does next.
LEMMA JobsChange ==
    ASSUME BuffersInv, NEW w \in Workers, work[w].at \in {"stage", "update", "signal", "verify"},
           NEW at \in {"update", "signal", "verify", "done"}, NEW h \in BOOLEAN,
           at = "update" => work[w].at \in {"stage", "update"},
           \/ work' = [work EXCEPT ![w].at = at]
           \/ work' = [work EXCEPT ![w].at = at, ![w].handled = h]
    PROVE  /\ work' \in [Workers -> {Idle} \cup Work]
           /\ \A v \in Workers : SameHold(v)
           /\ \A v \in Workers : work'[v].at \in {"stage", "update"}
                                   => work'[v].next <= work'[v].last
<1>1. PICK j \in Work : j = work[w] /\ (j.at \in {"stage", "update"} => j.next <= j.last)
  BY JobsAreNotIdle DEF BuffersInv, LineTypes
<1>2. PICK job : /\ job = [j EXCEPT !.at = at] \/ job = [j EXCEPT !.at = at, !.handled = h]
                 /\ work' = [work EXCEPT ![w] = job]
  BY <1>1
<1>3. /\ job \in Work /\ job.at = at /\ job.next = j.next /\ job.last = j.last
      /\ job.buf = j.buf /\ job.datagram = j.datagram
  BY <1>2 DEF Work
<1>4. \A v \in Workers : work'[v] = IF v = w THEN job ELSE work[v]
  BY <1>2 DEF BuffersInv, LineTypes
<1>5. work' \in [Workers -> {Idle} \cup Work]
  BY <1>2, <1>3 DEF BuffersInv, LineTypes
<1>6. \A v \in Workers : SameHold(v)
  BY <1>1, <1>3, <1>4, JobsAreNotIdle DEF SameHold
<1>7. \A v \in Workers : work'[v].at \in {"stage", "update"} => work'[v].next <= work'[v].last
  BY <1>1, <1>3, <1>4 DEF BuffersInv, LineTypes
<1> QED BY <1>5, <1>6, <1>7

\* A dead letter gives the buffer back and leaves none in the context.
LEMMA DeadLettersLetGo ==
    ASSUME BuffersInv, NEW w \in Workers, work[w].at = "stage", DeadLetter(w),
           UNCHANGED <<retained, built, trusted>>
    PROVE  BuffersInv'
<1>1. PICK j \in Work : j = work[w]
  BY JobsAreNotIdle DEF BuffersInv, LineTypes
<1> DEFINE job == [j EXCEPT !.at = "done", !.buf = NoBuffer]
<1>2. work' = [work EXCEPT ![w] = job]
  BY <1>1 DEF DeadLetter
<1>3. job \in Work /\ job.at = "done" /\ job.buf = NoBuffer
  BY DEF Work
<1> HIDE DEF job
<1>4. \A v \in Workers : work'[v] = IF v = w THEN job ELSE work[v]
  BY <1>2 DEF BuffersInv, LineTypes
<1>5. PoolTypes' /\ HoldersInv'
  BY <1>3, <1>4, AWorkerLetsGo DEF DeadLetter
<1>6. LineTypes'
  <2>1. work' \in [Workers -> {Idle} \cup Work]
    BY <1>2, <1>3 DEF BuffersInv, LineTypes
  <2>2. \A v \in Workers : work'[v].at \in {"stage", "update"} => work'[v].next <= work'[v].last
    BY <1>3, <1>4 DEF BuffersInv, LineTypes
  <2> QED BY <2>1, <2>2 DEF BuffersInv, LineTypes
<1> QED BY <1>5, <1>6 DEF BuffersInv

\* Every step of a worker keeps the buffers accounted for.
LEMMA StagesKeepBuffers ==
    ASSUME BuffersInv, NEW w \in Workers, Step(w)
    PROVE  BuffersInv'
<1>1. UNCHANGED <<retained, built, trusted>>
  BY DEF Step, Cancel, DecodeCBORStage, ZTNAFilterStage, QoSFilterStage, TopologyFSMStage,
         HandleRoamingUpdate, Signal, Verify, Finish
<1>2. CASE work[w].at = "stage" /\ DeadLetter(w)
  BY <1>1, <1>2, DeadLettersLetGo
<1>3. CASE work[w].at \in {"stage", "update"} /\ GoOn(w)
  <2>1. UNCHANGED poolVars
    BY <1>3 DEF GoOn
  <2>2. PoolTypes' /\ HoldersInv'
    BY <1>1, <1>3, <2>1, JobsGoOn, HoldsAreKept
  <2>3. LineTypes'
    BY <1>1, <1>3, JobsGoOn DEF BuffersInv, LineTypes
  <2> QED BY <2>2, <2>3 DEF BuffersInv
<1>4. ASSUME NEW at \in {"update", "signal", "verify", "done"}, NEW h \in BOOLEAN,
             work[w].at \in {"stage", "update", "signal", "verify"},
             at = "update" => work[w].at \in {"stage", "update"},
             \/ work' = [work EXCEPT ![w].at = at]
             \/ work' = [work EXCEPT ![w].at = at, ![w].handled = h],
             UNCHANGED poolVars
      PROVE  BuffersInv'
  <2>1. PoolTypes' /\ HoldersInv'
    BY <1>1, <1>4, JobsChange, HoldsAreKept
  <2>2. LineTypes'
    BY <1>1, <1>4, JobsChange DEF BuffersInv, LineTypes
  <2> QED BY <2>1, <2>2 DEF BuffersInv
<1>5. CASE Finish(w)
  <2>1. /\ work[w].at = "done" /\ work' = [work EXCEPT ![w] = Idle]
        /\ IF work[w].buf = NoBuffer THEN UNCHANGED poolVars ELSE Release(work[w].buf)
    BY <1>5 DEF Finish
  <2>2. \A v \in Workers : work'[v] = IF v = w THEN Idle ELSE work[v]
    BY <2>1 DEF BuffersInv, LineTypes
  <2>3. PoolTypes' /\ HoldersInv'
    BY <1>1, <2>1, <2>2, AWorkerLetsGo, JobsAreNotIdle
  <2>4. LineTypes'
    <3>1. work' \in [Workers -> {Idle} \cup Work]
      BY <2>1 DEF BuffersInv, LineTypes
    <3>2. \A v \in Workers : work'[v].at \in {"stage", "update"}
                               => work'[v].next <= work'[v].last
      BY <2>2, JobsAreNotIdle DEF BuffersInv, LineTypes
    <3> QED BY <1>1, <3>1, <3>2 DEF BuffersInv, LineTypes
  <2> QED BY <2>3, <2>4 DEF BuffersInv
<1>6. CASE Cancel(w)
  BY <1>2, <1>6 DEF Cancel
<1>7. CASE DecodeCBORStage(w) \/ ZTNAFilterStage(w) \/ QoSFilterStage(w)
  BY <1>2, <1>3, <1>7 DEF DecodeCBORStage, ZTNAFilterStage, QoSFilterStage, At
<1>8. CASE TopologyFSMStage(w)
  BY <1>2, <1>3, <1>4, <1>8 DEF TopologyFSMStage, At
<1>9. CASE HandleRoamingUpdate(w)
  BY <1>3, <1>4, <1>9 DEF HandleRoamingUpdate
<1>10. CASE Signal(w) \/ Verify(w)
  BY <1>4, <1>10 DEF Signal, Verify
<1> QED BY <1>5, <1>6, <1>7, <1>8, <1>9, <1>10 DEF Step

\* A buffer that is handed out comes from its pool or is new, and nobody holds it.
LEMMA WhatIsAvailable ==
    ASSUME BuffersInv, NEW size \in Sizes, NEW c \in Available(size)
    PROVE  /\ c \in Buffers /\ Carriers(c) = {} /\ Retainers(c) = {}
           /\ c \in DOMAIN level => idle[c] = 1
<1> DEFINE pooled == {e \in DOMAIN level : idle[e] > 0 /\ level[e] = size}
<1>1. CASE c \in pooled
  <2>1. c \in DOMAIN level /\ c \in Buffers /\ idle[c] > 0
    BY <1>1 DEF BuffersInv, PoolTypes
  <2>2. idle[c] = IF Carriers(c) \cup Retainers(c) = {} THEN 1 ELSE 0
    BY <2>1 DEF BuffersInv, HoldersInv, BuffersAccountedFor
  <2>3. Carriers(c) \cup Retainers(c) = {}
    BY <2>1, <2>2
  <2> QED BY <2>1, <2>2, <2>3
<1>2. CASE c \notin pooled
  <2>1. c \in Buffers \ DOMAIN level
    BY <1>2 DEF Available
  <2> QED BY <2>1 DEF BuffersInv, HoldersInv
<1> QED BY <1>1, <1>2

\* A packet is read into a buffer nobody holds, and its worker is the only one to hold it.
LEMMA ReceivingKeepsBuffers ==
    ASSUME BuffersInv, NEW w \in Workers, NEW d \in Datagrams, NEW size \in Sizes,
           Receive(w, d, size)
    PROVE  BuffersInv'
<1> DEFINE stage == IF built = 0 THEN "done" ELSE "stage"
<1>1. PICK c \in Available(size) :
          /\ Acquire(c, size, d)
          /\ work' = [work EXCEPT ![w] =
                [at |-> stage, datagram |-> d, buf |-> c,
                 next |-> 1, last |-> built, handled |-> FALSE]]
  BY DEF Receive
<1> DEFINE job == [at |-> stage, datagram |-> d, buf |-> c,
                   next |-> 1, last |-> built, handled |-> FALSE]
<1>2. work[w].at = "idle" /\ UNCHANGED <<retained, built, trusted>>
  BY DEF Receive
<1>3. /\ job \in Work /\ job.at # "idle" /\ job.buf = c /\ job.datagram = d
      /\ job.at \in {"stage", "update"} => job.next <= job.last
  <2>1. built \in Lines /\ built \in 0 .. 4 /\ 1 \in Positions
    BY TheStages DEF BuffersInv, LineTypes, Lines, Positions
  <2>2. c \in Buffers
    BY WhatIsAvailable
  <2>3. job \in Work
    BY <2>1, <2>2 DEF Work
  <2>4. stage \in {"stage", "update"} => 1 <= built
    BY <2>1
  <2> QED BY <2>3, <2>4
<1>4. work' = [work EXCEPT ![w] = job]
  BY <1>1
<1> HIDE DEF job, stage
<1>5. \A v \in Workers : work'[v] = IF v = w THEN job ELSE work[v]
  BY <1>4 DEF BuffersInv, LineTypes
<1>6. /\ c \in Buffers /\ Carriers(c) = {} /\ Retainers(c) = {}
      /\ c \in DOMAIN level => idle[c] = 1
  BY WhatIsAvailable
<1>7. /\ \A e \in Buffers : Retainers(e)' = Retainers(e)
      /\ \A e \in Buffers : e # c => Carriers(e)' = Carriers(e)
      /\ Carriers(c)' = {w}
  <2>1. \A e \in Buffers : Retainers(e)' = Retainers(e)
    BY <1>2 DEF Retainers
  <2>2. \A e \in Buffers : e # c => Carriers(e)' = Carriers(e)
    BY <1>2, <1>3, <1>5 DEF Carriers
  <2>3. Carriers(c)' = {w}
    BY <1>3, <1>5, <1>6 DEF Carriers
  <2> QED BY <2>1, <2>2, <2>3
<1>8. /\ DOMAIN level' = DOMAIN level \cup {c}
      /\ \A e \in DOMAIN level' : level'[e] = IF e = c THEN size ELSE level[e]
      /\ refs' = [refs EXCEPT ![c] = 1] /\ content' = [content EXCEPT ![c] = d]
      /\ idle' = [idle EXCEPT ![c] = 0]
  <2>1. idle' = [idle EXCEPT ![c] = IF c \in DOMAIN level THEN idle[c] - 1 ELSE 0]
    BY <1>1 DEF Acquire
  <2>2. (IF c \in DOMAIN level THEN idle[c] - 1 ELSE 0) = 0
    BY <1>6
  <2> QED BY <1>1, <2>1, <2>2 DEF Acquire
<1>9. PoolTypes'
  <2>1. 0 \in Counts
    BY DEF Counts
  <2> QED BY <1>6, <1>8, <2>1 DEF BuffersInv, PoolTypes
<1>10. LineTypes'
  <2>1. work' \in [Workers -> {Idle} \cup Work]
    BY <1>3, <1>4 DEF BuffersInv, LineTypes
  <2>2. \A v \in Workers : work'[v].at \in {"stage", "update"} => work'[v].next <= work'[v].last
    BY <1>3, <1>5 DEF BuffersInv, LineTypes
  <2> QED BY <1>2, <2>1, <2>2 DEF BuffersInv, LineTypes
<1>11. IsFiniteSet({w}) /\ Cardinality({w}) = 1 /\ Cardinality({}) = 0 /\ IsFiniteSet({})
  BY FS_Singleton, FS_EmptySet
<1>12. BuffersAccountedFor'
  <2> SUFFICES ASSUME NEW e \in DOMAIN level'
               PROVE  /\ refs'[e] = Cardinality(Carriers(e)') + Cardinality(Retainers(e)')
                      /\ idle'[e] = IF Carriers(e)' \cup Retainers(e)' = {} THEN 1 ELSE 0
    BY DEF BuffersAccountedFor
  <2>1. e \in Buffers
    BY <1>6, <1>8 DEF BuffersInv, PoolTypes
  <2>2. CASE e = c
    <3>1. refs'[c] = 1 /\ idle'[c] = 0
      BY <1>6, <1>8 DEF BuffersInv, PoolTypes
    <3>2. Carriers(c)' = {w} /\ Retainers(c)' = {}
      BY <1>6, <1>7
    <3> QED BY <1>11, <2>2, <3>1, <3>2
  <2>3. CASE e # c
    <3>1. e \in DOMAIN level /\ refs'[e] = refs[e] /\ idle'[e] = idle[e]
      BY <1>6, <1>8, <2>1, <2>3 DEF BuffersInv, PoolTypes
    <3>2. Carriers(e)' = Carriers(e) /\ Retainers(e)' = Retainers(e)
      BY <1>7, <2>1, <2>3
    <3> QED BY <3>1, <3>2 DEF BuffersInv, HoldersInv, BuffersAccountedFor
  <2> QED BY <2>2, <2>3
<1>13. BuffersAreStable'
  <2>1. ASSUME NEW v \in Workers, work'[v].at # "idle", work'[v].buf # NoBuffer
        PROVE  content'[work'[v].buf] = work'[v].datagram
    <3>1. CASE v = w
      BY <1>3, <1>5, <1>6, <1>8, <3>1 DEF BuffersInv, PoolTypes
    <3>2. CASE v # w
      <4>1. work'[v] = work[v]
        BY <1>5, <3>2
      <4>2. v \in Carriers(work[v].buf)
        BY <2>1, <4>1 DEF Carriers
      <4>3. work[v].buf # c
        BY <1>6, <4>2
      <4>4. content[work[v].buf] = work[v].datagram
        BY <2>1, <4>1 DEF BuffersInv, HoldersInv, BuffersAreStable
      <4> QED BY <1>8, <4>1, <4>3, <4>4
    <3> QED BY <3>1, <3>2
  <2>2. ASSUME NEW p \in retained' PROVE content'[p[1]] = p[2]
    <3>1. p \in retained /\ p \in Retainers(p[1])
      BY <1>2 DEF Retainers
    <3>2. p[1] # c
      BY <1>6, <3>1
    <3>3. content[p[1]] = p[2]
      BY <3>1 DEF BuffersInv, HoldersInv, BuffersAreStable
    <3> QED BY <1>8, <3>2, <3>3
  <2> QED BY <2>1, <2>2 DEF BuffersAreStable
<1>14. HoldersInv'
  <2>1. ASSUME NEW e \in Buffers PROVE IsFiniteSet(Carriers(e)') /\ IsFiniteSet(Retainers(e)')
    <3>1. CASE e = c
      BY <1>6, <1>7, <1>11, <3>1
    <3>2. CASE e # c
      BY <1>7, <3>2 DEF BuffersInv, HoldersInv
    <3> QED BY <3>1, <3>2
  <2>2. ASSUME NEW e \in Buffers, e \notin DOMAIN level'
        PROVE  Carriers(e)' = {} /\ Retainers(e)' = {}
    BY <1>7, <1>8, <2>2 DEF BuffersInv, HoldersInv
  <2> QED BY <1>12, <1>13, <2>1, <2>2 DEF HoldersInv
<1> QED BY <1>9, <1>10, <1>14 DEF BuffersInv

\* Whoever retains a buffer becomes one more of its holders.
LEMMA RetainingKeepsBuffers ==
    ASSUME BuffersInv, NEW w \in Workers, Retain(w)
    PROVE  BuffersInv'
<1> PICK c, pair : c = work[w].buf /\ pair = <<work[w].buf, work[w].datagram>>
  OBVIOUS
<1>1. /\ work[w].at # "idle" /\ c # NoBuffer /\ pair \notin retained
      /\ refs' = [refs EXCEPT ![c] = @ + 1] /\ retained' = retained \cup {pair}
      /\ UNCHANGED <<level, idle, content, work, built, trusted>>
  BY DEF Retain
<1>2. /\ c \in Buffers /\ c \in DOMAIN level /\ w \in Carriers(c)
      /\ content[c] = work[w].datagram /\ work[w].datagram \in Datagrams
  BY <1>1, WhatAWorkerHas
<1>3. pair \in Buffers \X Datagrams /\ pair[1] = c /\ content[pair[1]] = pair[2]
  BY <1>2
<1>4. \A e \in Buffers : Carriers(e)' = Carriers(e)
  BY <1>1 DEF Carriers
<1>5. /\ \A e \in Buffers : e # c => Retainers(e)' = Retainers(e)
      /\ Retainers(c)' = Retainers(c) \cup {pair} /\ pair \notin Retainers(c)
  BY <1>1, <1>3 DEF Retainers
<1>6. IsFiniteSet(Retainers(c)') /\ Cardinality(Retainers(c)') = Cardinality(Retainers(c)) + 1
  <2>1. IsFiniteSet(Retainers(c))
    BY <1>2 DEF BuffersInv, HoldersInv
  <2> QED BY <1>5, <2>1, FS_AddElement
<1>7. PoolTypes' /\ LineTypes'
  BY <1>1, <1>2, <1>3 DEF BuffersInv, PoolTypes, LineTypes
<1>8. BuffersAccountedFor'
  <2> SUFFICES ASSUME NEW e \in DOMAIN level
               PROVE  /\ refs'[e] = Cardinality(Carriers(e)') + Cardinality(Retainers(e)')
                      /\ idle[e] = IF Carriers(e)' \cup Retainers(e)' = {} THEN 1 ELSE 0
    BY <1>1 DEF BuffersAccountedFor
  <2>1. /\ e \in Buffers /\ refs[e] = Cardinality(Carriers(e)) + Cardinality(Retainers(e))
        /\ idle[e] = IF Carriers(e) \cup Retainers(e) = {} THEN 1 ELSE 0
    BY DEF BuffersInv, PoolTypes, HoldersInv, BuffersAccountedFor
  <2>2. CASE e = c
    <3>1. refs'[c] = refs[c] + 1
      BY <1>1, <1>2 DEF BuffersInv, PoolTypes
    <3>2. Cardinality(Carriers(c)) \in Nat /\ Cardinality(Retainers(c)) \in Nat
      BY <1>2, FS_CardinalityType DEF BuffersInv, HoldersInv
    <3>3. idle[c] = 0 /\ Carriers(c)' \cup Retainers(c)' # {}
      BY <1>2, <1>4, <2>1, <2>2
    <3>4. Carriers(c)' = Carriers(c)
      BY <1>2, <1>4
    <3> QED BY <1>6, <2>1, <2>2, <3>1, <3>2, <3>3, <3>4
  <2>3. CASE e # c
    <3>1. refs'[e] = refs[e]
      BY <1>1, <2>1, <2>3 DEF BuffersInv, PoolTypes
    <3> QED BY <1>4, <1>5, <2>1, <2>3, <3>1
  <2> QED BY <2>2, <2>3
<1>9. BuffersAreStable'
  BY <1>1, <1>3 DEF BuffersInv, HoldersInv, BuffersAreStable
<1>10. HoldersInv'
  <2>1. ASSUME NEW e \in Buffers PROVE IsFiniteSet(Carriers(e)') /\ IsFiniteSet(Retainers(e)')
    <3>1. CASE e = c
      BY <1>4, <1>6, <3>1 DEF BuffersInv, HoldersInv
    <3>2. CASE e # c
      BY <1>4, <1>5, <3>2 DEF BuffersInv, HoldersInv
    <3> QED BY <3>1, <3>2
  <2>2. ASSUME NEW e \in Buffers, e \notin DOMAIN level'
        PROVE  Carriers(e)' = {} /\ Retainers(e)' = {}
    BY <1>1, <1>2, <1>4, <1>5, <2>2 DEF BuffersInv, HoldersInv
  <2> QED BY <1>8, <1>9, <2>1, <2>2 DEF HoldersInv
<1> QED BY <1>7, <1>10 DEF BuffersInv

\* Whoever retained a buffer lets go of it.
LEMMA LettingGoKeepsBuffers ==
    ASSUME BuffersInv, NEW c \in Buffers, NEW d \in Datagrams, LetGo(c, d)
    PROVE  BuffersInv'
<1> DEFINE pair == <<c, d>>
<1>1. /\ pair \in retained /\ Release(c) /\ retained' = retained \ {pair}
      /\ UNCHANGED <<work, built, trusted>>
  BY DEF LetGo
<1>2. pair[1] = c
  OBVIOUS
<1> HIDE DEF pair
<1>3. pair \in Retainers(c) /\ c \in DOMAIN level
  <2>1. pair \in Retainers(c)
    BY <1>1, <1>2 DEF Retainers
  <2> QED BY <2>1 DEF BuffersInv, HoldersInv
<1>4. \A e \in Buffers : Carriers(e)' = Carriers(e)
  BY <1>1 DEF Carriers
<1>5. /\ \A e \in Buffers : e # c => Retainers(e)' = Retainers(e)
      /\ Retainers(c)' = Retainers(c) \ {pair}
  BY <1>1, <1>2 DEF Retainers
<1>6. Carriers(c)' = Carriers(c) /\ \E p \in Retainers(c) : Retainers(c)' = Retainers(c) \ {p}
  BY <1>3, <1>4, <1>5
<1>7. \A e \in Buffers : e # c => Carriers(e)' = Carriers(e) /\ Retainers(e)' = Retainers(e)
  BY <1>4, <1>5
<1>8. ASSUME NEW v \in Workers, work'[v].at # "idle", work'[v].buf # NoBuffer
      PROVE  SameHold(v) /\ work'[v].buf \in Buffers
  <2>1. work'[v] = work[v]
    BY <1>1
  <2>2. work[v].buf \in Buffers
    BY <1>8, <2>1, WhatAWorkerHas
  <2> QED BY <2>1, <2>2 DEF SameHold
<1>9. retained' \subseteq retained
  BY <1>1
<1>10. PoolTypes' /\ HoldersInv'
  BY <1>1, <1>3, <1>6, <1>7, <1>8, <1>9, Releasing
<1>11. LineTypes'
  BY <1>1 DEF BuffersInv, LineTypes
<1> QED BY <1>10, <1>11 DEF BuffersInv

LEMMA BuffersInvIsKept == BuffersInv /\ [PipelineNext]_pipelineVars => BuffersInv'
<1> SUFFICES ASSUME BuffersInv, [PipelineNext]_pipelineVars PROVE BuffersInv'
  OBVIOUS
<1>1. CASE \E w \in Workers, d \in Datagrams, s \in Sizes : Receive(w, d, s)
  BY <1>1, ReceivingKeepsBuffers
<1>2. CASE \E w \in Workers : Step(w)
  BY <1>2, StagesKeepBuffers
<1>3. CASE \E w \in Workers : Retain(w)
  BY <1>3, RetainingKeepsBuffers
<1>4. CASE \E c \in Buffers, d \in Datagrams : LetGo(c, d)
  BY <1>4, LettingGoKeepsBuffers
<1>5. ASSUME UNCHANGED <<poolVars, retained, work>>, built' \in Lines, trusted' \subseteq Origins
      PROVE  BuffersInv'
  <2>1. \A w \in Workers : SameHold(w)
    BY <1>5 DEF SameHold
  <2>2. PoolTypes' /\ HoldersInv'
    BY <1>5, <2>1, HoldsAreKept
  <2>3. LineTypes'
    BY <1>5 DEF BuffersInv, LineTypes
  <2> QED BY <2>2, <2>3 DEF BuffersInv
<1>6. built \in Lines /\ trusted \subseteq Origins
  BY DEF BuffersInv, LineTypes
<1>7. CASE AddStage
  <2>1. UNCHANGED <<poolVars, retained, work, trusted>>
    BY <1>7 DEF AddStage
  <2>2. built' \in Lines
    <3>1. built \in 0 .. 4 /\ built < 4 /\ built' = built + 1
      BY <1>6, <1>7, TheStages DEF AddStage, Lines
    <3> QED BY <3>1, TheStages DEF Lines
  <2> QED BY <1>5, <1>6, <2>1, <2>2
<1>8. CASE \E d \in Origins : Decide(d)
  BY <1>5, <1>6, <1>8 DEF Decide
<1>9. CASE FSMNext /\ UNCHANGED <<poolVars, retained, work, built, trusted>>
  BY <1>5, <1>6, <1>9
<1>10. CASE UNCHANGED pipelineVars
  BY <1>5, <1>6, <1>10 DEF pipelineVars
<1> QED BY <1>1, <1>2, <1>3, <1>4, <1>7, <1>8, <1>9, <1>10 DEF PipelineNext, LineNext

LEMMA BuffersInvHolds == CoreSpec => []BuffersInv
<1>1. CoreInit => BuffersInv
  BY BuffersInvAtFirst DEF CoreInit
<1>2. BuffersInv /\ [CoreNext]_coreVars => BuffersInv'
  BY EveryStepIsOfItsParts, BuffersInvIsKept
<1> QED BY <1>1, <1>2, PTL DEF CoreSpec

\* A pooled buffer has as many references as holders, lies in its pool once or not at all, and is
\* not written while anybody reads it, whatever the line does with the packets and whoever keeps
\* a reference beside it (buffer_pool.go:63-68, pipeline.go:103-112, 139-143).
THEOREM BuffersAreHeld == CoreSpec => []BuffersHaveHolders
<1>1. BuffersInv => BuffersHaveHolders
  BY DEF BuffersInv, HoldersInv, BuffersHaveHolders
<1> QED BY <1>1, BuffersInvHolds, PTL

(***************************************************************************)
(* Batches.                                                                *)
(***************************************************************************)

\* Packet n is in lot s, and no packet is in it twice.
Within(s, n) == \E i \in DOMAIN s : s[i] = n
Lone(s) == \A i, j \in DOMAIN s : s[i] = s[j] => i = j

\* All lots hold packets that were accepted, each of them once and none in two lots.
BatcherInv ==
    /\ pushed \in Nat /\ closing \subseteq Pushers
    /\ batch \in Seq(Nat) /\ handled \in Seq(Nat) /\ taken \in [Pushers -> Seq(Nat)]
    /\ Len(batch) < MaxBatch /\ \A g \in Pushers : Len(taken[g]) <= MaxBatch
    /\ Lone(batch) /\ Lone(handled) /\ \A g \in Pushers : Lone(taken[g])
    /\ \A n \in Nat :
          /\ Within(batch, n) => ~Within(handled, n)
          /\ \A g \in Pushers : Within(taken[g], n) => ~Within(batch, n) /\ ~Within(handled, n)
          /\ \A g, h \in Pushers : Within(taken[g], n) /\ Within(taken[h], n) => g = h
          /\ n \in 1 .. pushed <=> \/ Within(batch, n) \/ Within(handled, n)
                                   \/ \E g \in Pushers : Within(taken[g], n)
    /\ NothingLeftBehind

LEMMA AnEmptyLot == Len(<<>>) = 0 /\ <<>> \in Seq(Nat) /\ Lone(<<>>) /\ \A n : ~Within(<<>>, n)
<1>1. DOMAIN <<>> = {} /\ Len(<<>>) = 0 /\ <<>> \in Seq(Nat)
  BY EmptySeq
<1> QED BY <1>1 DEF Lone, Within

LEMMA OneMorePacket ==
    ASSUME NEW s \in Seq(Nat), NEW n \in Nat, Lone(s), ~Within(s, n)
    PROVE  /\ Append(s, n) \in Seq(Nat) /\ Len(Append(s, n)) = Len(s) + 1 /\ Lone(Append(s, n))
           /\ Append(s, n) # <<>>
           /\ \A m : Within(Append(s, n), m) <=> Within(s, m) \/ m = n
<1> DEFINE t == Append(s, n)
<1>1. /\ t \in Seq(Nat) /\ Len(t) = Len(s) + 1 /\ t[Len(s) + 1] = n /\ Len(s) \in Nat
      /\ \A i \in 1 .. Len(s) : t[i] = s[i]
      /\ DOMAIN s = 1 .. Len(s) /\ DOMAIN t = 1 .. Len(s) + 1
  <2>1. t \in Seq(Nat) /\ Len(t) = Len(s) + 1 /\ t[Len(s) + 1] = n
    OBVIOUS
  <2>2. Len(s) \in Nat /\ DOMAIN s = 1 .. Len(s) /\ DOMAIN t = 1 .. Len(t)
    BY <2>1, LenProperties
  <2>3. \A i \in 1 .. Len(s) : t[i] = s[i]
    OBVIOUS
  <2> QED BY <2>1, <2>2, <2>3
<1> HIDE DEF t
<1>2. t # <<>>
  BY <1>1, EmptySeq
<1>3. \A i \in DOMAIN t : \/ i \in DOMAIN s /\ t[i] = s[i]
                          \/ i = Len(s) + 1 /\ t[i] = n
  BY <1>1
<1>4. \A i \in DOMAIN s : i \in DOMAIN t /\ t[i] = s[i]
  BY <1>1
<1>5. Len(s) + 1 \in DOMAIN t
  BY <1>1
<1>6. \A m : Within(t, m) <=> Within(s, m) \/ m = n
  BY <1>1, <1>3, <1>4, <1>5 DEF Within
<1>7. Lone(t)
  BY <1>3 DEF Lone, Within
<1> QED BY <1>1, <1>2, <1>6, <1>7 DEF t

LEMMA TwoLots ==
    ASSUME NEW s \in Seq(Nat), NEW t \in Seq(Nat), Lone(s), Lone(t),
           \A n \in Nat : ~(Within(s, n) /\ Within(t, n))
    PROVE  /\ s \o t \in Seq(Nat) /\ Lone(s \o t)
           /\ \A m : Within(s \o t, m) <=> Within(s, m) \/ Within(t, m)
<1> DEFINE u == s \o t
<1>1. /\ u \in Seq(Nat) /\ Len(u) = Len(s) + Len(t)
      /\ \A i \in 1 .. Len(s) + Len(t) : u[i] = IF i <= Len(s) THEN s[i] ELSE t[i - Len(s)]
  BY ConcatProperties
<1>2. /\ Len(s) \in Nat /\ Len(t) \in Nat
      /\ DOMAIN s = 1 .. Len(s) /\ DOMAIN t = 1 .. Len(t) /\ DOMAIN u = 1 .. Len(s) + Len(t)
  BY <1>1, LenProperties
<1> HIDE DEF u
<1>3. \A i \in DOMAIN u : \/ i \in DOMAIN s /\ u[i] = s[i]
                          \/ i - Len(s) \in DOMAIN t /\ u[i] = t[i - Len(s)]
  BY <1>1, <1>2
<1>4. /\ \A i \in DOMAIN s : i \in DOMAIN u /\ u[i] = s[i]
      /\ \A i \in DOMAIN t : i + Len(s) \in DOMAIN u /\ u[i + Len(s)] = t[i]
  <2>1. ASSUME NEW i \in DOMAIN s PROVE i \in DOMAIN u /\ u[i] = s[i]
    BY <1>1, <1>2
  <2>2. ASSUME NEW i \in DOMAIN t PROVE i + Len(s) \in DOMAIN u /\ u[i + Len(s)] = t[i]
    <3>1. /\ i + Len(s) \in 1 .. Len(s) + Len(t) /\ ~(i + Len(s) <= Len(s))
          /\ (i + Len(s)) - Len(s) = i
      BY <1>2
    <3> QED BY <1>1, <1>2, <3>1
  <2> QED BY <2>1, <2>2
<1>5. \A m : Within(u, m) <=> Within(s, m) \/ Within(t, m)
  BY <1>3, <1>4 DEF Within
<1>6. Lone(u)
  <2> SUFFICES ASSUME NEW i \in DOMAIN u, NEW j \in DOMAIN u, u[i] = u[j] PROVE i = j
    BY DEF Lone
  <2>1. i \in Nat /\ j \in Nat
    BY <1>2
  <2>2. \A k \in DOMAIN s : s[k] \in Nat
    BY <1>2, ElementOfSeq
  <2>3. CASE i \in DOMAIN s /\ u[i] = s[i] /\ j \in DOMAIN s /\ u[j] = s[j]
    BY <2>3 DEF Lone
  <2>4. CASE /\ i - Len(s) \in DOMAIN t /\ u[i] = t[i - Len(s)]
             /\ j - Len(s) \in DOMAIN t /\ u[j] = t[j - Len(s)]
    <3>1. i - Len(s) = j - Len(s)
      BY <2>4 DEF Lone
    <3> QED BY <1>2, <2>1, <3>1
  <2>5. CASE i \in DOMAIN s /\ u[i] = s[i] /\ j - Len(s) \in DOMAIN t /\ u[j] = t[j - Len(s)]
    BY <2>2, <2>5 DEF Within
  <2>6. CASE j \in DOMAIN s /\ u[j] = s[j] /\ i - Len(s) \in DOMAIN t /\ u[i] = t[i - Len(s)]
    BY <2>2, <2>6 DEF Within
  <2> QED BY <1>3, <2>3, <2>4, <2>5, <2>6
<1> QED BY <1>1, <1>5, <1>6 DEF u

LEMMA BatcherInvAtFirst == BatcherInit => BatcherInv
<1> SUFFICES ASSUME BatcherInit PROVE BatcherInv
  OBVIOUS
<1>1. /\ batch = <<>> /\ pushed = 0 /\ taken = [g \in Pushers |-> <<>>]
      /\ closing = {} /\ sealed = FALSE /\ handled = <<>>
  BY DEF BatcherInit
<1>2. 0 < MaxBatch /\ MaxBatch \in Nat
  BY BatcherAssumption DEF BatcherAssumption
<1>3. \A n \in Nat : n \notin 1 .. 0
  OBVIOUS
<1> QED BY <1>1, <1>2, <1>3, AnEmptyLot DEF BatcherInv, NothingLeftBehind

LEMMA PushingKeepsPackets ==
    ASSUME BatcherInv, NEW g \in Pushers, Push(g)
    PROVE  BatcherInv'
<1> DEFINE n == pushed + 1
<1>1. PICK filled : filled = Append(batch, n)
  OBVIOUS
<1>2. /\ taken[g] = <<>> /\ ~sealed /\ pushed' = n /\ UNCHANGED <<closing, sealed, handled>>
      /\ \/ Len(filled) >= MaxBatch /\ batch' = <<>> /\ taken' = [taken EXCEPT ![g] = filled]
         \/ ~(Len(filled) >= MaxBatch) /\ batch' = filled /\ taken' = taken
  BY <1>1 DEF Push, Free
<1>3. /\ pushed \in Nat /\ n \in Nat /\ n \notin 1 .. pushed
      /\ \A m \in Nat : m \in 1 .. pushed + 1 <=> m \in 1 .. pushed \/ m = n
      /\ MaxBatch \in Nat /\ 0 < MaxBatch
  BY BatcherAssumption DEF BatcherInv, BatcherAssumption
<1>4. ~Within(batch, n) /\ ~Within(handled, n) /\ \A h \in Pushers : ~Within(taken[h], n)
  BY <1>3 DEF BatcherInv
<1>5. /\ filled \in Seq(Nat) /\ Len(filled) = Len(batch) + 1 /\ Lone(filled)
      /\ \A m : Within(filled, m) <=> Within(batch, m) \/ m = n
  BY <1>1, <1>3, <1>4, OneMorePacket DEF BatcherInv
<1>6. Len(batch) \in Nat /\ Len(filled) <= MaxBatch
  <2>1. Len(batch) \in Nat /\ Len(batch) < MaxBatch
    BY LenProperties DEF BatcherInv
  <2> QED BY <1>3, <1>5, <2>1
<1>7. CASE Len(filled) >= MaxBatch /\ batch' = <<>> /\ taken' = [taken EXCEPT ![g] = filled]
  <2>1. \A h \in Pushers : taken'[h] = IF h = g THEN filled ELSE taken[h]
    BY <1>7 DEF BatcherInv
  <2>2. /\ taken' \in [Pushers -> Seq(Nat)] /\ batch' \in Seq(Nat) /\ Len(batch') < MaxBatch
        /\ \A h \in Pushers : Len(taken'[h]) <= MaxBatch /\ Lone(taken'[h])
        /\ Lone(batch')
    BY <1>3, <1>5, <1>6, <1>7, <2>1, AnEmptyLot DEF BatcherInv
  <2>3. ASSUME NEW m \in Nat
        PROVE  /\ ~Within(batch', m)
               /\ \A h \in Pushers : Within(taken'[h], m) <=>
                     IF h = g THEN Within(batch, m) \/ m = n ELSE Within(taken[h], m)
               /\ ~Within(taken[g], m)
    BY <1>2, <1>5, <1>7, <2>1, AnEmptyLot
  <2>4. ASSUME NEW m \in Nat
        PROVE  /\ \A h \in Pushers : Within(taken'[h], m) => ~Within(handled, m)
               /\ \A h, k \in Pushers : Within(taken'[h], m) /\ Within(taken'[k], m) => h = k
               /\ m \in 1 .. pushed + 1 <=> \/ Within(batch', m) \/ Within(handled, m)
                                            \/ \E h \in Pushers : Within(taken'[h], m)
    BY <1>3, <1>4, <2>3 DEF BatcherInv
  <2> QED BY <1>2, <1>3, <1>7, <2>2, <2>3, <2>4 DEF BatcherInv, NothingLeftBehind
<1>8. CASE ~(Len(filled) >= MaxBatch) /\ batch' = filled /\ taken' = taken
  <2>1. Len(filled) < MaxBatch
    BY <1>3, <1>5, <1>6, <1>8
  <2>2. ASSUME NEW m \in Nat
        PROVE  /\ Within(filled, m) => ~Within(handled, m)
               /\ \A h \in Pushers : Within(taken[h], m) => ~Within(filled, m)
               /\ m \in 1 .. pushed + 1 <=> \/ Within(filled, m) \/ Within(handled, m)
                                            \/ \E h \in Pushers : Within(taken[h], m)
    BY <1>3, <1>4, <1>5 DEF BatcherInv
  <2> QED BY <1>2, <1>3, <1>5, <1>8, <2>1, <2>2 DEF BatcherInv, NothingLeftBehind
<1> QED BY <1>2, <1>7, <1>8

LEMMA FlushingKeepsPackets ==
    ASSUME BatcherInv, NEW g \in Pushers, Flush(g)
    PROVE  BatcherInv'
<1>1. /\ taken[g] = <<>> /\ taken' = [taken EXCEPT ![g] = batch] /\ batch' = <<>>
      /\ closing' = closing \ {g} /\ UNCHANGED <<pushed, sealed, handled>>
  BY DEF Flush
<1>2. \A h \in Pushers : taken'[h] = IF h = g THEN batch ELSE taken[h]
  BY <1>1 DEF BatcherInv
<1>3. MaxBatch \in Nat /\ 0 < MaxBatch /\ Len(batch) \in Nat
  BY BatcherAssumption, LenProperties DEF BatcherInv, BatcherAssumption
<1>4. /\ taken' \in [Pushers -> Seq(Nat)] /\ batch' \in Seq(Nat) /\ Len(batch') < MaxBatch
      /\ \A h \in Pushers : Len(taken'[h]) <= MaxBatch /\ Lone(taken'[h])
      /\ Lone(batch')
  BY <1>1, <1>2, <1>3, AnEmptyLot DEF BatcherInv
<1>5. ASSUME NEW m \in Nat
      PROVE  /\ ~Within(batch', m) /\ ~Within(taken[g], m)
             /\ \A h \in Pushers : Within(taken'[h], m) <=>
                   IF h = g THEN Within(batch, m) ELSE Within(taken[h], m)
  BY <1>1, <1>2, AnEmptyLot
<1>6. ASSUME NEW m \in Nat
      PROVE  /\ \A h \in Pushers : Within(taken'[h], m) => ~Within(handled, m)
             /\ \A h, k \in Pushers : Within(taken'[h], m) /\ Within(taken'[k], m) => h = k
             /\ m \in 1 .. pushed <=> \/ Within(batch', m) \/ Within(handled, m)
                                      \/ \E h \in Pushers : Within(taken'[h], m)
  BY <1>5 DEF BatcherInv
<1> QED BY <1>1, <1>4, <1>5, <1>6 DEF BatcherInv, NothingLeftBehind

LEMMA DispatchingKeepsPackets ==
    ASSUME BatcherInv, NEW g \in Pushers, Dispatch(g)
    PROVE  BatcherInv'
<1>1. /\ handled' = handled \o taken[g] /\ taken' = [taken EXCEPT ![g] = <<>>]
      /\ UNCHANGED <<batch, pushed, closing, sealed>>
  BY DEF Dispatch
<1>2. \A h \in Pushers : taken'[h] = IF h = g THEN <<>> ELSE taken[h]
  BY <1>1 DEF BatcherInv
<1>3. /\ handled' \in Seq(Nat) /\ Lone(handled')
      /\ \A m : Within(handled', m) <=> Within(handled, m) \/ Within(taken[g], m)
  BY <1>1, TwoLots DEF BatcherInv
<1>4. MaxBatch \in Nat /\ 0 < MaxBatch
  BY BatcherAssumption DEF BatcherAssumption
<1>5. /\ taken' \in [Pushers -> Seq(Nat)]
      /\ \A h \in Pushers : Len(taken'[h]) <= MaxBatch /\ Lone(taken'[h])
  BY <1>1, <1>2, <1>4, AnEmptyLot DEF BatcherInv
<1>6. ASSUME NEW m \in Nat, NEW h \in Pushers
      PROVE  Within(taken'[h], m) <=> h # g /\ Within(taken[h], m)
  BY <1>2, AnEmptyLot
<1>7. ASSUME NEW m \in Nat
      PROVE  /\ Within(batch, m) => ~Within(handled', m)
             /\ \A h \in Pushers : Within(taken'[h], m) => ~Within(batch, m) /\ ~Within(handled', m)
             /\ \A h, k \in Pushers : Within(taken'[h], m) /\ Within(taken'[k], m) => h = k
             /\ m \in 1 .. pushed <=> \/ Within(batch, m) \/ Within(handled', m)
                                      \/ \E h \in Pushers : Within(taken'[h], m)
  BY <1>3, <1>6 DEF BatcherInv
<1> QED BY <1>1, <1>3, <1>5, <1>7 DEF BatcherInv, NothingLeftBehind

LEMMA BatcherInvIsKept == BatcherInv /\ [BatcherNext]_batcherVars => BatcherInv'
<1> SUFFICES ASSUME BatcherInv, [BatcherNext]_batcherVars PROVE BatcherInv'
  OBVIOUS
<1>1. ASSUME NEW g \in Pushers, Close(g) PROVE BatcherInv'
  <2>1. /\ sealed' = TRUE /\ closing' = closing \cup {g}
        /\ UNCHANGED <<batch, pushed, taken, handled>>
    BY <1>1 DEF Close
  <2> QED BY <2>1 DEF BatcherInv, NothingLeftBehind
<1>2. CASE UNCHANGED batcherVars
  BY <1>2 DEF batcherVars, BatcherInv, NothingLeftBehind
<1> QED BY <1>1, <1>2, PushingKeepsPackets, FlushingKeepsPackets, DispatchingKeepsPackets
        DEF BatcherNext

LEMMA BatcherInvHolds == CoreSpec => []BatcherInv
<1>1. CoreInit => BatcherInv
  BY BatcherInvAtFirst DEF CoreInit
<1>2. BatcherInv /\ [CoreNext]_coreVars => BatcherInv'
  BY EveryStepIsOfItsParts, BatcherInvIsKept
<1> QED BY <1>1, <1>2, PTL DEF CoreSpec

\* A lot without repetitions has a packet at one place at most.
LEMMA OnePlace ==
    ASSUME NEW s, NEW n, Lone(s)
    PROVE  LET P == {i \in DOMAIN s : s[i] = n}
           IN  /\ IsFiniteSet(P) /\ Cardinality(P) \in {0, 1}
               /\ Cardinality(P) = 1 <=> Within(s, n)
<1> DEFINE P == {i \in DOMAIN s : s[i] = n}
<1>1. CASE Within(s, n)
  <2>1. PICK i \in P : TRUE
    BY <1>1 DEF Within
  <2>2. P = {i}
    BY <2>1 DEF Lone
  <2> HIDE DEF P
  <2> QED BY <1>1, <2>2, FS_Singleton DEF P
<1>2. CASE ~Within(s, n)
  <2>1. P = {}
    BY <1>2 DEF Within
  <2> HIDE DEF P
  <2> QED BY <1>2, <2>1, FS_EmptySet DEF P
<1> QED BY <1>1, <1>2

LEMMA OnceByNow == BatcherInv => EveryPacketOnce
<1> SUFFICES ASSUME BatcherInv, NEW n \in 1 .. pushed
             PROVE  Cardinality(Gathered(n)) + Cardinality(OnItsWay(n)) + Cardinality(Handled(n)) = 1
  BY DEF EveryPacketOnce
<1>1. n \in Nat
  BY DEF BatcherInv
<1>2. /\ Cardinality(Gathered(n)) \in {0, 1} /\ (Cardinality(Gathered(n)) = 1 <=> Within(batch, n))
      /\ Cardinality(Handled(n)) \in {0, 1} /\ (Cardinality(Handled(n)) = 1 <=> Within(handled, n))
  <2>1. Lone(batch) /\ Lone(handled)
    BY DEF BatcherInv
  <2> QED BY <2>1, OnePlace DEF Gathered, Handled
<1>3. /\ Cardinality(OnItsWay(n)) \in {0, 1}
      /\ Cardinality(OnItsWay(n)) = 1 <=> \E g \in Pushers : Within(taken[g], n)
  <2>1. CASE \E g \in Pushers : Within(taken[g], n)
    <3>0. PICK g \in Pushers : Within(taken[g], n)
      BY <2>1
    <3>1. PICK i \in DOMAIN taken[g] : taken[g][i] = n
      BY <3>0 DEF Within
    <3>2. Len(taken[g]) \in Nat /\ Len(taken[g]) <= MaxBatch /\ DOMAIN taken[g] = 1 .. Len(taken[g])
      BY LenProperties DEF BatcherInv
    <3>3. i \in 1 .. MaxBatch
      BY <3>2, BatcherAssumption DEF BatcherAssumption
    <3>4. <<g, i>> \in OnItsWay(n)
      BY <3>1, <3>3 DEF OnItsWay
    <3>5. ASSUME NEW x \in OnItsWay(n) PROVE x = <<g, i>>
      <4>1. /\ x[1] \in Pushers /\ x[2] \in DOMAIN taken[x[1]] /\ taken[x[1]][x[2]] = n
            /\ x = <<x[1], x[2]>>
        BY DEF OnItsWay
      <4>2. Within(taken[x[1]], n) /\ Within(taken[g], n)
        BY <3>1, <4>1 DEF Within
      <4>3. x[1] = g
        BY <1>1, <4>1, <4>2 DEF BatcherInv
      <4>4. x[2] = i
        BY <3>1, <4>1, <4>3 DEF BatcherInv, Lone
      <4> QED BY <4>1, <4>3, <4>4
    <3>6. OnItsWay(n) = {<<g, i>>}
      BY <3>4, <3>5
    <3> QED BY <2>1, <3>6, FS_Singleton
  <2>2. CASE ~\E g \in Pushers : Within(taken[g], n)
    <3>1. OnItsWay(n) = {}
      BY <2>2 DEF OnItsWay, Within
    <3> QED BY <2>2, <3>1, FS_EmptySet
  <2> QED BY <2>1, <2>2
<1>4. /\ Within(batch, n) => ~Within(handled, n)
      /\ \A g \in Pushers : Within(taken[g], n) => ~Within(batch, n) /\ ~Within(handled, n)
      /\ \/ Within(batch, n) \/ Within(handled, n) \/ \E g \in Pushers : Within(taken[g], n)
  BY <1>1 DEF BatcherInv
<1> QED BY <1>2, <1>3, <1>4

(***************************************************************************)
(* The quotas of memory.                                                   *)
(***************************************************************************)

ArbiterInv ==
    /\ allocated \in [Classes -> Nat] /\ IsFiniteSet(Bytes(allocated))
    /\ MemoryBooksBalance

\* More for one class is so many bytes more altogether.
LEMMA MoreBytes ==
    ASSUME NEW f \in [Classes -> Nat], NEW h \in [Classes -> Nat], NEW q \in Classes, NEW n \in Nat,
           h[q] = f[q] + n, \A c \in Classes : c # q => h[c] = f[c]
    PROVE  /\ IsFiniteSet(Bytes(f)) <=> IsFiniteSet(Bytes(h))
           /\ IsFiniteSet(Bytes(f)) => /\ Cardinality(Bytes(f)) \in Nat
                                       /\ Cardinality(Bytes(h)) = Cardinality(Bytes(f)) + n
<1> DEFINE new == {q} \X (f[q] + 1 .. f[q] + n)
<1>1. /\ \A x : x \in Bytes(f) <=> \E c \in Classes : \E i \in 1 .. f[c] : x = <<c, i>>
      /\ \A x : x \in Bytes(h) <=> \E c \in Classes : \E i \in 1 .. h[c] : x = <<c, i>>
  BY DEF Bytes
<1>2. Bytes(h) = Bytes(f) \cup new /\ Bytes(f) \cap new = {}
  <2>1. ASSUME NEW x \in Bytes(h) PROVE x \in Bytes(f) \cup new
    <3>0. PICK c \in Classes : \E i \in 1 .. h[c] : x = <<c, i>>
      BY <1>1
    <3>1. PICK i \in 1 .. h[c] : x = <<c, i>>
      BY <3>0
    <3>2. CASE c # q
      BY <1>1, <3>1, <3>2
    <3>3. CASE c = q
      <4>1. i \in 1 .. f[q] \/ i \in f[q] + 1 .. f[q] + n
        BY <3>3
      <4> QED BY <1>1, <3>1, <3>3, <4>1
    <3> QED BY <3>2, <3>3
  <2>2. ASSUME NEW x \in Bytes(f) PROVE x \in Bytes(h) /\ x \notin new
    <3>0. PICK c \in Classes : \E i \in 1 .. f[c] : x = <<c, i>>
      BY <1>1
    <3>1. PICK i \in 1 .. f[c] : x = <<c, i>>
      BY <3>0
    <3>2. i \in 1 .. h[c]
      BY <3>1
    <3>3. ~(c = q /\ i \in f[q] + 1 .. f[q] + n)
      OBVIOUS
    <3> QED BY <1>1, <3>1, <3>2, <3>3
  <2>3. ASSUME NEW x \in new PROVE x \in Bytes(h)
    <3>1. PICK i \in f[q] + 1 .. f[q] + n : x = <<q, i>>
      OBVIOUS
    <3>2. i \in 1 .. h[q]
      BY <3>1
    <3> QED BY <1>1, <3>1, <3>2
  <2> QED BY <2>1, <2>2, <2>3
<1>3. IsFiniteSet(new) /\ Cardinality(new) = n
  <2>1. IsFiniteSet(f[q] + 1 .. f[q] + n) /\ Cardinality(f[q] + 1 .. f[q] + n) = n
    <3>1. f[q] + 1 \in Int /\ f[q] + n \in Int
      OBVIOUS
    <3>2. /\ IsFiniteSet(f[q] + 1 .. f[q] + n)
          /\ Cardinality(f[q] + 1 .. f[q] + n)
               = IF f[q] + 1 > f[q] + n THEN 0 ELSE (f[q] + n) - (f[q] + 1) + 1
      BY <3>1, FS_Interval
    <3>3. (IF f[q] + 1 > f[q] + n THEN 0 ELSE (f[q] + n) - (f[q] + 1) + 1) = n
      OBVIOUS
    <3> QED BY <3>2, <3>3
  <2>2. IsFiniteSet({q}) /\ Cardinality({q}) = 1
    BY FS_Singleton
  <2>3. PICK I : I = f[q] + 1 .. f[q] + n
    OBVIOUS
  <2>4. /\ IsFiniteSet({q} \X I)
        /\ Cardinality({q} \X I) = Cardinality({q}) * Cardinality(I)
    <3>1. IsFiniteSet(I)
      BY <2>1, <2>3
    <3> QED BY <2>2, <3>1, FS_Product
  <2>5. Cardinality({q}) * Cardinality(I) = n
    BY <2>1, <2>2, <2>3
  <2> QED BY <2>3, <2>4, <2>5
<1> HIDE DEF new
<1>4. ASSUME IsFiniteSet(Bytes(h)) PROVE IsFiniteSet(Bytes(f))
  BY <1>2, <1>4, FS_Subset
<1>5. ASSUME IsFiniteSet(Bytes(f))
      PROVE  /\ IsFiniteSet(Bytes(h)) /\ Cardinality(Bytes(f)) \in Nat
             /\ Cardinality(Bytes(h)) = Cardinality(Bytes(f)) + n
  <2>1. /\ IsFiniteSet(Bytes(f) \cup new)
        /\ Cardinality(Bytes(f) \cup new)
             = Cardinality(Bytes(f)) + Cardinality(new) - Cardinality(Bytes(f) \cap new)
    BY <1>3, <1>5, FS_Union
  <2>2. Cardinality(Bytes(f) \cap new) = 0
    BY <1>2, FS_EmptySet
  <2>3. Cardinality(Bytes(f)) \in Nat
    BY <1>5, FS_CardinalityType
  <2> QED BY <1>2, <1>3, <2>1, <2>2, <2>3
<1> QED BY <1>4, <1>5

LEMMA ArbiterInvAtFirst == ArbiterInit => ArbiterInv
<1> SUFFICES ASSUME ArbiterInit PROVE ArbiterInv
  OBVIOUS
<1>1. allocated = [c \in Classes |-> 0] /\ totalAlloc = 0
  BY DEF ArbiterInit
<1>2. Bytes(allocated) = {}
  BY <1>1 DEF Bytes
<1>3. \A c \in Classes : 0 <= Limit[c]
  BY ArbiterAssumption DEF ArbiterAssumption
<1>4. 0 <= TotalLimit
  BY ArbiterAssumption DEF ArbiterAssumption
<1> QED BY <1>1, <1>2, <1>3, <1>4, FS_EmptySet DEF ArbiterInv, MemoryBooksBalance

LEMMA ReservingBalances ==
    ASSUME ArbiterInv, NEW name, NEW n \in Nat, ReserveMemory(name, n)
    PROVE  ArbiterInv'
<1>1. PICK q \in Classes : q = Quota(name)
  BY ArbiterAssumption DEF Quota, ArbiterAssumption
<1>2. /\ allocated[q] + n <= Limit[q] /\ totalAlloc + n <= TotalLimit
      /\ allocated' = [allocated EXCEPT ![q] = @ + n] /\ totalAlloc' = totalAlloc + n
  BY <1>1 DEF ReserveMemory
<1>3. /\ allocated' \in [Classes -> Nat] /\ allocated'[q] = allocated[q] + n
      /\ \A c \in Classes : c # q => allocated'[c] = allocated[c]
  BY <1>2 DEF ArbiterInv
<1>4. Bytes(allocated)' = Bytes(allocated')
  BY DEF Bytes
<1>5. /\ IsFiniteSet(Bytes(allocated'))
      /\ Cardinality(Bytes(allocated')) = Cardinality(Bytes(allocated)) + n
  BY <1>3, MoreBytes DEF ArbiterInv
<1> QED BY <1>2, <1>3, <1>4, <1>5 DEF ArbiterInv, MemoryBooksBalance

LEMMA ReleasingBalances ==
    ASSUME ArbiterInv, NEW name, NEW n \in Nat, ReleaseMemory(name, n)
    PROVE  ArbiterInv'
<1>1. PICK q \in Classes : q = Quota(name)
  BY ArbiterAssumption DEF Quota, ArbiterAssumption
<1>2. PICK given : given = Min({n, allocated[q]})
  OBVIOUS
<1>3. /\ allocated' = [allocated EXCEPT ![q] = @ - given]
      /\ totalAlloc' = Max({0, totalAlloc - given})
  BY <1>1, <1>2 DEF ReleaseMemory
<1>4. allocated[q] \in Nat /\ given \in Nat /\ given <= allocated[q]
  <2>1. allocated[q] \in Nat
    BY DEF ArbiterInv
  <2>2. given \in Int /\ given <= allocated[q] /\ given \in {n, allocated[q]}
    BY <1>2, <2>1, LesserOfTwo
  <2> QED BY <2>1, <2>2
<1>5. /\ allocated' \in [Classes -> Nat] /\ allocated[q] = allocated'[q] + given
      /\ allocated'[q] <= allocated[q]
      /\ \A c \in Classes : c # q => allocated'[c] = allocated[c]
  BY <1>3, <1>4 DEF ArbiterInv
<1>6. /\ IsFiniteSet(Bytes(allocated')) /\ Cardinality(Bytes(allocated')) \in Nat
      /\ Cardinality(Bytes(allocated)) = Cardinality(Bytes(allocated')) + given
  <2>1. \A c \in Classes : c # q => allocated[c] = allocated'[c]
    BY <1>5
  <2>2. allocated \in [Classes -> Nat] /\ IsFiniteSet(Bytes(allocated))
    BY DEF ArbiterInv
  <2> QED BY <1>4, <1>5, <2>1, <2>2, MoreBytes
<1>7. Bytes(allocated)' = Bytes(allocated')
  BY DEF Bytes
<1>8. totalAlloc' = Cardinality(Bytes(allocated')) /\ totalAlloc' <= totalAlloc
  <2>1. totalAlloc - given = Cardinality(Bytes(allocated')) /\ totalAlloc - given \in Nat
    BY <1>4, <1>6 DEF ArbiterInv, MemoryBooksBalance
  <2>2. Max({0, totalAlloc - given}) >= totalAlloc - given
        /\ Max({0, totalAlloc - given}) \in {0, totalAlloc - given}
        /\ Max({0, totalAlloc - given}) >= 0
    BY <2>1, GreaterOfTwo
  <2>3. totalAlloc' = totalAlloc - given
    BY <1>3, <2>1, <2>2
  <2> QED BY <1>4, <1>6, <2>1, <2>3 DEF ArbiterInv, MemoryBooksBalance
<1>9. totalAlloc' <= TotalLimit
  <2>1. totalAlloc \in Nat /\ totalAlloc <= TotalLimit /\ TotalLimit \in Nat /\ totalAlloc' \in Nat
    BY <1>4, <1>6, <1>8, ArbiterAssumption DEF ArbiterInv, MemoryBooksBalance, ArbiterAssumption
  <2> QED BY <1>8, <2>1
<1>10. ASSUME NEW c \in Classes PROVE allocated'[c] <= Limit[c]
  <2>1. allocated[c] <= Limit[c] /\ Limit[c] \in Nat /\ allocated[c] \in Nat /\ allocated'[c] \in Nat
        /\ allocated'[c] <= allocated[c]
    BY <1>5, ArbiterAssumption DEF ArbiterInv, MemoryBooksBalance, ArbiterAssumption
  <2> QED BY <2>1
<1> QED BY <1>5, <1>6, <1>7, <1>8, <1>9, <1>10 DEF ArbiterInv, MemoryBooksBalance

LEMMA ArbiterInvIsKept == ArbiterInv /\ [ArbiterNext]_arbiterVars => ArbiterInv'
<1> SUFFICES ASSUME ArbiterInv, [ArbiterNext]_arbiterVars PROVE ArbiterInv'
  OBVIOUS
<1>1. CASE UNCHANGED arbiterVars
  BY <1>1 DEF arbiterVars, ArbiterInv, MemoryBooksBalance, Bytes
<1>2. \A n \in Amounts : n \in Nat
  BY ArbiterAssumption DEF ArbiterAssumption
<1> QED BY <1>1, <1>2, ReservingBalances, ReleasingBalances DEF ArbiterNext

LEMMA ArbiterInvHolds == CoreSpec => []ArbiterInv
<1>1. CoreInit => ArbiterInv
  BY ArbiterInvAtFirst DEF CoreInit
<1>2. ArbiterInv /\ [CoreNext]_coreVars => ArbiterInv'
  BY EveryStepIsOfItsParts, ArbiterInvIsKept
<1> QED BY <1>1, <1>2, PTL DEF CoreSpec

LEMMA TwoKeysByNow == KeyInv => OnlyTwoKeys
  BY KeyFacts DEF KeyInv, OnlyTwoKeys, KeysGivenOut

\* Nothing is handled twice or left behind by the batcher, given back twice to the quotas of
\* memory, or sealed under a key past its bound, for any number of goroutines and classes
\* (packet_batcher.go:102-171, memory_arbiter.go:76-123, key_rotation.go:70-139).
THEOREM NothingIsCountedTwice == CoreSpec => []NothingCountedTwice
<1>1. BatcherInv /\ ArbiterInv /\ KeyInv => NothingCountedTwice
  <2>1. BatcherInv => NothingLeftBehind
    BY DEF BatcherInv
  <2>2. ArbiterInv => MemoryBooksBalance
    BY DEF ArbiterInv
  <2> QED BY <2>1, <2>2, OnceByNow, BoundedByNow, TwoKeysByNow DEF NothingCountedTwice
<1> QED BY <1>1, BatcherInvHolds, ArbiterInvHolds, KeyInvHolds, PTL

(***************************************************************************)
(* The replay window.                                                      *)
(***************************************************************************)

LEMMA WindowInvHolds == CoreSpec => []WindowInv
<1>1. CoreInit => WindowInv
  BY WindowStarts DEF CoreInit
<1>2. WindowInv /\ [CoreNext]_coreVars => WindowInv'
  BY EveryStepIsOfItsParts, WindowStep
<1> QED BY <1>1, <1>2, PTL DEF CoreSpec

\* The bitmap holds exactly the accepted numbers that the window covers, and both layers shift it
\* alike, for every number and width of words (l0/anti_replay.go:26-91,
\* l1/anti_replay_session.go:186-212).
THEOREM TheBitmapIsExact == CoreSpec => []WindowIsExact
<1>1. WindowInv => WindowIsExact
  BY WindowFacts DEF WindowIsExact
<1> QED BY <1>1, WindowInvHolds, PTL

\* No number is accepted twice nor after it fell out of the window: the words and their shifts
\* implement the abstract window (ValidateAndUpdate, shiftLeft).
THEOREM TheWindowIsImplemented == CoreSpec => ImplementsWindow
<1>1. CoreInit => Window!Init
  BY DEF CoreInit, WindowInit, Window!Init
<1>2. WindowInv /\ [CoreNext]_coreVars => [Window!Next]_count
  BY EveryStepIsOfItsParts, WindowStep
<1> QED BY <1>1, <1>2, WindowInvHolds, PTL DEF CoreSpec, ImplementsWindow, Window!Spec

(***************************************************************************)
(* The batcher as a queue.                                                 *)
(***************************************************************************)

\* Every lot is a run of consecutive packets; the gathered one ends with the last accepted.
IsRun(s) == \A i \in DOMAIN s : s[i] = s[1] + i - 1
EndsWith(s, n) == \A i \in DOMAIN s : s[i] = n - Len(s) + i
RunsInv == EndsWith(batch, pushed) /\ \A g \in Pushers : IsRun(taken[g])

LEMMA LotsInParts ==
    ASSUME NEW s \in Seq(Nat)
    PROVE  /\ Len(s) \in Nat /\ DOMAIN s = 1 .. Len(s)
           /\ \A i \in DOMAIN s : i \in Nat /\ s[i] \in Nat
           /\ s # <<>> => 1 \in DOMAIN s /\ 1 <= Len(s)
<1>1. Len(s) \in Nat /\ DOMAIN s = 1 .. Len(s) /\ \A i \in 1 .. Len(s) : s[i] \in Nat
  BY LenProperties, ElementOfSeq
<1>2. s # <<>> => Len(s) # 0
  BY EmptySeq
<1> QED BY <1>1, <1>2

\* What was gathered is a run, also with the packet just accepted.
WithNext == Append(batch, pushed + 1)

LEMMA GatheredIsARun ==
    ASSUME BatcherInv, RunsInv
    PROVE  IsRun(batch) /\ IsRun(WithNext) /\ EndsWith(WithNext, pushed + 1)
<1>1. /\ pushed \in Nat /\ batch \in Seq(Nat) /\ Len(batch) \in Nat
      /\ DOMAIN batch = 1 .. Len(batch)
      /\ \A i \in 1 .. Len(batch) : batch[i] = pushed - Len(batch) + i
  BY LotsInParts DEF BatcherInv, RunsInv, EndsWith
<1>2. IsRun(batch)
  BY <1>1 DEF IsRun
<1>3. /\ DOMAIN WithNext = 1 .. Len(batch) + 1 /\ Len(WithNext) = Len(batch) + 1
      /\ WithNext[Len(batch) + 1] = pushed + 1
      /\ \A i \in 1 .. Len(batch) : WithNext[i] = batch[i]
  BY <1>1, AppendProperties DEF WithNext
<1>4. \A i \in 1 .. Len(batch) + 1 : WithNext[i] = pushed - Len(batch) + i
  BY <1>1, <1>3
<1>5. EndsWith(WithNext, pushed + 1)
  BY <1>1, <1>3, <1>4 DEF EndsWith
<1>6. IsRun(WithNext)
  BY <1>1, <1>3, <1>4 DEF IsRun
<1> QED BY <1>2, <1>5, <1>6

LEMMA RunsInvIsKept == BatcherInv /\ RunsInv /\ [BatcherNext]_batcherVars => RunsInv'
<1> SUFFICES ASSUME BatcherInv, RunsInv, [BatcherNext]_batcherVars PROVE RunsInv'
  OBVIOUS
<1>0. IsRun(<<>>) /\ \A n : EndsWith(<<>>, n)
  <2>1. DOMAIN <<>> = {}
    BY EmptySeq
  <2> QED BY <2>1 DEF IsRun, EndsWith
<1>1. ASSUME NEW g \in Pushers, Push(g) PROVE RunsInv'
  <2>1. /\ pushed' = pushed + 1
        /\ \/ batch' = <<>> /\ taken' = [taken EXCEPT ![g] = WithNext]
           \/ batch' = WithNext /\ taken' = taken
    BY <1>1 DEF Push, WithNext
  <2>2. IsRun(WithNext) /\ EndsWith(WithNext, pushed + 1)
    BY GatheredIsARun
  <2>3. \A h \in Pushers : taken'[h] = taken[h] \/ taken'[h] = WithNext
    BY <2>1 DEF BatcherInv
  <2>4. \A h \in Pushers : IsRun(taken'[h])
    BY <2>2, <2>3 DEF RunsInv
  <2>5. EndsWith(batch', pushed')
    BY <1>0, <2>1, <2>2
  <2> QED BY <2>4, <2>5 DEF RunsInv, EndsWith, IsRun
<1>2. ASSUME NEW g \in Pushers, Flush(g) PROVE RunsInv'
  <2>1. taken' = [taken EXCEPT ![g] = batch] /\ batch' = <<>> /\ pushed' = pushed
    BY <1>2 DEF Flush
  <2>2. \A h \in Pushers : taken'[h] = taken[h] \/ taken'[h] = batch
    BY <2>1 DEF BatcherInv
  <2>3. IsRun(batch)
    BY GatheredIsARun
  <2>4. EndsWith(batch', pushed') /\ \A h \in Pushers : IsRun(taken'[h])
    BY <1>0, <2>1, <2>2, <2>3 DEF RunsInv
  <2> QED BY <2>4 DEF RunsInv, EndsWith, IsRun
<1>3. ASSUME NEW g \in Pushers, Dispatch(g) PROVE RunsInv'
  <2>1. taken' = [taken EXCEPT ![g] = <<>>] /\ UNCHANGED <<batch, pushed>>
    BY <1>3 DEF Dispatch
  <2>2. \A h \in Pushers : taken'[h] = taken[h] \/ taken'[h] = <<>>
    BY <2>1 DEF BatcherInv
  <2>3. EndsWith(batch', pushed') /\ \A h \in Pushers : IsRun(taken'[h])
    BY <1>0, <2>1, <2>2 DEF RunsInv
  <2> QED BY <2>3 DEF RunsInv, EndsWith, IsRun
<1>4. UNCHANGED <<batch, pushed, taken>> => RunsInv'
  BY DEF RunsInv, EndsWith, IsRun
<1>5. ASSUME NEW g \in Pushers, Close(g) PROVE RunsInv'
  BY <1>4, <1>5 DEF Close
<1>6. CASE UNCHANGED batcherVars
  BY <1>4, <1>6 DEF batcherVars
<1> QED BY <1>1, <1>2, <1>3, <1>5, <1>6 DEF BatcherNext

\* A lot on its way is handed over as a run that the handler has not seen.
LEMMA DispatchHandsOver ==
    ASSUME BatcherInv, RunsInv, NEW g \in Pushers, Dispatch(g)
    PROVE  Queue!Next
<1> DEFINE s == taken[g]
           lo == s[1]
           n == Len(s)
<1>1. /\ s \in Seq(Nat) /\ s # <<>> /\ n <= MaxBatch /\ IsRun(s)
      /\ handled' = handled \o s /\ UNCHANGED <<batch, pushed, closing, sealed>>
  BY DEF Dispatch, BatcherInv, RunsInv
<1>2. /\ n \in Nat /\ 1 <= n /\ DOMAIN s = 1 .. n /\ lo \in Nat
      /\ \A i \in 1 .. n : s[i] = lo + i - 1 /\ s[i] \in Nat /\ Within(s, s[i])
  BY <1>1, LotsInParts DEF IsRun, Within
<1>3. /\ pushed \in Nat /\ handled \in Seq(Nat) /\ MaxBatch \in Nat
      /\ \A i \in 1 .. n : s[i] \in 1 .. pushed /\ ~Within(handled, s[i])
  BY <1>2, BatcherAssumption DEF BatcherInv, BatcherAssumption
<1> HIDE DEF s, lo, n
<1>4. s = Queue!Lot(lo, n)
  <2>1. s = [i \in 1 .. n |-> s[i]]
    BY <1>1, <1>2, LenProperties DEF n
  <2> QED BY <1>2, <2>1 DEF Queue!Lot
<1>5. lo \in 1 .. pushed /\ n \in 1 .. MaxBatch /\ lo + n - 1 <= pushed
  <2>1. s[1] = lo /\ s[n] = lo + n - 1 /\ s[1] \in 1 .. pushed /\ s[n] \in 1 .. pushed
    BY <1>2, <1>3
  <2> QED BY <1>1, <1>2, <1>3, <2>1
<1>6. \A i \in DOMAIN handled : handled[i] \notin lo .. lo + n - 1
  <2> SUFFICES ASSUME NEW i \in DOMAIN handled, handled[i] \in lo .. lo + n - 1 PROVE FALSE
    OBVIOUS
  <2>1. handled[i] - lo + 1 \in 1 .. n /\ handled[i] \in Nat
    BY <1>2, <1>3, LotsInParts
  <2>2. s[handled[i] - lo + 1] = handled[i]
    BY <1>2, <2>1
  <2>3. Within(handled, handled[i])
    BY DEF Within
  <2> QED BY <1>3, <2>1, <2>2, <2>3
<1>7. Queue!HandOver(lo, n)
  BY <1>1, <1>4, <1>5, <1>6 DEF Queue!HandOver, s
<1> QED BY <1>5, <1>7 DEF Queue!Next

LEMMA BatcherIsAQueue ==
    BatcherInv /\ RunsInv /\ [BatcherNext]_batcherVars => [Queue!Next]_<<pushed, handled, ~sealed>>
<1> SUFFICES ASSUME BatcherInv, RunsInv, [BatcherNext]_batcherVars
             PROVE  Queue!Next \/ UNCHANGED <<pushed, handled, ~sealed>>
  OBVIOUS
<1>1. ASSUME NEW g \in Pushers, Push(g) PROVE Queue!Next
  BY <1>1 DEF Push, Queue!Next, Queue!Accept
<1>2. ASSUME NEW g \in Pushers, Flush(g) PROVE UNCHANGED <<pushed, handled, ~sealed>>
  BY <1>2 DEF Flush
<1>3. ASSUME NEW g \in Pushers, Close(g) PROVE Queue!Next \/ UNCHANGED <<pushed, handled, ~sealed>>
  <2>1. CASE sealed
    BY <1>3, <2>1 DEF Close
  <2>2. CASE ~sealed
    BY <1>3, <2>2 DEF Close, Queue!Next, Queue!Close
  <2> QED BY <2>1, <2>2
<1>4. CASE UNCHANGED batcherVars
  BY <1>4 DEF batcherVars
<1> QED BY <1>1, <1>2, <1>3, <1>4, DispatchHandsOver DEF BatcherNext

\* The batcher implements the abstract queue, for any number of goroutines and any size of
\* batches: each packet is handed over once, in a run of consecutive packets, and none is
\* accepted after a close (packet_batcher.go:102-180).
THEOREM TheQueueIsImplemented == CoreSpec => ImplementsQueue
<1>1. CoreInit => Queue!Init /\ RunsInv
  <2>1. DOMAIN <<>> = {}
    BY EmptySeq
  <2>2. IsRun(<<>>) /\ EndsWith(<<>>, 0)
    BY <2>1 DEF IsRun, EndsWith
  <2> QED BY <2>2 DEF CoreInit, BatcherInit, Queue!Init, RunsInv
<1>2. BatcherInv /\ RunsInv /\ [CoreNext]_coreVars => RunsInv'
  BY EveryStepIsOfItsParts, RunsInvIsKept
<1>3. BatcherInv /\ RunsInv /\ [CoreNext]_coreVars => [Queue!Next]_<<pushed, handled, ~sealed>>
  BY EveryStepIsOfItsParts, BatcherIsAQueue
<1> QED BY <1>1, <1>2, <1>3, BatcherInvHolds, PTL
        DEF CoreSpec, ImplementsQueue, Queue!Spec, Queue!queueVars

\* The replay window and the batcher keep what the rest of the node uses them for.
THEOREM PromisesAreKept == CoreSpec => ImplementsPromises
BY TheWindowIsImplemented, TheQueueIsImplemented DEF ImplementsPromises

(***************************************************************************)
(* Types.                                                                  *)
(***************************************************************************)

\* What the invariants above do not say of the types.
RestOfTheTypes ==
    /\ pushed \in 0 .. MaxPushed /\ sealed \in BOOLEAN
    /\ tokens \in [BucketIds -> -1 .. CookieBurst]
    /\ proofTokens \in [BucketIds -> -1 .. ProofBurst]
    /\ guests \in 0 .. MaxCalls

LEMMA OneTokenLess ==
    ASSUME NEW m \in Nat, NEW n \in -1 .. m
    PROVE  Max({-1, n - 1}) \in -1 .. m
<1>1. n - 1 \in Int /\ -1 \in Int
  OBVIOUS
<1>2. Max({-1, n - 1}) >= -1 /\ Max({-1, n - 1}) \in {-1, n - 1}
  BY <1>1, GreaterOfTwo
<1> QED BY <1>2

LEMMA BatcherTypesAreKept ==
    RestOfTheTypes /\ [BatcherNext]_batcherVars => pushed' \in 0 .. MaxPushed /\ sealed' \in BOOLEAN
<1> SUFFICES ASSUME RestOfTheTypes, [BatcherNext]_batcherVars
             PROVE  pushed' \in 0 .. MaxPushed /\ sealed' \in BOOLEAN
  OBVIOUS
<1>1. pushed' = pushed \/ (pushed < MaxPushed /\ pushed' = pushed + 1)
  BY DEF BatcherNext, batcherVars, Push, Flush, Dispatch, Close
<1>2. sealed' = sealed \/ sealed' = TRUE
  BY DEF BatcherNext, batcherVars, Push, Flush, Dispatch, Close
<1>3. pushed' \in 0 .. MaxPushed
  BY <1>1, BatcherAssumption DEF RestOfTheTypes, BatcherAssumption
<1>4. sealed' \in BOOLEAN
  BY <1>2 DEF RestOfTheTypes
<1> QED BY <1>3, <1>4

LEMMA CookieTypesAreKept ==
    RestOfTheTypes /\ [CookieNext]_cookieVars
    => /\ tokens' \in [BucketIds -> -1 .. CookieBurst]
       /\ proofTokens' \in [BucketIds -> -1 .. ProofBurst]
       /\ guests' \in 0 .. MaxCalls
<1> SUFFICES ASSUME RestOfTheTypes, [CookieNext]_cookieVars
             PROVE  /\ tokens' \in [BucketIds -> -1 .. CookieBurst]
                    /\ proofTokens' \in [BucketIds -> -1 .. ProofBurst]
                    /\ guests' \in 0 .. MaxCalls
  OBVIOUS
<1> USE DEF RestOfTheTypes
<1>1. CookieBurst \in Nat /\ ProofBurst \in Nat /\ MaxCalls \in Nat
  BY CookieNumbers
<1>2. CASE UNCHANGED <<tokens, proofTokens, guests>>
  BY <1>2
<1>3. ASSUME NEW g \in Guests, NEW n \in Nonces, AskForCookie(g, n)
      PROVE  UNCHANGED <<tokens, proofTokens>> /\ guests' \in 0 .. MaxCalls
  BY <1>1, <1>3 DEF AskForCookie
<1>4. ASSUME NEW g \in Guests, Fill(g)
      PROVE  /\ tokens' \in [BucketIds -> -1 .. CookieBurst]
             /\ proofTokens' \in [BucketIds -> -1 .. ProofBurst] /\ guests' = guests
  <2>1. PICK r : /\ tokens' = [tokens EXCEPT ![r] = CookieBurst]
                 /\ proofTokens' = [proofTokens EXCEPT ![r] = ProofBurst]
                 /\ guests' = guests
    BY <1>4 DEF Fill
  <2>2. CookieBurst \in -1 .. CookieBurst /\ ProofBurst \in -1 .. ProofBurst
    BY <1>1
  <2>3. guests' = guests
    BY <2>1
  <2>4. tokens' \in [BucketIds -> -1 .. CookieBurst]
    BY <2>1, <2>2
  <2>5. proofTokens' \in [BucketIds -> -1 .. ProofBurst]
    BY <2>1, <2>2
  <2> QED BY <2>3, <2>4, <2>5
<1>5. ASSUME NEW g \in Guests, NEW r \in BucketIds, TakeCookieToken(g, r)
      PROVE  /\ tokens' \in [BucketIds -> -1 .. CookieBurst]
             /\ UNCHANGED <<proofTokens, guests>>
  <2>1. Max({-1, tokens[r] - 1}) \in -1 .. CookieBurst
    BY <1>1, OneTokenLess
  <2>2. tokens' = [tokens EXCEPT ![r] = Max({-1, tokens[r] - 1})] /\ UNCHANGED <<proofTokens, guests>>
    BY <1>5 DEF TakeCookieToken
  <2> QED BY <2>1, <2>2
<1>6. ASSUME NEW g \in Guests, NEW r \in BucketIds, VerifyMicroPoW(g, r)
      PROVE  /\ proofTokens' \in [BucketIds -> -1 .. ProofBurst]
             /\ UNCHANGED <<tokens, guests>>
  <2>1. Max({-1, proofTokens[r] - 1}) \in -1 .. ProofBurst
    BY <1>1, OneTokenLess
  <2>2. /\ proofTokens' = [proofTokens EXCEPT ![r] = Max({-1, proofTokens[r] - 1})]
        /\ UNCHANGED <<tokens, guests>>
    BY <1>6 DEF VerifyMicroPoW
  <2> QED BY <2>1, <2>2
<1>7. CASE UNCHANGED cookieVars \/ CookieTick \/ \E g \in Guests : Swap(g)
  <2>1. UNCHANGED <<tokens, proofTokens, guests>>
    BY <1>7 DEF cookieVars, CookieTick, Swap
  <2> QED BY <1>2, <2>1
<1> QED BY <1>3, <1>4, <1>5, <1>6, <1>7 DEF CookieNext

LEMMA RestOfTheTypesHolds == CoreSpec => []RestOfTheTypes
<1>1. CoreInit => RestOfTheTypes
  <2>1. CookieInit => /\ tokens \in [BucketIds -> -1 .. CookieBurst]
                      /\ proofTokens \in [BucketIds -> -1 .. ProofBurst]
                      /\ guests \in 0 .. MaxCalls
    BY CookieNumbers DEF CookieInit
  <2>2. BatcherInit => pushed \in 0 .. MaxPushed
    BY BatcherAssumption DEF BatcherInit, BatcherAssumption
  <2>3. BatcherInit => sealed \in BOOLEAN
    BY DEF BatcherInit
  <2> QED BY <2>1, <2>2, <2>3 DEF CoreInit, RestOfTheTypes
<1>2. RestOfTheTypes /\ [CoreNext]_coreVars => RestOfTheTypes'
  <2>1. RestOfTheTypes /\ [CoreNext]_coreVars => [BatcherNext]_batcherVars /\ [CookieNext]_cookieVars
    BY EveryStepIsOfItsParts
  <2> QED BY <2>1, BatcherTypesAreKept, CookieTypesAreKept DEF RestOfTheTypes
<1> QED BY <1>1, <1>2, PTL DEF CoreSpec

\* A lot of packets that were accepted.
LEMMA LotsAreOfAcceptedPackets ==
    ASSUME NEW s \in Seq(Nat), NEW m \in Nat, \A n \in Nat : Within(s, n) => n \in 1 .. m
    PROVE  s \in Seq(1 .. m)
<1>1. DOMAIN s = 1 .. Len(s) /\ \A i \in 1 .. Len(s) : s[i] \in Nat
  BY ElementOfSeq, LenProperties
<1>2. \A i \in 1 .. Len(s) : s[i] \in 1 .. m
  BY <1>1 DEF Within
<1> QED BY <1>1, <1>2, LenProperties, SeqDef

LEMMA BatcherTypes == BatcherInv /\ RestOfTheTypes => BatcherTypeOK
<1> SUFFICES ASSUME BatcherInv, RestOfTheTypes PROVE BatcherTypeOK
  OBVIOUS
<1>1. \A n \in Nat : /\ Within(batch, n) => n \in 1 .. pushed
                     /\ Within(handled, n) => n \in 1 .. pushed
                     /\ \A g \in Pushers : Within(taken[g], n) => n \in 1 .. pushed
  BY DEF BatcherInv
<1>2. /\ pushed \in Nat /\ batch \in Seq(Nat) /\ handled \in Seq(Nat)
      /\ \A g \in Pushers : taken[g] \in Seq(Nat)
  BY DEF BatcherInv
<1>3. /\ batch \in Seq(1 .. pushed) /\ handled \in Seq(1 .. pushed)
      /\ \A g \in Pushers : taken[g] \in Seq(1 .. pushed)
  BY <1>1, <1>2, LotsAreOfAcceptedPackets
<1> QED BY <1>3 DEF BatcherInv, RestOfTheTypes, BatcherTypeOK

LEMMA PipelineTypes == BuffersInv /\ FSMInv => PipelineTypeOK
<1> SUFFICES ASSUME BuffersInv, FSMInv PROVE PipelineTypeOK
  OBVIOUS
<1>1. Jobs = {Idle} \cup Work
  BY DEF Jobs, Work, Positions, Lines
<1>2. \A c \in Buffers : content[c] \in Datagrams \cup {Blank}
  BY DEF BuffersInv, PoolTypes
<1> QED BY <1>1, <1>2 DEF BuffersInv, FSMInv, PoolTypes, LineTypes, PipelineTypeOK, Counts, Lines

LEMMA GatewayTypes == RegisterInv /\ QoSInv => GatewayTypeOK
<1> SUFFICES ASSUME RegisterInv, QoSInv PROVE GatewayTypeOK
  OBVIOUS
<1>1. \A n \in 1 .. Len(queue) : queue[n] \in Seq(MeshEvents)
  BY ElementOfSeq DEF RegisterInv, ChannelsInv
<1> QED BY <1>1 DEF RegisterInv, ComponentsInv, ChannelsInv, QoSInv, GatewayTypeOK

LEMMA CookieTypes == CookieInv /\ RestOfTheTypes => CookieTypeOK
<1> SUFFICES ASSUME CookieInv, RestOfTheTypes PROVE CookieTypeOK
  OBVIOUS
<1>1. second \in 0 .. MaxSeconds /\ lastRefill \in 0 .. second /\ cookies \subseteq 0 .. second
  BY CookieNumbers DEF CookieInv, Seconds
<1>2. guest \in [Guests -> {Away} \cup Calls]
  BY DEF CookieInv
<1> QED BY <1>1, <1>2 DEF CookieInv, RestOfTheTypes, CookieTypeOK, Calls, Seconds, Rounds

LEMMA MemoryAndKeyTypes == ArbiterInv /\ KeyInv => ArbiterTypeOK /\ KeyTypeOK
<1> SUFFICES ASSUME ArbiterInv, KeyInv PROVE ArbiterTypeOK /\ KeyTypeOK
  OBVIOUS
<1>1. totalAlloc \in Nat
  BY FS_CardinalityType DEF ArbiterInv, MemoryBooksBalance
<1> QED BY <1>1 DEF ArbiterInv, ArbiterTypeOK, KeyInv, KeyTypeOK, Turns, KeyNumbers

\* Every part of the node is well typed and within its capacities: the history of modes, the
\* channels of events, the batches, the buckets and the window (operating_modes.go:77,
\* gateway.go:352-367, packet_batcher.go:102-130).
THEOREM CoreTypes == CoreSpec => []CoreTypeOK
<1>1. WindowInv => WindowTypeOK
  BY DEF WindowInv
<1>2. SessionInv => SessionTypeOK
  BY DEF SessionInv
<1>3. /\ BuffersInv /\ FSMInv /\ RegisterInv /\ QoSInv /\ WindowInv /\ SessionInv
      /\ BatcherInv /\ ArbiterInv /\ KeyInv /\ CookieInv /\ RestOfTheTypes
      => CoreTypeOK
  BY <1>1, <1>2, PipelineTypes, GatewayTypes, BatcherTypes, MemoryAndKeyTypes, CookieTypes
     DEF CoreTypeOK
<1> QED BY <1>3, BuffersInvHolds, FSMInvHolds, RegisterInvHolds, QoSInvHolds, WindowInvHolds,
           SessionInvHolds, BatcherInvHolds, ArbiterInvHolds, KeyInvHolds, CookieInvHolds,
           RestOfTheTypesHolds, PTL
==============================================================================
