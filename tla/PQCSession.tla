----------------------------- MODULE PQCSession -----------------------------
(***************************************************************************)
(* Session establishment between nodes: PQCSessionManager                  *)
(* (src/src/pkg/l1/session_manager.go) over the 1-RTT exchange of          *)
(* src/src/pkg/l1/pqc_handshake.go.                                        *)
(*                                                                         *)
(* A session key is determined by the encapsulation the initiator made     *)
(* (hs, one number per call of CreateHandshakeInitPacket) and by the KEM   *)
(* key pair that opened it: the pair of a node and of one of its runs,     *)
(* because main.go generates a new pair on every start.  Opening with      *)
(* another pair does not fail, it yields another key (implicit rejection). *)
(* Signatures are perfect: a message states its true sender.  Time is in   *)
(* seconds and shared, so a timestamp is never in the future.              *)
(*                                                                         *)
(* The network keeps every packet: one may arrive late, again, at another  *)
(* node than the one it was sent to, or never.  An attempt may start while *)
(* others are under way, towards the same node or towards each other.      *)
(***************************************************************************)
EXTENDS Integers, FiniteSets

CONSTANTS Node,
          Allowed,         \* node -> DIDs its firewall authorises
          HandshakeLifetime,        \* 60 s: freshness of an init, life of a pending one
          MaxHandshakes,   \* bound on CreateHandshakeInitPacket calls
          MaxRestarts,     \* bound on restarts of one node
          MaxNow           \* bound on the clock

ASSUME PQCSessionAssumption ==
    /\ Allowed \in [Node -> SUBSET Node]
    /\ HandshakeLifetime \in Nat
    /\ MaxHandshakes \in Nat /\ MaxRestarts \in Nat /\ MaxNow \in Nat

VARIABLES now,
          run,        \* which start of the node this is: its KEM key pair
          sessions,   \* sessions[n][m]: n's session with m
          pending,    \* pending[n][m]: n's open attempt towards m
          finishing,  \* the response a node is between its two locks with
          net,        \* packets in the network
          born,       \* history: when each attempt was created
          installed   \* history: every session ever installed

sessionVars == <<now, run, sessions, pending, finishing, net, born, installed>>

None == [none |-> TRUE]
Handshake == 1 .. MaxHandshakes
KeyPair == Node \X (0 .. MaxRestarts)
Key == [hs : Handshake, pair : KeyPair]
Session == [key : Key, role : {"initiator", "responder"}]
Pending == [key : Key, at : 0 .. MaxNow]
InitMsg == [kind : {"init"}, src : Node, hs : Handshake,
            ts : 0 .. MaxNow]
RespMsg == [kind : {"resp"}, src : Node, dst : Node, key : Key]

SessionTypeOK ==
    /\ now \in 0 .. MaxNow
    /\ run \in [Node -> 0 .. MaxRestarts]
    /\ sessions \in [Node -> [Node -> Session \cup {None}]]
    /\ pending \in [Node -> [Node -> Pending \cup {None}]]
    /\ finishing \in [Node -> [peer : Node, key : Key] \cup {None}]
    /\ net \in SUBSET (InitMsg \cup RespMsg)
    /\ DOMAIN born \subseteq Handshake
    /\ installed \in SUBSET [node : Node, peer : Node, session : Session]

NoPeers == [m \in Node |-> None]

SessionInit ==
    /\ now = 0
    /\ run = [n \in Node |-> 0]
    /\ sessions = [n \in Node |-> NoPeers]
    /\ pending = [n \in Node |-> NoPeers]
    /\ finishing = [n \in Node |-> None]
    /\ net = {}
    /\ born = << >>
    /\ installed = {}
-----------------------------------------------------------------------------
\* A new attempt replaces the pending one.  The KEM key of the target is an
\* argument, so it may be the key of an earlier run of the target.
CreateHandshakeInitPacket(n, target, r) ==
    /\ n # target
    /\ r <= run[target]
    /\ Cardinality(DOMAIN born) < MaxHandshakes
    /\ LET hs == Cardinality(DOMAIN born) + 1 IN
       /\ pending' = [pending EXCEPT ![n][target] =
                        [key |-> [hs |-> hs, pair |-> <<target, r>>], at |-> now]]
       /\ net' = net \cup {[kind |-> "init", src |-> n, hs |-> hs, ts |-> now]}
       /\ born' = [h \in 1 .. hs |-> IF h = hs THEN now ELSE born[h]]
    /\ UNCHANGED <<now, run, sessions, finishing, installed>>

Install(n, m, session) ==
    /\ sessions' = [sessions EXCEPT ![n][m] = session]
    /\ installed' = installed \cup {[node |-> n, peer |-> m, session |-> session]}

\* The packet names no destination (DestDID is empty): whatever node it reaches
\* answers it.
HandleHandshakeInitPacket(n, pkt) ==
    /\ pkt.kind = "init" /\ pkt.src # n
    /\ finishing[n] = None
    /\ now - pkt.ts <= HandshakeLifetime
    /\ pkt.src \in Allowed[n]
    /\ LET key == [hs |-> pkt.hs, pair |-> <<n, run[n]>>] IN
       /\ Install(n, pkt.src, [key |-> key, role |-> "responder"])
       /\ net' = net \cup {[kind |-> "resp", src |-> n, dst |-> pkt.src, key |-> key]}
    /\ UNCHANGED <<now, run, pending, finishing, born>>

\* Mutant: Finalize1RTT compares nothing.
TakeUnverified(n, pkt) ==
    /\ pkt.kind = "resp" /\ pkt.dst = n
    /\ finishing[n] = None
    /\ pending[n][pkt.src] # None
    /\ finishing' = [finishing EXCEPT
                       ![n] = [peer |-> pkt.src, key |-> pending[n][pkt.src].key]]
    /\ pending' = [pending EXCEPT ![n][pkt.src] = None]
    /\ UNCHANGED <<now, run, sessions, net, born, installed>>

\* Mutant: the key is taken from the response instead of the attempt.
TakeResponseKey(n, pkt) ==
    /\ pkt.kind = "resp" /\ pkt.dst = n
    /\ finishing[n] = None
    /\ pending[n][pkt.src] # None
    /\ finishing' = [finishing EXCEPT ![n] = [peer |-> pkt.src, key |-> pkt.key]]
    /\ pending' = [pending EXCEPT ![n][pkt.src] = None]
    /\ UNCHANGED <<now, run, sessions, net, born, installed>>

\* The pending attempt is taken before the response is looked at, so a response
\* that turns out late or not its own has used it up.
TakePending(n, pkt) ==
    /\ pkt.kind = "resp" /\ pkt.dst = n
    /\ finishing[n] = None
    /\ LET attempt == pending[n][pkt.src] IN
       /\ attempt # None
       /\ finishing' = [finishing EXCEPT ![n] =
                          IF now - attempt.at <= HandshakeLifetime /\ attempt.key = pkt.key
                          THEN [peer |-> pkt.src, key |-> attempt.key]
                          ELSE None]
    /\ pending' = [pending EXCEPT ![n][pkt.src] = None]
    /\ UNCHANGED <<now, run, sessions, net, born, installed>>

\* The second lock of HandleHandshakeRespPacket.
InstallPending(n) ==
    /\ finishing[n] # None
    /\ Install(n, finishing[n].peer,
               [key |-> finishing[n].key, role |-> "initiator"])
    /\ finishing' = [finishing EXCEPT ![n] = None]
    /\ UNCHANGED <<now, run, pending, net, born>>

\* Sessions, attempts and KEM keys live in memory only.
Restart(n) ==
    /\ run[n] < MaxRestarts
    /\ run' = [run EXCEPT ![n] = @ + 1]
    /\ sessions' = [sessions EXCEPT ![n] = NoPeers]
    /\ pending' = [pending EXCEPT ![n] = NoPeers]
    /\ finishing' = [finishing EXCEPT ![n] = None]
    /\ UNCHANGED <<now, net, born, installed>>

\* A goroutine is not a second between its locks.
Tick ==
    /\ now < MaxNow
    /\ \A n \in Node : finishing[n] = None
    /\ now' = now + 1
    /\ UNCHANGED <<run, sessions, pending, finishing, net, born, installed>>

SessionNext ==
    \/ Tick
    \/ \E n, m \in Node, r \in 0 .. MaxRestarts :
         CreateHandshakeInitPacket(n, m, r)
    \/ \E n \in Node : InstallPending(n) \/ Restart(n)
    \/ \E n \in Node : \E pkt \in net :
         HandleHandshakeInitPacket(n, pkt) \/ TakePending(n, pkt)

SessionSpec == SessionInit /\ [][SessionNext]_sessionVars
-----------------------------------------------------------------------------
Matches(s, t) ==
    s # None /\ t # None /\ s.key = t.key /\ s.role # t.role

\* Key confirmation: an initiator's session is one its peer has installed too,
\* as responder and with the same key, whatever the network did.
KeyConfirmed ==
    \A i \in installed :
      i.session.role = "initiator"
      => \E j \in installed : /\ j.node = i.peer /\ j.peer = i.node
                              /\ Matches(i.session, j.session)

\* A node that initiates never goes back to an attempt older than one it has
\* completed, even when responses arrive late, repeated or out of order.
InitiatorNeverRegresses ==
    [][\A i \in installed' \ installed, j \in installed :
         (/\ i.session.role = "initiator" /\ j.session.role = "initiator"
          /\ i.node = j.node /\ i.peer = j.peer)
         => j.session.key.hs < i.session.key.hs]_sessionVars

\* An attempt dies with its lifetime: from then on it changes no session, at
\* either end, although initiator and responder measure its age differently.
NoLateInstall ==
    [][\A n, m \in Node :
         (sessions'[n][m] # sessions[n][m] /\ sessions'[n][m] # None)
         => now - born[sessions'[n][m].key.hs] <= HandshakeLifetime]_sessionVars

(***************************************************************************)
(* Renewal of the keys.                                                    *)
(***************************************************************************)
\* The sentinel that renews the symmetric key of a session after a number of
\* packets or a time (src/src/pkg/l1/key_rotation.go).
\*
\* A goroutine that sends takes a copy of the keys, seals a packet under the
\* active one, counts it, and rotates when it is told to. The counters are
\* outside the lock, so several may be told so by one overflow and then rotate
\* one after another. A key is the number of its epoch; bytes are not counted
\* apart from packets.

CONSTANTS
    Sealers,        \* goroutines that send
    MaxPackets,     \* packets of a key (1000000 in the code)
    KeyLifetime,    \* ticks a key lives (one hour)
    Grace,          \* ticks the previous key is given out (30 s)
    MaxEpoch, MaxAge, MaxSealed     \* bounds of the model

KeyAssumption ==
    /\ IsFiniteSet(Sealers)
    /\ MaxPackets \in Nat \ {0} /\ KeyLifetime \in Nat /\ Grace \in Nat
    /\ MaxEpoch \in Nat \ {0} /\ MaxAge \in Nat /\ MaxSealed \in Nat

ASSUME KeyAssumption

VARIABLES
    epoch,          \* of the active key
    hasPrevious,    \* the key before it is kept
    age,            \* ticks since the rotation
    packetsCount,
    sealer,         \* goroutine -> what it is doing and under which key
    sealedWith      \* key -> packets sealed under it: history

keyVars == <<epoch, hasPrevious, age, packetsCount, sealer, sealedWith>>

KeyTypeOK ==
    /\ epoch \in 1 .. MaxEpoch /\ hasPrevious \in BOOLEAN /\ age \in 0 .. MaxAge
    /\ packetsCount \in Nat
    /\ sealer \in [Sealers -> [at : {"idle", "seal", "ask", "rotate"}, key : 0 .. MaxEpoch]]
    /\ sealedWith \in [1 .. MaxEpoch -> Nat]

KeyInit ==
    /\ epoch = 1 /\ hasPrevious = FALSE /\ age = 0 /\ packetsCount = 0
    /\ sealer = [g \in Sealers |-> [at |-> "idle", key |-> 0]]
    /\ sealedWith = [e \in 1 .. MaxEpoch |-> 0]

\* GetKeys: the active key, and the previous one for a while.
GetKeys(g) ==
    /\ sealer[g].at = "idle"
    /\ sealer' = [sealer EXCEPT ![g] = [at |-> "seal", key |-> epoch]]
    /\ UNCHANGED <<epoch, hasPrevious, age, packetsCount, sealedWith>>

KeysGivenOut == {epoch} \cup {e \in {epoch - 1} : hasPrevious /\ age <= Grace}

\* The packet is sealed and counted, in whatever epoch it may be by now.
TrackTraffic(g) ==
    /\ sealer[g].at = "seal" /\ sealedWith[sealer[g].key] < MaxSealed
    /\ packetsCount' = packetsCount + 1
    /\ sealedWith' = [sealedWith EXCEPT ![sealer[g].key] = @ + 1]
    /\ sealer' = [sealer EXCEPT ![g].at = "ask"]
    /\ UNCHANGED <<epoch, hasPrevious, age>>

NeedsRotation == packetsCount >= MaxPackets \/ age >= KeyLifetime

Ask(g) ==
    /\ sealer[g].at = "ask"
    /\ sealer' = [sealer EXCEPT ![g] = IF NeedsRotation THEN [@ EXCEPT !.at = "rotate"]
                                       ELSE [at |-> "idle", key |-> 0]]
    /\ UNCHANGED <<epoch, hasPrevious, age, packetsCount, sealedWith>>

\* Rotate does not ask again whether it is needed.
Rotate(g) ==
    /\ sealer[g].at = "rotate" /\ epoch < MaxEpoch
    /\ epoch' = epoch + 1
    /\ hasPrevious' = TRUE /\ age' = 0 /\ packetsCount' = 0
    /\ sealer' = [sealer EXCEPT ![g] = [at |-> "idle", key |-> 0]]
    /\ UNCHANGED sealedWith

KeyTick == age < MaxAge /\ age' = age + 1
           /\ UNCHANGED <<epoch, hasPrevious, packetsCount, sealer, sealedWith>>

KeyNext == KeyTick \/ \E g \in Sealers : GetKeys(g) \/ TrackTraffic(g) \/ Ask(g) \/ Rotate(g)

-----------------------------------------------------------------------------
\* No key seals more packets than its limit and one more for every other goroutine that was
\* under way when it was reached, whoever counts where and whoever rotates twice
\* (key_rotation.go:70-86, 109-114).
KeyUseIsBounded ==
    \A e \in 1 .. MaxEpoch : sealedWith[e] <= MaxPackets + Cardinality(Sealers) - 1

\* A key given out is at most one epoch old and, while the present one is new, only its
\* predecessor is (126-139). A goroutine may still hold an older copy.
OnlyTwoKeys == KeysGivenOut \subseteq {epoch - 1, epoch} /\ (age > Grace => KeysGivenOut = {epoch})
=============================================================================
