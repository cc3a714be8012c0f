---------------------------- MODULE StreamProxies ----------------------------
(* What the proxies of a node do for a stream: they resolve the name of its   *)
(* target and copy what both ends send.                                       *)
EXTENDS Integers, FiniteSets, Functions

(***************************************************************************)
(* Streams.                                                                *)
(***************************************************************************)
\* What carries a stream between a client and a target: the SOCKS5 and HTTP
\* proxy (src/src/pkg/l1/socks5_gateway.go), the exit to the Internet
\* (egress_forwarder.go) and the bridge to a device (shadow_device.go).
\*
\* The proxy closes the whole connection it writes to when the one it reads
\* from ends, and so does the bridge; the exit closes only its writing half,
\* and nothing on the side of the client. Every direction of a stream is
\* copied by a goroutine of its own. What a client of the proxy says comes
\* down to the protocol of its first byte and to whether it is served. Bytes
\* are not counted.

CONSTANTS
    Streams,            \* connections accepted
    MaxStarts           \* bound of the model: starts of the proxy

ProxyAssumption == IsFiniteSet(Streams) /\ MaxStarts \in Nat

ASSUME ProxyAssumption

VARIABLES
    proxy,              \* [running, quit, starts]: quit once the channel has been closed
    proxyPanic,         \* a closed channel has been closed again
    acceptors,          \* accept loops that run
    connections,        \* of the proxy and of the exit: the streams each counts
    stream,             \* stream -> [kind, at]: what carries it, and how far that is
    ends,               \* stream -> [client, target]: what each side still does
    copying             \* stream -> the directions that are copied

proxyVars == <<proxy, proxyPanic, acceptors, connections, stream, ends, copying>>

Kinds == {"proxy", "exit", "bridge"}

\* A connection of the proxy is accepted, then read by the handler of one protocol.
Phases == {"new", "accepted", "socks5", "http", "carried", "over"}

\* A side writes until it is done writing, or its connection is closed by either end.
Sides == [open : BOOLEAN, sends : BOOLEAN]
Fresh == [open |-> TRUE, sends |-> TRUE]

ProxyTypeOK ==
    /\ proxy \in [running : BOOLEAN, quit : BOOLEAN, starts : 0 .. MaxStarts]
    /\ proxyPanic \in BOOLEAN /\ acceptors \in 0 .. MaxStarts
    /\ connections \in [{"proxy", "exit"} -> Int]
    /\ stream \in [Streams -> [kind : Kinds, at : Phases]]
    /\ ends \in [Streams -> [client : Sides, target : Sides]]
    /\ copying \in [Streams -> SUBSET {"up", "down"}]

ProxyInit ==
    /\ proxy = [running |-> FALSE, quit |-> FALSE, starts |-> 0]
    /\ proxyPanic = FALSE /\ acceptors = 0 /\ connections = [k \in {"proxy", "exit"} |-> 0]
    /\ \E k \in [Streams -> Kinds] : stream = [s \in Streams |-> [kind |-> k[s], at |-> "new"]]
    /\ ends = [s \in Streams |-> [client |-> Fresh, target |-> Fresh]]
    /\ copying = [s \in Streams |-> {}]

Up == ~proxyPanic
Connections == <<connections, stream, ends, copying>>

\* The bridge counts nothing.
Count(kind, n) == connections' = [k \in DOMAIN connections |->
                                    IF k = kind THEN connections[k] + n ELSE connections[k]]

(***************************************************************************)
(* The proxy.                                                              *)
(***************************************************************************)

\* Start, if the port can be had. The channel that ends the loops is made once and for all.
Start ==
    /\ Up /\ ~proxy.running /\ proxy.starts < MaxStarts
    /\ proxy' = [proxy EXCEPT !.running = TRUE, !.starts = @ + 1]
    /\ acceptors' = acceptors + 1
    /\ UNCHANGED <<proxyPanic, Connections>>

Stop ==
    /\ Up /\ proxy.running
    /\ IF proxy.quit THEN proxyPanic' = TRUE /\ UNCHANGED proxy
       ELSE proxy' = [proxy EXCEPT !.running = FALSE, !.quit = TRUE] /\ UNCHANGED proxyPanic
    /\ UNCHANGED <<acceptors, Connections>>

\* A loop whose accept fails ends once the channel has been closed, and goes on otherwise.
AcceptorEnds ==
    /\ Up /\ acceptors > 0 /\ proxy.quit
    /\ acceptors' = acceptors - 1
    /\ UNCHANGED <<proxy, proxyPanic, Connections>>

Accept(s) ==
    /\ Up /\ acceptors > 0 /\ proxy.running /\ stream[s] = [kind |-> "proxy", at |-> "new"]
    /\ Count("proxy", 1)
    /\ stream' = [stream EXCEPT ![s].at = "accepted"]
    /\ UNCHANGED <<proxy, proxyPanic, acceptors, ends, copying>>

(***************************************************************************)
(* The carriers.                                                           *)
(***************************************************************************)

\* What is done for a stream when its carrier returns.
\* Mutant: a refused connection is not counted off.
OverCountedIfCarried(s) ==
    /\ stream' = [stream EXCEPT ![s].at = "over"]
    /\ ends' = [ends EXCEPT ![s].target.open = FALSE,
                            ![s].client.open = IF stream[s].kind = "proxy" THEN FALSE ELSE @]
    /\ Count(stream[s].kind, IF stream[s].at = "carried" THEN -1 ELSE 0)

Over(s) ==
    /\ stream' = [stream EXCEPT ![s].at = "over"]
    /\ ends' = [ends EXCEPT ![s].target.open = FALSE,
                            ![s].client.open = IF stream[s].kind = "proxy" THEN FALSE ELSE @]
    /\ Count(stream[s].kind, -1)

\* The target has answered: a goroutine for each direction.
StartCopying(s) ==
    /\ stream' = [stream EXCEPT ![s].at = "carried"]
    /\ copying' = [copying EXCEPT ![s] = {"up", "down"}]
    /\ UNCHANGED ends

LetGo(s) == Over(s) /\ UNCHANGED copying

\* handleConnection: the first byte says which handler it is, if it comes before the deadline.
HandleConnection(s) ==
    /\ Up /\ stream[s].at = "accepted"
    /\ \/ \E handler \in {"socks5", "http"} : stream' = [stream EXCEPT ![s].at = handler]
          /\ UNCHANGED <<connections, ends, copying>>
       \/ LetGo(s)
    /\ UNCHANGED <<proxy, proxyPanic, acceptors>>

\* A client that makes no sense, or waits beyond the deadline, or whose target does not answer, is
\* told so and let go. One that has gone away is found out only by the copies.
HandleSOCKS5(s) ==
    /\ Up /\ stream[s].at = "socks5"
    /\ LetGo(s) \/ (StartCopying(s) /\ UNCHANGED connections)
    /\ UNCHANGED <<proxy, proxyPanic, acceptors>>

HandleHTTPProxy(s) ==
    /\ Up /\ stream[s].at = "http"
    /\ LetGo(s) \/ (StartCopying(s) /\ UNCHANGED connections)
    /\ UNCHANGED <<proxy, proxyPanic, acceptors>>

\* ForwardStream of the exit, which counts a stream once its target has answered; a client without
\* authorisation, or whose target does not answer, leaves nothing behind.
ForwardToInternet(s) ==
    /\ Up /\ stream[s] = [kind |-> "exit", at |-> "new"]
    /\ StartCopying(s) /\ Count("exit", 1)
    /\ UNCHANGED <<proxy, proxyPanic, acceptors>>

\* ForwardStream of the bridge, for a device it lets through (see DelegatedIdentity).
ForwardToDevice(s) ==
    /\ Up /\ stream[s] = [kind |-> "bridge", at |-> "new"]
    /\ StartCopying(s) /\ UNCHANGED connections
    /\ UNCHANGED <<proxy, proxyPanic, acceptors>>

\* The side a direction reads from, and the one it writes to.
From(dir) == IF dir = "up" THEN "client" ELSE "target"
To(dir) == IF dir = "up" THEN "target" ELSE "client"

\* A copy ends when its source has ended or is closed; one towards a side that is closed ends too,
\* but only when it has something to write.
Ended(side) == ~side.open \/ ~side.sends

\* Mutant: the connection it wrote to is left open.
CopyEndsQuietly(s, dir) ==
    /\ Up /\ dir \in copying[s]
    /\ Ended(ends[s][From(dir)]) \/ ~ends[s][To(dir)].open
    /\ copying' = [copying EXCEPT ![s] = @ \ {dir}]
    /\ UNCHANGED <<proxy, proxyPanic, acceptors, connections, stream, ends>>

CopyEnds(s, dir) ==
    /\ Up /\ dir \in copying[s]
    /\ Ended(ends[s][From(dir)]) \/ ~ends[s][To(dir)].open
    /\ copying' = [copying EXCEPT ![s] = @ \ {dir}]
    /\ ends' = [ends EXCEPT ![s][To(dir)].open = @ /\ stream[s].kind = "exit"]
    /\ UNCHANGED <<proxy, proxyPanic, acceptors, connections, stream>>

Return(s) ==
    /\ Up /\ stream[s].at = "carried" /\ copying[s] = {}
    /\ LetGo(s) /\ UNCHANGED <<proxy, proxyPanic, acceptors>>

(***************************************************************************)
(* The two sides.                                                          *)
(***************************************************************************)

\* A side has written all it wanted to, and may still read; or it goes away, the client of the
\* proxy also before it is served.
DoneSending(s, side) ==
    /\ stream[s].at = "carried" /\ ends[s][side].open
    /\ ends' = [ends EXCEPT ![s][side].sends = FALSE]
    /\ UNCHANGED <<proxy, proxyPanic, acceptors, connections, stream, copying>>

GoAway(s, side) ==
    /\ ends[s][side].open
    /\ stream[s].at = "carried" \/ (side = "client" /\ stream[s].at \in {"accepted", "socks5", "http"})
    /\ ends' = [ends EXCEPT ![s][side].open = FALSE]
    /\ UNCHANGED <<proxy, proxyPanic, acceptors, connections, stream, copying>>

\* What must come: a read that finds the end returns, and a carrier whose copies have ended.
Tend(s) ==
    \/ Return(s)
    \/ \E dir \in {"up", "down"} : Ended(ends[s][From(dir)]) /\ CopyEnds(s, dir)

ProxyNext ==
    \/ Start \/ Stop \/ AcceptorEnds
    \/ \E s \in Streams : \/ Accept(s) \/ HandleConnection(s) \/ HandleSOCKS5(s) \/ HandleHTTPProxy(s)
                          \/ ForwardToInternet(s) \/ ForwardToDevice(s) \/ Return(s)
                          \/ \E dir \in {"up", "down"} : CopyEnds(s, dir)
                          \/ \E side \in {"client", "target"} : DoneSending(s, side) \/ GoAway(s, side)

(***************************************************************************)
(* Properties.                                                             *)
(***************************************************************************)

\* The proxy and the exit count the streams they have accepted or carry, and no other, on every path
\* that ends one (socks5_gateway.go:105-115, egress_forwarder.go:105-106).
StreamsAreCounted ==
    \A k \in {"proxy", "exit"} :
        connections[k] = Cardinality({s \in Streams : stream[s].kind = k
                                                      /\ stream[s].at \notin {"new", "over"}})

\* When one side of a stream of the proxy or the bridge goes away, the stream is over in the end:
\* neither direction keeps the other waiting (socks5_gateway.go:267-281, shadow_device.go:184-196).
StreamsEnd ==
    \A s \in Streams : stream[s].kind # "exit" /\ stream[s].at = "carried"
                       /\ (~ends[s].client.open \/ ~ends[s].target.open)
                          ~> stream[s].at = "over" \/ proxyPanic

(***************************************************************************)
(* The resolver.                                                           *)
(***************************************************************************)
\* The resolver the proxy asks for the address of a host
\* (src/src/pkg/l1/dns_resolver.go): a cache in front of a name server.
\*
\* A resolution reads the clock, then looks in the cache under a lock, asks
\* the server without it and stores the answer under it. The time an entry is
\* good for is counted from the clock that was read first. An address is known
\* by the time at which it was the right one, which is that of the answer.

CONSTANTS
    Resolvers,          \* goroutines that resolve
    HostNames,
    MaxDNSCacheEntries, \* 2048 in the code
    CacheTTL,           \* 300 s
    MaxDNSClock         \* bound of the model

DNSAssumption == MaxDNSCacheEntries \in Nat \ {0} /\ CacheTTL \in Nat \ {0} /\ MaxDNSClock \in Nat

ASSUME DNSAssumption

VARIABLES
    dnsCache,           \* host -> [right, expires]
    lookup,             \* goroutine -> where its resolution is, and what it knows
    dnsClock

dnsVars == <<dnsCache, lookup, dnsClock>>

NoLookup == [at |-> "idle"]
Times == 0 .. MaxDNSClock
Lookups == [at : {"begun", "asking"}, host : HostNames, now : Times]
           \cup [at : {"answered"}, host : HostNames, now : Times, right : Times]
           \cup [at : {"ended"}, now : Times, right : Times]

DNSTypeOK ==
    /\ DOMAIN dnsCache \subseteq HostNames /\ Cardinality(DOMAIN dnsCache) <= MaxDNSCacheEntries
    /\ \A h \in DOMAIN dnsCache :
          dnsCache[h] \in [right : Times, expires : 0 .. MaxDNSClock + CacheTTL]
    /\ lookup \in [Resolvers -> {NoLookup} \cup Lookups]
    /\ dnsClock \in Times

DNSInit ==
    /\ dnsCache = [h \in {} |-> {}] /\ dnsClock = 0
    /\ lookup = [g \in Resolvers |-> NoLookup]

\* ResolveIP of a name; an address is its own answer.
BeginLookup(g, h) ==
    /\ lookup[g] = NoLookup
    /\ lookup' = [lookup EXCEPT ![g] = [at |-> "begun", host |-> h, now |-> dnsClock]]
    /\ UNCHANGED <<dnsCache, dnsClock>>

\* Whether an entry is good is a matter of the time read before.
Cached(g) == /\ lookup[g].host \in DOMAIN dnsCache
             /\ lookup[g].now < dnsCache[lookup[g].host].expires

\* What the caller gets.
Outcome(g, right) == [at |-> "ended", now |-> lookup[g].now, right |-> right]

LookInCache(g) ==
    /\ lookup[g].at = "begun"
    /\ lookup' = IF Cached(g)
                 THEN [lookup EXCEPT ![g] = Outcome(g, dnsCache[lookup[g].host].right)]
                 ELSE [lookup EXCEPT ![g].at = "asking"]
    /\ UNCHANGED <<dnsCache, dnsClock>>

\* The server answers, or does not within the deadline.
AnswerLookup(g) ==
    /\ lookup[g].at = "asking"
    /\ lookup' = [lookup EXCEPT ![g] = [at |-> "answered", host |-> @.host, now |-> @.now,
                                        right |-> dnsClock]]
    /\ UNCHANGED <<dnsCache, dnsClock>>

FailLookup(g) ==
    /\ lookup[g].at = "asking"
    /\ lookup' = [lookup EXCEPT ![g] = NoLookup]
    /\ UNCHANGED <<dnsCache, dnsClock>>

\* Mutant: the time is counted from the moment of the storing.
StoreFromNow(g) ==
    LET kept == IF Cardinality(DOMAIN dnsCache) >= MaxDNSCacheEntries THEN {} ELSE DOMAIN dnsCache
    IN  /\ lookup[g].at = "answered"
        /\ dnsCache' = [h \in kept \cup {lookup[g].host} |->
                          IF h = lookup[g].host
                          THEN [right |-> lookup[g].right, expires |-> dnsClock + CacheTTL]
                          ELSE dnsCache[h]]
        /\ lookup' = [lookup EXCEPT ![g] = Outcome(g, @.right)]
        /\ UNCHANGED dnsClock

\* A full cache is thrown away, also for a host it has.
StoreAnswer(g) ==
    LET kept == IF Cardinality(DOMAIN dnsCache) >= MaxDNSCacheEntries THEN {} ELSE DOMAIN dnsCache
    IN  /\ lookup[g].at = "answered"
        /\ dnsCache' = [h \in kept \cup {lookup[g].host} |->
                          IF h = lookup[g].host
                          THEN [right |-> lookup[g].right, expires |-> lookup[g].now + CacheTTL]
                          ELSE dnsCache[h]]
        /\ lookup' = [lookup EXCEPT ![g] = Outcome(g, @.right)]
        /\ UNCHANGED dnsClock

\* The address is used.
ReturnAddress(g) ==
    /\ lookup[g].at = "ended"
    /\ lookup' = [lookup EXCEPT ![g] = NoLookup]
    /\ UNCHANGED <<dnsCache, dnsClock>>

ClearCache ==
    /\ dnsCache' = [h \in {} |-> {}]
    /\ UNCHANGED <<lookup, dnsClock>>

DNSTick ==
    /\ dnsClock < MaxDNSClock /\ dnsClock' = dnsClock + 1
    /\ UNCHANGED <<dnsCache, lookup>>

DNSNext ==
    \/ \E g \in Resolvers :
          \/ \E h \in HostNames : BeginLookup(g, h)
          \/ LookInCache(g) \/ AnswerLookup(g) \/ FailLookup(g) \/ StoreAnswer(g) \/ ReturnAddress(g)
    \/ ClearCache \/ DNSTick

(***************************************************************************)
(* Properties.                                                             *)
(***************************************************************************)

\* Whatever overtakes what between the clock, the cache and the server, and also when an answer is
\* stored over a newer one: an address that is given out was the right one less than the life of an
\* entry before it was asked for (dns_resolver.go:66-74, 116-126).
AddressesAreRecent ==
    \A g \in Resolvers : lookup[g].at = "ended" => lookup[g].now - lookup[g].right < CacheTTL
==============================================================================
