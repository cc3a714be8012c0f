# ipvn7 0.7 in TLA+

A verification project for the ipvn7 network node (`src/src`, Go) and its
repository daemon (`src/sistema`, Python): TLA+ modules for the parts that carry
the program's own logic, TLC runs that check them on small instances, and proofs
checked by TLAPS. `PROJECT.json` maps every definition to the lines it models,
and lists the components, the runs, the mutated definitions that each property
catches, the hazards of the code and the theorems.

## 1. The system

A node owns an Ed25519 identity (its DID) and one UDP socket. `main.go` wires it:

| component | state it keeps | operations | talks to |
|---|---|---|---|
| session manager, `l1/session_manager.go` | sessions and pending attempts per DID, one sequence counter | create / answer / complete a 1-RTT handshake, seal, open | firewall (`IsAllowed`), wire |
| anti-replay filter, `l1/anti_replay_session.go` | a window per (origin, session), newest timestamp and session per origin | `Accept` | memory arbiter |
| L0 window, `l0/anti_replay.go` | highest number, 16-word bitmap | `ValidateAndUpdate` | - |
| firewall, `l1/firewall.go` | policies per DID, decision cache | authorise, revoke (single, batch), evaluate in/out | discovery authorises |
| receive loop, `cmd/ipvn7/main.go` | none of its own | decode, filter, dispatch by type | all of the above, router, TUN |
| forwarder, `cmd/ipvn7/diagnostics.go` | none | look up next hop, evaluate, seal, send | router, firewall, session manager |
| virtual interface, `l1/tun_*.go` | two queues and a flag | read, write, inject, capture, close | receive loop, forwarder |
| Kleinberg router, `l1/routing*.go` | rings of peers with health | add/update, health, next hop, roaming | discovery, loop |
| discovery, rendezvous, blind store | own endpoint, beacons, timers | publish, resolve, probe, trust | router, firewall, STUN |
| link healing, active prober | measurements per peer | probe, judge, damp | router |
| mobility anchor | number, place and tickets per moving peer | update, challenge | - |
| gateway, `core/gateway.go` | components, subscribers, channels | register, heartbeat, subscribe, broadcast, fail over | router, QoS |
| pipeline, FSM, modes (`core/`) | pooled buffers, state, history of modes | run the stages, trigger events | firewall, QoS, router |
| pools, QoS, arbiter, batcher, key rotation, cookies | reference counts, tokens, quotas, batches, epochs | acquire/release, consume, reserve, push/flush, rotate, admit | every data path |
| silent calls, shadow devices, UIN, delegation | slots, tokens, device tables, bindings | dispatch, register, stream, bind, revoke, validate | proxies |
| egress, SOCKS5, resolver, NAT, Sphinx relay, I7 adapter | gateway, streams, cache, punches, tags, socket | choose, carry, resolve, punch, remember, read | sockets |
| L2: DHT, planetary mesh, accounting, anomaly, split brain | buckets, failures, books, fingerprints, heartbeats | update, route, record, audit | telemetry |
| panel, network probe | shown state, proxy setting; loop and incidents | connect, disconnect, toggle, exit | the desktop |
| version manager, `core/version_manager.go` | the active and the backup binary, a flag | check, download, install, confirm, roll back | admin API |
| supervisor daemon, `sistema/daemon` | `daemon.lock`, `estado.json` | start, run-once, mode, reprogram | git, the operating system |

What is hard about it: every packet may be lost, repeated, delayed or reordered;
receive loop, forwarder, discovery and admin API are goroutines over shared maps
whose lock is dropped in the middle of an operation (`eval`,
`HandleHandshakeRespPacket`, `Accept`); flags, counters and buckets are changed by
several atomic steps that are not one (`SetActive`, `Dispatch`, the cookies);
channels are closed under writers; sessions, KEM keys and windows do not survive a
restart while the peers' do; an update replaces files step by step; the daemon's
commands are separate processes over two unprotected files. The property each
component must have is given with its module below. The engine of NAT traversal,
cookies, the multipath scheduler, UIN, Sphinx and the I7 adapter are libraries
that only tests call today; they are modelled as what their interface allows.

## 2. Modules

| module | models | composed with |
|---|---|---|
| `SlidingWindow` | abstract: what a replay window promises for one stream | implemented by `AntiReplay`, `ReplayWindow`, `NodeDatapath` |
| `PacketQueue` | abstract: packets handed over once each, in lots of consecutive numbers | implemented by `PacketPipeline` |
| `AntiReplay` | `l1.AntiReplayFilter.Accept` | `SlidingWindow` per (origin, session) |
| `ReplayWindow` | `l0.AntiReplayFilter` and `l1.shiftWindow` on words of bits | `SlidingWindow` |
| `ZTNAFirewall` | the policy book, the cache, evaluations in flight | |
| `PQCSession` | handshakes between nodes; keys by epoch | |
| `NodeDatapath` | forwarder, network, receive loop | what `AntiReplay` and `PQCSession` promise; `SlidingWindow` |
| `PacketPipeline` | the automaton of a node and its operating modes; buffer pool, line of stages, dead letters; the packet batcher | `PacketQueue` |
| `QoS` | token buckets, challenges, memory quotas | |
| `Gateway` | registers, subscriptions, broadcasts, failover | `QoS` |
| `CookieAdmission` | cookies | |
| `MCNodeCore` | everything from `PacketPipeline` to here, `ReplayWindow`, `PQCSession` | |
| `RouterMetrics` | ring distance, health, cost, next hop: no state | used by the next five |
| `KleinbergRouter` | the peer table and every method that changes it | |
| `Discovery` | beacons published, circuit breaker; the discovery cycle and what acts beside it | `KleinbergRouter` |
| `LinkHealing` | the healer and the active prober | `KleinbergRouter` |
| `MeshRelay` | packets relayed over several nodes | `RouterMetrics` |
| `MCMeshControl` | the five of them around one table | |
| `TunRouter`, `StreamProxies`, `NatPunching`, `NetworkProbe`, `PanelSwitch`, `OnionRelay`, `ContainerAdapter` | goroutines with liveness | `MCNodeServices` |
| `MobilityAnchor`, `SilentDispatch`, `EgressSelection`, `PartitionGuard` | what ties a node to others | `MCNodeServices` |
| `KademliaTable`, `PlanetaryMesh`, `AnomalyTable` | the tables of the second layer, the books on transit | `MCNodeServices` |
| `DelegatedIdentity` | identities, delegations, shadow devices | `MCNodeServices` |
| `VersionManager`, `Supervisor` | the update on disk; the daemon's commands | `MCMaintenance` |
| `AntiReplay_proofs`, `ReplayWindow_proofs`, `ZTNAFirewall_proofs`, `NodeDatapath_proofs` | proofs about the module they are named after | |
| `NodeCore_proofs`, `MeshControl_proofs`, `Maintenance_proofs`, `NodeServices_proofs` | proofs about `MCNodeCore`, `MCMeshControl`, `MCMaintenance`, `MCNodeServices` and the modules in them | |

`MC<name>.tla` and `MC<name>*.cfg` give the constants their values. Operators
whose comment begins with *Mutant* are wrong variants of the definition that
follows; no specification uses them. They record which mistake each property
detects.

### Composition by focus

`MCMeshControl`, `MCNodeCore`, `MCNodeServices` and `MCMaintenance` put many
components into one specification. Those that share state are composed for real:
the stages of the pipeline drive the automaton and hold the buffers of the pool,
the gateway classifies with the buckets of the QoS manager, discovery, healing and
relaying work on one peer table. Those that share nothing are explored one after
another: `focus`, chosen at the start and never changed, says whose actions are
taken, with the others at rest. That checks each of them in full and leaves out
only the product of activities that cannot see each other. In the mesh, where they
do meet at the table, each group sees the others as additions, moves and removals
of peers, which it has as actions of its own (`Hear`, `Roam`, `Forget`, `Leave`).

The properties of the composed runs are gathered by subject (`RationsHold`,
`EverythingEnds`, ...); every conjunct is a named property of one module, stated
there with the lines it is about. Most have mutants of their own in the module,
defined just before the definition they replace; `PROJECT.json` names one per
property of a run.

### AntiReplay

One action per outcome of `Accept`. A call is two steps, because the clock and
the timestamp are looked at before the lock is taken (`Arrive`) and everything
else under it. `sessions`, `maxSeq`, `seenBits`, `latestSeen`, `latestSession`
are the fields of the Go struct; the bitmap is a set of offsets (`ReplayWindow`
justifies that). `count` and `newestTs` are history. A rejected duplicate moves
`latestSeen` and `latestSession` as the code does. With no arbiter, as `main.go`
builds it, `TrackerQuota` is simply large; the run takes a quota that is met.

Run *antireplay* (1.9 million states): two goroutines, one origin, three
session identifiers (0 stands for "no session yet") for two trackers, numbers 0,
1 and 3 over a window of two positions, a clock that runs past the jitter
allowed.
`DeliveredOnce`: no number twice in a session. `WindowExact`: a bit is set
exactly if its number was delivered. `NoLateOldSession`: an older session is not
heard once a newer one delivered a newer timestamp. `StreamsAreWindows`:
refinement to `SlidingWindow` for every stream. The window of two positions
reaches every case of the code: jump inside the window, by its size, and beyond;
late inside, at the edge and outside. Word boundaries are the subject of
`ReplayWindow`.

### ReplayWindow

A word is the set of its one bits; shifts drop what leaves the word. The in-place
loops are recursive functions of the rounds that are done, in the order of the code
(`WordRounds`, `BitRounds`). In run *node_core* it has three words of two bits,
so that carries cross two boundaries, and numbers that jump by every distance below
the window, by its size and beyond. `WindowIsExact` joins `BitmapExact` and
`ShiftsAgree` (the l0 and l1 shifts are the same function); `ImplementsWindow`
(in `ImplementsPromises`) is the refinement of `SlidingWindow`.

### ZTNAFirewall

The four critical sections of `eval` are four actions (cache, purge, policy,
store) and `Decide` is the stretch between the last two, where `defaultDeny` is
read without a lock. Administrative calls are atomic and empty the cache. An
entry remembers (`raced`, history) whether the book changed under it.

Run *firewall* (2.7 million states): two evaluators, two policies of which one
expires, the cache lifetime and the clock long enough for entries, policies and
purge to expire in every order. `CacheCoherent`: an entry nobody overtook is
what the book says. `AcceptJustified`: an accept is at most one cache lifetime
plus one evaluation out of date. `MaxStall` bounds how long an evaluation takes;
only this property depends on it.
Run *firewall_revoked*: the strict reading of
`interfaces/security.go:52` fails, see the findings.

### PQCSession

A session key is the attempt and the KEM key pair that opened it; opening with
another pair yields another key, as ML-KEM does. `HandleHandshakeRespPacket` is
two actions, for its two locks. Nodes restart and lose sessions, attempts and
keys. In run *node_core*: two nodes that may both initiate, three attempts, a
restart of each, a clock that passes `HandshakeLifetime`. `KeyConfirmed`: what an
initiator installs its peer has installed. `StepsAreLegal` holds
`InitiatorNeverRegresses` and `NoLateInstall`: no session from an attempt older than
its lifetime, at either end. That a *responder* may go back to an older attempt (an init is repeated
within 60 s) is what the code does and no property denies it.

### NodeDatapath

A sender and a receiver with a network that keeps every packet. The loop files a
packet under the session it has at that moment (`SlotOf`), so one packet meets
different windows; the filter is used through `AntiReplay`'s theorem (one accept
per slot) and may refuse more. Run *node_datapath* (2.5 million states): two
attempts, two payloads, a restart on either side. `OpenedOnce`: a sealed payload
is injected once at most, which needs the filter, the window per session and the
key all together. `RawOnlyAfterRestart`: ciphertext is injected uninterpreted
only by a receiver that has restarted. `NumbersHandledOnce`: what is recorded is
recorded for good, and the records of one packet type, session and run of the receiver
are a stream of `SlidingWindow`, every record of a numbered packet being a `Deliver`
of it; so the loop keeps the promise of the filter it goes through, until it restarts.
(The window there is as wide as the numbers: that old numbers are refused is the
subject of *antireplay*.) Run *node_captured*: a captured init is
answered again, see the findings.

### VersionManager

Each system call of an update, a confirmation and a rollback is a step; each may
fail, and the process may die after each. Files are absent, or whole, cut or
forged with a version. In run *maintenance*: three updates, two failing calls,
three deaths. `UpdateCanBeUndone` holds `Recoverable`: a whole binary is left,
unless renaming a backup back has failed; and `BackupIsRunning`: the first update of
a process can be undone to what runs. `NeverOlder`. A second update before a
restart replaces the backup; the property says "first" because of that
(hazard at line 271).

### Supervisor

Each command is a process that loads `estado.json`, and every save writes its
whole copy back. Checking the lock and writing it are two steps; a file that
another process is writing may not parse and then stands for the default,
mode STOP. Processes may be interrupted or killed anywhere. Runs *maintenance*
(any three commands) and *supervisor_paused*. `Exclusion`:
two processes are in the cycle together only if two found the lock free within
the same instant (the history variable `overlap` records that). `GivesUp`: at
most `MaxFallos` failures in a row. `StopEnds` (liveness): a STOP given to a
sleeping daemon ends it, unless somebody saves an older file over it.

### KleinbergRouter, Discovery, LinkHealing, MeshRelay

`rings` and `peerIndex` of the Go struct are both kept, because a peer is one
object reached through two structures. `AddOrUpdatePeer` is four actions, one
per way out of the method: known peer, full ring with somebody to replace, full
ring without, and appended, with an eviction first when the table is full.
Scores and latencies are scaled to whole numbers. Keys are sets of bits, and the
ring of a peer is the position of the highest differing bit as in the code.

The rendezvous in `Discovery` keeps the topics our beacon is stored under in memory and the
topics recorded as published. They differ when the substrate fails after the
memory was written (`blind_store.go:193-196`, `blind_rendezvous.go:130-136`):
the purge then leaves that beacon. Beacons on the substrate cannot be deleted at
all (`blind_store.go:175-177`). The engine makes each call of `executeCycle` a
step, and its plan is the list of what is left to do: between two of them the receive loop, the administrator and health reports
change the router and the policies. A beacon of two endpoints notifies twice.

`LinkHealing` runs the prober over a copy of the table, with datagrams that are
lost, late or echoed more than once, and endpoints that stay those of the first
probe. `MeshRelay` has a table per node; a relay sends a packet on as it is.

`MCMeshControl` composes them; `focus` picks *router* alone with both limits
tight, *discovery* (router, rendezvous, engine, loop), *healing* (router, healer,
prober, network) or *relay*. In this program `UpdatePeerHealth`, `RemovePeer`, the healer and the prober are reached through
tests and the library interface only; `main.go` starts the discovery engine.

Run *mesh_control* (640 thousand states): five DIDs for a table of two places in
two rings of two; two peers that share an address, one of them in the keystore;
beacons found or not; health reports good and bad; three relays, two packets, a
destination nobody knows, and a node that finds all its peers out of reach.
The limits are as small as makes every eviction happen, and one more peer than
places in both. `PeerTableHolds` joins `RingsConsistent`, index and rings hold the
same peers, and `CapBounded`: `MaxTotalPeers` is soft, and this is how far the table
goes beyond it. `GoodPeersYieldLast`: a good peer leaves a full ring only for a faster one
and only if no other is bad. `PurgedUpToFailures`: with the breaker open no
beacon of ours is kept but those a failed publication left. `TrustIsExplicit`:
a policy comes from the keystore or an administrator, never from a beacon. The
keystore is authorised afresh in every cycle, so revoking one of its peers does
not last (`autonomous_discovery.go:271`). `HoldDownHolds`, `CountsAgree`: hysteresis
of the healer, and that it counts the losses the prober counts. `LocatorsChain`:
addresses learned from relayed packets can be followed hop by hop.
`IsolationEndsSilence` and `NumberedPacketsEnd` are liveness.
Run *relay_returns*: see the findings.

### PacketPipeline

The automaton is written twice in the code, as a table callers may ask and as the
function that resolves events; `MovesAreAllowed` (in `StepsAreLegal`) compares the
two on every step a node can take. The one exception, a threat found while
disconnected, is named in the property. Two workers take buffers out of the pools, or oversize ones,
fill them, run the four stages and give back what is left; a packet may be
cancelled, refused by a stage, or go to a dead-letter handler that keeps it.
`BuffersHaveHolders`: a buffer has as many references as holders, lies in its pool
once or not at all, and is not written while somebody reads it. `HistoryIsAChain`
(in `RegistersAreHonest`): the bounded history of modes is a chain into the present.

### QoS, Gateway, batcher, renewal of keys, CookieAdmission

`Gateway` takes every method of the component gateway over bounded channels; a
broadcast that finds a channel full drops its event. `RegisteredChannelsAreOpen`:
what the gateway writes to is never closed. `RestHasAReason`: a suspended component
is switched off, an idle one has not been heard of. `TrafficIsPaidFor` bounds what a
DID gets through by tokens and solved challenges; `MemoryBooksBalance` the quotas
under right and wrong releases. A caller of the cookie generator takes five atomic
steps, and `CookiesAreRationed` bounds what a bucket gives away although callers are
overtaken between the swap of the time and the refill. `EveryPacketOnce` and
`NothingLeftBehind`: three goroutines push, flush and close one batcher. `ImplementsQueue` (in
`ImplementsPromises`): the batcher implements `PacketQueue`. The lock is dropped between
the removal of a batch and the call of its handler, so that lots overtake each other;
but each is a run of consecutive packets, of at most `MaxBatch`, handed over once, and a
closed batcher accepts nothing.
`KeyUseIsBounded` (end of `PQCSession`): no key seals more than its limit and one packet for each
goroutine under way, though the counters are outside the lock and `Rotate` does not
ask again.

Run *node_core* (620 thousand states) has all of these with `ReplayWindow` and
`PQCSession`: two workers over two buffers, two subscribers with channels of one
event, three pushers and four packets for batches of two, three keys of two packets,
two callers for one bucket of cookies over three seconds.

### Goroutines of MCNodeServices

* `TunRouter`: a write looks at the flag, then sends; a close sets the flag, then
  closes both channels. The process can panic there and the model has that outcome
  (`tunPanic`). `ReaderEnds`: a router that is closed ends its reader, unless the
  panic comes first.
* `StreamProxies`: a stream from accept to the end of both copies, for the SOCKS5
  and HTTP proxies, the bridge to a device and the exit. `StreamsAreCounted` on
  every path; `StreamsEnd` for proxy and bridge. The exit is not in it: it closes
  nothing towards its client, so an idle client keeps it (`egress_forwarder.go:112-130`).
* `NatPunching`: two nodes, two punches, a network that repeats and delays, and
  translators that let in only what was asked for. `PunchIsMutual`: a success is
  reported only if a probe of this very punch went through. `ProbersEnd`.
* `NetworkProbe` and the padding of `OnionRelay`: a flag is swapped, then a channel
  is made or closed, and loops look at the channel anew each time. `ProbeLoopsEnd`,
  `PaddingEnds`: off for good means no loop in the end. `IncidentsAreUnique`. Calls of
  `SetActive` come one after another, as in its only caller, a test; the code itself
  would not keep two apart.
* `PanelSwitch`: requests side by side, failing commands, an exit at any moment.
  `PanelSettles`: no transient state stays, and a request that ran alone shows what
  is so. `ProxyIsRestored`: the desktop gets its connection back, once an activation
  has got as far as its watchdog.
* `ContainerAdapter`: writers under the read lock, readers outside it, one deadline
  for the whole socket. `CloseEndsAll`: a close goes through and ends every reader,
  also one whose deadline another has taken away.

### Tables and guards of MCNodeServices

* `MobilityAnchor`: `LeapsAreSigned` (a binding leaps far only to a number its node
  has signed), `ResyncBudgetHolds`. The name of an epoch is taken modulo
  `EpochNames`, as the code takes one byte of it.
* `SilentDispatch`: `SlotsMatchCalls`, and `BucketsAreBounded` by what the unlocked
  refill can give away: callers that read the same old time each fill the bucket, and
  a late one stores an old time, so that n goroutines let up to n(n+3)/2 buckets
  through in 100 ms. The bound is met.
* `EgressSelection`: `GatewayIsUsable` after every evaluation, or chosen recently.
* `PartitionGuard`: `SafeOnlyAfterStability`.
* `KademliaTable`: `TableIsOrderly`, `HeldIsFound`, `OldContactsStay`; identifiers of
  three bits, of which five fall into the two buckets of two places that overflow.
* `PlanetaryMesh`: `IntactMeshRoutes` over seven nodes in a grid of three by three
  that is not full, with shortcuts that lead anywhere.
* The books of `PlanetaryMesh`: `GivingNeverHurts`. `AnomalyTable`: `EventsAreCounted`.
* `DelegatedIdentity`: `TierNeverRises` along a chain, `RevokedKeysStayOut` of
  validations that overlap the revocation.
* The devices of `DelegatedIdentity`: `DeviceTablesAgree`. The resolver of
  `StreamProxies`: `AddressesAreRecent`, whatever is stored late over something newer.
* The relay cache of `OnionRelay`: `CopiesAreRefused`, with the exception of a tag
  that stands twice in the order of arrival.

Run *node_services* (some 135 thousand states) has all of these. Every limit is one or
two and one less than what asks for it, so that each is met and passed; clocks run
past every lifetime once.

### Fairness and symmetry

`Supervisor`, `MCMeshControl`, `MCNodeServices` and `AnomalyTable` have liveness.
For the mesh, weak fairness of `Engine` says that the discovery goroutine runs and
its ticker ticks while it is not stopped; weak fairness of handling numbered packets
says that a datagram arrives or is lost and that the receive loop runs. For the
supervisor it says that the operating system runs every process and that a sleep
ends; launching, interrupting and killing are not fair. For the services: a
goroutine that can go on does; a call with a deadline, or on a closed socket,
returns; the side of a stream whose peer is gone gets its error. A loop waits in a
`select` over its ticker and its channel: Go picks a ready case at random, so a loop
whose channel is closed ends after finitely many rounds (strong fairness of
`EndLoop`, `EndPadding`). Clients, peers, administrators, users and the clock are
never fair. For `AnomalyTable`, each task goes on while its lock lets it.

Workers, buffers, evaluators and nodes are interchangeable and declared symmetric;
no run with a liveness property uses symmetry. Deadlock checking is off where
clocks, restarts, attempts or packets are bounded, so that the model, not the
program, stops.

## 3. Findings

Runs that end in a violation:

* A revocation can be overtaken by an evaluation in flight and be without effect
  for up to 30 s (*firewall_revoked*; `firewall.go:257`).
* A captured `HandshakeInit` sent again is answered again, against the comment of
  `session_adversarial_test.go:136` (*node_captured*; `main.go:200`).
* PAUSE and SAFE are not seen by a running daemon, which also overwrites them
  (*supervisor_paused*; `supervisor.py:202`).
* Forwarding described as greedy towards the destination (`routing.go:245`) sends
  a packet back to where it came from; there is no hop limit, and a packet in the
  clear has sequence 0 and passes the filter by, so nothing stops it
  (*relay_returns*; `main.go:271`).
* A recording "in time O(1)" waits for good when a summary takes its read lock twice
  around it (*anomaly_recording*; `anomaly_fingerprinter.go:191`).

Observed while modelling, in the models as the code has it, and without a run of
their own:

* *Replay*: a packet rejected as a duplicate has already moved the newest timestamp
  of its origin (`anti_replay_session.go:124`); session identifiers are hashes but
  compared as if they grew (92); trackers never leave and their quota never returns (98).
* *Mesh*: the jitter of the prober is always zero, because the last round trip is
  overwritten before the difference is taken (`wan_active_prober.go:197,208`); its
  Start, Stop, Start leaves a closed channel that ends the second loop, and a second
  Stop panics (76-89).
* *Gateway*: a failover writes to the address of the peer that degraded while the
  event names the other (`gateway.go:293-303`, 321); a heartbeat activates a disabled
  component (163-175); a second `SubscribeEvents` of one subscriber orphans its first
  channel.
* *Pipeline*: the QoS stage evaluates everything in the control class and never
  throttles (`pipeline_stages.go:143`, `qos.go:137`).
* *Proxies*: Stop, Start, Stop closes `quit` twice (`socks5_gateway.go:85-92`); a half
  close of either side ends the whole stream (267-280).
* *Devices*: a stream checks the ports of the record it found and then dials the
  address the record has by then (`shadow_device.go:157-174`).
* *Panel*: overlapping connect and disconnect leave a shown state that is not the
  setting; a reconnect that fails shows "disconnected" with the proxy on; a crash
  before the watchdog starts leaves the proxy on (`platform_windows.go:105-114`).
* *Tables*: the DHT never promotes a replacement; a route that arrives exactly at
  `maxHops` is called unreachable; `SlashPeer` is undone by the next packet
  (`accounting.go:103-132`, 158-161); quarantine and denial in the middle of a chain
  do not attenuate what follows (`delegation.go:107`).
* *Resolver*: a full cache is thrown away even to refresh a host it has, and an answer
  in flight survives `ClearCache`.
* *Onions*: `PeelLayer` can peel nothing the builder makes (`pqc_hybrid.go:196`).
* *Containers*: the length of a tag is one byte on the wire and is not tested
  (`i7_adapter.go:143`); a receive without a timeout takes away the deadline of one
  that has one (94-99).

## 4. Proofs

`PROJECT.json` lists the theorems. Every safety invariant, action property and
refinement that a passing run checks is proved for all values of the constants
(`PROJECT.json` names the theorem of each); what is left to TLC is liveness. The
assumptions are the named `ASSUME`s of the modules: numbers are naturals, capacities
are at least one where the code's are, the sets of goroutines, peers and messages whose
members are counted are finite, and these say more:

* `HopFactor >= 3` (`PlanetaryMesh`; the code has 4): the detour round the end of a last
  row that is not full makes two hops each side of the grid too few. `GridDim` is the
  root of `NodeCount` rounded up, as the code computes it, and there are four nodes.
* `ContainerMTU >= 8` (`ContainerAdapter`; 1280): a datagram holds the fixed header.
* `TagLife >= 1` and cache sizes of at least one (`OnionRelay`, the resolver).
* `Words`, `WordBits >= 1` (`ReplayWindow`; 16 and 64).
* `Cardinality(Punchers) = 2` (`NatPunching`): a punch has two ends.

Each theorem is `Spec => []Inv` (or `[][A]_vars`) by an invariant that implies the
property and is inductive; its steps have one case per action. The invariants below were
checked by TLC on the run of their module before they were proved, but for those of the
types alone. A `LEMMA ...Holds` gives each of them as a result of its own, so that
theorems about a composition only join them. In the compositions a first lemma says that
a step is a step of one component or leaves all its variables alone.

### The filter and the window (`AntiReplay_proofs`, `ReplayWindow_proofs`)

`DeliveredOnce` is not inductive: a step can see only the bitmap, so nothing forbids a
second delivery of a number whose bit is clear. `IInv` joins it with `WindowExact`, by
which a clear bit inside the window means "not delivered"; what is below the window is
never looked at. `CrossSession` needs `LatestInv`: what a session has delivered is not
newer than `latestSeen` of its origin, and its identifier is not above `latestSession`.
`Refinement` maps each delivery to `SlidingWindow!Deliver` of its stream and every other
step to a stutter.

The loops of `shiftLeft` write in place and are recursive functions of the rounds done.
Their value after n rounds is given in closed form and proved by the set of rounds for
which it holds; from it, bit i of the result is bit i minus the jump of the operand, for
any number of words of any width. `WindowInv` then joins `BitmapExact` with "nothing
above the highest number was accepted", and `WindowIsImplemented` is the refinement.

### Firewall and datapath (`ZTNAFirewall_proofs`, `NodeDatapath_proofs`)

`CoherentInv`: besides the cache, `FlightCoherent` says what an evaluation that nobody
overtook carries between its locks. `JustifiedInv` bounds ages: notes lie in the past, a
flight is at most `MaxStall` old, and what it carries and what is cached was permitted
when the flight began; a policy that permits has permitted since it was made.

`NumbersAreFiled`: a numbered record of the present run has its slot of the filter taken,
whatever became of the packet. So a second record of a slot is impossible before a
restart, `RecordsAreApart`, and every record is a step of its stream
(`ReceiveLoopIsWindows`). A captured init is numbered, so two records of it in one run
differ in the session: it is answered at most once per session (`CapturedInits`).

`DatapathInv`: a number is used by one packet because the counter is never behind what was
attempted and sent (`CounterLags`); a sealed payload is in one packet under a key the
receiver answered with (`PacketsAreSealed`), answers belong to the run of the receiver
(`AnswersAreKept`), and an opening keeps its slot of the filter for the rest of the run
(`OpeningsAreFiled`). A second opening would need the same slot again or a dead key.

### Maintenance (`Maintenance_proofs`)

`SupervisorInv`: without an overlap, who is about to write the lock is alone, and who is
inside owns it; failures seen are in the count a process saves. `VersionInv`: what the
temporary, active and backup files may be at each system call of an operation.

### The mesh (`MeshControl_proofs`)

`RouterInv` adds to `PeerTableHolds` that every ring is a sequence without repetition of
the peers of its distance (`RingHolds`); the same invariant proves `GoodPeersYieldLast`.
`TrustInv`: a plan has calls of trust only for the keystore. `HealingInv` ties links,
probes and counters. `RelayInv`: a packet under way can be traced back through the tables
(`Traceable`), which is what makes the next locator learnt from it chain. `Footprints`: a
node that has relayed a numbered packet has it in its filter, unless it sent it. With it
two things are proved that the runs only suggest: what is left of the claim that
*relay_returns* refutes (`ReturningPacketsStop`: a numbered packet that comes back is
refused, but at its origin, which never asked its filter about it), and the safety part of
`NumberedPacketsEnd` (`HopsAreNumbered`: every hop after the first uses up a node whose
filter had not seen the packet, and filters do not forget, so there are no more hops than
nodes).

### The node (`NodeCore_proofs`)

* `SessionInv`: attempts are numbered and dated by who signs them, an answer is to a
  signed attempt and names the responder's key, and the responder has installed it. That
  gives `KeyConfirmed`, and with it the three action properties of `StepsAreLegal`.
* `FSMInv`, `RegisterInv`: the registers and the channels they lead to.
* `QoSInv`: what a DID got through plus the tokens left is at most what burst, time and
  solved challenges gave. `CookieInv` does so for steps that race: callers that have
  swapped the time and not yet filled the bucket (`Filling`) are counted as a burst each.
* `KeyInv`: what is counted under the current key beyond its limit less one was counted
  by goroutines that have sealed and not left since (`Reporting`), so n goroutines
  exceed the limit by n - 1 packets at most.
* `BuffersInv`: the references of a buffer are the cardinality of its carriers and
  retainers, and idle ones have none.
* `BatcherInv`: every number is in the batch, or with one goroutine, or handled.
  `RunsInv`: the batch ends with the packet accepted last, and what a goroutine has taken
  is a run of consecutive numbers; with both, every step of the batcher is a step of
  `PacketQueue` or a stutter (`TheQueueIsImplemented`).
  `ArbiterInv`: what is allocated is the number of bytes held.

### The services (`NodeServices_proofs`)

* *Earned standing lasts*: `AnchorInv`, `TransitInv` (a tier follows from the books or is
  a punishment), `KademliaInv`. The conditions of the tiers overlap and the first
  that holds counts; courtesy does not depend on what a peer gave, so giving more only
  moves it to an earlier one.
* *Reports are true*: `GuardInv` (recovery began after the last bad moment), `EgressInv`,
  `NatInv` (`MessageHolds`: a probe is on its way from the owner of its punch, an answer
  to the owner is earned by a probe that arrived), `PanelInv` (a transient state belongs to a
  request under way; a request alone has what it set), `DNSInv` (an answer is right no
  earlier than it was asked for).
* *Counters agree*: `SilentInv`, `StreamsInv`, `ProbeInv`, `TableInv` (the total and
  those that have added to an entry and not yet to the total).
* *Rations hold*: `BudgetInv`, `DelegationInv` (a validation that has looked at a key
  looked before it was revoked), `RelayCacheInv` (`InItsPlace`: a tag taken in stands in
  the order as many places from its end as were taken in since). `RationInv` is a
  potential: twice the calls answered and tokens left, and `Limit` for each turn to
  refill that is still to come, are at most `Limit * n * (n + 3)` for n callers. Turns
  are counted from the callers that may fill now (`CallsComing`) and those whose time is
  out of date (`CallsBehind`). Or all of them are both, and nobody was answered yet.
* *Tables agree*: `OrderInv` (buckets and replacements hold the right prefix, the latest
  version, nobody twice, and nobody waits where there is room; `FindClosest` then
  begins with whoever is asked for, as distances by XOR are injective), `ShadowInv`,
  `PlanetInv` (`Ahead`: every hop goes strictly nearer, and the nodes of the path with the
  steps left in the two directions are at most twice the side of the grid less one, or
  that side twice for a path that has been round the end of the last row: only there is
  no neighbour along the longer side of the difference).
* *Types*: `ServicesTypes` needs of the services what their capacities rest on. A call of
  `SetActive` that is under way has room for its channel, or has one to close
  (`SwitchHolds`); a full resolver cache is emptied before it is added to (`CacheFits`);
  slots are as many as calls; a goroutine that reads holds as many locks as it has taken
  (`LocksAreHeld`); whatever a frame is taken for after its tag length lost its high bits
  fits in the datagram the frame came in (`AdapterInv`).
* *Ends*: the part of `EverythingEnds` that is safety, in two theorems.
  `NobodyStaysBehind` says that whoever must act for an end can: a stream that lost a
  side has a copy whose read fails, because a copy that has ended closed what it wrote
  to (`HandedOver`); a router that is off is being closed or has both channels closed
  (`CloserInv`); of the channels of a probe only the last can be open, and only while the
  probe is on or its call of `SetActive` is under way (`ChannelsInv`), and a loop is busy
  with exactly one audit that has not ended (`AuditsInv`). `EndsAreApproached` says that
  nothing undoes it: copies are not begun again, what is closed stays closed, an ended
  loop does not come back, and the reader of a closed router has at most three steps
  left, fewer after each. Here one lemma sorts all steps of the proxies by what they do
  to a stream (`EveryStreamMoves`: serve it, let it down, run it down).

### Only model-checked

The liveness properties `StopEnds`, `IsolationEndsSilence`, `NumberedPacketsEnd` and
`EverythingEnds`, and the runs that end in a violation: the provers have neither fairness
nor ENABLED. Their safety parts are proved: `HopsAreNumbered` and `ReturningPacketsStop` for
`NumberedPacketsEnd`, `NobodyStaysBehind` and `EndsAreApproached` for `EverythingEnds`.

## 5. Not modelled, and the plan

Every component and its status is in `PROJECT.json`. Left out, with the reason:

* pure functions over bytes: the Noise and KEM arithmetic, wire formats, the Sphinx
  builder, TLS masquerading, advertisements and beacons. Their correctness is not
  about interleaving or state; the models use what they promise.
* exchanges with outside servers and devices: STUN, UPnP, the HTTP beacon store,
  native TUN devices, the XDP loader, probe detectors.
* libraries nothing uses and whose state no property tells apart: the multipath
  scheduler, pacing, the telemetry ring, `selectAlternativePeerLocked`.
* operations that only set parameters before use (`SetLimits`, `Configure...`,
  `Set...Callback`): the constants of the models.
* the web server but for the requests that change the proxy setting or the binary,
  logging, installers, SDKs, WASM, audit scripts.
* the transaction journal of `pipeline_src.py` cannot run, because the name of its
  file is not defined.

What the plan has left:

1. Abstract specifications for more components, with their refinement: a policy book with
   answers of bounded age for `ZTNAFirewall`, a lock with readers and one writer for
   `AnomalyTable`.
2. The same safety parts for `StopEnds` of the supervisor and for the punches of
   `NatPunching`: that a goroutine which has stopped is not waited for.
