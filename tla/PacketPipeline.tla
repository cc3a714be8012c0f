--------------------------- MODULE PacketPipeline ----------------------------
(* How a node works on the packets it receives: the automaton and modes of    *)
(* the node, the line of stages over pooled buffers that drives it, and the   *)
(* batches that packets are gathered in.                                      *)
EXTENDS Integers, Sequences, SequencesExt, FiniteSets

(***************************************************************************)
(* The automaton.                                                          *)
(***************************************************************************)
\* The life cycle of a node (src/src/pkg/core/fsm.go) and its operating mode
\* (core/operating_modes.go). The automaton is written down twice in the code:
\* as the table of transitions allowed, which callers may ask, and as the
\* function that resolves an event, which is what really moves the node.
\*
\* Both are guarded by a lock of their own, so every call is one action.

CONSTANTS
    MaxHistory      \* mode changes remembered (32 in the code)

FSMAssumption == MaxHistory \in Nat \ {0}

ASSUME FSMAssumption

NodeStates == {"Disconnected", "Syncing", "Validating", "Active", "Quarantined"}
FSMEvents == {"NetworkSignal", "SyncCompleted", "DIDVerified", "HeartbeatLost",
              "SecurityThreat", "Reset"}
Modes == {"OPEN", "SAFE", "DEGRADED"}

VARIABLES
    node,           \* currentState
    mode,           \* currentMode
    changes         \* the mode changes remembered, oldest first

fsmVars == <<node, mode, changes>>

FSMTypeOK ==
    /\ node \in NodeStates /\ mode \in Modes
    /\ changes \in Seq(Modes \X Modes) /\ Len(changes) <= MaxHistory

\* The modes begin open unless the caller names another.
ModesInit == mode = "OPEN" /\ changes = <<>>

FSMInit == node = "Disconnected" /\ ModesInit

\* isTransitionAllowed.
Successors == [
    Disconnected |-> {"Syncing"},
    Syncing      |-> {"Validating", "Disconnected", "Quarantined"},
    Validating   |-> {"Active", "Disconnected", "Quarantined"},
    Active       |-> {"Syncing", "Disconnected", "Quarantined"},
    Quarantined  |-> {"Disconnected"}]

CanTransitionTo(from, to) == from = to \/ to \in Successors[from]

\* resolveNextState: the events of a state that are not refused.
Resolved(from, event) ==
    CASE event = "Reset" -> {"Disconnected"}
      [] event = "SecurityThreat" -> {"Quarantined"}
      [] event = "NetworkSignal" /\ from \in {"Disconnected", "Active"} -> {"Syncing"}
      [] event = "SyncCompleted" /\ from = "Syncing" -> {"Validating"}
      [] event = "DIDVerified" /\ from = "Validating" -> {"Active"}
      [] event = "HeartbeatLost" /\ from \in {"Syncing", "Validating", "Active"} -> {"Disconnected"}
      [] OTHER -> {}

\* An event that is refused leaves the state as it is; hooks observe and change nothing.
TriggerEvent(event) ==
    /\ node' = IF Resolved(node, event) = {} THEN node
               ELSE CHOOSE s \in Resolved(node, event) : TRUE
    /\ UNCHANGED <<mode, changes>>

\* Mutant: the oldest change is not dropped.
RememberedAll(change) == Append(changes, change)

Remembered(change) ==
    IF Len(changes) >= MaxHistory THEN Append(Tail(changes), change) ELSE Append(changes, change)

SetMode(m) ==
    /\ mode # m
    /\ changes' = Remembered(<<mode, m>>)
    /\ mode' = m
    /\ UNCHANGED node

FSMNext ==
    \/ \E e \in FSMEvents : TriggerEvent(e)
    \/ \E m \in Modes : SetMode(m)

(***************************************************************************)
(* Properties.                                                             *)
(***************************************************************************)

\* The two descriptions of the automaton agree on every move a node makes, whoever sends the
\* events and in whatever order: a move resolved is a move allowed (fsm.go:39-63, 86-126). The
\* one exception is a threat found while disconnected, which the table does not foresee.
MovesAreAllowed ==
    [][CanTransitionTo(node, node') \/ (node = "Disconnected" /\ node' = "Quarantined")]_node

\* The remembered changes of mode are a chain that ends in the present one, also after the
\* oldest have been dropped (operating_modes.go:70-81).
HistoryIsAChain ==
    /\ \A i \in 1 .. Len(changes) - 1 : changes[i][2] = changes[i + 1][1]
    /\ changes # <<>> => Last(changes)[2] = mode

(***************************************************************************)
(* The assembly line.                                                      *)
(***************************************************************************)
\* The assembly line of received packets: pooled buffers with a count of
\* references (src/src/pkg/l1/buffer_pool.go), the line of stages and its
\* dead-letter handlers (core/pipeline.go) and the four stages of a node
\* (core/pipeline_stages.go), which drive its automaton.
\*
\* A worker takes a buffer, reads a packet into it, wraps it in a context,
\* executes the line and gives back what the line has left in the context. A
\* step of a worker is one stage, because every stage locks what it uses by
\* itself; the topology stage locks three things one after another. A context
\* belongs to one worker from acquisition to release and is blank in between.
\*
\* The firewall is the set of DIDs it accepts at the moment. The stage of the
\* quality of service evaluates every packet in the control class, which is
\* never throttled (pipeline_stages.go:141, qos.go:137): it lets all pass.

CONSTANTS
    Workers,
    Buffers,        \* the buffers that can come to exist
    Origins,        \* DIDs
    Sizes,          \* levels of the pool asked for, of 0 .. 3
    NoBuffer,
    MaxRetained     \* bound of the model

PipelineAssumption ==
    /\ MaxRetained \in Nat /\ Sizes \subseteq 0 .. 3 /\ NoBuffer \notin Buffers

ASSUME PipelineAssumption

\* Level 3 stands for the sizes beyond the largest pool: such a buffer is never pooled.
Oversize == 3

Stages == <<"decode_cbor", "ztna_filter", "qos_filter", "topology_fsm">>

\* A roaming update may carry a false signature; a corrupt packet has no known source.
Datagrams == [kind : {"data", "roaming", "forged"}, src : Origins]
             \cup [kind : {"corrupt"}, src : {"nobody"}]

\* What is in a buffer of length zero.
Blank == [kind |-> "blank", src |-> "nobody"]

VARIABLES
    level,          \* buffer allocated -> its level
    idle,           \* buffer -> how many times it lies in its pool
    refs,           \* buffer -> refCount
    content,        \* buffer -> the packet in it
    retained,       \* references held beside the line: pairs of a buffer and its packet
    work,           \* worker -> what it is doing
    built,          \* stages the line has so far
    trusted         \* DIDs the firewall accepts inbound

poolVars == <<level, idle, refs, content>>
pipelineVars == <<poolVars, retained, work, built, trusted, fsmVars>>

Idle == [at |-> "idle"]

Jobs == {Idle} \cup
    [at : {"stage", "update", "signal", "verify", "done"}, datagram : Datagrams,
     buf : Buffers \cup {NoBuffer}, next : 1 .. Len(Stages) + 1, last : 0 .. Len(Stages), handled : BOOLEAN]

PipelineTypeOK ==
    /\ FSMTypeOK
    /\ DOMAIN level \subseteq Buffers /\ \A b \in DOMAIN level : level[b] \in Sizes
    /\ idle \in [Buffers -> 0 .. 2] /\ refs \in [Buffers -> Int]
    /\ \A b \in Buffers : content[b] \in Datagrams \cup {Blank}
    /\ retained \subseteq Buffers \X Datagrams
    /\ work \in [Workers -> Jobs]
    /\ built \in 0 .. Len(Stages) /\ trusted \subseteq Origins

\* NewBufferPool: the pools are empty, and make a buffer when they have none to give.
PoolInit ==
    /\ level = [b \in {} |-> 0] /\ idle = [b \in Buffers |-> 0] /\ refs = [b \in Buffers |-> 0]
    /\ content = [b \in Buffers |-> Blank]

PipelineInit ==
    /\ FSMInit /\ PoolInit /\ retained = {}
    /\ work = [w \in Workers |-> Idle]
    /\ built = 0 /\ trusted = {}

(***************************************************************************)
(* The pool.                                                               *)
(***************************************************************************)

\* Acquire: an idle buffer of the level, or a new one if the pool has none; what is beyond the
\* largest level is always new.
Available(size) ==
    LET pooled == {b \in DOMAIN level : idle[b] > 0 /\ level[b] = size}
    IN  IF pooled # {} THEN pooled ELSE Buffers \ DOMAIN level

Acquire(b, size, d) ==
    /\ level' = [c \in DOMAIN level \cup {b} |-> IF c = b THEN size ELSE level[c]]
    /\ idle' = [idle EXCEPT ![b] = IF b \in DOMAIN level THEN @ - 1 ELSE 0]
    /\ refs' = [refs EXCEPT ![b] = 1]
    /\ content' = [content EXCEPT ![b] = d]

\* Release, with the recycling of a buffer nobody refers to. An oversize buffer is left to the
\* garbage collector, which lets the model use its name again.
Release(b) ==
    LET recycled == refs[b] = 1
    IN  /\ refs' = [refs EXCEPT ![b] = @ - 1]
        /\ idle' = IF recycled /\ level[b] # Oversize THEN [idle EXCEPT ![b] = @ + 1] ELSE idle
        /\ level' = IF recycled /\ level[b] = Oversize
                    THEN [c \in DOMAIN level \ {b} |-> level[c]] ELSE level
        /\ content' = IF recycled THEN [content EXCEPT ![b] = Blank] ELSE content

\* Somebody who was handed the buffer keeps it for longer, and lets go later.
Retain(w) ==
    /\ work[w].at \in {"stage", "done"} /\ work[w].buf # NoBuffer
    /\ Cardinality(retained) < MaxRetained
    /\ <<work[w].buf, work[w].datagram>> \notin retained
    /\ refs' = [refs EXCEPT ![work[w].buf] = @ + 1]
    /\ retained' = retained \cup {<<work[w].buf, work[w].datagram>>}
    /\ UNCHANGED <<level, idle, content, work, built, trusted, fsmVars>>

LetGo(b, d) ==
    /\ <<b, d>> \in retained
    /\ Release(b)
    /\ retained' = retained \ {<<b, d>>}
    /\ UNCHANGED <<work, built, trusted, fsmVars>>

(***************************************************************************)
(* The line.                                                               *)
(***************************************************************************)

\* AddStage: workers under way go on with the snapshot they have.
AddStage ==
    /\ built < Len(Stages)
    /\ built' = built + 1
    /\ UNCHANGED <<poolVars, retained, work, trusted, fsmVars>>

\* Acquire, AcquirePacketContext, and the snapshot Execute loads.
Receive(w, d, size) ==
    /\ work[w].at = "idle"
    /\ \E b \in Available(size) :
          /\ Acquire(b, size, d)
          /\ work' = [work EXCEPT ![w] =
                [at |-> IF built = 0 THEN "done" ELSE "stage", datagram |-> d, buf |-> b,
                 next |-> 1, last |-> built, handled |-> FALSE]]
    /\ UNCHANGED <<retained, built, trusted, fsmVars>>

\* Mutant: the context keeps the buffer that was released.
DeadLetterKeeping(w) ==
    /\ work' = [work EXCEPT ![w].at = "done"]
    /\ IF work[w].buf = NoBuffer THEN UNCHANGED poolVars ELSE Release(work[w].buf)

\* HandleDeadLetter of either handler, the telemetry of one of them left out.
DeadLetter(w) ==
    /\ work' = [work EXCEPT ![w].at = "done", ![w].buf = NoBuffer]
    /\ IF work[w].buf = NoBuffer THEN UNCHANGED poolVars ELSE Release(work[w].buf)

At(w, stage) == work[w].at = "stage" /\ Stages[work[w].next] = stage

\* The stage has no objection: on to the next, or the line is done.
GoOn(w) ==
    /\ work' = [work EXCEPT ![w].at = IF work[w].next = work[w].last THEN "done" ELSE "stage",
                            ![w].next = @ + 1]
    /\ UNCHANGED poolVars

\* The context is cancelled before a stage.
Cancel(w) ==
    /\ work[w].at = "stage"
    /\ DeadLetter(w)
    /\ UNCHANGED <<retained, built, trusted, fsmVars>>

DecodeCBORStage(w) ==
    /\ At(w, "decode_cbor")
    /\ IF work[w].datagram.kind = "corrupt" THEN DeadLetter(w) ELSE GoOn(w)
    /\ UNCHANGED <<retained, built, trusted, fsmVars>>

\* Roaming updates pass: they are what introduces two nodes to each other.
ZTNAFilterStage(w) ==
    /\ At(w, "ztna_filter")
    /\ IF work[w].datagram.kind = "data" /\ work[w].datagram.src \notin trusted
       THEN DeadLetter(w) ELSE GoOn(w)
    /\ UNCHANGED <<retained, built, trusted, fsmVars>>

QoSFilterStage(w) ==
    /\ At(w, "qos_filter")
    /\ GoOn(w)
    /\ UNCHANGED <<retained, built, trusted, fsmVars>>

\* The update of a DID that is not authorised is an error, and so ends as a dead letter.
TopologyFSMStage(w) ==
    /\ At(w, "topology_fsm")
    /\ IF work[w].datagram.kind = "data" THEN GoOn(w)
       ELSE IF work[w].datagram.src \notin trusted THEN DeadLetter(w)
       ELSE work' = [work EXCEPT ![w].at = "update"] /\ UNCHANGED poolVars
    /\ UNCHANGED <<retained, built, trusted, fsmVars>>

\* HandleRoamingUpdate: a false signature is passed over in silence.
HandleRoamingUpdate(w) ==
    /\ work[w].at = "update"
    /\ IF work[w].datagram.kind = "forged" THEN GoOn(w)
       ELSE work' = [work EXCEPT ![w].at = "signal"] /\ UNCHANGED poolVars
    /\ UNCHANGED <<retained, built, trusted, fsmVars>>

\* The two events the stage sends to the automaton; others may come in between.
Signal(w) ==
    /\ work[w].at = "signal"
    /\ TriggerEvent("NetworkSignal")
    /\ work' = [work EXCEPT ![w].at = "verify"]
    /\ UNCHANGED <<poolVars, retained, built, trusted>>

Verify(w) ==
    /\ work[w].at = "verify"
    /\ TriggerEvent("DIDVerified")
    /\ work' = [work EXCEPT ![w].at = "done", ![w].handled = TRUE]
    /\ UNCHANGED <<poolVars, retained, built, trusted>>

\* The worker gives back the buffer the context still has, then the context.
Finish(w) ==
    /\ work[w].at = "done"
    /\ IF work[w].buf = NoBuffer THEN UNCHANGED poolVars ELSE Release(work[w].buf)
    /\ work' = [work EXCEPT ![w] = Idle]
    /\ UNCHANGED <<retained, built, trusted, fsmVars>>

\* An operator authorises or revokes a DID.
Decide(d) ==
    /\ trusted' = IF d \in trusted THEN trusted \ {d} ELSE trusted \cup {d}
    /\ UNCHANGED <<poolVars, retained, work, built, fsmVars>>

Step(w) ==
    \/ Cancel(w) \/ DecodeCBORStage(w) \/ ZTNAFilterStage(w) \/ QoSFilterStage(w)
    \/ TopologyFSMStage(w) \/ HandleRoamingUpdate(w) \/ Signal(w) \/ Verify(w) \/ Finish(w)

LineNext ==
    \/ \E w \in Workers, d \in Datagrams, s \in Sizes : Receive(w, d, s)
    \/ \E w \in Workers : Step(w) \/ Retain(w)
    \/ \E b \in Buffers, d \in Datagrams : LetGo(b, d)
    \/ AddStage
    \/ \E d \in Origins : Decide(d)

PipelineNext ==
    \/ LineNext
    \/ FSMNext /\ UNCHANGED <<poolVars, retained, work, built, trusted>>

(***************************************************************************)
(* Properties.                                                             *)
(***************************************************************************)

\* Who refers to buffer b: the workers whose context has it, and those who retained it.
Carriers(b) == {w \in Workers : work[w].at # "idle" /\ work[w].buf = b}
Retainers(b) == {p \in retained : p[1] = b}

\* A buffer is counted exactly as often as it is referred to, and lies in its pool once if
\* nobody refers to it and not at all otherwise: on no path is one lost, or given back twice
\* and so handed to two workers (buffer_pool.go:63-68, pipeline.go:103-112, 139-143).
BuffersAccountedFor ==
    \A b \in DOMAIN level :
        /\ refs[b] = Cardinality(Carriers(b)) + Cardinality(Retainers(b))
        /\ idle[b] = IF Carriers(b) \cup Retainers(b) = {} THEN 1 ELSE 0

\* Nobody's packet is overwritten while it is being worked on.
BuffersAreStable ==
    /\ \A w \in Workers : work[w].at # "idle" /\ work[w].buf # NoBuffer
                             => content[work[w].buf] = work[w].datagram
    /\ \A p \in retained : content[p[1]] = p[2]

(***************************************************************************)
(* Batches.                                                                *)
(***************************************************************************)
\* Received packets gathered into batches for one handler
\* (src/src/pkg/l0/packet_batcher.go).
\*
\* The lock covers the batch, not the handler: a caller takes the batch away
\* under the lock and hands it over afterwards, so several batches may be on
\* their way at once. A packet is its number; its buffer goes back to a pool
\* when the handler has seen it.

CONSTANTS
    Pushers,        \* goroutines that push, flush or close
    MaxBatch,       \* size at which a batch is dispatched
    MaxPushed       \* bound of the model

BatcherAssumption == MaxBatch \in Nat \ {0} /\ MaxPushed \in Nat

ASSUME BatcherAssumption

VARIABLES
    batch,          \* packets gathered
    pushed,         \* packets accepted so far
    taken,          \* goroutine -> the batch it is about to dispatch, or <<>>
    closing,        \* goroutines that have set the mark and not flushed yet
    sealed,         \* the batcher is marked as closed
    handled         \* packets the handler has seen, in that order

batcherVars == <<batch, pushed, taken, closing, sealed, handled>>

BatcherTypeOK ==
    /\ batch \in Seq(1 .. pushed) /\ Len(batch) < MaxBatch
    /\ pushed \in 0 .. MaxPushed
    /\ \A g \in Pushers : taken[g] \in Seq(1 .. pushed) /\ Len(taken[g]) <= MaxBatch
    /\ closing \subseteq Pushers /\ sealed \in BOOLEAN
    /\ handled \in Seq(1 .. pushed)

BatcherInit ==
    /\ batch = <<>> /\ pushed = 0 /\ taken = [g \in Pushers |-> <<>>]
    /\ closing = {} /\ sealed = FALSE /\ handled = <<>>

Free(g) == taken[g] = <<>> /\ g \notin closing

\* Push of a packet no longer than the MTU; the longer ones and those that come too late are
\* refused and change nothing.
Push(g) ==
    /\ Free(g) /\ ~sealed /\ pushed < MaxPushed
    /\ pushed' = pushed + 1
    /\ LET filled == Append(batch, pushed + 1)
       IN  IF Len(filled) >= MaxBatch
           THEN batch' = <<>> /\ taken' = [taken EXCEPT ![g] = filled]
           ELSE batch' = filled /\ UNCHANGED taken
    /\ UNCHANGED <<closing, sealed, handled>>

\* Flush, called by itself or as the end of Close.
Flush(g) ==
    /\ taken[g] = <<>>
    /\ batch # <<>> \/ g \in closing
    /\ taken' = [taken EXCEPT ![g] = batch]
    /\ batch' = <<>>
    /\ closing' = closing \ {g}
    /\ UNCHANGED <<pushed, sealed, handled>>

\* The handler sees the batch, whatever it returns, and the buffers are pooled again.
Dispatch(g) ==
    /\ taken[g] # <<>>
    /\ handled' = handled \o taken[g]
    /\ taken' = [taken EXCEPT ![g] = <<>>]
    /\ UNCHANGED <<batch, pushed, closing, sealed>>

Close(g) ==
    /\ Free(g)
    /\ sealed' = TRUE
    /\ closing' = closing \cup {g}
    /\ UNCHANGED <<batch, pushed, taken, handled>>

BatcherNext == \E g \in Pushers : Push(g) \/ Flush(g) \/ Dispatch(g) \/ Close(g)

(***************************************************************************)
(* Properties.                                                             *)
(***************************************************************************)

\* Where packet n is: gathered, on its way to the handler, or with it.
Gathered(n) == {i \in DOMAIN batch : batch[i] = n}
OnItsWay(n) == {x \in Pushers \X (1 .. MaxBatch) :
                   x[2] \in DOMAIN taken[x[1]] /\ taken[x[1]][x[2]] = n}
Handled(n) == {i \in DOMAIN handled : handled[i] = n}

\* Every packet accepted is in exactly one place: none is lost or handled twice, however pushes,
\* flushes and closes interleave (packet_batcher.go:102-162). Batches may overtake each other.
EveryPacketOnce ==
    \A n \in 1 .. pushed :
        Cardinality(Gathered(n)) + Cardinality(OnItsWay(n)) + Cardinality(Handled(n)) = 1

\* Once a close has run to its end nothing is left behind in the batch (165-171).
NothingLeftBehind == sealed /\ closing = {} => batch = <<>>

\* The batcher is a queue that hands its packets over once each, in lots of consecutive numbers,
\* although the lock is dropped between a batch's removal and the call of the handler and
\* pushes, flushes and closes of others come in between (packet_batcher.go:78-171).
Queue == INSTANCE PacketQueue WITH accepted <- pushed, seen <- handled, open <- ~sealed
ImplementsQueue == Queue!Spec
==============================================================================
