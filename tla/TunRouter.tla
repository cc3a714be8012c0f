------------------------------ MODULE TunRouter ------------------------------
(* The virtual network interface of a node: the in-memory adapter              *)
(* (src/src/pkg/l1/tun_adapter.go) and the router that reads from it and       *)
(* injects into it (tun_router.go).                                            *)
(*                                                                             *)
(* The adapter is two channels and a flag, which are not changed together: a   *)
(* writer looks at the flag, then sends without waiting; Close sets the flag,  *)
(* then closes one channel and the other. Sending to a closed channel ends the *)
(* process. The reader waits for a packet however long it takes. Packets are   *)
(* alike; what is too short to be routed is one of the outcomes.               *)
EXTENDS Integers, FiniteSets

CONSTANTS
    Injectors,      \* goroutines that inject packets from the mesh
    Capturers,      \* goroutines that put packets of the system into the adapter
    QueueCapacity,  \* packets a channel holds (1024 in the code)
    MaxForwarded    \* bound of the model

TunAssumption ==
    QueueCapacity \in Nat \ {0} /\ MaxForwarded \in Nat /\ Injectors \cap Capturers = {}

ASSUME TunAssumption

Writers == Injectors \cup Capturers

VARIABLES
    routing,        \* the router is on
    cancelled,      \* its context is done
    closedFlag,     \* the adapter's flag
    closedChans,    \* channels closed
    held,           \* channel -> packets in it
    reader,         \* what readLoop is doing
    sending,        \* goroutine -> it has found the adapter open
    closer,         \* how far Close of the router has come
    tunPanic,       \* the process has ended in a panic
    forwarded       \* packets handed to the mesh

tunVars == <<routing, cancelled, closedFlag, closedChans, held, reader, sending, closer, tunPanic,
             forwarded>>

Channels == {"inbound", "outbound"}

TunTypeOK ==
    /\ routing \in BOOLEAN /\ cancelled \in BOOLEAN /\ closedFlag \in BOOLEAN
    /\ closedChans \subseteq Channels /\ held \in [Channels -> 0 .. QueueCapacity]
    /\ reader \in {"check", "enter", "wait", "pause", "ended"}
    /\ sending \in [Writers -> BOOLEAN]
    /\ closer \in {"none", "cancel", "flag", "inbound", "outbound", "done"}
    /\ tunPanic \in BOOLEAN /\ forwarded \in 0 .. MaxForwarded

TunInit ==
    /\ routing = TRUE /\ cancelled = FALSE /\ closedFlag = FALSE /\ closedChans = {}
    /\ held = [c \in Channels |-> 0]
    /\ reader = "check" /\ sending = [w \in Writers |-> FALSE] /\ closer = "none"
    /\ tunPanic = FALSE /\ forwarded = 0

(***************************************************************************)
(* readLoop and ReadPacket.                                                *)
(***************************************************************************)

CheckContext ==
    /\ reader = "check"
    /\ reader' = IF cancelled THEN "ended" ELSE "enter"
    /\ UNCHANGED <<routing, cancelled, closedFlag, closedChans, held, sending, closer, tunPanic,
                   forwarded>>

EnterRead ==
    /\ reader = "enter"
    /\ reader' = IF closedFlag THEN "pause" ELSE "wait"
    /\ UNCHANGED <<routing, cancelled, closedFlag, closedChans, held, sending, closer, tunPanic,
                   forwarded>>

\* handleInboundFromOS: of a packet that is long enough for its version of IP an address can be
\* read, and it is handed to the mesh; nobody hears of the others.
HandleInboundFromOS ==
    forwarded' \in {forwarded, IF forwarded < MaxForwarded THEN forwarded + 1 ELSE forwarded}

\* A packet, or the end of the channel.
ReadPacket ==
    /\ reader = "wait"
    /\ \/ /\ held["outbound"] > 0
          /\ held' = [held EXCEPT !["outbound"] = @ - 1]
          /\ reader' = "check"
          /\ HandleInboundFromOS
       \/ /\ held["outbound"] = 0 /\ "outbound" \in closedChans
          /\ reader' = "pause"
          /\ UNCHANGED <<held, forwarded>>
    /\ UNCHANGED <<routing, cancelled, closedFlag, closedChans, sending, closer, tunPanic>>

\* An error is answered with a short sleep, never with giving up.
Pause ==
    /\ reader = "pause" /\ reader' = "check"
    /\ UNCHANGED <<routing, cancelled, closedFlag, closedChans, held, sending, closer, tunPanic,
                   forwarded>>

Reading == CheckContext \/ EnterRead \/ ReadPacket \/ Pause

(***************************************************************************)
(* InjectFromMesh with WritePacket, and InjectPacket.                      *)
(***************************************************************************)

\* InjectFromMesh goes on to the adapter when the router is on. It does not ask again.
MayInject(w) == w \in Injectors => routing

\* The two checks before the send; a packet too long or too short is refused here too.
FindOpen(w) ==
    /\ ~sending[w] /\ MayInject(w) /\ ~closedFlag
    /\ sending' = [sending EXCEPT ![w] = TRUE]
    /\ UNCHANGED <<routing, cancelled, closedFlag, closedChans, held, reader, closer, tunPanic,
                   forwarded>>

Send(w) ==
    LET c == IF w \in Injectors THEN "inbound" ELSE "outbound"
    IN  /\ sending[w]
        /\ sending' = [sending EXCEPT ![w] = FALSE]
        /\ tunPanic' = (c \in closedChans)
        /\ held' = IF c \in closedChans \/ held[c] = QueueCapacity THEN held
                   ELSE [held EXCEPT ![c] = @ + 1]
        /\ UNCHANGED <<routing, cancelled, closedFlag, closedChans, reader, closer, forwarded>>

\* The operating system takes what was injected.
Consume ==
    /\ held["inbound"] > 0 /\ held' = [held EXCEPT !["inbound"] = @ - 1]
    /\ UNCHANGED <<routing, cancelled, closedFlag, closedChans, reader, sending, closer, tunPanic,
                   forwarded>>

(***************************************************************************)
(* Close of the router, which closes the adapter.                          *)
(***************************************************************************)

BeginClose ==
    /\ routing /\ closer = "none" /\ routing' = FALSE /\ closer' = "cancel"
    /\ UNCHANGED <<cancelled, closedFlag, closedChans, held, reader, sending, tunPanic, forwarded>>

CloseAdapter ==
    \/ closer = "cancel" /\ closer' = "flag" /\ cancelled' = TRUE
       /\ UNCHANGED <<closedFlag, closedChans>>
    \/ closer = "flag" /\ closer' = "inbound" /\ closedFlag' = TRUE
       /\ UNCHANGED <<cancelled, closedChans>>
    \/ closer = "inbound" /\ closer' = "outbound" /\ closedChans' = {"inbound"}
       /\ UNCHANGED <<cancelled, closedFlag>>
    \/ closer = "outbound" /\ closer' = "done" /\ closedChans' = Channels
       /\ UNCHANGED <<cancelled, closedFlag>>

Closing == CloseAdapter /\ UNCHANGED <<routing, held, reader, sending, tunPanic, forwarded>>

TunNext ==
    /\ ~tunPanic
    /\ \/ Reading \/ BeginClose \/ Closing \/ Consume
       \/ \E w \in Writers : FindOpen(w) \/ Send(w)

(***************************************************************************)
(* Properties.                                                             *)
(***************************************************************************)

\* A router that is closed ends its reading goroutine, although that may be waiting for a
\* packet when it happens (tun_router.go:80-103, 163-171) - unless a writer that found the
\* adapter open just before sends to its closed channel and takes the process with it.
ReaderEnds == ~routing ~> reader = "ended" \/ tunPanic
==============================================================================
