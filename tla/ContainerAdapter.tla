--------------------------- MODULE ContainerAdapter ---------------------------
(* I7 containers over a UDP socket (src/src/pkg/core/i7_adapter.go): the limit *)
(* of a datagram, the lengths in a frame, and a socket that several goroutines *)
(* write to, read from with a deadline that belongs to the socket, and close.  *)
(*                                                                             *)
(* A container is known by the lengths of its tag and of its payload. The      *)
(* network loses, delays and repeats.                                          *)
EXTENDS Integers

CONSTANTS
    Receivers,      \* goroutines that call ReceiveContainer
    TagLengths,     \* of the containers somebody sends
    PayloadLengths,
    LengthBase,     \* values of the byte that holds the length of a tag: 256
    ContainerMTU    \* 1280 in the code

AdapterAssumption ==
    /\ LengthBase \in Nat \ {0} /\ ContainerMTU \in Nat /\ ContainerMTU >= 8
    /\ TagLengths \subseteq Nat /\ PayloadLengths \subseteq Nat

ASSUME AdapterAssumption

Containers == [tag : TagLengths, payload : PayloadLengths]

\* Version, channel, length of the tag, length of the payload.
FixedBytes == 8
WireLength(c) == FixedBytes + c.tag + c.payload

\* SerializeContainer and ValidateMTU refuse what is longer than a datagram may be.
Fits(c) == WireLength(c) <= ContainerMTU

\* What DeserializeContainer makes of the frame of c, if anything: the tag is as long as its byte
\* says. When the byte has wrapped, two bytes of the tag are read as the length of the payload.
ReadAs(c) ==
    IF c.tag < LengthBase THEN {c}
    ELSE {[tag |-> c.tag % LengthBase, payload |-> n] :
             n \in 0 .. (WireLength(c) - FixedBytes - (c.tag % LengthBase))}

VARIABLES
    frames,         \* containers whose frames are on the way
    writing,        \* containers that are being written, under the read lock
    receive,        \* goroutine -> where its call is, or how it ended
    got,            \* goroutine -> the container it returned last
    deadline,       \* whether the socket has one
    closing,        \* Close waits for the writers
    adapterClosed

adapterVars == <<frames, writing, receive, got, deadline, closing, adapterClosed>>

\* No length is above what a datagram holds.
AdapterTypeOK ==
    /\ frames \subseteq Containers /\ writing \subseteq Containers
    /\ receive \in [Receivers -> {"idle", "admitted", "reading"}]
    /\ \A r \in Receivers : got[r].tag >= 0 /\ got[r].payload >= 0 /\ Fits(got[r])
    /\ {deadline, closing, adapterClosed} \subseteq BOOLEAN

AdapterInit ==
    /\ frames = {} /\ writing = {}
    /\ receive = [r \in Receivers |-> "idle"]
    /\ got = [r \in Receivers |-> [tag |-> 0, payload |-> 0]]
    /\ deadline = FALSE /\ closing = FALSE /\ adapterClosed = FALSE

\* SendContainer asks under the read lock and holds it until the frame is written. Once Close waits
\* for the lock nobody gets it.
BeginSend(c) ==
    /\ ~closing /\ ~adapterClosed /\ Fits(c)
    /\ writing' = writing \cup {c}
    /\ UNCHANGED <<frames, receive, got, deadline, closing, adapterClosed>>

EndSend(c) ==
    /\ c \in writing /\ writing' = writing \ {c} /\ frames' = frames \cup {c}
    /\ UNCHANGED <<receive, got, deadline, closing, adapterClosed>>

\* ReceiveContainer asks under the lock whether the adapter is closed, and goes on without it.
BeginReceive(r) ==
    /\ receive[r] = "idle" /\ ~closing /\ ~adapterClosed
    /\ receive' = [receive EXCEPT ![r] = "admitted"]
    /\ UNCHANGED <<frames, writing, got, deadline, closing, adapterClosed>>

\* The deadline is that of the socket: it replaces the one another call waits under. A closed
\* socket takes none, and the read that follows fails.
SetDeadline(r, timed) ==
    /\ receive[r] = "admitted"
    /\ receive' = [receive EXCEPT ![r] = "reading"]
    /\ deadline' = (IF adapterClosed THEN deadline ELSE timed)
    /\ UNCHANGED <<frames, writing, got, closing, adapterClosed>>

\* A frame that does not hold the lengths it says is corrupt.
ReadFrame(r, c) ==
    /\ receive[r] = "reading" /\ c \in frames /\ ~adapterClosed
    /\ receive' = [receive EXCEPT ![r] = "idle"]
    /\ \/ \E d \in ReadAs(c) : got' = [got EXCEPT ![r] = d]
       \/ c.tag >= LengthBase /\ UNCHANGED got
    /\ UNCHANGED <<frames, writing, deadline, closing, adapterClosed>>

\* The deadline has passed, or the socket has been closed.
ReadFails(r) ==
    /\ receive[r] = "reading" /\ (deadline \/ adapterClosed)
    /\ receive' = [receive EXCEPT ![r] = "idle"]
    /\ UNCHANGED <<frames, writing, got, deadline, closing, adapterClosed>>

\* Close waits for those who write, not for those who read.
AskToClose ==
    /\ ~closing /\ ~adapterClosed /\ closing' = TRUE
    /\ UNCHANGED <<frames, writing, receive, got, deadline, adapterClosed>>

\* Mutant: Close waits for the readers as well.
CloseAfterReaders ==
    /\ closing /\ writing = {} /\ \A r \in Receivers : receive[r] # "reading"
    /\ closing' = FALSE /\ adapterClosed' = TRUE
    /\ UNCHANGED <<frames, writing, receive, got, deadline>>

CloseSocket ==
    /\ closing /\ writing = {}
    /\ closing' = FALSE /\ adapterClosed' = TRUE
    /\ UNCHANGED <<frames, writing, receive, got, deadline>>

LoseFrame(c) ==
    /\ c \in frames /\ frames' = frames \ {c}
    /\ UNCHANGED <<writing, receive, got, deadline, closing, adapterClosed>>

AdapterNext ==
    \/ \E c \in Containers : BeginSend(c) \/ EndSend(c) \/ LoseFrame(c)
    \/ \E r \in Receivers :
          \/ BeginReceive(r) \/ ReadFails(r)
          \/ \E timed \in BOOLEAN : SetDeadline(r, timed)
          \/ \E c \in Containers : ReadFrame(r, c)
    \/ AskToClose \/ CloseSocket

\* A system call that can return does: a write, the setting of the deadline, a read whose deadline
\* has passed or whose socket is closed; a lock that is free is taken.
AdapterFairness ==
    /\ \A c \in Containers : WF_adapterVars(EndSend(c))
    /\ \A r \in Receivers :
          /\ WF_adapterVars(\E timed \in BOOLEAN : SetDeadline(r, timed))
          /\ WF_adapterVars(ReadFails(r))
    /\ WF_adapterVars(CloseSocket)

(***************************************************************************)
(* Properties.                                                             *)
(***************************************************************************)

\* A close that is asked for goes through and ends every call, also that of a reader whose deadline
\* another one has taken away: no reader holds the lock while it waits for a datagram
\* (i7_adapter.go:84-97, 114-124).
CloseEndsAll == closing ~> (adapterClosed /\ \A r \in Receivers : receive[r] = "idle")
===============================================================================
