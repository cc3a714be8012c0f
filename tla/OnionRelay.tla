----------------------------- MODULE OnionRelay ------------------------------
(* A relay of onion packets: what it remembers of them                         *)
(* (src/src/pkg/l1/sphinx_onion.go), and the engine that sends packets that    *)
(* mean nothing between the real ones (sphinx_padding.go).                     *)
(*                                                                             *)
(* A packet is known by a tag. The relay keeps the tag with the time until     *)
(* which a copy is refused, and the tags in the order of their arrival, so as  *)
(* to forget the oldest when there are too many. Nothing follows: a packet has *)
(* room for a key capsule of 160 bytes only, decapsulation asks for the whole  *)
(* one and fails (pqc_hybrid.go:196), so PeelLayer never gets to peel.         *)
EXTENDS Integers, Sequences, SequencesExt, Functions, FiniteSets

CONSTANTS
    Tags,           \* packets that arrive, as often as the network repeats them
    MaxCacheSize,   \* tags remembered (10000 in the code)
    TagLife,        \* how long a copy is refused (300 s)
    MaxOnionClock,  \* bound of the model
    MaxStartsOfPadding  \* bound of the model

OnionAssumption ==
    /\ MaxCacheSize \in Nat \ {0} /\ TagLife \in Nat \ {0}
    /\ MaxOnionClock \in Nat /\ MaxStartsOfPadding \in Nat

ASSUME OnionAssumption

VARIABLES
    replayCache,    \* tag -> until when a copy is refused
    replayOrder,    \* tags as they came
    onionClock,
    takenIn,        \* tag -> [until, later, again]: when it was last taken in, how many were taken
                    \* in since, whether replayOrder still had it then: history
    padding,        \* the padding engine is on
    padChannels,    \* stop channels made; the last is the one the engine holds
    padLoop         \* loop begun -> [at, on]: where it is, and the channel it waits for

relayCacheVars == <<replayCache, replayOrder, onionClock, takenIn>>
paddingVars == <<padding, padChannels, padLoop>>
onionVars == <<relayCacheVars, paddingVars>>

OnionTypeOK ==
    /\ DOMAIN replayCache \subseteq Tags
    /\ \A t \in DOMAIN replayCache : replayCache[t] \in 0 .. MaxOnionClock + TagLife
    /\ replayOrder \in Seq(Tags) /\ Len(replayOrder) <= MaxCacheSize
    /\ onionClock \in 0 .. MaxOnionClock
    /\ DOMAIN takenIn \subseteq Tags
    /\ \A t \in DOMAIN takenIn :
          takenIn[t] \in [until : Nat, later : 0 .. MaxCacheSize, again : BOOLEAN]
    /\ padding \in BOOLEAN /\ padChannels \in 0 .. MaxStartsOfPadding
    /\ DOMAIN padLoop = 1 .. padChannels
    /\ \A l \in DOMAIN padLoop :
          padLoop[l] \in [at : {"awake", "waiting", "sending", "ended"}, on : 0 .. padChannels]

OnionInit ==
    /\ replayCache = [t \in {} |-> 0] /\ replayOrder = <<>> /\ onionClock = 0
    /\ takenIn = [t \in {} |-> {}]
    /\ padding = FALSE /\ padChannels = 0 /\ padLoop = <<>>

(***************************************************************************)
(* PeelLayer.                                                              *)
(***************************************************************************)

\* A copy that came in time changes nothing.
Repeated(t) == t \in DOMAIN replayCache /\ replayCache[t] > onionClock

WithTag(t) == [u \in DOMAIN replayCache \cup {t} |->
                 IF u = t THEN onionClock + TagLife ELSE replayCache[u]]

\* The tag is remembered before anything of the packet has been looked at; when there are too many
\* tags, the one that came first is forgotten.
\* Mutant: the newest is forgotten.
RememberDroppingNewest(t) ==
    LET order == Append(replayOrder, t)
    IN  IF Len(order) <= MaxCacheSize THEN replayOrder' = order /\ replayCache' = WithTag(t)
        ELSE replayOrder' = Front(order) /\ replayCache' = Restrict(WithTag(t), DOMAIN replayCache \ {t})

Remember(t) ==
    LET order == Append(replayOrder, t)
    IN  IF Len(order) <= MaxCacheSize THEN replayOrder' = order /\ replayCache' = WithTag(t)
        ELSE /\ replayOrder' = Tail(order)
             /\ replayCache' = Restrict(WithTag(t), (DOMAIN replayCache \cup {t}) \ {Head(order)})

\* What is taken in is remembered, and then fails to be decapsulated.
PeelLayer(t) ==
    /\ ~Repeated(t)
    /\ Remember(t)
    /\ takenIn' = [u \in DOMAIN takenIn \cup {t} |->
                     IF u = t THEN [until |-> onionClock + TagLife, later |-> 0,
                                    again |-> t \in ToSet(replayOrder)]
                     ELSE [takenIn[u] EXCEPT !.later = IF @ < MaxCacheSize THEN @ + 1 ELSE @]]
    /\ UNCHANGED <<onionClock, paddingVars>>

OnionTick ==
    /\ onionClock < MaxOnionClock /\ onionClock' = onionClock + 1
    /\ UNCHANGED <<replayCache, replayOrder, takenIn, paddingVars>>

PeelNext == (\E t \in Tags : PeelLayer(t)) \/ OnionTick

(***************************************************************************)
(* The padding engine.                                                     *)
(***************************************************************************)

\* A new channel and a loop; an engine that is on stays as it is.
StartPadding ==
    /\ ~padding /\ padChannels < MaxStartsOfPadding
    /\ padding' = TRUE /\ padChannels' = padChannels + 1
    /\ padLoop' = Append(padLoop, [at |-> "awake", on |-> 0])
    /\ UNCHANGED relayCacheVars

\* The channel the engine holds is closed; those before it have been.
StopPadding ==
    /\ padding /\ padding' = FALSE
    /\ UNCHANGED <<padChannels, padLoop, relayCacheVars>>

ClosedChannels == 1 .. IF padding THEN padChannels - 1 ELSE padChannels

\* The wait begins with a look at the channel the engine has by now.
AwaitGap(l) ==
    /\ padLoop[l].at = "awake"
    /\ padLoop' = [padLoop EXCEPT ![l] = [at |-> "waiting", on |-> padChannels]]
    /\ UNCHANGED <<padding, padChannels, relayCacheVars>>

\* GenerateDummyPacket: a packet to be sent, or none if the router cannot build one.
GenerateDummyPacket == {"sending", "awake"}

\* The timer runs out; a packet is built and sent, without asking whether the engine is still on.
GapOver(l) ==
    /\ padLoop[l].at = "waiting"
    /\ \E next \in GenerateDummyPacket : padLoop' = [padLoop EXCEPT ![l].at = next]
    /\ UNCHANGED <<padding, padChannels, relayCacheVars>>

Sent(l) ==
    /\ padLoop[l].at = "sending"
    /\ padLoop' = [padLoop EXCEPT ![l].at = "awake"]
    /\ UNCHANGED <<padding, padChannels, relayCacheVars>>

EndPadding(l) ==
    /\ padLoop[l].at = "waiting" /\ padLoop[l].on \in ClosedChannels
    /\ padLoop' = [padLoop EXCEPT ![l].at = "ended"]
    /\ UNCHANGED <<padding, padChannels, relayCacheVars>>

PaddingNext ==
    \/ StartPadding \/ StopPadding
    \/ \E l \in DOMAIN padLoop : AwaitGap(l) \/ GapOver(l) \/ Sent(l) \/ EndPadding(l)

(***************************************************************************)
(* Properties.                                                             *)
(***************************************************************************)

\* A packet that was taken in is refused for its whole time, unless as many others as the relay
\* remembers have been taken in since - or the tag was in the order still from an earlier time,
\* whose turn to be forgotten takes the new time with it (sphinx_onion.go:93-110).
CopiesAreRefused ==
    /\ DOMAIN replayCache \subseteq ToSet(replayOrder)
    /\ \A t \in DOMAIN takenIn :
          takenIn[t].until > onionClock /\ takenIn[t].later < MaxCacheSize /\ ~takenIn[t].again
             => Repeated(t)

\* An engine that is off and stays off has no loop left in the end, also those that were sending
\* while it went off and on, and that then wait for a channel they were not started with
\* (sphinx_padding.go:153-193).
PaddingEnds == ~padding ~> padding \/ \A l \in DOMAIN padLoop : padLoop[l].at = "ended"
==============================================================================
