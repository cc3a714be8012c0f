------------------------------- MODULE Gateway -------------------------------
(* The component gateway (src/src/pkg/core/gateway.go): a register of external *)
(* components, the channels of those who subscribed to mesh events, and the    *)
(* datagrams components send into the mesh.                                    *)
(*                                                                             *)
(* One lock guards all of it. Sending holds it for reading only, so several    *)
(* senders run at once, but what they touch locks by itself: the buckets and   *)
(* the channels. Each operation is therefore one action. A channel has a       *)
(* number of its own, because a reader may hold on to a channel that is no     *)
(* longer in the register. The firewall, the table of peers and the healer     *)
(* give any answer they can give.                                              *)
EXTENDS QoS, Sequences

CONSTANTS
    Components, Subscribers,
    Self,           \* the DID of the node
    Capacity,       \* events a channel holds (256 in the code)
    MaxChannels     \* bound of the model

GatewayAssumption ==
    Self \notin Senders /\ Capacity \in Nat \ {0} /\ MaxChannels \in Nat

ASSUME GatewayAssumption

VARIABLES
    components,     \* component -> its registration
    channel,        \* subscriber -> number of its channel
    queue,          \* channel made -> events in it
    shut,           \* channels closed
    stopped         \* the gateway is closed

gatewayOwn == <<components, channel, queue, shut, stopped>>
gatewayVars == <<gatewayOwn, qosVars>>

\* fresh: the component was seen within the last 30 seconds.
Registrations == [state : {"Active", "Idle", "Suspended"}, installed : BOOLEAN,
                  enabled : BOOLEAN, fresh : BOOLEAN]

MeshEvents == {"COMPONENT_BOUND", "COMPONENT_UNBOUND", "PACKET_TX", "other"}

GatewayTypeOK ==
    /\ QoSTypeOK
    /\ DOMAIN components \subseteq Components
    /\ \A c \in DOMAIN components : components[c] \in Registrations
    /\ DOMAIN channel \subseteq Subscribers
    /\ \A s \in DOMAIN channel : channel[s] \in 1 .. Len(queue)
    /\ \A n \in 1 .. Len(queue) : queue[n] \in Seq(MeshEvents) /\ Len(queue[n]) <= Capacity
    /\ Len(queue) <= MaxChannels /\ shut \subseteq 1 .. Len(queue) /\ stopped \in BOOLEAN

GatewayInit ==
    /\ QoSInit
    /\ components = [c \in {} |-> {}] /\ channel = [s \in {} |-> 0] /\ queue = <<>>
    /\ shut = {} /\ stopped = FALSE

\* broadcastEvent drops the event for a subscriber whose channel is full.
Broadcast(e) ==
    queue' = [n \in 1 .. Len(queue) |->
                IF (\E s \in DOMAIN channel : channel[s] = n) /\ Len(queue[n]) < Capacity
                THEN Append(queue[n], e) ELSE queue[n]]

(***************************************************************************)
(* Components.                                                             *)
(***************************************************************************)

RegisterComponent(c) ==
    /\ ~stopped /\ c \notin DOMAIN components
    /\ components' = [d \in DOMAIN components \cup {c} |->
            IF d # c THEN components[d]
            ELSE [state |-> "Active", installed |-> TRUE, enabled |-> TRUE, fresh |-> TRUE]]
    /\ Broadcast("COMPONENT_BOUND")
    /\ UNCHANGED <<channel, shut, stopped, qosVars>>

SetComponentState(c, installed, enabled) ==
    /\ c \in DOMAIN components
    /\ components' = [components EXCEPT ![c].installed = installed, ![c].enabled = enabled,
                        ![c].state = IF installed /\ enabled THEN "Active" ELSE "Suspended"]
    /\ UNCHANGED <<channel, queue, shut, stopped, qosVars>>

UnregisterComponent(c) ==
    /\ c \in DOMAIN components
    /\ components' = [d \in DOMAIN components \ {c} |-> components[d]]
    /\ Broadcast("COMPONENT_UNBOUND")
    /\ UNCHANGED <<channel, shut, stopped, qosVars>>

\* It makes a component active that an operator has switched off.
Heartbeat(c) ==
    /\ c \in DOMAIN components
    /\ components' = [components EXCEPT ![c].fresh = TRUE, ![c].state = "Active"]
    /\ UNCHANGED <<channel, queue, shut, stopped, qosVars>>

\* Thirty seconds go by.
Silence ==
    /\ components' = [c \in DOMAIN components |-> [components[c] EXCEPT !.fresh = FALSE]]
    /\ UNCHANGED <<channel, queue, shut, stopped, qosVars>>

\* A tick of eventLoop; the last may come when the gateway has just been stopped.
CheckHealth ==
    /\ components' = [c \in DOMAIN components |->
            IF components[c].state = "Active" /\ ~components[c].fresh
            THEN [components[c] EXCEPT !.state = "Idle"] ELSE components[c]]
    /\ UNCHANGED <<channel, queue, shut, stopped, qosVars>>

(***************************************************************************)
(* Events.                                                                 *)
(***************************************************************************)

\* A second subscription under the same name takes the place of the first, whose channel is
\* neither fed nor closed any more. A stopped gateway still takes subscriptions.
SubscribeEvents(s) ==
    /\ Len(queue) < MaxChannels
    /\ queue' = Append(queue, <<>>)
    /\ channel' = [t \in DOMAIN channel \cup {s} |->
                     IF t = s THEN Len(queue) + 1 ELSE channel[t]]
    /\ UNCHANGED <<components, shut, stopped, qosVars>>

\* Mutant: the closed channel stays in the register.
CloseOnly(s) ==
    /\ s \in DOMAIN channel
    /\ shut' = shut \cup {channel[s]}
    /\ UNCHANGED <<components, channel, queue, stopped, qosVars>>

UnsubscribeEvents(s) ==
    /\ s \in DOMAIN channel
    /\ shut' = shut \cup {channel[s]}
    /\ channel' = [t \in DOMAIN channel \ {s} |-> channel[t]]
    /\ UNCHANGED <<components, queue, stopped, qosVars>>

PublishEvent ==
    /\ Broadcast("other")
    /\ UNCHANGED <<components, channel, shut, stopped, qosVars>>

\* The subscriber's side: a closed channel can still be read empty.
ReadEvent(n) ==
    /\ queue[n] # <<>>
    /\ queue' = [queue EXCEPT ![n] = Tail(@)]
    /\ UNCHANGED <<components, channel, shut, stopped, qosVars>>

Stop ==
    /\ ~stopped /\ stopped' = TRUE
    /\ shut' = shut \cup {channel[s] : s \in DOMAIN channel}
    /\ channel' = [s \in {} |-> 0]
    /\ UNCHANGED <<components, queue, qosVars>>

(***************************************************************************)
(* Datagrams.                                                              *)
(***************************************************************************)

SendDatagram(target, class, len) ==
    /\ ~stopped
    /\ \/ target = Self /\ Broadcast("PACKET_TX") /\ UNCHANGED qosVars
       \/ target # Self /\ Throttle(target, class, len) /\ UNCHANGED queue
       \/ /\ target # Self /\ Admit(target, class, len)
          /\ \/ UNCHANGED queue             \* refused, no route, or the write fails
             \/ Broadcast("PACKET_TX")
    /\ UNCHANGED <<components, channel, shut, stopped>>

RegistryNext ==
    \/ \E c \in Components : \/ RegisterComponent(c) \/ UnregisterComponent(c) \/ Heartbeat(c)
                             \/ \E i, e \in BOOLEAN : SetComponentState(c, i, e)
    \/ Silence \/ CheckHealth
    \/ \E s \in Subscribers : SubscribeEvents(s) \/ UnsubscribeEvents(s)
    \/ PublishEvent \/ Stop
    \/ \E n \in 1 .. Len(queue) : ReadEvent(n)
    \/ \E t \in Senders \cup {Self}, k \in {"Control", "Bulk"}, l \in Lengths : SendDatagram(t, k, l)

GatewayNext ==
    \/ RegistryNext
    \/ QoSNext /\ UNCHANGED gatewayOwn

(***************************************************************************)
(* Properties.                                                             *)
(***************************************************************************)

\* The gateway never writes to a channel it has closed, which would end the process, and never
\* closes one twice: what is registered is open, and no two subscribers share a channel
\* (gateway.go:191-227, 352-367).
RegisteredChannelsAreOpen ==
    \A s \in DOMAIN channel :
        /\ channel[s] \notin shut
        /\ \A t \in DOMAIN channel \ {s} : channel[t] # channel[s]

\* A component at rest has a reason: a suspended one is switched off, an idle one has not been
\* heard of for thirty seconds (gateway.go:117-135, 163-175, 341-344). The converse fails: a
\* heartbeat activates what is switched off.
RestHasAReason ==
    \A c \in DOMAIN components :
        /\ components[c].state = "Suspended" => ~(components[c].installed /\ components[c].enabled)
        /\ components[c].state = "Idle" => ~components[c].fresh
==============================================================================
