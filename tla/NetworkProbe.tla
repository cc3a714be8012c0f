---------------------------- MODULE NetworkProbe -----------------------------
(* The voluntary probe of the network (src/src/pkg/l1/network_probe.go).       *)
(*                                                                             *)
(* Switching it on or off is a swap of an atomic flag and, after that and      *)
(* without a lock, the creation or the closing of the channel that stops the   *)
(* loop. A loop looks at the channel anew each time it waits, so a loop that   *)
(* was busy while the probe went off and on again waits for the next channel,  *)
(* beside the new loop. Calls of SetActive come one after another, as in the   *)
(* one place that makes them, the test: nothing in the code keeps two apart,   *)
(* and two that overlap could close a channel twice or leave a loop behind.    *)
EXTENDS Integers, FiniteSets, Sequences, SequencesExt

CONSTANTS
    MaxSwitches,    \* bound of the model: how often the probe is switched on
    Incidents,      \* a host and what is done to it
    MaxRequests     \* bound of the model: audits asked for by hand

ProbeAssumption == IsFiniteSet(Incidents) /\ MaxSwitches \in Nat /\ MaxRequests \in Nat

ASSUME ProbeAssumption

Loops == 1 .. MaxSwitches

VARIABLES
    probing,        \* isActive
    switching,      \* where the call of SetActive is
    channel,        \* stopChan; 0 is none
    closed,         \* channels closed
    loop,           \* loop begun -> [at, on]: where it is and the channel it waits for
    audits,         \* audits under way: [by, found], by a loop or by nobody
    incidentList,
    requests        \* audits asked for by hand

probeVars == <<probing, switching, channel, closed, loop, audits, incidentList, requests>>

Nobody == 0

ProbeTypeOK ==
    /\ probing \in BOOLEAN /\ switching \in {"no", "on", "off"}
    /\ channel \in 0 .. MaxSwitches /\ closed \subseteq 1 .. channel
    /\ DOMAIN loop \subseteq Loops
    /\ \A l \in DOMAIN loop : loop[l] \in [at : {"awake", "waiting", "busy", "ended"}, on : 0 .. channel]
    /\ audits \subseteq [by : Loops \cup {Nobody}, found : SUBSET Incidents]
    /\ incidentList \in Seq(Incidents) /\ requests \in 0 .. MaxRequests

ProbeInit ==
    /\ probing = FALSE /\ switching = "no" /\ channel = 0 /\ closed = {}
    /\ loop = [l \in {} |-> {}] /\ audits = {} /\ incidentList = <<>> /\ requests = 0

\* The swap of SetActive; a call that changes nothing ends with it.
SetActive(active) ==
    /\ switching = "no" /\ active # probing
    /\ active => channel < MaxSwitches
    /\ probing' = active /\ switching' = IF active THEN "on" ELSE "off"
    /\ UNCHANGED <<channel, closed, loop, audits, incidentList, requests>>

\* A new channel, a loop, and an audit at once.
OpenChannel(found) ==
    /\ switching = "on" /\ switching' = "no"
    /\ channel' = channel + 1
    /\ loop' = [l \in DOMAIN loop \cup {channel + 1} |->
                  IF l = channel + 1 THEN [at |-> "awake", on |-> 0] ELSE loop[l]]
    /\ audits' = audits \cup {[by |-> Nobody, found |-> found]}
    /\ UNCHANGED <<probing, closed, incidentList, requests>>

CloseChannel ==
    /\ switching = "off" /\ switching' = "no"
    /\ closed' = closed \cup {channel}
    /\ UNCHANGED <<probing, channel, loop, audits, incidentList, requests>>

\* probeLoop: the wait begins with a look at the channel there is by now.
Await(l) ==
    /\ loop[l].at = "awake"
    /\ loop' = [loop EXCEPT ![l] = [at |-> "waiting", on |-> channel]]
    /\ UNCHANGED <<probing, switching, channel, closed, audits, incidentList, requests>>

\* The ticker; while the probe is off nothing is done.
Awaken(l, found) ==
    /\ loop[l].at = "waiting"
    /\ IF probing
       THEN /\ loop' = [loop EXCEPT ![l].at = "busy"]
            /\ audits' = audits \cup {[by |-> l, found |-> found]}
       ELSE loop' = [loop EXCEPT ![l].at = "awake"] /\ UNCHANGED audits
    /\ UNCHANGED <<probing, switching, channel, closed, incidentList, requests>>

EndLoop(l) ==
    /\ loop[l].at = "waiting" /\ loop[l].on \in closed
    /\ loop' = [loop EXCEPT ![l].at = "ended"]
    /\ UNCHANGED <<probing, switching, channel, closed, audits, incidentList, requests>>

RunAudit(found) ==
    /\ requests < MaxRequests
    /\ requests' = requests + 1
    /\ audits' = audits \cup {[by |-> Nobody, found |-> found]}
    /\ UNCHANGED <<probing, switching, channel, closed, loop, incidentList>>

\* What an audit adds to the history.
NewIncidents(found) == SetToSeq(found \ ToSet(incidentList))

\* The end of ExecuteLiveAudit: the history is extended under the lock.
EndAudit(a) ==
    /\ a \in audits
    /\ audits' = audits \ {a}
    /\ incidentList' = incidentList \o NewIncidents(a.found)
    /\ loop' = IF a.by = Nobody THEN loop ELSE [loop EXCEPT ![a.by].at = "awake"]
    /\ UNCHANGED <<probing, switching, channel, closed, requests>>

ProbeNext ==
    \/ \E active \in BOOLEAN : SetActive(active)
    \/ \E f \in SUBSET Incidents : OpenChannel(f) \/ RunAudit(f)
    \/ CloseChannel
    \/ \E l \in DOMAIN loop : Await(l) \/ EndLoop(l) \/ \E f \in SUBSET Incidents : Awaken(l, f)
    \/ \E a \in audits : EndAudit(a)

\* A call of SetActive goes on, audits have deadlines, and a select takes each ready channel
\* sooner or later.
ProbeFairness ==
    /\ WF_probeVars(CloseChannel)
    /\ \A l \in Loops :
          /\ WF_probeVars(l \in DOMAIN loop /\ Await(l))
          /\ SF_probeVars(l \in DOMAIN loop /\ EndLoop(l))
          /\ WF_probeVars(\E a \in audits : a.by = l /\ EndAudit(a))

ProbeSpec == ProbeInit /\ [][ProbeNext]_probeVars /\ ProbeFairness

(***************************************************************************)
(* Properties.                                                             *)
(***************************************************************************)

\* The history has every incident once, however many audits end at the same time
\* (network_probe.go:194-206).
IncidentsAreUnique == IsInjective(incidentList)

\* A probe that is off and stays off has no loop left in the end, also those that were busy with
\* an audit while it was switched, and that then wait for a channel that is not the one they were
\* started with (network_probe.go:81-96, 233-247).
ProbeLoopsEnd == ~probing ~> probing \/ \A l \in DOMAIN loop : loop[l].at = "ended"
==============================================================================
