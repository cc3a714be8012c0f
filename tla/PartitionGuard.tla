---------------------------- MODULE PartitionGuard ---------------------------
(* The guard against writing on the wrong side of a partition                  *)
(* (src/src/pkg/l2/split_brain_guard.go).                                      *)
(*                                                                             *)
(* The guard learns of peers when they are registered or heard of, and decides *)
(* only when somebody audits it.                                               *)
EXTENDS Integers, FiniteSets

CONSTANTS
    Members,            \* DIDs
    HeartbeatTimeout,   \* 10 s
    RecoveryWindow,     \* 5 s
    MaxClock            \* bound of the model

GuardAssumption ==
    /\ HeartbeatTimeout \in Nat /\ RecoveryWindow \in Nat /\ MaxClock \in Nat

ASSUME GuardAssumption

VARIABLES
    clock,
    census,         \* DID -> last heartbeat, Never for one that was only registered
    alive,          \* DIDs with IsActive
    guard,          \* [state, changedAt]
    lastBad         \* time of the last audit without quorum, or Never: history

guardVars == <<clock, census, alive, guard, lastBad>>

Never == -HeartbeatTimeout - 1

GuardTypeOK ==
    /\ clock \in 0 .. MaxClock
    /\ DOMAIN census \subseteq Members
    /\ \A d \in DOMAIN census : census[d] \in {Never} \cup 0 .. clock
    /\ alive \subseteq DOMAIN census
    /\ guard \in [state : {"HEALTHY", "PARTITIONED", "RECOVERING"}, changedAt : 0 .. clock]
    /\ lastBad \in {Never} \cup 0 .. clock

GuardInit ==
    /\ clock = 0 /\ census = [d \in {} |-> 0] /\ alive = {}
    /\ guard = [state |-> "HEALTHY", changedAt |-> 0] /\ lastBad = Never

(***************************************************************************)
(* The guard.                                                              *)
(***************************************************************************)

Noted(d, t) == [e \in DOMAIN census \cup {d} |-> IF e = d THEN t ELSE census[e]]

RecordHeartbeat(d) ==
    /\ census' = Noted(d, clock) /\ alive' = alive \cup {d}
    /\ UNCHANGED <<clock, guard, lastBad>>

RegisterPeer(d) ==
    /\ d \notin DOMAIN census /\ census' = Noted(d, Never)
    /\ UNCHANGED <<clock, alive, guard, lastBad>>

\* The peers whose last heartbeat is recent, and whether they are at least one half.
Heard == {d \in DOMAIN census : census[d] # Never /\ clock - census[d] <= HeartbeatTimeout}
Quorum == 2 * Cardinality(Heard) >= Cardinality(DOMAIN census)

Become(s) == guard' = [state |-> s, changedAt |-> clock]

\* Mutant: the recovery counts from the beginning of the partition.
RecoverFromBefore ==
    /\ Quorum
    /\ CASE guard.state = "PARTITIONED" -> guard' = [guard EXCEPT !.state = "RECOVERING"]
         [] guard.state = "RECOVERING" /\ clock - guard.changedAt >= RecoveryWindow -> Become("HEALTHY")
         [] OTHER -> UNCHANGED guard
    /\ UNCHANGED lastBad

Recover ==
    /\ Quorum
    /\ CASE guard.state = "PARTITIONED" -> Become("RECOVERING")
         [] guard.state = "RECOVERING" /\ clock - guard.changedAt >= RecoveryWindow -> Become("HEALTHY")
         [] OTHER -> UNCHANGED guard
    /\ UNCHANGED lastBad

Isolate ==
    /\ ~Quorum
    /\ IF guard.state = "PARTITIONED" THEN UNCHANGED guard ELSE Become("PARTITIONED")
    /\ lastBad' = clock

\* Without peers the audit leaves everything as it is.
AuditLiveness ==
    /\ DOMAIN census # {}
    /\ alive' = Heard
    /\ Recover \/ Isolate
    /\ UNCHANGED <<clock, census>>

IsSafeToWrite == guard.state = "HEALTHY"

GuardTick == clock < MaxClock /\ clock' = clock + 1 /\ UNCHANGED <<census, alive, guard, lastBad>>

GuardNext ==
    \/ \E d \in Members : RecordHeartbeat(d) \/ RegisterPeer(d)
    \/ AuditLiveness \/ GuardTick

(***************************************************************************)
(* Properties.                                                             *)
(***************************************************************************)

\* Writing is safe only when no audit of the last RecoveryWindow seconds missed the quorum,
\* however often the partition came and went in between (split_brain_guard.go:107-134).
SafeOnlyAfterStability ==
    IsSafeToWrite /\ lastBad # Never => clock - lastBad >= RecoveryWindow
==============================================================================
