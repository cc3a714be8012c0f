----------------------------- MODULE AnomalyTable ----------------------------
(* The table that folds anomalies with one signature into one fingerprint      *)
(* (src/src/pkg/l2/anomaly_fingerprinter.go).                                  *)
(*                                                                             *)
(* What counts here is the lock. Go lets readers of an RWMutex in until a      *)
(* writer announces itself; from then on new readers wait, the writer waits    *)
(* for those inside, and other writers wait for it. A recording of a known     *)
(* signature counts on the fingerprint after it has left the lock; the         *)
(* summary takes the read lock twice, once by itself and once through          *)
(* GetDominantAnomaly. Who is dominant and how the summary reads is left out.  *)
EXTENDS Integers, FiniteSets

CONSTANTS
    Reporters,          \* goroutines
    Signatures,
    Deltas,             \* sizes of a batch
    NoReporter,
    MaxEvents           \* bound of the model: anomalies recorded

TableAssumption ==
    /\ IsFiniteSet(Reporters) /\ IsFiniteSet(Signatures) /\ NoReporter \notin Reporters
    /\ Deltas \subseteq Nat \ {0} /\ MaxEvents \in Nat

ASSUME TableAssumption

VARIABLES
    count,              \* signature -> Count of its entry, 0 if it has none; none is removed
    totalCount,
    task,               \* goroutine -> how far it is, with which signature and how many events
    inside,             \* goroutine -> read locks it holds
    writer              \* the goroutine that has announced itself as writer, or NoReporter

tableVars == <<count, totalCount, task, inside, writer>>

Resting == [at |-> "rest"]
Recordings == [at : {"count", "total", "announce", "write"}, sig : Signatures, by : {1} \cup Deltas]
Readings == [at : {"inner", "dominant", "list"}]

TableTypeOK ==
    /\ count \in [Signatures -> Nat] /\ totalCount \in Nat
    /\ task \in [Reporters -> {Resting} \cup Recordings \cup Readings]
    /\ inside \in [Reporters -> 0 .. 2]
    /\ writer \in Reporters \cup {NoReporter}

TableInit ==
    /\ count = [s \in Signatures |-> 0] /\ totalCount = 0
    /\ task = [r \in Reporters |-> Resting]
    /\ inside = [r \in Reporters |-> 0] /\ writer = NoReporter

Room == totalCount + Cardinality({r \in Reporters : task[r] \in Recordings}) < MaxEvents

(***************************************************************************)
(* The lock.                                                               *)
(***************************************************************************)

RLock(r) == writer = NoReporter /\ inside' = [inside EXCEPT ![r] = @ + 1]
RUnlock(r) == inside' = [inside EXCEPT ![r] = @ - 1]
Announce(r) == writer = NoReporter /\ writer' = r
Enters(r) == writer = r /\ \A q \in Reporters : inside[q] = 0

(***************************************************************************)
(* Recordings.                                                             *)
(***************************************************************************)

\* RecordAnomaly: the look at the table, which enters and leaves the lock.
RecordAnomaly(r, s) ==
    /\ task[r] = Resting /\ Room /\ writer = NoReporter
    /\ task' = [task EXCEPT ![r] = [at |-> IF count[s] > 0 THEN "count" ELSE "announce",
                                    sig |-> s, by |-> 1]]
    /\ UNCHANGED <<count, totalCount, inside, writer>>

RecordBatch(r, s, n) ==
    /\ task[r] = Resting /\ Room
    /\ task' = [task EXCEPT ![r] = [at |-> "announce", sig |-> s, by |-> n]]
    /\ UNCHANGED <<count, totalCount, inside, writer>>

\* A known signature: two atomic additions outside the lock.
CountOnEntry(r) ==
    /\ task[r].at = "count"
    /\ count' = [count EXCEPT ![task[r].sig] = @ + 1]
    /\ task' = [task EXCEPT ![r].at = "total"]
    /\ UNCHANGED <<totalCount, inside, writer>>

CountOnTotal(r) ==
    /\ task[r].at = "total"
    /\ totalCount' = totalCount + 1
    /\ task' = [task EXCEPT ![r] = Resting]
    /\ UNCHANGED <<count, inside, writer>>

AskToWrite(r) ==
    /\ task[r].at = "announce"
    /\ Announce(r)
    /\ task' = [task EXCEPT ![r].at = "write"]
    /\ UNCHANGED <<count, totalCount, inside>>

\* An entry is made unless another goroutine has made it meanwhile; then the lock is left.
Write(r) ==
    /\ task[r].at = "write" /\ Enters(r)
    /\ count' = [count EXCEPT ![task[r].sig] = @ + task[r].by]
    /\ totalCount' = totalCount + task[r].by
    /\ task' = [task EXCEPT ![r] = Resting] /\ writer' = NoReporter
    /\ UNCHANGED inside

(***************************************************************************)
(* The summary.                                                            *)
(***************************************************************************)

\* GetExecutiveSummary takes the lock, and GetDominantAnomaly takes it again inside.
GetExecutiveSummary(r) ==
    /\ task[r] = Resting /\ RLock(r)
    /\ task' = [task EXCEPT ![r] = [at |-> "inner"]]
    /\ UNCHANGED <<count, totalCount, writer>>

LockAgain(r) ==
    /\ task[r].at = "inner" /\ RLock(r)
    /\ task' = [task EXCEPT ![r] = [at |-> "dominant"]]
    /\ UNCHANGED <<count, totalCount, writer>>

\* GetDominantAnomaly asked for by itself.
GetDominantAnomaly(r) ==
    /\ task[r] = Resting /\ RLock(r)
    /\ task' = [task EXCEPT ![r] = [at |-> "list"]]
    /\ UNCHANGED <<count, totalCount, writer>>

Leave(r) ==
    /\ task[r].at \in {"dominant", "list"} /\ RUnlock(r)
    /\ task' = [task EXCEPT ![r] = IF @.at = "dominant" THEN [at |-> "list"] ELSE Resting]
    /\ UNCHANGED <<count, totalCount, writer>>

GoAhead(r) == \/ CountOnEntry(r) \/ CountOnTotal(r) \/ AskToWrite(r) \/ Write(r)
              \/ LockAgain(r) \/ Leave(r)

TableNext ==
    \E r \in Reporters :
        \/ GoAhead(r) \/ GetExecutiveSummary(r) \/ GetDominantAnomaly(r)
        \/ \E s \in Signatures : RecordAnomaly(r, s) \/ \E n \in Deltas : RecordBatch(r, s, n)

\* A goroutine that can go ahead does, and no writer is passed over for ever: sync.Mutex hands
\* itself over to a goroutine that has waited for long.
TableFairness == \A r \in Reporters : SF_tableVars(GoAhead(r))
TableSpec == TableInit /\ [][TableNext]_tableVars /\ TableFairness

(***************************************************************************)
(* Properties.                                                             *)
(***************************************************************************)

\* The events on the entries, numbered for each signature.
EventsOf(counts) == UNION {{s} \X (1 .. counts[s]) : s \in Signatures}

\* No event is lost and none counted twice, whoever makes the entry first: the entries hold the
\* total and the events that are counted on their entry and not yet on the total (78-104, 123-145).
EventsAreCounted ==
    Cardinality(EventsOf(count))
        = totalCount + Cardinality({r \in Reporters : task[r].at = "total"})

\* A recording that has begun ends: it takes constant time, says the comment on RecordAnomaly
\* ("registra o compacta un evento de fallo en tiempo O(1)", anomaly_fingerprinter.go:64).
RecordingEnds == \A r \in Reporters : task[r] \in Recordings ~> task[r] = Resting
==============================================================================
