------------------------- MODULE Maintenance_proofs -------------------------
(***************************************************************************)
(* For any number of commands, updates, failing calls and deaths: at most  *)
(* one daemon is in its cycle, a daemon gives up after its limit of        *)
(* failures, an update can be undone, and a node that did not roll back is *)
(* not followed by an older one.                                           *)
(*                                                                         *)
(* The daemon's invariants tie the place of a process to the lock, and the *)
(* failures it has seen to its copy of estado.json.  Those of the version  *)
(* manager say of each system call which of the two files is whole.        *)
(***************************************************************************)
EXTENDS MCMaintenance, FiniteSetTheorems, TLAPS

\* Whoever is inside has the lock; whoever is about to write it is alone.
LockIsHeld ==
    ~overlap =>
      /\ \A p \in Process : At(p, "write") =>
           \A q \in Process \ {p} : proc[q].at \notin Inside \cup {"write"}
      /\ \A p \in Process : proc[p].at \in Inside => lock = p

\* The failures a process has seen are in the count it saves, and while it is
\* to execute they are below the limit.
FailuresAreCounted ==
    \A p \in Process :
      /\ proc[p].failed <= proc[p].memory.fallos
      /\ proc[p].memory.modo = "RUN" => proc[p].failed < MaxFallos

SupervisorInv == TypeOK /\ LockIsHeld /\ FailuresAreCounted

\* A move from one place to another that neither enters nor asks to.
Keeps(p) ==
    /\ UNCHANGED <<lock, overlap>>
    /\ \A q \in Process \ {p} : proc'[q].at = proc[q].at
    /\ proc'[p].at = "write" => At(p, "write")
    /\ proc'[p].at \in Inside => proc[p].at \in Inside

\* A step after which p has seen no failure more.
NoFailure(p) ==
    /\ \A q \in Process \ {p} :
         proc'[q].memory = proc[q].memory /\ proc'[q].failed = proc[q].failed
    /\ \/ proc'[p].failed = 0
       \/ /\ proc'[p].failed = proc[p].failed
          /\ proc'[p].memory.fallos = proc[p].memory.fallos
          /\ proc'[p].memory.modo \in {proc[p].memory.modo, "SAFE"}

LEMMA LimitIsNat == MaxFallos \in Nat /\ MaxFallos > 0 /\ MaxProcesses \in Nat
BY SupervisorAssumption

LEMMA AbsentType ==
    ASSUME NEW place \in Place
    PROVE  /\ Absent(place) \in Running /\ Absent(place).at = place
           /\ Absent(place).failed = 0
BY LimitIsNat DEF Absent, Running, Fresh, Estado, Mode, Place

LEMMA MovedType ==
    ASSUME TypeOK, NEW p \in Process, NEW place \in Place
    PROVE  /\ Moved(p, place) \in Running /\ Moved(p, place).at = place
           /\ Moved(p, place).failed = 0
              \/ (/\ Moved(p, place).failed = proc[p].failed
                  /\ Moved(p, place).memory = proc[p].memory)
<1>1. CASE place = "done"
    BY <1>1, AbsentType DEF Moved
<1>2. CASE place # "done"
    BY <1>2 DEF Moved, TypeOK, Running
<1> QED
    BY <1>1, <1>2

\* A process that moves takes along what it remembers, and no other is touched.
LEMMA GoEffect ==
    ASSUME TypeOK, NEW p \in Process, NEW place \in Place, Go(p, place)
    PROVE  /\ proc' \in [Process -> Running]
           /\ \A q \in Process \ {p} : proc'[q] = proc[q]
           /\ proc'[p].at = place
           /\ NoFailure(p)
<1>1. proc' = [proc EXCEPT ![p] = Moved(p, place)] /\ proc \in [Process -> Running]
    BY DEF Go, TypeOK
<1>2. Moved(p, place) \in Running
    BY MovedType
<1>3. proc' \in [Process -> Running] /\ proc'[p] = Moved(p, place)
    BY <1>1, <1>2
<1>4. \A q \in Process \ {p} : proc'[q] = proc[q]
    BY <1>1
<1> QED
    BY <1>3, <1>4, MovedType DEF NoFailure

\* A save leaves of the others all but the note of what they were asked for.
LEMMA SaveEffect ==
    ASSUME TypeOK, NEW p \in Process, NEW e \in Estado, NEW next \in Running, Save(p, e, next)
    PROVE  /\ estado' \in Estado
           /\ proc' \in [Process -> Running]
           /\ \A q \in Process \ {p} :
                /\ proc'[q].at = proc[q].at /\ proc'[q].memory = proc[q].memory
                /\ proc'[q].failed = proc[q].failed
           /\ proc'[p].at = next.at /\ proc'[p].failed = next.failed
           /\ next.at # "done" => proc'[p].memory = e
<1>1. estado' = e
    BY DEF Save
<1>2. ASSUME NEW q \in Process \ {p}
      PROVE  /\ proc'[q] \in Running
             /\ proc'[q].at = proc[q].at /\ proc'[q].memory = proc[q].memory
             /\ proc'[q].failed = proc[q].failed
  <2>1. proc'[q] = [proc[q] EXCEPT !.hot = NoMode] /\ proc[q] \in Running
    BY DEF Save, TypeOK
  <2> QED
    BY <2>1 DEF Running
<1>3. /\ proc'[p] \in Running /\ proc'[p].at = next.at /\ proc'[p].failed = next.failed
      /\ next.at # "done" => proc'[p].memory = e
  <2>1. proc'[p] = IF next.at = "done" THEN next ELSE [next EXCEPT !.memory = e]
    BY DEF Save
  <2> QED
    BY <2>1 DEF Running
<1>4. proc' \in [Process -> Running]
    BY <1>2, <1>3 DEF Save
<1> QED
    BY <1>1, <1>2, <1>3, <1>4

\* The copy a process loads is a legal one.
LEMMA LoadedType == ASSUME TypeOK, NEW p \in Process PROVE Loaded(p) \subseteq Estado
BY LimitIsNat DEF Loaded, TypeOK, Estado, Mode

\* Commands that do not run a cycle: no lock, no failure.
LEMMA CommandEffect ==
    ASSUME TypeOK, NEW p \in Process,
           \/ \E place \in {"mode", "reprogram", "check"} : Launch(p, place)
           \/ \E m \in Mode \cup {NoMode} : SetModo(p, m)
           \/ ReprogramarIntervalo(p)
    PROVE  TypeOK' /\ Keeps(p) /\ NoFailure(p)
<1>0. /\ proc \in [Process -> Running] /\ proc[p] \in Running
      /\ proc[p].memory \in Estado /\ proc[p].loops \in BOOLEAN
    BY DEF TypeOK, Running
<1>a. /\ {"mode", "reprogram", "check", "done", "idle"} \subseteq Place
      /\ {"mode", "reprogram", "check", "done", "idle"} \cap (Inside \cup {"write"}) = {}
    BY DEF Place, Saving, Inside
<1>1. ASSUME NEW place \in {"mode", "reprogram", "check"}, Launch(p, place)
      PROVE  TypeOK' /\ Keeps(p) /\ NoFailure(p)
  <2>1. PICK always \in BOOLEAN, e \in Loaded(p) :
          proc' = [proc EXCEPT ![p] = [Absent(place) EXCEPT !.memory = e, !.loops = always]]
    BY <1>1 DEF Launch
  <2> DEFINE new == [Absent(place) EXCEPT !.memory = e, !.loops = always]
  <2>2. new \in Running /\ new.at = place /\ new.failed = 0
    <3>1. Absent(place) \in Running /\ Absent(place).at = place /\ Absent(place).failed = 0
        BY <1>a, AbsentType
    <3>2. e \in Estado /\ always \in BOOLEAN
        BY LoadedType
    <3> QED
        BY <3>1, <3>2 DEF Running
  <2>3. proc' \in [Process -> Running] /\ proc'[p] = new
    BY <1>0, <2>1, <2>2
  <2>4. \A q \in Process \ {p} : proc'[q] = proc[q]
    BY <1>0, <2>1
  <2>5. UNCHANGED <<lock, estado, overlap>>
    BY <1>1 DEF Launch
  <2> HIDE DEF new
  <2> QED
    BY <1>a, <2>2, <2>3, <2>4, <2>5 DEF TypeOK, Keeps, NoFailure
<1>2. ASSUME NEW m \in Mode \cup {NoMode}, SetModo(p, m)
      PROVE  TypeOK' /\ Keeps(p) /\ NoFailure(p)
  <2>1. CASE m \notin Mode
    <3>1. Go(p, "done") /\ UNCHANGED <<lock, estado, overlap>>
        BY <1>2, <2>1 DEF SetModo
    <3> QED
        BY <1>a, <3>1, GoEffect DEF TypeOK, Keeps
  <2>2. CASE m \in Mode
    <3>1. /\ estado' = [proc[p].memory EXCEPT !.modo = m]
          /\ proc' = [q \in Process |-> IF q = p THEN Absent("done")
                                        ELSE [proc[q] EXCEPT !.hot = Asked(q, m)]]
          /\ UNCHANGED <<lock, overlap>>
        BY <1>2, <2>2 DEF SetModo
    <3>2. estado' \in Estado
        BY <1>0, <2>2, <3>1 DEF Estado
    <3>3. ASSUME NEW q \in Process \ {p}
          PROVE  /\ proc'[q] \in Running
                 /\ proc'[q].at = proc[q].at /\ proc'[q].memory = proc[q].memory
                 /\ proc'[q].failed = proc[q].failed
      <4>1. proc'[q] = [proc[q] EXCEPT !.hot = Asked(q, m)] /\ proc[q] \in Running
          BY <1>0, <3>1
      <4>2. Asked(q, m) \in Mode \cup {NoMode}
          BY DEF Asked
      <4> QED
          BY <4>1, <4>2 DEF Running
    <3>4. proc'[p] \in Running /\ proc'[p].at = "done" /\ proc'[p].failed = 0
        BY <1>a, <3>1, AbsentType
    <3>5. proc' \in [Process -> Running]
        BY <3>1, <3>3, <3>4
    <3> QED
        BY <1>a, <3>1, <3>2, <3>3, <3>4, <3>5 DEF TypeOK, Keeps, NoFailure
  <2> QED
    BY <2>1, <2>2
<1>3. CASE ReprogramarIntervalo(p)
  <2> DEFINE place == IF proc[p].loops THEN "check" ELSE "done"
  <2>1. place \in Place /\ place \notin Inside \cup {"write"}
    BY <1>a
  <2>2. UNCHANGED <<lock, overlap>>
    BY <1>3 DEF ReprogramarIntervalo
  <2>3. CASE Save(p, proc[p].memory, Moved(p, place))
    <3>1. Moved(p, place) \in Running /\ Moved(p, place).at = place
        BY <2>1, MovedType
    <3>2. NoFailure(p)
      <4>1. proc'[p].failed = Moved(p, place).failed
          BY <1>0, <2>3, <3>1, SaveEffect
      <4>2. place # "done" => proc'[p].memory = proc[p].memory
          BY <1>0, <2>3, <3>1, SaveEffect
      <4>3. place = "done" => Moved(p, place).failed = 0
          BY AbsentType, <1>a DEF Moved
      <4> HIDE DEF place
      <4> QED
          BY <1>0, <2>1, <2>3, <3>1, <4>1, <4>2, <4>3, SaveEffect, MovedType DEF NoFailure
    <3> HIDE DEF place
    <3> QED
        BY <1>0, <2>1, <2>2, <2>3, <3>1, <3>2, SaveEffect DEF TypeOK, Keeps
  <2>4. CASE Go(p, place) /\ UNCHANGED estado
    <3> HIDE DEF place
    <3> QED
        BY <2>1, <2>2, <2>4, GoEffect DEF TypeOK, Keeps
  <2> QED
    BY <1>3, <2>3, <2>4 DEF ReprogramarIntervalo
<1> QED
    BY <1>1, <1>2, <1>3

\* The end of a cycle: what the process saves is what it remembers.
LEMMA EndEffect ==
    ASSUME TypeOK, NEW p \in Process, NEW e \in Estado, NEW failed \in Nat,
           At(p, "cycle"), EndCycle(p, e, failed)
    PROVE  /\ TypeOK' /\ Keeps(p)
           /\ proc'[p].memory = e /\ proc'[p].failed = failed
           /\ \A q \in Process \ {p} :
                proc'[q].memory = proc[q].memory /\ proc'[q].failed = proc[q].failed
<1> DEFINE place == IF proc[p].loops THEN "rest" ELSE "release"
           next == [Moved(p, place) EXCEPT !.failed = failed]
<1>1. place \in Place /\ place # "done" /\ place \in Inside /\ place # "write"
    BY DEF Place, Saving, Inside
<1>2. next \in Running /\ next.at = place /\ next.failed = failed
    BY <1>1, MovedType DEF Running
<1>3. Save(p, e, next) /\ UNCHANGED <<lock, overlap>>
    BY DEF EndCycle
<1>4. proc[p].at \in Inside
    BY DEF At, Inside
<1> HIDE DEF place, next
<1> QED
    BY <1>1, <1>2, <1>3, <1>4, SaveEffect DEF TypeOK, Keeps

\* The daemon from its lock to its last save.
LEMMA DaemonEffect ==
    ASSUME TypeOK, NEW p \in Process,
           \/ NoteLock(p) \/ Detenido(p) \/ Observe(p) \/ Succeed(p) \/ Violate(p)
           \/ Rest(p) \/ Wake(p) \/ SaveLast(p) \/ Interrupt(p) \/ Kill(p)
    PROVE  TypeOK' /\ Keeps(p) /\ NoFailure(p)
<1>0. /\ proc \in [Process -> Running] /\ proc[p] \in Running
      /\ proc[p].memory \in Estado /\ proc[p].failed \in Nat
      /\ proc[p].memory.fallos \in 0 .. MaxFallos /\ proc[p].memory.modo \in Mode
    BY DEF TypeOK, Running, Estado
<1>a. {"cycle", "sleep", "release", "done"} \subseteq Place
    BY DEF Place, Saving, Inside
<1>b. /\ "note" \in Inside /\ "cycle" \in Inside /\ "rest" \in Inside /\ "sleep" \in Inside
      /\ "release" \in Inside /\ "done" \notin Inside /\ "write" \notin Inside
    BY DEF Inside
\* Moves that write no file.
<1>1. ASSUME NEW place \in Place, Go(p, place), UNCHANGED <<lock, estado, overlap>>,
             place = "done" \/ (place \in Inside /\ proc[p].at \in Inside)
      PROVE  TypeOK' /\ Keeps(p) /\ NoFailure(p)
    BY <1>b, <1>1, GoEffect DEF TypeOK, Keeps
\* Saves of what is remembered.
<1>2. ASSUME NEW place \in Place, Save(p, proc[p].memory, Moved(p, place)),
             UNCHANGED <<lock, overlap>>,
             place = "done" \/ (place \in Inside /\ proc[p].at \in Inside)
      PROVE  TypeOK' /\ Keeps(p) /\ NoFailure(p)
  <2>1. Moved(p, place) \in Running /\ Moved(p, place).at = place
    BY MovedType
  <2>2. TypeOK' /\ Keeps(p)
    BY <1>0, <1>b, <1>2, <2>1, SaveEffect DEF TypeOK, Keeps
  <2>3. proc'[p].failed = Moved(p, place).failed
    BY <1>0, <1>2, <2>1, SaveEffect
  <2>4. place # "done" => proc'[p].memory = proc[p].memory
    BY <1>0, <1>2, <2>1, SaveEffect
  <2>5. place = "done" => Moved(p, place).failed = 0
    BY <1>a, AbsentType DEF Moved
  <2>6. NoFailure(p)
    BY <1>0, <1>2, <2>1, <2>3, <2>4, <2>5, SaveEffect, MovedType DEF NoFailure
  <2> QED
    BY <2>2, <2>6
\* Ends of cycles.
<1>3. ASSUME NEW e \in Estado, NEW failed \in Nat, At(p, "cycle"), EndCycle(p, e, failed),
             failed = 0 \/ (/\ failed = proc[p].failed /\ e.fallos = proc[p].memory.fallos
                            /\ e.modo \in {proc[p].memory.modo, "SAFE"})
      PROVE  TypeOK' /\ Keeps(p) /\ NoFailure(p)
    BY <1>3, EndEffect DEF NoFailure
<1>4. CASE NoteLock(p)
    BY <1>a, <1>b, <1>2, <1>4 DEF NoteLock, At
<1>5. CASE Detenido(p)
    BY <1>a, <1>b, <1>1, <1>5 DEF Detenido, InCycle, At
<1>6. CASE Observe(p)
    BY <1>0, <1>3, <1>6 DEF Observe, InCycle
<1>7. CASE Succeed(p)
  <2>1. [proc[p].memory EXCEPT !.fallos = 0] \in Estado
    BY <1>0, LimitIsNat DEF Estado
  <2> QED
    BY <1>3, <1>7, <2>1 DEF Succeed, InCycle
<1>8. CASE Violate(p)
  <2> DEFINE e == [proc[p].memory EXCEPT !.modo = "SAFE"]
  <2>1. e \in Estado /\ e.fallos = proc[p].memory.fallos /\ e.modo = "SAFE"
    BY <1>0 DEF Estado, Mode
  <2>2. At(p, "cycle") /\ EndCycle(p, e, proc[p].failed)
    BY <1>8 DEF Violate, InCycle
  <2> HIDE DEF e
  <2> QED
    BY <1>0, <1>3, <2>1, <2>2
<1>9. CASE Rest(p)
    BY <1>a, <1>b, <1>2, <1>9 DEF Rest, At
<1>10. CASE Wake(p)
    BY <1>a, <1>b, <1>1, <1>10 DEF Wake, At
<1>11. CASE SaveLast(p)
    BY <1>a, <1>2, <1>11 DEF SaveLast
<1>12. CASE Interrupt(p)
    BY <1>a, <1>b, <1>1, <1>12 DEF Interrupt
<1>13. CASE Kill(p)
    BY <1>a, <1>1, <1>13 DEF Kill
<1> QED
    BY <1>4, <1>5, <1>6, <1>7, <1>8, <1>9, <1>10, <1>11, <1>12, <1>13

\* The lock is taken in two steps and given back in one.
LEMMA LockEffect ==
    ASSUME TypeOK, NEW p \in Process, CheckLock(p) \/ WriteLock(p) \/ RemoveLock(p)
    PROVE  TypeOK' /\ NoFailure(p)
<1>1. {"done", "write", "note", "save"} \subseteq Place
    BY DEF Place, Saving, Inside
<1>2. PICK place \in Place : Go(p, place)
    BY <1>1 DEF CheckLock, WriteLock, RemoveLock
<1> QED
    BY <1>2, GoEffect DEF CheckLock, WriteLock, RemoveLock, TypeOK

\* The one step that sees a failure counts it, and the limit ends the mode RUN.
LEMMA FailEffect ==
    ASSUME SupervisorInv, NEW p \in Process, Fail(p)
    PROVE  TypeOK' /\ Keeps(p) /\ FailuresAreCounted'
<1> DEFINE m == proc[p].memory
           f == IF m.fallos < MaxFallos THEN m.fallos + 1 ELSE MaxFallos
           e == [modo |-> IF f >= MaxFallos THEN "PAUSE" ELSE m.modo, fallos |-> f]
<1>1. /\ TypeOK /\ proc[p].failed \in Nat /\ m.fallos \in 0 .. MaxFallos /\ m.modo = "RUN"
      /\ proc[p].failed <= m.fallos /\ proc[p].failed < MaxFallos
    BY DEF SupervisorInv, TypeOK, Running, Estado, FailuresAreCounted, Fail, InCycle
<1>2. f \in 0 .. MaxFallos /\ e \in Estado
    BY <1>1, LimitIsNat DEF Estado, Mode
<1>3. At(p, "cycle") /\ EndCycle(p, e, proc[p].failed + 1)
    BY DEF Fail, InCycle
<1>4. /\ TypeOK' /\ Keeps(p)
      /\ proc'[p].memory = e /\ proc'[p].failed = proc[p].failed + 1
      /\ \A q \in Process \ {p} :
           proc'[q].memory = proc[q].memory /\ proc'[q].failed = proc[q].failed
    <2> HIDE DEF e
    <2> QED
        BY <1>1, <1>2, <1>3, EndEffect
<1>5. proc[p].failed + 1 <= e.fallos /\ (e.modo = "RUN" => proc[p].failed + 1 < MaxFallos)
    BY <1>1, LimitIsNat
<1> HIDE DEF e
<1> QED
    BY <1>4, <1>5 DEF SupervisorInv, FailuresAreCounted

\* Nobody enters without the lock, and nobody finds it free while another is
\* inside or about to be.
LEMMA LockStep ==
    ASSUME SupervisorInv, NEW p \in Process, TypeOK',
           Keeps(p) \/ CheckLock(p) \/ WriteLock(p) \/ RemoveLock(p)
    PROVE  LockIsHeld'
<1>0. TypeOK /\ LockIsHeld /\ proc \in [Process -> Running] /\ lock \in Process \cup {NoLock}
    BY DEF SupervisorInv, TypeOK
<1>a. "idle" \notin Inside /\ "done" \notin Inside /\ "write" \notin Inside
      /\ "save" \notin Inside /\ "note" \in Inside /\ "release" \in Inside
      /\ NoLock \notin Process
    BY DEF Inside, NoLock, Process
<1>1. CASE Keeps(p)
    BY <1>0, <1>1 DEF Keeps, LockIsHeld, At
<1>2. CASE CheckLock(p)
  <2>1. /\ \A q \in Process \ {p} : proc'[q] = proc[q]
        /\ proc'[p].at = (IF Held THEN "done" ELSE "write")
        /\ lock' = lock
        /\ overlap' = (overlap \/ (~Held /\ \E q \in Process : At(q, "write")))
    BY <1>0, <1>2, GoEffect DEF CheckLock, Place, Saving, Inside
  <2>2. CASE Held
    BY <1>0, <1>a, <2>1, <2>2 DEF LockIsHeld, At
  <2>3. CASE ~Held
    <3> SUFFICES ASSUME ~overlap' PROVE LockIsHeld'
        BY DEF LockIsHeld
    <3>1. \A q \in Process : ~At(q, "write")
        BY <2>1, <2>3
    <3>2. \A q \in Process : proc[q].at \notin Inside
        BY <1>0, <1>a, <2>1, <2>3 DEF LockIsHeld, Held, Alive
    <3> QED
        BY <1>a, <2>1, <2>3, <3>1, <3>2 DEF LockIsHeld, At
  <2> QED
    BY <2>2, <2>3
<1>3. CASE WriteLock(p)
  <2>1. /\ \A q \in Process \ {p} : proc'[q] = proc[q]
        /\ proc'[p].at = "note" /\ At(p, "write")
        /\ lock' = p /\ overlap' = overlap
    BY <1>0, <1>3, GoEffect DEF WriteLock, Place, Saving, Inside
  <2> QED
    BY <1>0, <1>a, <2>1 DEF LockIsHeld, At
<1>4. CASE RemoveLock(p)
  <2>1. /\ \A q \in Process \ {p} : proc'[q] = proc[q]
        /\ proc'[p].at = "save" /\ proc[p].at = "release"
        /\ lock' = NoLock /\ overlap' = overlap
    BY <1>0, <1>4, GoEffect DEF RemoveLock, Place, Saving, At
  <2> QED
    BY <1>0, <1>a, <2>1 DEF LockIsHeld, At
<1> QED
    BY <1>1, <1>2, <1>3, <1>4

LEMMA SupervisorStep == SupervisorInv /\ [Next]_vars => SupervisorInv'
<1> SUFFICES ASSUME SupervisorInv, [Next]_vars PROVE SupervisorInv'
    OBVIOUS
<1>0. TypeOK /\ FailuresAreCounted
    BY DEF SupervisorInv
<1>1. ASSUME NEW p \in Process, TypeOK', NoFailure(p) PROVE FailuresAreCounted'
  <2>1. proc'[p].memory.fallos \in Nat /\ MaxFallos > 0
    BY <1>1, LimitIsNat DEF TypeOK, Running, Estado
  <2> QED
    BY <1>0, <1>1, <2>1 DEF NoFailure, FailuresAreCounted
<1>2. ASSUME NEW p \in Process, TypeOK', Keeps(p), NoFailure(p) PROVE SupervisorInv'
    BY <1>1, <1>2, LockStep DEF SupervisorInv
<1>3. ASSUME NEW p \in Process, CheckLock(p) \/ WriteLock(p) \/ RemoveLock(p)
      PROVE  SupervisorInv'
  <2>1. TypeOK' /\ NoFailure(p)
    BY <1>0, <1>3, LockEffect
  <2> QED
    BY <1>1, <1>3, <2>1, LockStep DEF SupervisorInv
<1>4. ASSUME NEW p \in Process, Fail(p) PROVE SupervisorInv'
  <2>1. TypeOK' /\ Keeps(p) /\ FailuresAreCounted'
    BY <1>4, FailEffect
  <2> QED
    BY <2>1, LockStep DEF SupervisorInv
<1>5. ASSUME NEW p \in Process,
             \/ \E place \in {"mode", "reprogram", "check"} : Launch(p, place)
             \/ \E m \in Mode \cup {NoMode} : SetModo(p, m)
             \/ ReprogramarIntervalo(p)
      PROVE  SupervisorInv'
    BY <1>0, <1>2, <1>5, CommandEffect
<1>6. ASSUME NEW p \in Process,
             \/ NoteLock(p) \/ Detenido(p) \/ Observe(p) \/ Succeed(p) \/ Violate(p)
             \/ Rest(p) \/ Wake(p) \/ SaveLast(p) \/ Interrupt(p) \/ Kill(p)
      PROVE  SupervisorInv'
    BY <1>0, <1>2, <1>6, DaemonEffect
<1>7. CASE UNCHANGED vars
    BY <1>7 DEF vars, SupervisorInv, TypeOK, LockIsHeld, FailuresAreCounted, At
<1> QED
    BY <1>3, <1>4, <1>5, <1>6, <1>7 DEF Next, Step

LEMMA SupervisorStart == Init => SupervisorInv
<1> SUFFICES ASSUME Init PROVE SupervisorInv
    OBVIOUS
<1>1. \A p \in Process : proc[p] \in Running /\ proc[p].at = "idle" /\ proc[p].failed = 0
    BY AbsentType DEF Init, Place
<1>2. TypeOK
  <2>1. Fresh \in Estado
    BY LimitIsNat DEF Fresh, Estado, Mode
  <2>2. proc \in [Process -> Running]
    BY <1>1 DEF Init
  <2> QED
    BY <2>1, <2>2 DEF Init, TypeOK
<1>3. FailuresAreCounted
    BY <1>1, LimitIsNat DEF FailuresAreCounted, Running, Estado
<1>4. LockIsHeld
    BY <1>1 DEF LockIsHeld, At, Inside
<1> QED
    BY <1>2, <1>3, <1>4 DEF SupervisorInv

LEMMA SupervisorHolds == MaintenanceSpec => []SupervisorInv
<1>1. MaintenanceInit => SupervisorInv
    BY SupervisorStart DEF MaintenanceInit
<1>2. SupervisorInv /\ [MaintenanceNext]_maintenanceVars => SupervisorInv'
    BY SupervisorStep DEF MaintenanceNext, maintenanceVars, Updating
<1> QED
    BY <1>1, <1>2, PTL DEF MaintenanceSpec

\* Two processes are in their cycles together only if two found the lock free at
\* once (adquirir_lock, liberar_lock).
THEOREM OneDaemon == MaintenanceSpec => []Exclusion
<1>1. SupervisorInv => Exclusion
  <2> SUFFICES ASSUME SupervisorInv, ~overlap
               PROVE  Cardinality({p \in Process : proc[p].at \in Inside}) <= 1
    BY DEF Exclusion
  <2> DEFINE S == {p \in Process : proc[p].at \in Inside}
  <2>1. \A p, q \in S : p = q
    BY DEF SupervisorInv, LockIsHeld
  <2> HIDE DEF S
  <2>2. ASSUME S = {} PROVE Cardinality(S) = 0
    BY <2>2, FS_EmptySet
  <2>3. ASSUME NEW p \in S PROVE Cardinality(S) = 1
    <3>1. S = {p}
        BY <2>1
    <3> QED
        BY <3>1, FS_Singleton
  <2>4. Cardinality(S) <= 1
    BY <2>2, <2>3
  <2> QED
    BY <2>4 DEF S
<1> QED
    BY <1>1, SupervisorHolds, PTL

\* No process executes after MaxFallos objectives have failed in a row
\* (ejecutar_ciclo), whatever count it started from.
THEOREM DaemonGivesUp == MaintenanceSpec => []GivesUp
<1>1. SupervisorInv => GivesUp
    BY LimitIsNat DEF SupervisorInv, FailuresAreCounted, GivesUp, TypeOK, Running, Estado
<1> QED
    BY <1>1, SupervisorHolds, PTL
-----------------------------------------------------------------------------

\* The operations that carry the file they install.
Installing == {"removeBackup", "backUp", "deploy", "copy", "restore"}

\* The files are what they can be, and what is to be installed was found whole
\* and newer than what runs.
UpdateTypes ==
    /\ up \in BOOLEAN /\ running \in Version /\ updateActive \in BOOLEAN
    /\ rolledBack \in BOOLEAN /\ restoreFailed \in BOOLEAN /\ begun \in Nat
    /\ op \in Op
    /\ activeExe \in File \cup {None} /\ backupExe \in File \cup {None}
    /\ \A d \in downloads : d.file \in File /\ d.file.version > running
    /\ op.at \in Installing => op.file.content = "whole" /\ op.file.version > running
    /\ ~up => op = Idle /\ ~updateActive /\ downloads = {}

\* Which of the two files is whole before each system call, unless putting a
\* backup back has failed.
OneIsWhole ==
    ~restoreFailed =>
      /\ backupExe # None => Whole(backupExe)
      /\ up /\ op.at \in {"idle", "removeBackup", "backUp", "removeActive"} => Whole(activeExe)
      /\ op.at \in {"deploy", "copy", "restore", "removeActive", "renameBack"} =>
           backupExe # None
      /\ Whole(activeExe) \/ backupExe # None

\* While a process installs its first update, what runs is in place, and from
\* the moment it is renamed it is the backup.
Current == [version |-> running, content |-> "whole"]

FirstUpdate ==
    up /\ ~rolledBack =>
      /\ begun = 0 => op = Idle /\ activeExe = Current /\ ~updateActive
      /\ begun = 1 =>
           /\ op.at \in {"removeBackup", "backUp"} => activeExe = Current /\ ~updateActive
           /\ op.at \in {"deploy", "copy", "restore"} => backupExe = Current /\ ~updateActive
           /\ op = Idle => ~updateActive \/ backupExe = Current
      /\ op.at \notin {"removeActive", "renameBack"}

\* No file that a start could run, now or after what is under way, is older.
NothingOlder ==
    ~rolledBack =>
      /\ activeExe # None => activeExe.version >= running
      /\ backupExe # None /\ (activeExe = None \/ op.at \in {"deploy", "copy", "restore"}) =>
           backupExe.version >= running

VersionInv == UpdateTypes /\ OneIsWhole /\ FirstUpdate /\ NothingOlder

LEMMA FileParts ==
    /\ \A f \in File : f # None /\ f.version \in Int
    /\ running \in Version => /\ Current \in File /\ Current.version = running
                              /\ Current.content = "whole" /\ running \in Int
    /\ \A f \in File : f.version = running /\ f.content = "whole" => f = Current
<1>1. \A f \in File : f # None
    BY DEF File, None
<1>2. \A f \in File : f.version \in Int
    BY DEF File, Version
<1>3. running \in Version => /\ Current \in File /\ Current.version = running
                             /\ Current.content = "whole" /\ running \in Int
    BY DEF File, Content, Version, Current
<1>4. \A f \in File : f.version = running /\ f.content = "whole" => f = Current
    BY DEF File, Current
<1> QED
    BY <1>1, <1>2, <1>3, <1>4

LEMMA OpParts ==
    ASSUME op \in Op
    PROVE  /\ op.at \in Installing \cup {"removeActive", "renameBack", "idle"}
           /\ op.at = "idle" <=> op = Idle
           /\ op.at \in Installing => op = [at |-> op.at, file |-> op.file] /\ op.file \in File
           /\ op.at \in {"removeActive", "renameBack"} => op = [at |-> op.at]
BY DEF Op, Idle, Installing

\* The next call of an operation keeps its file.
LEMMA ProceedEffect ==
    ASSUME op \in Op, NEW at, Proceed(at),
           \/ op.at \in Installing /\ at \in Installing
           \/ op.at = "removeActive" /\ at = "renameBack"
    PROVE  /\ op' \in Op /\ op'.at = at /\ op' # Idle
           /\ at \in Installing => op'.file = op.file
<1>1. CASE op.at \in Installing /\ at \in Installing
  <2>1. op' = [at |-> at, file |-> op.file] /\ op.file \in File
    BY <1>1, OpParts DEF Proceed
  <2> QED
    BY <1>1, <2>1 DEF Op, Idle, Installing
<1>2. CASE op.at = "removeActive" /\ at = "renameBack"
    BY <1>2, OpParts DEF Proceed, Op, Idle, Installing
<1> QED
    BY <1>1, <1>2

LEMMA VersionStep == VersionInv /\ [VersionNext]_versionVars => VersionInv'
<1> SUFFICES ASSUME VersionInv, [VersionNext]_versionVars PROVE VersionInv'
    OBVIOUS
<1> USE OpParts, FileParts
<1>0. UpdateTypes /\ OneIsWhole /\ FirstUpdate /\ NothingOlder /\ running \in Version
    BY DEF VersionInv, UpdateTypes
<1>b. running' = running => Current' = Current
    BY DEF Current
<1>c. op' = Idle => op'.at = "idle"
    BY DEF Idle
<1>1. ASSUME NEW v \in Version, NEW c \in {"whole", "forged"},
             DownloadAndApplyUpdate([version |-> v, content |-> c])
      PROVE  VersionInv'
    BY <1>0, <1>b, <1>1 DEF DownloadAndApplyUpdate, VersionInv, UpdateTypes, OneIsWhole,
       FirstUpdate,
       NothingOlder, File, Content, history, Whole
<1>2. ASSUME NEW d \in downloads, PrepareAtomicUpdate(d) PROVE VersionInv'
  <2>1. d.file \in File /\ d.file.version > running
    BY <1>0 DEF UpdateTypes
  <2>2. CASE Whole(d.file)
    <3>1. op' = [at |-> "removeBackup", file |-> d.file] /\ begun' = begun + 1
        BY <1>2, <2>2 DEF PrepareAtomicUpdate
    <3>2. op' \in Op /\ op'.at = "removeBackup" /\ op'.file = d.file /\ op' # Idle
        BY <2>1, <3>1 DEF Op, Idle
    <3> QED
        BY <1>0, <1>b, <1>2, <2>1, <2>2, <3>1, <3>2 DEF PrepareAtomicUpdate, VersionInv,
           UpdateTypes,
           OneIsWhole, FirstUpdate, NothingOlder, bounds, Whole, Idle, Installing
  <2>3. CASE ~Whole(d.file)
    BY <1>0, <1>b, <1>2, <2>3 DEF PrepareAtomicUpdate, VersionInv, UpdateTypes,
       OneIsWhole, FirstUpdate, NothingOlder, bounds, Whole, Idle
  <2> QED
    BY <2>2, <2>3
<1>3. CASE RemoveBackup
  <2>1. op' \in Op /\ op'.at = "backUp" /\ op' # Idle /\ op'.file = op.file
    BY <1>0, <1>b, <1>3, ProceedEffect DEF RemoveBackup, UpdateTypes, Installing
  <2> QED
    BY <1>0, <1>b, <1>3, <2>1 DEF RemoveBackup, VersionInv, UpdateTypes, OneIsWhole,
       FirstUpdate, NothingOlder, others, history, Whole, Idle, Installing
<1>4. CASE BackUp
  <2>1. CASE Proceed("deploy")
    <3>1. op' \in Op /\ op'.at = "deploy" /\ op' # Idle /\ op'.file = op.file
        BY <1>0, <1>b, <1>4, <2>1, ProceedEffect DEF BackUp, UpdateTypes, Installing
    <3>2. UpdateTypes'
      BY <1>0, <1>b, <1>4, <3>1 DEF BackUp, others, history, UpdateTypes, Whole, Installing,
         Idle
    <3>3. OneIsWhole'
      BY <1>0, <1>b, <1>4, <3>1 DEF BackUp, others, history, OneIsWhole, UpdateTypes, Whole,
         Idle, Installing
    <3>4. FirstUpdate'
      BY <1>0, <1>b, <1>4, <3>1 DEF BackUp, others, history, FirstUpdate, UpdateTypes, Whole,
         Idle, Installing
    <3>5. NothingOlder'
      BY <1>0, <1>b, <1>4, <3>1 DEF BackUp, others, history, NothingOlder, UpdateTypes,
         FirstUpdate, Whole, Idle, Installing
    <3> QED
      BY <3>2, <3>3, <3>4, <3>5 DEF VersionInv
  <2>2. CASE op' = Idle /\ UNCHANGED <<activeExe, backupExe>>
    BY <1>0, <1>b, <1>4, <2>2 DEF BackUp, VersionInv, UpdateTypes, OneIsWhole, FirstUpdate,
       NothingOlder, others, history, Whole, Op, Idle, Installing
  <2> QED
    BY <1>4, <2>1, <2>2 DEF BackUp
<1>5. CASE Deploy \/ Copy
  <2>1. CASE Installed
    <3>1. UpdateTypes'
      BY <1>0, <1>b, <1>c, <1>5, <2>1 DEF Installed, Deploy, Copy, others, history,
         UpdateTypes, Whole, Installing, Idle, Op
    <3>2. OneIsWhole'
      BY <1>0, <1>b, <1>c, <1>5, <2>1 DEF Installed, Deploy, Copy, others, history, OneIsWhole,
         UpdateTypes, Whole, Idle, Installing
    <3>3. FirstUpdate'
      BY <1>0, <1>b, <1>c, <1>5, <2>1 DEF Installed, Deploy, Copy, others, history,
         FirstUpdate, UpdateTypes, Whole, Idle, Installing
    <3>4. NothingOlder'
      <4>1. op.file \in File /\ op.file.version > running
          BY <1>0, <1>5 DEF Deploy, Copy, Installing, UpdateTypes
      <4>2. activeExe' = op.file /\ running' = running /\ op'.at = "idle"
          BY <1>c, <1>5, <2>1 DEF Installed, Deploy, Copy, others
      <4> QED
          BY <1>0, <4>1, <4>2 DEF NothingOlder
    <3> QED
      BY <3>1, <3>2, <3>3, <3>4 DEF VersionInv
  <2>2. CASE Proceed("copy") /\ activeExe' = [op.file EXCEPT !.content = "cut"] /\ Deploy
    <3>1. op' \in Op /\ op'.at = "copy" /\ op' # Idle /\ op'.file = op.file /\ op.file \in File
        BY <1>0, <1>b, <2>2, ProceedEffect DEF Deploy, UpdateTypes, Installing
    <3>2. activeExe' \in File /\ activeExe'.version = op.file.version
        BY <2>2, <3>1 DEF File, Content
    <3>3. op.at = "deploy" /\ UNCHANGED <<others, backupExe, history, updateActive, faults>>
      <4>1. op' # Idle /\ op'.at # "restore"
          BY <3>1
      <4>2. ~Installed /\ ~Proceed("restore")
          BY <1>0, <2>2, <4>1, ProceedEffect DEF Installed, Deploy, Installing, UpdateTypes
      <4> QED
          BY <2>2, <4>2 DEF Deploy
    <3>4. UpdateTypes'
      BY <1>0, <1>b, <3>1, <3>2, <3>3 DEF others, history, UpdateTypes, Whole, Installing, Idle
    <3>5. OneIsWhole'
      BY <1>0, <1>b, <3>1, <3>2, <3>3 DEF others, history, OneIsWhole, UpdateTypes, Whole,
         Idle, Installing
    <3>6. FirstUpdate'
      BY <1>0, <1>b, <3>1, <3>2, <3>3 DEF others, history, FirstUpdate, UpdateTypes, Whole,
         Idle, Installing
    <3>7. NothingOlder'
      BY <1>0, <1>b, <3>1, <3>2, <3>3 DEF others, history, NothingOlder, UpdateTypes,
         FirstUpdate, Whole, Idle, Installing
    <3> QED
      BY <3>4, <3>5, <3>6, <3>7 DEF VersionInv
  <2>3. CASE Proceed("restore") /\ UNCHANGED <<activeExe, updateActive>>
    <3>1. op' \in Op /\ op'.at = "restore" /\ op' # Idle /\ op'.file = op.file
        BY <1>0, <1>b, <1>5, <2>3, ProceedEffect DEF Deploy, Copy, UpdateTypes, Installing
    <3> QED
        BY <1>0, <1>b, <1>5, <2>3, <3>1 DEF Deploy, Copy, VersionInv, UpdateTypes, OneIsWhole,
           FirstUpdate, NothingOlder, others, history, Whole, Idle, Installing
  <2> QED
    BY <1>5, <2>1, <2>2, <2>3 DEF Deploy, Copy
<1>6. CASE Restore \/ RollBack
  <2>1. /\ up /\ op' = Idle /\ op'.at = "idle" /\ UNCHANGED <<others, begun, rolledBack>>
        /\ RenameBack /\ op.at \in {"restore", "renameBack"}
    BY <1>0, <1>6 DEF Restore, RollBack, UpdateTypes, Idle, Op
  <2>2. updateActive' \in BOOLEAN
    BY <1>0, <1>6 DEF Restore, RollBack, UpdateTypes
  <2>3. ~rolledBack => op.at = "restore" /\ UNCHANGED updateActive
    BY <1>0, <1>6, <2>1 DEF FirstUpdate, Restore, RollBack
  <2>4. UpdateTypes'
    BY <1>0, <1>b, <2>1, <2>2, <2>3 DEF RenameBack, others, history, UpdateTypes, Whole,
       Installing, Idle, Op
  <2>5. OneIsWhole'
    BY <1>0, <1>b, <2>1, <2>2, <2>3 DEF RenameBack, others, history, OneIsWhole, UpdateTypes,
       Whole, Idle, Installing
  <2>6. FirstUpdate'
    BY <1>0, <1>b, <2>1, <2>2, <2>3 DEF RenameBack, others, history, FirstUpdate, UpdateTypes,
       Whole, Idle, Installing
  <2>7. NothingOlder'
    BY <1>0, <1>b, <2>1, <2>2, <2>3 DEF RenameBack, others, history, NothingOlder, UpdateTypes,
       FirstUpdate, Whole, Idle, Installing
  <2> QED
    BY <2>4, <2>5, <2>6, <2>7 DEF VersionInv
<1>7. CASE ConfirmSuccess
    BY <1>0, <1>b, <1>7 DEF ConfirmSuccess, VersionInv, UpdateTypes, OneIsWhole, FirstUpdate,
       NothingOlder, others, history, Whole, Idle, Installing
<1>8. CASE ExecuteRollback
    BY <1>0, <1>b, <1>8 DEF ExecuteRollback, VersionInv, UpdateTypes, OneIsWhole, FirstUpdate,
       NothingOlder, bounds, Whole, Op, Idle, Installing
<1>9. CASE RemoveActive
  <2>1. op' \in Op /\ op'.at = "renameBack" /\ op' # Idle
    BY <1>0, <1>b, <1>9, ProceedEffect DEF RemoveActive, UpdateTypes, Installing
  <2> QED
    BY <1>0, <1>b, <1>9, <2>1 DEF RemoveActive, VersionInv, UpdateTypes, OneIsWhole,
       FirstUpdate, NothingOlder, others, history, Whole, Idle, Installing
<1>10. CASE Crash
    BY <1>0, <1>b, <1>10 DEF Crash, VersionInv, UpdateTypes, OneIsWhole, FirstUpdate,
       NothingOlder, history, Whole, Op, Idle, Installing
<1>11. CASE Start
  <2>1. activeExe = Current'
    BY <1>0, <1>11 DEF Start, UpdateTypes, Whole, File, Current
  <2>2. UpdateTypes'
    BY <1>0, <1>b, <1>11 DEF Start, bounds, UpdateTypes, Whole, Installing, Idle, File
  <2>3. OneIsWhole'
    BY <1>0, <1>b, <1>11 DEF Start, bounds, OneIsWhole, UpdateTypes, Whole, Idle, Installing
  <2>4. FirstUpdate'
    BY <1>0, <1>11, <2>1 DEF Start, bounds, FirstUpdate, UpdateTypes, Whole, Idle, Installing
  <2>5. NothingOlder'
    BY <1>0, <1>b, <1>11 DEF Start, bounds, NothingOlder, UpdateTypes, FirstUpdate, Whole,
       Idle, Installing
  <2> QED
    BY <2>2, <2>3, <2>4, <2>5 DEF VersionInv
<1>12. CASE UNCHANGED versionVars
    BY <1>0, <1>b, <1>12 DEF versionVars, process, bounds, history, VersionInv, UpdateTypes,
       OneIsWhole, FirstUpdate, NothingOlder, Whole
<1> QED
    BY <1>1, <1>2, <1>3, <1>4, <1>5, <1>6, <1>7, <1>8, <1>9, <1>10, <1>11, <1>12
    DEF VersionNext

LEMMA VersionHolds == MaintenanceSpec => []VersionInv
<1>1. MaintenanceInit => VersionInv
  <2> SUFFICES ASSUME VersionInit PROVE VersionInv
    BY DEF MaintenanceInit
  <2>1. 1 \in Version /\ running = 1
    BY VersionManagerAssumption DEF Version, VersionInit
  <2>2. activeExe = Current /\ backupExe = None /\ op = Idle /\ op.at = "idle" /\ op \in Op
    BY <2>1 DEF VersionInit, Current, Idle, Op
  <2>3. UpdateTypes
    BY <2>1, <2>2, FileParts DEF VersionInit, UpdateTypes, Installing
  <2>4. OneIsWhole /\ FirstUpdate /\ NothingOlder
    BY <2>1, <2>2, FileParts DEF VersionInit, OneIsWhole, FirstUpdate, NothingOlder, Whole
  <2> QED
    BY <2>3, <2>4 DEF VersionInv
<1>2. VersionInv /\ [MaintenanceNext]_maintenanceVars => VersionInv'
    BY VersionStep DEF MaintenanceNext, maintenanceVars, Supervising
<1> QED
    BY <1>1, <1>2, PTL DEF MaintenanceSpec

\* Whatever fails and whenever the process dies, a whole binary is left, and a
\* first update can be undone to what runs (PrepareAtomicUpdate, ExecuteRollback).
THEOREM UpdatesCanBeUndone == MaintenanceSpec => []UpdateCanBeUndone
<1>1. VersionInv => UpdateCanBeUndone
    BY OpParts DEF VersionInv, UpdateTypes, OneIsWhole, FirstUpdate, Current, Idle, Installing,
       UpdateCanBeUndone, Recoverable, BackupIsRunning
<1> QED
    BY <1>1, VersionHolds, PTL

\* A process that rolled nothing back is not followed by an older one, whatever
\* was installed, cut short or put back in between (IsHigherVersion).
THEOREM NewerOrEqual == MaintenanceSpec => NeverOlder
<1>1. VersionInv /\ [MaintenanceNext]_maintenanceVars
      => [up' /\ ~up => running' >= running \/ rolledBack]_versionVars
  <2> SUFFICES ASSUME VersionInv, [MaintenanceNext]_maintenanceVars, up', ~up, ~rolledBack
               PROVE  running' >= running
    OBVIOUS
  <2>1. [VersionNext]_versionVars
    BY DEF MaintenanceNext, maintenanceVars, Supervising
  <2>2. Start
    BY <2>1 DEF VersionNext, versionVars, process, others, DownloadAndApplyUpdate,
       PrepareAtomicUpdate, RemoveBackup, BackUp, Deploy, Copy, Restore, ConfirmSuccess,
       ExecuteRollback, RemoveActive, RollBack, Crash
  <2> QED
    BY <2>2 DEF Start, VersionInv, NothingOlder, Whole
<1> QED
  <2>1. MaintenanceSpec => [][up' /\ ~up => running' >= running \/ rolledBack]_versionVars
    BY <1>1, VersionHolds, PTL DEF MaintenanceSpec
  <2> QED
    BY <2>1 DEF NeverOlder
==============================================================================
