----------------------------- MODULE Supervisor -----------------------------
(***************************************************************************)
(* The repository's supervisor daemon (src/sistema/daemon/supervisor.py    *)
(* and state_manager.py).  Every command is a process of its own: start,   *)
(* run-once, mode and reprogram.  They share two files, daemon.lock and    *)
(* estado.json, and nothing protects either: a process loads estado.json   *)
(* when it is created, and every save writes back its whole copy.          *)
(*                                                                         *)
(* Of estado.json the mode and the count of failures are kept; the         *)
(* intervals only say how long a sleep lasts.  The recovery that every     *)
(* process attempts first has no effect, because the name of its journal,  *)
(* SRC_TRANS_PATH, is not defined and the NameError is swallowed.          *)
(***************************************************************************)
EXTENDS Integers, FiniteSets

CONSTANTS MaxProcesses, \* bound: commands launched
          MaxFallos     \* max_fallos_consecutivos

ASSUME SupervisorAssumption ==
    /\ MaxProcesses \in Nat
    /\ MaxFallos \in Nat \ {0}

VARIABLES lock,    \* the process daemon.lock names, or NoLock
          estado,  \* estado.json
          proc,    \* the processes, see Running
          overlap  \* history: two processes found the lock free at once

vars == <<lock, estado, proc, overlap>>

\* Numbered in the order of their launch.
Process == 1 .. MaxProcesses

Mode == {"RUN", "PAUSE", "SAFE", "STOP"}
NoMode == "none"
NoLock == 0
Estado == [modo : Mode, fallos : 0 .. MaxFallos]

Saving == {"mode", "reprogram", "note", "cycle", "rest", "save"}
Inside == {"note", "cycle", "rest", "sleep", "release"}
Place == Saving \cup Inside \cup {"idle", "check", "write", "done"}

\* at: where the process is.  memory: its copy of estado.json.  loops: it runs
\* start.  hot (history): the mode asked for while it slept, unless somebody
\* else has saved estado.json since.  failed (history): objectives it has
\* failed since the last one it completed.
Running == [at : Place, memory : Estado, loops : BOOLEAN,
            hot : Mode \cup {NoMode}, failed : Nat]

TypeOK ==
    /\ lock \in Process \cup {NoLock}
    /\ estado \in Estado
    /\ proc \in [Process -> Running]
    /\ overlap \in BOOLEAN

Fresh == [modo |-> "RUN", fallos |-> 0]
Absent(place) == [at |-> place, memory |-> Fresh, loops |-> FALSE,
                  hot |-> NoMode, failed |-> 0]

\* The estado.json the repository ships.
Init ==
    /\ lock = NoLock
    /\ estado = Fresh
    /\ proc = [p \in Process |-> Absent("idle")]
    /\ overlap = FALSE
-----------------------------------------------------------------------------
At(p, place) == proc[p].at = place
Alive(p) == proc[p].at \notin {"idle", "done"}

Moved(p, place) ==
    IF place = "done" THEN Absent("done") ELSE [proc[p] EXCEPT !.at = place]

Go(p, place) == proc' = [proc EXCEPT ![p] = Moved(p, place)]

\* guardar_estado, after which the process goes on as in next.
Save(p, e, next) ==
    /\ estado' = e
    /\ proc' = [q \in Process |->
                  IF q # p THEN [proc[q] EXCEPT !.hot = NoMode]
                  ELSE IF next.at = "done" THEN next
                  ELSE [next EXCEPT !.memory = e]]

\* cargar_estado: a file that another process is writing does not parse, and
\* the values by default then stand for it.
Loaded(p) ==
    {estado} \cup
    {[modo |-> "STOP", fallos |-> 0] : q \in {r \in Process \ {p} : proc[r].at \in Saving}}

\* DaemonSupervisor.__init__.
Launch(p, place) ==
    /\ At(p, "idle")
    /\ p > 1 => ~At(p - 1, "idle")
    /\ \E always \in BOOLEAN, e \in Loaded(p) :
         /\ always => place \in {"check", "reprogram"}
         /\ proc' = [proc EXCEPT ![p] = [Absent(place) EXCEPT !.memory = e, !.loops = always]]
    /\ UNCHANGED <<lock, estado, overlap>>

\* RUN asks a sleeping process for nothing.
Asked(q, m) == IF At(q, "sleep") /\ m # "RUN" THEN m ELSE NoMode

\* mode: whoever sleeps is asked to change while it runs.
SetModo(p, m) ==
    /\ At(p, "mode")
    /\ IF m \notin Mode THEN Go(p, "done") /\ UNCHANGED estado
       ELSE /\ estado' = [proc[p].memory EXCEPT !.modo = m]
            /\ proc' = [q \in Process |->
                          IF q = p THEN Absent("done")
                          ELSE [proc[q] EXCEPT !.hot = Asked(q, m)]]
    /\ UNCHANGED <<lock, overlap>>

\* reprogram, or the interval given to start.
ReprogramarIntervalo(p) ==
    /\ At(p, "reprogram")
    /\ \/ Save(p, proc[p].memory, Moved(p, IF proc[p].loops THEN "check" ELSE "done"))
       \/ Go(p, IF proc[p].loops THEN "check" ELSE "done") /\ UNCHANGED estado
    /\ UNCHANGED <<lock, overlap>>
-----------------------------------------------------------------------------
Held == lock # NoLock /\ Alive(lock)

\* Mutant: a rejected process, too, passes through liberar_lock.
CheckAlwaysReleases(p) ==
    /\ At(p, "check")
    /\ Go(p, IF Held THEN "release" ELSE "write")
    /\ overlap' = (overlap \/ (~Held /\ \E q \in Process : At(q, "write")))
    /\ UNCHANGED <<lock, estado>>

\* adquirir_lock, first half: a lock of a process that is gone does not count.
CheckLock(p) ==
    /\ At(p, "check")
    /\ Go(p, IF Held THEN "done" ELSE "write")
    /\ overlap' = (overlap \/ (~Held /\ \E q \in Process : At(q, "write")))
    /\ UNCHANGED <<lock, estado>>

WriteLock(p) ==
    /\ At(p, "write")
    /\ lock' = p
    /\ Go(p, "note")
    /\ UNCHANGED <<estado, overlap>>

NoteLock(p) ==
    /\ At(p, "note")
    /\ Save(p, proc[p].memory, Moved(p, "cycle"))
    /\ UNCHANGED <<lock, overlap>>

\* The mode of a cycle is the one this process remembers.
InCycle(p, modes) == At(p, "cycle") /\ proc[p].memory.modo \in modes

Detenido(p) ==
    /\ InCycle(p, {"STOP"})
    /\ Go(p, "release")
    /\ UNCHANGED <<lock, estado, overlap>>

\* The end of a cycle that leaves e behind, failed as given.
EndCycle(p, e, failed) ==
    /\ Save(p, e, [Moved(p, IF proc[p].loops THEN "rest" ELSE "release")
                     EXCEPT !.failed = failed])
    /\ UNCHANGED <<lock, overlap>>

Observe(p) ==
    /\ InCycle(p, {"PAUSE", "SAFE"})
    /\ EndCycle(p, proc[p].memory, proc[p].failed)

\* There is no objective, or it is done.
Succeed(p) ==
    /\ InCycle(p, {"RUN"})
    /\ EndCycle(p, [proc[p].memory EXCEPT !.fallos = 0], 0)

\* Mutant: one failure too many before the pause.
FailLater(p) ==
    LET m == proc[p].memory IN
    /\ InCycle(p, {"RUN"})
    /\ EndCycle(p, [modo |-> IF m.fallos >= MaxFallos THEN "PAUSE" ELSE m.modo,
                    fallos |-> IF m.fallos < MaxFallos THEN m.fallos + 1 ELSE m.fallos],
                proc[p].failed + 1)

\* A count at the limit needs no larger value: the comparison is >=.
Fail(p) ==
    LET m == proc[p].memory
        fallos == IF m.fallos < MaxFallos THEN m.fallos + 1 ELSE MaxFallos IN
    /\ InCycle(p, {"RUN"})
    /\ EndCycle(p, [modo |-> IF fallos >= MaxFallos THEN "PAUSE" ELSE m.modo,
                    fallos |-> fallos],
                proc[p].failed + 1)

\* Scope violation, found before or after the task.
Violate(p) ==
    /\ InCycle(p, {"RUN"})
    /\ EndCycle(p, [proc[p].memory EXCEPT !.modo = "SAFE"], proc[p].failed)

\* The loop saves the next wake-up after the cycle has saved its result.
Rest(p) ==
    /\ At(p, "rest")
    /\ Save(p, proc[p].memory, Moved(p, "sleep"))
    /\ UNCHANGED <<lock, overlap>>

\* Mutant: the sleep does not look at estado.json.
WakeBlind(p) ==
    /\ At(p, "sleep")
    /\ Go(p, "cycle")
    /\ UNCHANGED <<lock, estado, overlap>>

\* Every second, and once more before it wakes, the sleep looks for STOP.
Wake(p) ==
    /\ At(p, "sleep")
    /\ \E e \in Loaded(p) : Go(p, IF e.modo = "STOP" THEN "release" ELSE "cycle")
    /\ UNCHANGED <<lock, estado, overlap>>

\* liberar_lock removes the file, whosever it is, and then saves.
RemoveLock(p) ==
    /\ At(p, "release")
    /\ lock' = NoLock
    /\ Go(p, "save")
    /\ UNCHANGED <<estado, overlap>>

SaveLast(p) ==
    /\ At(p, "save")
    /\ Save(p, proc[p].memory, Moved(p, "done"))
    /\ UNCHANGED <<lock, overlap>>

\* Ctrl+C, or an exception in the cycle: the finally clause runs.
Interrupt(p) ==
    /\ proc[p].at \in Inside \ {"note", "release"}
    /\ Go(p, "release")
    /\ UNCHANGED <<lock, estado, overlap>>

\* Killed: the lock stays.
Kill(p) ==
    /\ Alive(p)
    /\ Go(p, "done")
    /\ UNCHANGED <<lock, estado, overlap>>

Step(p) ==
    \/ \E m \in Mode \cup {NoMode} : SetModo(p, m)
    \/ ReprogramarIntervalo(p)
    \/ CheckLock(p) \/ WriteLock(p) \/ NoteLock(p)
    \/ Detenido(p) \/ Observe(p) \/ Succeed(p) \/ Fail(p) \/ Violate(p)
    \/ Rest(p) \/ Wake(p) \/ RemoveLock(p) \/ SaveLast(p)

Next ==
    \E p \in Process :
      \/ \E place \in {"mode", "reprogram", "check"} : Launch(p, place)
      \/ Step(p) \/ Interrupt(p) \/ Kill(p)

\* The operating system runs every process, and a sleep ends.
Fairness == \A p \in Process : WF_vars(Step(p))

Spec == Init /\ [][Next]_vars /\ Fairness
-----------------------------------------------------------------------------
\* Two processes run cycles together only after two have found the lock free
\* within the same instant: no rejection, crash, stale lock or late release
\* lets a second one in (adquirir_lock, liberar_lock; daemon/README.md:42).
Exclusion ==
    ~overlap => Cardinality({p \in Process : proc[p].at \in Inside}) <= 1

\* A process gives up executing after MaxFallos objectives failed in a row,
\* whatever count it started from and whoever saved estado.json meanwhile
\* (ejecutar_ciclo; daemon/README.md:43).
GivesUp == \A p \in Process : proc[p].failed <= MaxFallos

\* A STOP that finds the daemon asleep ends it, unless another process saves an
\* older estado.json over it first (bucle_continuo; daemon/README.md:37).
StopPending == \E p \in Process : proc[p].hot = "STOP"
StopEnds == StopPending ~> ~StopPending

\* daemon/README.md:66: mode changes the mode of operation of the running
\* daemon.  (The daemon looks for STOP only, and overwrites the rest.)
PauseIsHot ==
    \A p \in Process : InCycle(p, {"RUN"}) => proc[p].hot \notin {"PAUSE", "SAFE"}
=============================================================================
