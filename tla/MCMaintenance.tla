---------------------------- MODULE MCMaintenance ----------------------------
(* The two parts that change what runs: the supervisor daemon with its lock    *)
(* and state files, and the version manager with the binary of the node. They  *)
(* share nothing: focus says which of them acts.                               *)
EXTENDS Supervisor, VersionManager

VARIABLES
    focus

maintenanceVars == <<vars, versionVars, focus>>

Supervising == focus = "supervisor" /\ UNCHANGED <<versionVars, focus>>
Updating == focus = "update" /\ UNCHANGED <<vars, focus>>

MaintenanceInit == focus \in {"supervisor", "update"} /\ Init /\ VersionInit

MaintenanceNext ==
    \/ Next /\ Supervising
    \/ VersionNext /\ Updating

MaintenanceSpec ==
    /\ MaintenanceInit /\ [][MaintenanceNext]_maintenanceVars
    /\ \A p \in Process : WF_maintenanceVars(Step(p) /\ Supervising)

\* An update can be undone: a whole binary is left whatever fails, and the backup of the first
\* update is what runs (version_manager.go:255-321).
UpdateCanBeUndone == Recoverable /\ BackupIsRunning
=============================================================================
