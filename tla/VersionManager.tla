--------------------------- MODULE VersionManager ---------------------------
(***************************************************************************)
(* In-place replacement of the node's binary                               *)
(* (src/src/pkg/core/version_manager.go) as the admin API drives it        *)
(* (src/src/pkg/core/web_ui_handlers.go): apply an update, confirm it,     *)
(* roll it back.  The mutex admits one operation at a time, but each is    *)
(* several system calls, and the process may die after any of them: every  *)
(* call is a step.  A call may also fail, at most MaxFaults times.         *)
(*                                                                         *)
(* A file is absent or has a version and a content: whole, cut (being      *)
(* written, or its write failed) or forged (not what its hash promises).   *)
(* A rename replaces its target.  Only the two files survive a crash.      *)
(***************************************************************************)
EXTENDS Integers

CONSTANTS MaxVersion,  \* versions are 1 .. MaxVersion
          MaxApplies,  \* bound on updates requested
          MaxFaults,   \* bound on failed system calls
          MaxCrashes   \* bound on deaths of the process

ASSUME VersionManagerAssumption ==
    /\ MaxVersion \in Nat \ {0}
    /\ MaxApplies \in Nat /\ MaxFaults \in Nat /\ MaxCrashes \in Nat

VARIABLES up, running,      \* the process: is it alive, which version is it
          updateActive,     \* an update waits for its confirmation
          op,               \* the operation that holds the mutex
          downloads,        \* files downloaded, their hashes not yet checked
          activeExe, backupExe,
          applies, faults, crashes,
          begun,            \* history: updates this process began to install
          rolledBack,       \* history: whether it ran a rollback
          restoreFailed     \* history: a rename of the backup back has failed

process == <<up, running, updateActive, op, downloads>>
bounds == <<applies, faults, crashes>>
history == <<begun, rolledBack, restoreFailed>>
others == <<up, running, downloads, applies, crashes>>
versionVars == <<process, activeExe, backupExe, bounds, history>>

Version == 1 .. MaxVersion
Content == {"whole", "cut", "forged"}
File == [version : Version, content : Content]
None == [none |-> TRUE]
Idle == [at |-> "idle"]
Whole(file) == file # None /\ file.content = "whole"

Op == [at : {"removeBackup", "backUp", "deploy", "copy", "restore"}, file : File]
      \cup [at : {"removeActive", "renameBack"}] \cup {Idle}

VersionTypeOK ==
    /\ up \in BOOLEAN /\ running \in Version
    /\ updateActive \in BOOLEAN
    /\ op \in Op
    /\ downloads \subseteq [id : 1 .. MaxApplies, file : File]
    /\ {activeExe, backupExe} \subseteq File \cup {None}
    /\ applies \in 0 .. MaxApplies /\ faults \in 0 .. MaxFaults
    /\ crashes \in 0 .. MaxCrashes
    /\ begun \in 0 .. MaxApplies
    /\ rolledBack \in BOOLEAN /\ restoreFailed \in BOOLEAN

VersionInit ==
    /\ up = TRUE /\ running = 1 /\ updateActive = FALSE
    /\ op = Idle /\ downloads = {}
    /\ activeExe = [version |-> 1, content |-> "whole"]
    /\ backupExe = None
    /\ applies = 0 /\ faults = 0 /\ crashes = 0
    /\ begun = 0 /\ rolledBack = FALSE /\ restoreFailed = FALSE
-----------------------------------------------------------------------------
Fault == faults < MaxFaults /\ faults' = faults + 1

Proceed(at) == op' = [op EXCEPT !.at = at]

\* Mutant: the manifest's version is not compared.
DownloadAnyVersion(file) ==
    /\ up
    /\ applies < MaxApplies
    /\ applies' = applies + 1
    /\ downloads' = downloads \cup {[id |-> applies', file |-> file]}
    /\ UNCHANGED <<up, running, updateActive, op, activeExe, backupExe,
                   faults, crashes, history>>

\* CheckOnlineUpdate and the download.  The manifest's version is compared with
\* that of the running process, not with what activeExe holds by now.
DownloadAndApplyUpdate(file) ==
    /\ up
    /\ applies < MaxApplies
    /\ file.version > running
    /\ applies' = applies + 1
    /\ downloads' = downloads \cup {[id |-> applies', file |-> file]}
    /\ UNCHANGED <<up, running, updateActive, op, activeExe, backupExe,
                   faults, crashes, history>>

\* PrepareAtomicUpdate takes the mutex and checks the hash.
PrepareAtomicUpdate(d) ==
    /\ up /\ op = Idle
    /\ downloads' = downloads \ {d}
    /\ IF Whole(d.file)
       THEN op' = [at |-> "removeBackup", file |-> d.file] /\ begun' = begun + 1
       ELSE UNCHANGED <<op, begun>>
    /\ UNCHANGED <<up, running, updateActive, activeExe, backupExe, bounds,
                   rolledBack, restoreFailed>>

\* A failure to remove the previous backup is ignored.
RemoveBackup ==
    /\ op.at = "removeBackup"
    /\ \/ backupExe' = None /\ UNCHANGED faults
       \/ Fault /\ UNCHANGED backupExe
    /\ Proceed("backUp")
    /\ UNCHANGED <<others, updateActive, activeExe, history>>

\* Mutant: the running binary is left in place to be overwritten.
NoBackUp ==
    /\ op.at = "backUp"
    /\ Proceed("deploy")
    /\ UNCHANGED <<up, running, updateActive, downloads, activeExe, backupExe,
                   bounds, history>>

BackUp ==
    /\ op.at = "backUp"
    /\ \/ /\ activeExe = None
          /\ Proceed("deploy")
          /\ UNCHANGED <<activeExe, backupExe, faults>>
       \/ /\ activeExe # None
          /\ backupExe' = activeExe /\ activeExe' = None
          /\ Proceed("deploy")
          /\ UNCHANGED faults
       \/ /\ activeExe # None
          /\ Fault /\ op' = Idle
          /\ UNCHANGED <<activeExe, backupExe>>
    /\ UNCHANGED <<others, updateActive, history>>

Installed ==
    /\ activeExe' = op.file
    /\ updateActive' = TRUE
    /\ op' = Idle

\* copyOrMoveFile: a rename, or across file systems a copy into a truncated file.
Deploy ==
    /\ op.at = "deploy"
    /\ \/ Installed /\ UNCHANGED faults
       \/ /\ activeExe' = [op.file EXCEPT !.content = "cut"]
          /\ Proceed("copy")
          /\ UNCHANGED <<updateActive, faults>>
       \/ /\ Fault /\ Proceed("restore")
          /\ UNCHANGED <<activeExe, updateActive>>
    /\ UNCHANGED <<others, backupExe, history>>

Copy ==
    /\ op.at = "copy"
    /\ \/ Installed /\ UNCHANGED faults
       \/ /\ Fault /\ Proceed("restore")
          /\ UNCHANGED <<activeExe, updateActive>>
    /\ UNCHANGED <<others, backupExe, history>>

\* The backup goes back in place; if there is one and that fails, nobody learns.
RenameBack ==
    \/ /\ backupExe # None
       /\ activeExe' = backupExe /\ backupExe' = None
       /\ UNCHANGED <<faults, restoreFailed>>
    \/ /\ backupExe = None
       /\ UNCHANGED <<activeExe, backupExe, faults, restoreFailed>>
    \/ /\ backupExe # None
       /\ Fault /\ restoreFailed' = TRUE
       /\ UNCHANGED <<activeExe, backupExe>>

\* After a failed deployment.
Restore ==
    /\ op.at = "restore"
    /\ RenameBack
    /\ op' = Idle
    /\ UNCHANGED <<others, updateActive, begun, rolledBack>>

\* Nobody calls it yet but the tests.
ConfirmSuccess ==
    /\ up /\ op = Idle
    /\ updateActive
    /\ updateActive' = FALSE
    /\ \/ backupExe' = None /\ UNCHANGED faults
       \/ Fault /\ UNCHANGED backupExe
    /\ UNCHANGED <<others, op, activeExe, history>>

ExecuteRollback ==
    /\ up /\ op = Idle
    /\ backupExe # None
    /\ op' = [at |-> "removeActive"]
    /\ rolledBack' = TRUE
    /\ UNCHANGED <<up, running, updateActive, downloads, activeExe, backupExe,
                   bounds, begun, restoreFailed>>

RemoveActive ==
    /\ op.at = "removeActive"
    /\ \/ activeExe' = None /\ UNCHANGED faults
       \/ Fault /\ UNCHANGED activeExe
    /\ Proceed("renameBack")
    /\ UNCHANGED <<others, updateActive, backupExe, history>>

RollBack ==
    /\ op.at = "renameBack"
    /\ RenameBack
    /\ updateActive' = (restoreFailed' # restoreFailed /\ updateActive)
    /\ op' = Idle
    /\ UNCHANGED <<others, begun, rolledBack>>

Crash ==
    /\ up
    /\ crashes < MaxCrashes
    /\ crashes' = crashes + 1
    /\ up' = FALSE /\ updateActive' = FALSE /\ op' = Idle /\ downloads' = {}
    /\ UNCHANGED <<running, activeExe, backupExe, applies, faults, history>>

\* Whoever starts the node starts activeExe, if it can be executed.
Start ==
    /\ ~up
    /\ Whole(activeExe)
    /\ up' = TRUE /\ running' = activeExe.version
    /\ begun' = 0 /\ rolledBack' = FALSE
    /\ UNCHANGED <<updateActive, op, downloads, activeExe, backupExe, bounds,
                   restoreFailed>>

VersionNext ==
    \/ \E v \in Version, c \in {"whole", "forged"} :
         DownloadAndApplyUpdate([version |-> v, content |-> c])
    \/ \E d \in downloads : PrepareAtomicUpdate(d)
    \/ RemoveBackup \/ BackUp \/ Deploy \/ Copy \/ Restore
    \/ ConfirmSuccess
    \/ ExecuteRollback \/ RemoveActive \/ RollBack
    \/ Crash \/ Start

VersionSpec == VersionInit /\ [][VersionNext]_versionVars
-----------------------------------------------------------------------------
\* Whenever the process dies, in the middle of an update or of a rollback, a
\* whole binary is left, in place or as the backup, unless putting a backup
\* back has failed before (PrepareAtomicUpdate, ExecuteRollback).  Whole means
\* that its hash was checked.
Recoverable == restoreFailed \/ Whole(activeExe) \/ Whole(backupExe)

\* The first update of a process can be undone to the version that is running.
\* (After a second one it cannot: the backup is gone, or is the first update,
\* which never ran.)
BackupIsRunning ==
    (updateActive /\ begun = 1 /\ ~rolledBack)
    => backupExe = [version |-> running, content |-> "whole"]

\* Unless it rolled back, a process is followed by one at least as new, although
\* several updates, whole or failed, lie in between (IsHigherVersion).
NeverOlder ==
    [][up' /\ ~up => running' >= running \/ rolledBack]_versionVars
=============================================================================
