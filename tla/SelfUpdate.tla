------------------------------- MODULE SelfUpdate -------------------------------
(***************************************************************************)
(* `gz selfupdate`: download the new binary next to the running one, check *)
(* that this is still the one the update began with, and put the new one   *)
(* in its place - by one rename where a running file can be replaced       *)
(* ("unix"), by way of a backup where it cannot ("windows").  Several      *)
(* updates may run at once, any may be killed, and the power may fail.     *)
(***************************************************************************)
EXTENDS FiniteSets

CONSTANTS
    Updaters,   \* runs of the command, one each
    Installed,  \* the binary that was installed
    NoFile      \* nothing at a path

ASSUME UpdateAssumption == Installed \notin Updaters /\ IsFiniteSet(Updaters)

\* A file by who made it; its data may be incomplete, or complete but only in
\* the memory of the system, or safe on disk.
Files == [by : Updaters \union {Installed}, data : {"partial", "cached", "durable"}]

ASSUME NoFileAssumption == NoFile \notin Files

VARIABLES
    system,  \* which replaceBinary was built
    binary,  \* the file at the current path
    before,  \* files that a failure of the power may bring back to it
    stage,   \* each updater's temporary file
    backup,  \* the file in its backup directory
    began,   \* the identity of the binary it began with
    updPC,   \* where it is, or how it ended
    told     \* its error named the backup it could not restore

updateVars == <<system, binary, before, stage, backup, began, updPC, told>>

AtWork == {"download", "sync", "validate", "replace", "syncdir", "moved", "restore", "cleanup"}

UpdateInit ==
    /\ system \in {"unix", "windows"}
    /\ binary = [by |-> Installed, data |-> "durable"]
    /\ before = {}
    /\ stage = [u \in Updaters |-> NoFile]
    /\ backup = [u \in Updaters |-> NoFile]
    /\ began = [u \in Updaters |-> NoFile]
    /\ updPC = [u \in Updaters |-> "idle"]
    /\ told = [u \in Updaters |-> FALSE]

Go(u, pc) == updPC' = [updPC EXCEPT ![u] = pc]

-----------------------------------------------------------------------------
\* The release is another one and has an asset; a temporary file is created.
BeginDownload(u) ==
    /\ updPC[u] = "idle"
    /\ binary # NoFile
    /\ began' = [began EXCEPT ![u] = binary]
    /\ stage' = [stage EXCEPT ![u] = [by |-> u, data |-> "partial"]]
    /\ Go(u, "download")
    /\ UNCHANGED <<system, binary, before, backup, told>>

\* Up to date, no asset, or an error before there is anything to clean up.
LeaveEarly(u) ==
    /\ updPC[u] = "idle"
    /\ Go(u, "left")
    /\ UNCHANGED <<system, binary, before, stage, backup, began, told>>

\* Mutation: the file is not synced.
DownloadUnsynced(u) ==
    /\ updPC[u] = "download"
    /\ stage' = [stage EXCEPT ![u].data = "cached"]
    /\ Go(u, "validate")
    /\ UNCHANGED <<system, binary, before, backup, began, told>>

\* downloadAsset: copy, permissions; then sync and close.
Download(u) ==
    /\ updPC[u] = "download"
    /\ stage' = [stage EXCEPT ![u].data = "cached"]
    /\ Go(u, "sync")
    /\ UNCHANGED <<system, binary, before, backup, began, told>>

SyncFile(u) ==
    /\ updPC[u] = "sync"
    /\ stage' = [stage EXCEPT ![u].data = "durable"]
    /\ Go(u, "validate")
    /\ UNCHANGED <<system, binary, before, backup, began, told>>

\* validateCurrentBinaryIdentity compares the files, not their content.
Validate(u) ==
    /\ updPC[u] = "validate"
    /\ binary # NoFile /\ binary.by = began[u].by
    /\ Go(u, "replace")
    /\ UNCHANGED <<system, binary, before, stage, backup, began, told>>

\* An error before the current path was touched, or after it was restored: the
\* temporary file is removed, if that succeeds, and so is the empty backup.
FailCleanly(u) ==
    /\ updPC[u] \in {"download", "sync", "validate", "replace"}
    /\ stage' \in {stage, [stage EXCEPT ![u] = NoFile]}
    /\ Go(u, "error")
    /\ UNCHANGED <<system, binary, before, backup, began, told>>

-----------------------------------------------------------------------------
(* replaceBinary of replace_unix.go *)

RenameOver(u) ==
    /\ system = "unix"
    /\ updPC[u] = "replace"
    /\ before' = before \union ({binary} \ {NoFile})
    /\ binary' = stage[u]
    /\ stage' = [stage EXCEPT ![u] = NoFile]
    /\ Go(u, "syncdir")
    /\ UNCHANGED <<system, backup, began, told>>

\* Not to be able to sync the directory is worth a warning.
SyncDirectory(u) ==
    /\ updPC[u] = "syncdir"
    /\ before' \in {before, {}}
    /\ Go(u, "ok")
    /\ UNCHANGED <<system, binary, stage, backup, began, told>>

-----------------------------------------------------------------------------
(* replaceBinary of replace_windows.go *)

MoveToBackup(u) ==
    /\ system = "windows"
    /\ updPC[u] = "replace"
    /\ binary # NoFile
    /\ backup' = [backup EXCEPT ![u] = binary]
    /\ binary' = NoFile
    /\ Go(u, "moved")
    /\ UNCHANGED <<system, before, stage, began, told>>

MoveIntoPlace(u) ==
    /\ updPC[u] = "moved"
    /\ \/ /\ binary' = stage[u]
          /\ stage' = [stage EXCEPT ![u] = NoFile]
          /\ Go(u, "cleanup")
       \/ /\ Go(u, "restore")
          /\ UNCHANGED <<binary, stage>>
    /\ UNCHANGED <<system, before, backup, began, told>>

\* Back from the backup; if that fails too the error says where the backup is.
Restore(u) ==
    /\ updPC[u] = "restore"
    /\ \/ /\ binary' = backup[u]
          /\ backup' = [backup EXCEPT ![u] = NoFile]
          /\ UNCHANGED told
       \/ /\ told' = [told EXCEPT ![u] = TRUE]
          /\ UNCHANGED <<binary, backup>>
    /\ stage' \in {stage, [stage EXCEPT ![u] = NoFile]}
    /\ Go(u, "error")
    /\ UNCHANGED <<system, before, began>>

\* Removing the backup may fail, for a warning.
RemoveBackup(u) ==
    /\ updPC[u] = "cleanup"
    /\ backup' \in {backup, [backup EXCEPT ![u] = NoFile]}
    /\ Go(u, "ok")
    /\ UNCHANGED <<system, binary, before, stage, began, told>>

-----------------------------------------------------------------------------
KillUpdate(u) ==
    /\ updPC[u] \in AtWork
    /\ Go(u, "killed")
    /\ UNCHANGED <<system, binary, before, stage, backup, began, told>>

\* What was not synced is lost: data, and on Unix the latest renames.  (NTFS
\* has its names in a journal.)
LoseData(f) == IF f # NoFile /\ f.data = "cached" THEN [f EXCEPT !.data = "partial"] ELSE f

PowerFails ==
    /\ \E u \in Updaters : updPC[u] \in AtWork \union {"ok"}
    /\ \E f \in before \union {binary} : binary' = LoseData(f)
    /\ before' = {}
    /\ stage' = [u \in Updaters |-> LoseData(stage[u])]
    /\ updPC' = [u \in Updaters |-> IF updPC[u] \in AtWork THEN "killed" ELSE updPC[u]]
    /\ UNCHANGED <<system, backup, began, told>>

\* When no update is at work the user may install the program anew.
InstallAnew ==
    /\ \A u \in Updaters : updPC[u] \notin AtWork
    /\ binary' = [by |-> Installed, data |-> "durable"]
    /\ before' = {}
    /\ stage' = [u \in Updaters |-> NoFile]
    /\ backup' = [u \in Updaters |-> NoFile]
    /\ began' = [u \in Updaters |-> NoFile]
    /\ updPC' = [u \in Updaters |-> "idle"]
    /\ told' = [u \in Updaters |-> FALSE]
    /\ UNCHANGED system

UpdaterStep(u) ==
    \/ BeginDownload(u)
    \/ LeaveEarly(u)
    \/ Download(u)
    \/ SyncFile(u)
    \/ Validate(u)
    \/ FailCleanly(u)
    \/ RenameOver(u)
    \/ SyncDirectory(u)
    \/ MoveToBackup(u)
    \/ MoveIntoPlace(u)
    \/ Restore(u)
    \/ RemoveBackup(u)
    \/ KillUpdate(u)

UpdateNext ==
    \/ \E u \in Updaters : UpdaterStep(u)
    \/ PowerFails
    \/ InstallAnew

UpdateTypeOK ==
    /\ system \in {"unix", "windows"}
    /\ binary \in Files \union {NoFile}
    /\ before \subseteq Files
    /\ stage \in [Updaters -> Files \union {NoFile}]
    /\ backup \in [Updaters -> Files \union {NoFile}]
    /\ began \in [Updaters -> Files \union {NoFile}]
    /\ updPC \in [Updaters -> AtWork \union {"idle", "left", "ok", "error", "killed"}]
    /\ told \in [Updaters -> BOOLEAN]

(***************************************************************************)
(* However many updates run at once, fail, are killed or lose their power: *)
(* what is at the current path is a whole binary.  On Unix there always is *)
(* one.  On Windows it is missing only while an updater has it in its      *)
(* backup, was killed having it there, or has said where the backup is.    *)
(***************************************************************************)
BinarySurvives ==
    /\ binary # NoFile => binary.data # "partial"
    /\ binary = NoFile =>
         /\ system = "windows"
         /\ \E u \in Updaters :
              /\ backup[u] # NoFile /\ backup[u].data # "partial"
              /\ updPC[u] \in {"moved", "restore", "killed"} \/ told[u]
================================================================================
