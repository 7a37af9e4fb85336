------------------------------- MODULE SshSnapshot -------------------------------
(***************************************************************************)
(* `gz dev-env ssh save` and `load` of one name: a snapshot is built in a  *)
(* staging directory and renamed to its place, with --force after the old  *)
(* one was moved to a backup; a load restores its files one by one, each   *)
(* by way of a temporary file, and skips the ones it does not find, but    *)
(* for the main config.  Several saves and loads may run at once, any of   *)
(* them may be killed, any call may fail, and the user may create files    *)
(* where a load wants to restore them.                                     *)
(*                                                                         *)
(* Every snapshot has the same files.  Those after the main config stand   *)
(* for what is in `includes` and `keys`: each is looked for, with the      *)
(* directory it is in, and then opened by its path.                        *)
(*                                                                         *)
(* Renaming a directory to a path that exists fails: a snapshot is never   *)
(* empty.  What a failure of the power does to files that were not synced  *)
(* is not modelled; the code syncs none.                                   *)
(***************************************************************************)
EXTENDS Naturals, FiniteSets

CONSTANTS
    Savers,     \* runs of save, one each
    Loaders,    \* runs of load, one each
    Earlier,    \* the save of a snapshot that may be there already
    FileCount,  \* files of a snapshot that are restored: 1 is the main config
    NoSnapshot  \* nothing at a path

ASSUME SnapshotAssumption ==
    /\ IsFiniteSet(Savers)
    /\ Earlier \notin Savers
    /\ NoSnapshot \notin Savers \union {Earlier}
    /\ FileCount \in Nat \ {0}

RestoredFiles == 1 .. FileCount
Owners == Savers \union {Earlier}
\* A snapshot by who made it; it may have been cut short or half removed.
Snapshots == [by : Owners, whole : BOOLEAN]

ASSUME NoSnapshotAssumption == NoSnapshot \notin Snapshots

VARIABLES
    snapshot,    \* the snapshot at its final path
    staged,      \* each save's staging directory
    aside,       \* the snapshot in its backup directory
    saverPC,     \* where it is, or how it ended
    newest,      \* history: the save that was published last
    loaderPC,    \* where each load is, or how it ended
    replace,     \* its --force
    nextFile,    \* the file it restores next
    copied,      \* whose file it has in its temporary file
    loadedFrom,  \* whose copy of each file it has restored
    movedAway,   \* history: a save --force moved the snapshot away while it ran
    dest,        \* what is at each destination
    userMade     \* history: the files of the user no load was told to replace

saveVars == <<snapshot, staged, aside, saverPC, newest>>
loadVars == <<loaderPC, replace, nextFile, copied, loadedFrom, movedAway, dest, userMade>>
sshVars == <<saveVars, loadVars>>

Saving == {"stage", "stageForced", "look", "publish", "wrap", "moved", "rollback", "cleanup"}
Loading == {"preflight", "check", "copied", "look"}

NothingRestored == [f \in RestoredFiles |-> NoSnapshot]

SshInit ==
    /\ snapshot \in {NoSnapshot, [by |-> Earlier, whole |-> TRUE]}
    /\ staged = [s \in Savers |-> NoSnapshot]
    /\ aside = [s \in Savers |-> NoSnapshot]
    /\ saverPC = [s \in Savers |-> "idle"]
    /\ newest = IF snapshot = NoSnapshot THEN NoSnapshot ELSE Earlier
    /\ loaderPC = [l \in Loaders |-> "idle"]
    /\ replace = [l \in Loaders |-> FALSE]
    /\ nextFile = [l \in Loaders |-> 1]
    /\ copied = [l \in Loaders |-> NoSnapshot]
    /\ loadedFrom = [l \in Loaders |-> NothingRestored]
    /\ movedAway = [l \in Loaders |-> FALSE]
    /\ dest = [f \in RestoredFiles |-> "none"]
    /\ userMade = {}

SaverAt(s, old, new) ==
    /\ saverPC[s] = old
    /\ saverPC' = [saverPC EXCEPT ![s] = new]

LoaderAt(l, old, new) ==
    /\ loaderPC[l] = old
    /\ loaderPC' = [loaderPC EXCEPT ![l] = new]

\* RemoveAll may be cut short.
Removed(at, s) == {[at EXCEPT ![s] = NoSnapshot], [at EXCEPT ![s].whole = FALSE]}

--------------------------------------------------------------------------------
(***************************************************************************)
(* Saving.                                                                 *)
(***************************************************************************)
\* Name, sources, store and destination are in order; what to save is planned.
SaveBegins(s) ==
    /\ \/ SaverAt(s, "idle", "stage") /\ snapshot = NoSnapshot
       \/ SaverAt(s, "idle", "stageForced")
    /\ staged' = [staged EXCEPT ![s] = [by |-> s, whole |-> FALSE]]
    /\ UNCHANGED <<snapshot, aside, newest, loadVars>>

SaveRefused(s) ==
    /\ SaverAt(s, "idle", "error")
    /\ UNCHANGED <<snapshot, staged, aside, newest, loadVars>>

\* Every file, and the metadata that says what there is.
StageIsComplete(s) ==
    /\ SaverAt(s, "stage", "publish") \/ SaverAt(s, "stageForced", "look")
    /\ staged' = [staged EXCEPT ![s] = [by |-> s, whole |-> TRUE]]
    /\ UNCHANGED <<snapshot, aside, newest, loadVars>>

\* sshSavePublish with --force: is there anything to move out of the way?
LookAtDestination(s) ==
    /\ SaverAt(s, "look", IF snapshot = NoSnapshot THEN "publish" ELSE "wrap")
    /\ UNCHANGED <<snapshot, staged, aside, newest, loadVars>>

PutInPlace(new) ==
    /\ snapshot = NoSnapshot
    /\ snapshot' = new
    /\ UNCHANGED loadVars

Published(s) ==
    /\ PutInPlace(staged[s])
    /\ staged' = [staged EXCEPT ![s] = NoSnapshot]
    /\ newest' = s

PublishFirst(s) ==
    /\ SaverAt(s, "publish", "saved")
    /\ Published(s)
    /\ UNCHANGED <<aside>>

MoveOldAside(s) ==
    /\ SaverAt(s, "wrap", "moved")
    /\ snapshot # NoSnapshot
    /\ aside' = [aside EXCEPT ![s] = snapshot]
    /\ snapshot' = NoSnapshot
    /\ movedAway' = [l \in Loaders |-> movedAway[l] \/ loaderPC[l] \in Loading]
    /\ UNCHANGED <<staged, newest, loaderPC, replace, nextFile, copied, loadedFrom, dest, userMade>>

\* An error while the final path is as this save found it: the deferred
\* function removes the stage.
SaveFails(s) ==
    /\ \E pc \in Saving \ {"moved", "rollback", "cleanup"} : SaverAt(s, pc, "error")
    /\ staged' \in Removed(staged, s)
    /\ UNCHANGED <<snapshot, aside, newest, loadVars>>

PublishOverOld(s) ==
    /\ SaverAt(s, "moved", "cleanup")
    /\ Published(s)
    /\ UNCHANGED <<aside>>

PublishOverOldFails(s) ==
    /\ SaverAt(s, "moved", "rollback")
    /\ UNCHANGED <<snapshot, staged, aside, newest, loadVars>>

\* The old snapshot is back; stage and backup directory are removed.
RollBack(s) ==
    /\ SaverAt(s, "rollback", "error")
    /\ PutInPlace(aside[s])
    /\ aside' = [aside EXCEPT ![s] = NoSnapshot]
    /\ staged' \in Removed(staged, s)
    /\ UNCHANGED newest

\* Mutation: stage and backup are removed whatever came of the rollback.
RollBackFailsTidily(s) ==
    /\ SaverAt(s, "rollback", "error")
    /\ staged' \in Removed(staged, s)
    /\ aside' \in Removed(aside, s)
    /\ UNCHANGED <<snapshot, newest, loadVars>>

\* Stage and backup are kept, and the error names them.
RollBackFails(s) ==
    /\ SaverAt(s, "rollback", "retained")
    /\ UNCHANGED <<snapshot, staged, aside, newest, loadVars>>

\* The backup is removed; an error says that the snapshot is committed.
RemoveOld(s) ==
    /\ \E pc \in {"saved", "pending"} : SaverAt(s, "cleanup", pc)
    /\ aside' \in {aside} \union Removed(aside, s)
    /\ UNCHANGED <<snapshot, staged, newest, loadVars>>

SaverIsKilled(s) ==
    /\ \E pc \in Saving : SaverAt(s, pc, "killed")
    /\ UNCHANGED <<snapshot, staged, aside, newest, loadVars>>

--------------------------------------------------------------------------------
(***************************************************************************)
(* Loading.                                                                *)
(***************************************************************************)
\* The snapshot is there and its metadata can be read.
LoadBegins(l) ==
    /\ LoaderAt(l, "idle", "preflight")
    /\ snapshot # NoSnapshot
    /\ \E force \in BOOLEAN : replace' = [replace EXCEPT ![l] = force]
    /\ nextFile' = [nextFile EXCEPT ![l] = 1]
    /\ loadedFrom' = [loadedFrom EXCEPT ![l] = NothingRestored]
    /\ movedAway' = [movedAway EXCEPT ![l] = FALSE]
    /\ UNCHANGED <<saveVars, copied, dest, userMade>>

\* There is no snapshot, or its metadata cannot be read.
LoadRefused(l) ==
    /\ LoaderAt(l, "idle", "error")
    /\ UNCHANGED <<saveVars, replace, nextFile, copied, loadedFrom, movedAway, dest, userMade>>

\* preflightEnhancedLoad: without --force no destination may exist, of the main
\* config and of whatever else the snapshot is found to have.
Preflight(l) ==
    /\ LoaderAt(l, "preflight", "check")
    /\ replace[l] \/ \A f \in RestoredFiles : (f = 1 \/ snapshot # NoSnapshot) => dest[f] = "none"
    /\ UNCHANGED <<saveVars, replace, nextFile, copied, loadedFrom, movedAway, dest, userMade>>

\* Stat and ReadDir of the directory the next file would be in.
LookForFile(l) ==
    /\ LoaderAt(l, "look", "check")
    /\ nextFile[l] \in RestoredFiles
    /\ snapshot # NoSnapshot
    /\ UNCHANGED <<saveVars, replace, nextFile, copied, loadedFrom, movedAway, dest, userMade>>

\* A directory that is not there is none the snapshot has.
SkipFile(l) ==
    /\ LoaderAt(l, "look", "look")
    /\ nextFile[l] \in RestoredFiles
    /\ snapshot = NoSnapshot
    /\ nextFile' = [nextFile EXCEPT ![l] = @ + 1]
    /\ UNCHANGED <<saveVars, replace, copied, loadedFrom, movedAway, dest, userMade>>

\* restoreEnhancedFile looks at the destination, opens the source and copies
\* it; once it is open it may be moved or removed.
CopyFile(l) ==
    /\ LoaderAt(l, "check", "copied")
    /\ replace[l] \/ dest[nextFile[l]] = "none"
    /\ snapshot # NoSnapshot
    /\ copied' = [copied EXCEPT ![l] = snapshot.by]
    /\ UNCHANGED <<saveVars, replace, nextFile, loadedFrom, movedAway, dest, userMade>>

Restored(l) ==
    /\ dest' = [dest EXCEPT ![nextFile[l]] = "restored"]
    /\ loadedFrom' = [loadedFrom EXCEPT ![l][nextFile[l]] = copied[l]]
    /\ copied' = [copied EXCEPT ![l] = NoSnapshot]
    /\ nextFile' = [nextFile EXCEPT ![l] = @ + 1]
    /\ userMade' = IF replace[l] THEN userMade \ {nextFile[l]} ELSE userMade

\* By a rename with --force; else by a link, which fails if there is a file.
\* A temporary file that cannot be removed after that ends the load.
RestoreFile(l) ==
    /\ \/ LoaderAt(l, "copied", "look")
       \/ ~replace[l] /\ LoaderAt(l, "copied", "error")
    /\ replace[l] \/ dest[nextFile[l]] = "none"
    /\ Restored(l)
    /\ UNCHANGED <<saveVars, replace, movedAway>>

LoadReturns(l) ==
    /\ LoaderAt(l, "look", "ok")
    /\ nextFile[l] > FileCount
    /\ UNCHANGED <<saveVars, replace, nextFile, copied, loadedFrom, movedAway, dest, userMade>>

\* An error or the end of the process: what was restored stays restored.
LoadFails(l) ==
    /\ \E pc \in Loading : LoaderAt(l, pc, "error")
    /\ copied' = [copied EXCEPT ![l] = NoSnapshot]
    /\ UNCHANGED <<saveVars, replace, nextFile, loadedFrom, movedAway, dest, userMade>>

UserMakesFile(f) ==
    /\ dest[f] = "none"
    /\ dest' = [dest EXCEPT ![f] = "user"]
    /\ userMade' = userMade \union {f}
    /\ UNCHANGED <<saveVars, loaderPC, replace, nextFile, copied, loadedFrom, movedAway>>

--------------------------------------------------------------------------------
\* Every command has ended.
SshOver ==
    /\ \A s \in Savers : saverPC[s] \notin Saving \union {"idle"}
    /\ \A l \in Loaders : loaderPC[l] \in {"ok", "error"}
    /\ UNCHANGED sshVars

SaverStep(s) ==
    \/ SaveBegins(s)
    \/ SaveRefused(s)
    \/ StageIsComplete(s)
    \/ LookAtDestination(s)
    \/ PublishFirst(s)
    \/ MoveOldAside(s)
    \/ SaveFails(s)
    \/ PublishOverOld(s)
    \/ PublishOverOldFails(s)
    \/ RollBack(s)
    \/ RollBackFails(s)
    \/ RemoveOld(s)
    \/ SaverIsKilled(s)

LoaderStep(l) ==
    \/ LoadBegins(l)
    \/ LoadRefused(l)
    \/ Preflight(l)
    \/ LookForFile(l)
    \/ SkipFile(l)
    \/ CopyFile(l)
    \/ RestoreFile(l)
    \/ LoadReturns(l)
    \/ LoadFails(l)

SshNext ==
    \/ \E s \in Savers : SaverStep(s)
    \/ \E l \in Loaders : LoaderStep(l)
    \/ \E f \in RestoredFiles : UserMakesFile(f)
    \/ SshOver

SshTypeOK ==
    /\ snapshot \in Snapshots \union {NoSnapshot}
    /\ staged \in [Savers -> Snapshots \union {NoSnapshot}]
    /\ aside \in [Savers -> Snapshots \union {NoSnapshot}]
    /\ saverPC \in [Savers -> Saving \union {"idle", "saved", "error", "retained", "pending", "killed"}]
    /\ newest \in Owners \union {NoSnapshot}
    /\ loaderPC \in [Loaders -> Loading \union {"idle", "ok", "error"}]
    /\ replace \in [Loaders -> BOOLEAN]
    /\ nextFile \in [Loaders -> 1 .. FileCount + 1]
    /\ copied \in [Loaders -> Owners \union {NoSnapshot}]
    /\ loadedFrom \in [Loaders -> [RestoredFiles -> Owners \union {NoSnapshot}]]
    /\ movedAway \in [Loaders -> BOOLEAN]
    /\ dest \in [RestoredFiles -> {"none", "user", "restored"}]
    /\ userMade \subseteq RestoredFiles

(***************************************************************************)
(* However many saves run at once, fail or are killed: what is at the      *)
(* final path is whole, and the snapshot published last is there or, still *)
(* whole, in the backup of a save that has not published one since.        *)
(***************************************************************************)
NewestSurvives ==
    /\ snapshot # NoSnapshot => snapshot.whole
    /\ newest # NoSnapshot =>
         \/ snapshot = [by |-> newest, whole |-> TRUE]
         \/ \E s \in Savers : /\ aside[s] = [by |-> newest, whole |-> TRUE]
                              /\ saverPC[s] \in {"moved", "rollback", "retained", "killed"}

(***************************************************************************)
(* A load without --force never replaces a file, not even one the user     *)
(* makes after the preflight.  A load that reports success has restored    *)
(* every file, all of one snapshot, unless a save --force moved the        *)
(* snapshot away while it ran: then it reports success with a part of it,  *)
(* or with files of two snapshots, but never without the main config.      *)
(***************************************************************************)
LoadsAreHonest ==
    /\ \A f \in userMade : dest[f] = "user"
    /\ \A l \in Loaders : loaderPC[l] = "ok" =>
         /\ movedAway[l] \/ \E o \in Owners : \A f \in RestoredFiles : loadedFrom[l][f] = o
         /\ loadedFrom[l][1] # NoSnapshot

\* What was saved stays available, and what was not asked for is not replaced.
SnapshotsAreSafe == NewestSurvives /\ LoadsAreHonest
================================================================================
