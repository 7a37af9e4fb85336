------------------------------- MODULE Operations -------------------------------
(***************************************************************************)
(* The operations on many repositories that do not use the worker pool -   *)
(* synchronization of two platforms, the clone executor, requests through  *)
(* a shared rate limiter, errgroup operations and repository streams - and *)
(* the operations on one thing that others may reach for meanwhile: the    *)
(* settings of a repository, the installed binary, the package managers.   *)
(* They share no state, so a behaviour is one of one of them, chosen at    *)
(* the beginning.                                                          *)
(***************************************************************************)
EXTENDS RepositorySync, CloneExecutor, ApiRequests, ErrGroupBulk, RepositoryStream,
        RepoSettings, SelfUpdate, Bootstrap

VARIABLE operation  \* the operation at work; never changes

operationVars == <<syncVars, execVars, apiVars, groupVars, streamVars,
                   settingsVars, updateVars, bootVars, operation>>

\* Where there is a choice, what is not at work does not take part in it.
Init ==
    /\ operation \in {"sync", "clone", "api", "group", "stream", "settings", "selfupdate", "bootstrap"}
    /\ SyncInit
    /\ ExecInit
    /\ ApiInit
    /\ GroupInit
    /\ StreamInit
    /\ SettingsInit
    /\ UpdateInit
    /\ BootInit
    /\ operation = "settings" \/ repository = CHOOSE r \in RepoStates : TRUE
    /\ operation = "selfupdate" \/ system = "unix"
    /\ operation = "bootstrap" \/ depends = CHOOSE g \in Graphs : TRUE

Next ==
    \/ /\ operation = "sync"
       /\ SyncNext
       /\ UNCHANGED <<execVars, apiVars, groupVars, streamVars, settingsVars, updateVars, bootVars, operation>>
    \/ /\ operation = "clone"
       /\ ExecNext
       /\ UNCHANGED <<syncVars, apiVars, groupVars, streamVars, settingsVars, updateVars, bootVars, operation>>
    \/ /\ operation = "api"
       /\ ApiNext
       /\ UNCHANGED <<syncVars, execVars, groupVars, streamVars, settingsVars, updateVars, bootVars, operation>>
    \/ /\ operation = "group"
       /\ GroupNext
       /\ UNCHANGED <<syncVars, execVars, apiVars, streamVars, settingsVars, updateVars, bootVars, operation>>
    \/ /\ operation = "stream"
       /\ StreamNext
       /\ UNCHANGED <<syncVars, execVars, apiVars, groupVars, settingsVars, updateVars, bootVars, operation>>
    \/ /\ operation = "settings"
       /\ SettingsNext
       /\ UNCHANGED <<syncVars, execVars, apiVars, groupVars, streamVars, updateVars, bootVars, operation>>
    \/ /\ operation = "selfupdate"
       /\ UpdateNext
       /\ UNCHANGED <<syncVars, execVars, apiVars, groupVars, streamVars, settingsVars, bootVars, operation>>
    \/ /\ operation = "bootstrap"
       /\ BootNext
       /\ UNCHANGED <<syncVars, execVars, apiVars, groupVars, streamVars, settingsVars, updateVars, operation>>

Fairness ==
    /\ SyncFairness
    /\ ExecFairness
    /\ ApiFairness
    /\ GroupFairness
    /\ StreamFairness

Spec == Init /\ [][Next]_operationVars /\ Fairness

TypeOK ==
    /\ SyncTypeOK
    /\ ExecTypeOK
    /\ ApiTypeOK
    /\ GroupTypeOK
    /\ StreamTypeOK
    /\ SettingsTypeOK
    /\ UpdateTypeOK
    /\ BootTypeOK

(***************************************************************************)
(* Whatever fails, is lost, is cancelled or must wait, every operation     *)
(* returns and leaves no goroutine behind: a synchronization, a clone run, *)
(* each API call, an errgroup operation with its progress goroutine, and a *)
(* stream with its producer.                                               *)
(***************************************************************************)
OperationsEnd ==
    /\ SyncEnds
    /\ ExecuteEnds
    /\ CallsReturn
    /\ GroupsEnd
    /\ StreamsEnd
================================================================================
