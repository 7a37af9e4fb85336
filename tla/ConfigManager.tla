------------------------------ MODULE ConfigManager ------------------------------
(***************************************************************************)
(* ConfigManager of internal/config, for one key: loading, updating with   *)
(* notification of the registered watchers, and the goroutines that reload *)
(* every 30 seconds.  A load with WatchForChanges starts such a goroutine, *)
(* and each of their reloads is such a load: they multiply.  A reload      *)
(* reads the stored object without the lock and decodes into it before it  *)
(* is validated; where that read meets a write of the map, the Go runtime  *)
(* may end the program.                                                    *)
(***************************************************************************)
EXTENDS Naturals, FiniteSets

CONSTANTS
    Updaters,    \* goroutines that call UpdateConfiguration
    Listeners,   \* watchers registered with RegisterWatcher
    MaxReloaders \* bound: goroutines of watchConfiguration; more behave alike

ASSUME ManagerAssumption ==
    /\ IsFiniteSet(Updaters)
    /\ IsFiniteSet(Listeners)
    /\ MaxReloaders \in Nat \ {0}

Reloaders == 1 .. MaxReloaders
\* A stored object is the one a Load was given or the one of an updater.
Objects == {"loaded"} \union Updaters

VARIABLES
    stored,      \* cm.configs[key], as a set of at most one object
    shut,        \* watcherCtx is cancelled
    listening,   \* cm.watchers[key]
    reloaderPC,  \* where each watchConfiguration is
    holding,     \* the object a reload has read, as a set
    updaterPC,   \* where each UpdateConfiguration is
    toNotify     \* the watchers each has yet to call

managerVars == <<stored, shut, listening, reloaderPC, holding, updaterPC, toNotify>>

ManagerInit ==
    /\ stored = {}
    /\ shut = FALSE
    /\ listening = Listeners
    /\ reloaderPC = [r \in Reloaders |-> "none"]
    /\ holding = [r \in Reloaders |-> {}]
    /\ updaterPC = [u \in Updaters |-> "idle"]
    /\ toNotify = [u \in Updaters |-> {}]

--------------------------------------------------------------------------------
\* What a load makes of its target: an error of a source leaves it alone, and
\* what is decoded but not valid is not stored; a valid one is, and watched.
LoadInto(target, pcs) ==
    \/ UNCHANGED stored /\ reloaderPC' = pcs
    \/ /\ stored' = {target}
       /\ LET free == {r \in Reloaders : pcs[r] = "none"}
          IN  reloaderPC' = IF free = {} THEN pcs
                            ELSE [pcs EXCEPT ![CHOOSE r \in free : \A q \in free : r <= q] = "select"]

LoadConfig ==
    /\ LoadInto("loaded", reloaderPC)
    /\ UNCHANGED <<shut, listening, holding, updaterPC, toNotify>>

\* A tick: ReloadConfiguration reads the stored object outside the lock ...
ReloaderTicks(r) ==
    /\ reloaderPC[r] = "select"
    /\ stored # {}
    /\ holding' = [holding EXCEPT ![r] = stored]
    /\ reloaderPC' = [reloaderPC EXCEPT ![r] = "load"]
    /\ UNCHANGED <<stored, shut, listening, updaterPC, toNotify>>

\* That read of the map beside a write of it, which a caller or another reload may
\* be at any time: "fatal error: concurrent map read and map write".
ReadMeetsWrite(r) ==
    /\ reloaderPC[r] = "select"
    /\ reloaderPC' = [reloaderPC EXCEPT ![r] = "fatal"]
    /\ UNCHANGED <<stored, shut, listening, holding, updaterPC, toNotify>>

\* ... and loads into it, whatever has become of it.
ReloaderLoads(r) ==
    /\ reloaderPC[r] = "load"
    /\ \E target \in holding[r] : LoadInto(target, [reloaderPC EXCEPT ![r] = "select"])
    /\ holding' = [holding EXCEPT ![r] = {}]
    /\ UNCHANGED <<shut, listening, updaterPC, toNotify>>

ReloaderEnds(r) ==
    /\ reloaderPC[r] = "select"
    /\ shut
    /\ reloaderPC' = [reloaderPC EXCEPT ![r] = "done"]
    /\ UNCHANGED <<stored, shut, listening, holding, updaterPC, toNotify>>

\* UpdateConfiguration: swap and take the list of watchers under the lock,
\* call them in turn without it, and stop at the first error.
Update(u) ==
    /\ updaterPC[u] = "idle"
    /\ stored' = {u}
    /\ toNotify' = [toNotify EXCEPT ![u] = IF stored # {} THEN listening ELSE {}]
    /\ updaterPC' = [updaterPC EXCEPT ![u] = "notify"]
    /\ UNCHANGED <<shut, listening, reloaderPC, holding>>

Notify(u) ==
    /\ updaterPC[u] = "notify"
    /\ \E l \in toNotify[u] :
         \E ok \in BOOLEAN : toNotify' = [toNotify EXCEPT ![u] = IF ok THEN @ \ {l} ELSE {}]
    /\ UNCHANGED <<stored, shut, listening, reloaderPC, holding, updaterPC>>

UpdateReturns(u) ==
    /\ updaterPC[u] = "notify"
    /\ toNotify[u] = {}
    /\ updaterPC' = [updaterPC EXCEPT ![u] = "done"]
    /\ UNCHANGED <<stored, shut, listening, reloaderPC, holding, toNotify>>

\* Shutdown cancels, then clears what is stored; nothing keeps a later load,
\* or one that holds an object already, from storing again.
CancelWatching ==
    /\ shut' = TRUE
    /\ UNCHANGED <<stored, listening, reloaderPC, holding, updaterPC, toNotify>>

ClearConfigs ==
    /\ shut
    /\ stored' = {}
    /\ listening' = {}
    /\ UNCHANGED <<shut, reloaderPC, holding, updaterPC, toNotify>>

\* The program runs.
Alive == \A r \in Reloaders : reloaderPC[r] # "fatal"

ManagerNext ==
    /\ Alive
    /\ \/ LoadConfig
       \/ \E r \in Reloaders : \/ ReloaderTicks(r) \/ ReadMeetsWrite(r)
                               \/ ReloaderLoads(r) \/ ReloaderEnds(r)
       \/ \E u \in Updaters : Update(u) \/ Notify(u) \/ UpdateReturns(u)
       \/ CancelWatching
       \/ ClearConfigs

\* A select chooses among its ready cases at random: the one that is ready
\* again and again is chosen in the end.
ManagerFairness ==
    /\ \A r \in Reloaders : /\ WF_managerVars(Alive /\ ReloaderLoads(r))
                            /\ SF_managerVars(Alive /\ ReloaderEnds(r))
    /\ \A u \in Updaters : WF_managerVars(Alive /\ (Notify(u) \/ UpdateReturns(u)))

ManagerTypeOK ==
    /\ stored \subseteq Objects /\ Cardinality(stored) <= 1
    /\ shut \in BOOLEAN
    /\ listening \in {{}, Listeners}
    /\ reloaderPC \in [Reloaders -> {"none", "select", "load", "done", "fatal"}]
    /\ holding \in [Reloaders -> SUBSET Objects]
    /\ updaterPC \in [Updaters -> {"idle", "notify", "done"}]
    /\ toNotify \in [Updaters -> SUBSET Listeners]

\* However many watch goroutines the reloads have started, and whatever loads
\* come late, after Shutdown a time comes when none is left; unless a read of the
\* map without the lock has ended the program.
ReloadersEnd ==
    shut /\ Alive ~> ~Alive \/ \A r \in Reloaders : reloaderPC[r] \in {"none", "done"}
================================================================================
