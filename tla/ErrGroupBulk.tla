------------------------------- MODULE ErrGroupBulk -------------------------------
(***************************************************************************)
(* The bulk operations built from an errgroup and a semaphore: RefreshAll  *)
(* of GitHub and of GitLab, BulkCloneRepositories of the large-scale       *)
(* manager, and ApplyConfigurationToOrganization.  They differ in what     *)
(* they prepare, in whether an item's error is returned to the group,      *)
(* which cancels the others, and in what they count.                       *)
(***************************************************************************)
EXTENDS Naturals, FiniteSets

CONSTANTS
    Items,      \* repositories of the organization, and directories of the target
    Slots,      \* what the semaphore admits
    MaxAttempts \* MaxRetries of the large-scale manager, after normalize

ASSUME GroupAssumption ==
    /\ IsFiniteSet(Items)
    /\ Slots \in Nat \ {0}
    /\ MaxAttempts \in Nat \ {0}

Refreshing == {"github", "gitlab"}
Kinds == Refreshing \union {"largescale", "apply"}

VARIABLES
    dirs,        \* the target directory: what is under each name
    groupKind,   \* which of the operations
    groupPC,     \* "idle", "run", or what it returned: "nil" or "error"
    wanted,      \* the repositories it was given or has listed
    itemPC,      \* what has become of each
    attempts,    \* attempts to clone it
    groupErr,    \* the group has an error
    gCtxDone,    \* the group's ctx is cancelled: by the caller's, an error, or Wait
    counts,      \* items counted as done, failed and skipped
    progressOn   \* the progress goroutine of the large-scale manager is alive

groupVars == <<dirs, groupKind, groupPC, wanted, itemPC, attempts, groupErr, gCtxDone, counts, progressOn>>

Final == {"ok", "failed", "skipped", "refused"}

GroupInit ==
    /\ dirs = [i \in Items |-> "plain"]
    /\ groupKind = "github"
    /\ groupPC = "idle"
    /\ wanted = {}
    /\ itemPC = [i \in Items |-> "off"]
    /\ attempts = [i \in Items |-> 0]
    /\ groupErr = FALSE
    /\ gCtxDone = TRUE
    /\ counts = [ok |-> 0, failed |-> 0, skipped |-> 0]
    /\ progressOn = FALSE

-----------------------------------------------------------------------------
(* Preparation *)

\* GitHub's RefreshAll deletes every directory that is no git repository,
\* GitLab's every directory that is not in the group; the others, nothing.
Deleted(kind, listed) ==
    {i \in Items : \/ kind = "github" /\ dirs[i] = "plain"
                   \/ kind = "gitlab" /\ i \notin listed}

Without(gone) == [i \in Items |-> IF i \in gone THEN "none" ELSE dirs[i]]

GroupBegins ==
    /\ groupPC # "run"
    /\ ~progressOn
    /\ groupKind' \in Kinds
    /\ wanted' \in SUBSET Items
    /\ groupPC' = IF groupKind' = "largescale" /\ wanted' = {} THEN "nil" ELSE "run"
    /\ dirs' = Without(Deleted(groupKind', wanted'))
    /\ itemPC' = [i \in Items |-> IF i \in wanted' THEN "waiting" ELSE "off"]
    /\ attempts' = [i \in Items |-> 0]
    /\ groupErr' = FALSE
    /\ gCtxDone' = (groupPC' # "run")
    /\ counts' = [ok |-> 0, failed |-> 0, skipped |-> 0]
    /\ progressOn' = (groupKind' = "largescale" /\ groupPC' = "run")

\* The listing fails, the user does not confirm, or a deletion fails after some
\* that this or that listing called for were made.
GroupRefused ==
    /\ groupPC # "run"
    /\ ~progressOn
    /\ groupKind' \in Kinds
    /\ groupPC' = "error"
    /\ wanted' = {}
    /\ \E gone \in SUBSET Deleted(groupKind', {}) : dirs' = Without(gone)
    /\ itemPC' = [i \in Items |-> "off"]
    /\ groupErr' = FALSE
    /\ gCtxDone' = TRUE
    /\ counts' = [ok |-> 0, failed |-> 0, skipped |-> 0]
    /\ UNCHANGED <<attempts, progressOn>>

-----------------------------------------------------------------------------
(* The goroutine of an item *)

Busy == {i \in Items : itemPC[i] \in {"running", "backoff"}}

Move(i, to) == itemPC' = [itemPC EXCEPT ![i] = to]

\* The goroutine ends, and with it its count of attempts.
Leave(i, as) ==
    /\ Move(i, as)
    /\ attempts' = [attempts EXCEPT ![i] = 0]

AcquireSemaphore(i) ==
    /\ groupPC = "run"
    /\ itemPC[i] = "waiting"
    /\ ~gCtxDone
    /\ Cardinality(Busy) < Slots
    /\ Move(i, "running")
    /\ attempts' = [attempts EXCEPT ![i] = 1]
    /\ UNCHANGED <<dirs, groupKind, groupPC, wanted, groupErr, gCtxDone, counts, progressOn>>

\* Mutation: an item that ctx turned away is no error.
AcquireFailsQuietly(i) ==
    /\ groupPC = "run"
    /\ itemPC[i] = "waiting"
    /\ gCtxDone
    /\ Leave(i, "refused")
    /\ UNCHANGED <<dirs, groupKind, groupPC, wanted, groupErr, gCtxDone, counts, progressOn>>

\* Acquire returns the error of a ctx that is done, and so does the goroutine.
AcquireFails(i) ==
    /\ groupPC = "run"
    /\ itemPC[i] = "waiting"
    /\ gCtxDone
    /\ Leave(i, "refused")
    /\ groupErr' = TRUE
    /\ UNCHANGED <<dirs, groupKind, groupPC, wanted, gCtxDone, counts, progressOn>>

\* The large-scale manager skips archived and, short of memory, huge ones.
SkipItem(i) ==
    /\ groupKind = "largescale"
    /\ itemPC[i] = "running"
    /\ attempts[i] = 1
    /\ Leave(i, "skipped")
    /\ counts' = [counts EXCEPT !.skipped = @ + 1]
    /\ UNCHANGED <<dirs, groupKind, groupPC, wanted, groupErr, gCtxDone, progressOn>>

\* A repository is cloned or updated, or its configuration is applied.
ItemSucceeds(i) ==
    /\ itemPC[i] = "running"
    /\ Leave(i, "ok")
    /\ dirs' = IF groupKind = "apply" THEN dirs ELSE [dirs EXCEPT ![i] = "repo"]
    /\ counts' = IF groupKind \in Refreshing THEN counts ELSE [counts EXCEPT !.ok = @ + 1]
    /\ UNCHANGED <<groupKind, groupPC, wanted, groupErr, gCtxDone, progressOn>>

\* RefreshAll prints the error and drops it.  A clone that fails, or that the
\* end of ctx kills, may leave its directory, and a part of the repository in it.
RefreshFails(i) ==
    /\ groupKind \in Refreshing
    /\ itemPC[i] = "running"
    /\ Leave(i, "failed")
    /\ \E left \in {dirs[i], "repo"} \union (IF dirs[i] = "none" THEN {"plain"} ELSE {}) :
         dirs' = [dirs EXCEPT ![i] = left]
    /\ UNCHANGED <<groupKind, groupPC, wanted, groupErr, gCtxDone, counts, progressOn>>

ApplyFails(i) ==
    /\ groupKind = "apply"
    /\ itemPC[i] = "running"
    /\ Leave(i, "failed")
    /\ counts' = [counts EXCEPT !.failed = @ + 1]
    /\ UNCHANGED <<dirs, groupKind, groupPC, wanted, groupErr, gCtxDone, progressOn>>

\* The first error returned to the group cancels its ctx.
ReturnError(i) ==
    /\ Leave(i, "failed")
    /\ groupErr' = TRUE
    /\ gCtxDone' = TRUE

\* (The git command behind the large-scale manager is still a placeholder that
\* succeeds; the loop around it is written for one that may fail, as it may here.)
CloneFails(i) ==
    /\ groupKind = "largescale"
    /\ itemPC[i] = "running"
    /\ IF attempts[i] < MaxAttempts
         THEN Move(i, "backoff") /\ UNCHANGED <<attempts, groupErr, gCtxDone, counts>>
         ELSE ReturnError(i) /\ counts' = [counts EXCEPT !.failed = @ + 1]
    /\ UNCHANGED <<dirs, groupKind, groupPC, wanted, progressOn>>

BackoffOver(i) ==
    /\ itemPC[i] = "backoff"
    /\ Move(i, "running")
    /\ attempts' = [attempts EXCEPT ![i] = @ + 1]
    /\ UNCHANGED <<dirs, groupKind, groupPC, wanted, groupErr, gCtxDone, counts, progressOn>>

\* Returned without having been counted.
BackoffCancelled(i) ==
    /\ itemPC[i] = "backoff"
    /\ gCtxDone
    /\ ReturnError(i)
    /\ UNCHANGED <<dirs, groupKind, groupPC, wanted, counts, progressOn>>

-----------------------------------------------------------------------------
(* The group *)

\* Wait cancels the group's ctx before it returns the first error.
GroupReturns ==
    /\ groupPC = "run"
    /\ \A i \in wanted : itemPC[i] \in Final
    /\ groupPC' = IF groupErr THEN "error" ELSE "nil"
    /\ gCtxDone' = TRUE
    /\ UNCHANGED <<dirs, groupKind, wanted, itemPC, attempts, groupErr, counts, progressOn>>

CancelGroup ==
    /\ groupPC = "run"
    /\ gCtxDone' = TRUE
    /\ UNCHANGED <<dirs, groupKind, groupPC, wanted, itemPC, attempts, groupErr, counts, progressOn>>

\* Mutation: the progress goroutine is told of a good end only.
ProgressEndsIfNil ==
    /\ progressOn
    /\ groupPC = "nil"
    /\ progressOn' = FALSE
    /\ UNCHANGED <<dirs, groupKind, groupPC, wanted, itemPC, attempts, groupErr, gCtxDone, counts>>

ProgressEnds ==
    /\ progressOn
    /\ gCtxDone
    /\ progressOn' = FALSE
    /\ UNCHANGED <<dirs, groupKind, groupPC, wanted, itemPC, attempts, groupErr, gCtxDone, counts>>

ItemStep(i) ==
    \/ AcquireSemaphore(i)
    \/ AcquireFails(i)
    \/ SkipItem(i)
    \/ ItemSucceeds(i)
    \/ RefreshFails(i)
    \/ ApplyFails(i)
    \/ CloneFails(i)
    \/ BackoffOver(i)
    \/ BackoffCancelled(i)

GroupNext ==
    \/ GroupBegins
    \/ GroupRefused
    \/ \E i \in Items : ItemStep(i)
    \/ GroupReturns
    \/ CancelGroup
    \/ ProgressEnds

\* Goroutines that run on, each git command and API call returning.
GroupFairness ==
    /\ \A i \in Items : WF_groupVars(ItemStep(i))
    /\ WF_groupVars(GroupReturns)
    /\ WF_groupVars(ProgressEnds)

GroupTypeOK ==
    /\ dirs \in [Items -> {"none", "plain", "repo"}]
    /\ groupKind \in Kinds
    /\ groupPC \in {"idle", "run", "nil", "error"}
    /\ wanted \subseteq Items
    /\ itemPC \in [Items -> {"off", "waiting", "running", "backoff"} \union Final]
    /\ attempts \in [Items -> 0 .. MaxAttempts]
    /\ groupErr \in BOOLEAN
    /\ gCtxDone \in BOOLEAN
    /\ counts \in [ok : Nat, failed : Nat, skipped : Nat]
    /\ progressOn \in BOOLEAN

(***************************************************************************)
(* What nil stands for, of each operation: none of the wanted items was    *)
(* turned away by a cancelled ctx.  RefreshAll has tried each and has on   *)
(* disk those that did not fail; the large-scale manager has cloned or     *)
(* skipped each; the result of apply accounts for each.                    *)
(***************************************************************************)
NilMeansHandled ==
    groupPC = "nil" =>
        /\ \A i \in wanted : itemPC[i] \in Final \ {"refused"}
        /\ groupKind \in Refreshing =>
             \A i \in wanted : itemPC[i] = "ok" => dirs[i] = "repo"
        /\ groupKind = "largescale" =>
             /\ \A i \in wanted : itemPC[i] \in {"ok", "skipped"}
             /\ counts.failed = 0 /\ counts.ok + counts.skipped = Cardinality(wanted)
        /\ groupKind = "apply" => counts.ok + counts.failed = Cardinality(wanted)

\* The operation returns, after a cancellation as well, and then its progress
\* goroutine ends.
GroupsEnd == groupPC = "run" ~> groupPC # "run" /\ ~progressOn
================================================================================
