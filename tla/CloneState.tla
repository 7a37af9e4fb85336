------------------------------ MODULE CloneState ------------------------------
(***************************************************************************)
(* The record of a bulk clone, pkg/synclone/state.go: CloneState and the   *)
(* methods that change it, as operators that return the new record.        *)
(*                                                                         *)
(* The order of the three lists plays no role in the code that reads them; *)
(* how often a repository is in one of them does, because the total is the *)
(* sum of their lengths.  PendingRepos is a set: it is assigned whole from *)
(* a listing without duplicates and only ever shrinks.  The other two are  *)
(* appended to and are multisets.  Timestamps, paths, messages and the     *)
(* settings that are only printed are left out.                            *)
(***************************************************************************)
EXTENDS Integers, FiniteSets, Functions

CONSTANTS
    Repos,      \* the repositories the organization may ever have
    Targets     \* the target paths a run may be given

Statuses == {"in_progress", "completed", "failed", "canceled"}

CloneStates ==
    [ completed : [Repos -> Nat],   \* CompletedRepos
      failed    : [Repos -> Nat],   \* FailedRepos
      pending   : SUBSET Repos,     \* PendingRepos
      total     : Nat,              \* TotalRepositories
      status    : Statuses,
      target    : Targets ]         \* TargetPath

NoRepos == [r \in Repos |-> 0]

NewCloneState(target) ==
    [ completed |-> NoRepos, failed |-> NoRepos, pending |-> {}, total |-> 0,
      status |-> "in_progress", target |-> target ]

IsCompleted(s, r) == s.completed[r] > 0

IsFailed(s, r) == s.failed[r] > 0

GetRemainingRepositories(s) == s.pending

updateTotalRepositories(s) ==
    [s EXCEPT !.total = Cardinality(s.pending) + SumFunction(s.completed)
                          + SumFunction(s.failed)]

SetPendingRepositories(s, repos) ==
    updateTotalRepositories([s EXCEPT !.pending = repos])

\* Mutation: the repository stays in the pending list.
AddCompletedKeepsPending(s, r) ==
    updateTotalRepositories([s EXCEPT !.completed[r] = @ + 1])

\* A repository that failed before keeps its entry in FailedRepos.
AddCompletedRepository(s, r) ==
    updateTotalRepositories(
        [s EXCEPT !.completed[r] = @ + 1, !.pending = @ \ {r}])

\* A second failure updates the entry in place and returns before the pending
\* list and the total are touched.
AddFailedRepository(s, r) ==
    IF IsFailed(s, r)
    THEN s
    ELSE updateTotalRepositories(
            [s EXCEPT !.failed[r] = @ + 1, !.pending = @ \ {r}])

MarkStatus(s, status) == [s EXCEPT !.status = status]
=============================================================================
