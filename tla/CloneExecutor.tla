------------------------------ MODULE CloneExecutor ------------------------------
(***************************************************************************)
(* CloneExecutor of internal/git/clone: `git repo clone` runs a goroutine  *)
(* for every listed repository, as many at a time as the semaphore admits; *)
(* each clones, or updates what is on disk, and tries again after errors   *)
(* that may pass; the collector counts.  The session file is left out:     *)
(* nothing ever adds a repository to a session, so marking and saving have *)
(* no effect and a resumed session completes nothing.                      *)
(***************************************************************************)
EXTENDS Naturals, FiniteSets

CONSTANTS
    CloneRepos,   \* the repositories of the organization
    Parallel,     \* options.Parallel, the size of the semaphore
    MaxTries      \* options.MaxRetries + 1

ASSUME ExecutorAssumption ==
    /\ IsFiniteSet(CloneRepos)
    /\ Parallel \in Nat \ {0}
    /\ MaxTries \in Nat \ {0}

Strategies == {"reset", "pull", "fetch"}

VARIABLES
    disk,       \* what is at each repository's target path
    execPC,     \* "idle", at work, how Execute ended, or the program died
    strategy,   \* options.Strategy
    filtered,   \* the repositories to clone in this run
    clonePC,    \* where the goroutine of each is
    tries,      \* attempts it has begun
    resultChan, \* results sent and not collected
    summary,    \* what the collector has counted
    execCtxDone \* ctx is cancelled

execVars == <<disk, execPC, strategy, filtered, clonePC, tries, resultChan, summary, execCtxDone>>

ExecInit ==
    /\ disk = [r \in CloneRepos |-> "absent"]
    /\ execPC = "idle"
    /\ strategy = "reset"
    /\ filtered = {}
    /\ clonePC = [r \in CloneRepos |-> "off"]
    /\ tries = [r \in CloneRepos |-> 0]
    /\ resultChan = {}
    /\ summary = [succeeded |-> 0, failed |-> 0]
    /\ execCtxDone = FALSE

\* Execute: session, listing and filters; then a goroutine for each match.
\* No match, like a dry run, is success.
ExecuteBegins ==
    /\ execPC # "run"
    /\ strategy' \in Strategies
    /\ filtered' \in SUBSET CloneRepos
    /\ execPC' = IF filtered' = {} THEN "ok" ELSE "run"
    /\ clonePC' = [r \in CloneRepos |-> IF r \in filtered' THEN "waiting" ELSE "off"]
    /\ tries' = [r \in CloneRepos |-> 0]
    /\ resultChan' = {}
    /\ summary' = [succeeded |-> 0, failed |-> 0]
    /\ execCtxDone' = FALSE
    /\ UNCHANGED disk

\* The session cannot be loaded or written, or the listing fails.
ExecuteRefused ==
    /\ execPC # "run"
    /\ execPC' = "error"
    /\ filtered' = {}
    /\ clonePC' = [r \in CloneRepos |-> "off"]
    /\ tries' = [r \in CloneRepos |-> 0]
    /\ summary' = [succeeded |-> 0, failed |-> 0]
    /\ UNCHANGED <<disk, strategy, resultChan, execCtxDone>>

Holding == {r \in CloneRepos : clonePC[r] \in {"git", "refused", "delay"}}

\* Git is not started once ctx is done.
BeginAttempt(r) ==
    /\ tries' = [tries EXCEPT ![r] = @ + 1]
    /\ clonePC' = [clonePC EXCEPT ![r] = IF execCtxDone THEN "refused" ELSE "git"]

AcquireSlot(r) ==
    /\ execPC = "run"
    /\ clonePC[r] = "waiting"
    /\ Cardinality(Holding) < Parallel
    /\ BeginAttempt(r)
    /\ UNCHANGED <<disk, execPC, strategy, filtered, resultChan, summary, execCtxDone>>

SendResult(r, ok) ==
    /\ resultChan' = resultChan \union {[repo |-> r, ok |-> ok]}
    /\ clonePC' = [clonePC EXCEPT ![r] = "done"]

\* A fresh clone, or an update of what is there.  Of a directory that a killed
\* clone left, only `reset --hard` makes the repository it should be.
AttemptSucceeds(r) ==
    /\ execPC = "run"
    /\ clonePC[r] = "git"
    /\ disk' = [disk EXCEPT ![r] = IF @ = "partial" /\ strategy # "reset" THEN @ ELSE "repo"]
    /\ SendResult(r, TRUE)
    /\ UNCHANGED <<execPC, strategy, filtered, tries, summary, execCtxDone>>

\* Mutation: one try too many.
AttemptFailsOnceMore(r) ==
    /\ execPC = "run"
    /\ clonePC[r] \in {"git", "refused"}
    /\ tries[r] <= MaxTries
    /\ clonePC' = [clonePC EXCEPT ![r] = "delay"]
    /\ UNCHANGED <<disk, execPC, strategy, filtered, tries, resultChan, summary, execCtxDone>>

\* A failed clone removes its directory, and ignores when that fails.  Errors
\* that may pass are tried again while tries are left.
AttemptFails(r) ==
    /\ execPC = "run"
    /\ clonePC[r] \in {"git", "refused"}
    /\ \E left \in {disk[r]} \union
                   (IF clonePC[r] = "git" /\ disk[r] = "absent" THEN {"partial"} ELSE {}) :
         disk' = [disk EXCEPT ![r] = left]
    /\ \/ /\ tries[r] < MaxTries
          /\ clonePC' = [clonePC EXCEPT ![r] = "delay"]
          /\ UNCHANGED resultChan
       \/ SendResult(r, FALSE)
    /\ UNCHANGED <<execPC, strategy, filtered, tries, summary, execCtxDone>>

TryAgain(r) ==
    /\ execPC = "run"
    /\ clonePC[r] = "delay"
    /\ BeginAttempt(r)
    /\ UNCHANGED <<disk, execPC, strategy, filtered, resultChan, summary, execCtxDone>>

DelayIsCancelled(r) ==
    /\ execPC = "run"
    /\ clonePC[r] = "delay"
    /\ execCtxDone
    /\ SendResult(r, FALSE)
    /\ UNCHANGED <<disk, execPC, strategy, filtered, tries, summary, execCtxDone>>

CollectResult ==
    /\ execPC = "run"
    /\ \E result \in resultChan :
         /\ resultChan' = resultChan \ {result}
         /\ summary' = IF result.ok
                         THEN [summary EXCEPT !.succeeded = @ + 1]
                         ELSE [summary EXCEPT !.failed = @ + 1]
    /\ UNCHANGED <<disk, execPC, strategy, filtered, clonePC, tries, execCtxDone>>

\* Mutation: failures are counted and not reported.
ExecuteReturnsOk ==
    /\ execPC = "run"
    /\ \A r \in filtered : clonePC[r] = "done"
    /\ resultChan = {}
    /\ execPC' = "ok"
    /\ UNCHANGED <<disk, strategy, filtered, clonePC, tries, resultChan, summary, execCtxDone>>

\* The channel is closed when every goroutine is done, and drained.
ExecuteReturns ==
    /\ execPC = "run"
    /\ \A r \in filtered : clonePC[r] = "done"
    /\ resultChan = {}
    /\ execPC' = IF summary.failed > 0 THEN "error" ELSE "ok"
    /\ UNCHANGED <<disk, strategy, filtered, clonePC, tries, resultChan, summary, execCtxDone>>

CancelExecute ==
    /\ execPC = "run"
    /\ execCtxDone' = TRUE
    /\ UNCHANGED <<disk, execPC, strategy, filtered, clonePC, tries, resultChan, summary>>

\* The program is killed: of the clones under way, some directories remain.
ExecutorDies ==
    /\ execPC = "run"
    /\ execPC' = "died"
    /\ \E cut \in SUBSET {r \in CloneRepos : clonePC[r] = "git" /\ disk[r] = "absent"} :
         disk' = [r \in CloneRepos |-> IF r \in cut THEN "partial" ELSE disk[r]]
    /\ filtered' = {}
    /\ clonePC' = [r \in CloneRepos |-> "off"]
    /\ tries' = [r \in CloneRepos |-> 0]
    /\ resultChan' = {}
    /\ summary' = [succeeded |-> 0, failed |-> 0]
    /\ UNCHANGED <<strategy, execCtxDone>>

CloneStep(r) ==
    \/ AcquireSlot(r)
    \/ AttemptSucceeds(r)
    \/ AttemptFails(r)
    \/ TryAgain(r)
    \/ DelayIsCancelled(r)

ExecNext ==
    \/ ExecuteBegins
    \/ ExecuteRefused
    \/ \E r \in CloneRepos : CloneStep(r)
    \/ CollectResult
    \/ ExecuteReturns
    \/ CancelExecute
    \/ ExecutorDies

\* Goroutines that run on, each git command returning.  Every goroutine holds
\* its slot once, so a slot stays free at the latest when all others are done.
ExecFairness ==
    /\ \A r \in CloneRepos : WF_execVars(CloneStep(r))
    /\ WF_execVars(CollectResult \/ ExecuteReturns)

ExecTypeOK ==
    /\ disk \in [CloneRepos -> {"absent", "partial", "repo"}]
    /\ execPC \in {"idle", "run", "ok", "error", "died"}
    /\ strategy \in Strategies
    /\ filtered \subseteq CloneRepos
    /\ clonePC \in [CloneRepos -> {"off", "waiting", "git", "refused", "delay", "done"}]
    /\ tries \in [CloneRepos -> 0 .. MaxTries]
    /\ resultChan \subseteq [repo : filtered, ok : BOOLEAN]
    /\ summary.succeeded + summary.failed <= Cardinality(filtered)
    /\ execCtxDone \in BOOLEAN
    /\ Cardinality(Holding) <= Parallel

(***************************************************************************)
(* A run that ends well has counted every repository of its list as a      *)
(* success and has it on disk, and with strategy "reset" it is whole, even *)
(* if it was the victim of an earlier run that was killed or could not     *)
(* clean up: no failed attempt, cancellation or late result is lost.       *)
(***************************************************************************)
CloneOkIsComplete ==
    execPC = "ok" =>
        /\ summary = [succeeded |-> Cardinality(filtered), failed |-> 0]
        /\ \A r \in filtered : disk[r] = "repo" \/ (disk[r] = "partial" /\ strategy # "reset")

\* Execute returns, whatever fails and however often.
ExecuteEnds == execPC = "run" ~> execPC # "run"
================================================================================
