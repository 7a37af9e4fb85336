----------------------------- MODULE RepositorySync -----------------------------
(***************************************************************************)
(* The synchronization engine of internal/git/sync: a run lists both       *)
(* sides, plans a creation or an update for every repository it shall      *)
(* mirror, and lets its workers run the actions of each, in order, until   *)
(* one fails.  The destination is shared with whoever pushes to it.  A     *)
(* run with --parallel 1 is the one with a single worker.                  *)
(***************************************************************************)
EXTENDS Naturals, FiniteSets

CONSTANTS
    SyncRepos,      \* the repositories of the source organization
    SyncWorkers,    \* the workers, numbered --parallel in the code
    SyncOptionSets, \* the command lines considered
    NoRepo          \* what an idle worker is working on

Parts == {"code", "issues", "wiki", "releases", "settings"}

ASSUME SyncAssumption ==
    /\ IsFiniteSet(SyncRepos)
    /\ NoRepo \notin SyncRepos
    /\ SyncOptionSets # {}
    /\ SyncOptionSets \subseteq
         [create : BOOLEAN, update : BOOLEAN, force : BOOLEAN, dry : BOOLEAN, parts : SUBSET Parts]

VARIABLES
    exists,   \* repositories that exist at the destination
    behind,   \* repositories some of whose source commits the destination lacks
    own,      \* destination repositories with commits the source does not have
    syncPC,   \* "idle", a run at work, how it ended, or the program died
    opts,     \* the options of the latest run
    matching, \* the source repositories its filters let pass
    tasks,    \* its tasks not taken yet: what to create and what to update
    workerOn, \* what each worker is doing
    outcomes  \* results sent: repository and whether it was synchronized

syncVars == <<exists, behind, own, syncPC, opts, matching, tasks, workerOn, outcomes>>

Idle == [repo |-> NoRepo, left |-> {}, failed |-> FALSE]

SyncInit ==
    /\ exists = {}
    /\ behind = SyncRepos
    /\ own = {}
    /\ syncPC = "idle"
    /\ opts = CHOOSE o \in SyncOptionSets : TRUE
    /\ matching = {}
    /\ tasks = [create |-> {}, update |-> {}]
    /\ workerOn = [w \in SyncWorkers |-> Idle]
    /\ outcomes = {}

-----------------------------------------------------------------------------
(* Planning *)

\* A listing of the destination that fails is read as an empty organization.
SyncPlan(repos, found, o) ==
    [create |-> IF o.create THEN repos \ found ELSE {},
     update |-> IF o.update THEN repos \intersect found ELSE {}]

SyncBegins ==
    /\ syncPC # "run"
    /\ \E o \in SyncOptionSets, repos \in SUBSET SyncRepos, found \in {exists, {}} :
         /\ opts' = o
         /\ matching' = repos
         /\ tasks' = IF o.dry THEN [create |-> {}, update |-> {}] ELSE SyncPlan(repos, found, o)
    /\ syncPC' = IF tasks'.create \union tasks'.update = {} THEN "ok" ELSE "run"
    /\ workerOn' = [w \in SyncWorkers |-> Idle]
    /\ outcomes' = {}
    /\ UNCHANGED <<exists, behind, own>>

SourceListingFails ==
    /\ syncPC # "run"
    /\ syncPC' = "error"
    /\ opts' \in SyncOptionSets
    /\ matching' = {}
    /\ tasks' = [create |-> {}, update |-> {}]
    /\ workerOn' = [w \in SyncWorkers |-> Idle]
    /\ outcomes' = {}
    /\ UNCHANGED <<exists, behind, own>>

-----------------------------------------------------------------------------
(* A worker and its actions *)

\* The steps of a task in the order the engine takes them; the first push of
\* "code" may call for the next one, and "tags" follows a push.
StepOrder ==
    [create |-> 1, code |-> 2, forced |-> 3, tags |-> 4,
     issues |-> 5, wiki |-> 6, releases |-> 7, settings |-> 8]

Steps == DOMAIN StepOrder

ActionsOf(o, new) == o.parts \union (IF new THEN {"create"} ELSE {})

\* All creations are queued before the updates.
TakeTask(w) ==
    /\ syncPC = "run"
    /\ workerOn[w].repo = NoRepo
    /\ LET new == tasks.create # {}
       IN  \E r \in IF new THEN tasks.create ELSE tasks.update :
             /\ tasks' = [create |-> tasks.create \ {r}, update |-> tasks.update \ {r}]
             /\ workerOn' = [workerOn EXCEPT ![w] =
                                [repo |-> r, left |-> ActionsOf(opts, new), failed |-> FALSE]]
    /\ UNCHANGED <<exists, behind, own, syncPC, opts, matching, outcomes>>

At(w, step) ==
    /\ syncPC = "run"
    /\ step \in workerOn[w].left
    /\ \A other \in workerOn[w].left : StepOrder[step] <= StepOrder[other]

\* The worker has done `step` and has `next` to do in its place.
Continue(w, step, next) ==
    workerOn' = [workerOn EXCEPT ![w].left = (@ \ {step}) \union next]

\* Mutation: the worker stops at the failure and does not report it.
GiveUpSilently(w) ==
    workerOn' = [workerOn EXCEPT ![w].left = {}]

\* The first action that fails ends the task.
GiveUp(w) ==
    workerOn' = [workerOn EXCEPT ![w].left = {}, ![w].failed = TRUE]

\* Creating what exists is refused; a lost answer looks like a refusal.
CreateRepository(w) ==
    /\ At(w, "create")
    /\ LET r == workerOn[w].repo
       IN  \/ /\ r \notin exists
              /\ exists' = exists \union {r}
              /\ Continue(w, "create", {}) \/ GiveUp(w)
           \/ /\ GiveUp(w)
              /\ UNCHANGED exists
    /\ UNCHANGED <<behind, own, syncPC, opts, matching, tasks, outcomes>>

\* A push that went through: a forced one replaces what the destination had.
Pushed(w, step, forced) ==
    LET r == workerOn[w].repo
    IN  /\ forced \/ r \notin own
        /\ behind' = behind \ {r}
        /\ own' = own \ {r}
        /\ Continue(w, step, {"tags"})

\* Mirror clone and first push; whatever makes an unforced push fail, it is
\* tried once more with --force.
PushBranches(w) ==
    /\ At(w, "code")
    /\ \/ Pushed(w, "code", opts.force)
       \/ /\ ~opts.force
          /\ Continue(w, "code", {"forced"})
          /\ UNCHANGED <<behind, own>>
       \/ /\ GiveUp(w)
          /\ UNCHANGED <<behind, own>>
    /\ UNCHANGED <<exists, syncPC, opts, matching, tasks, outcomes>>

RetryWithForce(w) ==
    /\ At(w, "forced")
    /\ \/ Pushed(w, "forced", TRUE)
       \/ /\ GiveUp(w)
          /\ UNCHANGED <<behind, own>>
    /\ UNCHANGED <<exists, syncPC, opts, matching, tasks, outcomes>>

\* Tags, wiki, releases and settings touch nothing the branches depend on.
\* Failures to push tags or to copy one release are swallowed: they succeed.
OtherAction(w) ==
    /\ \E step \in {"tags", "wiki", "releases", "settings"} :
         At(w, step) /\ (Continue(w, step, {}) \/ GiveUp(w))
    /\ UNCHANGED <<exists, behind, own, syncPC, opts, matching, tasks, outcomes>>

\* The engine makes an IssueSyncer without HTTP client: its first request
\* dereferences nil, and the panic ends the program.
SyncIssues(w) ==
    /\ At(w, "issues")
    /\ syncPC' = "died"
    /\ UNCHANGED <<exists, behind, own, opts, matching, tasks, workerOn, outcomes>>

SendOutcome(w) ==
    /\ syncPC = "run"
    /\ workerOn[w].repo # NoRepo
    /\ workerOn[w].left = {}
    /\ outcomes' = outcomes \union {[repo |-> workerOn[w].repo, ok |-> ~workerOn[w].failed]}
    /\ workerOn' = [workerOn EXCEPT ![w] = Idle]
    /\ UNCHANGED <<exists, behind, own, syncPC, opts, matching, tasks>>

\* No task is left, every worker has returned, every result was collected.
SyncReturns ==
    /\ syncPC = "run"
    /\ tasks.create \union tasks.update = {}
    /\ \A w \in SyncWorkers : workerOn[w].repo = NoRepo
    /\ syncPC' = IF \A result \in outcomes : result.ok THEN "ok" ELSE "error"
    /\ UNCHANGED <<exists, behind, own, opts, matching, tasks, workerOn, outcomes>>

-----------------------------------------------------------------------------
(* Everybody else *)

ProgramIsKilled ==
    /\ syncPC = "run"
    /\ syncPC' = "died"
    /\ UNCHANGED <<exists, behind, own, opts, matching, tasks, workerOn, outcomes>>

\* Somebody creates a repository at the destination or pushes to one, at any
\* time.
DestinationGains(r) ==
    /\ exists' = exists \union {r}
    /\ own' = IF r \in exists THEN own \union {r} ELSE own
    /\ UNCHANGED <<behind, syncPC, opts, matching, tasks, workerOn, outcomes>>

\* Somebody pushes to the source; between runs, else no run could end in step.
SourceGains(r) ==
    /\ syncPC # "run"
    /\ behind' = behind \union {r}
    /\ syncPC' = "idle"
    /\ UNCHANGED <<exists, own, opts, matching, tasks, workerOn, outcomes>>

SyncWorkerStep(w) ==
    \/ TakeTask(w)
    \/ CreateRepository(w)
    \/ PushBranches(w)
    \/ RetryWithForce(w)
    \/ OtherAction(w)
    \/ SyncIssues(w)
    \/ SendOutcome(w)

SyncNext ==
    \/ SyncBegins
    \/ SourceListingFails
    \/ \E w \in SyncWorkers : SyncWorkerStep(w)
    \/ SyncReturns
    \/ ProgramIsKilled
    \/ \E r \in SyncRepos : DestinationGains(r) \/ SourceGains(r)

\* Workers that run on: every git command and API call returns.
SyncFairness ==
    /\ \A w \in SyncWorkers : WF_syncVars(SyncWorkerStep(w))
    /\ WF_syncVars(SyncReturns)

SyncTypeOK ==
    /\ exists \subseteq SyncRepos
    /\ behind \subseteq SyncRepos
    /\ own \subseteq exists
    /\ syncPC \in {"idle", "run", "ok", "error", "died"}
    /\ opts \in SyncOptionSets
    /\ matching \subseteq SyncRepos
    /\ tasks \in [create : SUBSET matching, update : SUBSET matching]
    /\ workerOn \in [SyncWorkers -> [repo : matching \union {NoRepo}, left : SUBSET Steps, failed : BOOLEAN]]
    /\ \A w \in SyncWorkers : workerOn[w].repo = NoRepo => workerOn[w] = Idle
    /\ outcomes \subseteq [repo : matching, ok : BOOLEAN]

(***************************************************************************)
(* A run that was to create and to update everything, code included, and   *)
(* that ends well leaves no repository of its list without the source's    *)
(* commits: whatever was listed wrongly, was created meanwhile, or failed  *)
(* in some worker has made the run fail.                                   *)
(***************************************************************************)
SyncOkIsMirrored ==
    syncPC = "ok" /\ ~opts.dry /\ opts.create /\ opts.update /\ "code" \in opts.parts
        => matching \subseteq exists \ behind

\* Without --force, which asks for a destructive push, the destination keeps
\* the commits that only it has.
UnforcedKeepsCommits ==
    [][syncPC = "run" /\ ~opts.force => own \subseteq own']_syncVars

\* Every run that begins comes to an end.
SyncEnds == syncPC = "run" ~> syncPC # "run"
================================================================================
