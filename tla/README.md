# Verification of gzh-manager-go in TLA+

`gz` is a command-line tool that clones and updates whole organizations of
repositories, and manages other parts of a developer's machine. Much of it is glue
around external programs; its concurrent and stateful parts are the pools, groups and
streams that work on many repositories, the records and caches they keep, the watchers
of its configuration, and the operations that replace files somebody may be using: a
snapshot, the installed binary, the settings of a repository. This directory models
these parts, checks them with TLC and proves every safety property it checks with TLAPS.

    tlc -workers 2 -config MCWorkerPool.cfg MCWorkerPool     # a run
    tlapm WorkerPool_proofs.tla                              # proofs

## 1. Inventory

| Component | State it keeps | Operations | Hard behaviour |
|---|---|---|---|
| `internal/workerpool/pool.go` | `started`, two buffered channels, a context, a WaitGroup | `Start`, `Submit`, `Stop`, `StopWithTimeout`, workers, readers of `Results()` | sends on closed channels, Stop against blocked workers, what happens to accepted jobs |
| `internal/workerpool/repository_pool.go` | three `Pool`s, a shared result channel, collectors, `stopOnce` | `Start`, `SubmitJob`, `Stop`, `ProcessRepositories`, `wrapWithRetry` | closing the shared channel, Stop twice, retries against cancellation |
| Bulk callers: `pkg/github/bulk_operations.go`, `optimized_synclone.go`, `pkg/gitlab` and `pkg/gitea/bulk_operations.go` | a batch of jobs, a count of results | submit all, collect all, stop | full queues, refused jobs, batches that are given up, cancellation |
| `pkg/github/resumable_clone.go`, `pkg/gitlab/resumable_clone.go` | the record, the state file, the directories | a run: open, list, save, submit, track, finish | crashes, interrupted saves, resumed runs, tickers in the result loop |
| `pkg/synclone/state.go` | `CloneState` and its JSON file | Add/Mark/Set, Save/Load/Delete | lists that overlap, a total that drifts |
| errgroup operations: `pkg/github/github_org_clone.go`, `pkg/gitlab/gitlab_group_clone.go`, `largescale`, `repo_config.go` | a group, a semaphore, directories, counters | `RefreshAll`, `BulkCloneRepositories`, `ApplyConfigurationToOrganization` | whose error cancels whom, what nil stands for |
| `internal/git/clone` | a semaphore, results, directories | `Execute` with retries | remains of failed and killed clones |
| `internal/git/sync` | plan, workers, two platforms | `Sync` with any number of workers | partial failure, others at the destination |
| `pkg/github/rate_limiter.go`, `repo_config.go` | remaining requests, reset time | `Wait`, `Update`, `makeRequest` | sleeping outside the lock, late answers |
| streaming clients | a producer goroutine, a channel, a cached list | stream pages, collect | a consumer that leaves, a lost error |
| `pkg/github/repo_config.go`, `confirmation.go` | a repository's settings | update with confirmation | partial application, edits by others, consent |
| `internal/config/service.go` | configuration, file, watcher | load, reload, save, watch, stop | editors, watchers closed from two sides |
| `internal/config/manager.go` | one stored object per key, reloaders | load, reload, update, shutdown | goroutines that multiply |
| `pkg/git/provider` | a cache of providers, a fan-out | `GetProvider`, invalidation, eviction, `ExecuteAcrossProvidersParallel` | asynchronous removal, check then insert, a caller that leaves |
| `pkg/github/webhook_monitor.go` | running flag, a stop channel | `Start`, `Stop`, three loops | restart |
| `pkg/github/dependabot_policy_manager.go` | policies, cached results | create, update, delete, evaluate | results of an older policy |
| `cmd/dev-env/ssh_enhanced.go` | snapshot directories | save, load | killed between two renames, several at once |
| `cmd/selfupdate` | the installed binary | download, check, replace | Windows, crashes, several at once |
| `internal/pm/bootstrap` | a dependency graph | install in order | circles, dependencies nobody asked for |
| `internal/errors/recovery.go` | failure counter, breaker state | `Execute`, retries | late results; used by its tests only |
| everything else | none, or data only | parsing, printing, external commands | none a model checker reaches |

How they interact. A bulk caller owns a `RepositoryWorkerPool`; that owns three `Pool`s
(*lanes*: clone, update, config) and one collector goroutine per lane, which moves
results from the lane's channel into the shared one; the caller reads the shared
channel. `SubmitJob` never blocks: a full lane is an error. The resumable callers
keep the record in memory, save it under the target directory, and find it there in
the next process. The other bulk operations have goroutines of their own and share
directories, a rate limiter or a platform with them. Services are called by whoever
needs them and do not call one another. Ctrl+C reaches everything as a cancelled context.

What makes each part correct:

* the pool never sends on a closed channel, loses no accepted job while it is open,
  runs nothing once Stop has returned, and Stop always returns; the pool of pools
  promises the same, whoever calls it;
* a bulk caller gets one result for each job it handed over, and comes to its end;
* the record, its file and the directories agree: what is called completed is on
  disk, nothing unfinished is forgotten, nothing finished is done again, and a run
  that reports success has done everything;
* any other operation that reports success has done what it was asked for, to every
  item of its list, and nothing it was not asked for; whatever it replaces is there,
  whole, whenever it is killed; every operation ends;
* a cache is bounded and holds nothing older than its last invalidation; edits of the
  configuration arrive; every goroutine of a service ends when its owner wants it to.

`PROJECT.json` lists every component with its status and every hazard with the line
where it bites and the properties that watch it.

## 2. Modules

    JobService  <--implements--  WorkerPool        Pool[T] in every detail
        ^
        +-------implements-----  BulkClone         callers of the pool of pools
                                     |  EXTENDS
                                 RepositoryPool    lanes, collectors, retries
    CloneState  <---EXTENDS----  ResumableClone    a directory over many runs

    Operations  ---EXTENDS--->  RepositorySync  CloneExecutor  ErrGroupBulk
                                RepositoryStream  ApiRequests  RepoSettings
                                SelfUpdate  Bootstrap
    Services    ---EXTENDS--->  ConfigService  ConfigManager  ProviderRegistry
                                ProviderFanOut  WebhookMonitor  PolicyManager
                                SshSnapshot

    *_proofs                    theorems about the module of that name; those about
                                the parts of Operations and Services are with these,
                                or with the part where it is large
    MC*                         model values, symmetry and bounds for TLC

**JobService** is the abstract specification: a job is new, then refused, told
"full", or accepted; an accepted job is answered once, or dropped, and dropped only
when the service is shutting down; a closed service accepts nothing.

**WorkerPool** has one action per step another goroutine can observe. `Submit` and
`Start` hold the lock throughout and never block, so each is one step; `Stop` blocks
in `wg.Wait()` with the lock held and is three (`StopClose`, `StopCancel`,
`StopFinish`). A worker is a program counter: `range` (receiving), `run`, `send`,
`check`. A `select` is one action per ready branch, with Go's freedom to take any;
a send on a closed channel is a ready branch that sets `panicked`. `StopTimesOut`
cancels without the lock, as `StopWithTimeout` does. `Start` after `Stop` is in the
model because the code permits it. `fate` and `late` are history variables.

**RepositoryPool** is the same pool one level coarser, three times over in the code
and `LaneCount` times in the model: idle workers are counted instead of named, and
each job has a `stage` that says in which channel or goroutine it is. Lanes do not
share anything but the shared channel, the context and Stop's loop, so two show
every interaction. Which of the waiting jobs comes next is left open, which
covers the channel's order and more. Whether an attempt fails, and retryably, is a
free choice up to the configured number of attempts. `StopBegins`, `StopLane`,
`StopLaneEnds`, `StopEnds` follow Stop line by line; `StopJoins` is a second caller
waiting in `stopOnce`.

**BulkClone** adds the callers. `client` chooses one in the initial state:
`process` (ProcessRepositories, used by GitLab and Gitea), `organizations`
(BulkCloneMultipleOrganizations: a batch per organization over one pool, an
organization that fails is skipped), `optimized` (RefreshAllOptimized with processBatch: a
refused job is counted as failed and the loop goes on; the stream that feeds it has no end
of its own, so it leaves only when its ctx is cancelled, `StreamLeft`, or a page cannot be
fetched, `StreamFails`) and `tests` (any calls in any order, several
Stop calls, and a reader that may leave, as in `repository_pool_stop_test.go`).

**CloneState** has the record's methods as operators. The lists of completed and
failed repositories are multisets, because the code appends to them and the total
adds their lengths; the pending list is a set, because it is assigned from a listing
and then only shrinks.

**ResumableClone** is one target directory over its whole life. `pc` follows
`RefreshAllResumable`: open the record, list, save, create and submit jobs, track
results, save, delete or keep the file. A save is two steps, `SaveBegin` (the file
is truncated) and `SaveEnd`, because `os.WriteFile` is not atomic; a crash in
between leaves a torn file. A deletion that fails is ignored, as in the code. `Crash` may happen at any step, `Interrupt` is Ctrl+C,
`OrgGrows` lets the organization gain repositories between and during runs. GitHub's and
GitLab's versions share the shape and differ in named places, guarded by `provider`:
what counts as an existing clone, when the old file is deleted, what is processed on
resume, whether a tick uses up an iteration, and which runs delete the file. The
worker pool appears as JobService describes it, with the capacity of each lane.
`Targets` are two spellings of one directory: the file is the same, the comparison
with the recorded path is not.

### Services and operations

`Services` and `Operations` are the two compositions. Their parts share no state, so
a behaviour is one of one part, chosen by `service` or `operation` in the initial state,
and the states of the parts add up. Each part is a module of its own with its
own `Init`, `Next`, fairness and type invariant, under names that do not collide.

**ConfigService**: every method of `DefaultConfigService` is one action, since `s.mu` is
held throughout; the watch loop is a program counter (`select`, `changed`, `reloaded`,
`picked`, `leaving`), since between reload and callback no lock is held. There are several
`Paths` with a file each, absent, torn or good. A watcher is attached to the path of the time it
was made, while the loop reloads `configPath`, which Load, Save and CreateDefault may turn to
another one (`TurnTo`). A configuration is named by the path of the file that holds it, and is
`Old` once that file was written. Editors truncate, write in place or replace by renaming, which
detaches the watcher; fsnotify's queue is bounded (`MaxEvents`) and coalesces. `StopWatching`, the
loop's deferred function and a later `WatchConfiguration` may come in any order.

**ConfigManager**: `LoadInto` is a load; each watched load begins another reloader, and a
reloader's tick is two steps, since it reads the object without the lock and then
loads into it. The first is a read of a map; beside a write of the same map by a load, an update
or the shutdown, which all hold the lock, it may end the program (`ReadMeetsWrite`). Shutdown
cancels first and clears afterwards.

**ProviderRegistry**: lookup, construction, insertion (with eviction), and the recording of a use
are steps of a getter; `RemovalRuns` is the goroutine that removes an expired
entry by name; `UpdateConfig`, `InvalidateCache`, `ClearCache` and `PerformCleanup` come between.
`version` is the configuration a provider was made from. `usedBefore` orders the cached
names by their LastUsed, as far as eviction compares it: a relation, since no two uses have the
same time; a new entry comes last, its time is read just before it is stored.
**ProviderFanOut** is `ExecuteAcrossProvidersParallel` with its result channel.

**WebhookMonitor**: `Start` and `Stop` with the loops of each start, and the stop channel
that is made only once; a second Stop panics in the model as in the code.

**PolicyManager**: an evaluation is a program counter - look up the cache, check the policy,
ask GitHub, evaluate, store the result - and updates and deletions with their
invalidation come between. A policy deleted meanwhile ends the program (`fatal`), by a nil
dereference; two evaluations that remove an expired result under the read lock may.

**SshSnapshot**: a save copies files to a stage, moves the old snapshot to a backup and
the stage to its place, with the code's rollback; a load goes through preflight and
restores file by file with a last look at the destination. After the main config it looks for
what there is (`LookForFile`) and skips what is not there at that moment (`SkipFile`), so that a
load beside a `save --force` may end well with a part of a snapshot, or with files of two. Every
call may fail, every process may be killed at every step, and users make files meanwhile.

**RepositorySync**: listing, plan, task queue, and workers that run a repository's actions
in order until one fails. A destination that cannot be listed counts as empty, as in the
code. `PushBranches` and `RetryWithForce` are the two pushes; others push to the
destination (`DestinationGains`) and the source (`SourceGains`). A dry run plans only.

**CloneExecutor**: a goroutine per repository behind a semaphore, `AttemptFails` with all that
a failed attempt may leave on disk, bounded tries with a cancellable delay, the
collector, and `ExecutorDies`, after which the next run finds the disk as it is.

**ErrGroupBulk**: four operations of one shape. `groupKind` chooses; the operations differ
in what they prepare (the deletions of RefreshAll), in whether an item's failure is
returned to the group, and in what they count. The group's context ends with the
caller's, with the first returned error, and with `Wait`; the progress goroutine of the
large-scale manager waits for that. The git command of
the large-scale manager is a placeholder in the code; the model lets it fail or
succeed as its result type permits.

**ApiRequests**: callers of `makeRequest` with the shared limiter; the server's count
(`left`) is apart from the limiter's (`remaining`), answers may be delayed, overtake one
another, be lost, or come without the count, which leaves the limiter's as it is. `informed` is
history: since the limiter last learned the count, no answer has been lost or overtaken and it has
not used up what it knew of.

**RepositoryStream**: producer, page, bounded channel, consumer, for GitLab and for GitHub.
Projects are numbered in the order of the listing; a page is the next `PageSize` of them.
GitHub's `parseLinkPagination` always finds a next page, so that stream never ends by itself.

**RepoSettings**: reading (with the failures `GetRepositoryConfiguration` turns into an error and
those it ignores), the confirmation with its levels of risk, the filter for
skipped changes, and three stages of application; `SomebodyEdits` at any time.

**SelfUpdate**: download, sync, validate, and the two ways to replace; a file has an identity
and is whole or partial, a killed updater leaves what it had, and `PowerFails`
takes the data that was not synced.

**Bootstrap**: Kahn's algorithm and the installation. The filter that keeps the requested
managers in the sorted list is a step per manager that it drops (`DropUnrequested`), taken
before the next one is installed: the order of the rest is the same. `Needed` is the reference:
the closure of the dependencies, defined without the algorithm.

## 3. Runs

| Run | Instance | Asks |
|---|---|---|
| `worker_pool` | 2 workers, 3 jobs, channels of 1, 2 Stop calls (1 timed), 2 starts; 167 318 states | safety, liveness and refinement of the pool |
| `resumable_clone` | 2 repositories that appear one by one, 2 spellings, both versions, 3 runs; 993 984 states under symmetry | record, file and disk agree |
| `resumable_clone_ends` | 3 repositories at once, 1 run; 151 340 states | every run returns |
| `bulk_clone` | 4 jobs in 2 lanes and 2 batches, 1 retry, all callers, 2 Stop calls; 509 527 states under symmetry | safety and refinement of the pool of pools under its callers |
| `bulk_clone_live` | 3 jobs, no retry; 67 620 states | Stop, jobs and callers come to their ends |
| `services` | the seven services, see below; 340 996 states | stores and caches stay right, background work ends |
| `operations` | the eight operations, see below; 133 281 states | success is earned, nothing is destroyed, operations end |
| `github_failed`, `gitlab_success`, `optimized_hang`, `sync_force`, `unprotected` | the smallest instance that shows it, or that of `operations` | five places where the program does not do what it says (section 6) |

Why these bounds suffice to meet the interesting cases. *WorkerPool*: with one slot
per channel and three jobs, a queue is full while another job runs and a third is
refused; two workers can both be blocked on the full result channel when Stop
begins; two Stop calls are what a second can do to a first. *RepositoryPool*: a lane
of one worker has a queue of two, so that three clone jobs can fill it and be refused;
a shared channel of one slot (100 in the code) is full with one unread result; one
retry shows the first and the last attempt. *ResumableClone*: three runs allow
crash, resume and resume again, with a different spelling or without `--resume` in
between; two repositories allow one to fail and one to succeed; the organization
starts empty, so that growth between runs is met. One worker gives a queue of two,
which three repositories in `resumable_clone_ends` overfill.

*services*: two watches are one and its successor, which is where two closers meet; two paths are
the one that is watched and the other that a Load, Save or CreateDefault turns the service to. An
edit, a save and a queue of one event suffice for events that are lost, and for an edit before,
between and after the steps of a reload; two reloaders are one and the one it starts; two names and two getters around
a cache of one entry evict each other, with one update of a configuration (which of several
entries is evicted is not met at this bound; the proof covers it for every size); three
providers behind a channel with room for fewer (in the mutant) block; two starts of the monitor
are the restart; two evaluations straddle an update or a deletion in two
organizations; two saves and a load of a snapshot of two files, over an earlier one or
none, overtake each other between any two calls, also so that the load has one file of each.

*operations*: two repositories and two workers, or one slot for two repositories, let
one fail while the other waits or succeeds; two tries show the first and
the last. Two callers over a quota of two with one retry exhaust it in flight. Three items
on two slots leave one waiting when the group is cancelled. Five
projects in pages of two end in a page that is not full, into a buffer of two that fills
within a page. Three repositories and two configurations make every kind of change, from
public to private and back; one of the repositories can be read and has a second protected branch,
whose protection one of the configurations loosens. Two updaters meet in every step of the replacement. The
graphs of four managers contain chains, diamonds and circles, and parts nobody asked for.

Every bound is a CONSTANT: `MaxStarts`, `MaxRuns`, `RetryAttempts`, `BatchCount`,
`MaxWatches`, `MaxEdits`, `MaxSaves`, `MaxEvents`, `MaxReloaders`, `MaxCached`, `MaxVersion`,
`MaxRemovals`, `MaxPolicies`, `FileCount`, `Parallel`, `MaxTries`, `Quota`, `MaxApiRetries`,
`Slots`, `MaxAttempts`, `Total`, `PageSize`, `BufferSize`, and the sizes of the sets.

Symmetry is used only in runs without liveness properties. `CHECK_DEADLOCK` is
switched off for `services` only: a service waits for calls, and where calls are bounded
(watches, edits, starts, policies) there really may be nothing left to happen. All
other specifications either go on or have an action for being over (`Finished`, `Over`),
and TLC would report any other state without successor.

### Properties

*WorkerPool*: `StopIsClean` (no panic in the first life, and nothing runs once Stop has
returned), `EachJobInOnePlace` (conservation: accepted jobs are exactly those in the
three places, each in one), `CancellationIsSharp` (results are dropped only after the
cancellation, and a worker begins at most one job after it), `StopReturns`,
`AcceptedIsAnswered`, `ImplementsJobService`.

*ResumableClone*: `RecordIsConsistent` (partition and total), `CompletedIsOnDisk`,
`OutcomeIsTruthful` (GitHub's success has done everything, GitLab's failures can be
resumed), `FinishedIsNotRedone`, `FileLagsBehindMemory`, `UnfinishedRecordIsKept` (an
action property), `RunEnds`.

*BulkClone*: `StopIsClean`, `BatchesAreComplete` (callers that were
never refused or cancelled get their own results, all of them), `StopReturns`,
`AcceptedIsAnswered`, `CallersReturn`, `ImplementsJobService`.

*Services*: `WatchersAreClosedOnce`, `EditsAreLoaded`, `CacheIsBoundedAndCurrent`,
`SuccessIsComplete`, `DroppedResultsStayAway`, `SnapshotsAreSafe` (the newest saved
snapshot is somewhere; loads replace no file of the user, and one that ends well has all files of
one snapshot if that was not moved away meanwhile),
`BackgroundWorkEnds` (watch loops, reloaders, fan-out and monitor loops).

*Operations*: `SyncOkIsMirrored`, `CloneOkIsComplete`, `NilMeansHandled`,
`InformedIsNotRefused`, `StreamIsExact`, `SettingsFollowConsent`, `BinarySurvives`,
`DependenciesComeFirst`, `OperationsEnd` (each of the operations with goroutines returns
and leaves none behind).

Some of them are deliberately as weak as the code.

* `StopIsClean` of WorkerPool excludes a second Start: after it the pool does panic, and
  no caller does it.
* `CompletedIsOnDisk` and `CloneOkIsComplete` promise a whole clone for the reset strategy
  only, since `git pull` may succeed in a clone that was killed half-way.
* `FinishedIsNotRedone` allows GitLab's version to process a repository again that failed
  once and was completed later, since it goes by the list of failures.
* `OutcomeIsTruthful` is about a success of GitHub's version and a failure of GitLab's; the
  other two outcomes are findings 1 and 2.
* `UnfinishedRecordIsKept` takes for work left to do (`LeftToDo`) what is pending and, in
  GitLab's version, what failed, since `--resume` processes both. It excepts three deletions that
  the code makes: of what failed in GitHub's version (finding 1), of what GitLab's has tried
  again without reading the result (finding 2), and of the record of another spelling of the
  path, by GitHub's version.
* `BatchesAreComplete` says nothing of batches once one was given up: the code then takes the
  results of one for those of another.
* `CallersReturn` promises the return of the optimized caller once its ctx is cancelled, and not
  before: its stream has no end, and after a refusal it waits for a result that never comes,
  which is a finding.
* `CacheIsBoundedAndCurrent` and `DroppedResultsStayAway` except what was under
  construction or being stored at the time of the invalidation: it is stored late.
* `EditsAreLoaded` is about files written in place: a file that is replaced takes the
  watched inode away. It excepts watches during which the service was turned to another file,
  which the loop then reloads instead of the watched one, saves that failed, which leave memory
  and file apart, and for the callback an older loop that was still about.
* `SnapshotsAreSafe` excepts loads during which a `save --force` moved the snapshot away: they may
  report success with a part of it or a mixture, and only their main config is certain.
* `InformedIsNotRefused` is what is left of the limiter's promise once answers overtake
  each other, some carry no count and several callers wake at one reset.
* `BackgroundWorkEnds` excepts the reloaders of a program that their unlocked read has ended.
* `StreamIsExact` excepts a stream that an error lost in a full channel has cut short; of
  GitHub's stream only the end after a cancellation is promised.
* `SettingsFollowConsent` excepts edits by others and settings read wrongly; the latter is
  a finding. It excepts the protection of branches other than the default one too: the code
  does not read it, so that nothing is there to compare with, and lets administrators bypass it
  without asking. No other risky change is made without consent.

Each property has a mutant: an operator marked "Mutation:" next to the definition it
would replace, which makes TLC report that property.

### Fairness

Weak fairness for each goroutine's next step: Go schedules every runnable goroutine,
and a job ends because `pool.worker` runs it under `context.WithTimeout` and the
retries are counted. No call is ever forced: nobody has to `Submit`, `Stop`, cancel
or start another run; only a call that has begun goes on. In `ResumableClone` a
result that is ready over and over needs *strong* fairness, because a ticker may be
ready in the same `select`: Go chooses among ready branches uniformly at random, so a
branch that is ready infinitely often is taken. Weak fairness would not do, since
a periodic save closes the `select` in between. The reader of a pool's results is
fair until it decides to leave, which it may do at any time. In
ConfigManager the reloader's `select` between its ticker and the end of the context is
the same case (`SF` on `ReloaderEnds`).

For the services and operations: weak fairness of each loop's, worker's, item's, producer's,
consumer's and collector's next step, which includes that calls of git, of an API and of
a callback return, with success or without. Of time it assumes that a sleep
ends, also one until the end of the rate limit's window (`SleepersWake`), not that anybody
cancels. In a composition the conjunction of the parts' fairness binds the chosen part only,
since no fair action of another part is enabled in its initial state. No fairness
is assumed of editors, users, other programs, kills, calls of the services, or of a
network that might deliver: an answer may always be an error. The settings, the
self-update and the bootstrap are sequential and have no liveness property.

## 4. Proofs

`WorkerPool_proofs.tla` proves, for any sets of workers, jobs and Stop calls and any
buffer size (assumption: `PoolAssumption` of WorkerPool):

* `TypeCorrect`. `TypeOK` is not inductive alone: that a result sent is a job needs
  `HandOK` (a worker has a job in hand exactly while it runs or delivers one), and
  that a Start finds no worker needs `IdleOK`. `TypeInv` is the three together.
* `FirstLifeIsSafe`, `StoppedIsQuiet`, and `StoppingIsClean` from both. The inductive invariant `LifeInv` says who may
  be inside Stop (`OneHolder`), that the job channel is closed only by a Stop that
  holds the lock or has left `started` false behind (`FirstLife`, `HolderOK`), and
  that the result channel is closed after the context and the job channel
  (`ClosedOK`). A Submit that passes `started` therefore never meets a closed channel.
* `JobsAreConserved`. `EachJobInOnePlace` is inductive on top of the types; each step
  moves at most one job, which `SendLemma`, `ReceiveLemma` and `HandLemma` express.
* `LingeringIsBounded`, `DropsFollowCancellation`: what the cancellation permits;
  `CancelledPoolGoesQuiet` from both.
* `PoolIsAJobService`. From the conjunction of the three invariants: each step is a
  step of JobService under the mapping `Phase`, or changes neither fate nor phase.

`BulkClone_proofs.tla` proves, for any number of lanes, workers, jobs, batches, retries
and Stop calls (assumptions: `PoolAssumption` of RepositoryPool, `ClientAssumption`):

* `PoolNeverPanics`, `StoppedIsQuiet`, `StoppingIsClean`. `StepCases` reduces a
  step of any caller to a step of the pool. The invariant `LifeInv` follows Stop: one
  call works (`OneStopper`), the lanes behind it are closed and have no worker
  (`BehindOK`, `QuietOK`), a lane that closes is the one it waits for (`ClosingOK`), and
  `rp.results` is closed exactly when some Stop call returned, with no collector left
  (`ClosedOK`). A result in a collector's hands belongs to a collector that still runs
  (`CarriedOK`), so nobody is left to send.
* `BulkCloneTypes`. `CapacityInv` adds the sizes: a job in a worker's hands takes the place of
  an idle worker of its lane, a send waits for room, and a job that will be retried has
  attempts left (`TriesOK`). `SizeMoves` says how a move of one job changes the size of the
  stages of a lane; `JobMoves` and `NothingMoves` are what each kind of step costs.
* `BatchesComplete`. `BatchesInv`: while no batch ended early, what is owed is the number of
  jobs of the batch whose result was not read (`Due`), the earlier batches were read to the end,
  and the later ones are not submitted, so that no result read is another batch's. The steps of
  the pool neither submit nor read (`PoolLeavesEnds`), which is all the invariant needs of them.
* `BulkPoolIsAJobService`, the refinement, from `LifeInv`.

`ResumableClone_proofs.tla` proves, for any set of repositories and of spellings of the target, any
number of workers and of runs, and both versions (assumption: `CloneAssumption`):
`ResumableCloneTypes`, `RecordStaysConsistent`, `CompletedStaysOnDisk`, `OutcomesAreTruthful`,
`NothingFinishedIsRedone`, `FileLags` and the action property `RecordIsKept`. None of the
properties is inductive alone. `IInv` is their conjunction with

* `PhaseInv`: which variables are in use where the process is;
* `JobsInv`: a repository of a run is in one place - to be submitted, queued, running, answered
  or failed - and `CountInv`: GitHub's loop counts what it has not heard of, and what it has
  heard of is a failure or recorded as completed;
* `RecordInv`: a job is not recorded yet, but for GitLab's version, which may repeat what
  once failed; and a run that completed leaves nothing pending;
* `FailedInv`: what a record says has failed belongs to the organization, so that a run of
  GitLab's version sets out to process all of it;
* `DiskInv`: with the reset strategy no job that will clone anew is called completed by the record
  or by the file, since a clone that is killed leaves a partial directory;
* `ResumeInv`: what is under way, in memory or in a file that can be read, is what GitLab's
  `--resume` would process again;
* `LagInv`: in the counts of completions and failures and in the pending list the file is
  behind the record in memory.

The total of a record is a sum over a multiset, a fold of the community modules. Induction over it
is possible although no library theorem with an operator parameter is usable: the set of sizes
for which the fold has the wanted property is shown to be all of Nat (`NatSetInduction`), and the
library's fold is shown to be that function (`SumIsFold`). What a record's methods do to the
sum is then arithmetic.

The invariants of the services and operations, in `RepositorySync_proofs.tla`,
`CloneExecutor_proofs.tla`, `ErrGroupBulk_proofs.tla`, `Services_proofs.tla` and
`Operations_proofs.tla`, from the assumptions on constants that each
module states (the sets are finite where something is counted, bounds are positive):

* `SyncMirrors`. `MirrorInv` accounts for every repository of the list: it waits in a queue,
  is in the hands of a worker, or has an outcome; and what a worker that has not failed has
  behind it is done at the destination. When the run returns nothing waits and nobody works.
* `CloneCompletes`. `ExecInv`: a goroutine that is done has one result, in the channel or
  counted (`ResultsOK`, `TallyOK`), as many as the counters say, and a success that is
  counted has its repository on disk. `SlotsOK` bounds the holders of the semaphore.
* `NilIsEarned`. `GroupInv`: while no error was returned nobody is refused (`ErrorsOK`), and
  the counters are the cardinalities of the sets of items that ended that way (`CountsOK`).
* `SurvivesUpdates`. `SurvivalInv`: what any updater puts at the current path is whole
  and synced, a backup is whole, and if there is no binary some updater has it in its backup.
* `InformedIsAdmitted`. `ApiInv` relates the limiter's count, the server's, and the number
  of requests under way while the limiter is informed.
* `ConsentIsFollowed`. `SettingsInv`: at every point of an update each setting is as it was or as
  it is wanted by now (`HalfWay`), the stages that are over left nothing undone (`StagesDone`),
  and what the user was shown is what the repository was like (`SeenAsItWas`), unless somebody
  edited it or it was read wrongly. What is risky and was not shown can only be the protection
  of a branch that is not the default one.
* `StreamsAreExact`. `StreamInv`: what the consumer has, what is in the channel and what is left
  of the page follow one another without a gap up to the end of the page (`Unbroken`), and an
  error that was sent is the last thing in the channel.
* `DependenciesFirst`. `BootInv`: Kahn's loop places a manager after all it depends on, so that
  the placed ones are closed under dependency at every length (`InOrder`), and nothing placed
  later is needed before (`Free`, `Before`). That `Needed` is the least closed set is proved once
  (`NeededCloses`) and cited.
* `ClosedOnce`. `WatchInv`: a watcher that was made and is not the current one has been
  closed once.
* `FanOutSucceeds`. `FanInv` counts: who has sent is among those collected or has a result
  in the channel, and errors and successes are as many as were collected.
* `DroppedStayAway`. `PolicyInv` follows a result that waits to be stored: it was made from a
  policy that is not older than the last invalidation of its organization, or its evaluation is in
  `belated`.
* `SnapshotsStaySafe`. `SaveInv`: the newest snapshot is at its final path or in the backup
  of a save that will not remove it; `LoadInv` follows a load file by file, and as long as nothing
  was moved away what it has restored is of the snapshot that is there.
* `CacheStaysBounded`. `RegistryInv`: the order of use is a total order of what is cached, so a
  cache that is full has a least recent entry to evict (`SomeoneIsLeastRecent`, by the
  well-foundedness of strict inclusion on the sets of earlier names); an entry is as new as the last
  invalidation of its name unless it is marked late; and a getter that will store something
  older is in `straddling`.
* `OperationsAreSafe` and `OperationsTypeCorrect` carry the theorems about the parts to the
  composition: a step of another operation leaves their variables alone, so a behaviour
  of `Operations` is one of each (`SpecParts`). `ServicesTypeCorrect` does the same for the types
  of the services, which need some invariants of their own (`FanCounts`, `PolicyTypeInv`,
  `SaveTypes`, `LoadTypes`).

The type invariants of the parts are theorems too (`SyncTypeCorrect`, `ExecTypeCorrect`,
`GroupTypeCorrect`, `UpdateTypeCorrect`, `SettingsTypeCorrect`, `StreamTypeCorrect`,
`BootTypeCorrect`).

## 5. What is only checked, and what is not modelled

Every invariant, action property and refinement that a passing run checks is a theorem of
section 4. Only checked by TLC: the liveness properties (`StopReturns`, `AcceptedIsAnswered`,
`CallersReturn`, `RunEnds`, `EditsAreLoaded`, `BackgroundWorkEnds`, `OperationsEnd`), since their
proofs need ENABLED, which the provers do not handle; and the five violations of section 6.

Not modelled within the modules: what a job computes, progress displays, statistics, memory
monitoring, the wording of messages, the contents of configuration files; the order
within a channel in RepositoryPool (WorkerPool has it); git processes that outlive a
crashed run and still write when the next one begins; two `gz` processes in one
target directory at a time, except for snapshots and the self-update.

Not modelled at all, with the reason in `PROJECT.json`:

* the circuit breaker and recovery of `internal/errors`, which only its tests call; the
  adaptive limiter of the large-scale manager, whose delays follow measured times, and the
  manager's listing; Gitea's `RefreshAll` and the sync tracker, which nobody calls;
* the clone session, which stays empty: nothing adds repositories to it;
* bulk operations of the policy manager, which answer "not implemented" for every repository, and reports;
* environment switching (`cmd/dev-env/switch_all.go`), whose coordinator is outside the repository,
  `pkg/cloud`, `internal/pm/upgrade` and `internal/pm/sync`: sequences of external commands and calls of
  stub providers, with reports;
* configuration schemas, validation, workflow and policy analysis, doctor, IDE, shell and
  profile commands, and the support libraries: pure functions of data or I/O and
  formatting, and most of the lines of the repository. They keep no state whose order of
  changes matters, and a model of their data would be a second copy of them.

## 6. Findings

1. *GitHub: a run with failures cannot be resumed.* A failed repository leaves the
   pending list, so the run ends as completed and the state file is deleted, while the
   message recommends `--resume` (`github_failed`).
2. *GitLab: success may be reported too early.* The tracking loop spends an iteration
   on every tick. On a resumed run, where nothing is pending, it ends as a success with
   repositories unprocessed, and the state is deleted (`gitlab_success`).
3. *Optimized mode hangs.* Results of refused jobs are awaited (`optimized_hang`).
4. *A synchronization without `--force` forces.* Every push that fails is repeated with
   `--force`, whatever it failed of; commits that only the destination has are replaced
   (`sync_force`).
5. *Settings are changed unasked.* The condition that should let an unprotected default branch
   pass is the wrong way round, so the current configuration of such a
   repository cannot be read, and the update goes on without asking (`unprotected`).

Further behaviour that the models contain and no property forbids, since no text of the
repository promises otherwise: a pool started a second time panics, and so does the second Stop of
the webhook monitor; reloaders of the configuration manager double with every
period; a provider under construction during an invalidation is cached stale; a policy deleted
while it is evaluated ends the program, and so does a synchronization with
`--include-issues`, whose syncer has no HTTP client; a GitLab stream may lose its error when
the channel is full and its list then looks complete; GitHub's stream asks for next pages
until it is cancelled or a request fails, and the optimized caller goes on as long; a load of an SSH
snapshot beside a `save --force` may report success with a part of it; the configuration service
reloads another file than the watched one once it was turned to it; protections of branches other
than the default one are loosened unasked.

## 7. Plan

Done: every module of section 2 with its runs, and the proofs of section 4. What would come next:

1. an abstract specification of a bulk operation (each item is attempted at most once, and the
   outcome says whether all succeeded) that RepositorySync, CloneExecutor and
   ErrGroupBulk would implement;
2. the breaker of `internal/errors`, as soon as a command uses it.
