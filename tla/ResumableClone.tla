---------------------------- MODULE ResumableClone ----------------------------
(***************************************************************************)
(* RefreshAllResumable of pkg/github/resumable_clone.go and of its GitLab  *)
(* twin pkg/gitlab/resumable_clone.go: one process at a time works on one  *)
(* target directory, which also holds the state file; the user starts it   *)
(* again, with or without --resume, after it returned or died.             *)
(*                                                                         *)
(* The two versions share their shape and differ where a `provider' guard  *)
(* says so.  The worker pool appears as WorkerPool shows it to its callers *)
(* (JobService): a lane accepts a job or reports a full queue, answers it  *)
(* in any order, and on Stop drops what is not answered.                   *)
(***************************************************************************)
EXTENDS CloneState

CONSTANTS
    Providers,      \* which of the versions, a subset of {"github", "gitlab"}
    InitialOrg,     \* the repositories of the organization at first
    Strategy,       \* "reset", "pull" or "fetch"
    LaneWorkers,    \* workers of the clone pool and of the update pool
    MaxRuns         \* bound: how often the command is started

ASSUME CloneAssumption ==
    /\ Providers \subseteq {"github", "gitlab"}
    /\ InitialOrg \subseteq Repos
    /\ IsFiniteSet(Repos)
    /\ Strategy \in {"reset", "pull", "fetch"}
    /\ LaneWorkers \in Nat \ {0}
    /\ MaxRuns \in Nat

VARIABLES
    provider,   \* the version that runs; never changes
    org,        \* what List returns
    disk,       \* the directory of each repository
    file,       \* the state file
    \* the process
    pc, after, resume, target, mem,
    todo,       \* repositories still to be submitted
    op,         \* the operation chosen for each job
    queue,      \* accepted, waiting in a pool's job channel
    working,    \* in a worker's hands
    answers,    \* the results the loop has not read yet
    left,       \* iterations of the tracking loop still to do
    cancelled,  \* ctx is done: the user pressed Ctrl+C
    failures,   \* the repositories whose failure this run recorded
    \* history
    runs,       \* how many runs were started
    attempted,  \* the repositories the current or last run set out to process
    outcome     \* how the last run ended

userVars == <<provider, org, runs>>
procVars == <<resume, target>>
poolVars == <<op, queue, working, answers>>
histVars == <<attempted, outcome>>
vars == <<provider, org, disk, file, pc, after, resume, target, mem, todo, op,
          queue, working, answers, left, cancelled, failures, runs, attempted,
          outcome>>

NoFile == [kind |-> "none"]
Torn   == [kind |-> "torn"]     \* created or truncated, not completely written
Saved(s) == [kind |-> "saved", state |-> s]
Readable(f) == f.kind = "saved"
NoState == [status |-> "none"]

Places == {"idle", "open", "list", "save", "write", "create", "submit", "track",
           "finish"}
Afters == {"create", "track", "finish", "cancelled", "nothing"}
Answers == {"none", "ok", "error"}
Ops == {"none", "clone", "update"}
Outcomes == {"none", "crashed", "refused", "list_failed", "nothing", "cancelled",
             "save_failed", "submit_failed", "success", "failed", "incomplete"}

(***************************************************************************)
(* The directory of a repository: "bare" is a directory without .git,      *)
(* "partial" a clone that was killed, "cloned" a complete one.             *)
(***************************************************************************)
DiskStates == {"absent", "bare", "partial", "cloned"}

\* Does the code take the directory for an existing repository?  GitHub's looks
\* for the directory, GitLab's for a .git inside it.
Existing(d) ==
    IF provider = "github" THEN d # "absent" ELSE d \notin {"absent", "bare"}

\* The operation a job is created with.  reset, pull and fetch all run in the
\* update pool.
OperationFor(d) == IF Existing(d) THEN "update" ELSE "clone"

(***************************************************************************)
(* git itself.  A clone that fails removes what it created, but not a      *)
(* directory that was there before (GitLab's code creates it first); one   *)
(* that is killed leaves what it has.  In a partial clone `git reset       *)
(* --hard HEAD' fails or, if the clone had come as far as the checkout,    *)
(* repairs it; pull and fetch may succeed and leave it partial.            *)
(***************************************************************************)
BeforeClone == IF provider = "github" THEN "absent" ELSE "bare"

UpdateResult(d) == IF Strategy = "reset" THEN "cloned" ELSE d

\* What a job that failed or was killed may leave of a repository: the clone may
\* have been complete before git was killed, and reset is followed by a pull that
\* may fail on its own.
CutOff(r) ==
    IF op[r] = "clone" THEN {BeforeClone, "partial", "cloned"}
                       ELSE {disk[r], UpdateResult(disk[r])}

(***************************************************************************)
(* The lanes of the pool: clone jobs and update jobs queue separately, and *)
(* each job channel holds twice as many jobs as the lane has workers.      *)
(***************************************************************************)
Lane(jobs, o) == {r \in jobs : op[r] = o}

LaneBuffer == 2 * LaneWorkers

Init ==
    /\ provider \in Providers
    /\ org = InitialOrg
    /\ disk = [r \in Repos |-> "absent"]
    /\ file = NoFile
    /\ pc = "idle"
    /\ after = "create"
    /\ resume = FALSE
    /\ target \in Targets
    /\ mem = NoState
    /\ todo = {}
    /\ op = [r \in Repos |-> "none"]
    /\ queue = {}
    /\ working = {}
    /\ answers = [r \in Repos |-> "none"]
    /\ left = 0
    /\ cancelled = FALSE
    /\ failures = {}
    /\ runs = 0
    /\ attempted = {}
    /\ outcome = "none"

(***************************************************************************)
(* Ends of a run.  Returning runs the deferred pool.Stop: what a worker    *)
(* has in hand is killed or finishes, and each worker may still begin one  *)
(* queued job, which fails at once (GitLab's creates the directory first). *)
(***************************************************************************)
LeftBehind(r) ==
    CASE r \in working                   -> CutOff(r)
      [] r \in queue /\ op[r] = "clone" -> {disk[r], BeforeClone}
      [] OTHER                          -> {disk[r]}

PoolStops ==
    /\ disk' \in {d \in [Repos -> DiskStates] : \A r \in Repos : d[r] \in LeftBehind(r)}
    /\ queue' = {}
    /\ working' = {}
    /\ answers' = [r \in Repos |-> "none"]
    /\ op' = [r \in Repos |-> "none"]

Return(how) ==
    /\ pc' = "idle"
    /\ outcome' = how
    /\ mem' = NoState
    /\ todo' = {}
    /\ left' = 0
    /\ PoolStops
    /\ UNCHANGED <<userVars, procVars, after, cancelled, failures, attempted>>

\* The process dies at any point; the state file keeps what it has.
Crash ==
    /\ pc # "idle"
    /\ Return("crashed")
    /\ UNCHANGED file

(***************************************************************************)
(* The user and the organization.                                          *)
(***************************************************************************)
Begin ==
    /\ pc = "idle"
    /\ runs < MaxRuns
    /\ runs' = runs + 1
    /\ resume' \in BOOLEAN
    /\ target' \in Targets
    /\ pc' = "open"
    /\ cancelled' = FALSE
    /\ failures' = {}
    /\ attempted' = {}
    /\ outcome' = "none"
    /\ UNCHANGED <<provider, org, disk, file, after, mem, todo, poolVars, left>>

Interrupt ==
    /\ pc # "idle"
    /\ ~cancelled
    /\ cancelled' = TRUE
    /\ UNCHANGED <<userVars, procVars, poolVars, disk, file, pc, after, mem, todo,
                   left, failures, attempted, outcome>>

\* A repository is created in the organization.
OrgGrows ==
    /\ \E r \in Repos \ org : org' = org \union {r}
    /\ UNCHANGED <<provider, runs, procVars, poolVars, histVars, disk, file, pc,
                   after, mem, todo, left, cancelled, failures>>

(***************************************************************************)
(* initializeOrLoadState (GitHub), initializeState (GitLab).               *)
(***************************************************************************)
StartWith(s) ==
    /\ mem' = s
    /\ pc' = "list"
    /\ UNCHANGED <<userVars, procVars, poolVars, histVars, disk, after, todo,
                   left, cancelled, failures>>

Refuse ==
    /\ Return("refused")
    /\ UNCHANGED file

\* --resume over a readable file of the same target path.
OpenResume ==
    /\ pc = "open"
    /\ resume
    /\ Readable(file)
    /\ file.state.target = target
    /\ StartWith(file.state)
    /\ UNCHANGED file

\* GitLab's version begins anew when there is nothing to resume.
OpenResumeNothing ==
    /\ pc = "open"
    /\ resume
    /\ provider = "gitlab"
    /\ file = NoFile
    /\ StartWith(NewCloneState(target))
    /\ UNCHANGED file

OpenFresh ==
    /\ pc = "open"
    /\ ~resume
    /\ file = NoFile
    /\ StartWith(NewCloneState(target))
    /\ UNCHANGED file

\* Mutation: an operation begins anew over the state of the same target.
OpenFreshKeepsSame ==
    /\ pc = "open"
    /\ ~resume
    /\ provider = "github"
    /\ file # NoFile
    /\ UNCHANGED file
    /\ StartWith(NewCloneState(target))

\* GitHub's version deletes a state file it cannot read and one that names
\* another target path; that the deletion fails is ignored.
OpenFreshOverOld ==
    /\ pc = "open"
    /\ ~resume
    /\ provider = "github"
    /\ file # NoFile
    /\ Readable(file) => file.state.target # target
    /\ file' \in {NoFile, file}
    /\ StartWith(NewCloneState(target))

OpenRefused ==
    /\ pc = "open"
    /\ \/ /\ resume
          /\ \/ file = NoFile /\ provider = "github"
             \/ file = Torn
             \/ Readable(file) /\ file.state.target # target
       \/ /\ ~resume
          /\ \/ Readable(file) /\ file.state.target = target
             \/ file # NoFile /\ provider = "gitlab"
    /\ Refuse

(***************************************************************************)
(* prepareRepositoryList (GitHub), determineRepositoriesToProcess (GitLab).*)
(***************************************************************************)
\* What --resume processes: the pending repositories and those nobody has seen;
\* GitLab's version adds those that failed.
NewRepos(s) == {r \in org : ~IsCompleted(s, r) /\ ~IsFailed(s, r)}

\* Mutation: every repository of the organization is processed again.
ResumeAll(s) == GetRemainingRepositories(s) \union org

ResumeRepositories(s) ==
    GetRemainingRepositories(s) \union NewRepos(s)
        \union (IF provider = "gitlab" THEN {r \in org : IsFailed(s, r)} ELSE {})

ListFails ==
    /\ pc = "list"
    /\ Return("list_failed")
    /\ UNCHANGED file

\* GitLab's version returns before it saves anything.
ListEmptyGitlab ==
    /\ pc = "list"
    /\ provider = "gitlab"
    /\ org = {}
    /\ Return("nothing")
    /\ UNCHANGED file

Process(repos, s) ==
    /\ pc' = "save"
    /\ todo' = repos
    /\ attempted' = repos
    /\ IF repos = {}
       THEN mem' = MarkStatus(s, "completed") /\ after' = "nothing"
       ELSE mem' = s /\ after' = "create"
    /\ UNCHANGED <<userVars, procVars, poolVars, disk, file, left, cancelled,
                   failures, outcome>>

ListFresh ==
    /\ pc = "list"
    /\ ~resume
    /\ org # {}
    /\ Process(org, SetPendingRepositories(mem, org))

ListResume ==
    /\ pc = "list"
    /\ resume
    /\ org # {}
    /\ Process(ResumeRepositories(mem), mem)

ListEmptyGithub ==
    /\ pc = "list"
    /\ provider = "github"
    /\ org = {}
    /\ Process({}, mem)

(***************************************************************************)
(* SaveState: os.WriteFile truncates the file and then writes it.  Only    *)
(* the first save of a run ends the run when it fails.                     *)
(***************************************************************************)
SaveBegin ==
    /\ pc = "save"
    /\ file' = Torn
    /\ pc' = "write"
    /\ UNCHANGED <<userVars, procVars, poolVars, histVars, disk, after, mem, todo,
                   left, cancelled, failures>>

\* What follows a save that succeeded or was only warned about.
AfterSave ==
    IF after \in {"cancelled", "nothing"}
    THEN Return(after)
    ELSE /\ pc' = after
         /\ UNCHANGED <<userVars, procVars, poolVars, disk, after, mem, todo, left,
                        cancelled, failures, attempted, outcome>>

SaveEnd ==
    /\ pc = "write"
    /\ file' = Saved(mem)
    /\ AfterSave

SaveFails ==
    /\ pc \in {"save", "write"}
    /\ UNCHANGED file
    /\ IF after = "create" THEN Return("save_failed") ELSE AfterSave

(***************************************************************************)
(* The jobs.                                                               *)
(***************************************************************************)
CreateJobs ==
    /\ pc = "create"
    /\ op' = [r \in Repos |-> IF r \in todo THEN OperationFor(disk[r]) ELSE "none"]
    /\ left' = Cardinality(todo)
    /\ pc' = "submit"
    /\ UNCHANGED <<userVars, procVars, histVars, disk, file, after, mem, todo,
                   queue, working, answers, cancelled, failures>>

SubmitJob(r) ==
    /\ pc = "submit"
    /\ r \in todo
    /\ Cardinality(Lane(queue, op[r])) < LaneBuffer
    /\ queue' = queue \union {r}
    /\ todo' = todo \ {r}
    /\ UNCHANGED <<userVars, procVars, histVars, disk, file, pc, after, mem, op,
                   working, answers, left, cancelled, failures>>

\* "job queue is full": the whole run is given up.
SubmitFails(r) ==
    /\ pc = "submit"
    /\ r \in todo
    /\ Cardinality(Lane(queue, op[r])) >= LaneBuffer
    /\ Return("submit_failed")
    /\ UNCHANGED file

AllSubmitted ==
    /\ pc = "submit"
    /\ todo = {}
    /\ pc' = "track"
    /\ UNCHANGED <<userVars, procVars, poolVars, histVars, disk, file, after, mem,
                   todo, left, cancelled, failures>>

\* Mutation: the lane runs as many jobs as it has.
TakeAnyJob(r) ==
    /\ r \in queue
    /\ queue' = queue \ {r}
    /\ working' = working \union {r}
    /\ disk' = IF op[r] = "clone" /\ provider = "gitlab"
               THEN [disk EXCEPT ![r] = "bare"] ELSE disk
    /\ UNCHANGED <<userVars, procVars, histVars, file, pc, after, mem, todo, op,
                   answers, left, cancelled, failures>>

\* processRepositoryJob begins: GitLab's creates the directory before the clone.
TakeJob(r) ==
    /\ r \in queue
    /\ Cardinality(Lane(working, op[r])) < LaneWorkers
    /\ queue' = queue \ {r}
    /\ working' = working \union {r}
    /\ disk' = IF op[r] = "clone" /\ provider = "gitlab"
               THEN [disk EXCEPT ![r] = "bare"] ELSE disk
    /\ UNCHANGED <<userVars, procVars, histVars, file, pc, after, mem, todo, op,
                   answers, left, cancelled, failures>>

Answer(r, a) ==
    /\ working' = working \ {r}
    /\ answers' = [answers EXCEPT ![r] = a]
    /\ UNCHANGED <<userVars, procVars, file, pc, after, mem, todo, op, queue, left,
                   cancelled, failures, attempted, outcome>>

JobSucceeds(r) ==
    /\ r \in working
    /\ \/ op[r] = "clone"  /\ disk' = [disk EXCEPT ![r] = "cloned"]
       \/ op[r] = "update" /\ Existing(disk[r])
                           /\ disk' = [disk EXCEPT ![r] = UpdateResult(@)]
    /\ Answer(r, "ok")

JobFails(r) ==
    /\ r \in working
    /\ \E d \in CutOff(r) : disk' = [disk EXCEPT ![r] = d]
    /\ Answer(r, "error")

(***************************************************************************)
(* The tracking loop.  GitHub's counts results; GitLab's runs once per job *)
(* whatever it was that woke it up.                                        *)
(***************************************************************************)
Tracking == pc = "track" /\ left > 0

\* Mutation: GitHub's loop counts timer events too, as GitLab's does.
CountEveryTick == left - 1

LeftAfterTick == IF provider = "github" THEN left ELSE left - 1

\* Mutation: a failure is recorded as a completion.
TrackAnyAsCompleted(r) ==
    /\ Tracking
    /\ answers[r] # "none"
    /\ left' = left - 1
    /\ answers' = [answers EXCEPT ![r] = "none"]
    /\ mem' = AddCompletedRepository(mem, r)
    /\ UNCHANGED <<userVars, procVars, histVars, disk, file, pc, after, todo, op,
                   queue, working, cancelled, failures>>

\* Mutation: a failure is not counted as a result.
TrackCountsSuccess(r) ==
    /\ Tracking
    /\ answers[r] # "none"
    /\ left' = IF answers[r] = "ok" THEN left - 1 ELSE left
    /\ answers' = [answers EXCEPT ![r] = "none"]
    /\ IF answers[r] = "ok"
       THEN mem' = AddCompletedRepository(mem, r) /\ UNCHANGED failures
       ELSE mem' = AddFailedRepository(mem, r) /\ failures' = failures \union {r}
    /\ UNCHANGED <<userVars, procVars, histVars, disk, file, pc, after, todo, op,
                   queue, working, cancelled>>

TrackResult(r) ==
    /\ Tracking
    /\ answers[r] # "none"
    /\ left' = left - 1
    /\ answers' = [answers EXCEPT ![r] = "none"]
    /\ IF answers[r] = "ok"
       THEN mem' = AddCompletedRepository(mem, r) /\ UNCHANGED failures
       ELSE mem' = AddFailedRepository(mem, r) /\ failures' = failures \union {r}
    /\ UNCHANGED <<userVars, procVars, histVars, disk, file, pc, after, todo, op,
                   queue, working, cancelled>>

TickSave ==
    /\ Tracking
    /\ left' = LeftAfterTick
    /\ pc' = "save"
    /\ after' = "track"
    /\ UNCHANGED <<userVars, procVars, poolVars, histVars, disk, file, mem, todo,
                   cancelled, failures>>

\* The display is redrawn: without effect, but for the iteration it costs.
TickProgress ==
    /\ Tracking
    /\ provider = "gitlab"
    /\ left' = LeftAfterTick
    /\ UNCHANGED <<userVars, procVars, poolVars, histVars, disk, file, pc, after,
                   mem, todo, cancelled, failures>>

TrackCancelled ==
    /\ Tracking
    /\ cancelled
    /\ mem' = MarkStatus(mem, "canceled")
    /\ pc' = "save"
    /\ after' = "cancelled"
    /\ UNCHANGED <<userVars, procVars, poolVars, histVars, disk, file, todo, left,
                   cancelled, failures>>

TrackEnds ==
    /\ pc = "track"
    /\ left = 0
    /\ mem' = MarkStatus(mem, IF GetRemainingRepositories(mem) = {}
                              THEN "completed" ELSE "failed")
    /\ pc' = "save"
    /\ after' = "finish"
    /\ UNCHANGED <<userVars, procVars, poolVars, histVars, disk, file, todo, left,
                   cancelled, failures>>

(***************************************************************************)
(* After the final save.  GitHub's version deletes the file of a completed *)
(* run, GitLab's only if nothing failed in it; both go on when they cannot.*)
(***************************************************************************)
Ended == IF failures # {} THEN "failed"
         ELSE IF mem.status = "completed" THEN "success" ELSE "incomplete"

\* Mutation: both versions delete the file of every completed run.
FinishDeleteAll ==
    /\ pc = "finish"
    /\ mem.status = "completed"
    /\ file' = NoFile
    /\ Return(Ended)

FinishDelete ==
    /\ pc = "finish"
    /\ mem.status = "completed"
    /\ provider = "gitlab" => failures = {}
    /\ file' \in {NoFile, file}
    /\ Return(Ended)

FinishKeep ==
    /\ pc = "finish"
    /\ \/ mem.status # "completed"
       \/ provider = "gitlab" /\ failures # {}
    /\ Return(Ended)
    /\ UNCHANGED file

Loop == \/ OpenResume \/ OpenResumeNothing \/ OpenFresh \/ OpenFreshOverOld
        \/ OpenRefused
        \/ ListFails \/ ListEmptyGitlab \/ ListEmptyGithub \/ ListFresh \/ ListResume
        \/ SaveBegin \/ SaveEnd \/ SaveFails
        \/ CreateJobs \/ AllSubmitted
        \/ TickSave \/ TickProgress \/ TrackCancelled \/ TrackEnds
        \/ FinishDelete \/ FinishKeep
        \/ \E r \in Repos : SubmitJob(r) \/ SubmitFails(r) \/ TrackResult(r)

Pool == \E r \in Repos : TakeJob(r) \/ JobSucceeds(r) \/ JobFails(r)

\* Nobody starts the command again.
Over == pc = "idle" /\ runs = MaxRuns /\ UNCHANGED vars

Next == Begin \/ Interrupt \/ OrgGrows \/ Crash \/ Loop \/ Pool \/ Over

(***************************************************************************)
(* The main goroutine and the workers are scheduled, git commands end      *)
(* (each has a deadline), and a select that is ready for a result over and *)
(* over takes it eventually, however often a ticker is ready too: Go picks *)
(* among ready branches at random.                                         *)
(***************************************************************************)
Fairness ==
    /\ WF_vars(Loop)
    /\ \A r \in Repos :
          /\ WF_vars(TakeJob(r))
          /\ WF_vars(JobSucceeds(r) \/ JobFails(r))
          /\ SF_vars(TrackResult(r))

Spec == Init /\ [][Next]_vars /\ Fairness
-------------------------------------------------------------------------------
\* Every variable holds a value of its kind, and the lanes keep to their limits.
TypeOK ==
    /\ provider \in Providers
    /\ org \subseteq Repos
    /\ disk \in [Repos -> DiskStates]
    /\ \/ file \in {NoFile, Torn}
       \/ Readable(file) /\ file = Saved(file.state) /\ file.state \in CloneStates
    /\ pc \in Places
    /\ after \in Afters
    /\ resume \in BOOLEAN
    /\ target \in Targets
    /\ mem = NoState \/ mem \in CloneStates
    /\ todo \subseteq Repos
    /\ op \in [Repos -> Ops]
    /\ queue \subseteq Repos
    /\ working \subseteq Repos
    /\ \A o \in Ops : /\ Cardinality(Lane(queue, o)) <= LaneBuffer
                      /\ Cardinality(Lane(working, o)) <= LaneWorkers
    /\ answers \in [Repos -> Answers]
    /\ left \in Nat
    /\ cancelled \in BOOLEAN
    /\ failures \subseteq Repos
    /\ runs \in 0..MaxRuns
    /\ attempted \subseteq Repos
    /\ outcome \in Outcomes

\* The record in memory and the one in the state file.
Records == ({mem} \ {NoState}) \union (IF Readable(file) THEN {file.state} ELSE {})

\* In the record no repository is both pending and settled, the total counts
\* every entry, and GitHub's version enters no repository twice, whatever number
\* of interrupted and resumed runs have added to it (state.go, lists and total).
RecordIsConsistent ==
    \A s \in Records :
        /\ \A r \in s.pending : ~IsCompleted(s, r) /\ ~IsFailed(s, r)
        /\ s.total = Cardinality(s.pending) + SumFunction(s.completed)
                        + SumFunction(s.failed)
        /\ provider = "github" => \A r \in Repos : s.completed[r] + s.failed[r] <= 1

\* What the record calls completed is a complete clone on disk, also after
\* crashes and interrupted runs.  For reset only: pull and fetch may succeed in a
\* partial clone.
CompletedIsOnDisk ==
    Strategy = "reset" =>
        \A s \in Records : \A r \in Repos : IsCompleted(s, r) => disk[r] = "cloned"

\* GitHub's version reports success only when every repository the run set out
\* to process is a complete clone: no result is left unread.
GithubSuccessMeansDone ==
    provider = "github" /\ outcome = "success" /\ Strategy = "reset" =>
        \A r \in attempted : disk[r] = "cloned"

\* When GitLab's version reports failures, the next --resume processes them: the
\* file is there and, unless its writing was cut off, says so.
GitlabFailuresCanBeResumed ==
    provider = "gitlab" /\ outcome = "failed" =>
        /\ file # NoFile
        /\ Readable(file) => failures \subseteq ResumeRepositories(file.state)

\* A success of GitHub's version agrees with the disk, and a failure of GitLab's
\* with what the next run will find to resume.  The other two do not:
\* FailedRunCanBeResumed and SuccessMeansDone below.
OutcomeIsTruthful == GithubSuccessMeansDone /\ GitlabFailuresCanBeResumed

\* A run does not process again what the record it resumes calls completed.
\* (GitLab's version does so with what failed before it was completed.)
FinishedIsNotRedone ==
    \A r \in todo : IsCompleted(mem, r) => provider = "gitlab" /\ IsFailed(mem, r)

\* The file never runs ahead of the record it belongs to: no stale file of an
\* earlier operation is taken for the state of this one.
FileLagsBehindMemory ==
    mem # NoState /\ Readable(file) /\ file.state.target = mem.target =>
        \A r \in Repos :
            /\ file.state.completed[r] <= mem.completed[r]
            /\ file.state.failed[r] <= mem.failed[r]

\* What --resume would still do for the repositories of a record: GitLab's version
\* tries those that failed again, GitHub's never does.
LeftToDo(s) ==
    GetRemainingRepositories(s)
        \union (IF provider = "gitlab" THEN {r \in org : IsFailed(s, r)} ELSE {})

\* Jobs whose results the tracking loop has not read.
Unread == queue \union working \union {r \in Repos : answers[r] # "none"}

\* When the state file of the target path is deleted, everything that --resume
\* would still have done for the repositories in it has been done in the meantime.
\* Three exceptions are the code's:
\*  - a repository that failed in GitHub's version, whose record is deleted all the
\*    same (finding FailedRunCanBeResumed);
\*  - a repository that GitLab's version tried again without reading its result,
\*    because ticks had used up the loop (finding SuccessMeansDone): it is in no
\*    pending list, and the record that it failed is deleted;
\*  - a record with another spelling of the target path, which GitHub's version
\*    deletes whatever is left to do in it.
UnfinishedRecordIsKept ==
    [][ Readable(file) /\ file' = NoFile /\ file.state.target = target =>
          \A r \in LeftToDo(file.state) :
              /\ mem # NoState
              /\ \/ IsCompleted(mem, r)
                 \/ provider = "github" /\ IsFailed(mem, r)
                 \/ provider = "gitlab" /\ r \in Unread /\ IsFailed(mem, r) ]_vars

\* Every run returns, whatever the tickers do.
RunEnds == pc # "idle" ~> pc = "idle"

(***************************************************************************)
(* What documents, messages and tests say of the program and the program   *)
(* does not do.                                                            *)
(***************************************************************************)
\* "Retry with --resume flag to continue from where it stopped": a run that
\* reports failures leaves a state file to resume from.
FailedRunCanBeResumed == outcome = "failed" => file # NoFile

\* "Clone operation completed successfully": everything was cloned.
SuccessMeansDone ==
    outcome = "success" /\ Strategy = "reset" => \A r \in attempted : disk[r] = "cloned"
=============================================================================
