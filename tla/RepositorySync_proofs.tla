-------------------------- MODULE RepositorySync_proofs --------------------------
(***************************************************************************)
(* Theorems about the synchronization engine, for any repositories, number *)
(* of workers and command lines.                                           *)
(***************************************************************************)
EXTENDS RepositorySync, TLAPS

SyncSpec == SyncInit /\ [][SyncNext]_syncVars

\* The steps of one repository, written out.
LEMMA StepNames == Steps = {"create", "code", "forced", "tags", "issues", "wiki", "releases", "settings"}
  BY DEF Steps, StepOrder

\* A worker that continues or gives up keeps its repository and its type.
LEMMA WorkerKept ==
    ASSUME SyncTypeOK, NEW w \in SyncWorkers, workerOn[w].repo # NoRepo,
           NEW step, NEW next \in SUBSET Steps,
           Continue(w, step, next) \/ GiveUp(w), UNCHANGED matching
    PROVE  /\ workerOn' \in [SyncWorkers -> [repo : matching' \union {NoRepo}, left : SUBSET Steps, failed : BOOLEAN]]
           /\ \A v \in SyncWorkers : workerOn'[v].repo = NoRepo => workerOn'[v] = Idle
  BY DEF SyncTypeOK, Continue, GiveUp

\* The initial states are well typed.
LEMMA SyncTypeInit == SyncInit => SyncTypeOK
<1> SUFFICES ASSUME SyncInit PROVE SyncTypeOK
    OBVIOUS
<1>1. opts \in SyncOptionSets
  BY SyncAssumption DEF SyncInit, SyncAssumption
<1> QED BY <1>1, StepNames DEF SyncInit, SyncTypeOK, Idle

\* Every step keeps the types.
LEMMA SyncTypeStep == SyncTypeOK /\ [SyncNext]_syncVars => SyncTypeOK'
<1> SUFFICES ASSUME SyncTypeOK, [SyncNext]_syncVars PROVE SyncTypeOK'
    OBVIOUS
<1> USE StepNames DEF SyncTypeOK
<1>1. CASE SyncBegins
  <2>1. PICK o \in SyncOptionSets, repos \in SUBSET SyncRepos, found \in {exists, {}} :
          /\ opts' = o
          /\ matching' = repos
          /\ tasks' = IF o.dry THEN [create |-> {}, update |-> {}] ELSE SyncPlan(repos, found, o)
    BY <1>1 DEF SyncBegins
  <2>2. tasks' \in [create : SUBSET repos, update : SUBSET repos]
    BY <2>1 DEF SyncPlan
  <2> QED BY <1>1, <2>1, <2>2 DEF SyncBegins, Idle
<1>2. CASE SourceListingFails
  BY <1>2 DEF SourceListingFails, Idle
<1>3. ASSUME NEW w \in SyncWorkers, SyncWorkerStep(w) PROVE SyncTypeOK'
  <2>0. \A step : At(w, step) => workerOn[w].repo \in matching
    BY DEF At, SyncTypeOK, Idle
  <2>1. CASE TakeTask(w)
    <3>1. ActionsOf(opts, tasks.create # {}) \subseteq Steps
      BY SyncAssumption DEF ActionsOf, SyncAssumption, Parts
    <3>2. matching \subseteq SyncRepos /\ NoRepo \notin matching
      BY SyncAssumption DEF SyncAssumption
    <3> QED BY <1>3, <2>1, <3>1, <3>2 DEF TakeTask
  <2>2. CASE CreateRepository(w)
    <3>1. workerOn[w].repo \in matching /\ workerOn[w].repo # NoRepo
      BY <2>0, <2>2, SyncAssumption DEF CreateRepository, SyncAssumption
    <3>2. exists' \subseteq SyncRepos /\ exists \subseteq exists'
      BY <2>2, <3>1 DEF CreateRepository
    <3>3. Continue(w, "create", {}) \/ GiveUp(w)
      BY <2>2 DEF CreateRepository
    <3>4. UNCHANGED <<behind, own, syncPC, opts, matching, tasks, outcomes>>
      BY <2>2 DEF CreateRepository
    <3> QED BY <1>3, <3>1, <3>2, <3>3, <3>4, WorkerKept
  <2>3. ASSUME NEW step, At(w, step), NEW next \in SUBSET Steps, Continue(w, step, next) \/ GiveUp(w),
               behind' \subseteq behind, own' \subseteq own,
               UNCHANGED <<exists, syncPC, opts, matching, tasks, outcomes>>
        PROVE  SyncTypeOK'
    <3>1. workerOn[w].repo # NoRepo
      BY <2>0, <2>3, SyncAssumption DEF SyncAssumption
    <3> QED BY <1>3, <2>3, <3>1, WorkerKept
  <2>4. CASE PushBranches(w)
    <3>1. \E next \in SUBSET Steps : Continue(w, "code", next) \/ GiveUp(w)
      BY <2>4 DEF PushBranches, Pushed
    <3> QED BY <2>3, <2>4, <3>1 DEF PushBranches, Pushed
  <2>5. CASE RetryWithForce(w)
    <3>1. \E next \in SUBSET Steps : Continue(w, "forced", next) \/ GiveUp(w)
      BY <2>5 DEF RetryWithForce, Pushed
    <3> QED BY <2>3, <2>5, <3>1 DEF RetryWithForce, Pushed
  <2>6. CASE OtherAction(w)
    BY <2>3, <2>6 DEF OtherAction
  <2>7. CASE SyncIssues(w)
    BY <2>7 DEF SyncIssues
  <2>8. CASE SendOutcome(w)
    <3>1. workerOn[w].repo \in matching /\ workerOn[w].failed \in BOOLEAN
      BY <1>3, <2>8 DEF SendOutcome
    <3>2. outcomes' \subseteq [repo : matching, ok : BOOLEAN]
      <4> DEFINE done == ~workerOn[w].failed
      <4>1. done \in BOOLEAN
        OBVIOUS
      <4>2. outcomes' = outcomes \union {[repo |-> workerOn[w].repo, ok |-> done]}
        BY <2>8 DEF SendOutcome
      <4> HIDE DEF done
      <4> QED BY <3>1, <4>1, <4>2
    <3>3. /\ workerOn' \in [SyncWorkers -> [repo : matching \union {NoRepo}, left : SUBSET Steps, failed : BOOLEAN]]
          /\ \A v \in SyncWorkers : workerOn'[v].repo = NoRepo => workerOn'[v] = Idle
      BY <2>8 DEF SendOutcome, Idle
    <3> QED BY <2>8, <3>2, <3>3 DEF SendOutcome
  <2> QED BY <1>3, <2>1, <2>2, <2>4, <2>5, <2>6, <2>7, <2>8 DEF SyncWorkerStep
<1>4. CASE SyncReturns
  BY <1>4 DEF SyncReturns
<1>5. CASE ProgramIsKilled
  BY <1>5 DEF ProgramIsKilled
<1>6. ASSUME NEW r \in SyncRepos, DestinationGains(r) \/ SourceGains(r) PROVE SyncTypeOK'
  BY <1>6 DEF DestinationGains, SourceGains
<1>7. CASE UNCHANGED syncVars
  BY <1>7 DEF syncVars
<1> QED BY <1>1, <1>2, <1>3, <1>4, <1>5, <1>6, <1>7 DEF SyncNext

-----------------------------------------------------------------------------
(***************************************************************************)
(* Why a good end means a mirror.  A run that is to do everything keeps    *)
(* track of each repository of its list - in a queue, on a worker or among *)
(* the results - and what a worker that has not failed has behind it is    *)
(* done at the destination, where nothing is taken back during a run.      *)
(***************************************************************************)
DoesEverything == ~opts.dry /\ opts.create /\ opts.update /\ "code" \in opts.parts

Accounted(r) ==
    \/ r \in tasks.create \union tasks.update
    \/ \E w \in SyncWorkers : workerOn[w].repo = r
    \/ \E result \in outcomes : result.repo = r

DoneSoFar(w) ==
    workerOn[w].repo # NoRepo /\ ~workerOn[w].failed =>
        /\ "create" \notin workerOn[w].left => workerOn[w].repo \in exists
        /\ {"code", "forced"} \intersect workerOn[w].left = {} => workerOn[w].repo \notin behind

MirrorInv ==
    /\ syncPC = "run" /\ DoesEverything =>
         /\ \A r \in matching : Accounted(r)
         /\ tasks.update \subseteq exists
         /\ \A w \in SyncWorkers : DoneSoFar(w)
         /\ \A result \in outcomes : result.ok => result.repo \in exists \ behind
    /\ SyncOkIsMirrored

\* Before a run nothing is claimed to be mirrored.
LEMMA MirrorInit == SyncInit => MirrorInv
  BY DEF SyncInit, MirrorInv, Idle, SyncOkIsMirrored

\* A run begins with an empty set of outcomes.
LEMMA MirrorBegins == SyncTypeOK /\ MirrorInv /\ SyncBegins => MirrorInv'
<1> SUFFICES ASSUME SyncTypeOK, MirrorInv, SyncBegins PROVE MirrorInv'
    OBVIOUS
<1>1. PICK o \in SyncOptionSets, repos \in SUBSET SyncRepos, found \in {exists, {}} :
        /\ opts' = o
        /\ matching' = repos
        /\ tasks' = IF o.dry THEN [create |-> {}, update |-> {}] ELSE SyncPlan(repos, found, o)
  BY DEF SyncBegins
<1>2. CASE ~DoesEverything'
  BY <1>2 DEF MirrorInv, SyncOkIsMirrored, DoesEverything
<1>3. CASE DoesEverything'
  <2>1. tasks'.create = repos \ found /\ tasks'.update = repos \intersect found
    BY <1>1, <1>3 DEF DoesEverything, SyncPlan
  <2>2. \A r \in matching' : Accounted(r)'
    BY <1>1, <2>1 DEF Accounted
  <2>3. tasks'.update \subseteq exists'
    BY <1>1, <2>1 DEF SyncBegins
  <2>4. \A w \in SyncWorkers : DoneSoFar(w)'
    BY DEF SyncBegins, DoneSoFar, Idle
  <2>5. syncPC' = "ok" => matching' = {}
    BY <1>1, <2>1 DEF SyncBegins
  <2>6. outcomes' = {}
    BY DEF SyncBegins
  <2>7. SyncOkIsMirrored'
    BY <2>5 DEF SyncOkIsMirrored
  <2> QED BY <2>2, <2>3, <2>4, <2>6, <2>7 DEF MirrorInv
<1> QED BY <1>2, <1>3

\* A worker that goes on or gives up touches no other worker.
LEMMA WorkerMoves ==
    ASSUME SyncTypeOK, NEW w \in SyncWorkers, NEW step, NEW next
    PROVE  /\ Continue(w, step, next) \/ GiveUp(w) =>
                /\ \A v \in SyncWorkers \ {w} : workerOn'[v] = workerOn[v]
                /\ workerOn'[w].repo = workerOn[w].repo
           /\ Continue(w, step, next) => workerOn'[w].left = (workerOn[w].left \ {step}) \union next
           /\ Continue(w, step, next) => workerOn'[w].failed = workerOn[w].failed
           /\ GiveUp(w) => workerOn'[w].failed
  BY DEF SyncTypeOK, Continue, GiveUp

\* A step of a worker that keeps its repository and takes nothing back.
LEMMA MirrorWorks ==
    ASSUME SyncTypeOK, MirrorInv, syncPC = "run", syncPC' = "run",
           NEW w \in SyncWorkers, workerOn[w].repo # NoRepo,
           \A v \in SyncWorkers \ {w} : workerOn'[v] = workerOn[v],
           workerOn'[w].repo = workerOn[w].repo,
           UNCHANGED <<opts, matching, tasks, outcomes>>,
           exists \subseteq exists', behind' \subseteq behind,
           DoesEverything => DoneSoFar(w)'
    PROVE  MirrorInv'
<1>2. CASE ~DoesEverything
  BY <1>2 DEF MirrorInv, DoesEverything, SyncOkIsMirrored
<1>3. CASE DoesEverything
  <2>1. \A r \in matching' : Accounted(r)'
    BY <1>3 DEF MirrorInv, Accounted
  <2>2. \A v \in SyncWorkers : DoneSoFar(v)'
    BY <1>3 DEF MirrorInv, DoneSoFar
  <2> QED BY <1>3, <2>1, <2>2 DEF MirrorInv, SyncOkIsMirrored, DoesEverything
<1> QED BY <1>2, <1>3

\* A worker takes a task that no other worker has.
LEMMA MirrorTakes ==
    ASSUME SyncTypeOK, MirrorInv, NEW w \in SyncWorkers, TakeTask(w) PROVE MirrorInv'
<1> DEFINE new == tasks.create # {}
<1>1. PICK r \in IF new THEN tasks.create ELSE tasks.update :
        /\ tasks' = [create |-> tasks.create \ {r}, update |-> tasks.update \ {r}]
        /\ workerOn' = [workerOn EXCEPT ![w] = [repo |-> r, left |-> ActionsOf(opts, new), failed |-> FALSE]]
  BY DEF TakeTask
<1>2. r # NoRepo /\ r \in matching
  BY SyncAssumption DEF SyncTypeOK, SyncAssumption
<1>3. /\ \A v \in SyncWorkers \ {w} : workerOn'[v] = workerOn[v]
      /\ workerOn'[w] = [repo |-> r, left |-> ActionsOf(opts, new), failed |-> FALSE]
  BY <1>1 DEF SyncTypeOK
<1>5. CASE ~DoesEverything
  BY <1>5 DEF TakeTask, MirrorInv, DoesEverything, SyncOkIsMirrored
<1>6. CASE DoesEverything
  <2>1. \A q \in matching' : Accounted(q)'
    <3> TAKE q \in matching'
    <3>1. Accounted(q)
      BY <1>6 DEF TakeTask, MirrorInv
    <3>2. CASE q = r
      BY <1>3, <3>2 DEF Accounted
    <3>3. CASE q # r
      <4>1. CASE q \in tasks.create \union tasks.update
        BY <1>1, <3>3, <4>1 DEF Accounted
      <4>2. CASE \E v \in SyncWorkers : workerOn[v].repo = q
        <5>1. workerOn[w].repo = NoRepo /\ q # NoRepo
          BY SyncAssumption DEF TakeTask, SyncTypeOK, SyncAssumption
        <5> QED BY <1>3, <4>2, <5>1 DEF Accounted
      <4>3. CASE \E result \in outcomes : result.repo = q
        BY <4>3 DEF TakeTask, Accounted
      <4> QED BY <3>1, <4>1, <4>2, <4>3 DEF Accounted
    <3> QED BY <3>2, <3>3
  <2>2. tasks'.update \subseteq exists'
    BY <1>1, <1>6 DEF TakeTask, MirrorInv
  <2>3. DoneSoFar(w)'
    BY <1>1, <1>3, <1>6 DEF TakeTask, MirrorInv, DoneSoFar, ActionsOf, DoesEverything
  <2>4. \A v \in SyncWorkers : DoneSoFar(v)'
    BY <1>3, <1>6, <2>3 DEF TakeTask, MirrorInv, DoneSoFar
  <2> QED BY <1>6, <2>1, <2>2, <2>4 DEF TakeTask, MirrorInv, SyncOkIsMirrored, DoesEverything
<1> QED BY <1>5, <1>6

\* A worker sends its outcome: the repository is mirrored, or the error is kept.
LEMMA MirrorSends ==
    ASSUME SyncTypeOK, MirrorInv, NEW w \in SyncWorkers, SendOutcome(w) PROVE MirrorInv'
<1> DEFINE result == [repo |-> workerOn[w].repo, ok |-> ~workerOn[w].failed]
<1>1. /\ \A v \in SyncWorkers \ {w} : workerOn'[v] = workerOn[v]
      /\ workerOn'[w] = Idle
  BY DEF SyncTypeOK, SendOutcome
<1>3. CASE ~DoesEverything
  BY <1>3 DEF SendOutcome, MirrorInv, DoesEverything, SyncOkIsMirrored
<1>4. CASE DoesEverything
  <2>1. \A r \in matching' : Accounted(r)'
    <3> TAKE r \in matching'
    <3>1. Accounted(r)
      BY <1>4 DEF SendOutcome, MirrorInv
    <3>2. CASE workerOn[w].repo = r
      <4>1. result \in outcomes' /\ result.repo = r
        BY <3>2 DEF SendOutcome
      <4> QED BY <4>1 DEF Accounted
    <3>3. CASE workerOn[w].repo # r
      BY <1>1, <3>1, <3>3 DEF SendOutcome, Accounted
    <3> QED BY <3>2, <3>3
  <2>2. \A v \in SyncWorkers : DoneSoFar(v)'
    BY <1>1, <1>4 DEF SendOutcome, MirrorInv, DoneSoFar, Idle
  <2>3. result.ok => result.repo \in exists \ behind
    BY <1>4 DEF SendOutcome, MirrorInv, DoneSoFar
  <2>4. \A x \in outcomes' : x.ok => x.repo \in exists' \ behind'
    BY <1>4, <2>3 DEF SendOutcome, MirrorInv
  <2> QED BY <1>4, <2>1, <2>2, <2>4 DEF SendOutcome, MirrorInv, SyncOkIsMirrored, DoesEverything
<1> QED BY <1>3, <1>4

\* Every step keeps what the outcomes say of the destination.
LEMMA MirrorStep == SyncTypeOK /\ MirrorInv /\ [SyncNext]_syncVars => MirrorInv'
<1> SUFFICES ASSUME SyncTypeOK, MirrorInv, [SyncNext]_syncVars PROVE MirrorInv'
    OBVIOUS
<1>1. CASE SyncBegins
  BY <1>1, MirrorBegins
<1>2. CASE SourceListingFails
  BY <1>2 DEF SourceListingFails, MirrorInv, Idle, SyncOkIsMirrored
<1>3. ASSUME NEW w \in SyncWorkers, SyncWorkerStep(w) PROVE MirrorInv'
  <2>0. \A step : At(w, step) => syncPC = "run" /\ step \in workerOn[w].left /\ workerOn[w].repo # NoRepo
    BY DEF At, SyncTypeOK, Idle
  <2>1. CASE TakeTask(w)
    BY <1>3, <2>1, MirrorTakes
  <2>2. CASE CreateRepository(w)
    <3>1. Continue(w, "create", {}) \/ GiveUp(w)
      BY <2>2 DEF CreateRepository
    <3>2. exists \subseteq exists' /\ (Continue(w, "create", {}) => workerOn[w].repo \in exists' \/ GiveUp(w))
      BY <2>2 DEF CreateRepository
    <3>3. DoesEverything => DoneSoFar(w)'
      BY <1>3, <2>0, <2>2, <3>1, <3>2, WorkerMoves DEF CreateRepository, MirrorInv, DoneSoFar
    <3> QED BY <1>3, <2>0, <2>2, <3>1, <3>2, <3>3, WorkerMoves, MirrorWorks DEF CreateRepository
  <2>3. CASE PushBranches(w)
    <3>1. Continue(w, "code", {"tags"}) \/ Continue(w, "code", {"forced"}) \/ GiveUp(w)
      BY <2>3 DEF PushBranches, Pushed
    <3>2. /\ behind' \subseteq behind
          /\ Continue(w, "code", {"forced"}) \/ GiveUp(w) \/ workerOn[w].repo \notin behind'
      BY <2>3 DEF PushBranches, Pushed
    <3>3. At(w, "code") /\ UNCHANGED <<exists, syncPC, opts, matching, tasks, outcomes>>
      BY <2>3 DEF PushBranches
    <3>4. DoesEverything => DoneSoFar(w)'
      BY <1>3, <2>0, <3>1, <3>2, <3>3, WorkerMoves DEF MirrorInv, DoneSoFar
    <3> QED BY <1>3, <2>0, <3>1, <3>2, <3>3, <3>4, WorkerMoves, MirrorWorks
  <2>4. CASE RetryWithForce(w)
    <3>1. Continue(w, "forced", {"tags"}) \/ GiveUp(w)
      BY <2>4 DEF RetryWithForce, Pushed
    <3>2. behind' \subseteq behind /\ (GiveUp(w) \/ workerOn[w].repo \notin behind')
      BY <2>4 DEF RetryWithForce, Pushed
    <3>3. At(w, "forced") /\ UNCHANGED <<exists, syncPC, opts, matching, tasks, outcomes>>
      BY <2>4 DEF RetryWithForce
    <3>4. DoesEverything => DoneSoFar(w)'
      BY <1>3, <2>0, <3>1, <3>2, <3>3, WorkerMoves DEF MirrorInv, DoneSoFar
    <3> QED BY <1>3, <2>0, <3>1, <3>2, <3>3, <3>4, WorkerMoves, MirrorWorks
  <2>5. CASE OtherAction(w)
    <3>1. PICK step \in {"tags", "wiki", "releases", "settings"} :
            At(w, step) /\ (Continue(w, step, {}) \/ GiveUp(w))
      BY <2>5 DEF OtherAction
    <3>2. UNCHANGED <<exists, behind, own, syncPC, opts, matching, tasks, outcomes>>
      BY <2>5 DEF OtherAction
    <3>3. DoesEverything => DoneSoFar(w)'
      BY <1>3, <2>0, <3>1, <3>2, WorkerMoves DEF MirrorInv, DoneSoFar
    <3> QED BY <1>3, <2>0, <3>1, <3>2, <3>3, WorkerMoves, MirrorWorks
  <2>6. CASE SyncIssues(w)
    BY <2>6 DEF SyncIssues, MirrorInv, SyncOkIsMirrored
  <2>7. CASE SendOutcome(w)
    BY <1>3, <2>7, MirrorSends
  <2> QED BY <1>3, <2>1, <2>2, <2>3, <2>4, <2>5, <2>6, <2>7 DEF SyncWorkerStep
<1>4. CASE SyncReturns
  <2>1. syncPC' = "ok" /\ DoesEverything => \A r \in matching : r \in exists \ behind
    BY <1>4, SyncAssumption DEF SyncReturns, MirrorInv, Accounted, SyncTypeOK, SyncAssumption, DoesEverything
  <2> QED BY <1>4, <2>1 DEF SyncReturns, MirrorInv, SyncOkIsMirrored, DoesEverything
<1>5. CASE ProgramIsKilled
  BY <1>5 DEF ProgramIsKilled, MirrorInv, SyncOkIsMirrored
<1>6. ASSUME NEW r \in SyncRepos, DestinationGains(r) PROVE MirrorInv'
  BY <1>6 DEF DestinationGains, MirrorInv, SyncOkIsMirrored, DoesEverything, Accounted, DoneSoFar
<1>7. ASSUME NEW r \in SyncRepos, SourceGains(r) PROVE MirrorInv'
  BY <1>7 DEF SourceGains, MirrorInv, SyncOkIsMirrored
<1>8. CASE UNCHANGED syncVars
  BY <1>8 DEF syncVars, MirrorInv, SyncOkIsMirrored, DoesEverything, Accounted, DoneSoFar
<1> QED BY <1>1, <1>2, <1>3, <1>4, <1>5, <1>6, <1>7, <1>8 DEF SyncNext

\* The engine's state keeps its types, and what the destination has on its own
\* is in repositories that exist there.
THEOREM SyncTypeCorrect == SyncSpec => []SyncTypeOK
  BY SyncTypeInit, SyncTypeStep, PTL DEF SyncSpec

\* A full run that ends well has brought every repository of its list to the
\* destination, for any number of repositories and workers, and although others
\* create repositories and push to them meanwhile.
THEOREM SyncMirrors == SyncSpec => []SyncOkIsMirrored
<1>1. MirrorInv => SyncOkIsMirrored
  BY DEF MirrorInv
<1> QED BY <1>1, SyncTypeInit, SyncTypeStep, MirrorInit, MirrorStep, PTL DEF SyncSpec
================================================================================
