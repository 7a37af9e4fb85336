------------------------- MODULE ResumableClone_proofs -------------------------
(***************************************************************************)
(* Theorems about ResumableClone, for every set of repositories and of     *)
(* target paths, every number of workers and of runs, and both versions.   *)
(***************************************************************************)
EXTENDS ResumableClone, FiniteSetTheorems, WellFoundedInduction, TLAPS

(***************************************************************************)
(* The sums of CloneState.  SumFunction is a fold; what it computes is     *)
(* shown by induction over the size of a subset of the domain, stated for  *)
(* a set of numbers.                                                       *)
(***************************************************************************)
\* A set of numbers that holds 0 and every successor holds them all.
LEMMA NatSetInduction ==
    ASSUME NEW P \in SUBSET Nat, 0 \in P, \A n \in P : n + 1 \in P
    PROVE  P = Nat
<1> SUFFICES ASSUME Nat \ P # {} PROVE FALSE
  OBVIOUS
<1> DEFINE R == {p \in Nat \X Nat : p[1] < p[2]}
<1>0. IsWellFoundedOn(R, Nat)
  BY NatLessThanWellFounded DEF OpToRel
<1>1. PICK x \in Nat \ P : \A y \in Nat \ P : <<y, x>> \notin R
  <2> HIDE DEF R
  <2> QED BY <1>0, WFMin, Nat \ P \subseteq Nat
<1>2. x # 0 /\ x - 1 \in Nat /\ x - 1 < x
  OBVIOUS
<1>3. x - 1 \in P
  BY <1>1, <1>2
<1> QED BY <1>1, <1>2, <1>3

\* The element the fold takes next.
Some(s) == CHOOSE x \in s : TRUE

\* The fold, as a function on the subsets of the domain.
Partial(f) ==
    CHOOSE g : g = [s \in SUBSET DOMAIN f |->
                      IF s = {} THEN 0 ELSE f[Some(s)] + g[s \ {Some(s)}]]

\* The library's fold is that function, taken of the whole domain.
LEMMA SumIsFold == \A f : SumFunction(f) = Partial(f)[DOMAIN f]
BY DEF SumFunction, SumFunctionOnSet, FoldFunctionOnSet, MapThenFoldSet, Partial, Some

\* On a finite domain the function the fold defines exists.
LEMMA PartialExists ==
    ASSUME NEW S, IsFiniteSet(S), NEW f \in [S -> Nat]
    PROVE  Partial(f) = [s \in SUBSET S |->
              IF s = {} THEN 0 ELSE f[Some(s)] + Partial(f)[s \ {Some(s)}]]
<1> DEFINE Upto(g, n) ==
             g = [s \in SUBSET S |->
                    IF s = {} \/ Cardinality(s) > n
                    THEN 0 ELSE f[Some(s)] + g[s \ {Some(s)}]]
           Q(n) == \E g : Upto(g, n)
           P == {n \in Nat : Q(n)}
<1>c. \A s \in SUBSET S : s # {} =>
         /\ Cardinality(s) \in Nat /\ Some(s) \in s
         /\ s \ {Some(s)} \in SUBSET S
         /\ Cardinality(s \ {Some(s)}) = Cardinality(s) - 1
  <2> SUFFICES ASSUME NEW s \in SUBSET S, s # {}
               PROVE  /\ Cardinality(s) \in Nat /\ Some(s) \in s
                      /\ s \ {Some(s)} \in SUBSET S
                      /\ Cardinality(s \ {Some(s)}) = Cardinality(s) - 1
    OBVIOUS
  <2>1. IsFiniteSet(s) /\ Some(s) \in s
    BY FS_Subset DEF Some
  <2> QED BY <2>1, FS_CardinalityType, FS_RemoveElement
<1>1. Q(0)
  <2>1. \A s \in SUBSET S : s = {} \/ Cardinality(s) > 0
    <3> SUFFICES ASSUME NEW s \in SUBSET S, s # {} PROVE Cardinality(s) > 0
      OBVIOUS
    <3>1. IsFiniteSet(s)
      BY FS_Subset
    <3>2. Cardinality(s) # 0
      BY <3>1, FS_EmptySet
    <3> QED BY <3>1, <3>2, FS_CardinalityType
  <2>2. Upto([s \in SUBSET S |-> 0], 0)
    BY <2>1
  <2> QED BY <2>2
<1>2. ASSUME NEW n \in Nat, Q(n) PROVE Q(n + 1)
  <2>1. PICK g : Upto(g, n)
    BY <1>2
  <2> DEFINE h == [s \in SUBSET S |->
                     IF s # {} /\ Cardinality(s) = n + 1
                     THEN f[Some(s)] + g[s \ {Some(s)}] ELSE g[s]]
  <2>2. ASSUME NEW s \in SUBSET S
        PROVE  h[s] = IF s = {} \/ Cardinality(s) > n + 1
                      THEN 0 ELSE f[Some(s)] + h[s \ {Some(s)}]
    <3>1. g[s] = IF s = {} \/ Cardinality(s) > n
                 THEN 0 ELSE f[Some(s)] + g[s \ {Some(s)}]
      BY <2>1
    <3>2. CASE s = {}
      BY <3>1, <3>2
    <3>3. CASE s # {}
      <4>1. /\ Cardinality(s) \in Nat /\ s \ {Some(s)} \in SUBSET S
            /\ Cardinality(s \ {Some(s)}) = Cardinality(s) - 1
        BY <1>c, <3>3
      <4>2. CASE Cardinality(s) > n + 1
        BY <3>1, <3>3, <4>1, <4>2
      <4>3. CASE Cardinality(s) <= n + 1
        <5>1. h[s \ {Some(s)}] = g[s \ {Some(s)}]
          BY <4>1, <4>3
        <5>2. h[s] = f[Some(s)] + g[s \ {Some(s)}]
          BY <3>1, <3>3, <4>1, <4>3
        <5> HIDE DEF h
        <5> QED BY <3>3, <4>1, <4>3, <5>1, <5>2
      <4> QED BY <4>1, <4>2, <4>3
    <3> QED BY <3>2, <3>3
  <2>3. Upto(h, n + 1)
    <3>1. h = [s \in SUBSET S |-> h[s]]
      OBVIOUS
    <3> HIDE DEF h
    <3> QED BY <2>2, <3>1, Zenon
  <2> QED BY <2>3
<1>3. P = Nat
  <2>1. P \in SUBSET Nat /\ 0 \in P /\ \A n \in P : n + 1 \in P
    <3> HIDE DEF Q
    <3> QED BY <1>1, <1>2
  <2> HIDE DEF P
  <2> QED BY <2>1, NatSetInduction
<1>4. PICK g : Upto(g, Cardinality(S))
  <2>1. Q(Cardinality(S))
    <3> HIDE DEF Q
    <3> QED BY <1>3, FS_CardinalityType
  <2> QED BY <2>1
<1>5. \A s \in SUBSET S : ~(Cardinality(s) > Cardinality(S))
  BY FS_Subset, FS_CardinalityType
<1>6. g = [s \in SUBSET S |-> IF s = {} THEN 0 ELSE f[Some(s)] + g[s \ {Some(s)}]]
  BY <1>4, <1>5
<1>7. DOMAIN f = S
  OBVIOUS
<1> QED BY <1>6, <1>7, Zenon DEF Partial

\* The total of a list of the record is a number (state.go, TotalRepositories).
LEMMA SumIsNat ==
    ASSUME NEW S, IsFiniteSet(S), NEW f \in [S -> Nat]
    PROVE  SumFunction(f) \in Nat
<1> DEFINE g == Partial(f)
           Q(n) == \A s \in SUBSET S : Cardinality(s) = n => g[s] \in Nat
           P == {n \in Nat : Q(n)}
<1>0. \A s \in SUBSET S :
         g[s] = IF s = {} THEN 0 ELSE f[Some(s)] + g[s \ {Some(s)}]
  <2>1. g = [s \in SUBSET S |->
               IF s = {} THEN 0 ELSE f[Some(s)] + g[s \ {Some(s)}]]
    BY PartialExists
  <2> HIDE DEF g
  <2> QED BY <2>1
<1> HIDE DEF g
<1>c. \A s \in SUBSET S : s # {} =>
         /\ Cardinality(s) \in Nat /\ Some(s) \in s
         /\ s \ {Some(s)} \in SUBSET S
         /\ Cardinality(s \ {Some(s)}) = Cardinality(s) - 1
  <2> SUFFICES ASSUME NEW s \in SUBSET S, s # {}
               PROVE  /\ Cardinality(s) \in Nat /\ Some(s) \in s
                      /\ s \ {Some(s)} \in SUBSET S
                      /\ Cardinality(s \ {Some(s)}) = Cardinality(s) - 1
    OBVIOUS
  <2>1. IsFiniteSet(s) /\ Some(s) \in s
    BY FS_Subset DEF Some
  <2> QED BY <2>1, FS_CardinalityType, FS_RemoveElement
<1>1. Q(0)
  <2>1. \A s \in SUBSET S : Cardinality(s) = 0 => s = {}
    BY FS_EmptySet, FS_Subset
  <2> QED BY <1>0, <2>1
<1>2. ASSUME NEW n \in Nat, Q(n) PROVE Q(n + 1)
  <2> SUFFICES ASSUME NEW s \in SUBSET S, Cardinality(s) = n + 1 PROVE g[s] \in Nat
    OBVIOUS
  <2>1. s # {}
    BY FS_EmptySet
  <2>2. /\ Some(s) \in S /\ s \ {Some(s)} \in SUBSET S
        /\ Cardinality(s \ {Some(s)}) = n
    BY <1>c, <2>1
  <2>3. g[s \ {Some(s)}] \in Nat
    BY <1>2, <2>2
  <2> QED BY <1>0, <2>1, <2>2, <2>3
<1>3. P = Nat
  <2>1. P \in SUBSET Nat /\ 0 \in P /\ \A n \in P : n + 1 \in P
    <3> HIDE DEF Q
    <3> QED BY <1>1, <1>2
  <2> HIDE DEF P
  <2> QED BY <2>1, NatSetInduction
<1>4. Q(Cardinality(S))
  <2> HIDE DEF Q
  <2> QED BY <1>3, FS_CardinalityType
<1> QED BY <1>4, SumIsFold DEF g

\* The total of an empty list is zero.
LEMMA SumOfZeros ==
    ASSUME NEW S, IsFiniteSet(S), NEW f \in [S -> Nat], \A x \in S : f[x] = 0
    PROVE  SumFunction(f) = 0
<1> DEFINE g == Partial(f)
           Q(n) == \A s \in SUBSET S : Cardinality(s) = n => g[s] = 0
           P == {n \in Nat : Q(n)}
<1>0. \A s \in SUBSET S :
         g[s] = IF s = {} THEN 0 ELSE f[Some(s)] + g[s \ {Some(s)}]
  <2>1. g = [s \in SUBSET S |->
               IF s = {} THEN 0 ELSE f[Some(s)] + g[s \ {Some(s)}]]
    BY PartialExists
  <2> HIDE DEF g
  <2> QED BY <2>1
<1> HIDE DEF g
<1>c. \A s \in SUBSET S : s # {} =>
         /\ Cardinality(s) \in Nat /\ Some(s) \in s
         /\ s \ {Some(s)} \in SUBSET S
         /\ Cardinality(s \ {Some(s)}) = Cardinality(s) - 1
  <2> SUFFICES ASSUME NEW s \in SUBSET S, s # {}
               PROVE  /\ Cardinality(s) \in Nat /\ Some(s) \in s
                      /\ s \ {Some(s)} \in SUBSET S
                      /\ Cardinality(s \ {Some(s)}) = Cardinality(s) - 1
    OBVIOUS
  <2>1. IsFiniteSet(s) /\ Some(s) \in s
    BY FS_Subset DEF Some
  <2> QED BY <2>1, FS_CardinalityType, FS_RemoveElement
<1>1. Q(0)
  <2>1. \A s \in SUBSET S : Cardinality(s) = 0 => s = {}
    BY FS_EmptySet, FS_Subset
  <2> QED BY <1>0, <2>1
<1>2. ASSUME NEW n \in Nat, Q(n) PROVE Q(n + 1)
  <2> SUFFICES ASSUME NEW s \in SUBSET S, Cardinality(s) = n + 1 PROVE g[s] = 0
    OBVIOUS
  <2>1. s # {}
    BY FS_EmptySet
  <2>2. /\ Some(s) \in S /\ s \ {Some(s)} \in SUBSET S
        /\ Cardinality(s \ {Some(s)}) = n
    BY <1>c, <2>1
  <2>3. g[s \ {Some(s)}] = 0
    BY <1>2, <2>2
  <2> QED BY <1>0, <2>1, <2>2, <2>3
<1>3. P = Nat
  <2>1. P \in SUBSET Nat /\ 0 \in P /\ \A n \in P : n + 1 \in P
    <3> HIDE DEF Q
    <3> QED BY <1>1, <1>2
  <2> HIDE DEF P
  <2> QED BY <2>1, NatSetInduction
<1>4. Q(Cardinality(S))
  <2> HIDE DEF Q
  <2> QED BY <1>3, FS_CardinalityType
<1> QED BY <1>4, SumIsFold DEF g

(***************************************************************************)
(* What the methods of the record do to a record.                          *)
(***************************************************************************)
\* What RecordIsConsistent says of one record, for either version.
TotalIsSum(s) ==
    s.total = Cardinality(s.pending) + SumFunction(s.completed)
                + SumFunction(s.failed)

PendingIsUnsettled(s) == \A r \in s.pending : ~IsCompleted(s, r) /\ ~IsFailed(s, r)

SettledOnce(s) == \A r \in Repos : s.completed[r] + s.failed[r] <= 1

\* updateTotalRepositories changes the total alone and makes it the sum.
LEMMA UpdateTotalLemma ==
    ASSUME NEW s,
           s = [completed |-> s.completed, failed |-> s.failed, pending |-> s.pending,
                total |-> s.total, status |-> s.status, target |-> s.target],
           s.completed \in [Repos -> Nat], s.failed \in [Repos -> Nat],
           s.pending \in SUBSET Repos, s.total \in Nat, s.status \in Statuses,
           s.target \in Targets
    PROVE  LET t == updateTotalRepositories(s)
           IN  /\ t \in CloneStates /\ TotalIsSum(t)
               /\ t.completed = s.completed /\ t.failed = s.failed
               /\ t.pending = s.pending /\ t.status = s.status /\ t.target = s.target
<1> DEFINE n == Cardinality(s.pending) + SumFunction(s.completed)
                  + SumFunction(s.failed)
           t == updateTotalRepositories(s)
<1>1. n \in Nat
  <2>1. Cardinality(s.pending) \in Nat
    BY CloneAssumption, FS_Subset, FS_CardinalityType
  <2>2. SumFunction(s.completed) \in Nat /\ SumFunction(s.failed) \in Nat
    BY CloneAssumption, SumIsNat
  <2> QED BY <2>1, <2>2
<1>2. t = [s EXCEPT !.total = n]
  BY DEF updateTotalRepositories
<1> HIDE DEF n, t
<1>3. t = [completed |-> s.completed, failed |-> s.failed, pending |-> s.pending,
           total |-> n, status |-> s.status, target |-> s.target]
  BY <1>2
<1>4. t \in CloneStates
  BY <1>1, <1>3 DEF CloneStates
<1>5. TotalIsSum(t)
  BY <1>3 DEF TotalIsSum, n
<1> QED BY <1>3, <1>4, <1>5 DEF t

\* A new record is empty and consistent.
LEMMA NewStateLemma ==
    ASSUME NEW x \in Targets
    PROVE  LET t == NewCloneState(x)
           IN  /\ t \in CloneStates
               /\ \A r \in Repos : ~IsCompleted(t, r) /\ ~IsFailed(t, r)
               /\ TotalIsSum(t)
               /\ t.completed = NoRepos /\ t.failed = NoRepos
               /\ t.pending = {} /\ t.target = x
<1> DEFINE t == NewCloneState(x)
<1>1. /\ t \in CloneStates
      /\ \A r \in Repos : ~IsCompleted(t, r) /\ ~IsFailed(t, r)
      /\ t.completed = NoRepos /\ t.failed = NoRepos /\ t.total = 0
      /\ t.pending = {} /\ t.target = x
  BY DEF NewCloneState, CloneStates, NoRepos, Statuses, IsCompleted, IsFailed
<1>2. SumFunction(NoRepos) = 0
  BY CloneAssumption, SumOfZeros, NoRepos \in [Repos -> Nat] DEF NoRepos
<1>3. Cardinality({}) = 0
  BY FS_EmptySet
<1> HIDE DEF t
<1>4. TotalIsSum(t)
  BY <1>1, <1>2, <1>3 DEF TotalIsSum
<1> QED BY <1>1, <1>4 DEF t

\* SetPendingRepositories replaces the pending list.
LEMMA PendingLemma ==
    ASSUME NEW s \in CloneStates, NEW repos \in SUBSET Repos
    PROVE  LET t == SetPendingRepositories(s, repos)
           IN  /\ t \in CloneStates /\ TotalIsSum(t)
               /\ t.completed = s.completed /\ t.failed = s.failed
               /\ t.pending = repos /\ t.status = s.status /\ t.target = s.target
<1> DEFINE u == [s EXCEPT !.pending = repos]
<1>1. /\ u = [completed |-> s.completed, failed |-> s.failed, pending |-> repos,
              total |-> s.total, status |-> s.status, target |-> s.target]
      /\ s.completed \in [Repos -> Nat] /\ s.failed \in [Repos -> Nat]
      /\ s.total \in Nat /\ s.status \in Statuses /\ s.target \in Targets
  BY DEF CloneStates
<1> HIDE DEF u
<1> QED BY <1>1, UpdateTotalLemma DEF SetPendingRepositories, u

\* AddCompletedRepository counts the repository once more and takes it from the
\* pending list.
LEMMA CompletedLemma ==
    ASSUME NEW s \in CloneStates, NEW r \in Repos
    PROVE  LET t == AddCompletedRepository(s, r)
           IN  /\ t \in CloneStates /\ TotalIsSum(t)
               /\ t.completed = [s.completed EXCEPT ![r] = @ + 1]
               /\ t.failed = s.failed
               /\ t.pending = s.pending \ {r}
               /\ t.status = s.status /\ t.target = s.target
<1> DEFINE u == [s EXCEPT !.completed[r] = @ + 1, !.pending = @ \ {r}]
<1>0. /\ s.completed \in [Repos -> Nat] /\ s.failed \in [Repos -> Nat]
      /\ s.pending \in SUBSET Repos
      /\ s.total \in Nat /\ s.status \in Statuses /\ s.target \in Targets
  BY DEF CloneStates
<1> DEFINE c == [s.completed EXCEPT ![r] = @ + 1]
<1>1. u = [completed |-> c, failed |-> s.failed, pending |-> s.pending \ {r},
           total |-> s.total, status |-> s.status, target |-> s.target]
  <2>1. u = [s EXCEPT !.completed = c, !.pending = s.pending \ {r}]
    BY DEF CloneStates
  <2> HIDE DEF c, u
  <2> QED BY <2>1 DEF CloneStates
<1> HIDE DEF u
<1>2. [s.completed EXCEPT ![r] = @ + 1] \in [Repos -> Nat]
  BY <1>0
<1> QED BY <1>0, <1>1, <1>2, UpdateTotalLemma DEF AddCompletedRepository, u

\* AddFailedRepository does so once for a repository and then nothing.
LEMMA FailedLemma ==
    ASSUME NEW s \in CloneStates, NEW r \in Repos, ~IsFailed(s, r)
    PROVE  LET t == AddFailedRepository(s, r)
           IN  /\ t \in CloneStates /\ TotalIsSum(t)
               /\ t.failed = [s.failed EXCEPT ![r] = @ + 1]
               /\ t.completed = s.completed
               /\ t.pending = s.pending \ {r}
               /\ t.status = s.status /\ t.target = s.target
<1> DEFINE u == [s EXCEPT !.failed[r] = @ + 1, !.pending = @ \ {r}]
<1>0. /\ s.completed \in [Repos -> Nat] /\ s.failed \in [Repos -> Nat]
      /\ s.pending \in SUBSET Repos
      /\ s.total \in Nat /\ s.status \in Statuses /\ s.target \in Targets
  BY DEF CloneStates
<1> DEFINE c == [s.failed EXCEPT ![r] = @ + 1]
<1>1. u = [completed |-> s.completed, failed |-> c, pending |-> s.pending \ {r},
           total |-> s.total, status |-> s.status, target |-> s.target]
  <2>1. u = [s EXCEPT !.failed = c, !.pending = s.pending \ {r}]
    BY DEF CloneStates
  <2> HIDE DEF c, u
  <2> QED BY <2>1 DEF CloneStates
<1>2. AddFailedRepository(s, r) = updateTotalRepositories(u)
  BY DEF AddFailedRepository
<1>3. [s.failed EXCEPT ![r] = @ + 1] \in [Repos -> Nat]
  BY <1>0
<1> HIDE DEF u
<1> QED BY <1>0, <1>1, <1>2, <1>3, UpdateTotalLemma

\* MarkCompleted and its like change the status alone.
LEMMA StatusLemma ==
    ASSUME NEW s \in CloneStates, NEW x \in Statuses
    PROVE  LET t == MarkStatus(s, x)
           IN  /\ t \in CloneStates
               /\ t.completed = s.completed /\ t.failed = s.failed
               /\ t.pending = s.pending /\ t.total = s.total
               /\ t.status = x /\ t.target = s.target
BY DEF MarkStatus, CloneStates

\* A state file and an empty one, a record and none are told apart.
LEMMA Apart ==
    /\ NoState \notin CloneStates
    /\ ~Readable(NoFile) /\ ~Readable(Torn)
    /\ Torn # NoFile
    /\ \A s : Readable(Saved(s)) /\ Saved(s).state = s /\ Saved(s) # NoFile
BY DEF NoState, CloneStates, Statuses, Readable, NoFile, Torn, Saved


(***************************************************************************)
(* The inductive invariant.                                                *)
(***************************************************************************)
Saving == pc \in {"save", "write"}

\* Before the jobs of a run exist.
BeforeJobs == \/ pc \in {"idle", "open", "list", "create"}
              \/ Saving /\ after \in {"create", "nothing"}

\* After the loop that submits them.
Submitted == \/ pc \in {"track", "finish"}
             \/ Saving /\ after \in {"track", "finish", "cancelled"}

\* After the first save of a run.
SavedOnce == Submitted \/ pc \in {"create", "submit"}

\* After the tracking loop.
Tracked == pc = "finish" \/ (Saving /\ after = "finish")

Answered == {r \in Repos : answers[r] # "none"}

\* What the run has still to hear of.
Jobs == todo \union queue \union working \union Answered

\* The file is the state file of the target path of this run.
SameTarget == mem # NoState /\ Readable(file) /\ file.state.target = mem.target

\* Where the process is decides which of its variables are in use.
PhaseInv ==
    /\ mem = NoState <=> pc \in {"idle", "open"}
    /\ mem # NoState => mem.target = target
    /\ pc = "list" /\ ~resume => mem = NewCloneState(target)
    /\ BeforeJobs => queue = {} /\ working = {} /\ Answered = {}
    /\ BeforeJobs /\ pc # "idle" => failures = {}
    /\ pc \in {"idle", "open", "list"} \/ Submitted => todo = {}
    /\ pc \in {"open", "list"} => attempted = {}
    /\ outcome # "none" => pc = "idle"
    /\ Tracked => left = 0

\* Every repository of a run is in one place only.
JobsInv ==
    /\ todo \intersect (queue \union working \union Answered) = {}
    /\ queue \intersect (working \union Answered) = {}
    /\ working \intersect Answered = {}
    /\ failures \intersect Jobs = {}
    /\ Jobs \union failures \subseteq attempted
    /\ attempted \subseteq org

\* The tracking loop of GitHub's version counts what it has not heard of, and
\* what it has heard of is a failure or recorded as completed.
CountInv ==
    /\ provider = "github" /\ ~BeforeJobs => left = Cardinality(Jobs)
    /\ pc \notin {"idle", "open"} =>
          \A r \in attempted \ (Jobs \union failures) : IsCompleted(mem, r)

\* The record and the run.
RecordInv ==
    /\ \A s \in Records : s.pending \subseteq org
    /\ \A r \in Jobs :
          /\ IsCompleted(mem, r) => provider = "gitlab" /\ IsFailed(mem, r)
          /\ IsFailed(mem, r) => provider = "gitlab"
    /\ Tracked /\ mem.status = "completed" => mem.pending = {}

\* The record and the directories.
DiskInv ==
    Strategy = "reset" =>
        /\ \A r \in queue \union working :
              op[r] = "clone" => \A s \in Records : ~IsCompleted(s, r)
        /\ \A r \in todo :
              ~BeforeJobs /\ op[r] = "clone" => \A s \in Records : ~IsCompleted(s, r)
        /\ \A r \in Repos : answers[r] = "ok" => disk[r] = "cloned"

\* What GitLab's version would resume if the process died now.
ResumeInv ==
    provider = "gitlab" =>
        /\ pc \notin {"idle", "open"} =>
              Jobs \union failures \subseteq ResumeRepositories(mem)
        /\ SavedOnce =>
              /\ file # NoFile
              /\ Readable(file) =>
                    Jobs \union failures \subseteq ResumeRepositories(file.state)

\* What the records say has failed belongs to the organization, and a run of
\* GitLab's version has set out to process all of it.
FailedInv ==
    /\ \A s \in Records : \A r \in Repos : IsFailed(s, r) => r \in org
    /\ provider = "gitlab" /\ pc \notin {"idle", "open", "list"} =>
          \A r \in Repos : IsFailed(mem, r) => r \in attempted

\* What the file calls pending is pending, completed or failed in this run.
PendingInv ==
    SameTarget =>
        \A r \in file.state.pending :
            \/ r \in mem.pending
            \/ IsCompleted(mem, r)
            \/ IsFailed(mem, r) /\ r \in failures

(***************************************************************************)
(* Types.                                                                  *)
(***************************************************************************)
FileType(f) ==
    \/ f \in {NoFile, Torn}
    \/ Readable(f) /\ f = Saved(f.state) /\ f.state \in CloneStates

\* What TypeOK says of the lanes.
LanesOK ==
    \A o \in Ops : /\ Cardinality(Lane(queue, o)) <= LaneBuffer
                   /\ Cardinality(Lane(working, o)) <= LaneWorkers

\* A file that holds a record is a state file.
LEMMA SavedType == \A s \in CloneStates : FileType(Saved(s))
BY Apart DEF FileType

\* The limits of a lane are numbers.
LEMMA LimitsType == LaneBuffer \in Nat /\ LaneWorkers \in Nat \ {0}
BY CloneAssumption DEF LaneBuffer

\* An empty lane has room.
LEMMA EmptyLanes ==
    ASSUME queue' = {}, working' = {}
    PROVE  LanesOK'
<1>1. \A o \in Ops : Lane(queue, o)' = {} /\ Lane(working, o)' = {}
  BY DEF Lane
<1> QED BY <1>1, FS_EmptySet, LimitsType DEF LanesOK

\* A job more in one lane, within its limit, leaves each lane within its limit.
LEMMA LaneAdd ==
    ASSUME NEW J \in SUBSET Repos, NEW r \in Repos, NEW o, NEW n \in Nat,
           Cardinality(Lane(J, o)) <= n,
           op[r] = o => Cardinality(Lane(J, o)) < n
    PROVE  Cardinality(Lane(J \union {r}, o)) <= n
<1> DEFINE L == Lane(J, o)
           M == Lane(J \union {r}, o)
<1>1. IsFiniteSet(L) /\ Cardinality(L) \in Nat
  BY CloneAssumption, FS_Subset, FS_CardinalityType, L \in SUBSET Repos DEF Lane
<1>2. CASE op[r] = o
  <2>1. M = L \union {r}
    BY <1>2 DEF Lane
  <2> HIDE DEF L, M
  <2>2. Cardinality(L \union {r}) <= Cardinality(L) + 1
    <3>1. Cardinality(L \union {r}) = IF r \in L THEN Cardinality(L) ELSE Cardinality(L) + 1
      BY <1>1, FS_AddElement
    <3>2. Cardinality(L) \in Nat
      BY <1>1
    <3> QED BY <3>1, <3>2
  <2>3. Cardinality(L \union {r}) \in Nat
    BY <1>1, FS_AddElement, FS_CardinalityType
  <2>4. Cardinality(L) < n
    BY <1>2 DEF L
  <2>5. Cardinality(M) <= n
    BY <1>1, <2>1, <2>2, <2>3, <2>4
  <2> QED BY <2>5 DEF M
<1>3. CASE op[r] # o
  <2>1. M = L
    BY <1>3 DEF Lane
  <2> QED BY <2>1
<1> QED BY <1>2, <1>3

\* A job less leaves a lane within its limit.
LEMMA LaneLess ==
    ASSUME NEW J \in SUBSET Repos, NEW K \in SUBSET J, NEW o, NEW n \in Nat,
           Cardinality(Lane(J, o)) <= n
    PROVE  Cardinality(Lane(K, o)) <= n
<1> DEFINE L == Lane(J, o)
           M == Lane(K, o)
<1>1. IsFiniteSet(L) /\ Cardinality(L) \in Nat
  BY CloneAssumption, FS_Subset, FS_CardinalityType, L \in SUBSET Repos DEF Lane
<1>2. M \in SUBSET L
  BY DEF Lane
<1> HIDE DEF L, M
<1>3. IsFiniteSet(M) /\ Cardinality(M) <= Cardinality(L) /\ Cardinality(M) \in Nat
  BY <1>1, <1>2, FS_Subset, FS_CardinalityType
<1>4. Cardinality(M) <= n
  <2>1. Cardinality(L) <= n
    BY DEF L
  <2> QED BY <1>1, <1>3, <2>1
<1> QED BY <1>4 DEF M

\* Returning leaves every variable with a value of its kind.
LEMMA ReturnType ==
    ASSUME TypeOK, NEW h \in Outcomes, Return(h), FileType(file')
    PROVE  TypeOK'
<1> USE DEF Return, PoolStops, TypeOK, userVars, procVars, FileType
<1>1. LanesOK'
  BY EmptyLanes
<1>2. /\ disk' \in [Repos -> DiskStates]
      /\ op' \in [Repos -> Ops] /\ answers' \in [Repos -> Answers]
  BY DEF Ops, Answers
<1>3. pc' \in Places
  BY DEF Places
<1> QED BY <1>1, <1>2, <1>3 DEF LanesOK

\* Every step of the loop.
LEMMA OpenType ==
    ASSUME TypeOK,
           OpenResume \/ OpenResumeNothing \/ OpenFresh \/ OpenFreshOverOld
    PROVE  TypeOK'
<1> USE DEF TypeOK, StartWith, userVars, procVars, poolVars, histVars
<1>1. LanesOK'
  BY DEF OpenResume, OpenResumeNothing, OpenFresh, OpenFreshOverOld, LanesOK, Lane
<1>2. FileType(file')
  BY DEF OpenResume, OpenResumeNothing, OpenFresh, OpenFreshOverOld, FileType
<1>3. mem' \in CloneStates
  BY Apart, NewStateLemma DEF OpenResume, OpenResumeNothing, OpenFresh, OpenFreshOverOld
<1>4. pc' \in Places
  BY DEF OpenResume, OpenResumeNothing, OpenFresh, OpenFreshOverOld, Places
<1> QED
  BY <1>1, <1>2, <1>3, <1>4
  DEF OpenResume, OpenResumeNothing, OpenFresh, OpenFreshOverOld, LanesOK, FileType

\* The steps that return, apart from those that save.
LEMMA RefuseType ==
    ASSUME TypeOK,
           OpenRefused \/ ListFails \/ ListEmptyGitlab \/ FinishDelete \/ FinishKeep
              \/ Crash \/ \E r \in Repos : SubmitFails(r)
    PROVE  TypeOK'
<1>1. PICK h \in Outcomes : Return(h)
  BY DEF OpenRefused, Refuse, ListFails, ListEmptyGitlab, FinishDelete, FinishKeep,
         Ended, Crash, SubmitFails, Outcomes
<1>2. file' \in {NoFile, file}
  BY DEF OpenRefused, Refuse, ListFails, ListEmptyGitlab, FinishDelete, FinishKeep,
         Crash, SubmitFails
<1> QED BY <1>1, <1>2, ReturnType DEF TypeOK, FileType

\* The steps that list the repositories of the organization.
LEMMA ListType ==
    ASSUME TypeOK, pc = "list" => mem \in CloneStates,
           ListEmptyGithub \/ ListFresh \/ ListResume
    PROVE  TypeOK'
<1> USE DEF TypeOK
<1>1. PICK repos \in SUBSET Repos, s \in CloneStates : Process(repos, s)
  <2>1. CASE ListEmptyGithub
    BY <2>1 DEF ListEmptyGithub
  <2>2. CASE ListFresh
    <3>1. SetPendingRepositories(mem, org) \in CloneStates
      BY <2>2, PendingLemma DEF ListFresh
    <3> QED BY <2>2, <3>1 DEF ListFresh
  <2>3. CASE ListResume
    <3>1. ResumeRepositories(mem) \subseteq Repos
      BY <2>3 DEF ListResume, ResumeRepositories, GetRemainingRepositories, NewRepos,
                  CloneStates
    <3> QED BY <2>3, <3>1 DEF ListResume
  <2> QED BY <2>1, <2>2, <2>3
<1> USE DEF Process, userVars, procVars, poolVars, histVars
<1>2. MarkStatus(s, "completed") \in CloneStates
  BY StatusLemma DEF Statuses
<1>3. LanesOK'
  BY <1>1 DEF LanesOK, Lane
<1> QED BY <1>1, <1>2, <1>3 DEF LanesOK, Places, Afters

\* The steps of SaveState.
LEMMA SaveType ==
    ASSUME TypeOK, Saving => mem \in CloneStates,
           SaveBegin \/ SaveEnd \/ SaveFails
    PROVE  TypeOK'
<1> USE DEF TypeOK
<1>1. FileType(file')
  BY SavedType, Apart DEF SaveBegin, SaveEnd, SaveFails, FileType, Saving
<1>2. CASE \E h \in Outcomes : Return(h)
  BY <1>1, <1>2, ReturnType
<1>3. CASE ~\E h \in Outcomes : Return(h)
  <2>1. /\ SaveBegin \/ ((SaveEnd \/ SaveFails) /\ pc' = after)
        /\ UNCHANGED <<provider, org, runs, resume, target, op, queue, working, answers,
                       disk, after, mem, todo, left, cancelled, failures, attempted,
                       outcome>>
    BY <1>3 DEF SaveBegin, SaveEnd, SaveFails, AfterSave, userVars, procVars, poolVars,
                histVars, Outcomes
  <2>2. pc' \in Places
    BY <1>3, <2>1 DEF SaveBegin, SaveEnd, SaveFails, AfterSave, Places, Afters, Outcomes
  <2>3. LanesOK'
    BY <2>1 DEF LanesOK, Lane
  <2> QED BY <1>1, <2>1, <2>2, <2>3 DEF LanesOK, FileType
<1> QED BY <1>2, <1>3

\* The steps of the jobs: created, submitted, taken and answered.
LEMMA JobType ==
    ASSUME TypeOK, pc = "create" => queue = {} /\ working = {},
           NEW r,
           \/ CreateJobs \/ AllSubmitted
           \/ r \in Repos /\ (SubmitJob(r) \/ TakeJob(r) \/ JobSucceeds(r) \/ JobFails(r))
    PROVE  TypeOK'
<1> USE DEF TypeOK, userVars, procVars, poolVars, histVars
<1>1. LanesOK'
  <2>1. CASE CreateJobs
    BY <2>1, EmptyLanes DEF CreateJobs
  <2>2. CASE r \in Repos /\ SubmitJob(r)
    <3> SUFFICES ASSUME NEW o \in Ops
                 PROVE  Cardinality(Lane(queue', o)) <= LaneBuffer
      BY <2>2 DEF LanesOK, Lane, SubmitJob
    <3>1. Cardinality(Lane(queue, o)) <= LaneBuffer
      OBVIOUS
    <3>2. op[r] = o => Cardinality(Lane(queue, o)) < LaneBuffer
      BY <2>2 DEF SubmitJob
    <3> QED BY <2>2, <3>1, <3>2, LaneAdd, LimitsType DEF SubmitJob
  <2>3. CASE r \in Repos /\ TakeJob(r)
    <3> SUFFICES ASSUME NEW o \in Ops
                 PROVE  /\ Cardinality(Lane(queue', o)) <= LaneBuffer
                        /\ Cardinality(Lane(working', o)) <= LaneWorkers
      BY <2>3 DEF LanesOK, Lane, TakeJob
    <3>1. /\ Cardinality(Lane(queue, o)) <= LaneBuffer
          /\ Cardinality(Lane(working, o)) <= LaneWorkers
      OBVIOUS
    <3>2. op[r] = o => Cardinality(Lane(working, o)) < LaneWorkers
      BY <2>3 DEF TakeJob
    <3>3. Cardinality(Lane(working', o)) <= LaneWorkers
      BY <2>3, <3>1, <3>2, LaneAdd, LimitsType DEF TakeJob
    <3>4. Cardinality(Lane(queue', o)) <= LaneBuffer
      BY <2>3, <3>1, LaneLess, LimitsType DEF TakeJob
    <3> QED BY <3>3, <3>4
  <2>4. CASE r \in Repos /\ (JobSucceeds(r) \/ JobFails(r))
    <3>0. /\ working' \in SUBSET working /\ queue' = queue /\ op' = op
      BY <2>4 DEF JobSucceeds, JobFails, Answer
    <3> SUFFICES ASSUME NEW o \in Ops
                 PROVE  Cardinality(Lane(working', o)) <= LaneWorkers
      BY <3>0 DEF LanesOK, Lane
    <3>1. Cardinality(Lane(working, o)) <= LaneWorkers
      OBVIOUS
    <3> QED BY <3>0, <3>1, LaneLess, LimitsType
  <2>5. CASE AllSubmitted
    BY <2>5 DEF AllSubmitted, LanesOK, Lane
  <2> QED BY <2>1, <2>2, <2>3, <2>4, <2>5
<1>2. disk' \in [Repos -> DiskStates]
  <2>1. /\ \A d \in DiskStates : UpdateResult(d) \in DiskStates
        /\ r \in Repos => CutOff(r) \subseteq DiskStates
        /\ {"bare", "cloned"} \subseteq DiskStates
    BY DEF UpdateResult, CutOff, BeforeClone, DiskStates
  <2> QED BY <2>1 DEF CreateJobs, SubmitJob, AllSubmitted, TakeJob, JobSucceeds,
                      JobFails
<1>3. op' \in [Repos -> Ops] /\ answers' \in [Repos -> Answers]
  BY DEF CreateJobs, SubmitJob, AllSubmitted, TakeJob, JobSucceeds, JobFails, Answer,
         Ops, Answers, OperationFor
<1>4. left' \in Nat
  <2>1. Cardinality(todo) \in Nat
    BY CloneAssumption, FS_Subset, FS_CardinalityType
  <2> QED BY <2>1 DEF CreateJobs, SubmitJob, AllSubmitted, TakeJob, JobSucceeds,
                      JobFails, Answer
<1>5. /\ todo' \subseteq Repos /\ queue' \subseteq Repos /\ working' \subseteq Repos
      /\ pc' \in Places
  BY DEF CreateJobs, SubmitJob, AllSubmitted, TakeJob, JobSucceeds, JobFails, Answer,
         Places
<1>6. UNCHANGED <<provider, org, runs, resume, target, file, after, mem, cancelled,
                  failures, attempted, outcome>>
  BY DEF CreateJobs, SubmitJob, AllSubmitted, TakeJob, JobSucceeds, JobFails, Answer
<1> QED BY <1>1, <1>2, <1>3, <1>4, <1>5, <1>6 DEF LanesOK

\* The steps of the tracking loop.
LEMMA TrackType ==
    ASSUME TypeOK, pc = "track" => mem \in CloneStates,
           \/ TickSave \/ TickProgress \/ TrackCancelled \/ TrackEnds
           \/ \E r \in Repos : TrackResult(r)
    PROVE  TypeOK'
<1> USE DEF TypeOK, userVars, procVars, poolVars, histVars
<1>1. LanesOK'
  BY DEF LanesOK, Lane, TickSave, TickProgress, TrackCancelled, TrackEnds, TrackResult
<1>2. left' \in Nat
  BY DEF TickSave, TickProgress, TrackCancelled, TrackEnds, TrackResult, Tracking,
         LeftAfterTick
<1>3. mem' = NoState \/ mem' \in CloneStates
  <2>1. CASE TrackCancelled \/ TrackEnds
    BY <2>1, StatusLemma DEF TrackCancelled, TrackEnds, Tracking, Statuses
  <2>2. ASSUME NEW r \in Repos, TrackResult(r)
        PROVE  mem' \in CloneStates
    <3>1. AddCompletedRepository(mem, r) \in CloneStates
      BY <2>2, CompletedLemma DEF TrackResult, Tracking
    <3>2. AddFailedRepository(mem, r) \in CloneStates
      BY <2>2, FailedLemma DEF TrackResult, Tracking, AddFailedRepository
    <3> QED BY <2>2, <3>1, <3>2 DEF TrackResult
  <2>3. CASE TickSave \/ TickProgress
    BY <2>3 DEF TickSave, TickProgress
  <2> QED BY <2>1, <2>2, <2>3
<1>4. pc' \in Places /\ after' \in Afters
  BY DEF TickSave, TickProgress, TrackCancelled, TrackEnds, TrackResult, Places, Afters
<1>5. answers' \in [Repos -> Answers] /\ failures' \subseteq Repos
  BY DEF TickSave, TickProgress, TrackCancelled, TrackEnds, TrackResult, Answers
<1>6. UNCHANGED <<provider, org, runs, resume, target, disk, file, todo, op, queue,
                  working, cancelled, attempted, outcome>>
  BY DEF TickSave, TickProgress, TrackCancelled, TrackEnds, TrackResult
<1> QED BY <1>1, <1>2, <1>3, <1>4, <1>5, <1>6 DEF LanesOK

\* The steps of the user and of the organization.
LEMMA UserType ==
    ASSUME TypeOK, Begin \/ Interrupt \/ OrgGrows \/ UNCHANGED vars
    PROVE  TypeOK'
<1> USE DEF TypeOK, userVars, procVars, poolVars, histVars, vars
<1>1. LanesOK'
  BY DEF LanesOK, Lane, Begin, Interrupt, OrgGrows
<1>2. runs' \in 0 .. MaxRuns
  BY CloneAssumption DEF Begin, Interrupt, OrgGrows
<1>3. pc' \in Places /\ outcome' \in Outcomes
  BY DEF Begin, Interrupt, OrgGrows, Places, Outcomes
<1> QED BY <1>1, <1>2, <1>3 DEF LanesOK, Begin, Interrupt, OrgGrows

(***************************************************************************)
(* Where the process is.                                                   *)
(***************************************************************************)
\* Where a run is in progress there is a record.
LEMMA RecordThere ==
    ASSUME TypeOK, PhaseInv
    PROVE  /\ pc \notin {"idle", "open"} => mem \in CloneStates /\ mem # NoState
           /\ pc = "create" => queue = {} /\ working = {}
BY Apart DEF TypeOK, PhaseInv, BeforeJobs

\* A return empties everything.
LEMMA ReturnPhase ==
    ASSUME PhaseInv, NEW h, Return(h)
    PROVE  PhaseInv' /\ Jobs' = {} /\ BeforeJobs'
<1> USE DEF Return, PoolStops
<1>1. Answered' = {} /\ pc' = "idle"
  BY DEF Answered
<1>2. Jobs' = {}
  BY <1>1 DEF Jobs
<1> QED BY <1>1, <1>2 DEF PhaseInv, BeforeJobs, Submitted, Saving, Tracked

\* What a result does to the record: a success adds a completion, a failure adds
\* an entry unless there is one.
LEMMA TrackLemma ==
    ASSUME TypeOK, PhaseInv, NEW r \in Repos, TrackResult(r)
    PROVE  /\ pc = "track" /\ left > 0 /\ r \in Answered
           /\ mem \in CloneStates /\ mem' \in CloneStates
           /\ mem'.target = mem.target
           /\ \/ /\ answers[r] = "ok" /\ failures' = failures
                 /\ mem'.completed = [mem.completed EXCEPT ![r] = @ + 1]
                 /\ mem'.failed = mem.failed
                 /\ mem'.pending = mem.pending \ {r}
                 /\ TotalIsSum(mem')
              \/ /\ answers[r] = "error" /\ failures' = failures \union {r}
                 /\ ~IsFailed(mem, r)
                 /\ mem'.completed = mem.completed
                 /\ mem'.failed = [mem.failed EXCEPT ![r] = @ + 1]
                 /\ mem'.pending = mem.pending \ {r}
                 /\ TotalIsSum(mem')
              \/ /\ answers[r] = "error" /\ failures' = failures \union {r}
                 /\ IsFailed(mem, r)
                 /\ mem' = mem
<1>1. /\ pc = "track" /\ left > 0 /\ r \in Answered
      /\ mem \in CloneStates
      /\ answers[r] \in {"ok", "error"}
  BY RecordThere DEF TrackResult, Tracking, Answered, TypeOK, Answers
<1>2. CASE answers[r] = "ok"
  <2>1. mem' = AddCompletedRepository(mem, r) /\ failures' = failures
    BY <1>2 DEF TrackResult
  <2> QED BY <1>1, <1>2, <2>1, CompletedLemma
<1>3. CASE answers[r] = "error"
  <2>1. mem' = AddFailedRepository(mem, r) /\ failures' = failures \union {r}
    BY <1>3 DEF TrackResult
  <2>2. CASE IsFailed(mem, r)
    <3>1. mem' = mem
      BY <2>1, <2>2 DEF AddFailedRepository
    <3> QED BY <1>1, <1>3, <2>1, <2>2, <3>1
  <2>3. CASE ~IsFailed(mem, r)
    BY <1>1, <1>3, <2>1, <2>3, FailedLemma
  <2> QED BY <2>2, <2>3
<1> QED BY <1>1, <1>2, <1>3

\* Every step keeps what is said of the places of the process.
LEMMA PhaseStep ==
    ASSUME TypeOK, PhaseInv, [Next]_vars
    PROVE  PhaseInv'
<1> USE DEF userVars, procVars, poolVars, histVars
<1>1. CASE \E h : Return(h)
  BY <1>1, ReturnPhase
<1>2. CASE Begin \/ Interrupt \/ OrgGrows \/ UNCHANGED vars
  BY <1>2, NewStateLemma, Apart
  DEF Begin, Interrupt, OrgGrows, vars, PhaseInv, BeforeJobs, Submitted, Saving,
      Tracked, Answered
<1>3. CASE OpenResume \/ OpenResumeNothing \/ OpenFresh \/ OpenFreshOverOld
  <2>1. mem' \in CloneStates /\ mem'.target = target /\ (~resume => mem' = NewCloneState(target))
    BY <1>3, NewStateLemma, Apart
    DEF OpenResume, OpenResumeNothing, OpenFresh, OpenFreshOverOld, StartWith, TypeOK
  <2> QED
    BY <1>3, <2>1, Apart
    DEF OpenResume, OpenResumeNothing, OpenFresh, OpenFreshOverOld, StartWith, PhaseInv,
        BeforeJobs, Submitted, Saving, Tracked, Answered
<1>4. CASE ListEmptyGithub \/ ListFresh \/ ListResume
  <2>1. PICK repos \in SUBSET Repos, s \in CloneStates :
             Process(repos, s) /\ s.target = target
    <3>1. CASE ListEmptyGithub
      BY <1>4, <3>1, RecordThere DEF ListEmptyGithub, PhaseInv
    <3>2. CASE ListFresh
      BY <1>4, <3>2, RecordThere, PendingLemma DEF ListFresh, PhaseInv, TypeOK
    <3>3. CASE ListResume
      <4>1. ResumeRepositories(mem) \in SUBSET Repos
        BY <3>3, RecordThere DEF ListResume, ResumeRepositories,
           GetRemainingRepositories, NewRepos, CloneStates, TypeOK
      <4> QED BY <3>3, <4>1, RecordThere DEF ListResume, PhaseInv
    <3> QED BY <1>4, <3>1, <3>2, <3>3
  <2>2. mem' \in CloneStates /\ mem'.target = target /\ pc = "list"
    BY <1>4, <2>1, StatusLemma DEF Process, Statuses, ListEmptyGithub, ListFresh, ListResume
  <2> QED
    BY <2>1, <2>2, Apart
    DEF Process, PhaseInv, BeforeJobs, Submitted, Saving, Tracked, Answered
<1>5. CASE SaveBegin \/ ((SaveEnd \/ SaveFails) /\ ~\E h : Return(h))
  <2>1. /\ pc \in {"save", "write"}
        /\ pc' = "write" \/ (pc' = after /\ after \notin {"cancelled", "nothing"})
        /\ UNCHANGED <<resume, target, queue, working, answers, after, mem, todo, left,
                       failures, attempted, outcome>>
    BY <1>5 DEF SaveBegin, SaveEnd, SaveFails, AfterSave
  <2> QED
    BY <2>1 DEF PhaseInv, BeforeJobs, Submitted, Saving, Tracked, Answered, TypeOK, Afters
<1>6. CASE CreateJobs \/ AllSubmitted
  BY <1>6 DEF CreateJobs, AllSubmitted, PhaseInv, BeforeJobs, Submitted, Saving, Tracked,
              Answered
<1>7. ASSUME NEW r \in Repos, SubmitJob(r) \/ TakeJob(r) \/ JobSucceeds(r) \/ JobFails(r)
      PROVE  PhaseInv'
  <2>1. ~BeforeJobs /\ pc' = pc /\ after' = after
    BY <1>7 DEF SubmitJob, TakeJob, JobSucceeds, JobFails, Answer, PhaseInv, BeforeJobs,
                Saving
  <2>2. UNCHANGED <<resume, target, mem, left, failures, attempted, outcome>>
    BY <1>7 DEF SubmitJob, TakeJob, JobSucceeds, JobFails, Answer
  <2>3. todo' \in SUBSET todo
    BY <1>7 DEF SubmitJob, TakeJob, JobSucceeds, JobFails, Answer
  <2> QED
    BY <2>1, <2>2, <2>3 DEF PhaseInv, BeforeJobs, Submitted, Saving, Tracked
<1>8. CASE TickSave \/ TickProgress \/ TrackCancelled \/ TrackEnds
  <2>1. /\ pc = "track" /\ mem' \in CloneStates /\ mem'.target = mem.target
        /\ \/ pc' = "track" /\ after' = after
           \/ pc' = "save" /\ after' \in {"track", "cancelled"}
           \/ pc' = "save" /\ after' = "finish" /\ left' = 0
        /\ UNCHANGED <<resume, target, queue, working, answers, todo, failures,
                       attempted, outcome>>
    BY <1>8, RecordThere, StatusLemma DEF TickSave, TickProgress, TrackCancelled,
       TrackEnds, Tracking, Statuses
  <2> QED
    BY <2>1, Apart DEF PhaseInv, BeforeJobs, Submitted, Saving, Tracked, Answered
<1>9. ASSUME NEW r \in Repos, TrackResult(r)
      PROVE  PhaseInv'
  <2>1. mem' \in CloneStates /\ mem'.target = mem.target
    BY <1>9, TrackLemma
  <2>2. /\ pc = "track" /\ pc' = pc /\ after' = after
        /\ UNCHANGED <<resume, target, todo, attempted, outcome>>
    BY <1>9 DEF TrackResult, Tracking
  <2> QED
    BY <2>1, <2>2, Apart DEF PhaseInv, BeforeJobs, Submitted, Saving, Tracked
<1>10. CASE Crash \/ OpenRefused \/ ListFails \/ ListEmptyGitlab \/ FinishDelete
              \/ FinishKeep \/ \E r \in Repos : SubmitFails(r)
  BY <1>1, <1>10 DEF Crash, OpenRefused, Refuse, ListFails, ListEmptyGitlab,
     FinishDelete, FinishKeep, SubmitFails
<1> QED
  BY <1>1, <1>2, <1>3, <1>4, <1>5, <1>6, <1>7, <1>8, <1>9, <1>10
  DEF Next, Loop, Pool, Over

\* Every step leaves each variable with a value of its kind.
LEMMA TypeStep ==
    ASSUME TypeOK, PhaseInv, [Next]_vars
    PROVE  TypeOK'
<1>1. CASE \E r \in Repos : TakeJob(r) \/ JobSucceeds(r) \/ JobFails(r) \/ SubmitJob(r)
  BY <1>1, JobType, RecordThere
<1>2. CASE AllSubmitted \/ CreateJobs
  BY <1>2, JobType, RecordThere
<1>3. CASE ListEmptyGithub \/ ListFresh \/ ListResume
  BY <1>3, ListType, RecordThere
<1>4. CASE SaveBegin \/ SaveEnd \/ SaveFails
  BY <1>4, SaveType, RecordThere DEF Saving
<1> QED
  BY <1>1, <1>2, <1>3, <1>4, OpenType, RefuseType, TrackType, UserType, RecordThere
  DEF Next, Loop, Pool, Over

(***************************************************************************)
(* The repositories of a run.                                              *)
(***************************************************************************)
\* What a run sets out to process is in the organization.
LEMMA ProcessLemma ==
    ASSUME TypeOK, PhaseInv, RecordInv, ListEmptyGithub \/ ListFresh \/ ListResume
    PROVE  /\ pc = "list" /\ todo' \in SUBSET org /\ attempted' = todo'
           /\ Jobs = {} /\ Jobs' = todo' /\ failures = {}
           /\ pc' = "save" /\ after' \in {"create", "nothing"}
           /\ UNCHANGED <<provider, org, disk, file, op, queue, working, answers,
                          failures, left, outcome>>
<1>1. PICK repos \in SUBSET org : \E s : Process(repos, s)
  <2>1. mem \in Records
    BY RecordThere DEF Records, ListEmptyGithub, ListFresh, ListResume
  <2>2. ResumeRepositories(mem) \subseteq org
    BY <2>1 DEF RecordInv, ResumeRepositories, GetRemainingRepositories, NewRepos
  <2>3. {} \in SUBSET org /\ org \in SUBSET org
    OBVIOUS
  <2> QED BY <2>2, <2>3 DEF ListEmptyGithub, ListFresh, ListResume
<1>2. pc = "list"
  BY DEF ListEmptyGithub, ListFresh, ListResume
<1>3. Jobs = {} /\ failures = {} /\ queue = {} /\ working = {} /\ Answered = {}
  BY <1>2 DEF PhaseInv, BeforeJobs, Jobs
<1>4. /\ todo' = repos /\ attempted' = todo' /\ pc' = "save"
      /\ after' \in {"create", "nothing"}
      /\ UNCHANGED <<provider, org, disk, file, op, queue, working, answers, failures,
                     left, outcome>>
  BY <1>1 DEF Process, userVars, procVars, poolVars
<1>5. Jobs' = todo'
  BY <1>3, <1>4 DEF Jobs, Answered
<1> QED BY <1>1, <1>2, <1>3, <1>4, <1>5

\* A job that moves on stays a job until its result is read.
LEMMA MoveLemma ==
    ASSUME NEW r \in Repos, TypeOK, PhaseInv, JobsInv,
           SubmitJob(r) \/ TakeJob(r) \/ JobSucceeds(r) \/ JobFails(r)
    PROVE  /\ Jobs' = Jobs /\ r \in Jobs /\ ~BeforeJobs /\ ~BeforeJobs'
           /\ pc' = pc /\ after' = after
           /\ UNCHANGED <<provider, org, file, mem, op, failures, attempted, outcome,
                          runs, resume, target, left, cancelled>>
<1>1. /\ ~BeforeJobs /\ pc' = pc /\ after' = after
      /\ UNCHANGED <<provider, org, file, mem, op, failures, attempted, outcome,
                     runs, resume, target, left, cancelled>>
  BY DEF SubmitJob, TakeJob, JobSucceeds, JobFails, Answer, PhaseInv, BeforeJobs,
         Saving, userVars, procVars, poolVars, histVars
<1>2. ~BeforeJobs'
  BY <1>1 DEF BeforeJobs, Saving
<1>3. r \in Jobs
  BY DEF SubmitJob, TakeJob, JobSucceeds, JobFails, Jobs
<1>4. CASE SubmitJob(r)
  <2>1. /\ queue' = queue \union {r} /\ todo' = todo \ {r} /\ working' = working
        /\ Answered' = Answered /\ r \in todo
    BY <1>4 DEF SubmitJob, Answered
  <2>2. Jobs' = Jobs
    BY <2>1 DEF Jobs
  <2> QED BY <1>1, <1>2, <1>3, <2>2
<1>5. CASE TakeJob(r)
  <2>1. /\ queue' = queue \ {r} /\ todo' = todo /\ working' = working \union {r}
        /\ Answered' = Answered /\ r \in queue
    BY <1>5 DEF TakeJob, Answered
  <2>2. Jobs' = Jobs
    BY <2>1 DEF Jobs
  <2> QED BY <1>1, <1>2, <1>3, <2>2
<1>6. CASE JobSucceeds(r) \/ JobFails(r)
  <2>1. PICK a \in {"ok", "error"} : Answer(r, a)
    BY <1>6 DEF JobSucceeds, JobFails
  <2>2. Answered' = Answered \union {r}
    BY <2>1 DEF Answer, Answered, TypeOK
  <2>3. r \in working
    BY <1>6 DEF JobSucceeds, JobFails
  <2> QED BY <1>1, <1>2, <1>3, <2>1, <2>2, <2>3 DEF Answer, Jobs
<1> QED BY <1>1, <1>2, <1>3, <1>4, <1>5, <1>6

\* A result that is read is no job any more.
LEMMA ResultLemma ==
    ASSUME NEW r \in Repos, TypeOK, PhaseInv, JobsInv, TrackResult(r)
    PROVE  /\ r \in Jobs /\ Jobs' = Jobs \ {r} /\ Answered' = Answered \ {r}
           /\ left' = left - 1 /\ ~BeforeJobs /\ ~BeforeJobs'
           /\ r \notin queue /\ r \notin working /\ r \notin todo
           /\ UNCHANGED <<provider, org, disk, file, pc, after, todo, op, queue,
                          working, attempted, outcome, runs, resume, target, cancelled>>
<1>1. /\ left' = left - 1
      /\ UNCHANGED <<provider, org, disk, file, pc, after, todo, op, queue,
                     working, attempted, outcome, runs, resume, target, cancelled>>
  BY DEF TrackResult, userVars, procVars, histVars
<1>2. r \in Answered /\ pc = "track"
  BY TrackLemma
<1>3. Answered' = Answered \ {r}
  BY DEF TrackResult, Answered, TypeOK
<1>4. r \in Jobs /\ r \notin queue /\ r \notin working /\ r \notin todo
  BY <1>2 DEF Jobs, JobsInv
<1>5. Jobs' = Jobs \ {r}
  BY <1>1, <1>3, <1>4 DEF Jobs
<1>6. ~BeforeJobs /\ ~BeforeJobs'
  BY <1>1, <1>2 DEF BeforeJobs, Saving
<1> QED BY <1>1, <1>2, <1>3, <1>4, <1>5, <1>6

\* The steps that leave the jobs and the disk alone, and the record but for its
\* status.
Quiet ==
    /\ UNCHANGED <<provider, disk, todo, queue, working, answers, failures, attempted>>
    /\ org \subseteq org'
    /\ BeforeJobs \/ op' = op

\* Which steps are quiet.
LEMMA QuietLemma ==
    ASSUME \/ Interrupt \/ OrgGrows \/ UNCHANGED vars
           \/ OpenResume \/ OpenResumeNothing \/ OpenFresh \/ OpenFreshOverOld
           \/ SaveBegin \/ ((SaveEnd \/ SaveFails) /\ ~\E h : Return(h))
           \/ CreateJobs \/ AllSubmitted
           \/ TickSave \/ TickProgress \/ TrackCancelled \/ TrackEnds
    PROVE  Quiet /\ outcome' = outcome /\ Jobs' = Jobs /\ Answered' = Answered
<1>1. UNCHANGED <<provider, disk, todo, queue, working, answers, failures, attempted,
                  outcome>>
  BY DEF Interrupt, OrgGrows, vars, OpenResume, OpenResumeNothing, OpenFresh,
         OpenFreshOverOld, StartWith, SaveBegin, SaveEnd, SaveFails, AfterSave, CreateJobs,
         AllSubmitted, TickSave, TickProgress, TrackCancelled, TrackEnds,
         userVars, procVars, poolVars, histVars
<1>2. org \subseteq org' /\ (BeforeJobs \/ op' = op)
  BY DEF Interrupt, OrgGrows, vars, OpenResume, OpenResumeNothing, OpenFresh,
         OpenFreshOverOld, StartWith, SaveBegin, SaveEnd, SaveFails, AfterSave, CreateJobs,
         AllSubmitted, TickSave, TickProgress, TrackCancelled, TrackEnds, BeforeJobs,
         userVars, procVars, poolVars, histVars
<1>3. Answered' = Answered
  BY <1>1 DEF Answered
<1>4. Jobs' = Jobs
  BY <1>1, <1>3 DEF Jobs
<1> QED BY <1>1, <1>2, <1>3, <1>4 DEF Quiet

\* Every step returns, begins a run, lists, moves a job, reads a result or is quiet.
LEMMA StepKinds ==
    ASSUME [Next]_vars
    PROVE  \/ \E h : Return(h)
           \/ Begin
           \/ ListEmptyGithub \/ ListFresh \/ ListResume
           \/ \E r \in Repos : SubmitJob(r) \/ TakeJob(r) \/ JobSucceeds(r) \/ JobFails(r)
           \/ \E r \in Repos : TrackResult(r)
           \/ Interrupt \/ OrgGrows \/ UNCHANGED vars
           \/ OpenResume \/ OpenResumeNothing \/ OpenFresh \/ OpenFreshOverOld
           \/ SaveBegin \/ ((SaveEnd \/ SaveFails) /\ ~\E h : Return(h))
           \/ CreateJobs \/ AllSubmitted
           \/ TickSave \/ TickProgress \/ TrackCancelled \/ TrackEnds
BY DEF Next, Loop, Pool, Over, Crash, OpenRefused, Refuse, ListFails, ListEmptyGitlab,
       FinishDelete, FinishKeep, SubmitFails

\* Every step leaves a repository in one place at most.
LEMMA JobsStep ==
    ASSUME TypeOK, PhaseInv, JobsInv, RecordInv, [Next]_vars
    PROVE  JobsInv'
<1>1. CASE \E h : Return(h)
  <2>1. Jobs' = {} /\ failures' = failures /\ attempted' = attempted /\ org' = org
    BY <1>1, ReturnPhase DEF Return, userVars
  <2> QED BY <2>1 DEF JobsInv, Jobs
<1>2. CASE Begin
  <2>1. todo' = {} /\ queue' = {} /\ working' = {} /\ Answered' = {}
    BY <1>2 DEF Begin, PhaseInv, BeforeJobs, poolVars, Answered
  <2>2. failures' = {} /\ attempted' = {}
    BY <1>2 DEF Begin
  <2> QED BY <2>1, <2>2 DEF JobsInv, Jobs
<1>3. CASE ListEmptyGithub \/ ListFresh \/ ListResume
  <2>1. queue' = {} /\ working' = {} /\ Answered' = {}
    BY <1>3, ProcessLemma DEF Jobs, Answered
  <2> QED BY <1>3, <2>1, ProcessLemma DEF JobsInv, Jobs
<1>4. ASSUME NEW r \in Repos,
             SubmitJob(r) \/ TakeJob(r) \/ JobSucceeds(r) \/ JobFails(r)
      PROVE  JobsInv'
  <2>1. CASE SubmitJob(r)
    <3>1. /\ queue' = queue \union {r} /\ todo' = todo \ {r} /\ working' = working
          /\ Answered' = Answered /\ r \in todo
      BY <2>1 DEF SubmitJob, Answered
    <3> QED BY <1>4, <3>1, MoveLemma DEF JobsInv
  <2>2. CASE TakeJob(r)
    <3>1. /\ queue' = queue \ {r} /\ todo' = todo /\ working' = working \union {r}
          /\ Answered' = Answered /\ r \in queue
      BY <2>2 DEF TakeJob, Answered
    <3> QED BY <1>4, <3>1, MoveLemma DEF JobsInv
  <2>3. CASE JobSucceeds(r) \/ JobFails(r)
    <3>1. PICK a \in {"ok", "error"} : Answer(r, a)
      BY <2>3 DEF JobSucceeds, JobFails
    <3>2. Answered' = Answered \union {r}
      BY <3>1 DEF Answer, Answered, TypeOK
    <3>3. r \in working /\ queue' = queue /\ todo' = todo /\ working' = working \ {r}
      BY <2>3 DEF JobSucceeds, JobFails, Answer
    <3> QED BY <1>4, <3>2, <3>3, MoveLemma DEF JobsInv
  <2> QED BY <1>4, <2>1, <2>2, <2>3
<1>5. ASSUME NEW r \in Repos, TrackResult(r)
      PROVE  JobsInv'
  <2>1. failures' \subseteq failures \union {r}
    BY <1>5, TrackLemma
  <2> QED BY <1>5, <2>1, ResultLemma DEF JobsInv
<1>6. CASE Quiet /\ Jobs' = Jobs /\ Answered' = Answered
  BY <1>6 DEF Quiet, JobsInv
<1> QED BY <1>1, <1>2, <1>3, <1>4, <1>5, <1>6, StepKinds, QuietLemma

(***************************************************************************)
(* The records.                                                            *)
(***************************************************************************)
\* Each of the records at hand is a record of its kind.
LEMMA RecordsType ==
    ASSUME TypeOK
    PROVE  /\ \A s \in Records : s \in CloneStates
           /\ mem \in CloneStates => mem \in Records
           /\ Readable(file) => file.state \in Records
BY Apart DEF TypeOK, Records

\* The file is written from memory or not at all.
LEMMA FileStep ==
    ASSUME TypeOK, PhaseInv, [Next]_vars
    PROVE  file' \in {file, NoFile, Torn} \/ (Saving /\ file' = Saved(mem))
BY DEF Next, Loop, Pool, Over, vars, Begin, Interrupt, OrgGrows, Crash, OpenResume,
       OpenResumeNothing, OpenFresh, OpenFreshOverOld, OpenRefused, Refuse, ListFails,
       ListEmptyGitlab, ListEmptyGithub, ListFresh, ListResume, Process, SaveBegin, SaveEnd,
       SaveFails, CreateJobs, AllSubmitted, TickSave, TickProgress, TrackCancelled,
       TrackEnds, FinishDelete, FinishKeep, SubmitJob, SubmitFails, TrackResult,
       TakeJob, JobSucceeds, JobFails, Answer, Saving

\* A step brings at most one new record, the one in memory.
LEMMA RecordsStep ==
    ASSUME TypeOK, PhaseInv, [Next]_vars, NEW s \in Records'
    PROVE  s \in Records \/ (s = mem' /\ mem' # mem /\ mem' # NoState)
<1>1. CASE s \in {mem'} \ {NoState}
  BY <1>1 DEF Records
<1>2. CASE Readable(file') /\ s = file'.state
  <2>1. CASE file' = file
    BY <1>2, <2>1 DEF Records
  <2>2. CASE Saving /\ file' = Saved(mem)
    BY <1>2, <2>2, Apart, RecordThere DEF Records, Saving
  <2> QED BY <1>2, <2>1, <2>2, FileStep, Apart
<1> QED BY <1>1, <1>2 DEF Records

\* How the record in memory changes: it is loaded, made, filled with the pending
\* repositories, given another status, or told of a result.
LEMMA MemStep ==
    ASSUME TypeOK, PhaseInv, [Next]_vars
    PROVE  \/ mem' = mem
           \/ mem' = NoState
           \/ Readable(file) /\ mem' = file.state
           \/ mem' = NewCloneState(target)
           \/ /\ mem = NewCloneState(target) /\ mem \in CloneStates
              /\ mem' = SetPendingRepositories(mem, org)
           \/ mem \in CloneStates /\ \E x \in Statuses : mem' = MarkStatus(mem, x)
           \/ \E r \in Repos : TrackResult(r)
<1>1. CASE \E h : Return(h)
  BY <1>1 DEF Return
<1>2. CASE ListEmptyGithub \/ ListFresh \/ ListResume
  BY <1>2, RecordThere DEF ListEmptyGithub, ListFresh, ListResume, Process, Statuses,
     PhaseInv
<1>3. CASE TrackCancelled \/ TrackEnds
  BY <1>3, RecordThere DEF TrackCancelled, TrackEnds, Tracking, Statuses
<1>4. CASE OpenResume \/ OpenResumeNothing \/ OpenFresh \/ OpenFreshOverOld
  BY <1>4 DEF OpenResume, OpenResumeNothing, OpenFresh, OpenFreshOverOld, StartWith
<1>5. CASE \/ Begin \/ Interrupt \/ OrgGrows \/ UNCHANGED vars
           \/ SaveBegin \/ ((SaveEnd \/ SaveFails) /\ ~\E h : Return(h))
           \/ CreateJobs \/ AllSubmitted \/ TickSave \/ TickProgress
  BY <1>5 DEF Begin, Interrupt, OrgGrows, vars, SaveBegin, SaveEnd, SaveFails, AfterSave,
              CreateJobs, AllSubmitted, TickSave, TickProgress
<1>6. CASE \E r \in Repos : SubmitJob(r) \/ TakeJob(r) \/ JobSucceeds(r) \/ JobFails(r)
  BY <1>6 DEF SubmitJob, TakeJob, JobSucceeds, JobFails, Answer
<1> QED BY <1>1, <1>2, <1>3, <1>4, <1>5, <1>6, StepKinds

\* The provider never changes and no repository leaves the organization.
LEMMA UserStep ==
    ASSUME [Next]_vars
    PROVE  provider' = provider /\ org \subseteq org'
<1>1. CASE \E h : Return(h)
  BY <1>1 DEF Return, userVars
<1>2. CASE Begin
  BY <1>2 DEF Begin
<1>3. CASE ListEmptyGithub \/ ListFresh \/ ListResume
  BY <1>3 DEF ListEmptyGithub, ListFresh, ListResume, Process, userVars
<1>4. CASE \E r \in Repos : TrackResult(r) \/ SubmitJob(r) \/ TakeJob(r) \/ JobSucceeds(r)
                               \/ JobFails(r)
  BY <1>4 DEF TrackResult, SubmitJob, TakeJob, JobSucceeds, JobFails, Answer, userVars
<1> QED BY <1>1, <1>2, <1>3, <1>4, StepKinds, QuietLemma DEF Quiet

\* What holds of each record.
RecordOK(s) ==
    /\ PendingIsUnsettled(s)
    /\ TotalIsSum(s)
    /\ provider = "github" => SettledOnce(s)
    /\ s.pending \subseteq org

\* RecordOK of each record is what RecordIsConsistent says and a little more.
LEMMA RecordOKLemma ==
    (\A s \in Records : RecordOK(s))
       <=> RecordIsConsistent /\ \A s \in Records : s.pending \subseteq org
BY DEF RecordIsConsistent, RecordOK, PendingIsUnsettled, TotalIsSum, SettledOnce

\* A record that the step did not touch is as good as before.
LEMMA RecordOKStays ==
    ASSUME [Next]_vars, NEW s, RecordOK(s)
    PROVE  RecordOK(s)'
BY UserStep DEF RecordOK, PendingIsUnsettled, TotalIsSum, SettledOnce, IsCompleted,
   IsFailed

\* Every record after a step is consistent.
LEMMA ConsistentStep ==
    ASSUME TypeOK, PhaseInv, JobsInv, RecordInv, RecordIsConsistent, [Next]_vars
    PROVE  \A s \in Records' : RecordOK(s)'
<1> SUFFICES ASSUME NEW t, t = mem', mem' # mem, mem' # NoState
             PROVE  RecordOK(t)'
  BY RecordsStep, RecordOKLemma, RecordOKStays DEF RecordInv
<1>0. \A s \in Records : s \in CloneStates /\ RecordOK(s)
  BY RecordsType, RecordOKLemma DEF RecordInv
<1>1. CASE Readable(file) /\ t = file.state
  BY <1>1, <1>0, RecordsType, RecordOKStays
<1>2. CASE t = NewCloneState(target)
  BY <1>2, NewStateLemma
  DEF TypeOK, RecordOK, PendingIsUnsettled, SettledOnce, IsCompleted, IsFailed, NoRepos,
      TotalIsSum
<1>3. CASE /\ mem = NewCloneState(target) /\ mem \in CloneStates
           /\ t = SetPendingRepositories(mem, org)
  <2>1. /\ t.pending = org /\ t.completed = NoRepos /\ t.failed = NoRepos
        /\ TotalIsSum(t)
    BY <1>3, NewStateLemma, PendingLemma DEF TypeOK
  <2>2. \A r \in Repos : NoRepos[r] = 0
    BY DEF NoRepos
  <2>3. PendingIsUnsettled(t) /\ SettledOnce(t)
    BY <2>1, <2>2 DEF TypeOK, PendingIsUnsettled, SettledOnce, IsCompleted, IsFailed
  <2>4. org \subseteq org'
    BY UserStep
  <2> QED BY <2>1, <2>3, <2>4 DEF RecordOK, PendingIsUnsettled, SettledOnce, TotalIsSum,
                                  IsCompleted, IsFailed
<1>4. ASSUME mem \in CloneStates, NEW x \in Statuses, t = MarkStatus(mem, x)
      PROVE  RecordOK(t)'
  <2>1. RecordOK(mem)
    BY <1>0, <1>4, RecordsType
  <2>2. /\ t.pending = mem.pending /\ t.completed = mem.completed
        /\ t.failed = mem.failed /\ t.total = mem.total
    BY <1>4, StatusLemma
  <2>3. RecordOK(t)
    BY <2>1, <2>2 DEF RecordOK, PendingIsUnsettled, SettledOnce, TotalIsSum, IsCompleted,
                      IsFailed
  <2> QED BY <2>3, RecordOKStays
<1>5. ASSUME NEW r \in Repos, TrackResult(r)
      PROVE  RecordOK(t)'
  <2>1. RecordOK(mem) /\ mem \in CloneStates
    BY <1>0, <1>5, RecordsType, TrackLemma
  <2>2. r \in Jobs
    BY <1>5, ResultLemma
  <2>3. provider = "github" => mem.completed[r] = 0 /\ mem.failed[r] = 0
    BY <2>1, <2>2 DEF RecordInv, IsCompleted, IsFailed, CloneStates
  <2>4. CASE t = mem
    BY <2>1, <2>4, RecordOKStays
  <2>5. CASE /\ t.completed = [mem.completed EXCEPT ![r] = @ + 1]
             /\ t.failed = mem.failed
             /\ t.pending = mem.pending \ {r} /\ TotalIsSum(t)
    <3>1. PendingIsUnsettled(t)
      BY <2>1, <2>5 DEF RecordOK, PendingIsUnsettled, IsCompleted, IsFailed, CloneStates
    <3>2. provider = "github" => SettledOnce(t)
      BY <2>1, <2>3, <2>5 DEF RecordOK, SettledOnce, CloneStates
    <3>3. RecordOK(t)
      BY <2>1, <2>5, <3>1, <3>2 DEF RecordOK
    <3> QED BY <3>3, RecordOKStays
  <2>6. CASE /\ t.failed = [mem.failed EXCEPT ![r] = @ + 1]
             /\ t.completed = mem.completed
             /\ t.pending = mem.pending \ {r} /\ TotalIsSum(t)
    <3>1. PendingIsUnsettled(t)
      BY <2>1, <2>6 DEF RecordOK, PendingIsUnsettled, IsCompleted, IsFailed, CloneStates
    <3>2. provider = "github" => SettledOnce(t)
      BY <2>1, <2>3, <2>6 DEF RecordOK, SettledOnce, CloneStates
    <3>3. RecordOK(t)
      BY <2>1, <2>6, <3>1, <3>2 DEF RecordOK
    <3> QED BY <3>3, RecordOKStays
  <2>7. TotalIsSum(mem') <=> TotalIsSum(t)
    OBVIOUS
  <2> QED BY <1>5, <2>4, <2>5, <2>6, <2>7, TrackLemma
<1> QED BY <1>1, <1>2, <1>3, <1>4, <1>5, MemStep

\* A result changes the entries of its repository only, and only upwards.
LEMMA TrackOthers ==
    ASSUME TypeOK, PhaseInv, NEW r \in Repos, TrackResult(r)
    PROVE  /\ \A x \in Repos \ {r} : /\ mem'.completed[x] = mem.completed[x]
                                     /\ mem'.failed[x] = mem.failed[x]
           /\ \A x \in Repos : /\ mem.completed[x] <= mem'.completed[x]
                               /\ mem.failed[x] <= mem'.failed[x]
           /\ mem'.pending \in {mem.pending, mem.pending \ {r}}
           /\ answers[r] = "ok" => /\ mem'.completed[r] > 0
                                   /\ failures' = failures
           /\ answers[r] # "ok" => /\ mem'.failed[r] > 0
                                   /\ mem'.completed = mem.completed
                                   /\ failures' = failures \union {r}
<1>1. mem.completed \in [Repos -> Nat] /\ mem.failed \in [Repos -> Nat]
  BY TrackLemma DEF CloneStates
<1>2. \/ mem'.completed = mem.completed
      \/ mem'.completed = [mem.completed EXCEPT ![r] = @ + 1]
  BY TrackLemma
<1>3. \/ mem'.failed = mem.failed
      \/ mem'.failed = [mem.failed EXCEPT ![r] = @ + 1]
  BY TrackLemma
<1>4. ASSUME answers[r] # "ok"
      PROVE  mem'.completed = mem.completed /\ mem'.failed[r] > 0
  <2>1. CASE mem' = mem /\ IsFailed(mem, r)
    BY <2>1 DEF IsFailed
  <2>2. CASE /\ mem'.completed = mem.completed
             /\ mem'.failed = [mem.failed EXCEPT ![r] = @ + 1]
    BY <1>1, <2>2
  <2> QED BY <1>4, <2>1, <2>2, TrackLemma
<1>5. ASSUME answers[r] = "ok"
      PROVE  mem'.completed[r] > 0
  <2>1. mem'.completed = [mem.completed EXCEPT ![r] = @ + 1]
    BY <1>5, TrackLemma
  <2> QED BY <1>1, <2>1
<1>6. /\ mem'.pending \in {mem.pending, mem.pending \ {r}}
      /\ answers[r] = "ok" => failures' = failures
      /\ answers[r] # "ok" => failures' = failures \union {r}
  BY TrackLemma
<1> QED BY <1>1, <1>2, <1>3, <1>4, <1>5, <1>6

\* What is still to be heard of is not settled in the record (GitHub's version) or
\* is there because it failed (GitLab's).
JobsUnsettled ==
    \A r \in Jobs :
       /\ IsCompleted(mem, r) => provider = "gitlab" /\ IsFailed(mem, r)
       /\ IsFailed(mem, r) => provider = "gitlab"

\* Every step keeps what is still to be heard of unsettled.
LEMMA UnsettledStep ==
    ASSUME TypeOK, PhaseInv, JobsInv, RecordInv, RecordIsConsistent, [Next]_vars
    PROVE  JobsUnsettled'
<1>0. JobsUnsettled /\ provider' = provider
  BY UserStep DEF RecordInv, JobsUnsettled
<1>1. CASE \E h : Return(h)
  BY <1>1, ReturnPhase DEF JobsUnsettled
<1>2. CASE Begin
  <2>1. Jobs' = {}
    BY <1>2 DEF Begin, PhaseInv, BeforeJobs, poolVars, Answered, Jobs
  <2> QED BY <2>1 DEF JobsUnsettled
<1>3. CASE ListEmptyGithub
  <2>1. Jobs' = {}
    BY <1>3, ProcessLemma DEF ListEmptyGithub, Process
  <2> QED BY <2>1 DEF JobsUnsettled
<1>4. CASE ListFresh
  <2>1. mem = NewCloneState(target) /\ mem \in CloneStates /\ target \in Targets
    BY <1>4, RecordThere DEF ListFresh, PhaseInv, TypeOK
  <2>2. \/ mem' = SetPendingRepositories(mem, org)
        \/ mem' = MarkStatus(SetPendingRepositories(mem, org), "completed")
    BY <1>4 DEF ListFresh, Process
  <2>3. /\ SetPendingRepositories(mem, org) \in CloneStates
        /\ SetPendingRepositories(mem, org).completed = NoRepos
        /\ SetPendingRepositories(mem, org).failed = NoRepos
    BY <2>1, NewStateLemma, PendingLemma DEF TypeOK
  <2>4. mem'.completed = NoRepos /\ mem'.failed = NoRepos
    BY <2>2, <2>3, StatusLemma DEF Statuses
  <2>5. \A r \in Repos : ~(NoRepos[r] > 0)
    BY DEF NoRepos
  <2>6. Jobs' \subseteq Repos
    BY <1>4, ProcessLemma DEF TypeOK
  <2> QED BY <2>4, <2>5, <2>6 DEF JobsUnsettled, IsCompleted, IsFailed
<1>5. CASE ListResume
  <2>1. mem \in CloneStates /\ mem \in Records
    BY <1>5, RecordThere, RecordsType DEF ListResume
  <2>2. mem' = mem \/ mem' = MarkStatus(mem, "completed")
    BY <1>5 DEF ListResume, Process
  <2>3. mem'.completed = mem.completed /\ mem'.failed = mem.failed
    BY <2>1, <2>2, StatusLemma DEF Statuses
  <2>4. Jobs' = ResumeRepositories(mem)
    BY <1>5, ProcessLemma DEF ListResume, Process
  <2>5. \A r \in mem.pending : ~IsCompleted(mem, r) /\ ~IsFailed(mem, r)
    BY <2>1 DEF RecordIsConsistent
  <2> QED BY <1>0, <2>3, <2>4, <2>5
          DEF JobsUnsettled, IsCompleted, IsFailed, ResumeRepositories, NewRepos,
              GetRemainingRepositories
<1>6. ASSUME NEW r \in Repos,
             SubmitJob(r) \/ TakeJob(r) \/ JobSucceeds(r) \/ JobFails(r)
      PROVE  JobsUnsettled'
  BY <1>0, <1>6, MoveLemma DEF JobsUnsettled
<1>7. ASSUME NEW r \in Repos, TrackResult(r)
      PROVE  JobsUnsettled'
  <2>1. Jobs' = Jobs \ {r} /\ Jobs \subseteq Repos /\ mem \in CloneStates
    BY <1>7, ResultLemma, TrackLemma DEF Jobs, Answered, TypeOK
  <2>2. \A x \in Repos \ {r} : mem'.completed[x] = mem.completed[x]
                                  /\ mem'.failed[x] = mem.failed[x]
    BY <1>7, TrackOthers
  <2> QED BY <1>0, <2>1, <2>2 DEF JobsUnsettled, IsCompleted, IsFailed
<1>8. CASE OpenResume \/ OpenResumeNothing \/ OpenFresh \/ OpenFreshOverOld
  <2>1. Jobs' = {}
    BY <1>8, QuietLemma DEF OpenResume, OpenResumeNothing, OpenFresh, OpenFreshOverOld,
       PhaseInv, BeforeJobs, Jobs
  <2> QED BY <2>1 DEF JobsUnsettled
<1>9. CASE TrackCancelled \/ TrackEnds
  <2>1. mem'.completed = mem.completed /\ mem'.failed = mem.failed
    BY <1>9, RecordThere, StatusLemma DEF TrackCancelled, TrackEnds, Tracking, Statuses
  <2> QED BY <1>0, <1>9, <2>1, QuietLemma DEF JobsUnsettled, IsCompleted, IsFailed
<1>10. CASE \/ Interrupt \/ OrgGrows \/ UNCHANGED vars
            \/ SaveBegin \/ ((SaveEnd \/ SaveFails) /\ ~\E h : Return(h))
            \/ CreateJobs \/ AllSubmitted \/ TickSave \/ TickProgress
  <2>1. mem' = mem
    BY <1>10 DEF Interrupt, OrgGrows, vars, SaveBegin, SaveEnd, SaveFails, AfterSave,
                 CreateJobs, AllSubmitted, TickSave, TickProgress
  <2>2. Jobs' = Jobs
    BY <1>10, QuietLemma
  <2> QED BY <1>0, <2>1, <2>2 DEF JobsUnsettled
<1> QED BY <1>1, <1>2, <1>3, <1>4, <1>5, <1>6, <1>7, <1>8, <1>9, <1>10, StepKinds

\* Every step keeps what is said of the records.
LEMMA RecordStep ==
    ASSUME TypeOK, PhaseInv, JobsInv, RecordInv, RecordIsConsistent, [Next]_vars
    PROVE  RecordInv' /\ RecordIsConsistent'
<1>1. \A s \in Records' : RecordOK(s)'
  BY ConsistentStep
<1>2. RecordIsConsistent' /\ \A s \in Records' : s.pending \subseteq org'
  BY <1>1 DEF RecordIsConsistent, RecordOK, PendingIsUnsettled, TotalIsSum, SettledOnce,
              IsCompleted, IsFailed
<1>3. JobsUnsettled'
  BY UnsettledStep
<1>4. Tracked' /\ mem'.status = "completed" => mem'.pending = {}
  <2>1. CASE TrackEnds
    <3>1. /\ mem' = MarkStatus(mem, IF mem.pending = {} THEN "completed" ELSE "failed")
          /\ mem \in CloneStates
      BY <2>1, RecordThere DEF TrackEnds, GetRemainingRepositories
    <3>2. /\ mem'.pending = mem.pending
          /\ mem'.status = IF mem.pending = {} THEN "completed" ELSE "failed"
      BY <3>1, StatusLemma DEF Statuses
    <3> QED BY <3>2
  <2>2. CASE Tracked /\ mem' = mem
    BY <2>2 DEF RecordInv
  <2>3. Tracked' => TrackEnds \/ (Tracked /\ mem' = mem)
    <3> USE DEF Tracked, Saving
    <3>1. CASE \E h : Return(h)
      BY <3>1 DEF Return
    <3>2. CASE Begin
      BY <3>2 DEF Begin
    <3>3. CASE ListEmptyGithub \/ ListFresh \/ ListResume
      BY <3>3, ProcessLemma
    <3>4. CASE \E r \in Repos : TrackResult(r)
      BY <3>4, TrackLemma, ResultLemma
    <3>5. CASE \E r \in Repos : SubmitJob(r) \/ TakeJob(r) \/ JobSucceeds(r) \/ JobFails(r)
      BY <3>5, MoveLemma
    <3>6. CASE \/ Interrupt \/ OrgGrows \/ UNCHANGED vars
               \/ OpenResume \/ OpenResumeNothing \/ OpenFresh \/ OpenFreshOverOld
      BY <3>6 DEF Interrupt, OrgGrows, vars, OpenResume, OpenResumeNothing, OpenFresh,
                  OpenFreshOverOld, StartWith
    <3>7. CASE \/ SaveBegin \/ ((SaveEnd \/ SaveFails) /\ ~\E h : Return(h))
               \/ CreateJobs \/ AllSubmitted
      BY <3>7 DEF SaveBegin, SaveEnd, SaveFails, AfterSave, CreateJobs, AllSubmitted
    <3>8. CASE TickSave \/ TickProgress \/ TrackCancelled
      BY <3>8 DEF TickSave, TickProgress, TrackCancelled, Tracking
    <3> QED BY <3>1, <3>2, <3>3, <3>4, <3>5, <3>6, <3>7, <3>8, StepKinds
  <2> QED BY <2>1, <2>2, <2>3
<1> QED BY <1>2, <1>3, <1>4 DEF RecordInv, JobsUnsettled

(***************************************************************************)
(* The directories.                                                        *)
(***************************************************************************)
\* A repository that a record calls completed was called so by a record before,
\* or its success has just been read.
LEMMA NewCompletion ==
    ASSUME TypeOK, PhaseInv, [Next]_vars, NEW s \in Records', NEW x \in Repos,
           IsCompleted(s, x)
    PROVE  \/ \E t \in Records : IsCompleted(t, x)
           \/ answers[x] = "ok" /\ TrackResult(x)
<1> SUFFICES ASSUME s = mem', mem' # mem, mem' # NoState
             PROVE  \/ \E t \in Records : IsCompleted(t, x)
                    \/ answers[x] = "ok" /\ TrackResult(x)
  BY RecordsStep
<1> USE RecordsType
<1>1. CASE Readable(file) /\ mem' = file.state
  BY <1>1
<1>2. CASE mem' = NewCloneState(target)
  BY <1>2, NewStateLemma DEF TypeOK
<1>3. CASE /\ mem = NewCloneState(target) /\ mem \in CloneStates
           /\ mem' = SetPendingRepositories(mem, org)
  <2>1. IsCompleted(mem, x) <=> IsCompleted(mem', x)
    BY <1>3, PendingLemma DEF TypeOK, IsCompleted
  <2> QED BY <1>3, <2>1
<1>4. ASSUME mem \in CloneStates, NEW z \in Statuses, mem' = MarkStatus(mem, z)
      PROVE  \E t \in Records : IsCompleted(t, x)
  <2>1. IsCompleted(mem, x) <=> IsCompleted(mem', x)
    BY <1>4, StatusLemma DEF IsCompleted
  <2> QED BY <1>4, <2>1
<1>5. ASSUME NEW r \in Repos, TrackResult(r)
      PROVE  \/ \E t \in Records : IsCompleted(t, x)
             \/ answers[x] = "ok" /\ TrackResult(x)
  <2>1. mem \in Records
    BY <1>5, TrackLemma
  <2>2. CASE x # r \/ answers[r] # "ok"
    <3>1. IsCompleted(mem, x) <=> IsCompleted(mem', x)
      BY <1>5, <2>2, TrackOthers DEF IsCompleted
    <3> QED BY <2>1, <3>1
  <2>3. CASE x = r /\ answers[r] = "ok"
    BY <1>5, <2>3
  <2> QED BY <2>2, <2>3
<1> QED BY <1>1, <1>2, <1>3, <1>4, <1>5, MemStep

\* With reset, nothing that a record calls completed is damaged: what a step does
\* to the directory of such a repository leaves it a complete clone.
LEMMA DiskKept ==
    ASSUME TypeOK, PhaseInv, JobsInv, DiskInv, CompletedIsOnDisk, Strategy = "reset",
           [Next]_vars, NEW x \in Repos, NEW t \in Records, IsCompleted(t, x)
    PROVE  disk'[x] = "cloned"
<1>0. disk[x] = "cloned"
  BY DEF CompletedIsOnDisk
<1>1. x \in queue \union working => op[x] # "clone"
  BY DEF DiskInv
<1>2. CASE \E h : Return(h)
  <2>1. disk'[x] \in LeftBehind(x)
    BY <1>2 DEF Return, PoolStops
  <2>2. LeftBehind(x) = {"cloned"}
    <3>1. CASE x \in working
      BY <1>0, <1>1, <3>1 DEF LeftBehind, CutOff, UpdateResult
    <3>2. CASE x \notin working
      BY <1>0, <1>1, <3>2 DEF LeftBehind
    <3> QED BY <3>1, <3>2
  <2> QED BY <2>1, <2>2
<1>3. CASE Begin
  BY <1>0, <1>3 DEF Begin
<1>4. CASE ListEmptyGithub \/ ListFresh \/ ListResume
  BY <1>0, <1>4 DEF ListEmptyGithub, ListFresh, ListResume, Process
<1>5. ASSUME NEW r \in Repos, TakeJob(r)
      PROVE  disk'[x] = "cloned"
  BY <1>0, <1>1, <1>5 DEF TakeJob, TypeOK
<1>6. ASSUME NEW r \in Repos, JobSucceeds(r)
      PROVE  disk'[x] = "cloned"
  BY <1>0, <1>6 DEF JobSucceeds, TypeOK, UpdateResult
<1>7. ASSUME NEW r \in Repos, JobFails(r)
      PROVE  disk'[x] = "cloned"
  <2>1. r \in working /\ \E d \in CutOff(r) : disk' = [disk EXCEPT ![r] = d]
    BY <1>7 DEF JobFails
  <2>2. CASE x # r
    BY <1>0, <2>1, <2>2 DEF TypeOK
  <2>3. CASE x = r
    <3>1. CutOff(r) = {"cloned"}
      BY <1>0, <1>1, <2>1, <2>3 DEF CutOff, UpdateResult
    <3> QED BY <2>1, <2>3, <3>1 DEF TypeOK
  <2> QED BY <2>2, <2>3
<1>8. ASSUME NEW r \in Repos, SubmitJob(r) \/ TrackResult(r)
      PROVE  disk'[x] = "cloned"
  BY <1>0, <1>8 DEF SubmitJob, TrackResult
<1> QED
  BY <1>0, <1>2, <1>3, <1>4, <1>5, <1>6, <1>7, <1>8, StepKinds, QuietLemma DEF Quiet

\* A job that clones is not for a repository that a record calls completed.
CloneJobs == queue \union working \union (IF BeforeJobs THEN {} ELSE todo)

\* The jobs that clone were created so, and where they were created the directory
\* was no complete clone.
LEMMA CloneJobsStep ==
    ASSUME TypeOK, PhaseInv, JobsInv, [Next]_vars,
           NEW r \in CloneJobs', op'[r] = "clone"
    PROVE  \/ r \in CloneJobs /\ op[r] = "clone" /\ ~TrackResult(r)
           \/ CreateJobs /\ r \in todo /\ OperationFor(disk[r]) = "clone"
<1>1. CASE \E h : Return(h)
  <2>1. queue' = {} /\ working' = {} /\ BeforeJobs'
    BY <1>1, ReturnPhase DEF Return, PoolStops
  <2> QED BY <2>1 DEF CloneJobs
<1>2. CASE Begin
  <2>1. queue' = {} /\ working' = {} /\ BeforeJobs'
    BY <1>2 DEF Begin, PhaseInv, BeforeJobs, poolVars
  <2> QED BY <2>1 DEF CloneJobs
<1>3. CASE ListEmptyGithub \/ ListFresh \/ ListResume
  <2>1. queue' = {} /\ working' = {} /\ BeforeJobs'
    BY <1>3 DEF ListEmptyGithub, ListFresh, ListResume, Process, PhaseInv,
       BeforeJobs, Saving, poolVars
  <2> QED BY <2>1 DEF CloneJobs
<1>4. ASSUME NEW x \in Repos,
             SubmitJob(x) \/ TakeJob(x) \/ JobSucceeds(x) \/ JobFails(x)
      PROVE  r \in CloneJobs /\ op[r] = "clone" /\ ~TrackResult(r)
  <2>1. ~BeforeJobs /\ ~BeforeJobs' /\ op' = op
    BY <1>4, MoveLemma
  <2>2. /\ queue' \union working' \union todo' \subseteq queue \union working \union todo
    BY <1>4 DEF SubmitJob, TakeJob, JobSucceeds, JobFails, Answer
  <2>3. r \in queue \union working \union todo
    BY <2>1, <2>2 DEF CloneJobs
  <2>4. r \notin Answered
    BY <2>3 DEF JobsInv
  <2> QED BY <2>1, <2>3, <2>4 DEF CloneJobs, TrackResult, Answered, JobsInv, TypeOK
<1>5. ASSUME NEW x \in Repos, TrackResult(x)
      PROVE  r \in CloneJobs /\ op[r] = "clone" /\ ~TrackResult(r)
  <2>1. /\ queue' = queue /\ working' = working /\ todo' = todo /\ op' = op
        /\ ~BeforeJobs /\ ~BeforeJobs'
    BY <1>5, ResultLemma
  <2>2. r \in queue \union working \union todo
    BY <2>1 DEF CloneJobs
  <2>3. r \notin Answered
    BY <2>2 DEF JobsInv
  <2> QED BY <2>1, <2>2, <2>3 DEF CloneJobs, TrackResult, Answered, TypeOK
<1>6. CASE CreateJobs
  <2>1. queue' = {} /\ working' = {} /\ todo' = todo
    BY <1>6 DEF CreateJobs, PhaseInv, BeforeJobs
  <2>2. r \in todo
    BY <2>1 DEF CloneJobs
  <2>3. OperationFor(disk[r]) = "clone"
    BY <1>6, <2>2 DEF CreateJobs, TypeOK
  <2> QED BY <1>6, <2>2, <2>3
<1>7. CASE \/ Interrupt \/ OrgGrows \/ UNCHANGED vars
           \/ OpenResume \/ OpenResumeNothing \/ OpenFresh \/ OpenFreshOverOld
           \/ SaveBegin \/ ((SaveEnd \/ SaveFails) /\ ~\E h : Return(h))
           \/ AllSubmitted
           \/ TickSave \/ TickProgress \/ TrackCancelled \/ TrackEnds
  <2>1. queue' = queue /\ working' = working /\ todo' = todo /\ op' = op
    BY <1>7 DEF Interrupt, OrgGrows, vars, OpenResume, OpenResumeNothing, OpenFresh,
       OpenFreshOverOld, StartWith, SaveBegin, SaveEnd, SaveFails, AfterSave,
       AllSubmitted, TickSave, TickProgress, TrackCancelled, TrackEnds, poolVars
  <2>2. BeforeJobs => BeforeJobs' \/ todo = {}
    BY <1>7 DEF Interrupt, OrgGrows, vars, OpenResume, OpenResumeNothing, OpenFresh,
       OpenFreshOverOld, StartWith, SaveBegin, SaveEnd, SaveFails, AfterSave,
       AllSubmitted, TickSave, TickProgress, TrackCancelled, TrackEnds, Tracking,
       BeforeJobs, Saving, PhaseInv
  <2>3. ~TrackResult(r)
    <3>1. r \in queue \union working \union todo
      BY <2>1 DEF CloneJobs
    <3>2. r \notin Answered
      BY <3>1 DEF JobsInv
    <3> QED BY <3>1, <3>2 DEF TrackResult, Answered, TypeOK
  <2> QED BY <2>1, <2>2, <2>3 DEF CloneJobs
<1> QED BY <1>1, <1>2, <1>3, <1>4, <1>5, <1>6, <1>7, StepKinds

\* Every step keeps what is said of the directories.
LEMMA DiskStep ==
    ASSUME TypeOK, PhaseInv, JobsInv, DiskInv, CompletedIsOnDisk, [Next]_vars
    PROVE  DiskInv' /\ CompletedIsOnDisk'
<1> SUFFICES ASSUME Strategy = "reset"
             PROVE  DiskInv' /\ CompletedIsOnDisk'
  BY DEF DiskInv, CompletedIsOnDisk
<1>1. ASSUME NEW s \in Records', NEW x \in Repos, IsCompleted(s, x)
      PROVE  disk'[x] = "cloned"
  <2>1. CASE \E t \in Records : IsCompleted(t, x)
    BY <2>1, DiskKept
  <2>2. CASE answers[x] = "ok" /\ TrackResult(x)
    BY <2>2, ResultLemma DEF DiskInv
  <2> QED BY <1>1, <2>1, <2>2, NewCompletion
<1>2. ASSUME NEW r \in CloneJobs', op'[r] = "clone", NEW s \in Records'
      PROVE  ~IsCompleted(s, r)
  <2>0. r \in Repos
    BY TypeStep DEF CloneJobs, TypeOK
  <2>1. ~\E t \in Records : IsCompleted(t, r)
    <3>1. CASE r \in CloneJobs /\ op[r] = "clone"
      BY <3>1 DEF CloneJobs, DiskInv
    <3>2. CASE r \in todo /\ OperationFor(disk[r]) = "clone"
      <4>1. disk[r] # "cloned"
        BY <3>2 DEF OperationFor, Existing
      <4> QED BY <2>0, <4>1 DEF CompletedIsOnDisk
    <3> QED BY <1>2, <3>1, <3>2, CloneJobsStep
  <2>2. ~TrackResult(r)
    <3>1. CASE r \in CloneJobs /\ op[r] = "clone" /\ ~TrackResult(r)
      BY <3>1
    <3>2. CASE CreateJobs /\ r \in todo
      <4>1. r \notin Answered
        BY <3>2 DEF JobsInv
      <4> QED BY <2>0, <4>1 DEF TrackResult, Answered
    <3> QED BY <1>2, <3>1, <3>2, CloneJobsStep
  <2> QED BY <1>2, <2>0, <2>1, <2>2, NewCompletion
<1>3. ASSUME NEW x \in Repos, answers'[x] = "ok"
      PROVE  disk'[x] = "cloned"
  <2>1. CASE \E h : Return(h)
    <3>1. answers'[x] = "none"
      BY <2>1 DEF Return, PoolStops
    <3> QED BY <1>3, <3>1
  <2>2. CASE Begin
    BY <1>3, <2>2 DEF Begin, poolVars, DiskInv
  <2>3. CASE ListEmptyGithub \/ ListFresh \/ ListResume
    BY <1>3, <2>3 DEF ListEmptyGithub, ListFresh, ListResume, Process, poolVars, DiskInv
  <2>4. ASSUME NEW r \in Repos, SubmitJob(r)
        PROVE  disk'[x] = "cloned"
    BY <1>3, <2>4 DEF SubmitJob, DiskInv
  <2>5. ASSUME NEW r \in Repos, TakeJob(r)
        PROVE  disk'[x] = "cloned"
    <3>1. answers' = answers /\ r \in queue
      BY <2>5 DEF TakeJob
    <3>2. x # r
      BY <1>3, <3>1 DEF JobsInv, Answered
    <3> QED BY <1>3, <2>5, <3>1, <3>2 DEF TakeJob, DiskInv, TypeOK
  <2>6. ASSUME NEW r \in Repos, JobSucceeds(r)
        PROVE  disk'[x] = "cloned"
    <3>1. CASE x = r
      BY <2>6, <3>1 DEF JobSucceeds, UpdateResult, TypeOK
    <3>2. CASE x # r
      <4>1. answers'[x] = answers[x] /\ disk'[x] = disk[x]
        BY <2>6, <3>2 DEF JobSucceeds, Answer, TypeOK
      <4> QED BY <1>3, <4>1 DEF DiskInv
    <3> QED BY <3>1, <3>2
  <2>7. ASSUME NEW r \in Repos, JobFails(r)
        PROVE  disk'[x] = "cloned"
    <3>1. answers' = [answers EXCEPT ![r] = "error"]
      BY <2>7 DEF JobFails, Answer
    <3>2. x # r
      BY <1>3, <3>1 DEF TypeOK
    <3>3. answers'[x] = answers[x] /\ disk'[x] = disk[x]
      BY <2>7, <3>1, <3>2 DEF JobFails, TypeOK
    <3> QED BY <1>3, <3>3 DEF DiskInv
  <2>8. ASSUME NEW r \in Repos, TrackResult(r)
        PROVE  disk'[x] = "cloned"
    BY <1>3, <2>8 DEF TrackResult, DiskInv, TypeOK
  <2>9. CASE Quiet
    BY <1>3, <2>9 DEF Quiet, DiskInv
  <2> QED
    BY <2>1, <2>2, <2>3, <2>4, <2>5, <2>6, <2>7, <2>8, <2>9, StepKinds, QuietLemma
<1> QED BY <1>1, <1>2, <1>3 DEF DiskInv, CompletedIsOnDisk, CloneJobs

(***************************************************************************)
(* What the tracking loop has still to hear of.                            *)
(***************************************************************************)
\* Every step keeps the count of the tracking loop right.
LEMMA CountStep ==
    ASSUME TypeOK, PhaseInv, JobsInv, RecordInv, CountInv, [Next]_vars
    PROVE  CountInv'
<1>0. Jobs \subseteq Repos /\ provider' = provider
  BY UserStep DEF Jobs, Answered, TypeOK
<1>1. CASE \E h : Return(h)
  <2>1. BeforeJobs' /\ pc' = "idle"
    BY <1>1, ReturnPhase DEF Return
  <2> QED BY <2>1 DEF CountInv
<1>2. CASE Begin
  BY <1>2 DEF Begin, CountInv, BeforeJobs
<1>3. CASE ListEmptyGithub \/ ListFresh \/ ListResume
  <2>1. BeforeJobs' /\ attempted' = Jobs'
    BY <1>3, ProcessLemma DEF BeforeJobs, Saving
  <2> QED BY <2>1 DEF CountInv
<1>4. ASSUME NEW r \in Repos,
             SubmitJob(r) \/ TakeJob(r) \/ JobSucceeds(r) \/ JobFails(r)
      PROVE  CountInv'
  <2>1. UNCHANGED <<provider, Jobs, left, pc, attempted, failures, mem>> /\ ~BeforeJobs
    BY <1>4, MoveLemma
  <2> QED BY <2>1 DEF CountInv
<1>5. ASSUME NEW r \in Repos, TrackResult(r)
      PROVE  CountInv'
  <2>1. /\ Jobs' = Jobs \ {r} /\ r \in Jobs /\ ~BeforeJobs /\ left' = left - 1
        /\ pc' = pc /\ attempted' = attempted /\ pc = "track"
    BY <1>5, ResultLemma, TrackLemma
  <2>2. IsFiniteSet(Jobs)
    BY <1>0, CloneAssumption, FS_Subset
  <2>3. Cardinality(Jobs \ {r}) = Cardinality(Jobs) - 1
    BY <2>1, <2>2, FS_RemoveElement
  <2>4. \A x \in attempted' \ (Jobs' \union failures') : IsCompleted(mem', x)
    <3> SUFFICES ASSUME NEW x \in attempted, x \notin Jobs', x \notin failures'
                 PROVE  IsCompleted(mem', x)
      BY <2>1
    <3>1. x \in Repos /\ failures \subseteq failures'
      BY <1>5, TrackOthers DEF TypeOK
    <3>2. CASE x = r
      <4>1. answers[r] = "ok"
        BY <1>5, <3>2, TrackOthers
      <4> QED BY <1>5, <3>2, <4>1, TrackOthers DEF IsCompleted
    <3>3. CASE x # r
      <4>1. IsCompleted(mem, x)
        BY <2>1, <3>1, <3>3 DEF CountInv
      <4> QED BY <1>5, <3>1, <3>3, <4>1, TrackOthers DEF IsCompleted
    <3> QED BY <3>2, <3>3
  <2> QED BY <1>0, <2>1, <2>3, <2>4 DEF CountInv
<1>6. CASE CreateJobs
  <2>1. /\ left' = Cardinality(todo) /\ Jobs = todo /\ pc = "create"
        /\ UNCHANGED <<mem, attempted, failures>>
    BY <1>6 DEF CreateJobs, PhaseInv, BeforeJobs, Jobs, histVars
  <2>2. Jobs' = Jobs
    BY <1>6, QuietLemma
  <2> QED BY <2>1, <2>2 DEF CountInv
<1>7. CASE OpenResume \/ OpenResumeNothing \/ OpenFresh \/ OpenFreshOverOld
  <2>1. attempted' = {} /\ BeforeJobs'
    BY <1>7 DEF OpenResume, OpenResumeNothing, OpenFresh, OpenFreshOverOld, StartWith,
                histVars, PhaseInv, BeforeJobs
  <2> QED BY <2>1 DEF CountInv
<1>8. CASE TickSave \/ TickProgress \/ TrackCancelled \/ TrackEnds
  <2>1. /\ pc = "track" /\ ~BeforeJobs
        /\ provider = "github" => left' = left
    BY <1>8 DEF TickSave, TickProgress, TrackCancelled, TrackEnds, Tracking,
                LeftAfterTick, BeforeJobs, Saving
  <2>2. mem'.completed = mem.completed
    BY <1>8, RecordThere, StatusLemma DEF TickSave, TickProgress, TrackCancelled,
       TrackEnds, Tracking, Statuses
  <2>3. Jobs' = Jobs /\ failures' = failures /\ attempted' = attempted
    BY <1>8, QuietLemma DEF Quiet
  <2> QED BY <1>0, <2>1, <2>2, <2>3 DEF CountInv, IsCompleted
<1>9. CASE \/ Interrupt \/ OrgGrows \/ UNCHANGED vars
           \/ SaveBegin \/ ((SaveEnd \/ SaveFails) /\ ~\E h : Return(h))
           \/ AllSubmitted
  <2>1. /\ left' = left /\ mem' = mem
        /\ pc' \in {"idle", "open"} => pc \in {"idle", "open"}
        /\ BeforeJobs => BeforeJobs'
    BY <1>9 DEF Interrupt, OrgGrows, vars, SaveBegin, SaveEnd, SaveFails, AfterSave,
                AllSubmitted, BeforeJobs, Saving, TypeOK, Afters
  <2>2. pc \in {"idle", "open"} => pc' \in {"idle", "open"}
    BY <1>9 DEF Interrupt, OrgGrows, vars, SaveBegin, SaveEnd, SaveFails, AfterSave,
                AllSubmitted
  <2>3. Jobs' = Jobs /\ failures' = failures /\ attempted' = attempted
    BY <1>9, QuietLemma DEF Quiet
  <2> QED BY <1>0, <2>1, <2>2, <2>3 DEF CountInv
<1> QED
  BY <1>1, <1>2, <1>3, <1>4, <1>5, <1>6, <1>7, <1>8, <1>9, StepKinds

(***************************************************************************)
(* What --resume would find.                                               *)
(***************************************************************************)
\* Every step keeps what --resume would find.
LEMMA ResumeStep ==
    ASSUME TypeOK, PhaseInv, JobsInv, RecordInv, ResumeInv, [Next]_vars
    PROVE  ResumeInv'
<1> USE DEF ResumeRepositories, NewRepos, GetRemainingRepositories
<1>0. provider' = provider /\ org \subseteq org'
  BY UserStep
<1>a. SUFFICES ASSUME provider = "gitlab"
             PROVE  ResumeInv'
  BY <1>0 DEF ResumeInv
<1>1. CASE \E h : Return(h)
  BY <1>1 DEF Return, ResumeInv, SavedOnce, Submitted, Saving
<1>2. CASE Begin
  BY <1>2 DEF Begin, ResumeInv, SavedOnce, Submitted, Saving
<1>3. CASE ListEmptyGithub \/ ListFresh \/ ListResume
  <2>1. /\ Jobs' = todo' /\ failures' = {} /\ ~SavedOnce' /\ org' = org
        /\ provider' = provider
    BY <1>3, ProcessLemma DEF SavedOnce, Submitted, Saving
  <2>2. CASE ListFresh
    <3>1. todo' = org
      BY <2>2 DEF ListFresh, Process
    <3>2. mem'.pending = org
      <4>1. mem \in CloneStates /\ org \in SUBSET Repos
        BY <2>2, RecordThere DEF ListFresh, TypeOK
      <4>2. /\ SetPendingRepositories(mem, org) \in CloneStates
            /\ SetPendingRepositories(mem, org).pending = org
        BY <4>1, PendingLemma
      <4> QED BY <2>2, <4>2, StatusLemma DEF ListFresh, Process, Statuses
    <3> QED BY <2>1, <3>1, <3>2 DEF ResumeInv
  <2>3. CASE ListResume
    <3>1. todo' = ResumeRepositories(mem)
      BY <2>3 DEF ListResume, Process
    <3>2. /\ mem'.pending = mem.pending /\ mem'.completed = mem.completed
          /\ mem'.failed = mem.failed
      BY <2>3, RecordThere, StatusLemma DEF ListResume, Process, Statuses
    <3> QED BY <2>1, <3>1, <3>2 DEF ResumeInv, IsCompleted, IsFailed
  <2> QED BY <1>3, <1>a, <2>2, <2>3 DEF ListEmptyGithub
<1>4. ASSUME NEW r \in Repos,
             SubmitJob(r) \/ TakeJob(r) \/ JobSucceeds(r) \/ JobFails(r)
      PROVE  ResumeInv'
  <2>1. UNCHANGED <<provider, org, Jobs, failures, mem, file, pc, after>>
    BY <1>4, MoveLemma
  <2> QED BY <2>1 DEF ResumeInv, SavedOnce, Submitted, Saving
<1>5. ASSUME NEW r \in Repos, TrackResult(r)
      PROVE  ResumeInv'
  <2>1. /\ Jobs' = Jobs \ {r} /\ r \in Jobs /\ failures' \subseteq failures \union {r}
        /\ UNCHANGED <<provider, org, file, pc, after>> /\ pc = "track"
    BY <1>5, ResultLemma, TrackLemma
  <2>2. ASSUME NEW x \in Jobs' \union failures'
        PROVE  x \in ResumeRepositories(mem')
    <3>1. x \in Repos /\ x \in org /\ r \notin failures
      BY <2>1, <2>2 DEF JobsInv, TypeOK
    <3>2. CASE x = r
      <4>1. answers[r] # "ok"
        BY <1>5, <2>1, <2>2, <3>1, <3>2, TrackOthers
      <4>2. IsFailed(mem', r)
        BY <1>5, <4>1, TrackOthers DEF IsFailed
      <4> QED BY <1>a, <3>1, <3>2, <4>2
    <3>3. CASE x # r
      <4>1. x \in ResumeRepositories(mem)
        BY <1>a, <2>1, <2>2, <3>3 DEF ResumeInv
      <4>2. /\ mem'.completed[x] = mem.completed[x] /\ mem'.failed[x] = mem.failed[x]
            /\ x \in mem.pending => x \in mem'.pending
        BY <1>5, <3>1, <3>3, TrackOthers
      <4> QED BY <4>1, <4>2 DEF IsCompleted, IsFailed
    <3> QED BY <3>2, <3>3
  <2>3. Jobs' \union failures' \subseteq Jobs \union failures
    BY <2>1
  <2>4. Jobs' \union failures' \subseteq ResumeRepositories(mem)'
    BY <2>1, <2>2 DEF IsCompleted, IsFailed
  <2>5. SavedOnce /\ file # NoFile
    BY <1>a, <2>1 DEF ResumeInv, SavedOnce, Submitted
  <2>6. Readable(file') => Jobs' \union failures' \subseteq ResumeRepositories(file.state)'
    <3>1. Readable(file) => Jobs \union failures \subseteq ResumeRepositories(file.state)
      BY <1>a, <2>5 DEF ResumeInv
    <3> QED BY <2>1, <2>3, <3>1 DEF IsCompleted, IsFailed
  <2> QED BY <2>1, <2>4, <2>5, <2>6 DEF ResumeInv
<1>6. CASE OpenResume \/ OpenResumeNothing \/ OpenFresh \/ OpenFreshOverOld
  <2>1. Jobs' = {} /\ failures' = {}
    BY <1>6, QuietLemma DEF OpenResume, OpenResumeNothing, OpenFresh, OpenFreshOverOld,
       PhaseInv, BeforeJobs, Jobs, Quiet
  <2>2. ~SavedOnce'
    BY <1>6 DEF OpenResume, OpenResumeNothing, OpenFresh, OpenFreshOverOld, StartWith,
                SavedOnce, Submitted, Saving
  <2> QED BY <2>1, <2>2 DEF ResumeInv
<1>7. CASE TickSave \/ TickProgress \/ TrackCancelled \/ TrackEnds
  <2>1. pc = "track" /\ file' = file
    BY <1>7 DEF TickSave, TickProgress, TrackCancelled, TrackEnds, Tracking
  <2>2. /\ mem'.completed = mem.completed /\ mem'.pending = mem.pending
        /\ mem'.failed = mem.failed
    BY <1>7, RecordThere, StatusLemma DEF TickSave, TickProgress, TrackCancelled,
       TrackEnds, Tracking, Statuses
  <2>3. Jobs' = Jobs /\ failures' = failures
    BY <1>7, QuietLemma DEF Quiet
  <2>4. org' = org
    BY <1>7 DEF TickSave, TickProgress, TrackCancelled, TrackEnds, userVars
  <2>5. Jobs \union failures \subseteq ResumeRepositories(mem')
    BY <1>a, <2>1, <2>2 DEF ResumeInv, IsCompleted, IsFailed
  <2>6. /\ file # NoFile
        /\ Readable(file) => Jobs \union failures \subseteq ResumeRepositories(file.state)
    BY <1>a, <2>1 DEF ResumeInv, SavedOnce, Submitted
  <2> QED BY <1>0, <2>1, <2>3, <2>4, <2>5, <2>6 DEF ResumeInv
<1>8. CASE Interrupt \/ OrgGrows \/ UNCHANGED vars \/ CreateJobs \/ AllSubmitted
  <2>1. /\ file' = file /\ mem' = mem /\ Jobs' = Jobs /\ failures' = failures
        /\ pc' \notin {"idle", "open"} => pc \notin {"idle", "open"}
        /\ SavedOnce' => SavedOnce
    BY <1>8, QuietLemma DEF Interrupt, OrgGrows, vars, CreateJobs, AllSubmitted, Quiet,
       SavedOnce, Submitted, Saving
  <2>2. \A s : ResumeRepositories(s) \subseteq ResumeRepositories(s)'
    BY <1>0 DEF IsCompleted, IsFailed
  <2> QED BY <1>a, <2>1, <2>2 DEF ResumeInv
<1>9. CASE SaveBegin \/ ((SaveEnd \/ SaveFails) /\ ~\E h : Return(h))
  <2>1. /\ mem' = mem /\ Jobs' = Jobs /\ failures' = failures /\ org' = org
        /\ Saving
    BY <1>9, QuietLemma DEF SaveBegin, SaveEnd, SaveFails, AfterSave, Quiet, Saving,
       userVars
  <2>2. Jobs \union failures \subseteq ResumeRepositories(mem)
    BY <1>a, <2>1 DEF ResumeInv, Saving
  <2>3. CASE file' \in {Torn, Saved(mem)}
    BY <1>0, <2>1, <2>2, <2>3, Apart DEF ResumeInv
  <2>4. CASE SaveFails /\ ~\E h : Return(h)
    <3>1. SavedOnce /\ file' = file
      BY <2>4 DEF SaveFails, AfterSave, SavedOnce, Submitted, Saving, TypeOK, Afters
    <3> QED BY <1>0, <1>a, <2>1, <2>2, <3>1 DEF ResumeInv
  <2> QED BY <1>9, <2>3, <2>4 DEF SaveBegin, SaveEnd
<1> QED
  BY <1>1, <1>2, <1>3, <1>4, <1>5, <1>6, <1>7, <1>8, <1>9, StepKinds

(***************************************************************************)
(* What a run says at its end.                                             *)
(***************************************************************************)
\* Between two runs nothing happens but that one begins or the organization grows.
LEMMA IdleStep ==
    ASSUME PhaseInv, [Next]_vars, pc = "idle"
    PROVE  Begin \/ OrgGrows \/ UNCHANGED vars
<1>1. todo = {} /\ queue = {} /\ working = {}
  BY DEF PhaseInv, BeforeJobs
<1> QED
  BY <1>1 DEF Next, Loop, Pool, Over, Interrupt, Crash, OpenResume, OpenResumeNothing,
     OpenFresh, OpenFreshOverOld, OpenRefused, ListFails, ListEmptyGitlab, ListEmptyGithub,
     ListFresh, ListResume, SaveBegin, SaveEnd, SaveFails, CreateJobs, AllSubmitted,
     TickSave, TickProgress, TrackCancelled, TrackEnds, FinishDelete, FinishKeep, SubmitJob,
     SubmitFails, TrackResult, Tracking, TakeJob, JobSucceeds, JobFails

\* Only the two ways to finish say that a run succeeded or failed.
LEMMA OutcomeChange ==
    ASSUME PhaseInv, [Next]_vars, pc # "idle", outcome' \in {"success", "failed"}
    PROVE  /\ FinishDelete \/ FinishKeep
           /\ Return(Ended)
<1>1. outcome = "none"
  BY DEF PhaseInv
<1>2. CASE Crash \/ OpenRefused \/ ListFails \/ ListEmptyGitlab \/ \E r \in Repos : SubmitFails(r)
  BY <1>2 DEF Crash, OpenRefused, Refuse, ListFails, ListEmptyGitlab, SubmitFails, Return
<1>3. CASE SaveBegin \/ SaveEnd \/ SaveFails
  BY <1>1, <1>3 DEF SaveBegin, SaveEnd, SaveFails, AfterSave, Return, histVars
<1>4. CASE FinishDelete \/ FinishKeep
  BY <1>4 DEF FinishDelete, FinishKeep
<1>5. CASE Begin
  BY <1>5 DEF Begin
<1>6. CASE ListEmptyGithub \/ ListFresh \/ ListResume
  BY <1>1, <1>6 DEF ListEmptyGithub, ListFresh, ListResume, Process
<1>7. CASE \E r \in Repos : \/ TrackResult(r) \/ SubmitJob(r) \/ TakeJob(r)
                            \/ JobSucceeds(r) \/ JobFails(r)
  BY <1>1, <1>7 DEF TrackResult, SubmitJob, TakeJob, JobSucceeds, JobFails, Answer, histVars
<1>8. CASE \/ Interrupt \/ OrgGrows \/ UNCHANGED vars
           \/ OpenResume \/ OpenResumeNothing \/ OpenFresh \/ OpenFreshOverOld
           \/ CreateJobs \/ AllSubmitted
           \/ TickSave \/ TickProgress \/ TrackCancelled \/ TrackEnds
  BY <1>1, <1>8, QuietLemma
<1> QED
  BY <1>2, <1>3, <1>4, <1>5, <1>6, <1>7, <1>8 DEF Next, Loop, Pool, Over

\* What a run says at its end is true when it says so and until the next begins.
LEMMA OutcomeStep ==
    ASSUME TypeOK, PhaseInv, JobsInv, CountInv, RecordInv, DiskInv, CompletedIsOnDisk,
           ResumeInv, OutcomeIsTruthful, [Next]_vars
    PROVE  OutcomeIsTruthful'
<1>0. provider' = provider /\ org \subseteq org'
  BY UserStep
<1>1. CASE pc = "idle"
  <2>1. CASE Begin
    BY <2>1 DEF Begin, OutcomeIsTruthful, GithubSuccessMeansDone,
                GitlabFailuresCanBeResumed
  <2>2. CASE OrgGrows \/ UNCHANGED vars
    <3>1. /\ outcome' = outcome /\ disk' = disk /\ file' = file /\ attempted' = attempted
          /\ failures' = failures
      BY <2>2 DEF OrgGrows, vars, histVars
    <3>2. \A s : ResumeRepositories(s) \subseteq ResumeRepositories(s)'
      BY <1>0 DEF ResumeRepositories, NewRepos, GetRemainingRepositories, IsCompleted,
                  IsFailed
    <3>3. GithubSuccessMeansDone'
      BY <1>0, <3>1 DEF OutcomeIsTruthful, GithubSuccessMeansDone
    <3>4. GitlabFailuresCanBeResumed'
      BY <1>0, <3>1, <3>2 DEF OutcomeIsTruthful, GitlabFailuresCanBeResumed
    <3> QED BY <3>3, <3>4 DEF OutcomeIsTruthful
  <2> QED BY <1>1, <2>1, <2>2, IdleStep
<1>2. CASE pc # "idle" /\ outcome' \notin {"success", "failed"}
  BY <1>2 DEF OutcomeIsTruthful, GithubSuccessMeansDone, GitlabFailuresCanBeResumed
<1>3. CASE pc # "idle" /\ outcome' \in {"success", "failed"}
  <2>1. /\ FinishDelete \/ FinishKeep
        /\ Return(Ended) /\ pc = "finish"
    BY <1>3, OutcomeChange DEF FinishDelete, FinishKeep
  <2>2. /\ outcome' = Ended /\ attempted' = attempted /\ failures' = failures
        /\ org' = org
    BY <2>1 DEF Return, userVars
  <2>3. ASSUME provider = "github", outcome' = "success", Strategy = "reset",
               NEW r \in attempted
        PROVE  disk'[r] = "cloned"
    <3>1. failures = {}
      BY <2>2, <2>3 DEF Ended
    <3>2. Jobs = {}
      <4>1. left = 0 /\ ~BeforeJobs
        BY <2>1 DEF PhaseInv, Tracked, BeforeJobs, Saving
      <4>2. Cardinality(Jobs) = 0
        BY <2>3, <4>1 DEF CountInv
      <4>3. IsFiniteSet(Jobs)
        BY CloneAssumption, FS_Subset, Jobs \in SUBSET Repos
        DEF Jobs, Answered, TypeOK
      <4> QED BY <4>2, <4>3, FS_EmptySet
    <3>3. IsCompleted(mem, r)
      BY <2>1, <2>3, <3>1, <3>2 DEF CountInv
    <3>4. mem \in Records /\ r \in Repos
      BY <2>1, RecordThere, RecordsType DEF TypeOK
    <3> QED BY <2>3, <3>3, <3>4, DiskKept
  <2>4. ASSUME provider = "gitlab", outcome' = "failed"
        PROVE  /\ file' # NoFile
               /\ Readable(file') => failures' \subseteq ResumeRepositories(file.state)'
    <3>1. failures # {}
      BY <2>2, <2>4 DEF Ended
    <3>2. file' = file
      BY <2>1, <2>4, <3>1 DEF FinishDelete, FinishKeep
    <3>3. /\ file # NoFile
          /\ Readable(file) => failures \subseteq ResumeRepositories(file.state)
      BY <2>1, <2>4 DEF ResumeInv, SavedOnce, Submitted
    <3> QED BY <1>0, <2>2, <3>2, <3>3 DEF ResumeRepositories, NewRepos,
            GetRemainingRepositories, IsCompleted, IsFailed
  <2>5. GithubSuccessMeansDone'
    BY <1>0, <2>2, <2>3 DEF GithubSuccessMeansDone
  <2>6. GitlabFailuresCanBeResumed'
    BY <1>0, <2>2, <2>4 DEF GitlabFailuresCanBeResumed
  <2> QED BY <2>5, <2>6 DEF OutcomeIsTruthful
<1> QED BY <1>1, <1>2, <1>3

(***************************************************************************)
(* The file and the record in memory.                                      *)
(***************************************************************************)
\* Record f lags behind record m in a run that recorded the failures F.
Lags(f, m, F) ==
    /\ \A r \in Repos : f.completed[r] <= m.completed[r] /\ f.failed[r] <= m.failed[r]
    /\ \A r \in f.pending : \/ r \in m.pending
                            \/ IsCompleted(m, r)
                            \/ IsFailed(m, r) /\ r \in F

LagInv == SameTarget => Lags(file.state, mem, failures)

\* The lag is what the two invariants say together.
LEMMA LagLemma ==
    ASSUME TypeOK, PhaseInv
    PROVE  LagInv <=> FileLagsBehindMemory /\ PendingInv
BY DEF LagInv, Lags, SameTarget, FileLagsBehindMemory, PendingInv

\* Every step keeps the file behind the record.
LEMMA LagStep ==
    ASSUME TypeOK, PhaseInv, JobsInv, LagInv, [Next]_vars
    PROVE  LagInv'
<1> SUFFICES ASSUME SameTarget' PROVE Lags(file'.state, mem', failures')
  BY TypeStep, PhaseStep DEF LagInv, SameTarget, Lags, IsCompleted, IsFailed
<1>0. /\ mem' # NoState /\ Readable(file') /\ file'.state.target = mem'.target
      /\ mem' \in CloneStates /\ pc' \notin {"idle", "open"}
  BY TypeStep, PhaseStep DEF SameTarget, TypeOK, PhaseInv
<1> USE DEF Lags, IsCompleted, IsFailed
<1>1. CASE \E h : Return(h)
  BY <1>0, <1>1 DEF Return
<1>2. CASE Begin
  BY <1>0, <1>2 DEF Begin
<1>3. CASE OpenResume \/ OpenResumeNothing \/ OpenFresh \/ OpenFreshOverOld
  <2>1. OpenResume
    <3>1. OpenResumeNothing \/ OpenFresh \/ OpenFreshOverOld => mem' = NewCloneState(target)
      BY DEF OpenResumeNothing, OpenFresh, OpenFreshOverOld, StartWith
    <3>2. NewCloneState(target).target = target
      BY NewStateLemma DEF TypeOK
    <3> QED BY <1>0, <1>3, <3>1, <3>2, Apart DEF OpenResumeNothing, OpenFresh, OpenFreshOverOld
  <2>2. mem' = file'.state
    BY <2>1 DEF OpenResume, StartWith
  <2> QED BY <1>0, <2>2 DEF CloneStates
<1>4. CASE \/ ListEmptyGithub \/ ListFresh \/ ListResume
           \/ TrackCancelled \/ TrackEnds
  <2>1. /\ mem \in CloneStates /\ mem # NoState
        /\ file' = file /\ failures' = failures
    BY <1>4, RecordThere DEF ListEmptyGithub, ListFresh, ListResume, Process,
       TrackCancelled, TrackEnds, Tracking
  <2>2. /\ mem'.completed = mem.completed /\ mem'.failed = mem.failed
        /\ mem'.target = mem.target /\ mem.pending \subseteq mem'.pending
    <3>1. CASE ListFresh
      <4>1. mem = NewCloneState(target) /\ target \in Targets /\ org \in SUBSET Repos
        BY <3>1 DEF ListFresh, PhaseInv, TypeOK
      <4>2. LET t == SetPendingRepositories(mem, org)
            IN  /\ t \in CloneStates
                /\ t.completed = mem.completed /\ t.failed = mem.failed
                /\ t.target = mem.target
        BY <2>1, <4>1, PendingLemma
      <4>3. mem.pending = {}
        BY <4>1, NewStateLemma
      <4> QED BY <3>1, <4>2, <4>3, StatusLemma DEF ListFresh, Process, Statuses
    <3>2. CASE ListEmptyGithub \/ ListResume
      BY <2>1, <3>2, StatusLemma DEF ListEmptyGithub, ListResume, Process, Statuses
    <3>3. CASE TrackCancelled \/ TrackEnds
      BY <2>1, <3>3, StatusLemma DEF TrackCancelled, TrackEnds, Statuses
    <3> QED BY <1>4, <3>1, <3>2, <3>3
  <2>3. Lags(file.state, mem, failures)
    BY <1>0, <2>1, <2>2 DEF LagInv, SameTarget
  <2> QED BY <2>1, <2>2, <2>3
<1>5. ASSUME NEW r \in Repos, TrackResult(r)
      PROVE  Lags(file'.state, mem', failures')
  <2>1. /\ file' = file /\ mem \in CloneStates /\ mem # NoState
        /\ mem'.target = mem.target
    BY <1>5, ResultLemma, TrackLemma, Apart
  <2>2. Lags(file.state, mem, failures)
    BY <1>0, <2>1 DEF LagInv, SameTarget
  <2>3. file.state \in CloneStates
    BY <1>0, <2>1, Apart DEF TypeOK
  <2>4. \A x \in Repos : file.state.completed[x] \in Nat /\ file.state.failed[x] \in Nat
           /\ mem.completed[x] \in Nat /\ mem.failed[x] \in Nat
           /\ mem'.completed[x] \in Nat /\ mem'.failed[x] \in Nat
    BY <1>0, <2>1, <2>3 DEF CloneStates
  <2>5. \A x \in Repos : /\ file.state.completed[x] <= mem'.completed[x]
                         /\ file.state.failed[x] <= mem'.failed[x]
    BY <1>5, <2>2, <2>4, TrackOthers
  <2>6. ASSUME NEW x \in file.state.pending
        PROVE  \/ x \in mem'.pending
               \/ IsCompleted(mem', x)
               \/ IsFailed(mem', x) /\ x \in failures'
    <3>1. x \in Repos
      BY <2>3 DEF CloneStates
    <3>2. CASE x = r
      <4>1. answers[r] = "ok" => mem'.completed[r] > 0
        BY <1>5, TrackOthers
      <4>2. answers[r] # "ok" => mem'.failed[r] > 0 /\ r \in failures'
        BY <1>5, TrackOthers
      <4> QED BY <3>2, <4>1, <4>2
    <3>3. CASE x # r
      <4>1. /\ mem'.completed[x] = mem.completed[x] /\ mem'.failed[x] = mem.failed[x]
            /\ x \in mem.pending => x \in mem'.pending
            /\ failures \subseteq failures'
        BY <1>5, <3>1, <3>3, TrackOthers
      <4> QED BY <2>2, <4>1
    <3> QED BY <3>2, <3>3
  <2> QED BY <2>1, <2>5, <2>6
<1>6. CASE SaveBegin \/ ((SaveEnd \/ SaveFails) /\ ~\E h : Return(h))
  <2>1. mem' = mem /\ failures' = failures
    BY <1>6 DEF SaveBegin, SaveEnd, SaveFails, AfterSave
  <2>2. CASE file' = file
    BY <1>0, <2>1, <2>2 DEF LagInv, SameTarget
  <2>3. CASE file' = Saved(mem)
    <3>1. file'.state = mem'
      BY <2>1, <2>3, Apart
    <3> QED BY <1>0, <3>1 DEF CloneStates
  <2> QED BY <1>0, <1>6, <2>2, <2>3, Apart DEF SaveBegin, SaveEnd, SaveFails
<1>7. CASE \/ Interrupt \/ OrgGrows \/ UNCHANGED vars \/ CreateJobs \/ AllSubmitted
           \/ TickSave \/ TickProgress
  <2>1. mem' = mem /\ failures' = failures /\ file' = file
    BY <1>7 DEF Interrupt, OrgGrows, vars, CreateJobs, AllSubmitted, TickSave,
                TickProgress
  <2> QED BY <1>0, <2>1 DEF LagInv, SameTarget
<1>8. CASE \E r \in Repos : SubmitJob(r) \/ TakeJob(r) \/ JobSucceeds(r) \/ JobFails(r)
  <2>1. mem' = mem /\ failures' = failures /\ file' = file
    BY <1>8, MoveLemma
  <2> QED BY <1>0, <2>1 DEF LagInv, SameTarget
<1> QED BY <1>1, <1>2, <1>3, <1>4, <1>5, <1>6, <1>7, <1>8, StepKinds

\* Every step keeps what is said of the failures.
LEMMA FailedStep ==
    ASSUME TypeOK, PhaseInv, JobsInv, RecordInv, FailedInv, [Next]_vars
    PROVE  FailedInv'
<1>0. provider' = provider /\ org \subseteq org'
  BY UserStep
<1>1. ASSUME NEW r \in Repos, TrackResult(r)
      PROVE  /\ r \in attempted /\ r \in org /\ attempted' = attempted /\ pc' = pc /\ pc = "track"
             /\ \A x \in Repos \ {r} : IsFailed(mem', x) => IsFailed(mem, x)
             /\ mem \in Records
  BY <1>1, ResultLemma, TrackLemma, TrackOthers, RecordsType DEF JobsInv, IsFailed
<1>2. ASSUME NEW s \in Records', NEW r \in Repos, IsFailed(s, r)
      PROVE  r \in org'
  <2>1. CASE s \in Records
    BY <1>0, <1>2, <2>1 DEF FailedInv
  <2>2. CASE s = mem' /\ mem' # mem /\ mem' # NoState
    <3>1. CASE Readable(file) /\ mem' = file.state
      BY <1>0, <1>2, <2>2, <3>1, RecordsType DEF FailedInv
    <3>2. CASE mem' = NewCloneState(target)
      BY <1>2, <2>2, <3>2 DEF NewCloneState, NoRepos, IsFailed
    <3>3. CASE /\ mem = NewCloneState(target) /\ mem \in CloneStates
               /\ mem' = SetPendingRepositories(mem, org)
      <4>1. mem'.failed = NoRepos
        BY <3>3, NewStateLemma, PendingLemma DEF TypeOK
      <4> QED BY <1>2, <2>2, <4>1 DEF NoRepos, IsFailed
    <3>4. CASE mem \in CloneStates /\ \E x \in Statuses : mem' = MarkStatus(mem, x)
      <4>1. mem'.failed = mem.failed
        BY <3>4, StatusLemma
      <4> QED BY <1>0, <1>2, <2>2, <3>4, <4>1, RecordsType DEF FailedInv, IsFailed
    <3>5. ASSUME NEW x \in Repos, TrackResult(x) PROVE r \in org'
      BY <1>0, <1>1, <1>2, <2>2, <3>5 DEF FailedInv
    <3> QED BY <2>2, <3>1, <3>2, <3>3, <3>4, <3>5, MemStep
  <2> QED BY <2>1, <2>2, RecordsStep
<1>3. ASSUME provider = "gitlab", pc' \notin {"idle", "open", "list"},
             NEW r \in Repos, IsFailed(mem', r)
      PROVE  r \in attempted'
  <2>1. CASE \E h : Return(h)
    BY <1>3, <2>1 DEF Return
  <2>2. CASE Begin
    BY <1>3, <2>2 DEF Begin
  <2>3. CASE ListEmptyGithub
    BY <1>3, <2>3 DEF ListEmptyGithub
  <2>4. CASE ListFresh
    <3>1. mem = NewCloneState(target) /\ mem \in CloneStates /\ target \in Targets
      BY <2>4, RecordThere DEF ListFresh, PhaseInv, TypeOK
    <3>2. \/ mem' = SetPendingRepositories(mem, org)
          \/ mem' = MarkStatus(SetPendingRepositories(mem, org), "completed")
      BY <2>4 DEF ListFresh, Process
    <3>3. mem'.failed = NoRepos
      BY <3>1, <3>2, NewStateLemma, PendingLemma, StatusLemma DEF TypeOK, Statuses
    <3> QED BY <1>3, <3>3 DEF NoRepos, IsFailed
  <2>5. CASE ListResume
    <3>1. mem \in CloneStates /\ mem \in Records
      BY <2>5, RecordThere, RecordsType DEF ListResume
    <3>2. mem' = mem \/ mem' = MarkStatus(mem, "completed")
      BY <2>5 DEF ListResume, Process
    <3>3. mem'.failed = mem.failed
      BY <3>1, <3>2, StatusLemma DEF Statuses
    <3>4. attempted' = ResumeRepositories(mem)
      BY <2>5 DEF ListResume, Process
    <3> QED BY <1>3, <3>1, <3>3, <3>4 DEF FailedInv, IsFailed, ResumeRepositories
  <2>6. CASE \E x \in Repos : SubmitJob(x) \/ TakeJob(x) \/ JobSucceeds(x) \/ JobFails(x)
    BY <1>3, <2>6, MoveLemma DEF FailedInv
  <2>7. ASSUME NEW x \in Repos, TrackResult(x) PROVE r \in attempted'
    BY <1>1, <1>3, <2>7 DEF FailedInv
  <2>8. CASE OpenResume \/ OpenResumeNothing \/ OpenFresh \/ OpenFreshOverOld
    BY <1>3, <2>8 DEF OpenResume, OpenResumeNothing, OpenFresh, OpenFreshOverOld, StartWith
  <2>9. CASE TrackCancelled \/ TrackEnds
    <3>1. mem'.failed = mem.failed /\ attempted' = attempted /\ pc = "track"
      BY <2>9, RecordThere, StatusLemma
      DEF TrackCancelled, TrackEnds, Tracking, Statuses, histVars
    <3> QED BY <1>3, <3>1 DEF FailedInv, IsFailed
  <2>10. CASE \/ Interrupt \/ OrgGrows \/ UNCHANGED vars
              \/ SaveBegin \/ ((SaveEnd \/ SaveFails) /\ ~\E h : Return(h))
              \/ CreateJobs \/ AllSubmitted \/ TickSave \/ TickProgress
    <3>1. mem' = mem /\ attempted' = attempted
      BY <2>10 DEF Interrupt, OrgGrows, vars, SaveBegin, SaveEnd, SaveFails, AfterSave,
                   CreateJobs, AllSubmitted, TickSave, TickProgress, histVars
    <3>2. pc \notin {"idle", "open", "list"}
      BY <1>3, <2>10 DEF Interrupt, OrgGrows, vars, SaveBegin, SaveEnd, SaveFails, AfterSave,
                   CreateJobs, AllSubmitted, TickSave, TickProgress, Tracking
    <3> QED BY <1>3, <3>1, <3>2 DEF FailedInv
  <2> QED BY <2>1, <2>2, <2>3, <2>4, <2>5, <2>6, <2>7, <2>8, <2>9, <2>10, StepKinds
<1> QED BY <1>0, <1>2, <1>3 DEF FailedInv

\* A step that removes the state file of the run's own target leaves nothing to do
\* for what was pending or had failed in it, but for results that nobody read.
LEMMA KeptStep ==
    ASSUME TypeOK, PhaseInv, CountInv, RecordInv, FailedInv, LagInv, [Next]_vars,
           Readable(file), file' = NoFile, file.state.target = target,
           NEW r \in LeftToDo(file.state)
    PROVE  /\ mem # NoState
           /\ \/ IsCompleted(mem, r)
              \/ provider = "github" /\ IsFailed(mem, r)
              \/ provider = "gitlab" /\ r \in Unread /\ IsFailed(mem, r)
<1>1. FinishDelete
  BY Apart DEF Next, Loop, Pool, Over, vars, Begin, Interrupt, OrgGrows, Crash, OpenResume,
     OpenResumeNothing, OpenFresh, OpenFreshOverOld, OpenRefused, Refuse, ListFails,
     ListEmptyGitlab, ListEmptyGithub, ListFresh, ListResume, Process, SaveBegin, SaveEnd,
     SaveFails, CreateJobs, AllSubmitted, TickSave, TickProgress, TrackCancelled,
     TrackEnds, FinishKeep, SubmitJob, SubmitFails, TrackResult, TakeJob, JobSucceeds,
     JobFails, Answer
<1>2. mem \in CloneStates /\ mem # NoState /\ mem.target = target /\ mem.pending = {}
  BY <1>1, RecordThere DEF FinishDelete, PhaseInv, RecordInv, Tracked
<1>3. provider \in {"github", "gitlab"} /\ (provider = "gitlab" => failures = {})
  BY <1>1, CloneAssumption DEF FinishDelete, TypeOK
<1>4. Lags(file.state, mem, failures)
  BY <1>2 DEF LagInv, SameTarget
<1>5. CASE r \in file.state.pending
  <2>1. IsCompleted(mem, r) \/ (IsFailed(mem, r) /\ r \in failures)
    BY <1>2, <1>4, <1>5 DEF Lags
  <2> QED BY <1>2, <1>3, <2>1
<1>6. CASE provider = "gitlab" /\ r \in org /\ IsFailed(file.state, r)
  <2>1. r \in Repos /\ file.state \in CloneStates
    BY <1>6, Apart DEF TypeOK
  <2>2. /\ file.state.failed[r] \in Nat /\ mem.failed[r] \in Nat
        /\ file.state.failed[r] <= mem.failed[r]
    BY <1>2, <1>4, <2>1 DEF Lags, CloneStates
  <2>3. IsFailed(mem, r)
    BY <1>6, <2>2 DEF IsFailed
  <2>4. r \in attempted
    BY <1>1, <1>6, <2>1, <2>3 DEF FinishDelete, FailedInv
  <2>5. IsCompleted(mem, r) \/ r \in Jobs
    BY <1>1, <1>3, <1>6, <2>4 DEF FinishDelete, CountInv
  <2>6. Jobs = Unread
    BY <1>1 DEF FinishDelete, PhaseInv, Submitted, Jobs, Unread, Answered
  <2> QED BY <1>2, <1>6, <2>3, <2>5, <2>6
<1> QED BY <1>5, <1>6 DEF LeftToDo, GetRemainingRepositories

(***************************************************************************)
(* The inductive invariant and what follows from it.                       *)
(***************************************************************************)
IInv ==
    /\ TypeOK
    /\ PhaseInv
    /\ JobsInv
    /\ CountInv
    /\ RecordInv
    /\ FailedInv
    /\ RecordIsConsistent
    /\ DiskInv
    /\ CompletedIsOnDisk
    /\ ResumeInv
    /\ OutcomeIsTruthful
    /\ LagInv

\* The invariant holds at first,
LEMMA Initially == Init => IInv
<1> SUFFICES ASSUME Init PROVE IInv
  OBVIOUS
<1> USE DEF Init
<1>1. LanesOK
  <2>1. \A o \in Ops : Lane(queue, o) = {} /\ Lane(working, o) = {}
    BY DEF Lane
  <2> QED BY <2>1, FS_EmptySet, LimitsType DEF LanesOK
<1>2. TypeOK
  <2>1. org \subseteq Repos /\ runs \in 0 .. MaxRuns /\ left \in Nat
    BY CloneAssumption
  <2>2. /\ disk \in [Repos -> DiskStates] /\ op \in [Repos -> Ops]
        /\ answers \in [Repos -> Answers]
    BY DEF DiskStates, Ops, Answers
  <2>3. pc \in Places /\ after \in Afters /\ outcome \in Outcomes
    BY DEF Places, Afters, Outcomes
  <2> QED BY <1>1, <2>1, <2>2, <2>3 DEF TypeOK, LanesOK
<1>3. Records = {} /\ Jobs = {}
  BY Apart DEF Records, Jobs, Answered
<1>4. PhaseInv
  BY Apart DEF PhaseInv, BeforeJobs, Submitted, Saving, Tracked, Answered
<1>5. JobsInv /\ CountInv /\ RecordInv /\ RecordIsConsistent
  BY <1>3 DEF JobsInv, Jobs, CountInv, BeforeJobs, RecordInv, RecordIsConsistent, Tracked,
              Saving
<1>6. DiskInv /\ CompletedIsOnDisk /\ FailedInv
  BY <1>3 DEF DiskInv, CompletedIsOnDisk, FailedInv
<1>7. ResumeInv /\ OutcomeIsTruthful /\ LagInv
  BY <1>3 DEF ResumeInv, SavedOnce, Submitted, Saving, OutcomeIsTruthful, LagInv,
              GithubSuccessMeansDone, GitlabFailuresCanBeResumed, SameTarget
<1> QED BY <1>2, <1>4, <1>5, <1>6, <1>7 DEF IInv

\* every step keeps it,
LEMMA Inductive == IInv /\ [Next]_vars => IInv'
BY TypeStep, PhaseStep, JobsStep, CountStep, RecordStep, FailedStep, DiskStep, ResumeStep, OutcomeStep,
   LagStep DEF IInv

\* and so it always holds.
LEMMA Always == Spec => []IInv
BY Initially, Inductive, PTL DEF Spec

\* Every variable of the run holds a value of its kind and the lanes of the pool
\* keep to their limits, however many repositories, workers and runs there are.
THEOREM ResumableCloneTypes == Spec => []TypeOK
<1>1. IInv => TypeOK
  BY DEF IInv
<1> QED BY <1>1, Always, PTL

\* AddCompletedRepository, AddFailedRepository and SetPendingRepositories keep the
\* lists of the record apart and the total their sum, over any number of
\* interrupted and resumed runs.
THEOREM RecordStaysConsistent == Spec => []RecordIsConsistent
<1>1. IInv => RecordIsConsistent
  BY DEF IInv
<1> QED BY <1>1, Always, PTL

\* With reset, whatever kills a run, what the record calls completed is a complete
\* clone.
THEOREM CompletedStaysOnDisk == Spec => []CompletedIsOnDisk
<1>1. IInv => CompletedIsOnDisk
  BY DEF IInv
<1> QED BY <1>1, Always, PTL

\* What a run reports when it returns agrees with the disk (GitHub's version) and
\* with what --resume will process (GitLab's).
THEOREM OutcomesAreTruthful == Spec => []OutcomeIsTruthful
<1>1. IInv => OutcomeIsTruthful
  BY DEF IInv
<1> QED BY <1>1, Always, PTL

\* prepareRepositoryList and determineRepositoriesToProcess choose nothing that
\* the resumed record calls completed.
THEOREM NothingFinishedIsRedone == Spec => []FinishedIsNotRedone
<1>1. IInv => FinishedIsNotRedone
  BY DEF IInv, RecordInv, FinishedIsNotRedone, Jobs
<1> QED BY <1>1, Always, PTL

\* The state file of the run's target path never runs ahead of the record in
\* memory.
THEOREM FileLags == Spec => []FileLagsBehindMemory
<1>1. IInv => FileLagsBehindMemory
  BY LagLemma DEF IInv
<1> QED BY <1>1, Always, PTL

\* RefreshAllResumable of either version deletes the state file of its target path
\* only when everything that --resume would still have done in it, pending or (with
\* GitLab) failed, has been done, has failed (with GitHub), or is a job that GitLab's
\* loop was kept from reading.
THEOREM RecordIsKept == Spec => UnfinishedRecordIsKept
<1> DEFINE Kept == Readable(file) /\ file' = NoFile /\ file.state.target = target =>
                      \A r \in LeftToDo(file.state) :
                         /\ mem # NoState
                         /\ \/ IsCompleted(mem, r)
                            \/ provider = "github" /\ IsFailed(mem, r)
                            \/ provider = "gitlab" /\ r \in Unread /\ IsFailed(mem, r)
<1>1. IInv /\ [Next]_vars => Kept
  BY KeptStep DEF IInv
<1>2. [Kept]_vars <=> Kept \/ UNCHANGED vars
  OBVIOUS
<1> HIDE DEF Kept
<1>3. IInv /\ [Next]_vars => [Kept]_vars
  BY <1>1
<1>4. Spec => [][Kept]_vars
  BY <1>3, Always, PTL DEF Spec
<1> QED BY <1>4 DEF Kept, UnfinishedRecordIsKept
===============================================================================
