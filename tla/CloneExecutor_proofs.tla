-------------------------- MODULE CloneExecutor_proofs --------------------------
(***************************************************************************)
(* Theorems about the clone executor, for any number of repositories, any  *)
(* size of the semaphore, any number of tries and any sequence of runs.    *)
(***************************************************************************)
EXTENDS CloneExecutor, TLAPS, FiniteSetTheorems

\* The executor alone, as it is a part of Operations.
ExecSpec == ExecInit /\ [][ExecNext]_execVars

(***************************************************************************)
(* The inductive invariant.  A goroutine that is done has left a result,   *)
(* which is in the channel or counted; so once the channel is empty the    *)
(* counters are about everybody, and no failure counted means none.        *)
(***************************************************************************)
CloneStates == {"off", "waiting", "git", "refused", "delay", "done"}
Done == {r \in CloneRepos : clonePC[r] = "done"}
Cloned(r) == disk[r] = "repo" \/ (disk[r] = "partial" /\ strategy # "reset")
Result(r, ok) == [repo |-> r, ok |-> ok]

ExecTypes ==
    /\ disk \in [CloneRepos -> {"absent", "partial", "repo"}]
    /\ execPC \in {"idle", "run", "ok", "error", "died"}
    /\ strategy \in Strategies
    /\ filtered \subseteq CloneRepos
    /\ clonePC \in [CloneRepos -> CloneStates]
    /\ tries \in [CloneRepos -> 0 .. MaxTries]
    /\ summary \in [succeeded : Nat, failed : Nat]
    /\ execCtxDone \in BOOLEAN

TriesOK ==
    \A r \in CloneRepos :
      /\ clonePC[r] = "waiting" => tries[r] = 0
      /\ clonePC[r] = "delay" => tries[r] < MaxTries
      /\ clonePC[r] # "off" <=> r \in filtered

ResultsOK ==
    /\ resultChan \subseteq [repo : Done, ok : BOOLEAN]
    /\ IsFiniteSet(resultChan)
    /\ \A a, b \in resultChan : a.repo = b.repo => a = b
    /\ \A a \in resultChan : a.ok => Cloned(a.repo)
    /\ execPC # "run" => resultChan = {}

TallyOK ==
    /\ Cardinality(Done) = summary.succeeded + summary.failed + Cardinality(resultChan)
    /\ summary.failed = 0 => \A r \in Done : Cloned(r) \/ Result(r, FALSE) \in resultChan
    /\ execPC = "ok" => summary.failed = 0 /\ Done = filtered

SlotsOK == Cardinality(Holding) <= Parallel

ExecInv == ExecTypes /\ TriesOK /\ ResultsOK /\ TallyOK /\ SlotsOK

\* The sets whose sizes are counted are finite.
LEMMA ExecFinite ==
    ASSUME ExecTypes, ResultsOK
    PROVE  /\ IsFiniteSet(Done) /\ Cardinality(Done) \in Nat
           /\ IsFiniteSet(Holding) /\ Cardinality(Holding) \in Nat
           /\ IsFiniteSet(filtered) /\ Cardinality(filtered) \in Nat
           /\ Cardinality(resultChan) \in Nat
<1>1. IsFiniteSet(Done) /\ IsFiniteSet(Holding) /\ IsFiniteSet(filtered)
  BY ExecutorAssumption, FS_Subset DEF ExecTypes, Done, Holding, ExecutorAssumption
<1> QED BY <1>1, FS_CardinalityType DEF ResultsOK

\* Before the run nothing is held and nothing was counted.
LEMMA ExecEmpty ==
    ASSUME \A r \in CloneRepos : clonePC[r] \in {"off", "waiting"}
    PROVE  Done = {} /\ Holding = {} /\ Cardinality({}) = 0 /\ IsFiniteSet({})
  BY FS_EmptySet DEF Done, Holding

\* The initial states satisfy the invariant.
LEMMA ExecInitial == ExecInit => ExecInv
<1> SUFFICES ASSUME ExecInit PROVE ExecInv
    OBVIOUS
<1>1. Done = {} /\ Holding = {} /\ Cardinality({}) = 0 /\ IsFiniteSet({})
  BY ExecEmpty DEF ExecInit
<1>2. ExecTypes /\ TriesOK
  <2>1. 0 \in 0 .. MaxTries /\ 0 \in Nat /\ "reset" \in Strategies
    BY ExecutorAssumption DEF ExecutorAssumption, Strategies
  <2>2. ExecTypes
    BY <2>1 DEF ExecInit, ExecTypes, CloneStates
  <2>3. TriesOK
    BY DEF ExecInit, TriesOK
  <2> QED BY <2>2, <2>3
<1>3. ResultsOK /\ TallyOK /\ SlotsOK
  BY <1>1, ExecutorAssumption DEF ExecutorAssumption, ExecInit, ResultsOK, TallyOK, SlotsOK
<1> QED BY <1>2, <1>3 DEF ExecInv

\* Runs begin, are refused and are killed with nobody at work afterwards.
LEMMA ExecResets ==
    ASSUME ExecInv, ExecuteBegins \/ ExecuteRefused \/ ExecutorDies
    PROVE  ExecInv'
<1> USE DEF ExecInv
<1>1. /\ \A r \in CloneRepos : clonePC'[r] = IF r \in filtered' THEN "waiting" ELSE "off"
      /\ clonePC' \in [CloneRepos -> {"waiting", "off"}]
      /\ filtered' \subseteq CloneRepos
      /\ tries' = [r \in CloneRepos |-> 0]
      /\ resultChan' = {}
      /\ summary' = [succeeded |-> 0, failed |-> 0]
      /\ execPC' = "ok" => filtered' = {}
  BY DEF ExecuteBegins, ExecuteRefused, ExecutorDies, ResultsOK
<1>2. Done' = {} /\ Holding' = {} /\ Cardinality({}) = 0 /\ IsFiniteSet({})
  BY <1>1, FS_EmptySet DEF Done, Holding
<1>3. /\ disk' \in [CloneRepos -> {"absent", "partial", "repo"}]
      /\ execPC' \in {"run", "ok", "error", "died"}
      /\ strategy' \in Strategies /\ execCtxDone' \in BOOLEAN
  BY DEF ExecuteBegins, ExecuteRefused, ExecutorDies, ExecTypes
<1>4. ExecTypes' /\ TriesOK'
  BY <1>1, <1>3, ExecutorAssumption DEF ExecutorAssumption, ExecTypes, TriesOK, CloneStates
<1>5. ResultsOK' /\ TallyOK' /\ SlotsOK'
  BY <1>1, <1>2, ExecutorAssumption DEF ExecutorAssumption, ResultsOK, TallyOK, SlotsOK
<1> QED BY <1>4, <1>5

\* A goroutine that goes on without sending.
LEMMA ExecGoesOn ==
    ASSUME ExecInv, NEW r \in CloneRepos, NEW pc \in {"git", "refused", "delay"},
           clonePC[r] \in {"waiting", "git", "refused", "delay"},
           clonePC[r] = "waiting" => Cardinality(Holding) < Parallel,
           clonePC' = [clonePC EXCEPT ![r] = pc],
           disk' \in [CloneRepos -> {"absent", "partial", "repo"}],
           \A q \in CloneRepos : q # r => disk'[q] = disk[q],
           tries' \in [CloneRepos -> 0 .. MaxTries],
           \A q \in CloneRepos : q # r => tries'[q] = tries[q],
           pc = "delay" => tries'[r] < MaxTries,
           UNCHANGED <<execPC, strategy, filtered, resultChan, summary, execCtxDone>>
    PROVE  ExecInv'
<1> USE DEF ExecInv
<1>1. ExecTypes' /\ TriesOK'
  BY DEF ExecTypes, TriesOK, CloneStates
<1>2. Done' = Done /\ r \notin Done
  BY DEF Done, ExecTypes
<1>3. ResultsOK'
  BY <1>2 DEF ResultsOK, Cloned, Done
<1>4. TallyOK'
  BY <1>2 DEF TallyOK, Cloned, Done
<1>5. SlotsOK'
  <2>1. Holding' = Holding \union {r}
    BY DEF Holding, ExecTypes
  <2>2. Cardinality(Holding') = IF r \in Holding THEN Cardinality(Holding) ELSE Cardinality(Holding) + 1
    BY <2>1, ExecFinite, FS_AddElement
  <2>3. r \notin Holding => clonePC[r] = "waiting"
    BY DEF Holding
  <2> QED BY <2>2, <2>3, ExecFinite, ExecutorAssumption DEF SlotsOK, ExecutorAssumption
<1> QED BY <1>1, <1>3, <1>4, <1>5

\* A goroutine that sends its result; a success has its repository on disk.
LEMMA ExecSends ==
    ASSUME ExecInv, execPC = "run", NEW r \in CloneRepos, NEW ok \in BOOLEAN,
           clonePC[r] \in {"git", "refused", "delay"},
           SendResult(r, ok),
           disk' \in [CloneRepos -> {"absent", "partial", "repo"}],
           \A q \in CloneRepos : q # r => disk'[q] = disk[q],
           ok => Cloned(r)',
           UNCHANGED <<execPC, strategy, filtered, tries, summary, execCtxDone>>
    PROVE  ExecInv'
<1> USE DEF ExecInv
<1>1. clonePC' = [clonePC EXCEPT ![r] = "done"] /\ resultChan' = resultChan \union {Result(r, ok)}
  BY DEF SendResult, Result
<1>2. ExecTypes' /\ TriesOK'
  BY <1>1 DEF ExecTypes, TriesOK, CloneStates
<1>3. Done' = Done \union {r} /\ r \notin Done
  BY <1>1 DEF Done, ExecTypes
<1>4. Result(r, ok) \notin resultChan
  BY <1>3 DEF ResultsOK, Result
<1>5. Cardinality(Done') = Cardinality(Done) + 1
  BY <1>3, ExecFinite, FS_AddElement
<1>6. Cardinality(resultChan') = Cardinality(resultChan) + 1 /\ IsFiniteSet(resultChan')
  BY <1>1, <1>4, FS_AddElement DEF ResultsOK
<1>7. ResultsOK'
  <2>1. resultChan' \subseteq [repo : Done', ok : BOOLEAN]
    BY <1>1, <1>3 DEF ResultsOK, Result
  <2>2. \A a, b \in resultChan' : a.repo = b.repo => a = b
    BY <1>1, <1>3 DEF ResultsOK, Result
  <2>3. \A a \in resultChan' : a.ok => Cloned(a.repo)'
    BY <1>1, <1>3 DEF ResultsOK, Result, Cloned, Done
  <2> QED BY <1>6, <2>1, <2>2, <2>3 DEF ResultsOK
<1>8. TallyOK'
  <2>1. Cardinality(Done') = summary'.succeeded + summary'.failed + Cardinality(resultChan')
    BY <1>5, <1>6, ExecFinite DEF TallyOK, ExecTypes
  <2>2. summary'.failed = 0 => \A q \in Done' : Cloned(q)' \/ Result(q, FALSE) \in resultChan'
    <3> SUFFICES ASSUME summary.failed = 0, NEW q \in Done' PROVE Cloned(q)' \/ Result(q, FALSE) \in resultChan'
        OBVIOUS
    <3>1. CASE q = r
      BY <1>1, <3>1 DEF Result
    <3>2. CASE q # r
      BY <1>1, <1>3, <3>2 DEF TallyOK, Cloned, Done
    <3> QED BY <3>1, <3>2
  <2> QED BY <2>1, <2>2 DEF TallyOK
<1>9. SlotsOK'
  <2>1. Holding' \subseteq Holding
    BY <1>1 DEF Holding, ExecTypes
  <2>2. Cardinality(Holding') <= Cardinality(Holding) /\ Cardinality(Holding') \in Nat
    BY <2>1, ExecFinite, FS_Subset, FS_CardinalityType
  <2> QED BY <2>2, ExecFinite, ExecutorAssumption DEF SlotsOK, ExecutorAssumption
<1> QED BY <1>2, <1>7, <1>8, <1>9

\* The collector counts a result that was not counted before.
LEMMA ExecCollects == ExecInv /\ CollectResult => ExecInv'
<1> SUFFICES ASSUME ExecInv, CollectResult PROVE ExecInv'
    OBVIOUS
<1> USE DEF ExecInv
<1>1. PICK a \in resultChan :
         /\ resultChan' = resultChan \ {a}
         /\ summary' = IF a.ok THEN [summary EXCEPT !.succeeded = @ + 1]
                               ELSE [summary EXCEPT !.failed = @ + 1]
  BY DEF CollectResult
<1>2. execPC = "run" /\ UNCHANGED <<disk, execPC, strategy, filtered, clonePC, tries, execCtxDone>>
  BY DEF CollectResult
<1>3. Done' = Done /\ Holding' = Holding
  BY <1>2 DEF Done, Holding
<1>4. a \in [repo : Done, ok : BOOLEAN]
  BY DEF ResultsOK
<1>5. Cardinality(resultChan') = Cardinality(resultChan) - 1 /\ IsFiniteSet(resultChan')
  BY <1>1, FS_RemoveElement DEF ResultsOK
<1>6. ExecTypes' /\ TriesOK' /\ SlotsOK'
  BY <1>1, <1>2, <1>3 DEF ExecTypes, TriesOK, SlotsOK
<1>7. ResultsOK'
  BY <1>1, <1>2, <1>3, <1>5 DEF ResultsOK, Cloned
<1>8. TallyOK'
  <2>1. summary'.succeeded + summary'.failed = summary.succeeded + summary.failed + 1
    BY <1>1 DEF ExecTypes
  <2>2. Cardinality(Done') = summary'.succeeded + summary'.failed + Cardinality(resultChan')
    BY <1>3, <1>5, <1>6, <2>1, ExecFinite DEF TallyOK, ExecTypes
  <2>3. summary'.failed = 0 => \A r \in Done' : Cloned(r)' \/ Result(r, FALSE) \in resultChan'
    <3> SUFFICES ASSUME summary'.failed = 0, NEW r \in Done, ~Cloned(r) PROVE Result(r, FALSE) \in resultChan'
        BY <1>2, <1>3 DEF Cloned
    <3>1. a.ok /\ summary.failed = 0
      BY <1>1, <1>4 DEF ExecTypes
    <3>2. Result(r, FALSE) \in resultChan
      BY <3>1 DEF TallyOK
    <3>3. Result(r, FALSE) # a
      BY <3>1 DEF Result
    <3> QED BY <1>1, <3>2, <3>3
  <2> QED BY <1>2, <2>2, <2>3 DEF TallyOK
<1> QED BY <1>6, <1>7, <1>8

\* Execute returns, or its context is cancelled.
LEMMA ExecEnds == ExecInv /\ (ExecuteReturns \/ CancelExecute \/ UNCHANGED execVars) => ExecInv'
<1> SUFFICES ASSUME ExecInv, ExecuteReturns \/ CancelExecute \/ UNCHANGED execVars PROVE ExecInv'
    OBVIOUS
<1> USE DEF ExecInv
<1>1. UNCHANGED <<disk, strategy, filtered, clonePC, tries, resultChan, summary>>
  BY DEF ExecuteReturns, CancelExecute, execVars
<1>2. Done' = Done /\ Holding' = Holding
  BY <1>1 DEF Done, Holding
<1>3. execPC' # "run" => resultChan = {}
  BY DEF ExecuteReturns, CancelExecute, execVars, ResultsOK
<1>4. execPC' = "ok" => summary.failed = 0 /\ Done = filtered
  <2>1. CASE ExecuteReturns
    <3>1. Done = filtered
      BY <2>1 DEF ExecuteReturns, TriesOK, Done, ExecTypes
    <3>2. execPC' = "ok" => summary.failed = 0
      BY <2>1 DEF ExecuteReturns, ExecTypes
    <3> QED BY <3>1, <3>2
  <2>2. CASE CancelExecute \/ UNCHANGED execVars
    BY <2>2 DEF CancelExecute, execVars, TallyOK
  <2> QED BY <2>1, <2>2
<1>5. execPC' \in {"idle", "run", "ok", "error", "died"} /\ execCtxDone' \in BOOLEAN
  BY DEF ExecuteReturns, CancelExecute, execVars, ExecTypes
<1>6. ExecTypes' /\ TriesOK' /\ SlotsOK'
  BY <1>1, <1>2, <1>5 DEF ExecTypes, TriesOK, SlotsOK
<1>7. ResultsOK'
  BY <1>1, <1>2, <1>3 DEF ResultsOK, Cloned
<1>8. TallyOK'
  BY <1>1, <1>2, <1>4 DEF TallyOK, Cloned
<1> QED BY <1>6, <1>7, <1>8

\* Every step of the executor keeps the invariant.
LEMMA ExecStep == ExecInv /\ [ExecNext]_execVars => ExecInv'
<1> SUFFICES ASSUME ExecInv, [ExecNext]_execVars PROVE ExecInv'
    OBVIOUS
<1>1. CASE ExecuteBegins \/ ExecuteRefused \/ ExecutorDies
  BY <1>1, ExecResets
<1>2. ASSUME NEW r \in CloneRepos, AcquireSlot(r) \/ TryAgain(r) PROVE ExecInv'
  <2> DEFINE pc == IF execCtxDone THEN "refused" ELSE "git"
  <2>1. /\ clonePC' = [clonePC EXCEPT ![r] = pc] /\ tries' = [tries EXCEPT ![r] = @ + 1]
        /\ clonePC[r] \in {"waiting", "delay"}
        /\ clonePC[r] = "waiting" => Cardinality(Holding) < Parallel
        /\ UNCHANGED <<disk, execPC, strategy, filtered, resultChan, summary, execCtxDone>>
    BY <1>2 DEF AcquireSlot, TryAgain, BeginAttempt
  <2>2. tries[r] \in 0 .. MaxTries /\ tries[r] < MaxTries
    BY <2>1, ExecutorAssumption DEF ExecInv, ExecTypes, TriesOK, ExecutorAssumption
  <2>3. tries' \in [CloneRepos -> 0 .. MaxTries]
    BY <2>1, <2>2, ExecutorAssumption DEF ExecInv, ExecTypes, ExecutorAssumption
  <2>4. pc \in {"git", "refused", "delay"} /\ pc # "delay"
    OBVIOUS
  <2> HIDE DEF pc
  <2> QED BY <2>1, <2>3, <2>4, ExecGoesOn DEF ExecInv, ExecTypes
<1>3. ASSUME NEW r \in CloneRepos, AttemptSucceeds(r) PROVE ExecInv'
  <2>1. Cloned(r)' /\ disk' \in [CloneRepos -> {"absent", "partial", "repo"}]
    BY <1>3 DEF AttemptSucceeds, ExecInv, ExecTypes, Cloned
  <2> QED BY <1>3, <2>1, ExecSends DEF AttemptSucceeds, ExecInv, ExecTypes
<1>4. ASSUME NEW r \in CloneRepos, AttemptFails(r) PROVE ExecInv'
  <2>1. /\ disk' \in [CloneRepos -> {"absent", "partial", "repo"}]
        /\ \A q \in CloneRepos : q # r => disk'[q] = disk[q]
    BY <1>4 DEF AttemptFails, ExecInv, ExecTypes
  <2>2. /\ execPC = "run" /\ clonePC[r] \in {"git", "refused"}
        /\ UNCHANGED <<execPC, strategy, filtered, tries, summary, execCtxDone>>
    BY <1>4 DEF AttemptFails
  <2>3. CASE SendResult(r, FALSE)
    BY <2>1, <2>2, <2>3, ExecSends
  <2>4. CASE tries[r] < MaxTries /\ clonePC' = [clonePC EXCEPT ![r] = "delay"] /\ UNCHANGED resultChan
    BY <2>1, <2>2, <2>4, ExecGoesOn DEF ExecInv, ExecTypes
  <2> QED BY <1>4, <2>3, <2>4 DEF AttemptFails
<1>5. ASSUME NEW r \in CloneRepos, DelayIsCancelled(r) PROVE ExecInv'
  BY <1>5, ExecSends DEF DelayIsCancelled, ExecInv, ExecTypes
<1>6. CASE CollectResult
  BY <1>6, ExecCollects
<1>7. CASE ExecuteReturns \/ CancelExecute \/ UNCHANGED execVars
  BY <1>7, ExecEnds
<1> QED BY <1>1, <1>2, <1>3, <1>4, <1>5, <1>6, <1>7 DEF ExecNext, CloneStep

\* The inductive invariant behind the theorems of the executor.
LEMMA ExecInvariant == ExecSpec => []ExecInv
  BY ExecInitial, ExecStep, PTL DEF ExecSpec

\* The executor's variables keep their types; as many goroutines as there
\* are slots are at git or between two tries, and nobody is counted twice.
THEOREM ExecTypeCorrect == ExecSpec => []ExecTypeOK
<1>1. ExecInv => ExecTypeOK
  <2> SUFFICES ASSUME ExecInv PROVE ExecTypeOK
      OBVIOUS
  <2>1. Done \subseteq filtered
    BY DEF ExecInv, TriesOK, Done
  <2>2. Cardinality(Done) <= Cardinality(filtered)
    BY <2>1, ExecFinite, FS_Subset DEF ExecInv
  <2>3. summary.succeeded + summary.failed <= Cardinality(filtered)
    BY <2>2, ExecFinite DEF ExecInv, TallyOK, ExecTypes
  <2>4. resultChan \subseteq [repo : filtered, ok : BOOLEAN]
    BY <2>1 DEF ExecInv, ResultsOK
  <2> QED BY <2>3, <2>4 DEF ExecInv, ExecTypes, SlotsOK, ExecTypeOK, CloneStates
<1> QED BY <1>1, ExecInvariant, PTL

\* For any number of repositories and tries, and however attempts fail, are
\* cancelled or find what an earlier run left: a run that ends well has all.
THEOREM CloneCompletes == ExecSpec => []CloneOkIsComplete
<1>1. ExecInv => CloneOkIsComplete
  <2> SUFFICES ASSUME ExecInv, execPC = "ok"
               PROVE  /\ summary = [succeeded |-> Cardinality(filtered), failed |-> 0]
                      /\ \A r \in filtered : Cloned(r)
      BY DEF CloneOkIsComplete, Cloned
  <2>1. summary.failed = 0 /\ Done = filtered /\ resultChan = {}
    BY DEF ExecInv, TallyOK, ResultsOK
  <2>2. Cardinality(filtered) = summary.succeeded
    BY <2>1, FS_EmptySet, ExecFinite DEF ExecInv, TallyOK, ExecTypes
  <2> QED BY <2>1, <2>2 DEF ExecInv, TallyOK, ExecTypes
<1> QED BY <1>1, ExecInvariant, PTL
================================================================================
