---------------------------- MODULE Operations_proofs ----------------------------
(***************************************************************************)
(* Theorems about the composition of the operations.  The request limiter, *)
(* the operations on one thing and the streams are proved about here; the  *)
(* synchronization, the clone executor and the errgroup operations bring   *)
(* theorems of their own.                                                  *)
(* What is proved of one operation holds of every behaviour of the         *)
(* composition because a step of another leaves its variables alone.       *)
(***************************************************************************)
EXTENDS Operations, RepositorySync_proofs, CloneExecutor_proofs, ErrGroupBulk_proofs,
        TLAPS, FiniteSetTheorems

(***************************************************************************)
(* Why an informed limiter sends nothing in vain.  While informed, what it *)
(* believes to be left and what it has under way fit into what the server  *)
(* still admits; and where it believes nothing, because the window is new, *)
(* the first request finds the whole quota.                                *)
(***************************************************************************)
InState(pc) == {c \in Callers : apiPC[c] = pc}

RetriesOK == \A c \in Callers : apiPC[c] = "backoff" => retries[c] < MaxApiRetries

ApiInv ==
    /\ ApiTypeOK
    /\ RetriesOK
    /\ informed =>
         /\ remaining + Cardinality(InState("inflight")) <= left
         /\ beforeReset => InState("woken") = {}
         /\ ~beforeReset /\ remaining = 0 /\ InState("inflight") = {} /\ InState("answered") = {}
              => left = Quota

\* The callers in a state are finitely many.
LEMMA InStateFinite ==
    ASSUME NEW pc PROVE IsFiniteSet(InState(pc)) /\ Cardinality(InState(pc)) \in Nat
  BY ApiAssumption, FS_Subset, FS_CardinalityType DEF InState, ApiAssumption

\* Going from one place to another adds one to the latter and takes one away.
LEMMA InStateMoves ==
    ASSUME ApiTypeOK, NEW c \in Callers, NEW old, NEW new, old # new, apiPC[c] = old,
           apiPC' = [apiPC EXCEPT ![c] = new]
    PROVE  /\ InState(old)' = InState(old) \ {c} /\ c \in InState(old)
           /\ InState(new)' = InState(new) \union {c} /\ c \notin InState(new)
           /\ \A pc : pc \notin {old, new} => InState(pc)' = InState(pc)
           /\ Cardinality(InState(old)') = Cardinality(InState(old)) - 1
           /\ Cardinality(InState(new)') = Cardinality(InState(new)) + 1
<1>1. /\ InState(old)' = InState(old) \ {c} /\ c \in InState(old)
      /\ InState(new)' = InState(new) \union {c} /\ c \notin InState(new)
      /\ \A pc : pc \notin {old, new} => InState(pc)' = InState(pc)
  BY DEF InState, ApiTypeOK
<1>2. Cardinality(InState(old) \ {c}) = Cardinality(InState(old)) - 1
  BY <1>1, InStateFinite, FS_RemoveElement
<1>3. Cardinality(InState(new) \union {c}) = Cardinality(InState(new)) + 1
  BY <1>1, InStateFinite, FS_AddElement
<1> QED BY <1>1, <1>2, <1>3

\* At first no request is under way.
LEMMA ApiInitial == ApiInit => ApiInv
<1> SUFFICES ASSUME ApiInit PROVE ApiInv
    OBVIOUS
<1>1. 0 \in 0 .. Quota /\ Quota \in 0 .. Quota /\ 0 \in 0 .. MaxApiRetries
  BY ApiAssumption DEF ApiAssumption
<1> QED BY <1>1 DEF ApiInit, ApiInv, RetriesOK, ApiTypeOK, NoAnswer, Responses, Statuses

\* Every step keeps the types of the requests.
LEMMA ApiTypeStep == ApiTypeOK /\ RetriesOK /\ [ApiNext]_apiVars => ApiTypeOK'
<1> SUFFICES ASSUME ApiTypeOK, RetriesOK, [ApiNext]_apiVars PROVE ApiTypeOK'
    OBVIOUS
<1> USE ApiAssumption DEF ApiTypeOK, ApiAssumption, Responses
<1>1. 0 \in 0 .. Quota /\ Quota \in 0 .. Quota /\ 0 \in 0 .. MaxApiRetries
  OBVIOUS
<1>2. ASSUME NEW c \in Callers, Call(c) PROVE ApiTypeOK'
  BY <1>1, <1>2 DEF Call
<1>3. ASSUME NEW c \in Callers, TakeRetryAfter(c) \/ WakeFromRetryAfter(c) \/ SleepUntilReset(c)
                                \/ CancelSleep(c)
      PROVE ApiTypeOK'
  BY <1>3 DEF TakeRetryAfter, WakeFromRetryAfter, SleepUntilReset, CancelSleep
<1>4. ASSUME NEW c \in Callers, Pass(c) PROVE ApiTypeOK'
  BY <1>4 DEF Pass
<1>5. ASSUME NEW c \in Callers, Receive(c) PROVE ApiTypeOK'
  <2>1. answer[c].left \in 0 .. Quota /\ answer[c].current \in BOOLEAN /\ answer[c].retryAfter \in BOOLEAN
    OBVIOUS
  <2>2. NoAnswer \in Responses
    BY <1>1 DEF NoAnswer, Statuses
  <2>3. answer' = [answer EXCEPT ![c] = NoAnswer] /\ \E pc \in {"backoff", "idle"} : apiPC' = [apiPC EXCEPT ![c] = pc]
    BY <1>5 DEF Receive
  <2>4. UNCHANGED <<left, retries>> /\ remaining' \in {remaining, answer[c].left} /\ beforeReset' \in BOOLEAN
        /\ retryAfter' \in BOOLEAN /\ informed' \in BOOLEAN
    BY <1>5, <2>1 DEF Receive
  <2>5. answer' \in [Callers -> Responses]
    BY <2>2, <2>3
  <2>6. /\ apiPC' \in [Callers -> {"idle", "wait", "sleepRetry", "check", "sleepReset", "woken",
                                    "inflight", "answered", "backoff"}]
    BY <2>3
  <2>7. left' \in 0 .. Quota /\ remaining' \in 0 .. Quota /\ retries' \in [Callers -> 0 .. MaxApiRetries]
    BY <2>1, <2>4
  <2> QED BY <2>4, <2>5, <2>6, <2>7
<1>6. ASSUME NEW c \in Callers, BackoffEnds(c) PROVE ApiTypeOK'
  BY <1>6 DEF BackoffEnds, RetriesOK
<1>7. ASSUME NEW c \in Callers, Serve(c) PROVE ApiTypeOK'
  <2>1. left' \in 0 .. Quota
    BY <1>7 DEF Serve, Admitted
  <2>2. PICK a \in Responses : answer' = [answer EXCEPT ![c] = a]
    <3>1. PICK status \in Statuses, wait, counted \in BOOLEAN :
             answer' = [answer EXCEPT ![c] =
                          [status |-> status, left |-> IF counted THEN left' ELSE 0,
                           retryAfter |-> wait, counted |-> counted, current |-> TRUE]]
      BY <1>7 DEF Serve
    <3>2. (IF counted THEN left' ELSE 0) \in 0 .. Quota
      BY <1>1, <2>1
    <3> QED BY <3>1, <3>2 DEF Responses
  <2>3. UNCHANGED <<remaining, beforeReset, retryAfter, retries, informed>>
        /\ apiPC' = [apiPC EXCEPT ![c] = "answered"]
    BY <1>7 DEF Serve
  <2>4. answer' \in [Callers -> Responses]
    BY <2>2
  <2>5. /\ apiPC' \in [Callers -> {"idle", "wait", "sleepRetry", "check", "sleepReset", "woken",
                                    "inflight", "answered", "backoff"}]
    BY <2>3
  <2> QED BY <2>1, <2>3, <2>4, <2>5
<1>8. ASSUME NEW c \in Callers, Lose(c) PROVE ApiTypeOK'
  <2>1. left' \in 0 .. Quota /\ informed' = FALSE /\ apiPC' = [apiPC EXCEPT ![c] = "idle"]
    BY <1>8 DEF Lose, Admitted
  <2> QED BY <1>8, <2>1 DEF Lose
<1>9. CASE Tick
  BY <1>1, <1>9 DEF Tick
<1>10. CASE UNCHANGED apiVars
  BY <1>10 DEF apiVars
<1> QED BY <1>2, <1>3, <1>4, <1>5, <1>6, <1>7, <1>8, <1>9, <1>10 DEF ApiNext, CallerStep

\* No step retries more often than configured.
LEMMA ApiRetriesStep == ApiTypeOK /\ RetriesOK /\ [ApiNext]_apiVars => RetriesOK'
  BY ApiAssumption DEF ApiAssumption, ApiTypeOK, RetriesOK, ApiNext, apiVars, CallerStep, Call,
        TakeRetryAfter, WakeFromRetryAfter, SleepUntilReset, Pass, Receive, BackoffEnds, CancelSleep,
        Serve, Lose, Tick

\* A step that brings nobody under way, and leaves the counts alone.
LEMMA ApiAside ==
    ASSUME ApiInv, ApiTypeOK', RetriesOK', UNCHANGED <<left, remaining, beforeReset>>,
           informed' => informed,
           InState("inflight")' = InState("inflight"),
           InState("woken")' = InState("woken"),
           InState("answered")' = InState("answered")
    PROVE  ApiInv'
  BY DEF ApiInv

\* A caller is let through: one more request under way, one less remains.
LEMMA ApiPasses ==
    ASSUME ApiInv, ApiTypeOK', RetriesOK', NEW c \in Callers, Pass(c)
    PROVE  ApiInv'
<1> SUFFICES ASSUME informed'
             PROVE  /\ remaining' + Cardinality(InState("inflight")') <= left'
                    /\ beforeReset' => InState("woken")' = {}
                    /\ InState("inflight")' # {}
    BY DEF ApiInv
<1>1. /\ apiPC[c] # "inflight" /\ apiPC[c] # "answered" /\ apiPC' = [apiPC EXCEPT ![c] = "inflight"]
      /\ remaining' = (IF remaining = 0 THEN 0 ELSE remaining - 1)
      /\ UNCHANGED <<left, beforeReset>>
      /\ informed /\ (remaining > 0 \/ Others(c) = {})
      /\ apiPC[c] = "woken" \/ ~MustWait
  BY DEF Pass, AtCheck
<1>2. /\ Cardinality(InState("inflight")') = Cardinality(InState("inflight")) + 1
      /\ InState("inflight")' = InState("inflight") \union {c}
      /\ InState("woken")' \subseteq InState("woken")
  <2>1. ApiTypeOK
    BY DEF ApiInv
  <2>2. InState("woken")' \subseteq InState("woken")
    BY <1>1, <2>1 DEF InState, ApiTypeOK
  <2> QED BY <1>1, <2>1, <2>2, InStateMoves
<1>3. remaining \in Nat /\ left \in Nat /\ Quota \in Nat \ {0} /\ Cardinality(InState("inflight")) \in Nat
  BY InStateFinite, ApiAssumption DEF ApiInv, ApiTypeOK, ApiAssumption
<1>4. CASE remaining > 0
  BY <1>1, <1>2, <1>3, <1>4 DEF ApiInv
<1>5. CASE remaining = 0
  <2>1. Others(c) = {}
    BY <1>1, <1>5
  <2>2. InState("inflight") = {} /\ InState("answered") = {}
    BY <1>1, <2>1 DEF Others, InState
  <2>3. ~beforeReset
    <3>1. CASE apiPC[c] = "woken"
      BY <1>1, <3>1 DEF InState, ApiInv
    <3>2. CASE ~MustWait
      BY <1>5, <3>2 DEF MustWait
    <3> QED BY <1>1, <3>1, <3>2
  <2>4. left = Quota
    BY <1>1, <1>5, <2>2, <2>3 DEF ApiInv
  <2>5. Cardinality(InState("inflight")) = 0
    BY <2>2, FS_EmptySet
  <2> QED BY <1>1, <1>2, <1>3, <1>5, <2>3, <2>4, <2>5
<1> QED BY <1>3, <1>4, <1>5

\* A caller reads its answer and lets the next one in.
LEMMA ApiReceives ==
    ASSUME ApiInv, ApiTypeOK', RetriesOK', NEW c \in Callers, Receive(c)
    PROVE  ApiInv'
<1>0. /\ apiPC[c] = "answered" /\ left' = left
      /\ \E pc \in {"backoff", "idle"} : apiPC' = [apiPC EXCEPT ![c] = pc]
  BY DEF Receive
<1>1. CASE answer[c].counted
  <2> SUFFICES ASSUME informed'
               PROVE  /\ remaining' + Cardinality(InState("inflight")') <= left'
                      /\ beforeReset' /\ InState("woken")' = {}
      BY DEF ApiInv
  <2>1. remaining' = left /\ beforeReset' = TRUE /\ Others(c) = {}
    BY <1>1 DEF Receive, ApiInv, ApiTypeOK
  <2>2. InState("inflight")' = {} /\ InState("woken")' = {}
    BY <1>0, <2>1 DEF Others, InState, ApiInv, ApiTypeOK
  <2>3. Cardinality(InState("inflight")') = 0
    BY <2>2, FS_EmptySet
  <2>4. left \in Nat
    BY ApiAssumption DEF ApiInv, ApiTypeOK, ApiAssumption
  <2> QED BY <1>0, <2>1, <2>2, <2>3, <2>4
<1>2. CASE ~answer[c].counted
  <2> SUFFICES ASSUME informed'
               PROVE  /\ remaining' + Cardinality(InState("inflight")') <= left'
                      /\ beforeReset' => InState("woken")' = {}
                      /\ beforeReset' \/ remaining' # 0
      BY DEF ApiInv
  <2>1. UNCHANGED <<remaining, beforeReset>> /\ informed /\ (remaining > 0 \/ beforeReset)
    BY <1>2 DEF Receive
  <2>2. InState("inflight")' = InState("inflight") /\ InState("woken")' = InState("woken")
    BY <1>0 DEF InState, ApiInv, ApiTypeOK
  <2>3. remaining \in Nat
    BY DEF ApiInv, ApiTypeOK
  <2> QED BY <1>0, <2>1, <2>2, <2>3 DEF ApiInv
<1> QED BY <1>1, <1>2

\* The server answers a request and counts it, or a gateway before it answers.
LEMMA ApiServes ==
    ASSUME ApiInv, ApiTypeOK', RetriesOK', NEW c \in Callers, Serve(c)
    PROVE  ApiInv'
<1> SUFFICES ASSUME informed
             PROVE  /\ remaining' + Cardinality(InState("inflight")') <= left'
                    /\ beforeReset' => InState("woken")' = {}
                    /\ InState("answered")' # {}
    BY DEF ApiInv, Serve
<1>1. /\ apiPC[c] = "inflight" /\ apiPC' = [apiPC EXCEPT ![c] = "answered"]
      /\ UNCHANGED <<remaining, beforeReset>>
      /\ left' \in {left, IF left = 0 THEN 0 ELSE left - 1}
  BY DEF Serve, Admitted
<1>2. /\ Cardinality(InState("inflight")') = Cardinality(InState("inflight")) - 1
      /\ InState("answered")' = InState("answered") \union {c}
  BY <1>1, InStateMoves DEF ApiInv
<1>3. InState("woken")' = InState("woken")
  BY <1>1 DEF ApiInv, InState, ApiTypeOK
<1>4. remaining \in Nat /\ left \in Nat /\ Cardinality(InState("inflight")) \in Nat
  BY InStateFinite, ApiAssumption DEF ApiInv, ApiTypeOK, ApiAssumption
<1>5. Cardinality(InState("inflight")) # 0
  <2>1. c \in InState("inflight")
    BY <1>1 DEF InState
  <2> QED BY <2>1, InStateFinite, FS_EmptySet
<1>6. remaining + Cardinality(InState("inflight")) <= left
  BY DEF ApiInv
<1>7. remaining' + Cardinality(InState("inflight")') <= left'
  BY <1>1, <1>2, <1>4, <1>5, <1>6
<1> QED BY <1>1, <1>2, <1>3, <1>7 DEF ApiInv

\* The server's window ends and the quota is whole again.
LEMMA ApiTicks == ApiInv /\ ApiTypeOK' /\ RetriesOK' /\ Tick => ApiInv'
<1> SUFFICES ASSUME ApiInv, ApiTypeOK', RetriesOK', Tick PROVE ApiInv'
    OBVIOUS
<1>1. /\ left' = Quota /\ beforeReset' = FALSE /\ UNCHANGED <<remaining, informed>>
      /\ InState("inflight")' = InState("inflight")
  BY DEF Tick, InState, ApiInv, ApiTypeOK
<1>2. left \in 0 .. Quota /\ remaining \in Nat /\ Cardinality(InState("inflight")) \in Nat /\ Quota \in Nat
  BY InStateFinite, ApiAssumption DEF ApiInv, ApiTypeOK, ApiAssumption
<1> QED BY <1>1, <1>2 DEF ApiInv

\* Every step of the requests keeps the invariant.
LEMMA ApiStep == ApiInv /\ [ApiNext]_apiVars => ApiInv'
<1> SUFFICES ASSUME ApiInv, [ApiNext]_apiVars PROVE ApiInv'
    OBVIOUS
<1>1. ApiTypeOK' /\ RetriesOK'
  BY ApiTypeStep, ApiRetriesStep DEF ApiInv
<1>2. ASSUME NEW c \in Callers,
             Call(c) \/ TakeRetryAfter(c) \/ WakeFromRetryAfter(c) \/ SleepUntilReset(c)
                \/ BackoffEnds(c) \/ CancelSleep(c)
      PROVE  ApiInv'
  <2>1. /\ UNCHANGED <<left, remaining, beforeReset, informed>>
        /\ apiPC[c] \in {"idle", "wait", "sleepRetry", "check", "sleepReset", "backoff"}
        /\ \E pc \in {"idle", "wait", "sleepRetry", "check", "sleepReset"} : apiPC' = [apiPC EXCEPT ![c] = pc]
    BY <1>2 DEF Call, TakeRetryAfter, WakeFromRetryAfter, SleepUntilReset, BackoffEnds, CancelSleep, AtCheck
  <2>2. /\ InState("inflight")' = InState("inflight") /\ InState("woken")' = InState("woken")
        /\ InState("answered")' = InState("answered")
    BY <2>1 DEF InState, ApiInv, ApiTypeOK
  <2> QED BY <1>1, <2>1, <2>2, ApiAside
<1>3. ASSUME NEW c \in Callers, Lose(c) PROVE ApiInv'
  BY <1>1, <1>3 DEF Lose, ApiInv
<1>4. CASE UNCHANGED apiVars
  BY <1>1, <1>4, ApiAside DEF apiVars, InState
<1> QED BY <1>1, <1>2, <1>3, <1>4, ApiPasses, ApiReceives, ApiServes, ApiTicks DEF ApiNext, CallerStep

\* For any number of callers, any quota and any number of retries: while the
\* limiter knows the server's count, what it lets through is admitted.
THEOREM InformedIsAdmitted == Spec => []InformedIsNotRefused
<1>1. Init => ApiInv
  BY ApiInitial DEF Init
<1>2. ApiInv /\ [Next]_operationVars => ApiInv'
  <2>1. [Next]_operationVars => [ApiNext]_apiVars
    BY DEF Next, operationVars
  <2> QED BY <2>1, ApiStep
<1>3. ApiInv => InformedIsNotRefused
  <2> SUFFICES ASSUME ApiInv, NEW c \in Callers, informed, apiPC[c] = "inflight" PROVE left > 0
      BY DEF InformedIsNotRefused
  <2>1. Cardinality(InState("inflight")) # 0
    <3>1. c \in InState("inflight")
      BY DEF InState
    <3> QED BY <3>1, InStateFinite, FS_EmptySet
  <2> QED BY <2>1, InStateFinite, ApiAssumption DEF ApiInv, ApiTypeOK, ApiAssumption
<1> QED BY <1>1, <1>2, <1>3, PTL DEF Spec

-----------------------------------------------------------------------------
(* `gz selfupdate', for any number of updates at once. *)

UpdateSpec == UpdateInit /\ [][UpdateNext]_updateVars

Whole(f) == f \in Files /\ f.data = "durable"

(***************************************************************************)
(* Why the binary survives.  Every file that is or has been at the current *)
(* path is safe on disk, because an updater validates nothing before it    *)
(* has synced its own; and an updater that has taken the binary away has   *)
(* it in its backup until it has put one back.                             *)
(***************************************************************************)
FilesOK ==
    /\ binary # NoFile => Whole(binary)
    /\ \A f \in before : Whole(f)
    /\ system = "windows" => before = {}
    /\ \A u \in Updaters : backup[u] # NoFile => Whole(backup[u])

UpdatersOK ==
    \A u \in Updaters :
        /\ updPC[u] \in {"download", "sync"} => stage[u] # NoFile
        /\ updPC[u] \in {"validate", "replace", "moved"} => Whole(stage[u])
        /\ updPC[u] \in {"moved", "restore"} => backup[u] # NoFile
        /\ told[u] => updPC[u] = "error"

Keeps(u) == backup[u] # NoFile /\ (updPC[u] \in {"moved", "restore", "killed"} \/ told[u])

Kept == binary = NoFile => system = "windows" /\ \E u \in Updaters : Keeps(u)

SurvivalInv == UpdateTypeOK /\ FilesOK /\ UpdatersOK /\ Kept

\* The value for a missing file is no file, and not a whole one.
LEMMA NoFileIsNone == NoFile \notin Files /\ ~Whole(NoFile)
  BY NoFileAssumption DEF NoFileAssumption, Whole

\* Before any update a whole binary is installed.
LEMMA UpdateInitial == UpdateInit => SurvivalInv
  BY NoFileIsNone DEF UpdateInit, SurvivalInv, UpdateTypeOK, FilesOK, UpdatersOK, Kept, Whole, Files

\* A step of one updater that does not touch the current path or any backup.
LEMMA UpdaterPrepares ==
    ASSUME SurvivalInv, NEW u \in Updaters, NEW pc, Go(u, pc),
           pc \in AtWork \union {"left", "ok", "error", "killed"},
           updPC[u] # "killed", pc = "killed" \/ updPC[u] \notin {"moved", "restore"}, ~told[u],
           stage' \in [Updaters -> Files \union {NoFile}],
           \A v \in Updaters \ {u} : stage'[v] = stage[v],
           pc \in {"download", "sync"} => stage'[u] # NoFile,
           pc \in {"validate", "replace"} => Whole(stage'[u]),
           pc \notin {"moved", "restore"},
           began' \in [Updaters -> Files \union {NoFile}],
           UNCHANGED <<system, binary, before, backup, told>>
    PROVE  SurvivalInv'
<1> USE DEF SurvivalInv
<1>1. UpdateTypeOK'
  BY DEF UpdateTypeOK, Go
<1>2. \A v \in Updaters \ {u} : updPC'[v] = updPC[v] /\ stage'[v] = stage[v]
  BY DEF UpdateTypeOK, Go
<1>3. updPC'[u] = pc
  BY DEF UpdateTypeOK, Go
<1>4. FilesOK' /\ UpdatersOK'
  BY <1>2, <1>3 DEF FilesOK, UpdatersOK
<1>5. \A v \in Updaters : Keeps(v) => Keeps(v)'
  <2> TAKE v \in Updaters
  <2>1. CASE v = u
    BY <1>3, <2>1 DEF Keeps
  <2>2. CASE v # u
    BY <1>2, <2>2 DEF Keeps
  <2> QED BY <2>1, <2>2
<1>6. Kept'
  BY <1>5 DEF Kept
<1> QED BY <1>1, <1>4, <1>6

\* Each step of an updater leaves a whole binary, or its backup.
LEMMA UpdaterSteps ==
    ASSUME SurvivalInv, NEW u \in Updaters, UpdaterStep(u)
    PROVE  SurvivalInv'
<1> USE DEF SurvivalInv
<1>0. updPC[u] \notin {"error", "killed"} /\ ~told[u]
  BY DEF UpdateTypeOK, UpdatersOK, UpdaterStep, BeginDownload, LeaveEarly, Download, SyncFile, Validate,
         FailCleanly, RenameOver, SyncDirectory, MoveToBackup, MoveIntoPlace, Restore, RemoveBackup,
         KillUpdate, AtWork
<1>1. CASE BeginDownload(u)
  <2>1. [by |-> u, data |-> "partial"] \in Files /\ [by |-> u, data |-> "partial"] # NoFile
    BY NoFileIsNone DEF Files
  <2>2. updPC[u] = "idle" /\ Go(u, "download") /\ UNCHANGED <<system, binary, before, backup, told>>
    BY <1>1 DEF BeginDownload
  <2>4. /\ stage' \in [Updaters -> Files \union {NoFile}] /\ stage'[u] # NoFile
        /\ \A v \in Updaters \ {u} : stage'[v] = stage[v]
    BY <1>1, <2>1 DEF BeginDownload, UpdateTypeOK
  <2>3. began' \in [Updaters -> Files \union {NoFile}]
    BY <1>1 DEF BeginDownload, UpdateTypeOK
  <2> QED BY <1>0, <2>2, <2>3, <2>4, UpdaterPrepares DEF AtWork
<1>2. CASE LeaveEarly(u)
  BY <1>0, <1>2, UpdaterPrepares DEF LeaveEarly, UpdateTypeOK, AtWork
<1>3. CASE Download(u)
  <2>1. stage[u] \in Files
    BY <1>3 DEF Download, UpdatersOK, UpdateTypeOK
  <2>2. /\ stage' \in [Updaters -> Files \union {NoFile}] /\ stage'[u] # NoFile
        /\ \A v \in Updaters \ {u} : stage'[v] = stage[v]
    BY <1>3, <2>1, NoFileIsNone DEF Download, Files, Whole, UpdateTypeOK
  <2>3. updPC[u] \in {"download", "sync"} /\ Go(u, "sync") /\ UNCHANGED <<system, binary, before, backup, began, told>>
    BY <1>3 DEF Download
  <2> QED BY <1>0, <2>2, <2>3, UpdaterPrepares DEF UpdateTypeOK, AtWork
<1>4. CASE SyncFile(u)
  <2>1. stage[u] \in Files
    BY <1>4 DEF SyncFile, UpdatersOK, UpdateTypeOK
  <2>2. /\ stage' \in [Updaters -> Files \union {NoFile}] /\ Whole(stage'[u])
        /\ \A v \in Updaters \ {u} : stage'[v] = stage[v]
    BY <1>4, <2>1, NoFileIsNone DEF SyncFile, Files, Whole, UpdateTypeOK
  <2>3. updPC[u] \in {"download", "sync"} /\ Go(u, "validate") /\ UNCHANGED <<system, binary, before, backup, began, told>>
    BY <1>4 DEF SyncFile
  <2> QED BY <1>0, <2>2, <2>3, UpdaterPrepares DEF UpdateTypeOK, AtWork
<1>5. CASE Validate(u)
  BY <1>0, <1>5, UpdaterPrepares DEF Validate, UpdatersOK, UpdateTypeOK, AtWork
<1>6. CASE FailCleanly(u)
  BY <1>0, <1>6, UpdaterPrepares DEF FailCleanly, UpdateTypeOK, AtWork
<1>7. CASE RenameOver(u)
  <2>1. Whole(stage[u]) /\ stage[u] # NoFile
    BY <1>7, NoFileIsNone DEF RenameOver, UpdatersOK
  <2>2. UpdateTypeOK'
    BY <1>7, <2>1 DEF RenameOver, UpdateTypeOK, Whole, Go, AtWork
  <2>3. FilesOK' /\ Kept'
    BY <1>7, <2>1, NoFileIsNone DEF RenameOver, FilesOK, Kept
  <2>4. UpdatersOK'
    BY <1>0, <1>7 DEF RenameOver, UpdatersOK, UpdateTypeOK, Go
  <2> QED BY <2>2, <2>3, <2>4
<1>8. CASE SyncDirectory(u)
  <2>1. UpdateTypeOK'
    BY <1>8 DEF SyncDirectory, UpdateTypeOK, Go
  <2>2. FilesOK'
    BY <1>8 DEF SyncDirectory, FilesOK
  <2>3. UpdatersOK' /\ Kept'
    BY <1>0, <1>8 DEF SyncDirectory, UpdatersOK, Kept, Keeps, UpdateTypeOK, Go
  <2> QED BY <2>1, <2>2, <2>3
<1>9. CASE MoveToBackup(u)
  <2>1. UpdateTypeOK'
    BY <1>9 DEF MoveToBackup, UpdateTypeOK, Go, AtWork
  <2>2. FilesOK'
    BY <1>9 DEF MoveToBackup, FilesOK, UpdateTypeOK
  <2>3. UpdatersOK' /\ Keeps(u)'
    BY <1>0, <1>9 DEF MoveToBackup, UpdatersOK, Keeps, UpdateTypeOK, Go
  <2>4. Kept'
    BY <1>9, <2>3 DEF MoveToBackup, Kept
  <2> QED BY <2>1, <2>2, <2>3, <2>4
<1>10. CASE MoveIntoPlace(u)
  <2>1. Whole(stage[u]) /\ stage[u] # NoFile /\ backup[u] # NoFile
    BY <1>10, NoFileIsNone DEF MoveIntoPlace, UpdatersOK
  <2>2. UpdateTypeOK'
    BY <1>10, <2>1 DEF MoveIntoPlace, UpdateTypeOK, Whole, Go, AtWork
  <2>3. FilesOK'
    BY <1>10, <2>1 DEF MoveIntoPlace, FilesOK
  <2>4. UpdatersOK'
    BY <1>0, <1>10, <2>1 DEF MoveIntoPlace, UpdatersOK, UpdateTypeOK, Go
  <2>5. Kept'
    BY <1>0, <1>10, <2>1 DEF MoveIntoPlace, Kept, Keeps, UpdateTypeOK, Go
  <2> QED BY <2>2, <2>3, <2>4, <2>5
<1>11. CASE Restore(u)
  <2>1. backup[u] # NoFile /\ Whole(backup[u])
    BY <1>11 DEF Restore, UpdatersOK, FilesOK
  <2>2. UpdateTypeOK'
    BY <1>11, <2>1 DEF Restore, UpdateTypeOK, Whole, Go
  <2>3. FilesOK'
    BY <1>11, <2>1, NoFileIsNone DEF Restore, FilesOK, UpdateTypeOK
  <2>4. UpdatersOK'
    BY <1>0, <1>11 DEF Restore, UpdatersOK, UpdateTypeOK, Go
  <2>5. Kept'
    BY <1>0, <1>11, <2>1 DEF Restore, Kept, Keeps, UpdateTypeOK, Go
  <2> QED BY <2>2, <2>3, <2>4, <2>5
<1>12. CASE RemoveBackup(u)
  <2>1. UpdateTypeOK'
    BY <1>12 DEF RemoveBackup, UpdateTypeOK, Go
  <2>2. FilesOK'
    BY <1>12, NoFileIsNone DEF RemoveBackup, FilesOK, UpdateTypeOK
  <2>3. UpdatersOK' /\ Kept'
    BY <1>0, <1>12 DEF RemoveBackup, UpdatersOK, Kept, Keeps, UpdateTypeOK, Go
  <2> QED BY <2>1, <2>2, <2>3
<1>13. CASE KillUpdate(u)
  BY <1>0, <1>13, UpdaterPrepares DEF KillUpdate, UpdateTypeOK, AtWork
<1> QED BY <1>1, <1>2, <1>3, <1>4, <1>5, <1>6, <1>7, <1>8, <1>9, <1>10, <1>11, <1>12, <1>13 DEF UpdaterStep

\* A power failure kills the updaters and may lose the data of files.
LEMMA PowerFailure == SurvivalInv /\ PowerFails => SurvivalInv'
<1> SUFFICES ASSUME SurvivalInv, PowerFails PROVE SurvivalInv'
    OBVIOUS
<1> USE DEF SurvivalInv
<1>1. \A f \in Files \union {NoFile} : LoseData(f) \in Files \union {NoFile}
  BY NoFileIsNone DEF LoseData, Files
<1>2. \A f : Whole(f) \/ f = NoFile => LoseData(f) = f
  BY DEF LoseData, Whole
<1>3. PICK f \in before \union {binary} : binary' = f
  BY <1>2 DEF PowerFails, FilesOK
<1>4. UpdateTypeOK'
  BY <1>1, <1>3 DEF PowerFails, UpdateTypeOK
<1>5. FilesOK'
  BY <1>3 DEF PowerFails, FilesOK
<1>6. UpdatersOK'
  BY DEF PowerFails, UpdatersOK, UpdateTypeOK, AtWork
<1>7. Kept'
  BY <1>3, NoFileIsNone DEF PowerFails, Kept, Keeps, FilesOK, UpdateTypeOK, AtWork
<1> QED BY <1>4, <1>5, <1>6, <1>7

\* Every step of the updates keeps the invariant.
LEMMA SurvivalStep == SurvivalInv /\ [UpdateNext]_updateVars => SurvivalInv'
<1> SUFFICES ASSUME SurvivalInv, [UpdateNext]_updateVars PROVE SurvivalInv'
    OBVIOUS
<1>1. CASE \E u \in Updaters : UpdaterStep(u)
  BY <1>1, UpdaterSteps
<1>2. CASE PowerFails
  BY <1>2, PowerFailure
<1>3. CASE InstallAnew
  BY <1>3, NoFileIsNone DEF InstallAnew, SurvivalInv, UpdateTypeOK, FilesOK, UpdatersOK, Kept, Whole, Files
<1>4. CASE UNCHANGED updateVars
  BY <1>4 DEF updateVars, SurvivalInv, UpdateTypeOK, FilesOK, UpdatersOK, Kept, Keeps
<1> QED BY <1>1, <1>2, <1>3, <1>4 DEF UpdateNext

\* Files, identities and stages of an update keep their types.
THEOREM UpdateTypeCorrect == UpdateSpec => []UpdateTypeOK
<1>1. SurvivalInv => UpdateTypeOK
  BY DEF SurvivalInv
<1> QED BY <1>1, UpdateInitial, SurvivalStep, PTL DEF UpdateSpec

\* Any number of updates, killed anywhere and losing their power at any time,
\* leave a whole binary at the current path, or on Windows one that an updater
\* keeps and the user can find.
THEOREM SurvivesUpdates == UpdateSpec => []BinarySurvives
<1>1. SurvivalInv => BinarySurvives
  BY NoFileIsNone DEF SurvivalInv, BinarySurvives, FilesOK, Kept, Keeps, Whole
<1> QED BY <1>1, UpdateInitial, SurvivalStep, PTL DEF UpdateSpec

-----------------------------------------------------------------------------
(* The settings of a repository, for any branches, states and targets. *)
SettingsSpec == SettingsInit /\ [][SettingsNext]_settingsVars

(***************************************************************************)
(* Why effect follows consent.  At every point of an update each setting   *)
(* is either as it was or as it is wanted by now, what the user was shown  *)
(* is what the repository was like, and the stages that are over have left *)
(* nothing undone.                                                         *)
(***************************************************************************)
\* What was read is all that can be read, of a protected default branch.
SeenAsItWas ==
    /\ seen.private = wasLike.private
    /\ seen.archived = wasLike.archived
    /\ seen.default = wasLike.default
    /\ seen.admins[wasLike.default] = wasLike.admins[wasLike.default]
    /\ wasLike.admins[wasLike.default] # "none"

ConsentOK ==
    /\ consent = "none" =>
         setPC \notin {"patch", "protect", "permit", "ok"} /\ (~edited => repository = wasLike)
    /\ consent = "unasked" => misread # "no"
    /\ setPC \in {"read", "ask"} => consent = "none"
    /\ setPC = "patch" /\ ~edited => repository = wasLike
    /\ consent = "not needed" => Changes(seen, target) = {}
    /\ ~edited /\ misread = "no" /\ (setPC = "ask" \/ consent \in {"not needed", "skip"}) => SeenAsItWas

HalfWay ==
    /\ repository.private \in {wasLike.private, Wanted.private}
    /\ repository.archived \in {wasLike.archived, Wanted.archived}
    /\ repository.default \in {wasLike.default, Wanted.default}
    /\ \A b \in Branches :
         \/ repository.admins[b] = wasLike.admins[b]
         \/ repository.admins[b] = Wanted.admins[b] /\ Wanted.admins[b] # "none"

StagesDone ==
    /\ setPC \in {"protect", "permit", "ok"} =>
         /\ repository.private = Wanted.private
         /\ repository.archived = Wanted.archived
         /\ Wanted.default \in {NoBranch, repository.default}
         /\ \A b \in Branches \ toProtect : Wanted.admins[b] \in {"none", repository.admins[b]}
    /\ setPC = "protect" => \A b \in toProtect : Wanted.admins[b] # "none"
    /\ setPC \in {"permit", "ok"} => toProtect = {}
    /\ setPC = "ok" => Wanted.team \in {"none", repository.team}

SettingsInv ==
    /\ SettingsTypeOK
    /\ ConsentOK
    /\ ~edited => HalfWay /\ StagesDone

-----------------------------------------------------------------------------
\* What makes each field a change.
LEMMA ChangeFacts ==
    ASSUME NEW old, NEW new
    PROVE  /\ Changes(old, new) \subseteq {"private", "archive", "unarchive", "default_branch",
                  "branch_protection", "enforce_admins", "permission_escalation", "new_permission"}
           /\ "private" \in Changes(old, new) <=> old.private # new.private
           /\ "archive" \in Changes(old, new) <=> ~old.archived /\ new.archived
           /\ "unarchive" \in Changes(old, new) <=> old.archived /\ ~new.archived
           /\ "default_branch" \in Changes(old, new) <=> new.default \notin {old.default, NoBranch}
           /\ "permission_escalation" \in Changes(old, new) <=> old.team = "read" /\ new.team = "admin"
           /\ "new_permission" \in Changes(old, new) <=> old.team = "none" /\ new.team # "none"
<1>1. Changes(old, new) \subseteq {"private", "archive", "unarchive", "default_branch",
                           "branch_protection", "enforce_admins", "permission_escalation", "new_permission"}
  BY DEF Changes
<1>2. "private" \in Changes(old, new) <=> old.private # new.private
  BY DEF Changes
<1>3. "archive" \in Changes(old, new) <=> ~old.archived /\ new.archived
  BY DEF Changes
<1>4. "unarchive" \in Changes(old, new) <=> old.archived /\ ~new.archived
  BY DEF Changes
<1>5. "default_branch" \in Changes(old, new) <=> new.default \notin {old.default, NoBranch}
  BY DEF Changes
<1>8. "permission_escalation" \in Changes(old, new) <=> old.team = "read" /\ new.team = "admin"
  BY DEF Changes
<1>9. "new_permission" \in Changes(old, new) <=> old.team = "none" /\ new.team # "none"
  BY DEF Changes
<1> QED BY <1>1, <1>2, <1>3, <1>4, <1>5, <1>8, <1>9

\* The same of the fields that are about some branch.
LEMMA ProtectionChange ==
    ASSUME NEW old, NEW new
    PROVE  "branch_protection" \in Changes(old, new)
             <=> \E b \in Branches : old.admins[b] # "none" /\ new.admins[b] = "none"
BY DEF Changes

\* And of administrators who become free to bypass the protection of one.
LEMMA AdminsChange ==
    ASSUME NEW old, NEW new
    PROVE  "enforce_admins" \in Changes(old, new)
             <=> \E b \in Branches : old.admins[b] = "bound" /\ new.admins[b] = "free"
BY DEF Changes

RiskyFields == {"private", "archive", "default_branch", "branch_protection", "enforce_admins"}

\* The risky ones among any changes.
LEMMA RiskyFacts ==
    ASSUME NEW old, NEW new
    PROVE  Risky(Changes(old, new)) = Changes(old, new) \intersect RiskyFields
<1>1. \A f \in Changes(old, new) : RiskOf(f) \in {"critical", "high"} <=> f \in RiskyFields
  BY ChangeFacts DEF RiskOf, RiskyFields
<1> QED BY <1>1 DEF Risky

\* A configuration that is filtered is one.
LEMMA FilteredType ==
    ASSUME NEW old \in SettingsOf(Branches), NEW new \in SettingsOf(Branches \union {NoBranch})
    PROVE  Filtered(old, new) \in SettingsOf(Branches \union {NoBranch})
BY DEF Filtered, SettingsOf, Protections, Levels

\* What is wanted is a configuration.
LEMMA WantedType == SettingsTypeOK => Wanted \in SettingsOf(Branches \union {NoBranch})
BY FilteredType DEF Wanted, SettingsTypeOK

\* What somebody who had not said yes to it all wants changes nothing risky of
\* what he was shown.
LEMMA WantedIsHarmless ==
    ASSUME SettingsTypeOK, SeenAsItWas,
           \/ consent = "not needed" /\ Changes(seen, target) = {}
           \/ consent = "skip"
    PROVE  /\ Wanted.private = wasLike.private
           /\ Wanted.archived => wasLike.archived
           /\ Wanted.default \in {wasLike.default, NoBranch}
           /\ Wanted.admins[wasLike.default] = "free" => wasLike.admins[wasLike.default] # "bound"
<1> DEFINE home == wasLike.default
<1>0. /\ home \in Branches /\ seen.admins[home] = wasLike.admins[home] /\ wasLike.admins[home] # "none"
      /\ seen.archived \in BOOLEAN /\ target.archived \in BOOLEAN
      /\ target.admins[home] \in Protections
  BY DEF SettingsTypeOK, SeenAsItWas, SettingsOf
<1>1. CASE consent = "not needed" /\ Changes(seen, target) = {}
  <2>1. Wanted = target
    BY <1>1 DEF Wanted
  <2>2. seen.private = target.private
    BY <1>1, ChangeFacts
  <2>3. target.archived => seen.archived
    BY <1>1, ChangeFacts
  <2>4. target.default \in {seen.default, NoBranch}
    BY <1>1, ChangeFacts
  <2>5. ~(seen.admins[home] = "bound" /\ target.admins[home] = "free")
    BY <1>0, <1>1, AdminsChange
  <2> QED BY <1>0, <2>1, <2>2, <2>3, <2>4, <2>5 DEF SeenAsItWas
<1>2. CASE consent = "skip"
  <2> DEFINE shown == Changes(seen, target)
             w == Filtered(seen, target)
  <2>1. Wanted = w
    BY <1>2 DEF Wanted
  <2>a. \A f \in RiskyFields : f \in Risky(shown) <=> f \in shown
    BY RiskyFacts
  <2>b. "private" \in shown <=> seen.private # target.private
    BY ChangeFacts
  <2>c. "archive" \in shown <=> ~seen.archived /\ target.archived
    BY ChangeFacts
  <2>d. "default_branch" \in shown <=> target.default \notin {seen.default, NoBranch}
    BY ChangeFacts
  <2>e. seen.admins[home] = "bound" /\ target.admins[home] = "free" => "enforce_admins" \in shown
    BY <1>0, AdminsChange
  <2>2. /\ "private" \in Risky(shown) <=> seen.private # target.private
        /\ "archive" \in Risky(shown) <=> ~seen.archived /\ target.archived
        /\ "default_branch" \in Risky(shown) <=> target.default \notin {seen.default, NoBranch}
        /\ (seen.admins[home] = "bound" /\ target.admins[home] = "free") => "enforce_admins" \in Risky(shown)
    BY <2>a, <2>b, <2>c, <2>d, <2>e DEF RiskyFields
  <2>3. w.private = IF "private" \in Risky(shown) THEN seen.private ELSE target.private
    BY DEF Filtered
  <2>4. w.archived = IF "archive" \in Risky(shown) THEN seen.archived ELSE target.archived
    BY DEF Filtered
  <2>5. w.default = IF "default_branch" \in Risky(shown) THEN seen.default ELSE target.default
    BY DEF Filtered
  <2>6. w.admins[home] = IF "enforce_admins" \in Risky(shown) /\ seen.admins[home] # "none" /\ target.admins[home] # "none"
                           THEN seen.admins[home] ELSE target.admins[home]
    BY <1>0 DEF Filtered
  <2> HIDE DEF w, shown
  <2>7. w.private = seen.private
    BY <2>2, <2>3
  <2>8. w.archived => seen.archived
    BY <1>0, <2>2, <2>4
  <2>9. w.default \in {seen.default, NoBranch}
    BY <2>2, <2>5
  <2>10. w.admins[home] = "free" => seen.admins[home] # "bound"
    BY <1>0, <2>2, <2>6
  <2> QED BY <1>0, <2>1, <2>7, <2>8, <2>9, <2>10 DEF SeenAsItWas
<1> QED BY <1>1, <1>2

\* Half-way to something harmless, nothing risky has been done but to branches
\* that were not read.
LEMMA HalfWayIsHarmless ==
    ASSUME SettingsTypeOK, HalfWay, SeenAsItWas,
           \/ consent = "not needed" /\ Changes(seen, target) = {}
           \/ consent = "skip"
    PROVE  OnlyUnreadLoosened
<1> DEFINE home == wasLike.default
<1>1. /\ home \in Branches /\ repository.default \in Branches
      /\ wasLike.admins[home] # "none"
  BY DEF SettingsTypeOK, SettingsOf, SeenAsItWas
<1>2. repository.private = wasLike.private
  BY WantedIsHarmless DEF HalfWay
<1>3. "private" \notin Changes(wasLike, repository)
  BY <1>2, ChangeFacts
<1>4. repository.archived => wasLike.archived
  BY WantedIsHarmless DEF HalfWay
<1>5. "archive" \notin Changes(wasLike, repository)
  BY <1>4, ChangeFacts
<1>6. repository.default = wasLike.default
  BY <1>1, WantedIsHarmless, SettingsAssumption DEF HalfWay, SettingsAssumption
<1>7. "default_branch" \notin Changes(wasLike, repository)
  BY <1>6, ChangeFacts
<1>8. ~\E b \in Branches : wasLike.admins[b] # "none" /\ repository.admins[b] = "none"
  BY DEF HalfWay
<1>9. "branch_protection" \notin Changes(wasLike, repository)
  BY <1>8, ProtectionChange
<1>10. MadeSoFar \subseteq {"enforce_admins"}
  <2>1. MadeSoFar = Changes(wasLike, repository) \intersect RiskyFields
    BY RiskyFacts DEF MadeSoFar
  <2> QED BY <1>3, <1>5, <1>7, <1>9, <2>1 DEF RiskyFields
<1>11. repository.admins[home] = "free" => wasLike.admins[home] # "bound"
  BY <1>1, WantedIsHarmless DEF HalfWay
<1>12. home \notin Loosened
  BY <1>11 DEF Loosened
<1> QED BY <1>10, <1>12 DEF OnlyUnreadLoosened

\* Changes that are not risky have been made by an update that skipped others
\* and ended well.
LEMMA OthersAreMade ==
    ASSUME SettingsTypeOK, consent = "skip", StagesDone, setPC = "ok"
    PROVE  OthersMade
<1> DEFINE shown == Changes(seen, target)
           w == Filtered(seen, target)
<1>1. /\ w.archived = IF "archive" \in Risky(shown) THEN seen.archived ELSE target.archived
      /\ w.team = IF target.team = "none" \/ shown \intersect {"permission_escalation", "new_permission"} # {}
                    THEN target.team ELSE seen.team
  BY DEF Filtered
<1>2. Wanted = w
  BY DEF Wanted
<1> HIDE DEF w
<1>3. repository.archived = w.archived /\ w.team \in {"none", repository.team}
  BY <1>2 DEF StagesDone
<1>4. "unarchive" \notin shown \intersect Changes(repository, target)
  <2> SUFFICES ASSUME "unarchive" \in shown, "unarchive" \in Changes(repository, target) PROVE FALSE
      OBVIOUS
  <2>1. seen.archived /\ ~target.archived
    BY ChangeFacts
  <2>2. repository.archived
    BY ChangeFacts
  <2>3. "archive" \notin shown
    BY <2>1, ChangeFacts
  <2>4. "archive" \notin Risky(shown)
    BY <2>3, RiskyFacts
  <2> QED BY <1>1, <1>3, <2>1, <2>2, <2>4
<1>5. "permission_escalation" \notin shown \intersect Changes(repository, target)
  <2> SUFFICES ASSUME "permission_escalation" \in shown, "permission_escalation" \in Changes(repository, target)
               PROVE  FALSE
      OBVIOUS
  <2>1. target.team = "admin"
    BY ChangeFacts
  <2>2. repository.team = "read"
    BY ChangeFacts
  <2>3. w.team = target.team
    BY <1>1
  <2> QED BY <1>3, <2>1, <2>2, <2>3
<1>6. "new_permission" \notin shown \intersect Changes(repository, target)
  <2> SUFFICES ASSUME "new_permission" \in shown, "new_permission" \in Changes(repository, target)
               PROVE  FALSE
      OBVIOUS
  <2>1. target.team # "none"
    BY ChangeFacts
  <2>2. repository.team = "none"
    BY ChangeFacts
  <2>3. w.team = target.team
    BY <1>1
  <2> QED BY <1>3, <2>1, <2>2, <2>3
<1>7. shown \subseteq RiskyFields \union {"unarchive", "permission_escalation", "new_permission"}
  BY ChangeFacts DEF RiskyFields
<1> HIDE DEF shown
<1>8. shown \intersect Changes(repository, target) \subseteq shown \intersect RiskyFields
  BY <1>4, <1>5, <1>6, <1>7
<1>9. Risky(shown) = shown \intersect RiskyFields
  BY RiskyFacts DEF shown
<1> QED BY <1>8, <1>9 DEF OthersMade, shown

\* An invariant state is one in which consent and effect agree.
LEMMA SettingsAgree == SettingsInv => SettingsFollowConsent
<1> SUFFICES ASSUME SettingsInv PROVE SettingsFollowConsent
    OBVIOUS
<1> USE DEF SettingsInv
<1>1. ASSUME misread = "no", ~edited, Unasked PROVE OnlyUnreadLoosened
  <2>1. CASE consent = "none"
    <3>1. repository = wasLike
      BY <1>1, <2>1 DEF ConsentOK
    <3>2. "private" \notin Changes(wasLike, wasLike) /\ "archive" \notin Changes(wasLike, wasLike)
      BY ChangeFacts
    <3>3. "default_branch" \notin Changes(wasLike, wasLike)
      BY ChangeFacts
    <3>4. "branch_protection" \notin Changes(wasLike, wasLike)
      BY ProtectionChange
    <3>5. MadeSoFar \subseteq {"enforce_admins"}
      BY <3>1, <3>2, <3>3, <3>4, RiskyFacts DEF MadeSoFar, RiskyFields
    <3>6. Loosened = {}
      BY <3>1 DEF Loosened
    <3> QED BY <3>5, <3>6 DEF OnlyUnreadLoosened
  <2>2. CASE consent \in {"not needed", "skip"}
    <3>1. HalfWay /\ SeenAsItWas /\ SettingsTypeOK
      BY <1>1, <2>2 DEF ConsentOK
    <3>2. (consent = "not needed" /\ Changes(seen, target) = {}) \/ consent = "skip"
      BY <2>2 DEF ConsentOK
    <3> QED BY <3>1, <3>2, HalfWayIsHarmless
  <2>3. consent \in {"none", "not needed", "skip"}
    BY <1>1 DEF Unasked, ConsentOK, SettingsTypeOK
  <2> QED BY <2>1, <2>2, <2>3
<1>2. ASSUME setPC = "ok", ~edited, consent = "skip" PROVE OthersMade
  BY <1>2, OthersAreMade
<1>3. ASSUME setPC = "ok", ~edited, consent # "skip" PROVE AllMade
  <2>1. Wanted = target
    BY <1>3 DEF Wanted
  <2>2. StagesDone
    BY <1>3
  <2> QED BY <1>3, <2>1, <2>2 DEF StagesDone, AllMade
<1> QED BY <1>1, <1>2, <1>3 DEF SettingsFollowConsent

-----------------------------------------------------------------------------
\* Before the first command no setting was changed.
LEMMA SettingsInitial == SettingsInit => SettingsInv
<1> SUFFICES ASSUME SettingsInit PROVE SettingsInv
    OBVIOUS
<1>1. target \in Targets
  BY SettingsAssumption DEF SettingsInit, SettingsAssumption
<1>2. SettingsTypeOK
  BY <1>1, SettingsAssumption DEF SettingsInit, SettingsAssumption, SettingsTypeOK, Working
<1> QED BY <1>2 DEF SettingsInit, SettingsInv, ConsentOK, HalfWay, StagesDone

\* A new setting is one.
LEMMA SettingsTypeStep == SettingsTypeOK /\ [SettingsNext]_settingsVars => SettingsTypeOK'
<1> SUFFICES ASSUME SettingsTypeOK, [SettingsNext]_settingsVars PROVE SettingsTypeOK'
    OBVIOUS
<1>0. Wanted \in SettingsOf(Branches \union {NoBranch})
  BY WantedType
<1>1. CASE BeginUpdate
  BY <1>1, SettingsAssumption DEF BeginUpdate, SettingsAssumption, SettingsTypeOK, Working
<1>2. CASE ReadFails
  BY <1>2 DEF ReadFails, SettingsTypeOK, Working
<1>3. CASE ReadConfiguration
  <2>1. PICK lost \in SUBSET {"protection", "permissions"} :
           /\ seen' = [repository EXCEPT
                        !.admins = [b \in Branches |-> IF b = repository.default /\ "protection" \notin lost
                                                         THEN @[b] ELSE "none"],
                        !.team = IF "permissions" \in lost THEN "none" ELSE @]
           /\ misread' \in {"no", "failed"}
    BY <1>3 DEF ReadConfiguration
  <2>2. seen' \in SettingsOf(Branches)
    BY <2>1 DEF SettingsTypeOK, SettingsOf, Protections, Levels
  <2>3. consent' \in {"not needed", "none"} /\ setPC' \in {"patch", "ask"}
        /\ UNCHANGED <<repository, wasLike, target, prompt, toProtect, edited>>
    BY <1>3 DEF ReadConfiguration
  <2> QED BY <2>1, <2>2, <2>3 DEF SettingsTypeOK, Working
<1>4. CASE Confirm \/ Decline \/ UpdateFails
  BY <1>4 DEF Confirm, Decline, UpdateFails, SettingsTypeOK, Working
<1>5. CASE PatchSettings
  <2>1. repository' \in SettingsOf(Branches)
    BY <1>0, <1>5 DEF PatchSettings, SettingsTypeOK, SettingsOf
  <2>2. setPC' \in {"permit", "protect", "error"} /\ toProtect' \subseteq Branches
        /\ UNCHANGED <<wasLike, target, prompt, seen, misread, consent, edited>>
    BY <1>5 DEF PatchSettings
  <2> QED BY <2>1, <2>2 DEF SettingsTypeOK, Working
<1>6. CASE ProtectBranch
  <2>1. PICK b \in toProtect :
           repository' = [repository EXCEPT !.admins[b] = Wanted.admins[b]] /\ toProtect' = toProtect \ {b}
    BY <1>6 DEF ProtectBranch
  <2>2. b \in Branches /\ Wanted.admins[b] \in Protections
    BY <1>0, <2>1 DEF SettingsTypeOK, SettingsOf
  <2>3. repository' \in SettingsOf(Branches)
    BY <2>1, <2>2 DEF SettingsTypeOK, SettingsOf
  <2>4. setPC' \in {"permit", "protect", "error"} /\ toProtect' \subseteq Branches
        /\ UNCHANGED <<wasLike, target, prompt, seen, misread, consent, edited>>
    BY <1>6, <2>1 DEF ProtectBranch, SettingsTypeOK
  <2> QED BY <2>3, <2>4 DEF SettingsTypeOK, Working
<1>7. CASE UpdatePermissions
  <2>1. repository' \in SettingsOf(Branches)
    BY <1>0, <1>7 DEF UpdatePermissions, SettingsTypeOK, SettingsOf
  <2> QED BY <1>7, <2>1 DEF UpdatePermissions, SettingsTypeOK, Working
<1>8. CASE SomebodyEdits
  BY <1>8, SettingsAssumption DEF SomebodyEdits, SettingsAssumption, SettingsTypeOK
<1>9. CASE UNCHANGED settingsVars
  BY <1>9 DEF settingsVars, SettingsTypeOK
<1> QED BY <1>1, <1>2, <1>3, <1>4, <1>5, <1>6, <1>7, <1>8, <1>9 DEF SettingsNext

\* The steps before the first change: the repository is as it was.
LEMMA SettingsRead ==
    ASSUME SettingsInv, SettingsTypeOK', BeginUpdate \/ ReadFails \/ ReadConfiguration
    PROVE  SettingsInv'
<1> USE DEF SettingsInv
<1>1. CASE BeginUpdate
  <2>1. /\ consent' = (IF setPC' = "patch" THEN "waived" ELSE "none") /\ setPC' \in {"patch", "read"}
        /\ wasLike' = repository /\ repository' = repository
    BY <1>1 DEF BeginUpdate
  <2>2. ConsentOK'
    BY <2>1 DEF ConsentOK
  <2>3. HalfWay' /\ StagesDone'
    BY <2>1 DEF HalfWay, StagesDone
  <2> QED BY <2>2, <2>3
<1>2. CASE ReadFails
  <2>1. setPC = "read" /\ consent' = "unasked" /\ setPC' = "patch" /\ misread' # "no"
        /\ UNCHANGED <<repository, wasLike, target, edited>>
    BY <1>2 DEF ReadFails
  <2>2. ~edited => repository = wasLike
    BY <2>1 DEF ConsentOK
  <2>3. ConsentOK'
    BY <2>1, <2>2 DEF ConsentOK
  <2>4. ~edited' => HalfWay' /\ StagesDone'
    BY <2>1, <2>2 DEF HalfWay, StagesDone
  <2> QED BY <2>3, <2>4
<1>3. CASE ReadConfiguration
  <2>1. /\ setPC = "read" /\ UNCHANGED <<repository, wasLike, target, prompt, toProtect, edited>>
        /\ \/ Changes(seen', target) = {} /\ setPC' = "patch" /\ consent' = "not needed"
           \/ setPC' = "ask" /\ consent' = "none"
    BY <1>3 DEF ReadConfiguration
  <2>2. ~edited => repository = wasLike
    BY <2>1 DEF ConsentOK
  <2>3. ASSUME ~edited, misread' = "no" PROVE SeenAsItWas'
    <3>1. /\ repository.admins[repository.default] # "none"
          /\ seen' = [repository EXCEPT
                       !.admins = [b \in Branches |-> IF b = repository.default THEN @[b] ELSE "none"],
                       !.team = @]
      BY <1>3, <2>3 DEF ReadConfiguration
    <3>2. repository = wasLike /\ wasLike' = wasLike
      BY <2>1, <2>2, <2>3
    <3>3. repository \in SettingsOf(Branches)
      BY DEF SettingsTypeOK
    <3> QED BY <3>1, <3>2, <3>3 DEF SeenAsItWas, SettingsOf
  <2>4. ConsentOK'
    BY <2>1, <2>2, <2>3 DEF ConsentOK
  <2>5. ~edited' => HalfWay' /\ StagesDone'
    BY <2>1, <2>2 DEF HalfWay, StagesDone
  <2> QED BY <2>4, <2>5
<1> QED BY <1>1, <1>2, <1>3

\* The steps that touch nothing, and those of others.
LEMMA SettingsAside ==
    ASSUME SettingsInv, SettingsTypeOK',
           Confirm \/ Decline \/ UpdateFails \/ SomebodyEdits \/ UNCHANGED settingsVars
    PROVE  SettingsInv'
<1> USE DEF SettingsInv
<1>1. CASE Confirm
  <2>1. /\ setPC = "ask" /\ setPC' = "patch" /\ consent' \in {"all", "skip"}
        /\ UNCHANGED <<repository, wasLike, target, seen, misread, edited>>
    BY <1>1 DEF Confirm
  <2>2. ~edited => repository = wasLike
    BY <2>1 DEF ConsentOK
  <2>3. SeenAsItWas => SeenAsItWas'
    BY <2>1 DEF SeenAsItWas
  <2>4. ConsentOK'
    BY <2>1, <2>2, <2>3 DEF ConsentOK
  <2>5. ~edited' => HalfWay' /\ StagesDone'
    BY <2>1, <2>2 DEF HalfWay, StagesDone
  <2> QED BY <2>4, <2>5
<1>2. CASE Decline \/ UpdateFails
  <2>1. /\ setPC' \in {"declined", "error"}
        /\ UNCHANGED <<repository, wasLike, target, prompt, seen, misread, consent, toProtect, edited>>
    BY <1>2 DEF Decline, UpdateFails
  <2>2. ConsentOK'
    BY <2>1 DEF ConsentOK, SeenAsItWas
  <2>3. HalfWay => HalfWay'
    BY <2>1 DEF HalfWay, Wanted
  <2>4. StagesDone'
    BY <2>1 DEF StagesDone
  <2> QED BY <2>1, <2>2, <2>3, <2>4
<1>3. CASE SomebodyEdits
  BY <1>3 DEF SomebodyEdits, ConsentOK
<1>4. CASE UNCHANGED settingsVars
  BY <1>4 DEF settingsVars, ConsentOK, SeenAsItWas, HalfWay, StagesDone, Wanted
<1> QED BY <1>1, <1>2, <1>3, <1>4

\* The three stages.
LEMMA SettingsStages ==
    ASSUME SettingsInv, SettingsTypeOK', PatchSettings \/ ProtectBranch \/ UpdatePermissions
    PROVE  SettingsInv'
<1> USE DEF SettingsInv
<1>1. /\ UNCHANGED <<wasLike, target, prompt, seen, misread, consent, edited>>
      /\ setPC \in {"patch", "protect", "permit"} /\ setPC' \in {"protect", "permit", "ok", "error"}
  BY DEF PatchSettings, ProtectBranch, UpdatePermissions
<1>2. ConsentOK'
  BY <1>1 DEF ConsentOK, SeenAsItWas
<1>3. Wanted' = Wanted /\ Wanted \in SettingsOf(Branches \union {NoBranch})
  BY <1>1, WantedType DEF Wanted
<1>4. repository \in SettingsOf(Branches)
  BY DEF SettingsTypeOK
<1>5. CASE PatchSettings
  <2>1. /\ repository' = [repository EXCEPT !.private = Wanted.private, !.archived = Wanted.archived,
                            !.default = IF Wanted.default = NoBranch THEN @ ELSE Wanted.default]
        /\ toProtect' = {b \in Branches : Wanted.admins[b] # "none"}
        /\ setPC' \in {IF toProtect' = {} THEN "permit" ELSE "protect", "error"}
    BY <1>5 DEF PatchSettings
  <2>2. /\ repository'.private = Wanted.private /\ repository'.archived = Wanted.archived
        /\ repository'.default = IF Wanted.default = NoBranch THEN repository.default ELSE Wanted.default
        /\ repository'.admins = repository.admins
    BY <1>4, <2>1 DEF SettingsOf
  <2>3. HalfWay => HalfWay'
    BY <1>1, <1>3, <2>2 DEF HalfWay
  <2>4. StagesDone'
    BY <1>3, <2>1, <2>2 DEF StagesDone
  <2> QED BY <1>1, <1>2, <2>3, <2>4
<1>6. CASE ProtectBranch
  <2>1. PICK b \in toProtect :
           /\ repository' = [repository EXCEPT !.admins[b] = Wanted.admins[b]]
           /\ toProtect' = toProtect \ {b}
           /\ setPC' \in {IF toProtect' = {} THEN "permit" ELSE "protect", "error"}
    BY <1>6 DEF ProtectBranch
  <2>2. b \in Branches /\ setPC = "protect"
    BY <1>6, <2>1 DEF SettingsTypeOK, ProtectBranch
  <2>3. /\ repository'.private = repository.private /\ repository'.archived = repository.archived
        /\ repository'.default = repository.default
        /\ repository'.admins = [repository.admins EXCEPT ![b] = Wanted.admins[b]]
        /\ repository.admins \in [Branches -> Protections]
    BY <1>4, <2>1 DEF SettingsOf
  <2>4. ASSUME ~edited PROVE HalfWay' /\ StagesDone'
    <3>1. Wanted.admins[b] # "none"
      BY <2>1, <2>2, <2>4 DEF StagesDone
    <3>2. HalfWay'
      BY <1>1, <1>3, <2>3, <2>4, <3>1 DEF HalfWay
    <3>3. \A c \in Branches \ toProtect' : Wanted.admins[c] \in {"none", repository'.admins[c]}
      BY <2>1, <2>2, <2>3, <2>4 DEF StagesDone
    <3>4. StagesDone'
      BY <1>3, <2>1, <2>2, <2>3, <2>4, <3>3 DEF StagesDone
    <3> QED BY <3>2, <3>4
  <2> QED BY <1>1, <1>2, <2>4
<1>7. CASE UpdatePermissions
  <2>1. /\ repository' = [repository EXCEPT !.team = IF Wanted.team = "none" THEN @ ELSE Wanted.team]
        /\ setPC = "permit" /\ setPC' \in {"ok", "error"} /\ toProtect' = toProtect
    BY <1>7 DEF UpdatePermissions
  <2>2. /\ repository'.private = repository.private /\ repository'.archived = repository.archived
        /\ repository'.default = repository.default /\ repository'.admins = repository.admins
        /\ repository'.team = IF Wanted.team = "none" THEN repository.team ELSE Wanted.team
    BY <1>4, <2>1 DEF SettingsOf
  <2>3. HalfWay => HalfWay'
    BY <1>1, <1>3, <2>2 DEF HalfWay
  <2>4. StagesDone => StagesDone'
    BY <1>3, <2>1, <2>2 DEF StagesDone
  <2> QED BY <1>1, <1>2, <2>3, <2>4
<1> QED BY <1>5, <1>6, <1>7

\* Every step keeps the invariant.
LEMMA SettingsStep == SettingsInv /\ [SettingsNext]_settingsVars => SettingsInv'
  BY SettingsTypeStep, SettingsRead, SettingsAside, SettingsStages DEF SettingsInv, SettingsNext

\* Settings, targets, stages and answers keep their types.
THEOREM SettingsTypeCorrect == SettingsSpec => []SettingsTypeOK
<1>1. SettingsInv => SettingsTypeOK
  BY DEF SettingsInv
<1> QED BY <1>1, SettingsInitial, SettingsStep, PTL DEF SettingsSpec

\* Whatever a repository is like, whatever is wanted of it and wherever an
\* update ends, no setting, no default branch and no protection that is read is
\* changed riskily without consent, no branch loses its protection, and no change
\* that has consent is left out of an update that ends well.  A protection that
\* is never read, of a branch other than the default one, is excepted from it:
\* administrators become free to bypass it unasked.
THEOREM ConsentIsFollowed == SettingsSpec => []SettingsFollowConsent
  BY SettingsInitial, SettingsStep, SettingsAgree, PTL DEF SettingsSpec

-----------------------------------------------------------------------------
(* Repository streams, for any number of entries, page size and buffer. *)
StreamSpec == StreamInit /\ [][StreamNext]_streamVars

(***************************************************************************)
(* Why a stream is exact.  Until it is cut, what GitLab's consumer has     *)
(* received, what is in the channel and what is left of the page follow    *)
(* one another without a gap, up to the end of the page; an error that was *)
(* sent is the last thing in the channel.                                  *)
(***************************************************************************)
\* s goes on where the first n entries end.
GoesOn(s, n) == \A i \in DOMAIN s : s[i] = n + i

\* d entries are received and n more are in the channel.
Unbroken(d, n) ==
    /\ got = 1 .. d
    /\ n <= Len(chan) /\ \A i \in 1 .. n : chan[i] = d + i
    /\ \/ /\ n = Len(chan)
          /\ producer = "fetch" => d + n = (page - 1) * PageSize
          /\ producer = "send" => d + n + Len(toSend) = UpToPage(page) /\ GoesOn(toSend, d + n)
          /\ producer = "closed" => d + n = Total
       \/ n + 1 = Len(chan) /\ chan[n + 1] = StreamError /\ producer = "closed"

StreamRuns ==
    streamPC = "run" /\ streamKind = "gitlab" /\ ~cut =>
        ~repeated /\ \E d, n \in 0 .. Total : Unbroken(d, n)

StreamDone ==
    /\ ~cut /\ cached # NoList => cached = Entries
    /\ streamPC = "ok" /\ streamKind = "gitlab" /\ ~cut => got = Entries /\ ~repeated

StreamInv == StreamTypeOK /\ StreamRuns /\ StreamDone

\* The pages follow one another.
LEMMA Pages ==
    ASSUME NEW p \in Nat \ {0}
    PROVE  /\ p * PageSize \in Nat /\ (p - 1) * PageSize \in Nat /\ UpToPage(p) \in 0 .. Total
           /\ (p + 1) - 1 = p
           /\ p * PageSize = (p - 1) * PageSize + PageSize
<1>1. p * PageSize \in Nat /\ (p - 1) * PageSize \in Nat
  BY StreamAssumption DEF StreamAssumption
<1>2. p * PageSize = (p - 1) * PageSize + PageSize
  BY StreamAssumption DEF StreamAssumption
<1>3. UpToPage(p) \in 0 .. Total
  BY <1>1, StreamAssumption DEF StreamAssumption, UpToPage
<1> QED BY <1>1, <1>2, <1>3

\* A page that begins within the total holds what it should.
LEMMA PageHolds ==
    ASSUME NEW p \in Nat \ {0}, (p - 1) * PageSize <= Total
    PROVE  /\ PageOf(p) \in Seq(Entries)
           /\ Len(PageOf(p)) = UpToPage(p) - (p - 1) * PageSize
           /\ GoesOn(PageOf(p), (p - 1) * PageSize)
<1> DEFINE m == UpToPage(p) - (p - 1) * PageSize
           base == (p - 1) * PageSize
<1>1. base \in Nat /\ m \in Nat /\ base + m <= Total /\ Total \in Nat
  BY Pages, StreamAssumption DEF StreamAssumption, UpToPage
<1>2. PageOf(p) = [i \in 1 .. m |-> base + i]
  BY DEF PageOf
<1> HIDE DEF m, base
<1>3. \A i \in 1 .. m : base + i \in Entries
  BY <1>1 DEF Entries
<1>4. PageOf(p) \in Seq(Entries) /\ Len(PageOf(p)) = m /\ DOMAIN PageOf(p) = 1 .. m
  BY <1>1, <1>2, <1>3
<1>5. \A i \in 1 .. m : PageOf(p)[i] = base + i
  BY <1>2
<1> QED BY <1>4, <1>5 DEF GoesOn, m, base

\* No stream has begun.
LEMMA StreamInitial == StreamInit => StreamInv
<1> SUFFICES ASSUME StreamInit PROVE StreamInv
    OBVIOUS
<1>1. page = 1 /\ (page - 1) * PageSize <= Total
  BY StreamAssumption DEF StreamInit, StreamAssumption
<1>2. toSend \in Seq(Entries) /\ chan \in Seq(Entries \union {StreamError}) /\ Len(chan) <= BufferSize
  BY StreamAssumption DEF StreamInit, StreamAssumption
<1>3. /\ streamKind = "gitlab" /\ streamPC = "idle" /\ producer = "closed" /\ page \in Nat \ {0} /\ got = {}
      /\ repeated = FALSE /\ cached = NoList /\ streamCtxDone = FALSE /\ cut = FALSE
  BY DEF StreamInit
<1>4. StreamTypeOK
  BY <1>1, <1>2, <1>3 DEF StreamTypeOK
<1> QED BY <1>4 DEF StreamInit, StreamInv, StreamRuns, StreamDone

\* The stream's parts keep their types.
LEMMA StreamTypeStep == StreamTypeOK /\ [StreamNext]_streamVars => StreamTypeOK'
<1> SUFFICES ASSUME StreamTypeOK, [StreamNext]_streamVars PROVE StreamTypeOK'
    OBVIOUS
<1> USE DEF StreamTypeOK
<1>0. Total \in Nat /\ PageSize \in Nat \ {0} /\ BufferSize \in Nat \ {0} /\ StreamError = 0
  BY StreamAssumption DEF StreamAssumption, StreamError
<1>1. CASE StreamBegins
  <2>1. page' = 1 /\ (page' - 1) * PageSize <= Total
    BY <1>0, <1>1 DEF StreamBegins
  <2>2. toSend' \in Seq(Entries) /\ chan' \in Seq(Entries \union {StreamError}) /\ Len(chan') <= BufferSize
    BY <1>0, <1>1 DEF StreamBegins
  <2>3. streamKind' \in {"gitlab", "github"}
    BY <1>1 DEF StreamBegins
  <2>4. /\ streamPC' = "run" /\ producer' = "fetch" /\ page' \in Nat \ {0} /\ got' = {}
        /\ repeated' = FALSE /\ streamCtxDone' = FALSE /\ UNCHANGED <<cached, cut>>
    BY <1>1 DEF StreamBegins
  <2> QED BY <2>1, <2>2, <2>3, <2>4
<1>2. CASE CacheHit
  BY <1>2 DEF CacheHit
<1>3. CASE FetchPage
  BY <1>3, PageHolds DEF FetchPage
<1>4. CASE FetchFails
  <2>1. chan' \in Seq(Entries \union {StreamError}) /\ Len(chan') <= BufferSize /\ cut' \in BOOLEAN
    <3>1. CASE Len(chan) < BufferSize
      <4>1. chan' = Append(chan, StreamError) /\ cut' = cut
        BY <1>4, <3>1 DEF FetchFails
      <4>2. chan' \in Seq(Entries \union {StreamError}) /\ Len(chan') = Len(chan) + 1
        BY <4>1
      <4> QED BY <1>0, <3>1, <4>1, <4>2
    <3>2. CASE ~(Len(chan) < BufferSize)
      BY <1>4, <3>2 DEF FetchFails
    <3> QED BY <3>1, <3>2
  <2> QED BY <1>4, <2>1 DEF FetchFails
<1>5. CASE SendEntry
  <2>1. Head(toSend) \in Entries /\ Tail(toSend) \in Seq(Entries)
    BY <1>5 DEF SendEntry
  <2>2. chan' \in Seq(Entries \union {StreamError}) /\ Len(chan') <= BufferSize /\ toSend' \in Seq(Entries)
    BY <1>0, <1>5, <2>1 DEF SendEntry
  <2> QED BY <1>5, <2>2 DEF SendEntry
<1>6. CASE PageDone
  <2>1. page' \in Nat \ {0} /\ (page' - 1) * PageSize <= Total
    <3>1. CASE page' = page
      BY <3>1
    <3>2. CASE page' # page
      <4>1. page * PageSize < Total /\ page' = page + 1
        BY <1>6, <3>2 DEF PageDone
      <4>2. page' - 1 = page /\ page' \in Nat \ {0}
        BY <4>1
      <4>3. page * PageSize \in Nat
        BY Pages
      <4> QED BY <1>0, <4>1, <4>2, <4>3
    <3> QED BY <3>1, <3>2
  <2>2. producer' \in {"fetch", "send", "closed"}
    BY <1>6 DEF PageDone
  <2> QED BY <1>6, <2>1, <2>2 DEF PageDone
<1>7. CASE ProducerLeaves
  BY <1>7 DEF ProducerLeaves
<1>8. CASE ReceiveEntry \/ ReceiveError
  <2>1. chan # <<>> /\ chan' = Tail(chan)
    BY <1>8 DEF ReceiveEntry, ReceiveError, Receives
  <2>2. chan' \in Seq(Entries \union {StreamError}) /\ Len(chan') <= BufferSize
    BY <1>0, <2>1
  <2>3. got' \subseteq Entries /\ repeated' \in BOOLEAN /\ streamPC' \in {"idle", "run", "ok", "error"}
    BY <1>8 DEF ReceiveEntry, ReceiveError
  <2> QED BY <1>8, <2>2, <2>3 DEF ReceiveEntry, ReceiveError
<1>9. CASE StreamIsOver
  BY <1>9 DEF StreamIsOver
<1>10. CASE ConsumerLeaves \/ CancelStream
  BY <1>10 DEF ConsumerLeaves, CancelStream
<1>11. CASE UNCHANGED streamVars
  BY <1>11 DEF streamVars
<1> QED BY <1>1, <1>2, <1>3, <1>4, <1>5, <1>6, <1>7, <1>8, <1>9, <1>10, <1>11
      DEF StreamNext, ProducerStep, ConsumerStep

\* The producer's steps leave no gap.
LEMMA ProducerUnbroken ==
    ASSUME StreamInv, StreamTypeOK', ProducerStep
    PROVE  StreamRuns'
<1> USE DEF StreamInv
<1> SUFFICES ASSUME streamPC' = "run", streamKind' = "gitlab", ~cut'
             PROVE  ~repeated' /\ \E d, n \in 0 .. Total : Unbroken(d, n)'
    BY DEF StreamRuns
<1>0. /\ streamPC = "run" /\ streamKind = "gitlab" /\ ~cut /\ UNCHANGED <<got, repeated>>
      /\ producer \in {"fetch", "send"}
  BY DEF ProducerStep, FetchPage, FetchFails, SendEntry, PageDone, ProducerLeaves
<1>1. PICK d \in 0 .. Total, n \in 0 .. Total : Unbroken(d, n)
  BY <1>0 DEF StreamRuns
<1>2. n = Len(chan) /\ ~repeated' /\ got' = 1 .. d
  BY <1>0, <1>1 DEF Unbroken, StreamRuns
<1>3. Total \in Nat /\ PageSize \in Nat \ {0} /\ d \in Nat /\ n \in Nat
      /\ chan \in Seq(Entries \union {StreamError}) /\ toSend \in Seq(Entries) /\ page \in Nat \ {0}
  BY StreamAssumption DEF StreamAssumption, StreamTypeOK
<1>4. CASE FetchPage
  <2>1. d + n = (page - 1) * PageSize
    BY <1>1, <1>2, <1>4, StreamAssumption DEF Unbroken, FetchPage, StreamError, StreamAssumption
  <2>2. toSend' = PageOf(page) /\ producer' = "send" /\ UNCHANGED <<chan, page>>
    BY <1>4 DEF FetchPage
  <2>3. /\ Len(toSend') = UpToPage(page) - (page - 1) * PageSize
        /\ GoesOn(toSend', (page - 1) * PageSize)
    BY <2>2, PageHolds DEF StreamTypeOK
  <2>4. UpToPage(page) \in Nat /\ (page - 1) * PageSize \in Nat
    BY <1>3, Pages
  <2>5. d + n + Len(toSend') = UpToPage(page') /\ GoesOn(toSend', d + n)
    BY <2>1, <2>2, <2>3, <2>4
  <2>6. Unbroken(d, n)'
    BY <1>1, <1>2, <2>2, <2>5 DEF Unbroken, GoesOn
  <2> QED BY <1>2, <2>6
<1>5. CASE FetchFails
  <2>1. chan' = Append(chan, StreamError) /\ producer' = "closed"
    BY <1>5 DEF FetchFails
  <2>2. /\ Len(chan') = n + 1 /\ chan'[n + 1] = StreamError
        /\ \A i \in 1 .. n : chan'[i] = chan[i]
    BY <1>2, <1>3, <2>1
  <2>3. Unbroken(d, n)'
    BY <1>1, <1>2, <1>3, <2>1, <2>2 DEF Unbroken
  <2> QED BY <1>2, <2>3
<1>6. CASE SendEntry
  <2>1. /\ toSend # <<>> /\ chan' = Append(chan, Head(toSend)) /\ toSend' = Tail(toSend)
        /\ producer = "send" /\ producer' = "send" /\ page' = page
    BY <1>6 DEF SendEntry
  <2>2. d + n + Len(toSend) = UpToPage(page) /\ GoesOn(toSend, d + n)
    BY <1>1, <1>2, <1>3, <2>1 DEF Unbroken
  <2>3. Head(toSend) = d + n + 1 /\ d + n + 1 <= Total
    BY <1>3, <2>1, <2>2 DEF GoesOn, Entries
  <2>4. /\ Len(chan') = n + 1 /\ chan'[n + 1] = d + (n + 1)
        /\ \A i \in 1 .. n : chan'[i] = chan[i]
    BY <1>2, <1>3, <2>1, <2>3
  <2>5. /\ Len(toSend') = Len(toSend) - 1
        /\ \A i \in DOMAIN toSend' : toSend'[i] = toSend[i + 1] /\ i + 1 \in DOMAIN toSend /\ i \in Nat
    BY <1>3, <2>1
  <2>6. d + (n + 1) + Len(toSend') = UpToPage(page')
    BY <1>3, <2>1, <2>2, <2>5
  <2>7. GoesOn(toSend', d + (n + 1))
    BY <1>3, <2>2, <2>5 DEF GoesOn
  <2>8. n + 1 \in 0 .. Total
    BY <1>3, <2>3
  <2>9. \A i \in 1 .. n + 1 : chan'[i] = d + i
    <3> TAKE i \in 1 .. n + 1
    <3>1. i \in 1 .. n \/ i = n + 1
      BY <1>3
    <3> QED BY <1>1, <2>4, <3>1 DEF Unbroken
  <2>10. Unbroken(d, n + 1)'
    BY <1>2, <2>1, <2>4, <2>6, <2>7, <2>8, <2>9 DEF Unbroken, GoesOn
  <2> QED BY <1>2, <2>8, <2>10
<1>7. CASE PageDone
  <2>1. /\ toSend = <<>> /\ producer = "send" /\ chan' = chan
        /\ IF page * PageSize < Total
             THEN page' = page + 1 /\ producer' = "fetch"
             ELSE producer' = "closed" /\ UNCHANGED page
    BY <1>0, <1>7 DEF PageDone
  <2>2. d + n = UpToPage(page)
    BY <1>1, <1>2, <1>3, <2>1 DEF Unbroken
  <2>3. /\ producer' = "fetch" => d + n = (page' - 1) * PageSize
        /\ producer' = "closed" => d + n = Total
        /\ producer' # "send"
    BY <1>3, <2>1, <2>2, Pages DEF UpToPage
  <2>4. Unbroken(d, n)'
    BY <1>1, <1>2, <2>1, <2>3 DEF Unbroken
  <2> QED BY <1>2, <2>4
<1> QED BY <1>4, <1>5, <1>6, <1>7 DEF ProducerStep, ProducerLeaves

\* Nor do the consumer's; and when its call ends well, everything is there.
LEMMA ConsumerUnbroken ==
    ASSUME StreamInv, StreamTypeOK', ConsumerStep
    PROVE  StreamRuns' /\ StreamDone'
<1> USE DEF StreamInv
<1>1. CASE streamKind # "gitlab" \/ cut
  <2>1. streamKind' = streamKind /\ cut' = cut /\ (~cut => cached' = cached)
    BY <1>1 DEF ConsumerStep, ReceiveEntry, ReceiveError, StreamIsOver, ConsumerLeaves
  <2> QED BY <1>1, <2>1 DEF StreamRuns, StreamDone
<1>2. CASE streamKind = "gitlab" /\ ~cut
  <2>0. streamPC = "run" /\ streamKind' = "gitlab" /\ ~cut'
    BY <1>2 DEF ConsumerStep, ReceiveEntry, ReceiveError, StreamIsOver, ConsumerLeaves, Receives
  <2>1. PICK d \in 0 .. Total, n \in 0 .. Total : Unbroken(d, n)
    BY <1>2, <2>0 DEF StreamRuns
  <2>2. Total \in Nat /\ d \in Nat /\ n \in Nat /\ chan \in Seq(Entries \union {StreamError}) /\ ~repeated
    BY <1>2, <2>0, StreamAssumption DEF StreamAssumption, StreamTypeOK, StreamRuns
  <2>3. CASE ReceiveEntry
    <3>1. PICK e \in Entries : /\ chan # <<>> /\ Head(chan) = e
                               /\ got' = got \union {e} /\ repeated' = (repeated \/ e \in got)
      BY <2>3 DEF ReceiveEntry, Receives
    <3>2. chan' = Tail(chan) /\ UNCHANGED <<streamPC, producer, page, toSend, cached>>
      BY <2>3 DEF ReceiveEntry
    <3>3. n # 0
      BY <2>1, <2>2, <3>1 DEF Unbroken, StreamError, Entries
    <3>4. e = d + 1 /\ d + 1 <= Total
      BY <2>1, <2>2, <3>1, <3>3 DEF Unbroken, Entries
    <3>5. got' = 1 .. d + 1 /\ ~repeated'
      <4>1. got = 1 .. d
        BY <2>1 DEF Unbroken
      <4>2. (1 .. d) \union {d + 1} = 1 .. d + 1 /\ d + 1 \notin 1 .. d
        BY <2>2
      <4> QED BY <2>2, <3>1, <3>4, <4>1, <4>2
    <3>6. Len(chan') = Len(chan) - 1 /\ \A i \in 1 .. Len(chan) - 1 : chan'[i] = chan[i + 1]
      BY <2>2, <3>1, <3>2
    <3>7. n <= Len(chan) /\ Len(chan) \in Nat
      BY <2>1, <2>2 DEF Unbroken
    <3>8. \A i \in 1 .. n - 1 : chan'[i] = (d + 1) + i
      <4> TAKE i \in 1 .. n - 1
      <4>1. i + 1 \in 1 .. n /\ i \in 1 .. Len(chan) - 1
        BY <2>2, <3>7
      <4>2. chan'[i] = d + (i + 1)
        BY <2>1, <3>6, <4>1 DEF Unbroken
      <4> QED BY <2>2, <4>2
    <3>9. CASE n = Len(chan)
      <4>1. (d + 1) + (n - 1) = d + n
        BY <2>2
      <4>2. n - 1 = Len(chan') /\ n - 1 <= Len(chan')
        BY <3>6, <3>7, <3>9
      <4>3. /\ producer = "fetch" => d + n = (page - 1) * PageSize
            /\ producer = "send" => d + n + Len(toSend) = UpToPage(page) /\ GoesOn(toSend, d + n)
            /\ producer = "closed" => d + n = Total
        BY <2>1, <2>2, <3>9 DEF Unbroken
      <4>4. Unbroken(d + 1, n - 1)'
        BY <3>2, <3>5, <3>8, <4>1, <4>2, <4>3 DEF Unbroken, GoesOn
      <4>5. d + 1 \in 0 .. Total /\ n - 1 \in 0 .. Total
        BY <2>2, <3>3, <3>4
      <4>6. StreamRuns'
        BY <3>5, <4>4, <4>5 DEF StreamRuns
      <4> QED BY <1>2, <2>0, <3>2, <4>6, <2>3 DEF StreamDone, ReceiveEntry
    <3>10. CASE n # Len(chan)
      <4>1. n + 1 = Len(chan) /\ chan[n + 1] = StreamError /\ producer = "closed"
        BY <2>1, <3>10 DEF Unbroken
      <4>2. (n - 1) + 1 = Len(chan') /\ n - 1 <= Len(chan')
        BY <2>2, <3>6, <3>7, <4>1
      <4>3. chan'[(n - 1) + 1] = StreamError
        BY <2>2, <3>3, <3>6, <4>1
      <4>4. Unbroken(d + 1, n - 1)'
        BY <3>2, <3>5, <3>8, <4>1, <4>2, <4>3 DEF Unbroken
      <4>5. d + 1 \in 0 .. Total /\ n - 1 \in 0 .. Total
        BY <2>2, <3>3, <3>4
      <4>6. StreamRuns'
        BY <3>5, <4>4, <4>5 DEF StreamRuns
      <4> QED BY <1>2, <2>0, <3>2, <4>6, <2>3 DEF StreamDone, ReceiveEntry
    <3> QED BY <3>9, <3>10
  <2>4. CASE ReceiveError
    BY <1>2, <2>4 DEF ReceiveError, StreamRuns, StreamDone
  <2>5. CASE StreamIsOver
    <3>1. got = Entries
      BY <2>1, <2>2, <2>5 DEF StreamIsOver, Unbroken, Entries
    <3> QED BY <1>2, <2>2, <2>5, <3>1 DEF StreamIsOver, StreamRuns, StreamDone
  <2>6. CASE ConsumerLeaves
    BY <1>2, <2>6 DEF ConsumerLeaves
  <2> QED BY <2>3, <2>4, <2>5, <2>6 DEF ConsumerStep
<1> QED BY <1>1, <1>2

\* Every step keeps the invariant.
LEMMA StreamStep == StreamInv /\ [StreamNext]_streamVars => StreamInv'
<1> SUFFICES ASSUME StreamInv, [StreamNext]_streamVars PROVE StreamInv'
    OBVIOUS
<1>0. StreamTypeOK'
  BY StreamTypeStep DEF StreamInv
<1>1. CASE StreamBegins
  <2>1. /\ got' = 1 .. 0 /\ chan' = <<>> /\ producer' = "fetch" /\ page' = 1 /\ ~repeated'
        /\ cached' = cached /\ cut' = cut /\ streamPC' = "run"
    BY <1>1 DEF StreamBegins
  <2>2. (page' - 1) * PageSize = 0 /\ Len(chan') = 0 /\ 0 \in 0 .. Total
    BY <2>1, StreamAssumption DEF StreamAssumption
  <2>3. Unbroken(0, 0)'
    BY <2>1, <2>2 DEF Unbroken
  <2> QED BY <1>0, <2>1, <2>2, <2>3 DEF StreamInv, StreamRuns, StreamDone
<1>2. CASE CacheHit
  BY <1>0, <1>2 DEF CacheHit, StreamInv, StreamRuns, StreamDone
<1>3. CASE ProducerStep
  <2>1. StreamDone'
    BY <1>3 DEF ProducerStep, FetchPage, FetchFails, SendEntry, PageDone, ProducerLeaves, StreamInv, StreamDone
  <2> QED BY <1>0, <1>3, <2>1, ProducerUnbroken DEF StreamInv
<1>4. CASE ConsumerStep
  BY <1>0, <1>4, ConsumerUnbroken DEF StreamInv
<1>5. CASE CancelStream \/ UNCHANGED streamVars
  <2>1. UNCHANGED <<streamKind, streamPC, producer, page, toSend, chan, got, repeated, cached, cut>>
    BY <1>5 DEF CancelStream, streamVars
  <2>2. \A d, n : Unbroken(d, n) => Unbroken(d, n)'
    BY <2>1 DEF Unbroken, GoesOn
  <2>3. StreamRuns'
    BY <2>1, <2>2 DEF StreamInv, StreamRuns
  <2>4. StreamDone'
    BY <2>1 DEF StreamInv, StreamDone
  <2> QED BY <1>0, <2>3, <2>4 DEF StreamInv
<1> QED BY <1>1, <1>2, <1>3, <1>4, <1>5 DEF StreamNext

\* The parts of a stream keep their types, the channel its bound.
THEOREM StreamTypeCorrect == StreamSpec => []StreamTypeOK
<1>1. StreamInv => StreamTypeOK
  BY DEF StreamInv
<1> QED BY <1>1, StreamInitial, StreamStep, PTL DEF StreamSpec

\* Whatever the sizes of the group, a page and the buffer, a stream that is
\* not cut delivers every project once.
THEOREM StreamsAreExact == StreamSpec => []StreamIsExact
<1>1. StreamInv => StreamIsExact
  BY DEF StreamInv, StreamDone, StreamIsExact
<1> QED BY <1>1, StreamInitial, StreamStep, PTL DEF StreamSpec

-----------------------------------------------------------------------------
(* Package managers, for any set of them and any dependencies. *)
BootSpec == BootInit /\ [][BootNext]_bootVars

(***************************************************************************)
(* Why dependencies come first.  Kahn's loop places a manager after all    *)
(* that it depends on, so what is placed up to anywhere is closed under    *)
(* dependency, and nothing placed later is needed by anything before it.   *)
(***************************************************************************)
Nodes == Needed(requested)
Placed == Elements(sorted)

\* s holds nothing twice and nothing before what it depends on.
InOrder(s) ==
    \A j \in DOMAIN s :
        /\ \A i \in DOMAIN s : i < j => s[i] # s[j]
        /\ depends[s[j]] \subseteq {s[i] : i \in 1 .. j - 1}

SortOK ==
    bootPC = "sort" =>
        /\ Placed \subseteq Nodes /\ Len(sorted) = Cardinality(Placed) /\ InOrder(sorted)
        /\ ready = {n \in Nodes \ Placed : depends[n] \subseteq Placed}
        /\ \A n \in Nodes : inDegree[n] = Cardinality(depends[n] \ Placed)
        /\ handled = <<>>

\* Nothing in t is needed by anything in s.
Before(s, t) == \A i \in DOMAIN s, j \in DOMAIN t : t[j] \notin Needed({s[i]})
Free(s) == \A i, j \in DOMAIN s : i < j => s[j] \notin Needed({s[i]})

InstallOK ==
    bootPC \in {"install", "done"} =>
        /\ Free(handled) /\ Free(sorted) /\ Before(handled, sorted)
        /\ Elements(handled) \subseteq requested
        /\ requested \subseteq Elements(handled) \union Elements(sorted)
        /\ Len(handled) = Cardinality(Elements(handled))
        /\ ~Circular
        /\ bootPC = "done" => sorted = <<>>

CircleOK == bootPC = "circular" => Circular /\ handled = <<>>

IdleOK == bootPC = "idle" => handled = <<>>

BootInv == BootTypeOK /\ SortOK /\ InstallOK /\ CircleOK /\ IdleOK

-----------------------------------------------------------------------------
\* What is needed is closed under dependency, and the least such.
LEMMA NeededCloses ==
    ASSUME depends \in [Managers -> SUBSET Managers], NEW S \in SUBSET Managers
    PROVE  /\ S \subseteq Needed(S) /\ Needed(S) \subseteq Managers
           /\ \A c \in Needed(S) : depends[c] \subseteq Needed(S)
           /\ \A closed \in SUBSET Managers :
                S \subseteq closed /\ (\A c \in closed : depends[c] \subseteq closed) => Needed(S) \subseteq closed
<1>1. S \subseteq Needed(S) /\ Needed(S) \subseteq Managers
  BY DEF Needed
<1>2. ASSUME NEW c \in Needed(S), NEW d \in depends[c] PROVE d \in Needed(S)
  <2>1. c \in Managers /\ d \in Managers
    BY <1>1, <1>2
  <2>2. ASSUME NEW closed \in SUBSET Managers, S \subseteq closed, \A x \in closed : depends[x] \subseteq closed
        PROVE  d \in closed
    <3>1. c \in closed
      BY <2>2 DEF Needed
    <3> QED BY <1>2, <2>2, <3>1
  <2> QED BY <2>1, <2>2 DEF Needed
<1>3. ASSUME NEW closed \in SUBSET Managers, S \subseteq closed, \A c \in closed : depends[c] \subseteq closed
      PROVE  Needed(S) \subseteq closed
  BY <1>3 DEF Needed
<1> QED BY <1>1, <1>2, <1>3

\* Sets of managers are finite, and have at most as many elements.
LEMMA ManagersFinite ==
    \A S \in SUBSET Managers :
        IsFiniteSet(S) /\ Cardinality(S) \in 0 .. Cardinality(Managers) /\ Cardinality(Managers) \in Nat
<1> SUFFICES ASSUME NEW S \in SUBSET Managers
             PROVE  IsFiniteSet(S) /\ Cardinality(S) \in 0 .. Cardinality(Managers) /\ Cardinality(Managers) \in Nat
    OBVIOUS
<1>1. IsFiniteSet(Managers)
  BY BootstrapAssumption DEF BootstrapAssumption
<1>2. IsFiniteSet(S) /\ Cardinality(S) <= Cardinality(Managers)
  BY <1>1, FS_Subset
<1>3. Cardinality(S) \in Nat
  BY <1>2, FS_CardinalityType
<1>4. Cardinality(Managers) \in Nat
  BY <1>1, FS_CardinalityType
<1> QED BY <1>2, <1>3, <1>4

\* One more element at the end.
LEMMA ElementsAppend ==
    ASSUME NEW S, NEW s \in Seq(S), NEW x \in S
    PROVE  /\ Append(s, x) \in Seq(S) /\ Len(Append(s, x)) = Len(s) + 1
           /\ \A i \in DOMAIN s : Append(s, x)[i] = s[i]
           /\ Append(s, x)[Len(s) + 1] = x
           /\ DOMAIN s = 1 .. Len(s) /\ DOMAIN Append(s, x) = 1 .. Len(s) + 1 /\ Len(s) \in Nat
           /\ Elements(Append(s, x)) = Elements(s) \union {x}
<1>1. /\ Append(s, x) \in Seq(S) /\ Len(Append(s, x)) = Len(s) + 1
      /\ DOMAIN s = 1 .. Len(s) /\ DOMAIN Append(s, x) = 1 .. Len(s) + 1 /\ Len(s) \in Nat
  OBVIOUS
<1>2. (\A i \in DOMAIN s : Append(s, x)[i] = s[i]) /\ Append(s, x)[Len(s) + 1] = x
  OBVIOUS
<1>3. \A i \in 1 .. Len(s) + 1 : i \in 1 .. Len(s) \/ i = Len(s) + 1
  BY <1>1
<1>4. Elements(Append(s, x)) = Elements(s) \union {x}
  BY <1>1, <1>2, <1>3 DEF Elements
<1> QED BY <1>1, <1>2, <1>4

\* The first element taken away.
LEMMA ElementsTail ==
    ASSUME NEW S, NEW s \in Seq(S), s # <<>>
    PROVE  /\ Tail(s) \in Seq(S) /\ Head(s) \in S /\ Head(s) = s[1] /\ 1 \in DOMAIN s
           /\ \A i \in DOMAIN Tail(s) : i + 1 \in DOMAIN s /\ 1 < i + 1 /\ Tail(s)[i] = s[i + 1]
           /\ DOMAIN Tail(s) \subseteq Nat
           /\ Elements(s) = {Head(s)} \union Elements(Tail(s))
<1>1. Tail(s) \in Seq(S) /\ Head(s) \in S /\ Head(s) = s[1] /\ 1 \in DOMAIN s
  OBVIOUS
<1>2. \A i \in DOMAIN Tail(s) : i + 1 \in DOMAIN s /\ 1 < i + 1 /\ Tail(s)[i] = s[i + 1]
  OBVIOUS
<1>3. DOMAIN Tail(s) = 1 .. Len(s) - 1 /\ DOMAIN s = 1 .. Len(s) /\ Len(s) \in Nat
  OBVIOUS
<1>4. \A i \in DOMAIN s : i = 1 \/ (i - 1 \in DOMAIN Tail(s) /\ s[i] = Tail(s)[i - 1])
  BY <1>2, <1>3
<1>5. Elements(s) = {Head(s)} \union Elements(Tail(s))
  <2>1. Elements(s) \subseteq {Head(s)} \union Elements(Tail(s))
    BY <1>1, <1>4 DEF Elements
  <2>2. {Head(s)} \union Elements(Tail(s)) \subseteq Elements(s)
    BY <1>1, <1>2 DEF Elements
  <2> QED BY <2>1, <2>2
<1> QED BY <1>1, <1>2, <1>3, <1>5

\* A non-empty set of numbers has a least element.
LEMMA LeastNumber ==
    ASSUME NEW P \in SUBSET Nat, P # {}
    PROVE  \E n \in P : \A k \in P : n <= k
<1> DEFINE R == {p \in Nat \X Nat : p[1] < p[2]}
<1>1. IsWellFoundedOn(R, Nat)
  BY NatLessThanWellFounded DEF OpToRel
<1>2. PICK n \in P : \A k \in P : <<k, n>> \notin R
  <2> HIDE DEF R
  <2> QED BY <1>1, WFMin
<1>3. \A k \in P : k < n => <<k, n>> \in R
  OBVIOUS
<1>4. \A k \in P : ~(k < n) /\ k \in Nat /\ n \in Nat
  BY <1>2, <1>3
<1> QED BY <1>4

\* In an order, nothing later is needed by anything earlier, and nothing
\* depends on itself by way of others.
LEMMA OrderIsFree ==
    ASSUME depends \in [Managers -> SUBSET Managers], NEW s \in Seq(Managers), InOrder(s)
    PROVE  /\ Free(s)
           /\ \A circle \in SUBSET Elements(s) :
                (\A m \in circle : depends[m] \intersect circle # {}) => circle = {}
<1>0. DOMAIN s = 1 .. Len(s) /\ Len(s) \in Nat /\ \A i \in DOMAIN s : s[i] \in Managers
  OBVIOUS
<1>1. ASSUME NEW i \in DOMAIN s, NEW j \in DOMAIN s, i < j PROVE s[j] \notin Needed({s[i]})
  <2> DEFINE closed == {s[k] : k \in 1 .. i}
  <2>1. closed \in SUBSET Managers /\ {s[i]} \subseteq closed
    BY <1>0
  <2>2. ASSUME NEW c \in closed PROVE depends[c] \subseteq closed
    <3>1. PICK k \in 1 .. i : c = s[k]
      BY <2>2
    <3>2. k \in DOMAIN s /\ 1 .. k - 1 \subseteq 1 .. i
      BY <1>0
    <3>3. depends[s[k]] \subseteq {s[l] : l \in 1 .. k - 1}
      BY <3>2 DEF InOrder
    <3> QED BY <3>1, <3>2, <3>3
  <2>3. s[j] \notin closed
    <3> SUFFICES ASSUME NEW k \in 1 .. i, s[j] = s[k] PROVE FALSE
        OBVIOUS
    <3>1. k \in DOMAIN s /\ k < j
      BY <1>0, <1>1
    <3> QED BY <3>1 DEF InOrder
  <2> HIDE DEF closed
  <2>4. Needed({s[i]}) \subseteq closed
    <3>1. {s[i]} \in SUBSET Managers
      BY <1>0
    <3> QED BY <2>1, <2>2, <3>1, NeededCloses
  <2> QED BY <2>3, <2>4
<1>2. ASSUME NEW circle \in SUBSET Elements(s), \A m \in circle : depends[m] \intersect circle # {}, circle # {}
      PROVE  FALSE
  <2> DEFINE P == {k \in DOMAIN s : s[k] \in circle}
  <2>1. P # {} /\ P \in SUBSET Nat
    BY <1>0, <1>2 DEF Elements
  <2>2. PICK n \in P : \A k \in P : n <= k
    <3> HIDE DEF P
    <3> QED BY <2>1, LeastNumber
  <2>3. n \in DOMAIN s /\ s[n] \in circle
    OBVIOUS
  <2>4. PICK d \in circle : d \in depends[s[n]]
    BY <1>2, <2>3
  <2>5. PICK l \in 1 .. n - 1 : d = s[l]
    BY <2>3, <2>4 DEF InOrder
  <2>6. l \in P /\ l < n
    BY <1>0, <2>3, <2>4, <2>5
  <2> QED BY <2>2, <2>6
<1> QED BY <1>1, <1>2 DEF Free

-----------------------------------------------------------------------------
\* Nothing is being installed yet.
LEMMA BootInitial == BootInit => BootInv
<1> SUFFICES ASSUME BootInit PROVE BootInv
    OBVIOUS
<1>1. 0 \in 0 .. Cardinality(Managers)
  <2>1. {} \in SUBSET Managers
    OBVIOUS
  <2> QED BY <2>1, ManagersFinite
<1>2. BootTypeOK
  BY <1>1 DEF BootInit, BootTypeOK
<1> QED BY <1>2 DEF BootInit, BootInv, SortOK, InstallOK, CircleOK, IdleOK

\* What the parts of an invariant state are.
LEMMA BootFacts ==
    ASSUME BootTypeOK
    PROVE  /\ depends \in [Managers -> SUBSET Managers]
           /\ Nodes \subseteq Managers /\ requested \subseteq Nodes
           /\ \A n \in Nodes : depends[n] \subseteq Nodes
<1>1. depends \in [Managers -> SUBSET Managers]
  BY BootstrapAssumption DEF BootstrapAssumption, BootTypeOK
<1>2. requested \in SUBSET Managers
  BY DEF BootTypeOK
<1> QED BY <1>1, <1>2, NeededCloses DEF Nodes

\* An installation begins with the managers that were asked for.
LEMMA BootBegins == BootInv /\ BeginInstall => BootInv'
<1> SUFFICES ASSUME BootInv, BeginInstall PROVE BootInv'
    OBVIOUS
<1>1. /\ requested' \in SUBSET Managers /\ depends' = depends /\ bootPC' = "sort"
      /\ sorted' = <<>> /\ handled' = <<>>
  BY DEF BeginInstall
<1>2. depends \in [Managers -> SUBSET Managers] /\ depends \in Graphs
  BY BootFacts DEF BootInv, BootTypeOK
<1>3. Nodes' = Needed(requested') /\ Needed(requested') \subseteq Managers
  <2>1. Nodes' = Needed(requested')
    BY <1>1 DEF Nodes, Needed
  <2> QED BY <1>1, <1>2, <2>1, NeededCloses
<1>4. /\ inDegree' = [m \in Managers |-> IF m \in Nodes' THEN Cardinality(depends[m]) ELSE 0]
      /\ ready' = {m \in Nodes' : depends[m] = {}}
  BY <1>3 DEF BeginInstall
<1>5. \A S \in SUBSET Managers : Cardinality(S) \in 0 .. Cardinality(Managers)
  BY ManagersFinite
<1>6. 0 \in 0 .. Cardinality(Managers) /\ Cardinality({}) = 0
  <2>1. {} \in SUBSET Managers /\ Cardinality({}) = 0
    BY FS_EmptySet
  <2> QED BY <1>5, <2>1
<1>7. inDegree' \in [Managers -> 0 .. Cardinality(Managers)]
  BY <1>2, <1>4, <1>5, <1>6
<1>8. BootTypeOK'
  BY <1>1, <1>2, <1>3, <1>4, <1>7 DEF BootTypeOK
<1>9. Placed' = {} /\ InOrder(<<>>)'
  BY <1>1 DEF Placed, Elements, InOrder
<1>10. \A n \in Nodes' : inDegree'[n] = Cardinality(depends[n] \ {}) /\ (depends[n] = {} <=> depends[n] \subseteq {})
  <2> TAKE n \in Nodes'
  <2>1. depends[n] \ {} = depends[n] /\ n \in Managers
    BY <1>3
  <2> QED BY <1>4, <2>1
<1>11. SortOK'
  <2>1. ready' = {n \in Nodes' \ {} : depends[n] \subseteq {}}
    BY <1>4
  <2>2. InOrder(sorted)'
    BY <1>1 DEF InOrder
  <2>3. Len(sorted') = Cardinality({})
    BY <1>1, <1>6
  <2> QED BY <1>1, <1>9, <1>10, <2>1, <2>2, <2>3 DEF SortOK
<1> QED BY <1>1, <1>8, <1>11 DEF BootInv, InstallOK, CircleOK, IdleOK

\* Kahn's step: the manager placed last is what each that needs it waits for
\* no more.
LEMMA BootSorts == BootInv /\ SortNext => BootInv'
<1> SUFFICES ASSUME BootInv, SortNext PROVE BootInv'
    OBVIOUS
<1>0. /\ bootPC = "sort" /\ bootPC' = "sort" /\ UNCHANGED <<depends, requested, handled>>
  BY DEF SortNext
<1>1. PICK m \in ready :
         /\ sorted' = Append(sorted, m)
         /\ inDegree' = [n \in Managers |-> IF n \in Needing(m) THEN inDegree[n] - 1 ELSE inDegree[n]]
         /\ ready' = (ready \ {m}) \union {n \in Needing(m) : inDegree[n] = 1}
  BY DEF SortNext
<1>2. BootTypeOK
  BY DEF BootInv
<1>3. /\ Placed \subseteq Nodes /\ Len(sorted) = Cardinality(Placed) /\ InOrder(sorted)
      /\ ready = {n \in Nodes \ Placed : depends[n] \subseteq Placed}
      /\ \A n \in Nodes : inDegree[n] = Cardinality(depends[n] \ Placed)
      /\ handled = <<>>
  BY <1>0 DEF BootInv, SortOK
<1>4. /\ depends \in [Managers -> SUBSET Managers]
      /\ Nodes \subseteq Managers /\ requested \subseteq Nodes
      /\ \A n \in Nodes : depends[n] \subseteq Nodes
  BY <1>2, BootFacts
<1>5. m \in Nodes /\ m \notin Placed /\ depends[m] \subseteq Placed /\ m \in Managers
  BY <1>1, <1>3, <1>4
<1>6. Nodes' = Nodes /\ Needing(m) = {n \in Nodes : m \in depends[n]}
  BY <1>0 DEF Nodes, Needed, Needing
<1>7. sorted \in Seq(Managers) /\ inDegree \in [Managers -> 0 .. Cardinality(Managers)]
  BY <1>2 DEF BootTypeOK
<1>8. /\ sorted' \in Seq(Managers) /\ Len(sorted') = Len(sorted) + 1
      /\ DOMAIN sorted = 1 .. Len(sorted) /\ DOMAIN sorted' = 1 .. Len(sorted) + 1 /\ Len(sorted) \in Nat
      /\ \A i \in DOMAIN sorted : sorted'[i] = sorted[i]
      /\ sorted'[Len(sorted) + 1] = m
      /\ Placed' = Placed \union {m}
  BY <1>1, <1>5, <1>7, ElementsAppend DEF Placed
<1>9. \A n \in Nodes :
         /\ n \in Needing(m) => /\ Cardinality(depends[n] \ Placed) >= 1
                                /\ Cardinality(depends[n] \ Placed') = Cardinality(depends[n] \ Placed) - 1
                                /\ (Cardinality(depends[n] \ Placed) = 1 => depends[n] \subseteq Placed')
                                /\ (depends[n] \subseteq Placed' => Cardinality(depends[n] \ Placed) = 1)
         /\ n \notin Needing(m) => depends[n] \ Placed' = depends[n] \ Placed
  <2> TAKE n \in Nodes
  <2>1. CASE n \in Needing(m)
    <3> DEFINE D == depends[n] \ Placed
    <3>1. m \in D /\ depends[n] \ Placed' = D \ {m} /\ D \in SUBSET Managers
      BY <1>4, <1>5, <1>6, <1>8, <2>1
    <3>2. IsFiniteSet(D) /\ Cardinality(D) \in Nat
      BY <3>1, ManagersFinite
    <3>3. Cardinality(D \ {m}) = Cardinality(D) - 1 /\ IsFiniteSet(D \ {m})
      <4> HIDE DEF D
      <4> QED BY <3>1, <3>2, FS_RemoveElement
    <3>4. Cardinality(D \ {m}) \in Nat /\ (Cardinality(D \ {m}) = 0 <=> D \ {m} = {})
      <4> HIDE DEF D
      <4> QED BY <3>3, FS_CardinalityType, FS_EmptySet
    <3>5. Cardinality(D) >= 1 /\ (Cardinality(D) = 1 <=> D \ {m} = {})
      <4> HIDE DEF D
      <4> QED BY <3>2, <3>3, <3>4
    <3>6. depends[n] \subseteq Placed' <=> D \ {m} = {}
      BY <3>1
    <3> HIDE DEF D
    <3>7. /\ Cardinality(depends[n] \ Placed') = Cardinality(D) - 1 /\ Cardinality(D) >= 1
          /\ (Cardinality(D) = 1 <=> depends[n] \subseteq Placed')
      BY <3>1, <3>3, <3>5, <3>6
    <3> QED BY <2>1, <3>7 DEF D
  <2>2. CASE n \notin Needing(m)
    BY <1>6, <1>8, <2>2
  <2> QED BY <2>1, <2>2
<1>10. \A n \in Nodes : inDegree'[n] = Cardinality(depends[n] \ Placed')
  <2> TAKE n \in Nodes
  <2>1. CASE n \in Needing(m)
    BY <1>1, <1>3, <1>4, <1>9, <2>1
  <2>2. CASE n \notin Needing(m)
    BY <1>1, <1>3, <1>4, <1>9, <2>2
  <2> QED BY <2>1, <2>2
<1>11. ready' = {n \in Nodes \ Placed' : depends[n] \subseteq Placed'}
  <2>1. ASSUME NEW n \in ready' PROVE n \in Nodes \ Placed' /\ depends[n] \subseteq Placed'
    <3>1. CASE n \in ready \ {m}
      BY <1>3, <1>8, <3>1
    <3>2. CASE n \in Needing(m) /\ inDegree[n] = 1
      <4>1. n \in Nodes /\ m \in depends[n] /\ depends[n] \subseteq Placed'
        BY <1>3, <1>6, <1>9, <3>2
      <4>2. n # m
        BY <1>5, <4>1
      <4>3. n \notin Placed
        <5> SUFFICES ASSUME n \in Placed PROVE FALSE
            OBVIOUS
        <5>1. PICK j \in DOMAIN sorted : n = sorted[j]
          BY DEF Placed, Elements
        <5>2. PICK i \in 1 .. j - 1 : m = sorted[i]
          BY <1>3, <4>1, <5>1 DEF InOrder
        <5>3. i \in DOMAIN sorted
          BY <1>8, <5>2
        <5> QED BY <1>5, <5>2, <5>3 DEF Placed, Elements
      <4> QED BY <1>8, <4>1, <4>2, <4>3
    <3> QED BY <1>1, <2>1, <3>1, <3>2
  <2>2. ASSUME NEW n \in Nodes \ Placed', depends[n] \subseteq Placed' PROVE n \in ready'
    <3>1. n # m /\ n \in Nodes \ Placed
      BY <1>8, <2>2
    <3>2. CASE n \in Needing(m)
      BY <1>1, <1>3, <1>9, <2>2, <3>1, <3>2
    <3>3. CASE n \notin Needing(m)
      BY <1>1, <1>3, <1>6, <1>8, <2>2, <3>1, <3>3
    <3> QED BY <3>2, <3>3
  <2> QED BY <2>1, <2>2
<1>12. InOrder(sorted)'
  <2> SUFFICES ASSUME NEW j \in DOMAIN sorted'
               PROVE  /\ \A i \in DOMAIN sorted' : i < j => sorted'[i] # sorted'[j]
                      /\ depends[sorted'[j]] \subseteq {sorted'[i] : i \in 1 .. j - 1}
      BY <1>0 DEF InOrder
  <2>1. CASE j \in DOMAIN sorted
    <3>1. \A i \in 1 .. j - 1 : i \in DOMAIN sorted /\ sorted'[i] = sorted[i]
      BY <1>8, <2>1
    <3>2. depends[sorted[j]] \subseteq {sorted[i] : i \in 1 .. j - 1}
      BY <1>3, <2>1 DEF InOrder
    <3>3. \A i \in DOMAIN sorted' : i < j => i \in DOMAIN sorted /\ sorted[i] # sorted[j]
      BY <1>3, <1>8, <2>1 DEF InOrder
    <3> QED BY <1>8, <2>1, <3>1, <3>2, <3>3
  <2>2. CASE j = Len(sorted) + 1
    <3>1. \A i \in DOMAIN sorted' : i < j => i \in DOMAIN sorted /\ sorted'[i] \in Placed
      BY <1>8, <2>2 DEF Placed, Elements
    <3>2. Placed \subseteq {sorted'[i] : i \in 1 .. j - 1}
      BY <1>8, <2>2 DEF Placed, Elements
    <3> QED BY <1>5, <1>8, <2>2, <3>1, <3>2
  <2> QED BY <1>8, <2>1, <2>2
<1>13. Len(sorted') = Cardinality(Placed')
  <2>1. IsFiniteSet(Placed)
    BY <1>3, <1>4, ManagersFinite
  <2>2. Cardinality(Placed \union {m}) = Cardinality(Placed) + 1
    BY <1>5, <2>1, FS_AddElement
  <2> QED BY <1>3, <1>8, <2>2
<1>14. BootTypeOK'
  <2>1. \A n \in Managers : inDegree'[n] \in 0 .. Cardinality(Managers)
    <3> TAKE n \in Managers
    <3>1. CASE n \in Needing(m)
      <4>1. inDegree[n] >= 1 /\ inDegree'[n] = inDegree[n] - 1
        BY <1>1, <1>3, <1>6, <1>9, <3>1
      <4>2. Cardinality(Managers) \in Nat
        BY <1>4, ManagersFinite
      <4> QED BY <1>7, <4>1, <4>2
    <3>2. CASE n \notin Needing(m)
      BY <1>1, <1>7, <3>2
    <3> QED BY <3>1, <3>2
  <2>2. inDegree' \in [Managers -> 0 .. Cardinality(Managers)]
    BY <1>1, <2>1
  <2>3. ready' \subseteq Managers
    BY <1>4, <1>11
  <2> QED BY <1>0, <1>2, <1>8, <2>2, <2>3 DEF BootTypeOK
<1>15. SortOK'
  <2>1. Placed' \subseteq Nodes'
    BY <1>3, <1>5, <1>6, <1>8
  <2> QED BY <1>0, <1>3, <1>6, <1>10, <1>11, <1>12, <1>13, <2>1 DEF SortOK
<1> QED BY <1>0, <1>14, <1>15 DEF BootInv, InstallOK, CircleOK, IdleOK

\* The sort is over: all is placed, or what is not goes round in a circle.
LEMMA BootSortEnds == BootInv /\ SortEnds => BootInv'
<1> SUFFICES ASSUME BootInv, SortEnds PROVE BootInv'
    OBVIOUS
<1>0. /\ bootPC = "sort" /\ ready = {} /\ UNCHANGED <<depends, requested, inDegree, ready, sorted, handled>>
      /\ bootPC' = IF Len(sorted) = Cardinality(Nodes) THEN "install" ELSE "circular"
  BY DEF SortEnds, Nodes
<1>1. BootTypeOK /\ BootTypeOK'
  BY <1>0 DEF BootInv, BootTypeOK
<1>2. /\ Placed \subseteq Nodes /\ Len(sorted) = Cardinality(Placed) /\ InOrder(sorted)
      /\ ready = {n \in Nodes \ Placed : depends[n] \subseteq Placed}
      /\ handled = <<>>
  BY <1>0 DEF BootInv, SortOK
<1>3. /\ depends \in [Managers -> SUBSET Managers]
      /\ Nodes \subseteq Managers /\ requested \subseteq Nodes
      /\ \A n \in Nodes : depends[n] \subseteq Nodes
  BY <1>1, BootFacts
<1>4. sorted \in Seq(Managers)
  BY <1>1 DEF BootTypeOK
<1>5. Circular' = Circular
  BY <1>0 DEF Circular, Needed
<1>6. CASE Len(sorted) = Cardinality(Nodes)
  <2>1. Placed = Nodes
    <3>1. IsFiniteSet(Nodes)
      BY <1>3, ManagersFinite
    <3> QED BY <1>2, <1>6, <3>1, FS_Subset
  <2>2. /\ Free(sorted)
        /\ \A circle \in SUBSET Placed : (\A m \in circle : depends[m] \intersect circle # {}) => circle = {}
    BY <1>2, <1>3, <1>4, OrderIsFree DEF Placed
  <2>3. ~Circular
    <3> SUFFICES ASSUME NEW circle \in (SUBSET Nodes) \ {{}}, \A m \in circle : depends[m] \intersect circle # {}
                 PROVE  FALSE
        BY DEF Circular, Nodes
    <3>1. circle \in SUBSET Placed /\ circle # {}
      BY <2>1
    <3>2. circle = {}
      BY <2>2, <3>1
    <3> QED BY <3>1, <3>2
  <2>4. Free(sorted)' /\ Free(handled)' /\ Before(handled, sorted)'
    BY <1>0, <1>2, <2>2 DEF Free, Before, Needed
  <2>5. Elements(handled)' = {} /\ Elements(sorted)' = Placed /\ Len(handled') = 0 /\ Cardinality({}) = 0
    BY <1>0, <1>2, FS_EmptySet DEF Elements, Placed
  <2>6. bootPC' = "install"
    BY <1>0, <1>6
  <2>7. InstallOK'
    BY <1>0, <1>3, <1>5, <2>1, <2>3, <2>4, <2>5, <2>6 DEF InstallOK
  <2> QED BY <1>1, <2>6, <2>7 DEF BootInv, SortOK, CircleOK, IdleOK
<1>7. CASE Len(sorted) # Cardinality(Nodes)
  <2> DEFINE circle == Nodes \ Placed
  <2>1. circle # {}
    BY <1>2, <1>7
  <2>2. \A m \in circle : depends[m] \intersect circle # {}
    BY <1>0, <1>2, <1>3
  <2>3. Circular
    BY <2>1, <2>2 DEF Circular, Nodes
  <2>4. bootPC' = "circular"
    BY <1>0, <1>7
  <2> QED BY <1>0, <1>1, <1>2, <1>5, <2>3, <2>4 DEF BootInv, SortOK, InstallOK, CircleOK, IdleOK
<1> QED BY <1>6, <1>7

\* The next in the list is installed, if it was asked for.
LEMMA BootInstalls == BootInv /\ (InstallNext \/ DropUnrequested) => BootInv'
<1> SUFFICES ASSUME BootInv, InstallNext \/ DropUnrequested PROVE BootInv'
    OBVIOUS
<1>0. /\ bootPC = "install" /\ bootPC' = "install" /\ UNCHANGED <<depends, requested, inDegree, ready>>
      /\ sorted # <<>> /\ sorted' = Tail(sorted)
      /\ \/ Head(sorted) \in requested /\ handled' = Append(handled, Head(sorted))
         \/ Head(sorted) \notin requested /\ handled' = handled
  BY DEF InstallNext, DropUnrequested
<1>1. BootTypeOK
  BY DEF BootInv
<1>2. sorted \in Seq(Managers) /\ handled \in Seq(Managers) /\ requested \in SUBSET Managers
  BY <1>1 DEF BootTypeOK
<1>3. depends \in [Managers -> SUBSET Managers]
  BY <1>1, BootFacts
<1>4. /\ Free(handled) /\ Free(sorted) /\ Before(handled, sorted)
      /\ Elements(handled) \subseteq requested
      /\ requested \subseteq Elements(handled) \union Elements(sorted)
      /\ Len(handled) = Cardinality(Elements(handled))
      /\ ~Circular
  BY <1>0 DEF BootInv, InstallOK
<1>5. /\ sorted' \in Seq(Managers) /\ Head(sorted) \in Managers /\ Head(sorted) = sorted[1] /\ 1 \in DOMAIN sorted
      /\ \A i \in DOMAIN sorted' : i + 1 \in DOMAIN sorted /\ 1 < i + 1 /\ sorted'[i] = sorted[i + 1]
      /\ DOMAIN sorted' \subseteq Nat
      /\ Elements(sorted) = {Head(sorted)} \union Elements(sorted')
  BY <1>0, <1>2, ElementsTail
<1>6. ~Circular' /\ \A S : Needed(S)' = Needed(S)
  BY <1>0, <1>4 DEF Circular, Needed
<1>7. Free(sorted')
  <2> SUFFICES ASSUME NEW i \in DOMAIN sorted', NEW j \in DOMAIN sorted', i < j
               PROVE  sorted'[j] \notin Needed({sorted'[i]})
      BY DEF Free
  <2>1. i + 1 \in DOMAIN sorted /\ j + 1 \in DOMAIN sorted /\ i + 1 < j + 1
    BY <1>5
  <2>2. sorted[j + 1] \notin Needed({sorted[i + 1]})
    BY <1>4, <2>1 DEF Free
  <2> QED BY <1>5, <2>2
<1>8. Before(handled, sorted')
  BY <1>4, <1>5 DEF Before
<1>9. /\ Free(handled') /\ Before(handled', sorted')
      /\ handled' \in Seq(Managers)
      /\ Elements(handled') \subseteq requested
      /\ requested \subseteq Elements(handled') \union Elements(sorted')
      /\ Len(handled') = Cardinality(Elements(handled'))
  <2>1. CASE Head(sorted) \notin requested
    BY <1>0, <1>2, <1>4, <1>5, <1>8, <2>1
  <2>2. CASE Head(sorted) \in requested
    <3> DEFINE h == Head(sorted)
    <3>0. handled' = Append(handled, h) /\ h \in Managers
      BY <1>0, <1>5, <2>2
    <3>1. /\ handled' \in Seq(Managers) /\ Len(handled') = Len(handled) + 1
          /\ \A i \in DOMAIN handled : handled'[i] = handled[i]
          /\ handled'[Len(handled) + 1] = h
          /\ DOMAIN handled = 1 .. Len(handled) /\ DOMAIN handled' = 1 .. Len(handled) + 1 /\ Len(handled) \in Nat
          /\ Elements(handled') = Elements(handled) \union {h}
      <4> HIDE DEF h
      <4> QED BY <1>2, <3>0, ElementsAppend
    <3>2. \A i \in DOMAIN handled : h \notin Needed({handled[i]})
      BY <1>4, <1>5 DEF Before
    <3>3. h \notin Elements(handled)
      <4> SUFFICES ASSUME NEW i \in DOMAIN handled, handled[i] = h PROVE FALSE
          BY DEF Elements
      <4>1. {h} \in SUBSET Managers
        BY <3>0
      <4>2. h \in Needed({h})
        BY <1>3, <4>1, NeededCloses
      <4> QED BY <3>2, <4>2
    <3>4. Len(handled') = Cardinality(Elements(handled'))
      <4>1. IsFiniteSet(Elements(handled))
        BY <1>2, <1>4, ManagersFinite
      <4>2. Cardinality(Elements(handled) \union {h}) = Cardinality(Elements(handled)) + 1
        BY <3>3, <4>1, FS_AddElement
      <4> QED BY <1>4, <3>1, <4>2
    <3>5. Free(handled')
      <4> SUFFICES ASSUME NEW i \in DOMAIN handled', NEW j \in DOMAIN handled', i < j
                   PROVE  handled'[j] \notin Needed({handled'[i]})
          BY DEF Free
      <4>1. i \in DOMAIN handled /\ handled'[i] = handled[i]
        BY <3>1
      <4>2. CASE j \in DOMAIN handled
        BY <1>4, <3>1, <4>1, <4>2 DEF Free
      <4>3. CASE j = Len(handled) + 1
        BY <3>1, <3>2, <4>1, <4>3
      <4> QED BY <3>1, <4>2, <4>3
    <3>6. Before(handled', sorted')
      <4> SUFFICES ASSUME NEW i \in DOMAIN handled', NEW j \in DOMAIN sorted'
                   PROVE  sorted'[j] \notin Needed({handled'[i]})
          BY DEF Before
      <4>1. CASE i \in DOMAIN handled
        BY <1>8, <3>1, <4>1 DEF Before
      <4>2. CASE i = Len(handled) + 1
        BY <1>4, <1>5, <3>1, <4>2 DEF Free
      <4> QED BY <3>1, <4>1, <4>2
    <3> QED BY <1>4, <1>5, <2>2, <3>1, <3>4, <3>5, <3>6
  <2> QED BY <2>1, <2>2
<1>10. InstallOK'
  <2>1. Free(handled)' /\ Free(sorted)' /\ Before(handled, sorted)'
    BY <1>6, <1>7, <1>9 DEF Free, Before
  <2>2. Elements(handled)' = Elements(handled') /\ Elements(sorted)' = Elements(sorted')
    BY DEF Elements
  <2> QED BY <1>0, <1>6, <1>9, <2>1, <2>2 DEF InstallOK
<1>11. BootTypeOK'
  BY <1>0, <1>1, <1>5, <1>9 DEF BootTypeOK
<1> QED BY <1>0, <1>10, <1>11 DEF BootInv, SortOK, CircleOK, IdleOK

\* What is said of the lists stays true while they and the graph stay.
LEMMA ListsStay ==
    ASSUME UNCHANGED <<depends, requested, sorted, handled>>
    PROVE  /\ Free(sorted)' = Free(sorted) /\ Free(handled)' = Free(handled)
           /\ Before(handled, sorted)' = Before(handled, sorted)
           /\ Elements(handled)' = Elements(handled) /\ Elements(sorted)' = Elements(sorted)
           /\ Circular' = Circular
<1>1. Free(sorted)' = Free(sorted) /\ Free(handled)' = Free(handled)
  BY DEF Free, Needed
<1>2. Before(handled, sorted)' = Before(handled, sorted)
  BY DEF Before, Needed
<1>3. Elements(handled)' = Elements(handled) /\ Elements(sorted)' = Elements(sorted)
  BY DEF Elements
<1>4. Circular' = Circular
  BY DEF Circular, Needed
<1> QED BY <1>1, <1>2, <1>3, <1>4

\* Every step keeps the invariant.
LEMMA BootStep == BootInv /\ [BootNext]_bootVars => BootInv'
<1> SUFFICES ASSUME BootInv, [BootNext]_bootVars PROVE BootInv'
    OBVIOUS
<1>1. CASE InstallEnds
  <2>1. /\ bootPC = "install" /\ bootPC' = "done" /\ sorted = <<>>
        /\ UNCHANGED <<depends, requested, inDegree, ready, sorted, handled>>
    BY <1>1 DEF InstallEnds
  <2>2. BootTypeOK'
    BY <2>1 DEF BootInv, BootTypeOK
  <2>3. InstallOK'
    BY <2>1, ListsStay DEF BootInv, InstallOK
  <2> QED BY <2>1, <2>2, <2>3 DEF BootInv, SortOK, CircleOK, IdleOK
<1>2. CASE UNCHANGED bootVars
  <2>1. UNCHANGED <<depends, requested, inDegree, ready, sorted, handled, bootPC>>
    BY <1>2 DEF bootVars
  <2>2. BootTypeOK'
    BY <2>1 DEF BootInv, BootTypeOK
  <2>3. InstallOK' /\ CircleOK' /\ IdleOK'
    BY <2>1, ListsStay DEF BootInv, InstallOK, CircleOK, IdleOK
  <2>4. SortOK'
    BY <2>1 DEF BootInv, SortOK, Placed, Elements, Nodes, Needed, InOrder
  <2> QED BY <2>2, <2>3, <2>4 DEF BootInv
<1> QED BY <1>1, <1>2, BootBegins, BootSorts, BootSortEnds, BootInstalls DEF BootNext

\* An invariant state keeps the promise.
LEMMA BootFollows == BootInv => DependenciesComeFirst
<1> SUFFICES ASSUME BootInv PROVE DependenciesComeFirst
    OBVIOUS
<1>1. handled = <<>> \/ Free(handled)
  BY DEF BootInv, BootTypeOK, SortOK, InstallOK, CircleOK, IdleOK
<1>2. \A i, j \in DOMAIN handled : i < j => handled[j] \notin Needed({handled[i]})
  BY <1>1 DEF Free
<1>3. bootPC = "done" => Elements(handled) = requested /\ Len(handled) = Cardinality(requested)
  <2> SUFFICES ASSUME bootPC = "done" PROVE Elements(handled) = requested /\ Len(handled) = Cardinality(requested)
      OBVIOUS
  <2>1. /\ Elements(handled) \subseteq requested /\ requested \subseteq Elements(handled) \union Elements(sorted)
        /\ Len(handled) = Cardinality(Elements(handled)) /\ sorted = <<>>
    BY DEF BootInv, InstallOK
  <2>2. Elements(sorted) = {}
    BY <2>1 DEF Elements
  <2>3. Elements(handled) = requested
    BY <2>1, <2>2
  <2> QED BY <2>1, <2>3
<1> QED BY <1>2, <1>3 DEF BootInv, CircleOK, InstallOK, DependenciesComeFirst

\* Degrees, queue and lists keep their types.
THEOREM BootTypeCorrect == BootSpec => []BootTypeOK
<1>1. BootInv => BootTypeOK
  BY DEF BootInv
<1> QED BY <1>1, BootInitial, BootStep, PTL DEF BootSpec

\* For any managers and any dependencies between them, circular ones too.
THEOREM DependenciesFirst == BootSpec => []DependenciesComeFirst
  BY BootInitial, BootStep, BootFollows, PTL DEF BootSpec

-----------------------------------------------------------------------------
(***************************************************************************)
(* What was proved of the parts, for the composition.                      *)
(***************************************************************************)
\* A behaviour of the composition is one of each of its parts.
LEMMA SpecParts ==
    Spec => /\ SyncSpec /\ ExecSpec /\ GroupSpec
            /\ UpdateSpec /\ SettingsSpec /\ StreamSpec /\ BootSpec
            /\ ApiInit /\ [][ApiNext]_apiVars
<1>1. Init => /\ SyncInit /\ ExecInit /\ GroupInit
              /\ UpdateInit /\ SettingsInit /\ StreamInit /\ BootInit /\ ApiInit
  BY DEF Init
<1>2. [Next]_operationVars =>
        /\ [SyncNext]_syncVars /\ [ExecNext]_execVars /\ [GroupNext]_groupVars
        /\ [UpdateNext]_updateVars /\ [SettingsNext]_settingsVars /\ [StreamNext]_streamVars
        /\ [BootNext]_bootVars /\ [ApiNext]_apiVars
  BY DEF Next, operationVars
<1> QED BY <1>1, <1>2, PTL
      DEF Spec, SyncSpec, ExecSpec, GroupSpec, UpdateSpec, SettingsSpec, StreamSpec, BootSpec

\* Every variable of every operation keeps its type.
THEOREM OperationsTypeCorrect == Spec => []TypeOK
<1>1. ApiInit /\ [][ApiNext]_apiVars => []ApiTypeOK
  <2>1. ApiInv => ApiTypeOK
    BY DEF ApiInv
  <2> QED BY <2>1, ApiInitial, ApiStep, PTL
<1>2. SyncTypeOK /\ ExecTypeOK /\ ApiTypeOK /\ GroupTypeOK
        /\ StreamTypeOK /\ SettingsTypeOK /\ UpdateTypeOK /\ BootTypeOK => TypeOK
  BY DEF TypeOK
<1> QED BY <1>1, <1>2, SpecParts, SyncTypeCorrect, ExecTypeCorrect, GroupTypeCorrect, UpdateTypeCorrect,
           SettingsTypeCorrect, StreamTypeCorrect, BootTypeCorrect, PTL

\* The properties that the runs check of the composition hold for any number
\* of repositories, workers, items, slots, tries, updaters, branches, entries
\* and package managers.
THEOREM OperationsAreSafe ==
    Spec => [](/\ SyncOkIsMirrored /\ CloneOkIsComplete /\ NilMeansHandled /\ BinarySurvives
               /\ SettingsFollowConsent /\ StreamIsExact /\ DependenciesComeFirst)
  BY SpecParts, SyncMirrors, CloneCompletes, NilIsEarned, SurvivesUpdates,
     ConsentIsFollowed, StreamsAreExact, DependenciesFirst, PTL
================================================================================
