------------------------------- MODULE BulkClone -------------------------------
(***************************************************************************)
(* The callers of RepositoryWorkerPool.  Each is one goroutine that starts *)
(* the pool, submits batches of jobs, collects as many results as it       *)
(* thinks it is owed, and stops the pool when it returns:                  *)
(*                                                                         *)
(*  "process"        ProcessRepositories, called once per pool by the      *)
(*                   RefreshAllWithWorkerPool of GitLab and Gitea;         *)
(*  "organizations"  BulkCloneMultipleOrganizations of GitHub, a batch per *)
(*                   organization; a batch that fails is reported and the  *)
(*                   next one begins over the same pool;                   *)
(*  "optimized"      RefreshAllOptimized and its processBatch: a refused   *)
(*                   job is counted as failed, and the batch goes on; its  *)
(*                   stream of repositories always has another page;       *)
(*  "tests"          anybody: Submit, Results and several Stop calls in    *)
(*                   any order, and nobody has to read the results.        *)
(***************************************************************************)
EXTENDS RepositoryPool

CONSTANTS
    Clients,    \* which of the callers
    BatchCount, \* how many batches the repositories come in; for "optimized" a
                \* bound: the batches that are followed
    BatchOf     \* the batch of each job

ASSUME ClientAssumption ==
    /\ Clients \subseteq {"process", "organizations", "optimized", "tests"}
    /\ BatchCount \in Nat \ {0}
    /\ BatchOf \in [Jobs -> 1 .. BatchCount]

VARIABLES
    client,     \* the caller; never changes
    cpc,        \* where it is
    batch,      \* the batch it works on
    owed,       \* the results it still waits for
    ctxDone,    \* its ctx is cancelled
    reading,    \* "tests": somebody reads Results()
    \* history
    gaveUp,     \* the batches that ended early
    mixed       \* a batch read a result of another one

clientVars == <<client, cpc, batch, owed, ctxDone, reading, gaveUp, mixed>>
vars == <<poolVars, clientVars>>

\* "stream": RefreshAllOptimized waits for repositories after the last batch.
ClientPC == {"start", "submit", "collect", "stream", "stop"}

\* ProcessRepositories gets everything in one batch.
Batches == IF client = "process" THEN 1 ELSE BatchCount
InBatch(j, b) == client = "process" \/ BatchOf[j] = b
Batch == {j \in Jobs : InBatch(j, batch)}
Unsubmitted == {j \in Batch : stage[j] = "new"}

Init ==
    /\ PoolInit
    /\ client \in Clients
    /\ cpc = "start"
    /\ batch = 1
    /\ owed = 0
    /\ ctxDone = FALSE
    /\ reading = TRUE
    /\ gaveUp = {}
    /\ mixed = FALSE

(***************************************************************************)
(* The bulk callers.                                                       *)
(***************************************************************************)
ClientStarts ==
    /\ client # "tests"
    /\ cpc = "start"
    /\ Start
    /\ cpc' = "submit"
    /\ UNCHANGED <<client, batch, owed, ctxDone, reading, gaveUp, mixed>>

ClientSubmits(j) ==
    /\ cpc = "submit"
    /\ j \in Unsubmitted
    /\ SubmitAccepted(j)
    /\ UNCHANGED clientVars

\* After a batch the next one, or the deferred Stop.  With a cancelled ctx the
\* next organization cannot be listed; RefreshAllOptimized, whose select finds
\* the next repository ready too, may go either way.  parseLinkPagination always
\* reports a next page, so its stream does not end with the last batch.
BatchEnds ==
    \/ /\ batch < Batches
       /\ ctxDone => client = "optimized"
       /\ batch' = batch + 1
       /\ cpc' = "submit"
    \/ /\ client = "optimized"
       /\ batch = Batches
       /\ cpc' = "stream"
       /\ UNCHANGED batch
    \/ /\ (client # "optimized" /\ batch = Batches) \/ ctxDone
       /\ cpc' = "stop"
       /\ UNCHANGED batch

\* "job queue is full": the batch is given up, or the job alone.
ClientRefused(j) ==
    /\ cpc = "submit"
    /\ j \in Unsubmitted
    /\ SubmitFull(j)
    /\ IF client = "optimized"
       THEN UNCHANGED <<batch, cpc>>
       ELSE BatchEnds
    /\ gaveUp' = gaveUp \union {batch}
    /\ UNCHANGED <<client, owed, ctxDone, reading, mixed>>

\* The next organization cannot be listed.
BatchSkipped ==
    /\ client = "organizations"
    /\ cpc = "submit"
    /\ \A j \in Batch : stage[j] = "new"
    /\ BatchEnds
    /\ gaveUp' = gaveUp \union {batch}
    /\ UNCHANGED <<poolVars, client, owed, ctxDone, reading, mixed>>

\* RefreshAllOptimized is done with its stream while a batch still fills or after
\* the last one.
StreamEnds ==
    /\ client = "optimized"
    /\ \/ /\ cpc = "submit"
          /\ \A j \in Batch : stage[j] = "new"
          /\ gaveUp' = gaveUp \union {batch}
       \/ cpc = "stream" /\ UNCHANGED gaveUp
    /\ cpc' = "stop"
    /\ UNCHANGED <<poolVars, client, batch, owed, ctxDone, reading, mixed>>

\* It leaves the stream for ctx.Done().
StreamLeft == ctxDone /\ StreamEnds

\* A page that cannot be fetched is the only other reason for which the producer
\* closes the stream.
StreamFails == StreamEnds

\* Mutation: one result less.
OwedOneLess == Cardinality(Batch) - 1

\* Mutation: the loop runs to i <= len(jobs).
OwedOneMore == Cardinality(Batch) + 1

\* One result for each job of the batch, whether it was accepted or not.
OwedForBatch == Cardinality(Batch)

ClientCollects ==
    /\ cpc = "submit"
    /\ Unsubmitted = {}
    /\ owed' = OwedForBatch
    /\ cpc' = "collect"
    /\ UNCHANGED <<poolVars, client, batch, ctxDone, reading, gaveUp, mixed>>

ClientReceives(j) ==
    /\ cpc = "collect"
    /\ owed > 0
    /\ Receive(j)
    /\ owed' = owed - 1
    /\ mixed' = (mixed \/ ~InBatch(j, batch))
    /\ UNCHANGED <<client, cpc, batch, ctxDone, reading, gaveUp>>

ClientBatchDone ==
    /\ cpc = "collect"
    /\ owed = 0
    /\ BatchEnds
    /\ UNCHANGED <<poolVars, client, owed, ctxDone, reading, gaveUp, mixed>>

\* The user presses Ctrl+C.
Cancel ==
    /\ client # "tests"
    /\ cpc \in {"submit", "collect", "stream"}
    /\ ~ctxDone
    /\ ctxDone' = TRUE
    /\ UNCHANGED <<poolVars, client, cpc, batch, owed, reading, gaveUp, mixed>>

\* ctx.Done() while results are due.
ClientCancelled ==
    /\ cpc = "collect"
    /\ owed > 0
    /\ ctxDone
    /\ BatchEnds
    /\ owed' = 0
    /\ gaveUp' = gaveUp \union {batch}
    /\ UNCHANGED <<poolVars, client, ctxDone, reading, mixed>>

ClientStops(s) ==
    /\ cpc = "stop"
    /\ ~StopBegun
    /\ StopBegins(s)
    /\ UNCHANGED clientVars

(***************************************************************************)
(* Anybody.                                                                *)
(***************************************************************************)
TestsStep ==
    /\ client = "tests"
    /\ \/ Start
       \/ \E j \in Jobs : SubmitAccepted(j) \/ SubmitFull(j) \/ SubmitNotStarted(j)
       \/ \E s \in Stoppers : StopBegins(s) \/ StopJoins(s)
    /\ UNCHANGED clientVars

TestsReceive(j) ==
    /\ client = "tests"
    /\ reading
    /\ Receive(j)
    /\ UNCHANGED clientVars

TestsWalkAway ==
    /\ client = "tests"
    /\ reading
    /\ reading' = FALSE
    /\ UNCHANGED <<poolVars, client, cpc, batch, owed, ctxDone, gaveUp, mixed>>

Pool == PoolStep /\ UNCHANGED clientVars

Client == \/ ClientStarts \/ BatchSkipped \/ StreamLeft \/ ClientCollects \/ ClientBatchDone
          \/ ClientCancelled
          \/ \E j \in Jobs : ClientSubmits(j) \/ ClientRefused(j) \/ ClientReceives(j)
          \/ \E s \in Stoppers : ClientStops(s)

\* A Stop call returned and nobody makes another, the pool was never started,
\* or the process died.
Over ==
    /\ \/ panicked
       \/ \A s \in Stoppers : spc[s] = "done"
       \/ client # "tests" /\ \E s \in Stoppers : spc[s] = "done"
    /\ UNCHANGED vars

Next ==
    \/ ~panicked /\ (Pool \/ Client \/ Cancel \/ StreamFails \/ TestsStep \/ TestsWalkAway
                     \/ \E j \in Jobs : TestsReceive(j))
    \/ Over

(***************************************************************************)
(* Go schedules every runnable goroutine, jobs return because they have a  *)
(* deadline and retries are counted, and a caller that has started goes    *)
(* on.  Nobody has to cancel, no request has to fail, and in the tests     *)
(* nobody has to call anything.                                            *)
(***************************************************************************)
Fairness ==
    /\ \A j \in Jobs : /\ WF_vars(~panicked /\ Worker(j) /\ UNCHANGED clientVars)
                       /\ WF_vars(~panicked /\ Collector(j) /\ UNCHANGED clientVars)
                       /\ WF_vars(~panicked /\ TestsReceive(j))
    /\ \A l \in Lanes : WF_vars(~panicked /\ (WorkerLeaves(l) \/ CollectorEnds(l))
                                /\ UNCHANGED clientVars)
    /\ \A s \in Stoppers : WF_vars(~panicked /\ StopStep(s) /\ UNCHANGED clientVars)
    /\ WF_vars(~panicked /\ Client)

Spec == Init /\ [][Next]_vars /\ Fairness
-------------------------------------------------------------------------------
\* Every variable keeps its type, channels and lanes their capacity, and no job
\* is tried more often than configured.
TypeOK ==
    /\ lane \in [Lanes -> LaneStates]
    /\ idle \in [Lanes -> 0 .. LaneWorkers]
    /\ stage \in [Jobs -> Stages]
    /\ tries \in [Jobs -> 0 .. RetryAttempts + 1]
    /\ \A l \in Lanes : /\ idle[l] + Cardinality(InHand(l)) <= LaneWorkers
                        /\ Cardinality(At(l, {"queued"})) <= LaneBuffer
                        /\ Cardinality(At(l, {"lane"})) <= LaneBuffer
                        /\ Cardinality(At(l, {"carried"})) <= 1
    /\ Cardinality(InResults) <= Capacity
    /\ collecting \subseteq Lanes
    /\ {rpDone, closed, panicked, ctxDone, reading, mixed} \subseteq BOOLEAN
    /\ spc \in [Stoppers -> StopPC]
    /\ slane \in [Stoppers -> Lanes]
    /\ client \in Clients
    /\ cpc \in ClientPC
    /\ batch \in 1 .. BatchCount
    /\ owed \in 0 .. Cardinality(Jobs)
    /\ gaveUp \subseteq 1 .. BatchCount

\* No collector sends on the closed rp.results and no Stop call closes it again,
\* with several Stop calls and with results nobody reads.
NoPanic == ~panicked

\* When Stop has returned no git command of a job runs any more and no collector
\* is left behind.
QuietWhenStopped ==
    (\E s \in Stoppers : spc[s] = "done") =>
        /\ collecting = {}
        /\ \A l \in Lanes : InHand(l) = {} /\ idle[l] = 0

\* Stop ends the pool cleanly: neither a panic nor a goroutine left behind.
StopIsClean == NoPanic /\ QuietWhenStopped

\* Callers that are never refused and never cancelled get the results of every
\* batch complete, and each batch gets its own.
BatchesAreComplete ==
    gaveUp = {} =>
        /\ ~mixed
        /\ client # "tests" =>
              \A b \in 1 .. batch : b < batch \/ cpc = "stop" =>
                  \A j \in Jobs : InBatch(j, b) => stage[j] = "received"

\* Stop returns once called, also when results is full and nobody reads it.
StopReturns ==
    \A s \in Stoppers : spc[s] # "idle" ~> spc[s] = "done"

\* While somebody reads and nobody stops the pool, an accepted job is answered.
AcceptedIsAnswered ==
    \A j \in Jobs :
        stage[j] = "queued" ~>
            stage[j] = "received" \/ StopBegun \/ ~reading \/ gaveUp # {}

\* Every bulk caller comes to its end and stops the pool; RefreshAllOptimized, whose
\* stream never ends and whose refused jobs it waits for, does so once its ctx is
\* cancelled, wherever it is by then.
CallersReturn ==
    cpc # "start" /\ (client = "optimized" => ctxDone) ~> \E s \in Stoppers : spc[s] = "done"

\* The three lanes, their collectors and the shared channel together are the
\* service JobService describes, as each single Pool is.
Service ==
    INSTANCE JobService WITH
        fate <- [j \in Jobs |->
                   IF stage[j] \in {"new", "refused", "full", "received", "dropped"}
                   THEN stage[j] ELSE "accepted"],
        phase <- IF closed THEN "closed" ELSE IF rpDone THEN "closing" ELSE "open"

ImplementsJobService == Service!Spec

(***************************************************************************)
(* What a document says of RefreshAllOptimized and the code does not do.   *)
(***************************************************************************)
\* What a batch of a large organization waits for comes: processBatch returns.
OptimizedReturns == cpc = "collect" ~> cpc # "collect"
================================================================================
