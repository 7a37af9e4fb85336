---------------------------- MODULE RepositoryPool ----------------------------
(***************************************************************************)
(* RepositoryWorkerPool of internal/workerpool/repository_pool.go: a Pool  *)
(* per kind of operation (a lane), a collector goroutine per lane that     *)
(* forwards the lane's results into one channel, and retries around every  *)
(* job.                                                                    *)
(*                                                                         *)
(* A lane is the Pool of module WorkerPool, one level coarser: idle workers*)
(* are counted, and where a job is says what the channels hold.  The order *)
(* inside a channel is abstracted (any waiting job may be next), and so is *)
(* whether a job succeeded.  WorkerPool covers a second Start.             *)
(***************************************************************************)
EXTENDS Naturals, FiniteSets

CONSTANTS
    LaneCount,      \* how many lanes: clone, update, config
    Jobs,           \* the jobs callers submit
    LaneOf,         \* the lane of each job's operation
    LaneWorkers,    \* workers of each lane
    Capacity,       \* of rp.results; 100 in the code
    RetryAttempts,  \* config.RetryAttempts
    Stoppers        \* the goroutines that call Stop, once each

Lanes == 1 .. LaneCount

ASSUME PoolAssumption ==
    /\ LaneCount \in Nat \ {0}
    /\ IsFiniteSet(Jobs)
    /\ LaneOf \in [Jobs -> Lanes]
    /\ LaneWorkers \in Nat \ {0}
    /\ Capacity \in Nat \ {0}
    /\ RetryAttempts \in Nat

VARIABLES
    lane,       \* each lane: not started, "open", "closing" (its Stop waits), "closed"
    idle,       \* each lane's workers in the range over its job channel
    stage,      \* where each job is
    tries,      \* how often a job's function was called
    collecting, \* the lanes whose collector runs
    rpDone,     \* rp.ctx is cancelled
    closed,     \* rp.results is closed
    panicked,   \* a send on, or a close of, a closed channel
    spc,        \* where each Stop call is
    slane       \* the lane it stops

laneVars == <<lane, idle>>
jobVars  == <<stage, tries>>
stopVars == <<spc, slane>>
poolVars == <<lane, idle, stage, tries, collecting, rpDone, closed, panicked, spc,
              slane>>

LaneStates == {"new", "open", "closing", "closed"}
StopPC == {"idle", "joined", "close", "wait", "collectors", "done"}

\* "queued": in the lane's job channel; "run", "delay", "deliver": in the hands of
\* a worker, between two attempts or blocked on its send; "lane": in the lane's
\* result channel; "carried": in the collector's hands; "results": in rp.results.
Stages == {"new", "refused", "full", "queued", "run", "delay", "deliver", "lane",
           "carried", "results", "received", "dropped"}

At(l, s) == {j \in Jobs : LaneOf[j] = l /\ stage[j] \in s}
InHand(l) == At(l, {"run", "delay", "deliver"})
InResults == {j \in Jobs : stage[j] = "results"}

LaneBuffer == 2 * LaneWorkers

PoolInit ==
    /\ lane = [l \in Lanes |-> "new"]
    /\ idle = [l \in Lanes |-> 0]
    /\ stage = [j \in Jobs |-> "new"]
    /\ tries = [j \in Jobs |-> 0]
    /\ collecting = {}
    /\ rpDone = FALSE
    /\ closed = FALSE
    /\ panicked = FALSE
    /\ spc = [s \in Stoppers |-> "idle"]
    /\ slane = [s \in Stoppers |-> 1]

Moves(j, s) == stage' = [stage EXCEPT ![j] = s]

(***************************************************************************)
(* Start and SubmitJob.  Start comes before Stop; what a Pool does that is *)
(* started after its Stop is WorkerPool's matter.                          *)
(***************************************************************************)
Start ==
    /\ \A l \in Lanes : lane[l] = "new"
    /\ \A s \in Stoppers : spc[s] = "idle"
    /\ lane' = [l \in Lanes |-> "open"]
    /\ idle' = [l \in Lanes |-> LaneWorkers]
    /\ collecting' = Lanes
    /\ UNCHANGED <<jobVars, rpDone, closed, panicked, stopVars>>

SubmitAccepted(j) ==
    /\ stage[j] = "new"
    /\ lane[LaneOf[j]] = "open"
    /\ Cardinality(At(LaneOf[j], {"queued"})) < LaneBuffer
    /\ Moves(j, "queued")
    /\ UNCHANGED <<laneVars, tries, collecting, rpDone, closed, panicked, stopVars>>

SubmitFull(j) ==
    /\ stage[j] = "new"
    /\ lane[LaneOf[j]] = "open"
    /\ Cardinality(At(LaneOf[j], {"queued"})) >= LaneBuffer
    /\ Moves(j, "full")
    /\ UNCHANGED <<laneVars, tries, collecting, rpDone, closed, panicked, stopVars>>

\* While the lane's Stop waits it holds the lock, and Submit waits too.
SubmitNotStarted(j) ==
    /\ stage[j] = "new"
    /\ lane[LaneOf[j]] \in {"new", "closed"}
    /\ Moves(j, "refused")
    /\ UNCHANGED <<laneVars, tries, collecting, rpDone, closed, panicked, stopVars>>

(***************************************************************************)
(* Workers and the retries of wrapWithRetry.                               *)
(***************************************************************************)
TakeJob(j) ==
    LET l == LaneOf[j] IN
    /\ stage[j] = "queued"
    /\ idle[l] > 0
    /\ idle' = [idle EXCEPT ![l] = @ - 1]
    /\ Moves(j, "run")
    /\ tries' = [tries EXCEPT ![j] = 1]
    /\ UNCHANGED <<lane, collecting, rpDone, closed, panicked, stopVars>>

\* The function succeeds, its error is not worth a retry, or there is none left.
JobEnds(j) ==
    /\ stage[j] = "run"
    /\ Moves(j, "deliver")
    /\ UNCHANGED <<laneVars, tries, collecting, rpDone, closed, panicked, stopVars>>

\* Mutation: one attempt more than configured.
JobFailsOnceMore(j) ==
    /\ stage[j] = "run"
    /\ tries[j] <= RetryAttempts + 1
    /\ Moves(j, "delay")
    /\ UNCHANGED <<laneVars, tries, collecting, rpDone, closed, panicked, stopVars>>

JobFailsRetryably(j) ==
    /\ stage[j] = "run"
    /\ tries[j] <= RetryAttempts
    /\ Moves(j, "delay")
    /\ UNCHANGED <<laneVars, tries, collecting, rpDone, closed, panicked, stopVars>>

Retry(j) ==
    /\ stage[j] = "delay"
    /\ Moves(j, "run")
    /\ tries' = [tries EXCEPT ![j] = @ + 1]
    /\ UNCHANGED <<laneVars, collecting, rpDone, closed, panicked, stopVars>>

\* The job's context ends first: by its deadline or by the lane's Stop.
RetryGivenUp(j) ==
    /\ stage[j] = "delay"
    /\ Moves(j, "deliver")
    /\ UNCHANGED <<laneVars, tries, collecting, rpDone, closed, panicked, stopVars>>

\* The worker goes on to its next job unless the lane's context is cancelled.
Deliver(j) ==
    LET l == LaneOf[j] IN
    /\ stage[j] = "deliver"
    /\ Cardinality(At(l, {"lane"})) < LaneBuffer
    /\ Moves(j, "lane")
    /\ idle' = IF lane[l] = "open" THEN [idle EXCEPT ![l] = @ + 1] ELSE idle
    /\ UNCHANGED <<lane, tries, collecting, rpDone, closed, panicked, stopVars>>

\* Mutation: a lane that is open drops what it cannot deliver at once.
DropResultWhenFull(j) ==
    LET l == LaneOf[j] IN
    /\ stage[j] = "deliver"
    /\ Cardinality(At(l, {"lane"})) >= LaneBuffer \/ lane[l] = "closing"
    /\ Moves(j, "dropped")
    /\ UNCHANGED <<laneVars, tries, collecting, rpDone, closed, panicked, stopVars>>

DropResult(j) ==
    /\ stage[j] = "deliver"
    /\ lane[LaneOf[j]] = "closing"
    /\ Moves(j, "dropped")
    /\ UNCHANGED <<laneVars, tries, collecting, rpDone, closed, panicked, stopVars>>

\* The job channel is closed and empty.
WorkerLeaves(l) ==
    /\ lane[l] = "closing"
    /\ idle[l] > 0
    /\ At(l, {"queued"}) = {}
    /\ idle' = [idle EXCEPT ![l] = @ - 1]
    /\ UNCHANGED <<lane, jobVars, collecting, rpDone, closed, panicked, stopVars>>

(***************************************************************************)
(* collectResults, one goroutine per lane.                                 *)
(***************************************************************************)
Collect(j) ==
    /\ stage[j] = "lane"
    /\ LaneOf[j] \in collecting
    /\ At(LaneOf[j], {"carried"}) = {}
    /\ Moves(j, "carried")
    /\ UNCHANGED <<laneVars, tries, collecting, rpDone, closed, panicked, stopVars>>

\* A send on the closed channel is a ready branch of the select: it panics.
Forward(j) ==
    /\ stage[j] = "carried"
    /\ \/ /\ closed
          /\ panicked' = TRUE
          /\ UNCHANGED stage
       \/ /\ ~closed
          /\ Cardinality(InResults) < Capacity
          /\ Moves(j, "results")
          /\ UNCHANGED panicked
    /\ UNCHANGED <<laneVars, tries, collecting, rpDone, closed, stopVars>>

\* Mutation: the collector gives up the result it carries and goes on.
CollectorDrops(j) ==
    /\ stage[j] = "carried"
    /\ Cardinality(InResults) >= Capacity
    /\ Moves(j, "dropped")
    /\ UNCHANGED <<laneVars, tries, collecting, rpDone, closed, panicked, stopVars>>

CollectorQuits(j) ==
    /\ stage[j] = "carried"
    /\ rpDone
    /\ Moves(j, "dropped")
    /\ collecting' = collecting \ {LaneOf[j]}
    /\ UNCHANGED <<laneVars, tries, rpDone, closed, panicked, stopVars>>

CollectorEnds(l) ==
    /\ l \in collecting
    /\ lane[l] = "closed"
    /\ At(l, {"lane", "carried"}) = {}
    /\ collecting' = collecting \ {l}
    /\ UNCHANGED <<laneVars, jobVars, rpDone, closed, panicked, stopVars>>

(***************************************************************************)
(* Stop.  stopOnce lets one call do the work, the others wait for it.      *)
(***************************************************************************)
StopBegun == \E s \in Stoppers : spc[s] # "idle"

\* Mutation: without stopOnce every call does the work.
StopEveryTime(s) ==
    /\ spc[s] = "idle"
    /\ rpDone' = TRUE
    /\ spc' = [spc EXCEPT ![s] = "close"]
    /\ UNCHANGED <<laneVars, jobVars, collecting, closed, panicked, slane>>

\* Mutation: rp.cancel() is not called before the lanes are stopped.
StopWithoutCancel(s) ==
    /\ spc[s] = "idle"
    /\ ~StopBegun
    /\ spc' = [spc EXCEPT ![s] = "close"]
    /\ UNCHANGED <<laneVars, jobVars, collecting, rpDone, closed, panicked, slane>>

StopBegins(s) ==
    /\ spc[s] = "idle"
    /\ ~StopBegun
    /\ rpDone' = TRUE
    /\ spc' = [spc EXCEPT ![s] = "close"]
    /\ UNCHANGED <<laneVars, jobVars, collecting, closed, panicked, slane>>

StopJoins(s) ==
    /\ spc[s] = "idle"
    /\ StopBegun
    /\ spc' = [spc EXCEPT ![s] = "joined"]
    /\ UNCHANGED <<laneVars, jobVars, collecting, rpDone, closed, panicked, slane>>

StopJoined(s) ==
    /\ spc[s] = "joined"
    /\ \E t \in Stoppers : spc[t] = "done"
    /\ spc' = [spc EXCEPT ![s] = "done"]
    /\ UNCHANGED <<laneVars, jobVars, collecting, rpDone, closed, panicked, slane>>

NextLane(s) ==
    IF slane[s] < LaneCount
    THEN spc' = [spc EXCEPT ![s] = "close"] /\ slane' = [slane EXCEPT ![s] = @ + 1]
    ELSE spc' = [spc EXCEPT ![s] = "collectors"] /\ UNCHANGED slane

\* Pool.Stop of the lane: close its job channel and cancel its context ...
StopLane(s) ==
    LET l == slane[s] IN
    /\ spc[s] = "close"
    /\ IF lane[l] = "open"
       THEN /\ lane' = [lane EXCEPT ![l] = "closing"]
            /\ spc' = [spc EXCEPT ![s] = "wait"]
            /\ UNCHANGED slane
       ELSE lane[l] # "closing" /\ NextLane(s) /\ UNCHANGED lane
    /\ UNCHANGED <<idle, jobVars, collecting, rpDone, closed, panicked>>

\* ... wait for its workers and close its result channel.  What is still in the
\* job channel stays there.
StopLaneEnds(s) ==
    LET l == slane[s] IN
    /\ spc[s] = "wait"
    /\ idle[l] = 0
    /\ InHand(l) = {}
    /\ lane' = [lane EXCEPT ![l] = "closed"]
    /\ NextLane(s)
    /\ UNCHANGED <<idle, jobVars, collecting, rpDone, closed, panicked>>

CloseResults(s) ==
    /\ IF closed
       THEN panicked' = TRUE /\ UNCHANGED <<closed, spc>>
       ELSE /\ closed' = TRUE
            /\ spc' = [spc EXCEPT ![s] = "done"]
            /\ UNCHANGED panicked
    /\ UNCHANGED <<laneVars, jobVars, collecting, rpDone, slane>>

\* Mutation: collectorWg.Wait() is forgotten.
StopEndsAtOnce(s) ==
    /\ spc[s] = "collectors"
    /\ CloseResults(s)

StopEnds(s) ==
    /\ spc[s] = "collectors"
    /\ collecting = {}
    /\ CloseResults(s)

\* A result is read from Results().
Receive(j) ==
    /\ stage[j] = "results"
    /\ Moves(j, "received")
    /\ UNCHANGED <<laneVars, tries, collecting, rpDone, closed, panicked, stopVars>>

Worker(j) == \/ TakeJob(j) \/ JobEnds(j) \/ JobFailsRetryably(j) \/ Retry(j)
             \/ RetryGivenUp(j) \/ Deliver(j) \/ DropResult(j)

Collector(j) == Collect(j) \/ Forward(j) \/ CollectorQuits(j)

StopStep(s) == StopJoined(s) \/ StopLane(s) \/ StopLaneEnds(s) \/ StopEnds(s)

\* What the pool's own goroutines do, and a Stop call that has begun.
PoolStep == \/ \E j \in Jobs : Worker(j) \/ Collector(j)
            \/ \E l \in Lanes : WorkerLeaves(l) \/ CollectorEnds(l)
            \/ \E s \in Stoppers : StopStep(s)
===============================================================================
