---------------------------- MODULE BulkClone_proofs ----------------------------
(***************************************************************************)
(* Theorems about the pool of lanes under all of its callers, for any      *)
(* number of lanes, workers, jobs, batches and Stop calls.                 *)
(***************************************************************************)
EXTENDS BulkClone, FiniteSetTheorems, TLAPS

(***************************************************************************)
(* The part of the types that the proofs need: the sizes of channels play  *)
(* no role in them.                                                        *)
(***************************************************************************)
Types ==
    /\ lane \in [Lanes -> LaneStates]
    /\ idle \in [Lanes -> Nat]
    /\ stage \in [Jobs -> Stages]
    /\ collecting \subseteq Lanes
    /\ rpDone \in BOOLEAN
    /\ closed \in BOOLEAN
    /\ spc \in [Stoppers -> StopPC]
    /\ slane \in [Stoppers -> Lanes]

(***************************************************************************)
(* The life of the pool.  One Stop call works, lane by lane; behind it     *)
(* every lane is closed and has no worker, and rp.results is closed only   *)
(* after the last collector left.                                          *)
(***************************************************************************)
Working(s) == spc[s] \in {"close", "wait", "collectors"}
Quiet(l)   == lane[l] \in {"new", "closed"}
Held(j)    == stage[j] \in {"run", "delay", "deliver"}

OneStopper == \A s, t \in Stoppers : Working(s) /\ (Working(t) \/ spc[t] = "done") => s = t
CancelOK   == (\E s \in Stoppers : spc[s] # "idle") => rpDone
ClosingOK  == \A l \in Lanes : lane[l] = "closing" =>
                 \E s \in Stoppers : spc[s] = "wait" /\ slane[s] = l
BehindOK   == \A s \in Stoppers :
                 /\ Working(s) => \A l \in Lanes : l < slane[s] => Quiet(l)
                 /\ spc[s] \in {"collectors", "done"} => \A l \in Lanes : Quiet(l)
                 /\ spc[s] = "wait" => lane[slane[s]] = "closing"
                 /\ spc[s] = "idle" => slane[s] = 1
QuietOK    == /\ \A l \in Lanes : Quiet(l) => idle[l] = 0
              /\ \A j \in Jobs : Held(j) => ~Quiet(LaneOf[j])
CarriedOK  == /\ \A j \in Jobs : stage[j] = "carried" => LaneOf[j] \in collecting
              /\ \A j, k \in Jobs : stage[j] = "carried" /\ stage[k] = "carried"
                                      /\ LaneOf[j] = LaneOf[k] => j = k
ClosedOK   == /\ closed <=> \E s \in Stoppers : spc[s] = "done"
              /\ closed => collecting = {}

LifeInv == /\ Types /\ OneStopper /\ CancelOK /\ ClosingOK /\ BehindOK
           /\ QuietOK /\ CarriedOK /\ ClosedOK /\ ~panicked

\* A pool that was not started satisfies the life invariant.
LEMMA LifeInit == Init => LifeInv
<1> SUFFICES ASSUME Init PROVE LifeInv
    OBVIOUS
<1> USE PoolAssumption DEF PoolAssumption, Init, PoolInit, Lanes, LaneStates, Stages, StopPC
<1>1. Types
  <2>1. 1 \in Lanes /\ 0 \in Nat
    OBVIOUS
  <2> QED BY <2>1 DEF Types
<1>2. OneStopper /\ CancelOK /\ ClosingOK /\ BehindOK /\ ClosedOK
  BY DEF OneStopper, CancelOK, ClosingOK, BehindOK, ClosedOK, Working
<1>3. QuietOK /\ CarriedOK
  BY DEF QuietOK, CarriedOK, Quiet, Held
<1> QED BY <1>1, <1>2, <1>3 DEF LifeInv

\* A step that moves one job, and takes no lane, Stop call or channel with it,
\* keeps everything but what is said of the stages.
LEMMA MoveLemma ==
    ASSUME LifeInv, NEW j \in Jobs, NEW x \in Stages, Moves(j, x),
           x \notin {"carried"},
           x \in {"run", "delay", "deliver"} => ~Quiet(LaneOf[j]),
           UNCHANGED <<lane, collecting, rpDone, closed, panicked, stopVars>>,
           idle' \in [Lanes -> Nat],
           \A l \in Lanes : Quiet(l) => idle'[l] = 0
    PROVE  LifeInv'
<1> USE DEF LifeInv, stopVars
<1>1. stage' \in [Jobs -> Stages] /\ stage'[j] = x /\ \A k \in Jobs \ {j} : stage'[k] = stage[k]
  BY DEF Types, Moves
<1>2. Types'
  BY <1>1 DEF Types
<1>3. OneStopper' /\ CancelOK' /\ ClosingOK' /\ ClosedOK'
  BY DEF OneStopper, CancelOK, ClosingOK, ClosedOK, Working
<1>4. BehindOK'
  BY DEF BehindOK, Working, Quiet
<1>5. QuietOK'
  BY <1>1 DEF QuietOK, Quiet, Held
<1>6. CarriedOK'
  BY <1>1 DEF CarriedOK
<1> QED BY <1>2, <1>3, <1>4, <1>5, <1>6

\* Submitting a job and reading a result take nothing from the pool's life.
LEMMA SubmitStep ==
    ASSUME LifeInv, NEW j \in Jobs,
           SubmitAccepted(j) \/ SubmitFull(j) \/ SubmitNotStarted(j) \/ Receive(j)
    PROVE  LifeInv'
<1>1. PICK x \in {"queued", "full", "refused", "received"} :
         Moves(j, x) /\ UNCHANGED <<laneVars, collecting, rpDone, closed, panicked, stopVars>>
  BY DEF SubmitAccepted, SubmitFull, SubmitNotStarted, Receive
<1>2. x \in Stages \ {"carried", "run", "delay", "deliver"}
  BY DEF Stages
<1>3. idle' \in [Lanes -> Nat] /\ \A l \in Lanes : Quiet(l) => idle'[l] = 0
  BY <1>1 DEF LifeInv, Types, QuietOK, laneVars
<1> QED BY <1>1, <1>2, <1>3, MoveLemma DEF laneVars

\* Start opens the lanes before any Stop call.
LEMMA StartStep == LifeInv /\ Start => LifeInv'
<1> SUFFICES ASSUME LifeInv, Start PROVE LifeInv'
    OBVIOUS
<1> USE PoolAssumption DEF PoolAssumption, Start, LifeInv, stopVars, jobVars
<1>1. Types'
  BY DEF Types, LaneStates
<1>2. OneStopper' /\ CancelOK' /\ ClosingOK' /\ ClosedOK'
  BY DEF OneStopper, CancelOK, ClosingOK, ClosedOK, Working
<1>3. BehindOK'
  BY DEF BehindOK, Working, Quiet
<1>4. QuietOK' /\ CarriedOK'
  BY DEF QuietOK, CarriedOK, Quiet, Held
<1> QED BY <1>1, <1>2, <1>3, <1>4

\* What a worker does to its job: its lane still has that worker.
LEMMA WorkerStep ==
    ASSUME LifeInv, NEW j \in Jobs, Worker(j)
    PROVE  LifeInv'
<1> DEFINE l == LaneOf[j]
<1>0. l \in Lanes /\ lane[l] \in LaneStates /\ idle[l] \in Nat
  BY PoolAssumption DEF PoolAssumption, LifeInv, Types
<1>1. CASE TakeJob(j)
  <2>1. ~Quiet(l)
    BY <1>1, <1>0 DEF TakeJob, LifeInv, QuietOK
  <2>2. idle' \in [Lanes -> Nat] /\ \A m \in Lanes : Quiet(m) => idle'[m] = 0
    BY <1>1, <1>0, <2>1 DEF TakeJob, LifeInv, Types, QuietOK
  <2> QED BY <1>1, <2>1, <2>2, MoveLemma DEF TakeJob, Stages
<1>2. CASE JobEnds(j) \/ JobFailsRetryably(j) \/ Retry(j) \/ RetryGivenUp(j)
  <2>1. PICK x \in {"run", "delay", "deliver"} :
           Moves(j, x) /\ UNCHANGED <<laneVars, collecting, rpDone, closed, panicked, stopVars>>
    BY <1>2 DEF JobEnds, JobFailsRetryably, Retry, RetryGivenUp
  <2>2. Held(j)
    BY <1>2 DEF JobEnds, JobFailsRetryably, Retry, RetryGivenUp, Held
  <2>3. ~Quiet(l)
    BY <2>2 DEF LifeInv, QuietOK
  <2>4. idle' \in [Lanes -> Nat] /\ \A m \in Lanes : Quiet(m) => idle'[m] = 0
    BY <2>1 DEF LifeInv, Types, QuietOK, laneVars
  <2> QED BY <2>1, <2>3, <2>4, MoveLemma DEF laneVars, Stages
<1>3. CASE Deliver(j)
  <2>1. idle' \in [Lanes -> Nat] /\ \A m \in Lanes : Quiet(m) => idle'[m] = 0
    BY <1>3, <1>0 DEF Deliver, LifeInv, Types, QuietOK, Quiet
  <2> QED BY <1>3, <2>1, MoveLemma DEF Deliver, Stages
<1>4. CASE DropResult(j)
  <2>1. idle' \in [Lanes -> Nat] /\ \A m \in Lanes : Quiet(m) => idle'[m] = 0
    BY <1>4 DEF DropResult, LifeInv, Types, QuietOK, laneVars
  <2> QED BY <1>4, <2>1, MoveLemma DEF DropResult, Stages, laneVars
<1> QED BY <1>1, <1>2, <1>3, <1>4 DEF Worker

\* What a collector does: it carries one result, and only while it runs.
LEMMA CollectorStep ==
    ASSUME LifeInv, NEW j \in Jobs, Collector(j)
    PROVE  LifeInv'
<1> DEFINE l == LaneOf[j]
<1>1. CASE Collect(j)
  <2> USE <1>1 DEF Collect, LifeInv, laneVars, stopVars
  <2>1. /\ stage' \in [Jobs -> Stages] /\ stage'[j] = "carried"
        /\ \A k \in Jobs \ {j} : stage'[k] = stage[k]
    BY DEF Types, Moves, Stages
  <2>2. Types' /\ OneStopper' /\ CancelOK' /\ ClosingOK' /\ ClosedOK'
    BY <2>1 DEF Types, OneStopper, CancelOK, ClosingOK, ClosedOK, Working
  <2>3. BehindOK' /\ QuietOK'
    BY <2>1 DEF BehindOK, QuietOK, Working, Quiet, Held
  <2>4. \A k \in Jobs : stage[k] = "carried" => LaneOf[k] # l
    BY DEF At
  <2>5. CarriedOK'
    BY <2>1, <2>4 DEF CarriedOK
  <2> QED BY <2>2, <2>3, <2>5
<1>2. CASE Forward(j)
  <2>1. ~closed
    BY <1>2 DEF Forward, LifeInv, CarriedOK, ClosedOK
  <2>2. idle' \in [Lanes -> Nat] /\ \A m \in Lanes : Quiet(m) => idle'[m] = 0
    BY <1>2 DEF Forward, LifeInv, Types, QuietOK, laneVars
  <2> QED BY <1>2, <2>1, <2>2, MoveLemma DEF Forward, Stages, laneVars
<1>3. CASE CollectorQuits(j)
  <2> USE <1>3 DEF CollectorQuits, LifeInv, laneVars, stopVars
  <2>1. /\ stage' \in [Jobs -> Stages] /\ stage'[j] = "dropped"
        /\ \A k \in Jobs \ {j} : stage'[k] = stage[k]
    BY DEF Types, Moves, Stages
  <2>2. Types' /\ OneStopper' /\ CancelOK' /\ ClosingOK' /\ ClosedOK'
    BY <2>1 DEF Types, OneStopper, CancelOK, ClosingOK, ClosedOK, Working
  <2>3. BehindOK' /\ QuietOK'
    BY <2>1 DEF BehindOK, QuietOK, Working, Quiet, Held
  <2>4. CarriedOK'
    BY <2>1 DEF CarriedOK
  <2> QED BY <2>2, <2>3, <2>4
<1> QED BY <1>1, <1>2, <1>3 DEF Collector

\* A worker leaves a lane that closes, a collector ends behind a closed lane.
LEMMA LaneStep ==
    ASSUME LifeInv, NEW l \in Lanes, WorkerLeaves(l) \/ CollectorEnds(l)
    PROVE  LifeInv'
<1>1. CASE WorkerLeaves(l)
  <2> USE <1>1 DEF WorkerLeaves, LifeInv, jobVars, stopVars
  <2>1. Types' /\ OneStopper' /\ CancelOK' /\ ClosingOK' /\ ClosedOK'
    BY DEF Types, OneStopper, CancelOK, ClosingOK, ClosedOK, Working
  <2>2. BehindOK' /\ CarriedOK'
    BY DEF BehindOK, CarriedOK, Working, Quiet
  <2>3. QuietOK'
    BY DEF QuietOK, Quiet, Held, Types
  <2> QED BY <2>1, <2>2, <2>3
<1>2. CASE CollectorEnds(l)
  <2> USE <1>2 DEF CollectorEnds, LifeInv, jobVars, laneVars, stopVars
  <2>1. Types' /\ OneStopper' /\ CancelOK' /\ ClosingOK' /\ ClosedOK'
    BY DEF Types, OneStopper, CancelOK, ClosingOK, ClosedOK, Working
  <2>2. BehindOK' /\ QuietOK'
    BY DEF BehindOK, QuietOK, Working, Quiet, Held
  <2>3. CarriedOK'
    BY DEF CarriedOK, At
  <2> QED BY <2>1, <2>2, <2>3
<1> QED BY <1>1, <1>2

\* Stop goes on to the next lane, or to the collectors, once its lane is closed.
LEMMA NextLaneLemma ==
    ASSUME LifeInv, NEW s \in Stoppers, spc[s] \in {"close", "wait"}, NextLane(s),
           lane' \in {lane, [lane EXCEPT ![slane[s]] = "closed"]},
           lane'[slane[s]] \in {"new", "closed"},
           idle[slane[s]] = 0,
           \A j \in Jobs : Held(j) => LaneOf[j] # slane[s],
           UNCHANGED <<idle, jobVars, collecting, rpDone, closed, panicked>>
    PROVE  LifeInv'
<1> USE PoolAssumption DEF PoolAssumption, LifeInv, StopPC, jobVars
<1> DEFINE l == slane[s]
<1>1. /\ l \in Lanes /\ spc[s] \in StopPC
      /\ l < LaneCount => l + 1 \in Lanes
      /\ ~(l < LaneCount) => \A m \in Lanes : m = l \/ m < l
      /\ \A m \in Lanes : m < l + 1 => m = l \/ m < l
  BY DEF Types, Lanes
<1>2. Working(s) /\ rpDone /\ ~closed /\ \A m \in Lanes : m < l => Quiet(m)
  BY DEF Working, CancelOK, OneStopper, ClosedOK, BehindOK
<1>3. \A t \in Stoppers \ {s} : ~Working(t) /\ spc[t] # "done"
  BY <1>2 DEF OneStopper
<1>4. /\ lane' \in [Lanes -> LaneStates]
      /\ lane'[l] \in {"new", "closed"}
      /\ \A m \in Lanes \ {l} : lane'[m] = lane[m]
  <2>1. CASE lane' = lane
    BY <2>1 DEF Types
  <2>2. CASE lane' = [lane EXCEPT ![l] = "closed"]
    BY <2>2 DEF Types, LaneStates
  <2> QED BY <2>1, <2>2
<1>5. /\ spc' \in [Stoppers -> StopPC] /\ slane' \in [Stoppers -> Lanes]
      /\ \A t \in Stoppers \ {s} : spc'[t] = spc[t] /\ slane'[t] = slane[t]
      /\ \/ spc'[s] = "close" /\ slane'[s] = l + 1
         \/ spc'[s] = "collectors" /\ slane'[s] = l /\ \A m \in Lanes : m = l \/ m < l
  BY <1>1 DEF NextLane, Types
<1>6. Types' /\ CarriedOK' /\ CancelOK' /\ ~panicked'
  BY <1>2, <1>4, <1>5 DEF Types, CarriedOK, CancelOK
<1>7. OneStopper' /\ ClosedOK'
  BY <1>2, <1>3, <1>5 DEF OneStopper, ClosedOK, Working
<1>8. \A m \in Lanes : (m = l \/ m < l) => Quiet(m)'
  BY <1>2, <1>4 DEF Quiet
<1>9. ClosingOK'
  <2>1. ASSUME NEW m \in Lanes, lane'[m] = "closing" PROVE FALSE
    <3>1. m # l /\ lane[m] = "closing"
      BY <1>4, <2>1 DEF Quiet
    <3>2. PICK t \in Stoppers : spc[t] = "wait" /\ slane[t] = m
      BY <3>1 DEF ClosingOK
    <3> QED BY <1>3, <3>1, <3>2 DEF Working
  <2> QED BY <2>1 DEF ClosingOK
<1>10. QuietOK'
  BY <1>4 DEF QuietOK, Quiet, Held
<1>11. BehindOK'
  BY <1>1, <1>3, <1>5, <1>8 DEF BehindOK, Working
<1> QED BY <1>6, <1>7, <1>9, <1>10, <1>11

\* The Stop calls: one works lane by lane, the others wait for it.
LEMMA StopperStep ==
    ASSUME LifeInv, NEW s \in Stoppers, StopBegins(s) \/ StopJoins(s) \/ StopStep(s)
    PROVE  LifeInv'
<1> USE PoolAssumption DEF PoolAssumption, LifeInv, StopPC, StopBegun, jobVars, laneVars
<1>1. CASE StopBegins(s) \/ StopJoins(s) \/ StopJoined(s)
  <2> USE <1>1 DEF StopBegins, StopJoins, StopJoined
  <2>1. UNCHANGED <<lane, idle, stage, collecting, closed, panicked, slane>>
    OBVIOUS
  <2>2. spc' \in [Stoppers -> StopPC] /\ rpDone' \in BOOLEAN
    BY DEF Types
  <2>3. Types' /\ CarriedOK'
    BY <2>1, <2>2 DEF Types, CarriedOK
  <2>4. CancelOK'
    BY DEF CancelOK, Types
  <2>5. OneStopper'
    BY DEF OneStopper, Working, Types
  <2>6. ClosedOK'
    BY DEF ClosedOK, Types
  <2>7. ClosingOK' /\ QuietOK'
    BY DEF ClosingOK, QuietOK, Quiet, Held, Types
  <2>8. BehindOK'
    BY DEF ClosingOK, BehindOK, Working, Quiet, Types, LaneStates, Lanes
  <2> QED BY <2>1, <2>3, <2>4, <2>5, <2>6, <2>7, <2>8
<1> DEFINE l == slane[s]
<1>0. /\ l \in Lanes /\ lane[l] \in LaneStates /\ spc[s] \in StopPC
      /\ l < LaneCount => l + 1 \in Lanes
      /\ ~(l < LaneCount) => \A m \in Lanes : m = l \/ m < l
  BY DEF Types, Lanes
<1>2. CASE StopLane(s)
  <2> USE <1>2 DEF StopLane
  <2>1. Working(s) /\ spc[s] = "close" /\ rpDone /\ ~closed
    BY DEF Working, CancelOK, OneStopper, ClosedOK
  <2>2. \A t \in Stoppers \ {s} : ~Working(t) /\ spc[t] # "done"
    BY <2>1 DEF OneStopper
  <2>3. CASE lane[l] = "open"
    <3> USE <2>3
    <3>1. /\ lane' = [lane EXCEPT ![l] = "closing"]
          /\ spc' = [spc EXCEPT ![s] = "wait"] /\ slane' = slane
      OBVIOUS
    <3>2. Types' /\ CarriedOK' /\ CancelOK' /\ ~panicked'
      BY <2>1, <3>1, <1>0 DEF Types, CarriedOK, CancelOK, LaneStates
    <3>3. OneStopper' /\ ClosedOK'
      BY <2>1, <2>2, <3>1 DEF OneStopper, ClosedOK, Working, Types
    <3>4. ClosingOK' /\ QuietOK'
      BY <2>1, <2>2, <3>1 DEF ClosingOK, QuietOK, Quiet, Held, Types
    <3>5. BehindOK'
      BY <2>1, <2>2, <3>1, <1>0 DEF BehindOK, Working, Quiet, Types, Lanes
    <3> QED BY <3>2, <3>3, <3>4, <3>5
  <2>4. CASE lane[l] # "open"
    <3> USE <2>4
    <3>1. Quiet(l) /\ NextLane(s) /\ lane' = lane
      BY <1>0 DEF Quiet, LaneStates
    <3>2. idle[l] = 0 /\ \A j \in Jobs : Held(j) => LaneOf[j] # l
      BY <1>0, <3>1 DEF QuietOK
    <3> QED BY <2>1, <3>1, <3>2, NextLaneLemma DEF Quiet
  <2> QED BY <2>3, <2>4
<1>3. CASE StopLaneEnds(s)
  <2> USE <1>3 DEF StopLaneEnds
  <2>1. idle[l] = 0 /\ \A j \in Jobs : Held(j) => LaneOf[j] # l
    BY DEF InHand, At, Held
  <2>2. lane' = [lane EXCEPT ![l] = "closed"] /\ lane'[l] = "closed"
    BY <1>0 DEF Types
  <2> QED BY <2>1, <2>2, NextLaneLemma
<1>4. CASE StopEnds(s)
  <2> USE <1>4 DEF StopEnds, CloseResults
  <2>1. Working(s) /\ spc[s] = "collectors" /\ ~closed
    BY DEF Working, OneStopper, ClosedOK
  <2>2. \A t \in Stoppers \ {s} : ~Working(t) /\ spc[t] # "done"
    BY <2>1 DEF OneStopper
  <2>3. closed' = TRUE /\ spc' = [spc EXCEPT ![s] = "done"] /\ ~panicked'
    BY <2>1
  <2>4. Types' /\ CancelOK' /\ CarriedOK'
    BY <2>1, <2>3 DEF Types, CancelOK, CarriedOK
  <2>5. OneStopper' /\ ClosedOK'
    BY <2>1, <2>2, <2>3 DEF OneStopper, ClosedOK, Working, Types
  <2>6. ClosingOK' /\ QuietOK'
    BY <2>1, <2>3 DEF ClosingOK, BehindOK, QuietOK, Quiet, Held, Types
  <2>7. BehindOK'
    BY <2>1, <2>2, <2>3 DEF BehindOK, Working, Quiet, Types
  <2> QED BY <2>3, <2>4, <2>5, <2>6, <2>7
<1> QED BY <1>1, <1>2, <1>3, <1>4 DEF StopStep
(***************************************************************************)
(* What a step is to the pool, whichever caller makes it.                  *)
(***************************************************************************)
JobStep(j)  == \/ SubmitAccepted(j) \/ SubmitFull(j) \/ SubmitNotStarted(j)
               \/ Receive(j) \/ Worker(j) \/ Collector(j)
LanesStep(l) == WorkerLeaves(l) \/ CollectorEnds(l)
CallStep(s) == StopBegins(s) \/ StopJoins(s) \/ StopStep(s)

\* Every step of the system, sorted by what it does to the pool.
LEMMA StepCases ==
    ASSUME [Next]_vars
    PROVE  \/ UNCHANGED poolVars
           \/ Start
           \/ \E j \in Jobs : JobStep(j)
           \/ \E l \in Lanes : LanesStep(l)
           \/ \E s \in Stoppers : CallStep(s)
<1> USE DEF JobStep, LanesStep, CallStep
<1>1. CASE Pool
  BY <1>1 DEF Pool, PoolStep
<1>2. CASE Client
  <2>1. CASE ClientStarts
    BY <2>1 DEF ClientStarts
  <2>2. CASE BatchSkipped \/ StreamLeft \/ ClientCollects \/ ClientBatchDone \/ ClientCancelled
    BY <2>2 DEF BatchSkipped, StreamLeft, StreamEnds, ClientCollects, ClientBatchDone, ClientCancelled
  <2>3. CASE \E j \in Jobs : ClientSubmits(j) \/ ClientRefused(j) \/ ClientReceives(j)
    BY <2>3 DEF ClientSubmits, ClientRefused, ClientReceives
  <2>4. CASE \E s \in Stoppers : ClientStops(s)
    BY <2>4 DEF ClientStops
  <2> QED BY <1>2, <2>1, <2>2, <2>3, <2>4 DEF Client
<1>3. CASE TestsStep \/ \E j \in Jobs : TestsReceive(j)
  BY <1>3 DEF TestsStep, TestsReceive
<1>4. CASE Cancel \/ StreamFails \/ TestsWalkAway
  BY <1>4 DEF Cancel, StreamFails, StreamEnds, TestsWalkAway
<1>5. CASE UNCHANGED vars
  BY <1>5 DEF vars
<1> QED BY <1>1, <1>2, <1>3, <1>4, <1>5 DEF Next, Over

\* Every step keeps the life invariant.
LEMMA LifeStep == LifeInv /\ [Next]_vars => LifeInv'
<1> SUFFICES ASSUME LifeInv, [Next]_vars PROVE LifeInv'
    OBVIOUS
<1>1. CASE UNCHANGED poolVars
  BY <1>1 DEF poolVars, LifeInv, Types, OneStopper, CancelOK, ClosingOK, BehindOK,
              QuietOK, CarriedOK, ClosedOK, Working, Quiet, Held
<1>2. CASE Start
  BY <1>2, StartStep
<1>3. ASSUME NEW j \in Jobs, JobStep(j) PROVE LifeInv'
  BY <1>3, SubmitStep, WorkerStep, CollectorStep DEF JobStep
<1>4. ASSUME NEW l \in Lanes, LanesStep(l) PROVE LifeInv'
  BY <1>4, LaneStep DEF LanesStep
<1>5. ASSUME NEW s \in Stoppers, CallStep(s) PROVE LifeInv'
  BY <1>5, StopperStep DEF CallStep
<1> QED BY <1>1, <1>2, <1>3, <1>4, <1>5, StepCases

\* The inductive invariant behind the theorems below.
LEMMA LifeCorrect == Spec => []LifeInv
BY LifeInit, LifeStep, PTL DEF Spec

\* No collector sends on rp.results after it was closed and no Stop call closes
\* it twice, for any number of lanes and Stop calls and for every caller.
THEOREM PoolNeverPanics == Spec => []NoPanic
<1>1. LifeInv => NoPanic
  BY DEF LifeInv, NoPanic
<1> QED BY <1>1, LifeCorrect, PTL

\* Once a Stop call has returned no job runs, no worker and no collector exists.
THEOREM StoppedIsQuiet == Spec => []QuietWhenStopped
<1>1. LifeInv => QuietWhenStopped
  <2> SUFFICES ASSUME LifeInv, NEW s \in Stoppers, spc[s] = "done"
               PROVE  /\ collecting = {}
                      /\ \A l \in Lanes : InHand(l) = {} /\ idle[l] = 0
      BY DEF QuietWhenStopped
  <2>1. collecting = {} /\ \A l \in Lanes : Quiet(l)
    BY DEF LifeInv, ClosedOK, BehindOK
  <2> QED BY <2>1 DEF LifeInv, QuietOK, InHand, At, Held
<1> QED BY <1>1, LifeCorrect, PTL

\* Stopping the lanes and the collectors is clean: neither a panic nor anything
\* left running.
THEOREM StoppingIsClean == Spec => []StopIsClean
<1>1. NoPanic /\ QuietWhenStopped => StopIsClean
  BY DEF StopIsClean
<1> QED BY <1>1, PoolNeverPanics, StoppedIsQuiet, PTL

-------------------------------------------------------------------------------
(***************************************************************************)
(* Refinement: a step of the pool under any caller is a step of JobService *)
(* or none.                                                                *)
(***************************************************************************)
Settled == {"new", "refused", "full", "received", "dropped"}
Fate  == [j \in Jobs |-> IF stage[j] \in Settled THEN stage[j] ELSE "accepted"]
Phase == IF closed THEN "closed" ELSE IF rpDone THEN "closing" ELSE "open"

\* What the callers see when one job changes its stage.
LEMMA FateLemma ==
    ASSUME LifeInv, NEW j \in Jobs, NEW x, Moves(j, x)
    PROVE  Fate' = [Fate EXCEPT ![j] = IF x \in Settled THEN x ELSE "accepted"]
BY DEF LifeInv, Types, Moves, Fate

\* Every step is a step of JobService or leaves its variables alone.
LEMMA ServiceStep == LifeInv /\ [Next]_vars => [Service!Next]_(Service!vars)
<1> SUFFICES ASSUME LifeInv, [Next]_vars
             PROVE  Service!Next \/ (Fate' = Fate /\ Phase' = Phase)
    BY DEF Service!vars, Fate, Phase, Settled
<1> DEFINE Goal == Service!Next \/ (Fate' = Fate /\ Phase' = Phase)
<1>1. CASE UNCHANGED poolVars
  BY <1>1 DEF poolVars, Fate, Phase
<1>2. CASE Start
  BY <1>2 DEF Start, jobVars, Fate, Phase
<1>3. ASSUME NEW l \in Lanes, LanesStep(l) PROVE Goal
  BY <1>3 DEF LanesStep, WorkerLeaves, CollectorEnds, jobVars, Fate, Phase
<1>4. ASSUME NEW s \in Stoppers, CallStep(s) PROVE Goal
  <2>1. CASE StopBegins(s)
    <3>1. Fate' = Fate /\ closed' = closed /\ rpDone' = TRUE /\ rpDone \in BOOLEAN
      BY <2>1 DEF StopBegins, jobVars, Fate, LifeInv, Types
    <3>2. Phase' = Phase \/ (Phase = "open" /\ Phase' = "closing")
      BY <3>1 DEF Phase
    <3> QED BY <3>1, <3>2 DEF Service!Next, Service!ShutDown, Fate, Phase, Settled
  <2>2. CASE StopEnds(s)
    <3>1. Fate' = Fate /\ rpDone' = rpDone /\ rpDone /\ (closed' = closed \/ closed' = TRUE)
      BY <2>2 DEF StopEnds, CloseResults, jobVars, Fate, LifeInv, CancelOK
    <3>2. Phase' = Phase \/ (Phase = "closing" /\ Phase' = "closed")
      BY <3>1 DEF Phase
    <3> QED BY <3>1, <3>2 DEF Service!Next, Service!ShutDown, Fate, Phase, Settled
  <2>3. CASE StopJoins(s) \/ StopJoined(s) \/ StopLane(s) \/ StopLaneEnds(s)
    BY <2>3 DEF StopJoins, StopJoined, StopLane, StopLaneEnds, jobVars, Fate, Phase
  <2> QED BY <1>4, <2>1, <2>2, <2>3 DEF CallStep, StopStep
<1>5. ASSUME NEW j \in Jobs, JobStep(j) PROVE Goal
  <2>1. Phase' = Phase
    BY <1>5 DEF JobStep, SubmitAccepted, SubmitFull, SubmitNotStarted, Receive, Worker,
                TakeJob, JobEnds, JobFailsRetryably, Retry, RetryGivenUp, Deliver,
                DropResult, Collector, Collect, Forward, CollectorQuits, Phase
  <2>2. CASE SubmitAccepted(j)
    <3>1. Phase # "closed"
      <4>1. LaneOf[j] \in Lanes /\ ~Quiet(LaneOf[j])
        BY <2>2, PoolAssumption DEF SubmitAccepted, Quiet, PoolAssumption
      <4>2. ~closed
        BY <4>1 DEF LifeInv, ClosedOK, BehindOK
      <4> QED BY <4>2 DEF Phase
    <3>2. Fate[j] = "new" /\ Fate' = [Fate EXCEPT ![j] = "accepted"]
      BY <2>2, FateLemma DEF SubmitAccepted, Fate, Settled
    <3> QED BY <2>1, <3>1, <3>2
            DEF Service!Next, Service!Accept, Service!Becomes, Fate, Phase, Settled
  <2>3. CASE SubmitFull(j) \/ SubmitNotStarted(j)
    <3>1. PICK f \in {"refused", "full"} : stage[j] = "new" /\ Moves(j, f)
      BY <2>3 DEF SubmitFull, SubmitNotStarted
    <3>2. Fate[j] = "new" /\ Fate' = [Fate EXCEPT ![j] = f]
      BY <3>1, FateLemma DEF Fate, Settled
    <3> QED BY <2>1, <3>2
            DEF Service!Next, Service!Refuse, Service!Becomes, Fate, Phase, Settled
  <2>4. CASE Receive(j)
    <3>1. Fate[j] = "accepted" /\ Fate' = [Fate EXCEPT ![j] = "received"]
      BY <2>4, FateLemma DEF Receive, Fate, Settled
    <3> QED BY <2>1, <3>1
            DEF Service!Next, Service!Answer, Service!Becomes, Fate, Phase, Settled
  <2>5. CASE DropResult(j) \/ CollectorQuits(j)
    <3>1. rpDone
      BY <2>5, PoolAssumption
         DEF DropResult, CollectorQuits, LifeInv, ClosingOK, CancelOK, PoolAssumption
    <3>2. Fate[j] = "accepted" /\ Fate' = [Fate EXCEPT ![j] = "dropped"]
      BY <2>5, FateLemma DEF DropResult, CollectorQuits, Fate, Settled
    <3>3. Phase # "open"
      BY <3>1 DEF Phase
    <3> QED BY <2>1, <3>2, <3>3
            DEF Service!Next, Service!Drop, Service!Becomes, Fate, Phase, Settled
  <2>6. CASE \/ TakeJob(j) \/ JobEnds(j) \/ JobFailsRetryably(j) \/ Retry(j)
             \/ RetryGivenUp(j) \/ Deliver(j) \/ Collect(j) \/ Forward(j)
    <3>1. CASE UNCHANGED stage
      BY <2>1, <3>1 DEF Fate
    <3>2. CASE ~UNCHANGED stage
      <4>1. PICK x \in {"run", "delay", "deliver", "lane", "carried", "results"} : Moves(j, x)
        BY <2>6, <3>2 DEF TakeJob, JobEnds, JobFailsRetryably, Retry, RetryGivenUp,
                          Deliver, Collect, Forward
      <4>2. Fate[j] = "accepted"
        BY <2>6 DEF TakeJob, JobEnds, JobFailsRetryably, Retry, RetryGivenUp, Deliver,
                    Collect, Forward, Fate, Settled
      <4>3. Fate' = [Fate EXCEPT ![j] = "accepted"]
        BY <4>1, FateLemma DEF Settled
      <4> QED BY <2>1, <4>2, <4>3 DEF Fate
    <3> QED BY <3>1, <3>2
  <2> QED BY <1>5, <2>2, <2>3, <2>4, <2>5, <2>6 DEF JobStep, Worker, Collector
<1> QED BY <1>1, <1>2, <1>3, <1>4, <1>5, StepCases

\* The three lanes, the collectors, the retries and the shared channel together
\* promise a caller what a single Pool promises.
THEOREM BulkPoolIsAJobService == Spec => ImplementsJobService
<1>1. Init => Service!Init
  BY DEF Init, PoolInit, Service!Init
<1>2. Spec => Service!Spec
  BY <1>1, LifeCorrect, ServiceStep, PTL DEF Spec, Service!Spec
<1> QED BY <1>2 DEF ImplementsJobService

-------------------------------------------------------------------------------
(***************************************************************************)
(* The sizes of channels and lanes.  A job's move from one stage to another*)
(* changes the size of the channel it leaves and of the one it enters.     *)
(***************************************************************************)
Size(l, S) == Cardinality(At(l, S))
Results    == Cardinality(InResults)

\* Every channel is a finite set of jobs, however many jobs there are.
LEMMA SizesAreNumbers ==
    ASSUME NEW l \in Lanes, NEW S
    PROVE  IsFiniteSet(At(l, S)) /\ Size(l, S) \in Nat
<1>1. At(l, S) \subseteq Jobs
  BY DEF At
<1>2. IsFiniteSet(At(l, S))
  BY <1>1, PoolAssumption, FS_Subset DEF PoolAssumption
<1> HIDE DEF Size
<1> QED BY <1>2, FS_CardinalityType DEF Size

\* A set that gains, loses or keeps one element.
LEMMA CountMoves ==
    ASSUME NEW A, NEW B, NEW e, IsFiniteSet(A)
    PROVE  /\ B = A => Cardinality(B) = Cardinality(A)
           /\ B = A \union {e} /\ e \notin A => Cardinality(B) = Cardinality(A) + 1
           /\ B = A \ {e} /\ e \in A => Cardinality(B) = Cardinality(A) - 1
<1>1. Cardinality(A) \in Nat
  BY FS_CardinalityType
<1>2. e \notin A => Cardinality(A \union {e}) = Cardinality(A) + 1
  BY FS_AddElement
<1>3. e \in A => Cardinality(A \ {e}) = Cardinality(A) - 1
  BY FS_RemoveElement
<1> QED BY <1>1, <1>2, <1>3

\* How the size of a set of stages of a lane changes when job j moves to stage x.
LEMMA SizeMoves ==
    ASSUME Types, NEW j \in Jobs, NEW x \in Stages, Moves(j, x),
           NEW l \in Lanes, NEW CONSTANT S
    PROVE  /\ Size(l, S) \in Nat /\ Size(l, S)' \in Nat
           /\ LaneOf[j] = l /\ x \in S /\ stage[j] \notin S => Size(l, S)' = Size(l, S) + 1
           /\ LaneOf[j] = l /\ x \notin S /\ stage[j] \in S => Size(l, S)' = Size(l, S) - 1
           /\ (LaneOf[j] # l \/ (x \in S <=> stage[j] \in S)) => Size(l, S)' = Size(l, S)
<1>1. stage'[j] = x /\ \A k \in Jobs \ {j} : stage'[k] = stage[k]
  BY DEF Types, Moves
<1>2. IsFiniteSet(At(l, S)) /\ Size(l, S) \in Nat
  BY SizesAreNumbers
<1>3. Size(l, S)' \in Nat
  <2>1. At(l, S)' \subseteq Jobs
    BY DEF At
  <2>2. IsFiniteSet(At(l, S)')
    BY <2>1, PoolAssumption, FS_Subset DEF PoolAssumption
  <2> QED BY <2>2, FS_CardinalityType DEF Size
<1>4. CASE LaneOf[j] = l /\ x \in S /\ stage[j] \notin S
  <2>1. At(l, S)' = At(l, S) \union {j} /\ j \notin At(l, S)
    BY <1>1, <1>4 DEF At
  <2>2. Size(l, S)' = Size(l, S) + 1
    BY <1>2, <2>1, CountMoves DEF Size
  <2> QED BY <1>2, <1>3, <1>4, <2>2
<1>5. CASE LaneOf[j] = l /\ x \notin S /\ stage[j] \in S
  <2>1. At(l, S)' = At(l, S) \ {j} /\ j \in At(l, S)
    BY <1>1, <1>5 DEF At
  <2>2. Size(l, S)' = Size(l, S) - 1
    BY <1>2, <2>1, CountMoves DEF Size
  <2> QED BY <1>2, <1>3, <1>5, <2>2
<1>6. CASE LaneOf[j] # l \/ (x \in S <=> stage[j] \in S)
  <2>1. At(l, S)' = At(l, S)
    BY <1>1, <1>6 DEF At
  <2>2. Size(l, S)' = Size(l, S)
    BY <2>1 DEF Size
  <2> QED BY <1>2, <1>3, <1>6, <2>2
<1> QED BY <1>2, <1>4, <1>5, <1>6

\* The same for the shared channel of results.
LEMMA ResultsMove ==
    ASSUME Types, NEW j \in Jobs, NEW x \in Stages, Moves(j, x)
    PROVE  /\ Results \in Nat /\ Results' \in Nat
           /\ x = "results" /\ stage[j] # "results" => Results' = Results + 1
           /\ x # "results" => Results' <= Results
<1>1. stage'[j] = x /\ \A k \in Jobs \ {j} : stage'[k] = stage[k]
  BY DEF Types, Moves
<1>2. InResults \subseteq Jobs /\ InResults' \subseteq Jobs
  BY DEF InResults
<1>3. IsFiniteSet(InResults) /\ IsFiniteSet(InResults')
  BY <1>2, PoolAssumption, FS_Subset DEF PoolAssumption
<1>4. Results \in Nat /\ Results' \in Nat
  BY <1>3, FS_CardinalityType DEF Results
<1>5. x = "results" /\ stage[j] # "results" => Results' = Results + 1
  <2> SUFFICES ASSUME x = "results", stage[j] # "results"
               PROVE  Results' = Results + 1
      OBVIOUS
  <2>1. InResults' = InResults \union {j} /\ j \notin InResults
    BY <1>1 DEF InResults
  <2> QED BY <1>3, <2>1, CountMoves DEF Results
<1>6. x # "results" => Results' <= Results
  <2>1. x # "results" => InResults' \subseteq InResults
    BY <1>1 DEF InResults
  <2> QED BY <1>3, <2>1, FS_Subset DEF Results
<1> QED BY <1>4, <1>5, <1>6

(***************************************************************************)
(* The capacities: a job in a worker's hands took the place of an idle     *)
(* worker, a send waits for room, and a retry is counted before it is made.*)
(***************************************************************************)
Hands == {"run", "delay", "deliver"}

LaneFits(l) == /\ idle[l] + Size(l, Hands) <= LaneWorkers
               /\ Size(l, {"queued"}) <= LaneBuffer
               /\ Size(l, {"lane"}) <= LaneBuffer

TriesOK == /\ tries \in [Jobs -> Nat]
           /\ \A j \in Jobs : /\ tries[j] <= RetryAttempts + 1
                              /\ stage[j] = "delay" => tries[j] <= RetryAttempts

CapacityInv == /\ LifeInv
               /\ TriesOK
               /\ \A l \in Lanes : LaneFits(l)
               /\ Results <= Capacity

\* Before anything is submitted every channel is empty.
LEMMA NoneInAnEmptyPool ==
    ASSUME \A j \in Jobs : stage[j] = "new"
    PROVE  /\ \A l \in Lanes : /\ Size(l, Hands) = 0
                               /\ Size(l, {"queued"}) = 0
                               /\ Size(l, {"lane"}) = 0
           /\ Results = 0
<1>1. ASSUME NEW l \in Lanes
      PROVE  At(l, Hands) = {} /\ At(l, {"queued"}) = {} /\ At(l, {"lane"}) = {}
  BY DEF At, Hands
<1>2. InResults = {}
  BY DEF InResults
<1> QED BY <1>1, <1>2, FS_EmptySet DEF Size, Results

\* The capacities hold at first.
LEMMA CapacityInit == Init => CapacityInv
<1> SUFFICES ASSUME Init PROVE CapacityInv
    OBVIOUS
<1>1. LifeInv
  BY LifeInit
<1>2. tries = [j \in Jobs |-> 0] /\ \A j \in Jobs : stage[j] = "new"
  BY DEF Init, PoolInit
<1>3. TriesOK
  BY <1>2, PoolAssumption DEF TriesOK, PoolAssumption
<1>4. \A l \in Lanes : idle[l] = 0
  BY DEF Init, PoolInit
<1>5. \A l \in Lanes : LaneFits(l)
  BY <1>2, <1>4, NoneInAnEmptyPool, PoolAssumption DEF LaneFits, LaneBuffer, PoolAssumption
<1>6. Results <= Capacity
  BY <1>2, NoneInAnEmptyPool, PoolAssumption DEF PoolAssumption
<1> QED BY <1>1, <1>3, <1>5, <1>6 DEF CapacityInv

\* A step that moves no job and hires no worker.
LEMMA NothingMoves ==
    ASSUME CapacityInv, UNCHANGED <<stage, tries>>, idle' \in [Lanes -> Nat],
           \A l \in Lanes : idle'[l] <= idle[l]
    PROVE  TriesOK' /\ (\A l \in Lanes : LaneFits(l)') /\ (Results <= Capacity)'
<1>1. TriesOK'
  BY DEF CapacityInv, TriesOK
<1>2. ASSUME NEW l \in Lanes PROVE LaneFits(l)'
  <2>1. /\ At(l, Hands)' = At(l, Hands) /\ At(l, {"queued"})' = At(l, {"queued"})
        /\ At(l, {"lane"})' = At(l, {"lane"})
    BY DEF At
  <2>2. /\ Size(l, Hands)' = Size(l, Hands) /\ Size(l, {"queued"})' = Size(l, {"queued"})
        /\ Size(l, {"lane"})' = Size(l, {"lane"})
    BY <2>1 DEF Size
  <2>3. LaneFits(l) /\ idle[l] \in Nat /\ idle'[l] \in Nat /\ idle'[l] <= idle[l]
    BY DEF CapacityInv, LifeInv, Types
  <2>4. Size(l, Hands) \in Nat
    BY SizesAreNumbers
  <2> QED BY <2>2, <2>3, <2>4, PoolAssumption DEF LaneFits, PoolAssumption
<1>3. (Results <= Capacity)'
  BY DEF CapacityInv, Results, InResults
<1> QED BY <1>1, <1>2, <1>3

\* A step that moves job j to stage x, with the room it needs there.
LEMMA JobMoves ==
    ASSUME CapacityInv, NEW j \in Jobs, NEW x \in Stages, Moves(j, x), stage[j] # x,
           x = "queued" => Size(LaneOf[j], {"queued"}) < LaneBuffer,
           x = "lane" => Size(LaneOf[j], {"lane"}) < LaneBuffer,
           x = "results" => Results < Capacity,
           idle' \in [Lanes -> Nat],
           \A l \in Lanes \ {LaneOf[j]} : idle'[l] = idle[l],
           idle'[LaneOf[j]] <= IF stage[j] \in Hands /\ x \notin Hands
                               THEN idle[LaneOf[j]] + 1
                               ELSE IF stage[j] \notin Hands /\ x \in Hands
                                    THEN idle[LaneOf[j]] - 1
                                    ELSE idle[LaneOf[j]]
    PROVE  (\A l \in Lanes : LaneFits(l)') /\ (Results <= Capacity)'
<1>1. Types /\ LaneOf[j] \in Lanes
  BY PoolAssumption DEF PoolAssumption, CapacityInv, LifeInv
<1>2. ASSUME NEW l \in Lanes PROVE LaneFits(l)'
  <2>1. LaneFits(l) /\ idle[l] \in Nat /\ idle'[l] \in Nat
    BY <1>1 DEF CapacityInv, Types
  <2>2. LaneWorkers \in Nat /\ LaneBuffer \in Nat
    BY PoolAssumption DEF PoolAssumption, LaneBuffer
  <2>3. (Size(l, {"queued"}) <= LaneBuffer)'
    <3>1. CASE LaneOf[j] = l /\ x = "queued"
      BY <1>1, <2>1, <2>2, <3>1, SizeMoves DEF LaneFits, LaneBuffer
    <3>2. CASE ~(LaneOf[j] = l /\ x = "queued")
      <4>1. Size(l, {"queued"})' <= Size(l, {"queued"})
        BY <1>1, <3>2, SizeMoves
      <4>2. Size(l, {"queued"}) \in Nat /\ Size(l, {"queued"})' \in Nat
        BY <1>1, SizeMoves
      <4> QED BY <2>1, <2>2, <4>1, <4>2 DEF LaneFits, LaneBuffer
    <3> QED BY <3>1, <3>2
  <2>4. (Size(l, {"lane"}) <= LaneBuffer)'
    <3>1. CASE LaneOf[j] = l /\ x = "lane"
      BY <1>1, <2>1, <2>2, <3>1, SizeMoves DEF LaneFits, LaneBuffer
    <3>2. CASE ~(LaneOf[j] = l /\ x = "lane")
      <4>1. Size(l, {"lane"})' <= Size(l, {"lane"})
        BY <1>1, <3>2, SizeMoves
      <4>2. Size(l, {"lane"}) \in Nat /\ Size(l, {"lane"})' \in Nat
        BY <1>1, SizeMoves
      <4> QED BY <2>1, <2>2, <4>1, <4>2 DEF LaneFits, LaneBuffer
    <3> QED BY <3>1, <3>2
  <2>5. (idle[l] + Size(l, Hands) <= LaneWorkers)'
    <3>1. idle[l] + Size(l, Hands) <= LaneWorkers
      BY <2>1 DEF LaneFits
    <3>2. Size(l, Hands) \in Nat /\ Size(l, Hands)' \in Nat
      BY <1>1, SizeMoves
    <3>3. CASE LaneOf[j] # l
      BY <1>1, <2>1, <2>2, <3>1, <3>2, <3>3, SizeMoves
    <3>4. CASE LaneOf[j] = l /\ (x \in Hands <=> stage[j] \in Hands)
      <4>1. Size(l, Hands)' = Size(l, Hands)
        BY <1>1, <3>4, SizeMoves
      <4>2. idle'[l] <= idle[l]
        BY <3>4
      <4> QED BY <2>1, <2>2, <3>1, <3>2, <4>1, <4>2
    <3>5. CASE LaneOf[j] = l /\ x \in Hands /\ stage[j] \notin Hands
      <4>1. Size(l, Hands)' = Size(l, Hands) + 1
        BY <1>1, <3>5, SizeMoves
      <4>2. idle'[l] <= idle[l] - 1
        BY <3>5
      <4> QED BY <2>1, <2>2, <3>1, <3>2, <4>1, <4>2
    <3>6. CASE LaneOf[j] = l /\ x \notin Hands /\ stage[j] \in Hands
      <4>1. Size(l, Hands)' = Size(l, Hands) - 1
        BY <1>1, <3>6, SizeMoves
      <4>2. idle'[l] <= idle[l] + 1
        BY <3>6
      <4> QED BY <2>1, <2>2, <3>1, <3>2, <4>1, <4>2
    <3> QED BY <3>3, <3>4, <3>5, <3>6
  <2> QED BY <2>3, <2>4, <2>5 DEF LaneFits, LaneBuffer
<1>3. (Results <= Capacity)'
  <2>1. Results <= Capacity /\ Capacity \in Nat
    BY PoolAssumption DEF CapacityInv, PoolAssumption
  <2>2. Results \in Nat /\ Results' \in Nat
    BY <1>1, ResultsMove
  <2>3. CASE x = "results"
    <3>1. Results' = Results + 1 /\ Results < Capacity
      BY <1>1, <2>3, ResultsMove
    <3> QED BY <2>1, <2>2, <3>1
  <2>4. CASE x # "results"
    <3>1. Results' <= Results
      BY <1>1, <2>4, ResultsMove
    <3> QED BY <2>1, <2>2, <3>1
  <2> QED BY <2>3, <2>4
<1> QED BY <1>2, <1>3

\* A job that moves without another attempt keeps the bound on attempts.
LEMMA TriesStay ==
    ASSUME CapacityInv, NEW j \in Jobs, NEW x \in Stages, Moves(j, x), tries' = tries,
           x = "delay" => tries[j] <= RetryAttempts
    PROVE  TriesOK'
<1>1. stage'[j] = x /\ \A k \in Jobs \ {j} : stage'[k] = stage[k]
  BY DEF CapacityInv, LifeInv, Types, Moves
<1> QED BY <1>1 DEF CapacityInv, TriesOK

\* Submit, the worker, the collector and the reader of a job.
LEMMA JobFits ==
    ASSUME CapacityInv, NEW j \in Jobs, JobStep(j)
    PROVE  TriesOK' /\ (\A l \in Lanes : LaneFits(l)') /\ (Results <= Capacity)'
<1> DEFINE Goal == TriesOK' /\ (\A l \in Lanes : LaneFits(l)') /\ (Results <= Capacity)'
<1> DEFINE l == LaneOf[j]
<1>0. l \in Lanes /\ idle \in [Lanes -> Nat] /\ stage[j] \in Stages
  BY PoolAssumption DEF PoolAssumption, CapacityInv, LifeInv, Types
<1>1. \A n \in Lanes : idle[n] \in Nat /\ idle[n] <= idle[n]
  BY <1>0
<1>2. CASE SubmitAccepted(j) \/ SubmitFull(j) \/ SubmitNotStarted(j) \/ Receive(j)
  <2>1. PICK x \in {"queued", "full", "refused", "received"} :
           /\ Moves(j, x) /\ stage[j] \in {"new", "results"}
           /\ UNCHANGED <<idle, tries>>
           /\ x = "queued" => Size(l, {"queued"}) < LaneBuffer
    BY <1>2 DEF SubmitAccepted, SubmitFull, SubmitNotStarted, Receive, laneVars, Size
  <2>2. x \in Stages /\ x \notin {"lane", "results", "delay"} /\ x \notin Hands
        /\ stage[j] \notin Hands /\ stage[j] # x
    BY <2>1 DEF Stages, Hands
  <2>3. TriesOK'
    BY <2>1, <2>2, TriesStay
  <2>4. (\A n \in Lanes : LaneFits(n)') /\ (Results <= Capacity)'
    BY <1>0, <1>1, <2>1, <2>2, JobMoves
  <2> QED BY <2>3, <2>4
<1>3. CASE TakeJob(j)
  <2>1. /\ Moves(j, "run") /\ stage[j] = "queued" /\ idle[l] > 0
        /\ idle' = [idle EXCEPT ![l] = @ - 1] /\ tries' = [tries EXCEPT ![j] = 1]
    BY <1>3 DEF TakeJob
  <2>2. "run" \in Stages /\ "run" \in Hands /\ "queued" \notin Hands
    BY DEF Stages, Hands
  <2>3. idle' \in [Lanes -> Nat] /\ idle'[l] = idle[l] - 1
        /\ \A n \in Lanes \ {l} : idle'[n] = idle[n]
    BY <1>0, <2>1
  <2>4. (\A n \in Lanes : LaneFits(n)') /\ (Results <= Capacity)'
    BY <1>0, <2>1, <2>2, <2>3, JobMoves
  <2>5. stage'[j] = "run" /\ \A k \in Jobs \ {j} : stage'[k] = stage[k]
    BY <2>1 DEF CapacityInv, LifeInv, Types, Moves
  <2>6. TriesOK'
    BY <2>1, <2>5, PoolAssumption DEF CapacityInv, TriesOK, PoolAssumption
  <2> QED BY <2>4, <2>6
<1>4. CASE JobEnds(j) \/ JobFailsRetryably(j) \/ RetryGivenUp(j) \/ Retry(j)
  <2>1. PICK x \in Hands :
           /\ Moves(j, x) /\ stage[j] \in Hands /\ stage[j] # x /\ UNCHANGED idle
           /\ x = "delay" => tries[j] <= RetryAttempts
           /\ tries' = tries \/ (/\ x = "run" /\ stage[j] = "delay"
                                 /\ tries' = [tries EXCEPT ![j] = @ + 1])
    BY <1>4 DEF JobEnds, JobFailsRetryably, RetryGivenUp, Retry, laneVars, Hands
  <2>2. x \in Stages /\ x \notin {"queued", "lane", "results"}
    BY <2>1 DEF Stages, Hands
  <2>3. (\A n \in Lanes : LaneFits(n)') /\ (Results <= Capacity)'
    BY <1>0, <1>1, <2>1, <2>2, JobMoves
  <2>4. TriesOK'
    <3>1. CASE tries' = tries
      BY <2>1, <2>2, <3>1, TriesStay
    <3>2. CASE x = "run" /\ stage[j] = "delay" /\ tries' = [tries EXCEPT ![j] = @ + 1]
      <4>1. stage'[j] = "run" /\ \A k \in Jobs \ {j} : stage'[k] = stage[k]
        BY <2>1, <3>2 DEF CapacityInv, LifeInv, Types, Moves
      <4>2. tries \in [Jobs -> Nat] /\ tries[j] <= RetryAttempts
        BY <3>2 DEF CapacityInv, TriesOK
      <4>3. tries' \in [Jobs -> Nat] /\ tries'[j] = tries[j] + 1
            /\ \A k \in Jobs \ {j} : tries'[k] = tries[k]
        BY <3>2, <4>2
      <4> QED BY <4>1, <4>2, <4>3, PoolAssumption DEF CapacityInv, TriesOK, PoolAssumption
    <3> QED BY <2>1, <3>1, <3>2
  <2> QED BY <2>3, <2>4
<1>5. CASE Deliver(j) \/ DropResult(j)
  <2>1. PICK x \in {"lane", "dropped"} :
           /\ Moves(j, x) /\ stage[j] = "deliver" /\ UNCHANGED tries
           /\ x = "lane" => Size(l, {"lane"}) < LaneBuffer
           /\ idle' = idle \/ idle' = [idle EXCEPT ![l] = @ + 1]
    BY <1>5 DEF Deliver, DropResult, laneVars, Size
  <2>2. x \in Stages /\ x \notin {"queued", "results", "delay"} /\ x \notin Hands
        /\ stage[j] \in Hands /\ stage[j] # x
    BY <2>1 DEF Stages, Hands
  <2>3. idle' \in [Lanes -> Nat] /\ idle'[l] <= idle[l] + 1
        /\ \A n \in Lanes \ {l} : idle'[n] = idle[n]
    BY <1>0, <1>1, <2>1
  <2>4. (\A n \in Lanes : LaneFits(n)') /\ (Results <= Capacity)'
    BY <1>0, <2>1, <2>2, <2>3, JobMoves
  <2>5. TriesOK'
    BY <2>1, <2>2, TriesStay
  <2> QED BY <2>4, <2>5
<1>6. CASE Collect(j) \/ CollectorQuits(j) \/ Forward(j)
  <2>1. ~closed \/ ~Forward(j)
    BY DEF Forward, CapacityInv, LifeInv, CarriedOK, ClosedOK
  <2>2. PICK x \in {"carried", "dropped", "results"} :
           /\ Moves(j, x) /\ stage[j] \in {"lane", "carried"} /\ stage[j] # x
           /\ UNCHANGED <<tries, idle>>
           /\ x = "results" => Results < Capacity
    BY <1>6, <2>1 DEF Collect, CollectorQuits, Forward, laneVars, Results
  <2>3. x \in Stages /\ x \notin {"queued", "lane", "delay"} /\ x \notin Hands
        /\ stage[j] \notin Hands
    BY <2>2 DEF Stages, Hands
  <2>4. (\A n \in Lanes : LaneFits(n)') /\ (Results <= Capacity)'
    BY <1>0, <1>1, <2>2, <2>3, JobMoves
  <2>5. TriesOK'
    BY <2>2, <2>3, TriesStay
  <2> QED BY <2>4, <2>5
<1> QED BY <1>2, <1>3, <1>4, <1>5, <1>6 DEF JobStep, Worker, Collector

\* Start hires the workers of lanes that have no job in anybody's hands.
LEMMA StartFits ==
    ASSUME CapacityInv, Start
    PROVE  TriesOK' /\ (\A l \in Lanes : LaneFits(l)') /\ (Results <= Capacity)'
<1>1. UNCHANGED <<stage, tries>> /\ idle' = [l \in Lanes |-> LaneWorkers]
      /\ \A l \in Lanes : Quiet(l)
  BY DEF Start, jobVars, Quiet
<1>2. \A l \in Lanes : At(l, Hands) = {}
  BY <1>1, PoolAssumption
     DEF CapacityInv, LifeInv, QuietOK, Held, At, Hands, PoolAssumption
<1>3. ASSUME NEW l \in Lanes PROVE LaneFits(l)'
  <2>1. /\ At(l, Hands)' = At(l, Hands) /\ At(l, {"queued"})' = At(l, {"queued"})
        /\ At(l, {"lane"})' = At(l, {"lane"})
    BY <1>1 DEF At
  <2>2. /\ Size(l, Hands)' = 0 /\ Size(l, {"queued"})' = Size(l, {"queued"})
        /\ Size(l, {"lane"})' = Size(l, {"lane"})
    BY <1>2, <2>1, FS_EmptySet DEF Size
  <2>3. LaneFits(l) /\ idle'[l] = LaneWorkers
    BY <1>1 DEF CapacityInv
  <2> QED BY <2>2, <2>3, PoolAssumption DEF LaneFits, PoolAssumption
<1>4. (Results <= Capacity)'
  BY <1>1 DEF CapacityInv, Results, InResults
<1>5. TriesOK'
  BY <1>1 DEF CapacityInv, TriesOK
<1> QED BY <1>3, <1>4, <1>5

\* Every step keeps the capacities.
LEMMA CapacityStep == CapacityInv /\ [Next]_vars => CapacityInv'
<1> SUFFICES ASSUME CapacityInv, [Next]_vars PROVE CapacityInv'
    OBVIOUS
<1> DEFINE Fits == TriesOK' /\ (\A l \in Lanes : LaneFits(l)') /\ (Results <= Capacity)'
<1>1. LifeInv'
  BY LifeStep DEF CapacityInv
<1>2. idle \in [Lanes -> Nat]
  BY DEF CapacityInv, LifeInv, Types
<1>3. CASE UNCHANGED poolVars
  <2>1. UNCHANGED <<stage, tries, idle>>
    BY <1>3 DEF poolVars
  <2>2. \A l \in Lanes : idle'[l] <= idle[l]
    BY <1>2, <2>1
  <2>3. Fits
    BY <1>2, <2>1, <2>2, NothingMoves
  <2> QED BY <1>1, <2>3 DEF CapacityInv
<1>4. CASE Start
  BY <1>1, <1>4, StartFits DEF CapacityInv
<1>5. ASSUME NEW j \in Jobs, JobStep(j) PROVE CapacityInv'
  BY <1>1, <1>5, JobFits DEF CapacityInv
<1>6. ASSUME NEW l \in Lanes, LanesStep(l) PROVE CapacityInv'
  <2>1. UNCHANGED <<stage, tries>> /\ (idle' = idle \/ (/\ idle[l] > 0
                                                      /\ idle' = [idle EXCEPT ![l] = @ - 1]))
    BY <1>6 DEF LanesStep, WorkerLeaves, CollectorEnds, laneVars, jobVars
  <2>2. idle' \in [Lanes -> Nat] /\ \A n \in Lanes : idle'[n] <= idle[n]
    BY <1>2, <2>1
  <2>3. Fits
    BY <2>1, <2>2, NothingMoves
  <2> QED BY <1>1, <2>3 DEF CapacityInv
<1>7. ASSUME NEW s \in Stoppers, CallStep(s) PROVE CapacityInv'
  <2>1. UNCHANGED <<stage, tries, idle>>
    BY <1>7 DEF CallStep, StopBegins, StopJoins, StopStep, StopJoined, StopLane,
                StopLaneEnds, StopEnds, CloseResults, jobVars, laneVars
  <2>2. \A n \in Lanes : idle'[n] <= idle[n]
    BY <1>2, <2>1
  <2>3. Fits
    BY <1>2, <2>1, <2>2, NothingMoves
  <2> QED BY <1>1, <2>3 DEF CapacityInv
<1> QED BY <1>3, <1>4, <1>5, <1>6, <1>7, StepCases

\* The inductive invariant behind the types.
LEMMA CapacityCorrect == Spec => []CapacityInv
BY CapacityInit, CapacityStep, PTL DEF Spec

(***************************************************************************)
(* The callers.                                                            *)
(***************************************************************************)
ClientTypes ==
    /\ client \in Clients
    /\ cpc \in ClientPC
    /\ batch \in 1 .. Batches
    /\ owed \in 0 .. Cardinality(Jobs)
    /\ ctxDone \in BOOLEAN
    /\ reading \in BOOLEAN
    /\ gaveUp \subseteq 1 .. BatchCount
    /\ mixed \in BOOLEAN

\* What a batch holds is counted by a number.
LEMMA BatchIsCounted ==
    ASSUME NEW A, A \subseteq Jobs
    PROVE  /\ IsFiniteSet(A) /\ IsFiniteSet(Jobs)
           /\ Cardinality(A) \in 0 .. Cardinality(Jobs)
<1>1. IsFiniteSet(Jobs)
  BY PoolAssumption DEF PoolAssumption
<1>2. IsFiniteSet(A) /\ Cardinality(A) <= Cardinality(Jobs)
  BY <1>1, FS_Subset
<1>3. Cardinality(A) \in Nat /\ Cardinality(Jobs) \in Nat
  BY <1>1, <1>2, FS_CardinalityType
<1> QED BY <1>1, <1>2, <1>3

\* The callers' variables have their types at first.
LEMMA ClientInit == Init => ClientTypes
<1> SUFFICES ASSUME Init PROVE ClientTypes
    OBVIOUS
<1>1. 0 \in 0 .. Cardinality(Jobs)
  BY BatchIsCounted
<1>2. Batches \in Nat \ {0}
  BY ClientAssumption DEF ClientAssumption, Batches
<1>3. 1 \in 1 .. Batches
  BY <1>2
<1>4. /\ client \in Clients /\ cpc = "start" /\ batch = 1 /\ owed = 0 /\ ctxDone = FALSE
      /\ reading = TRUE /\ gaveUp = {} /\ mixed = FALSE
  BY DEF Init
<1> QED BY <1>1, <1>3, <1>4 DEF ClientTypes, ClientPC

\* After a batch comes the next one or the Stop.
LEMMA BatchEndsTypes ==
    ASSUME ClientTypes, BatchEnds
    PROVE  cpc' \in ClientPC /\ batch' \in 1 .. Batches
<1>1. Batches \in Nat \ {0} /\ batch \in 1 .. Batches
  BY ClientAssumption DEF ClientAssumption, Batches, ClientTypes
<1> QED BY <1>1 DEF BatchEnds, ClientPC

\* Every step keeps the types of the callers' variables.
LEMMA ClientTypesStep == ClientTypes /\ [Next]_vars => ClientTypes'
<1> SUFFICES ASSUME ClientTypes, [Next]_vars PROVE ClientTypes'
    OBVIOUS
<1>0. /\ Batches \in Nat \ {0} /\ BatchCount \in Nat \ {0} /\ Batches <= BatchCount
      /\ Cardinality(Jobs) \in Nat /\ owed \in Nat
  BY ClientAssumption, BatchIsCounted DEF ClientAssumption, Batches, ClientTypes
<1>1. batch \in 1 .. BatchCount
  BY <1>0 DEF ClientTypes
<1>2. CASE UNCHANGED clientVars
  BY <1>2 DEF clientVars, ClientTypes, Batches
<1>3. CASE ClientStarts
  BY <1>3 DEF ClientStarts, ClientTypes, Batches, ClientPC
<1>4. ASSUME NEW j \in Jobs, ClientRefused(j) PROVE ClientTypes'
  <2>1. cpc' \in ClientPC /\ batch' \in 1 .. Batches
    BY <1>4, BatchEndsTypes DEF ClientRefused, ClientTypes
  <2>2. UNCHANGED <<client, owed, ctxDone, reading, mixed>> /\ Batches' = Batches
        /\ gaveUp' = gaveUp \union {batch}
    BY <1>4 DEF ClientRefused, Batches
  <2> QED BY <1>1, <2>1, <2>2 DEF ClientTypes
<1>5. CASE BatchSkipped
  <2>1. cpc' \in ClientPC /\ batch' \in 1 .. Batches
    BY <1>5, BatchEndsTypes DEF BatchSkipped, ClientTypes, ClientPC
  <2>2. UNCHANGED <<client, owed, ctxDone, reading, mixed>> /\ Batches' = Batches
        /\ gaveUp' = gaveUp \union {batch}
    BY <1>5 DEF BatchSkipped, Batches
  <2> QED BY <1>1, <2>1, <2>2 DEF ClientTypes
<1>6. CASE ClientCollects
  <2>1. Batch \subseteq Jobs
    BY DEF Batch
  <2>2. owed' \in 0 .. Cardinality(Jobs)
    BY <1>6, <2>1, BatchIsCounted DEF ClientCollects, OwedForBatch
  <2>3. UNCHANGED <<client, batch, ctxDone, reading, gaveUp, mixed>> /\ Batches' = Batches
        /\ cpc' = "collect"
    BY <1>6 DEF ClientCollects, Batches
  <2> QED BY <2>2, <2>3 DEF ClientTypes, ClientPC
<1>7. ASSUME NEW j \in Jobs, ClientReceives(j) PROVE ClientTypes'
  <2>1. owed' \in 0 .. Cardinality(Jobs)
    BY <1>0, <1>7 DEF ClientReceives, ClientTypes
  <2>2. UNCHANGED <<client, cpc, batch, ctxDone, reading, gaveUp>> /\ Batches' = Batches
        /\ mixed' \in BOOLEAN
    BY <1>7 DEF ClientReceives, Batches
  <2> QED BY <2>1, <2>2 DEF ClientTypes
<1>8. CASE ClientBatchDone
  <2>1. cpc' \in ClientPC /\ batch' \in 1 .. Batches
    BY <1>8, BatchEndsTypes DEF ClientBatchDone
  <2>2. UNCHANGED <<client, owed, ctxDone, reading, gaveUp, mixed>> /\ Batches' = Batches
    BY <1>8 DEF ClientBatchDone, Batches
  <2> QED BY <2>1, <2>2 DEF ClientTypes
<1>9. CASE Cancel
  <2>1. UNCHANGED <<client, cpc, batch, owed, reading, gaveUp, mixed>> /\ ctxDone' = TRUE
        /\ Batches' = Batches
    BY <1>9 DEF Cancel, Batches
  <2> QED BY <2>1 DEF ClientTypes
<1>10. CASE ClientCancelled
  <2>1. cpc' \in ClientPC /\ batch' \in 1 .. Batches
    BY <1>10, BatchEndsTypes DEF ClientCancelled
  <2>2. UNCHANGED <<client, ctxDone, reading, mixed>> /\ Batches' = Batches
        /\ gaveUp' = gaveUp \union {batch} /\ owed' = 0
    BY <1>10 DEF ClientCancelled, Batches
  <2> QED BY <1>0, <1>1, <2>1, <2>2 DEF ClientTypes
<1>11. CASE TestsWalkAway
  <2>1. UNCHANGED <<client, cpc, batch, owed, ctxDone, gaveUp, mixed>> /\ reading' = FALSE
        /\ Batches' = Batches
    BY <1>11 DEF TestsWalkAway, Batches
  <2> QED BY <2>1 DEF ClientTypes
<1>12. CASE StreamEnds
  <2>1. UNCHANGED <<client, batch, owed, ctxDone, reading, mixed>> /\ Batches' = Batches
        /\ gaveUp' \in {gaveUp, gaveUp \union {batch}} /\ cpc' = "stop"
    BY <1>12 DEF StreamEnds, Batches
  <2> QED BY <1>1, <2>1 DEF ClientTypes, ClientPC
<1>13. CASE \/ Pool \/ TestsStep \/ UNCHANGED vars \/ Over
            \/ \E j \in Jobs : ClientSubmits(j) \/ TestsReceive(j)
            \/ \E s \in Stoppers : ClientStops(s)
  BY <1>2, <1>13 DEF Pool, TestsStep, TestsReceive, ClientSubmits, ClientStops, Over, vars
<1> QED BY <1>3, <1>4, <1>5, <1>6, <1>7, <1>8, <1>9, <1>10, <1>11, <1>12, <1>13
        DEF Next, Client, StreamLeft, StreamFails

PanicType == panicked \in BOOLEAN

\* The flag for a panic stays a Boolean.
LEMMA PanicTypeStep == PanicType /\ [Next]_vars => PanicType'
<1> SUFFICES ASSUME PanicType, [Next]_vars PROVE panicked' \in BOOLEAN
    BY DEF PanicType
<1> USE DEF PanicType
<1>1. CASE UNCHANGED poolVars
  BY <1>1 DEF poolVars
<1>2. CASE Start
  BY <1>2 DEF Start
<1>3. ASSUME NEW j \in Jobs, JobStep(j) PROVE panicked' \in BOOLEAN
  <2>1. panicked' = panicked \/ panicked' = TRUE
    BY <1>3 DEF JobStep, SubmitAccepted, SubmitFull, SubmitNotStarted, Receive, Worker,
                TakeJob, JobEnds, JobFailsRetryably, Retry, RetryGivenUp, Deliver,
                DropResult, Collector, Collect, Forward, CollectorQuits
  <2> QED BY <2>1
<1>4. ASSUME NEW l \in Lanes, LanesStep(l) PROVE panicked' \in BOOLEAN
  BY <1>4 DEF LanesStep, WorkerLeaves, CollectorEnds
<1>5. ASSUME NEW s \in Stoppers, CallStep(s) PROVE panicked' \in BOOLEAN
  <2>1. panicked' = panicked \/ panicked' = TRUE
    BY <1>5 DEF CallStep, StopBegins, StopJoins, StopStep, StopJoined, StopLane,
                StopLaneEnds, StopEnds, CloseResults
  <2> QED BY <2>1
<1> QED BY <1>1, <1>2, <1>3, <1>4, <1>5, StepCases

\* No job is tried more often than configured, no lane holds more work than it
\* has workers and room, and the callers keep to their batches, for any number
\* of lanes, workers, jobs and batches.
THEOREM BulkCloneTypes == Spec => []TypeOK
<1>1. CapacityInv /\ ClientTypes /\ PanicType => TypeOK
  <2> SUFFICES ASSUME CapacityInv, ClientTypes, PanicType PROVE TypeOK
      OBVIOUS
  <2>1. Types /\ CarriedOK /\ TriesOK /\ \A l \in Lanes : LaneFits(l)
    BY DEF CapacityInv, LifeInv
  <2>2. LaneWorkers \in Nat /\ RetryAttempts \in Nat /\ Capacity \in Nat
    BY PoolAssumption DEF PoolAssumption
  <2>3. idle \in [Lanes -> 0 .. LaneWorkers]
    <3>1. ASSUME NEW l \in Lanes PROVE idle[l] \in 0 .. LaneWorkers
      BY <2>1, <2>2, SizesAreNumbers DEF LaneFits, Types
    <3> QED BY <2>1, <3>1 DEF Types
  <2>4. tries \in [Jobs -> 0 .. RetryAttempts + 1]
    <3>1. ASSUME NEW j \in Jobs PROVE tries[j] \in 0 .. RetryAttempts + 1
      BY <2>1, <2>2 DEF TriesOK
    <3> QED BY <2>1, <3>1 DEF TriesOK
  <2>5. ASSUME NEW l \in Lanes
        PROVE  /\ idle[l] + Cardinality(InHand(l)) <= LaneWorkers
               /\ Cardinality(At(l, {"queued"})) <= LaneBuffer
               /\ Cardinality(At(l, {"lane"})) <= LaneBuffer
               /\ Cardinality(At(l, {"carried"})) <= 1
    <3>1. Cardinality(At(l, {"carried"})) <= 1
      <4>1. CASE At(l, {"carried"}) = {}
        BY <4>1, FS_EmptySet
      <4>2. CASE At(l, {"carried"}) # {}
        <5>1. PICK j \in Jobs : LaneOf[j] = l /\ stage[j] = "carried"
          BY <4>2 DEF At
        <5>2. At(l, {"carried"}) = {j}
          BY <2>1, <5>1 DEF At, CarriedOK
        <5> QED BY <5>2, FS_Singleton
      <4> QED BY <4>1, <4>2
    <3> QED BY <2>1, <3>1 DEF LaneFits, Size, Hands, InHand
  <2>6. Cardinality(InResults) <= Capacity
    BY DEF CapacityInv, Results
  <2>7. /\ lane \in [Lanes -> LaneStates] /\ stage \in [Jobs -> Stages]
        /\ collecting \subseteq Lanes /\ spc \in [Stoppers -> StopPC]
        /\ slane \in [Stoppers -> Lanes]
    BY <2>1 DEF Types
  <2>8. {rpDone, closed, panicked, ctxDone, reading, mixed} \subseteq BOOLEAN
    <3>1. rpDone \in BOOLEAN /\ closed \in BOOLEAN
      BY <2>1 DEF Types
    <3>2. ctxDone \in BOOLEAN /\ reading \in BOOLEAN /\ mixed \in BOOLEAN
      BY DEF ClientTypes
    <3> QED BY <3>1, <3>2 DEF PanicType
  <2>9. /\ client \in Clients /\ cpc \in ClientPC /\ batch \in 1 .. BatchCount
        /\ owed \in 0 .. Cardinality(Jobs) /\ gaveUp \subseteq 1 .. BatchCount
    <3>1. Batches \in Nat /\ BatchCount \in Nat /\ Batches <= BatchCount
      BY ClientAssumption DEF ClientAssumption, Batches
    <3> QED BY <3>1 DEF ClientTypes
  <2> QED BY <2>3, <2>4, <2>5, <2>6, <2>7, <2>8, <2>9 DEF TypeOK
<1>2. Init => PanicType
  <2>1. Init => panicked = FALSE
    BY DEF Init, PoolInit
  <2> QED BY <2>1 DEF PanicType
<1> QED BY <1>1, <1>2, CapacityCorrect, PanicTypeStep, ClientInit, ClientTypesStep, PTL DEF Spec

-------------------------------------------------------------------------------
(***************************************************************************)
(* Batches.  What is counted is the results that are still due: a batch    *)
(* that is collected is owed exactly the jobs of it whose results were not *)
(* read, because earlier batches were read to the end and the later ones   *)
(* are not submitted.                                                      *)
(***************************************************************************)
Earlier(j) == client # "process" /\ BatchOf[j] < batch
Later(j)   == client # "process" /\ BatchOf[j] > batch
Due        == {j \in Batch : stage[j] # "received"}

Turn ==
    /\ \A j \in Jobs : /\ Earlier(j) => stage[j] = "received"
                       /\ Later(j) => stage[j] = "new"
    /\ cpc = "start" => batch = 1 /\ \A j \in Jobs : stage[j] = "new"
    /\ cpc = "submit" => \A j \in Batch : stage[j] # "received"
    /\ cpc = "collect" => owed = Cardinality(Due)
    /\ cpc \in {"stream", "stop"} => \A j \in Batch : stage[j] = "received"

BatchesInv == /\ client = "tests" => cpc = "start"
              /\ gaveUp = {} => ~mixed /\ (client # "tests" => Turn)

\* Each job is in an earlier batch, in this one or in a later one.
LEMMA OneBatchEach ==
    ASSUME ClientTypes, NEW j \in Jobs
    PROVE  /\ batch \in Nat \ {0} /\ BatchOf[j] \in Nat \ {0}
           /\ Earlier(j) \/ Later(j) \/ j \in Batch
           /\ ~(Earlier(j) /\ j \in Batch) /\ ~(Later(j) /\ j \in Batch)
<1>1. Batches \in Nat /\ batch \in 1 .. Batches /\ BatchOf[j] \in 1 .. BatchCount
      /\ BatchCount \in Nat
  BY ClientAssumption DEF ClientAssumption, ClientTypes, Batches
<1> QED BY <1>1 DEF Earlier, Later, Batch, InBatch

\* Before the first batch nothing is submitted and nothing read.
LEMMA BatchesInit == Init => BatchesInv
<1> SUFFICES ASSUME Init PROVE BatchesInv
    OBVIOUS
<1>1. /\ batch = 1 /\ cpc = "start" /\ mixed = FALSE
      /\ \A j \in Jobs : stage[j] = "new" /\ BatchOf[j] \in Nat /\ BatchOf[j] >= 1
  BY ClientAssumption DEF Init, PoolInit, ClientAssumption
<1>2. Turn
  BY <1>1 DEF Turn, Earlier, Later
<1> QED BY <1>1, <1>2 DEF BatchesInv

\* A step of the pool itself neither submits a job nor reads a result.
LEMMA PoolLeavesEnds ==
    ASSUME Types, PoolStep, NEW j \in Jobs
    PROVE  (stage[j] = "new" <=> stage'[j] = "new")
           /\ (stage[j] = "received" <=> stage'[j] = "received")
<1>1. ASSUME NEW k \in Jobs, Worker(k) \/ Collector(k)
      PROVE  \/ UNCHANGED stage
             \/ \E x \in Stages \ {"new", "received"} :
                   Moves(k, x) /\ stage[k] \notin {"new", "received"}
  BY <1>1 DEF Worker, Collector, TakeJob, JobEnds, JobFailsRetryably, Retry, RetryGivenUp,
              Deliver, DropResult, Collect, Forward, CollectorQuits, Stages
<1>2. ASSUME NEW k \in Jobs, Worker(k) \/ Collector(k)
      PROVE  (stage[j] = "new" <=> stage'[j] = "new")
             /\ (stage[j] = "received" <=> stage'[j] = "received")
  <2>1. CASE UNCHANGED stage
    BY <2>1
  <2>2. CASE ~UNCHANGED stage
    <3>1. PICK x \in Stages \ {"new", "received"} :
             Moves(k, x) /\ stage[k] \notin {"new", "received"}
      BY <1>1, <1>2, <2>2
    <3>2. stage'[k] = x /\ \A i \in Jobs \ {k} : stage'[i] = stage[i]
      BY <3>1 DEF Types, Moves
    <3> QED BY <3>1, <3>2
  <2> QED BY <2>1, <2>2
<1>3. ASSUME NEW l \in Lanes, WorkerLeaves(l) \/ CollectorEnds(l)
      PROVE  UNCHANGED stage
  BY <1>3 DEF WorkerLeaves, CollectorEnds, jobVars
<1>4. ASSUME NEW s \in Stoppers, StopStep(s) PROVE UNCHANGED stage
  BY <1>4 DEF StopStep, StopJoined, StopLane, StopLaneEnds, StopEnds, CloseResults, jobVars
<1> QED BY <1>2, <1>3, <1>4 DEF PoolStep

\* The turn of a batch is kept by what neither submits a job nor reads a result.
LEMMA TurnKept ==
    ASSUME Turn, UNCHANGED <<client, cpc, batch, owed>>,
           \A j \in Jobs : /\ stage[j] = "new" <=> stage'[j] = "new"
                           /\ stage[j] = "received" <=> stage'[j] = "received"
    PROVE  Turn'
<1>1. Batch' = Batch /\ Batch \subseteq Jobs
  BY DEF Batch, InBatch
<1>2. Due' = Due
  BY <1>1 DEF Due
<1>3. \A j \in Jobs : (Earlier(j)' <=> Earlier(j)) /\ (Later(j)' <=> Later(j))
  BY DEF Earlier, Later
<1> HIDE DEF Due, Batch, Earlier, Later
<1> QED BY <1>1, <1>2, <1>3 DEF Turn

\* A last batch whose results were all read is left for the stream or the Stop.
LEMMA TurnLeaves ==
    ASSUME Turn, UNCHANGED <<stage, client, batch>>, cpc' \in {"stream", "stop"},
           \A j \in Batch : stage[j] = "received"
    PROVE  Turn'
<1>1. Batch' = Batch
  BY DEF Batch, InBatch
<1>2. \A j \in Jobs : (Earlier(j)' <=> Earlier(j)) /\ (Later(j)' <=> Later(j))
  BY DEF Earlier, Later
<1> QED BY <1>1, <1>2 DEF Turn, Batch

\* A batch whose results were all read is left for the next one or for good.
LEMMA TurnPasses ==
    ASSUME ClientTypes, Turn, BatchEnds, UNCHANGED <<stage, client>>,
           \A j \in Batch : stage[j] = "received"
    PROVE  Turn'
<1>1. CASE batch < Batches /\ batch' = batch + 1 /\ cpc' = "submit"
  <2>1. client # "process" /\ client' # "process"
    BY <1>1 DEF Batches, ClientTypes
  <2>2. ASSUME NEW j \in Jobs
        PROVE  /\ Earlier(j)' => stage'[j] = "received"
               /\ Later(j)' => stage'[j] = "new"
               /\ j \in Batch' => stage'[j] # "received"
    <3>1. batch \in Nat /\ BatchOf[j] \in Nat
      BY OneBatchEach
    <3>2. Earlier(j)' => Earlier(j) \/ j \in Batch
      BY <1>1, <2>1, <3>1 DEF Earlier, Batch, InBatch
    <3>3. (Later(j)' \/ j \in Batch') => Later(j)
      BY <1>1, <2>1, <3>1 DEF Later, Batch, InBatch
    <3> QED BY <3>2, <3>3 DEF Turn
  <2> QED BY <1>1, <2>2 DEF Turn, Batch
<1>2. CASE UNCHANGED batch /\ cpc' \in {"stream", "stop"}
  BY <1>2, TurnLeaves
<1> QED BY <1>1, <1>2 DEF BatchEnds

\* Submitting a job of the batch.
LEMMA TurnSubmits ==
    ASSUME Types, ClientTypes, Turn, NEW j \in Jobs, ClientSubmits(j)
    PROVE  Turn'
<1>1. /\ cpc = "submit" /\ j \in Batch /\ Moves(j, "queued")
      /\ UNCHANGED <<client, cpc, batch, owed>>
  BY DEF ClientSubmits, SubmitAccepted, Unsubmitted, clientVars
<1>2. stage'[j] = "queued" /\ \A k \in Jobs \ {j} : stage'[k] = stage[k]
  BY <1>1 DEF Types, Moves
<1>3. Batch' = Batch
  BY <1>1 DEF Batch, InBatch
<1>4. \A k \in Jobs : (Earlier(k)' <=> Earlier(k)) /\ (Later(k)' <=> Later(k))
  BY <1>1 DEF Earlier, Later
<1>5. ~Earlier(j) /\ ~Later(j)
  BY <1>1, OneBatchEach
<1> QED BY <1>1, <1>2, <1>3, <1>4, <1>5 DEF Turn, Batch

\* The collecting begins: the whole batch is due.
LEMMA TurnCollects ==
    ASSUME Turn, ClientCollects
    PROVE  Turn'
<1>1. /\ cpc = "submit" /\ cpc' = "collect" /\ owed' = Cardinality(Batch)
      /\ UNCHANGED <<client, batch, stage>>
  BY DEF ClientCollects, OwedForBatch, poolVars
<1>2. Batch' = Batch /\ Due' = Batch
  BY <1>1 DEF Turn, Due, Batch, InBatch
<1>3. \A k \in Jobs : (Earlier(k)' <=> Earlier(k)) /\ (Later(k)' <=> Later(k))
  BY <1>1 DEF Earlier, Later
<1> QED BY <1>1, <1>2, <1>3 DEF Turn

\* A result that is read is one of the batch, and one less is due.
LEMMA TurnReceives ==
    ASSUME Types, ClientTypes, Turn, NEW j \in Jobs, ClientReceives(j)
    PROVE  Turn' /\ InBatch(j, batch)
<1>1. /\ cpc = "collect" /\ owed' = owed - 1 /\ stage[j] = "results"
      /\ Moves(j, "received") /\ UNCHANGED <<client, cpc, batch>>
  BY DEF ClientReceives, Receive
<1>2. stage'[j] = "received" /\ \A k \in Jobs \ {j} : stage'[k] = stage[k]
  BY <1>1 DEF Types, Moves
<1>3. j \in Batch /\ InBatch(j, batch)
  <2>1. ~Earlier(j) /\ ~Later(j)
    BY <1>1 DEF Turn
  <2> QED BY <2>1, OneBatchEach DEF Batch
<1>4. Batch' = Batch /\ Batch \subseteq Jobs
  BY <1>1 DEF Batch, InBatch
<1>5. Due' = Due \ {j} /\ j \in Due /\ Due \subseteq Jobs
  BY <1>1, <1>2, <1>3, <1>4 DEF Due
<1>6. Cardinality(Due') = Cardinality(Due) - 1
  BY <1>5, BatchIsCounted, CountMoves
<1>7. owed' = Cardinality(Due')
  BY <1>1, <1>6 DEF Turn
<1>8. \A k \in Jobs : (Earlier(k)' <=> Earlier(k)) /\ (Later(k)' <=> Later(k))
  BY <1>1 DEF Earlier, Later
<1>9. ~Later(j)
  BY <1>3, OneBatchEach
<1> QED BY <1>1, <1>2, <1>3, <1>4, <1>7, <1>8, <1>9 DEF Turn

\* A batch that is owed nothing was read to the end.
LEMMA NothingDue ==
    ASSUME Turn, cpc = "collect", owed = 0
    PROVE  \A j \in Batch : stage[j] = "received"
<1>1. Due \subseteq Jobs /\ Cardinality(Due) = 0
  BY DEF Due, Batch, Turn
<1>2. Due = {}
  BY <1>1, BatchIsCounted, FS_EmptySet
<1> QED BY <1>2 DEF Due

\* Every step keeps the turn of the batches, unless a batch ends early.
LEMMA BatchesStep == CapacityInv /\ ClientTypes /\ BatchesInv /\ [Next]_vars => BatchesInv'
<1> SUFFICES ASSUME CapacityInv, ClientTypes, BatchesInv, [Next]_vars PROVE BatchesInv'
    OBVIOUS
<1>0. Types
  BY DEF CapacityInv, LifeInv
<1>1. CASE client = "tests"
  <2>1. cpc = "start"
    BY <1>1 DEF BatchesInv
  <2>2. ~Client /\ ~Cancel /\ ~StreamFails
    BY <1>1, <2>1 DEF Client, Cancel, ClientStarts, StreamFails, StreamLeft, StreamEnds,
                      BatchSkipped, ClientCollects,
                      ClientBatchDone, ClientCancelled, ClientSubmits, ClientRefused,
                      ClientReceives, ClientStops
  <2>3. UNCHANGED <<client, cpc, gaveUp, mixed>>
    BY <2>2 DEF Next, Pool, TestsStep, TestsWalkAway, TestsReceive, Over, vars, clientVars
  <2> QED BY <1>1, <2>3 DEF BatchesInv
<1>2. CASE client # "tests" /\ gaveUp # {}
  <2>1. client' = client /\ gaveUp' # {}
    BY <1>2 DEF Next, Pool, Client, Cancel, TestsStep, TestsWalkAway, TestsReceive, Over,
                vars, clientVars, ClientStarts, StreamFails, StreamLeft, StreamEnds,
                BatchSkipped, ClientCollects, ClientBatchDone, ClientCancelled, ClientSubmits, ClientRefused,
                ClientReceives, ClientStops
  <2> QED BY <1>2, <2>1 DEF BatchesInv
<1>3. CASE client # "tests" /\ gaveUp = {}
  <2> SUFFICES ASSUME gaveUp' = {}
               PROVE  client' # "tests" /\ mixed' = mixed /\ Turn'
    <3>1. ~mixed
      BY <1>3 DEF BatchesInv
    <3>2. client' = client
      BY <1>3 DEF Next, Pool, Client, Cancel, TestsStep, TestsWalkAway, TestsReceive, Over,
                  vars, clientVars, ClientStarts, StreamFails, StreamLeft, StreamEnds,
                  BatchSkipped, ClientCollects, ClientBatchDone, ClientCancelled, ClientSubmits, ClientRefused,
                  ClientReceives, ClientStops
    <3> QED BY <1>3, <3>1, <3>2 DEF BatchesInv
  <2>1. Turn
    BY <1>3 DEF BatchesInv
  <2>2. CASE Pool
    <3>1. PoolStep /\ UNCHANGED <<client, cpc, batch, owed, mixed>>
      BY <2>2 DEF Pool, clientVars
    <3> QED BY <1>0, <1>3, <2>1, <3>1, PoolLeavesEnds, TurnKept
  <2>3. CASE Cancel \/ UNCHANGED vars \/ Over \/ TestsWalkAway
    <3>1. UNCHANGED <<client, cpc, batch, owed, mixed, stage>>
      BY <2>3 DEF Cancel, Over, vars, poolVars, clientVars, TestsWalkAway
    <3> QED BY <1>3, <2>1, <3>1, TurnKept
  <2>4. CASE ClientStarts
    <3>1. /\ cpc = "start" /\ cpc' = "submit"
          /\ UNCHANGED <<client, batch, owed, mixed, stage>>
      BY <2>4 DEF ClientStarts, Start, jobVars
    <3>2. batch = 1 /\ \A j \in Jobs : stage[j] = "new" /\ BatchOf[j] \in Nat /\ BatchOf[j] >= 1
      BY <2>1, <3>1, ClientAssumption DEF Turn, ClientAssumption
    <3>3. \A j \in Jobs : ~(Earlier(j)')
      BY <3>1, <3>2 DEF Earlier
    <3> QED BY <1>3, <3>1, <3>2, <3>3 DEF Turn, Batch
  <2>5. CASE ClientBatchDone
    <3>1. /\ cpc = "collect" /\ owed = 0 /\ BatchEnds
          /\ UNCHANGED <<client, mixed, stage>>
      BY <2>5 DEF ClientBatchDone, poolVars
    <3>2. \A j \in Batch : stage[j] = "received"
      BY <2>1, <3>1, NothingDue
    <3> QED BY <1>3, <2>1, <3>1, <3>2, TurnPasses
  <2>6. CASE ClientCollects
    <3>1. UNCHANGED <<client, mixed>>
      BY <2>6 DEF ClientCollects
    <3> QED BY <1>3, <2>1, <2>6, <3>1, TurnCollects
  <2>7. ASSUME NEW j \in Jobs, ClientSubmits(j)
        PROVE  client' # "tests" /\ mixed' = mixed /\ Turn'
    <3>1. UNCHANGED <<client, mixed>>
      BY <2>7 DEF ClientSubmits, clientVars
    <3> QED BY <1>0, <1>3, <2>1, <2>7, <3>1, TurnSubmits
  <2>8. ASSUME NEW j \in Jobs, ClientReceives(j)
        PROVE  client' # "tests" /\ mixed' = mixed /\ Turn'
    <3>1. Turn' /\ InBatch(j, batch)
      BY <1>0, <2>1, <2>8, TurnReceives
    <3>2. client' = client /\ mixed' = (mixed \/ ~InBatch(j, batch)) /\ mixed \in BOOLEAN
      BY <2>8 DEF ClientReceives, ClientTypes
    <3> QED BY <1>3, <3>1, <3>2
  <2>9. ASSUME NEW s \in Stoppers, ClientStops(s)
        PROVE  client' # "tests" /\ mixed' = mixed /\ Turn'
    <3>1. UNCHANGED <<client, cpc, batch, owed, mixed, stage>>
      BY <2>9 DEF ClientStops, StopBegins, jobVars, clientVars
    <3> QED BY <1>3, <2>1, <3>1, TurnKept
  <2>10. ~BatchSkipped /\ ~ClientCancelled /\ \A j \in Jobs : ~ClientRefused(j)
    BY DEF BatchSkipped, ClientCancelled, ClientRefused
  <2>11. ~TestsStep /\ \A j \in Jobs : ~TestsReceive(j)
    BY <1>3 DEF TestsStep, TestsReceive
  <2>12. CASE StreamEnds
    <3>1. /\ cpc = "stream" /\ cpc' = "stop"
          /\ UNCHANGED <<client, batch, owed, mixed, stage>>
      BY <1>3, <2>12 DEF StreamEnds, poolVars, jobVars
    <3>2. \A j \in Batch : stage[j] = "received"
      BY <2>1, <3>1 DEF Turn
    <3> QED BY <1>3, <2>1, <3>1, <3>2, TurnLeaves
  <2> QED BY <2>2, <2>3, <2>4, <2>5, <2>6, <2>7, <2>8, <2>9, <2>10, <2>11, <2>12
          DEF Next, Client, StreamLeft, StreamFails
<1> QED BY <1>1, <1>2, <1>3

\* A caller that was never refused and never cancelled has read every result of
\* the batches behind it, and no batch took a result of another one: for any
\* number of batches over one pool, in any order the lanes answer in.
THEOREM BatchesComplete == Spec => []BatchesAreComplete
<1>1. ClientTypes /\ BatchesInv => BatchesAreComplete
  <2> SUFFICES ASSUME ClientTypes, BatchesInv, gaveUp = {}
               PROVE  /\ ~mixed
                      /\ client # "tests" =>
                            \A b \in 1 .. batch : b < batch \/ cpc = "stop" =>
                                \A j \in Jobs : InBatch(j, b) => stage[j] = "received"
      BY DEF BatchesAreComplete
  <2>1. ~mixed
    BY DEF BatchesInv
  <2>2. ASSUME client # "tests", NEW b \in 1 .. batch, b < batch \/ cpc = "stop",
               NEW j \in Jobs, InBatch(j, b)
        PROVE  stage[j] = "received"
    <3>1. Turn
      BY <2>2 DEF BatchesInv
    <3>2. batch \in Nat /\ BatchOf[j] \in Nat
      BY OneBatchEach
    <3>3. CASE client = "process"
      <4>1. batch = 1
        BY <3>3 DEF ClientTypes, Batches
      <4>2. cpc = "stop" /\ j \in Batch
        BY <2>2, <3>3, <4>1 DEF Batch, InBatch
      <4> QED BY <3>1, <4>2 DEF Turn
    <3>4. CASE client # "process" /\ b < batch
      BY <2>2, <3>1, <3>2, <3>4 DEF Turn, Earlier, InBatch
    <3>5. CASE client # "process" /\ cpc = "stop" /\ b = batch
      BY <2>2, <3>1, <3>5 DEF Turn, Batch
    <3> QED BY <2>2, <3>2, <3>3, <3>4, <3>5
  <2> QED BY <2>1, <2>2
<1> QED BY <1>1, CapacityCorrect, ClientInit, ClientTypesStep, BatchesInit, BatchesStep, PTL
        DEF Spec
=================================================================================
