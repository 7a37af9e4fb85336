------------------------------ MODULE WorkerPool ------------------------------
(***************************************************************************)
(* The generic worker pool of internal/workerpool/pool.go: Pool[T].        *)
(*                                                                         *)
(* A pool owns two buffered channels, jobs and results, a context that is  *)
(* cancelled once, and WorkerCount goroutines.  Start, Submit and Stop     *)
(* serialise on the RWMutex p.mu; the workers and the reader of Results()  *)
(* take no lock and meet the lifecycle calls only through the channels and *)
(* the context.  Start and Submit never block while they hold the lock, so *)
(* each of them is one step; Stop blocks in wg.Wait() with the lock held,  *)
(* so it is one step per point at which a worker can be observed.          *)
(*                                                                         *)
(* What a job computes, and its error, is abstracted away: a job is an     *)
(* identifier, submitted once.  A Go panic ends the process.               *)
(***************************************************************************)
EXTENDS Naturals, Sequences, Functions

CONSTANTS
    Workers,        \* one goroutine of config.WorkerCount each
    Jobs,           \* the jobs callers submit
    Stoppers,       \* the goroutines that call Stop, once each
    TimedStoppers,  \* those of them that go through StopWithTimeout
    BufferSize,     \* config.BufferSize, the capacity of both channels
    MaxStarts,      \* bound: how often Start succeeds
    None            \* "no job in hand"

ASSUME PoolAssumption ==
    /\ TimedStoppers \subseteq Stoppers
    /\ BufferSize \in Nat \ {0}
    /\ MaxStarts \in Nat
    /\ None \notin Jobs

VARIABLES
    started,        \* p.started
    starts,         \* how many Start calls succeeded
    ctxDone,        \* p.ctx is cancelled
    queue,          \* the contents of the channel p.jobs
    queueClosed,    \* close(p.jobs) happened
    results,        \* the contents of the channel p.results
    resultsClosed,  \* close(p.results) happened
    pc,             \* where each worker goroutine is; "none": it does not exist
    hand,           \* the job a worker is running or delivering
    spc,            \* where each Stop call is
    timedOut,       \* the StopWithTimeout calls that returned an error
    draining,       \* somebody still reads Results()
    panicked,       \* a send on, or a close of, a closed channel
    fate,           \* history: what became of each job
    late            \* history: jobs a worker took after the cancellation

poolVars == <<started, starts, ctxDone, queue, queueClosed, results,
              resultsClosed, pc, hand, spc, timedOut, draining>>
vars == <<poolVars, panicked, fate, late>>

WorkerPC == {"none", "range", "run", "send", "check"}
StopPC   == {"idle", "cancel", "wait", "done"}
Fates    == {"new", "refused", "full", "accepted", "received", "dropped"}

(***************************************************************************)
(* p.mu is held for writing by the Stop call that is between its first     *)
(* statement and its return.  A Stop call that is "idle" has not been made *)
(* or still waits for the lock.                                            *)
(***************************************************************************)
Locked == \E s \in Stoppers : spc[s] \in {"cancel", "wait"}

Gone(w) == pc[w] = "none"

Init ==
    /\ started = FALSE
    /\ starts = 0
    /\ ctxDone = FALSE
    /\ queue = <<>>
    /\ queueClosed = FALSE
    /\ results = <<>>
    /\ resultsClosed = FALSE
    /\ pc = [w \in Workers |-> "none"]
    /\ hand = [w \in Workers |-> None]
    /\ spc = [s \in Stoppers |-> "idle"]
    /\ timedOut = {}
    /\ draining = TRUE
    /\ panicked = FALSE
    /\ fate = [j \in Jobs |-> "new"]
    /\ late = [w \in Workers |-> 0]

(***************************************************************************)
(* Start.  The second Start in a row is an error that changes nothing.     *)
(* Nothing stops a Start after a Stop: it spawns workers over a closed job *)
(* channel and a cancelled context.                                        *)
(***************************************************************************)
Start ==
    /\ ~Locked
    /\ ~started
    /\ starts < MaxStarts
    /\ started' = TRUE
    /\ starts' = starts + 1
    /\ pc' = [w \in Workers |-> "range"]
    /\ late' = [w \in Workers |-> 0]
    /\ UNCHANGED <<ctxDone, queue, queueClosed, results, resultsClosed, hand,
                   spc, timedOut, draining, panicked, fate>>

(***************************************************************************)
(* Submit.  Its select takes a ready branch, any one when both are, and    *)
(* the default only when neither is.  A send on the closed channel is a    *)
(* ready branch: taking it panics.                                         *)
(***************************************************************************)
SubmitNotStarted(j) ==
    /\ ~started
    /\ fate' = [fate EXCEPT ![j] = "refused"]
    /\ UNCHANGED <<poolVars, panicked, late>>

\* Mutation: the capacity is not respected.
SubmitUnbounded(j) ==
    /\ started
    /\ ~queueClosed
    /\ queue' = Append(queue, j)
    /\ fate' = [fate EXCEPT ![j] = "accepted"]
    /\ UNCHANGED <<started, starts, ctxDone, queueClosed, results, resultsClosed,
                   pc, hand, spc, timedOut, draining, panicked, late>>

SubmitAccepted(j) ==
    /\ started
    /\ ~queueClosed
    /\ Len(queue) < BufferSize
    /\ queue' = Append(queue, j)
    /\ fate' = [fate EXCEPT ![j] = "accepted"]
    /\ UNCHANGED <<started, starts, ctxDone, queueClosed, results, resultsClosed,
                   pc, hand, spc, timedOut, draining, panicked, late>>

SubmitCancelled(j) ==
    /\ started
    /\ ctxDone
    /\ fate' = [fate EXCEPT ![j] = "refused"]
    /\ UNCHANGED <<poolVars, panicked, late>>

\* Mutation: the default branch returns nil instead of an error.
SubmitFullSilently(j) ==
    /\ started
    /\ ~queueClosed
    /\ ~ctxDone
    /\ Len(queue) = BufferSize
    /\ fate' = [fate EXCEPT ![j] = "accepted"]
    /\ UNCHANGED <<poolVars, panicked, late>>

SubmitFull(j) ==
    /\ started
    /\ ~queueClosed
    /\ ~ctxDone
    /\ Len(queue) = BufferSize
    /\ fate' = [fate EXCEPT ![j] = "full"]
    /\ UNCHANGED <<poolVars, panicked, late>>

SubmitPanics(j) ==
    /\ started
    /\ queueClosed
    /\ panicked' = TRUE
    /\ UNCHANGED <<poolVars, fate, late>>

Submit(j) ==
    /\ ~Locked
    /\ fate[j] = "new"
    /\ \/ SubmitNotStarted(j)
       \/ SubmitAccepted(j)
       \/ SubmitCancelled(j)
       \/ SubmitFull(j)
       \/ SubmitPanics(j)

(***************************************************************************)
(* Stop: close the job channel, cancel the context, wait for the workers,  *)
(* close the result channel.  The cancellation comes before the wait: a    *)
(* worker blocked in its send is only released by it.                      *)
(***************************************************************************)
StopNotStarted(s) ==
    /\ spc[s] = "idle"
    /\ ~Locked
    /\ ~started
    /\ ctxDone' = TRUE
    /\ spc' = [spc EXCEPT ![s] = "done"]
    /\ UNCHANGED <<started, starts, queue, queueClosed, results, resultsClosed,
                   pc, hand, timedOut, draining, panicked, fate, late>>

StopClose(s) ==
    /\ spc[s] = "idle"
    /\ ~Locked
    /\ started
    /\ IF queueClosed
       THEN panicked' = TRUE /\ UNCHANGED <<queueClosed, spc>>
       ELSE /\ queueClosed' = TRUE
            /\ spc' = [spc EXCEPT ![s] = "cancel"]
            /\ UNCHANGED panicked
    /\ UNCHANGED <<started, starts, ctxDone, queue, results, resultsClosed,
                   pc, hand, timedOut, draining, fate, late>>

\* Mutation: the order before the fix, p.cancel() after wg.Wait().
StopCancelAfterWait(s) ==
    /\ spc[s] = "cancel"
    /\ \A w \in Workers : Gone(w)
    /\ ctxDone' = TRUE
    /\ spc' = [spc EXCEPT ![s] = "wait"]
    /\ UNCHANGED <<started, starts, queue, queueClosed, results, resultsClosed,
                   pc, hand, timedOut, draining, panicked, fate, late>>

StopCancel(s) ==
    /\ spc[s] = "cancel"
    /\ ctxDone' = TRUE
    /\ spc' = [spc EXCEPT ![s] = "wait"]
    /\ UNCHANGED <<started, starts, queue, queueClosed, results, resultsClosed,
                   pc, hand, timedOut, draining, panicked, fate, late>>

\* Mutation: wg.Wait() is forgotten.
StopFinishAtOnce(s) ==
    /\ spc[s] = "wait"
    /\ resultsClosed' = TRUE
    /\ started' = FALSE
    /\ spc' = [spc EXCEPT ![s] = "done"]
    /\ UNCHANGED <<starts, ctxDone, queue, queueClosed, results, pc, hand,
                   timedOut, draining, panicked, fate, late>>

StopFinish(s) ==
    /\ spc[s] = "wait"
    /\ \A w \in Workers : Gone(w)
    /\ resultsClosed' = TRUE
    /\ started' = FALSE
    /\ spc' = [spc EXCEPT ![s] = "done"]
    /\ UNCHANGED <<starts, ctxDone, queue, queueClosed, results, pc, hand,
                   timedOut, draining, panicked, fate, late>>

\* The timer of StopWithTimeout: the caller cancels the context without the
\* lock and returns an error, while the goroutine it spawned stays in Stop.
StopTimesOut(s) ==
    /\ s \in TimedStoppers \ timedOut
    /\ spc[s] # "done"
    /\ timedOut' = timedOut \union {s}
    /\ ctxDone' = TRUE
    /\ UNCHANGED <<started, starts, queue, queueClosed, results, resultsClosed,
                   pc, hand, spc, draining, panicked, fate, late>>

(***************************************************************************)
(* One worker goroutine.                                                   *)
(***************************************************************************)
\* The range over p.jobs receives what is still buffered, closed or not.
Take(w) ==
    /\ pc[w] = "range"
    /\ queue # <<>>
    /\ hand' = [hand EXCEPT ![w] = Head(queue)]
    /\ queue' = Tail(queue)
    /\ pc' = [pc EXCEPT ![w] = "run"]
    /\ late' = IF ctxDone THEN [late EXCEPT ![w] = @ + 1] ELSE late
    /\ UNCHANGED <<started, starts, ctxDone, queueClosed, results, resultsClosed,
                   spc, timedOut, draining, panicked, fate>>

Drained(w) ==
    /\ pc[w] = "range"
    /\ queue = <<>>
    /\ queueClosed
    /\ pc' = [pc EXCEPT ![w] = "none"]
    /\ UNCHANGED <<started, starts, ctxDone, queue, queueClosed, results,
                   resultsClosed, hand, spc, timedOut, draining, panicked, fate,
                   late>>

\* job.Fn returns: its context has a deadline.
RunJob(w) ==
    /\ pc[w] = "run"
    /\ pc' = [pc EXCEPT ![w] = "send"]
    /\ UNCHANGED <<started, starts, ctxDone, queue, queueClosed, results,
                   resultsClosed, hand, spc, timedOut, draining, panicked, fate,
                   late>>

SendResult(w) ==
    /\ pc[w] = "send"
    /\ ~resultsClosed
    /\ Len(results) < BufferSize
    /\ results' = Append(results, hand[w])
    /\ hand' = [hand EXCEPT ![w] = None]
    /\ pc' = [pc EXCEPT ![w] = "check"]
    /\ UNCHANGED <<started, starts, ctxDone, queue, queueClosed, resultsClosed,
                   spc, timedOut, draining, panicked, fate, late>>

SendPanics(w) ==
    /\ pc[w] = "send"
    /\ resultsClosed
    /\ panicked' = TRUE
    /\ UNCHANGED <<poolVars, fate, late>>

\* Mutation: the select has a default branch, a full channel loses the result.
DropResultWhenFull(w) ==
    /\ pc[w] = "send"
    /\ Len(results) = BufferSize
    /\ fate' = [fate EXCEPT ![hand[w]] = "dropped"]
    /\ hand' = [hand EXCEPT ![w] = None]
    /\ pc' = [pc EXCEPT ![w] = "none"]
    /\ UNCHANGED <<started, starts, ctxDone, queue, queueClosed, results,
                   resultsClosed, spc, timedOut, draining, panicked, late>>

\* The other branch of the select: the result is lost and the worker returns.
DropResult(w) ==
    /\ pc[w] = "send"
    /\ ctxDone
    /\ fate' = [fate EXCEPT ![hand[w]] = "dropped"]
    /\ hand' = [hand EXCEPT ![w] = None]
    /\ pc' = [pc EXCEPT ![w] = "none"]
    /\ UNCHANGED <<started, starts, ctxDone, queue, queueClosed, results,
                   resultsClosed, spc, timedOut, draining, panicked, late>>

\* Mutation: the context is not consulted between two jobs.
NoCheckCtx(w) ==
    /\ pc[w] = "check"
    /\ pc' = [pc EXCEPT ![w] = "range"]
    /\ UNCHANGED <<started, starts, ctxDone, queue, queueClosed, results,
                   resultsClosed, hand, spc, timedOut, draining, panicked, fate,
                   late>>

\* Mutation: the worker returns after every job.
ReturnAfterJob(w) ==
    /\ pc[w] = "check"
    /\ pc' = [pc EXCEPT ![w] = "none"]
    /\ UNCHANGED <<started, starts, ctxDone, queue, queueClosed, results,
                   resultsClosed, hand, spc, timedOut, draining, panicked, fate,
                   late>>

CheckCtx(w) ==
    /\ pc[w] = "check"
    /\ pc' = [pc EXCEPT ![w] = IF ctxDone THEN "none" ELSE "range"]
    /\ UNCHANGED <<started, starts, ctxDone, queue, queueClosed, results,
                   resultsClosed, hand, spc, timedOut, draining, panicked, fate,
                   late>>

Worker(w) ==
    \/ Take(w)
    \/ Drained(w)
    \/ RunJob(w)
    \/ SendResult(w)
    \/ SendPanics(w)
    \/ DropResult(w)
    \/ CheckCtx(w)

(***************************************************************************)
(* The reader of Results().  It may walk away at any time, as a collection *)
(* loop that returns on ctx.Done() does.                                   *)
(***************************************************************************)
Receive ==
    /\ draining
    /\ results # <<>>
    /\ results' = Tail(results)
    /\ fate' = [fate EXCEPT ![Head(results)] = "received"]
    /\ UNCHANGED <<started, starts, ctxDone, queue, queueClosed, resultsClosed,
                   pc, hand, spc, timedOut, draining, panicked, late>>

WalkAway ==
    /\ draining
    /\ draining' = FALSE
    /\ UNCHANGED <<started, starts, ctxDone, queue, queueClosed, results,
                   resultsClosed, pc, hand, spc, timedOut, panicked, fate, late>>

StopStep(s) ==
    \/ StopNotStarted(s)
    \/ StopClose(s)
    \/ StopCancel(s)
    \/ StopFinish(s)

\* Nothing is left to happen: the process died, or every call was made.
Finished ==
    /\ \/ panicked
       \/ /\ \A s \in Stoppers : spc[s] = "done"
          /\ \A w \in Workers :
                Gone(w) \/ (pc[w] = "range" /\ queue = <<>> /\ ~queueClosed)
    /\ UNCHANGED vars

Next ==
    \/ /\ ~panicked
       /\ \/ Start
          \/ \E j \in Jobs : Submit(j)
          \/ \E s \in Stoppers : StopStep(s) \/ StopTimesOut(s)
          \/ \E w \in Workers : Worker(w)
          \/ Receive
          \/ WalkAway
    \/ Finished

(***************************************************************************)
(* Go schedules every runnable goroutine, and every job returns because it *)
(* runs under context.WithTimeout.  Nobody has to call Start, Submit or    *)
(* Stop; a Stop that has begun goes on.  The reader reads until it leaves. *)
(***************************************************************************)
Fairness ==
    /\ \A w \in Workers : WF_vars(~panicked /\ Worker(w))
    /\ \A s \in Stoppers : WF_vars(~panicked /\ (StopCancel(s) \/ StopFinish(s)))
    /\ WF_vars(~panicked /\ Receive)

Spec == Init /\ [][Next]_vars /\ Fairness

-----------------------------------------------------------------------------
(* Properties. *)

InQueue   == Range(queue)
InResults == Range(results)
InHand    == {hand[w] : w \in Workers} \ {None}

\* Every variable of the pool keeps its type, and both channels their capacity.
TypeOK ==
    /\ started \in BOOLEAN
    /\ starts \in 0 .. MaxStarts
    /\ ctxDone \in BOOLEAN
    /\ queue \in Seq(Jobs)
    /\ Len(queue) <= BufferSize
    /\ queueClosed \in BOOLEAN
    /\ results \in Seq(Jobs)
    /\ Len(results) <= BufferSize
    /\ resultsClosed \in BOOLEAN
    /\ pc \in [Workers -> WorkerPC]
    /\ hand \in [Workers -> Jobs \union {None}]
    /\ spc \in [Stoppers -> StopPC]
    /\ timedOut \in SUBSET TimedStoppers
    /\ draining \in BOOLEAN
    /\ panicked \in BOOLEAN
    /\ fate \in [Jobs -> Fates]
    /\ late \in [Workers -> Nat]

\* A pool that is started only once never sends on a closed channel and never
\* closes one twice, however Submit, concurrent Stop calls, the timer of
\* StopWithTimeout and the workers interleave.
NoPanicInFirstLife == starts <= 1 => ~panicked

\* The jobs that were accepted and not yet answered are exactly those in the
\* job channel, in a worker's hands or in the result channel: none vanishes
\* between Submit and Results() and none is in two places.
EachJobInOnePlace ==
    /\ {j \in Jobs : fate[j] = "accepted"} = InQueue \union InHand \union InResults
    /\ InQueue \intersect InHand = {}
    /\ InQueue \intersect InResults = {}
    /\ InHand \intersect InResults = {}
    /\ IsInjective(queue)
    /\ IsInjective(results)
    /\ \A v, w \in Workers : hand[v] = hand[w] /\ hand[v] # None => v = w

\* Stop returns only when no job runs any more: a pool that is not started has
\* no worker, and in its first life nobody is left to send once results is closed.
QuietWhenStopped ==
    /\ ~started => \A w \in Workers : Gone(w)
    /\ resultsClosed /\ starts <= 1 => \A w \in Workers : Gone(w)

\* Stop ends the pool cleanly: no channel is used or closed after its end, and
\* no worker outlives it.
StopIsClean == NoPanicInFirstLife /\ QuietWhenStopped

\* A result is thrown away only after the context was cancelled.
DropOnlyAfterCancel == (\E j \in Jobs : fate[j] = "dropped") => ctxDone

\* After the cancellation each worker begins at most one more job, although
\* the job channel may still be full: the check after the send ends it.
AtMostOneLateJob == \A w \in Workers : late[w] <= 1

\* Nothing is lost before the cancellation and hardly anything begun after it:
\* both sides of what cancelling a pool with full channels means.
CancellationIsSharp == DropOnlyAfterCancel /\ AtMostOneLateJob

\* Stop always returns, also when nobody reads the results any more: what
\* TestRepositoryWorkerPoolStopDoesNotHang demands.
StopReturns ==
    \A s \in Stoppers : (spc[s] \in {"cancel", "wait"}) ~> (spc[s] = "done" \/ panicked)

\* An accepted job is answered as long as somebody reads and nobody stops.
AcceptedIsAnswered ==
    \A j \in Jobs :
        (fate[j] = "accepted") ~> (fate[j] = "received" \/ ctxDone \/ ~draining)

\* To its callers the pool is a JobService: the refinement mapping forgets the
\* channels and reads the phase off the context and the result channel.
Phase == IF resultsClosed THEN "closed" ELSE IF ctxDone THEN "closing" ELSE "open"
Service == INSTANCE JobService WITH phase <- Phase
ImplementsJobService == Service!Spec
=============================================================================
