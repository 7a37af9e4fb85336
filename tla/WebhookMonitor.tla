----------------------------- MODULE WebhookMonitor -----------------------------
(***************************************************************************)
(* The life of WebhookMonitor of pkg/github: Start begins three loops, and *)
(* Stop closes the one stop channel, which is never made anew: loops of a  *)
(* later Start see it closed at once, and a later Stop closes it again.    *)
(* What the loops do at a tick concerns none of this and is left out.      *)
(***************************************************************************)
EXTENDS Naturals

CONSTANT MaxStarts \* bound: successful calls of Start

ASSUME MonitorAssumption == MaxStarts \in Nat \ {0}

Starts == 1 .. MaxStarts
LoopKinds == {"monitorLoop", "metricsCollector", "alertProcessor"}

VARIABLES
    running,     \* wm.running
    stopClosed,  \* wm.stopChannel is closed
    panicked,    \* Stop closed it a second time
    starts,      \* successful calls of Start
    loops,       \* for each of them, its loops that are alive
    ctxEnded     \* the ctx of each is cancelled

monitorVars == <<running, stopClosed, panicked, starts, loops, ctxEnded>>

MonitorInit ==
    /\ running = FALSE
    /\ stopClosed = FALSE
    /\ panicked = FALSE
    /\ starts = 0
    /\ loops = [s \in Starts |-> {}]
    /\ ctxEnded = [s \in Starts |-> FALSE]

StartMonitor ==
    /\ ~panicked
    /\ ~running
    /\ starts < MaxStarts
    /\ running' = TRUE
    /\ starts' = starts + 1
    /\ loops' = [loops EXCEPT ![starts + 1] = LoopKinds]
    /\ UNCHANGED <<stopClosed, panicked, ctxEnded>>

\* Closing a closed channel panics, with the program; else the loops will see it.
StopMonitor ==
    /\ ~panicked
    /\ running
    /\ IF stopClosed
         THEN panicked' = TRUE /\ UNCHANGED <<running, stopClosed>>
         ELSE running' = FALSE /\ stopClosed' = TRUE /\ UNCHANGED panicked
    /\ UNCHANGED <<starts, loops, ctxEnded>>

\* The ctx of a Start ends: running stays as it is.
EndMonitorCtx(s) ==
    /\ ~panicked
    /\ s <= starts
    /\ ctxEnded' = [ctxEnded EXCEPT ![s] = TRUE]
    /\ UNCHANGED <<running, stopClosed, panicked, starts, loops>>

MonitorLoopEnds(s, kind) ==
    /\ ~panicked
    /\ kind \in loops[s]
    /\ stopClosed \/ ctxEnded[s]
    /\ loops' = [loops EXCEPT ![s] = @ \ {kind}]
    /\ UNCHANGED <<running, stopClosed, panicked, starts, ctxEnded>>

MonitorNext ==
    \/ StartMonitor
    \/ StopMonitor
    \/ \E s \in Starts : EndMonitorCtx(s)
    \/ \E s \in Starts, kind \in LoopKinds : MonitorLoopEnds(s, kind)

\* A select takes a case that stays ready.
MonitorFairness == \A s \in Starts, kind \in LoopKinds : WF_monitorVars(MonitorLoopEnds(s, kind))

MonitorTypeOK ==
    /\ running \in BOOLEAN
    /\ stopClosed \in BOOLEAN
    /\ panicked \in BOOLEAN
    /\ starts \in 0 .. MaxStarts
    /\ loops \in [Starts -> SUBSET LoopKinds]
    /\ ctxEnded \in [Starts -> BOOLEAN]

\* Once Stop was called, or the ctx of every Start is cancelled, a time comes
\* when no loop is left, unless Stop has panicked.
MonitorLoopsEnd ==
    stopClosed \/ (starts > 0 /\ \A s \in 1 .. starts : ctxEnded[s])
      ~> (\A s \in Starts : loops[s] = {}) \/ panicked
================================================================================
