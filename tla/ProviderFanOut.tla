----------------------------- MODULE ProviderFanOut -----------------------------
(***************************************************************************)
(* ExecuteAcrossProvidersParallel of the provider registry: a goroutine    *)
(* for each enabled provider gets the provider, runs a function with it    *)
(* and sends what came of it; the caller collects as many results as there *)
(* are goroutines, or leaves when its ctx ends.  GetProvider, which always *)
(* returns, is a step that succeeds or fails (see ProviderRegistry).       *)
(***************************************************************************)
EXTENDS Naturals, FiniteSets

CONSTANT Providers  \* the configured providers

ASSUME FanOutAssumption == IsFiniteSet(Providers)

VARIABLES
    fanPC,      \* where the caller is
    listed,     \* the providers ListProviders gave it
    workerPC,   \* where the goroutine of each provider is
    results,    \* what is in the results channel
    collected,  \* results received
    errors,     \* how many of them were errors
    fanCtxDone, \* the caller's ctx is cancelled
    succeeded   \* history: the providers for which the function succeeded

fanVars == <<fanPC, listed, workerPC, results, collected, errors, fanCtxDone, succeeded>>

FanInit ==
    /\ fanPC = "start"
    /\ listed = {}
    /\ workerPC = [p \in Providers |-> "off"]
    /\ results = {}
    /\ collected = 0
    /\ errors = 0
    /\ fanCtxDone = FALSE
    /\ succeeded = {}

\* The enabled providers; each gets its goroutine at once.
FanOut ==
    /\ fanPC = "start"
    /\ \E enabled \in SUBSET Providers :
         /\ listed' = enabled
         /\ workerPC' = [p \in Providers |-> IF p \in enabled THEN "get" ELSE "off"]
    /\ fanPC' = "collect"
    /\ UNCHANGED <<results, collected, errors, fanCtxDone, succeeded>>

WorkerGets(p) ==
    /\ workerPC[p] = "get"
    /\ \E pc \in {"run", "fail"} : workerPC' = [workerPC EXCEPT ![p] = pc]
    /\ UNCHANGED <<fanPC, listed, results, collected, errors, fanCtxDone, succeeded>>

\* Mutation: room for one result.
RoomForOne == 1

\* The channel is made with room for everybody.
ResultsCapacity == Cardinality(listed)

Send(p, ok) ==
    /\ Cardinality(results) < ResultsCapacity
    /\ results' = results \union {[provider |-> p, ok |-> ok]}
    /\ workerPC' = [workerPC EXCEPT ![p] = "done"]

WorkerRuns(p) ==
    /\ workerPC[p] = "run"
    /\ \E ok \in BOOLEAN :
         /\ Send(p, ok)
         /\ succeeded' = IF ok THEN succeeded \union {p} ELSE succeeded
    /\ UNCHANGED <<fanPC, listed, collected, errors, fanCtxDone>>

WorkerFails(p) ==
    /\ workerPC[p] = "fail"
    /\ Send(p, FALSE)
    /\ UNCHANGED <<fanPC, listed, collected, errors, fanCtxDone, succeeded>>

Collect ==
    /\ fanPC = "collect"
    /\ collected < Cardinality(listed)
    /\ \E r \in results :
         /\ results' = results \ {r}
         /\ errors' = IF r.ok THEN errors ELSE errors + 1
    /\ collected' = collected + 1
    /\ UNCHANGED <<fanPC, listed, workerPC, fanCtxDone, succeeded>>

FanReturns ==
    /\ fanPC = "collect"
    /\ collected = Cardinality(listed)
    /\ fanPC' = IF errors = 0 THEN "ok" ELSE "error"
    /\ UNCHANGED <<listed, workerPC, results, collected, errors, fanCtxDone, succeeded>>

CancelFan ==
    /\ fanPC = "collect"
    /\ fanCtxDone' = TRUE
    /\ UNCHANGED <<fanPC, listed, workerPC, results, collected, errors, succeeded>>

\* Mutation: what was collected until ctx ended decides.
FanLeavesContent ==
    /\ fanPC = "collect"
    /\ fanCtxDone
    /\ collected < Cardinality(listed)
    /\ fanPC' = IF errors = 0 THEN "ok" ELSE "error"
    /\ UNCHANGED <<listed, workerPC, results, collected, errors, fanCtxDone, succeeded>>

\* Mutation: the end of ctx counts as an error that was collected.
FanLeavesCounting ==
    /\ fanPC = "collect"
    /\ fanCtxDone
    /\ collected < Cardinality(listed)
    /\ fanPC' = "error"
    /\ errors' = errors + 1
    /\ UNCHANGED <<listed, workerPC, results, collected, fanCtxDone, succeeded>>

\* A result and the end of ctx may both be ready: either may be taken.
FanLeaves ==
    /\ fanPC = "collect"
    /\ fanCtxDone
    /\ collected < Cardinality(listed)
    /\ fanPC' = "error"
    /\ UNCHANGED <<listed, workerPC, results, collected, errors, fanCtxDone, succeeded>>

WorkerStep(p) ==
    \/ WorkerGets(p)
    \/ WorkerRuns(p)
    \/ WorkerFails(p)

CollectorStep ==
    \/ Collect
    \/ FanReturns
    \/ FanLeaves

FanNext ==
    \/ FanOut
    \/ \E p \in Providers : WorkerStep(p)
    \/ CollectorStep
    \/ CancelFan

\* Goroutines that run on, given that the function returns.
FanFairness ==
    /\ \A p \in Providers : WF_fanVars(WorkerStep(p))
    /\ WF_fanVars(CollectorStep)

FanTypeOK ==
    /\ fanPC \in {"start", "collect", "ok", "error"}
    /\ listed \subseteq Providers
    /\ workerPC \in [Providers -> {"off", "get", "run", "fail", "done"}]
    /\ results \subseteq [provider : Providers, ok : BOOLEAN]
    /\ collected \in 0 .. Cardinality(Providers)
    /\ errors \in 0 .. collected
    /\ fanCtxDone \in BOOLEAN
    /\ succeeded \subseteq Providers

\* The fan-out reports success only if the function has succeeded for every
\* provider that was listed, also when its ctx ended meanwhile.
SuccessIsComplete == fanPC = "ok" => succeeded = listed

\* The caller returns and every goroutine ends, also those whose caller has
\* left without taking their results.
FanOutEnds ==
    fanPC = "collect" ~> /\ fanPC \in {"ok", "error"}
                         /\ \A p \in Providers : workerPC[p] \in {"off", "done"}
================================================================================
