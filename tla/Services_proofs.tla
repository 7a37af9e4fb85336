----------------------------- MODULE Services_proofs -----------------------------
(***************************************************************************)
(* Theorems about the services: the watchers of the configuration file,    *)
(* for any number of calls; the fan-out over providers, for any number of  *)
(* them; the cached results of a policy, for any number of evaluations;    *)
(* the snapshots, for any number of saves and loads; the cache of          *)
(* providers, for any number of names and getters; and the types of all.   *)
(***************************************************************************)
EXTENDS Services, TLAPS, FiniteSetTheorems, WellFoundedInduction

(***************************************************************************)
(* Why a watcher is closed once.  Whoever closes it also takes it out of   *)
(* s.watcher, and closes only what is there; so every watcher that was     *)
(* made and is not the current one has been closed exactly once.           *)
(***************************************************************************)
LoopStates == {"none", "select", "changed", "reloaded", "picked", "leaving", "done"}

WatchInv ==
    /\ watcher \in {0} \union Watchers
    /\ opened \in 0 .. MaxWatches
    /\ closes \in [Watchers -> Nat]
    /\ loopPC \in [Watchers -> LoopStates]
    /\ \A w \in Watchers :
         /\ w > opened => closes[w] = 0 /\ loopPC[w] = "none" /\ watcher # w
         /\ closes[w] <= 1
         /\ watcher = w => closes[w] = 0 /\ callback = w /\ loopPC[w] \notin {"none", "done"}
         /\ watcher # w /\ loopPC[w] # "none" => closes[w] = 1

\* At first there is no watcher.
LEMMA WatchInit == ConfigInit => WatchInv
  BY ConfigServiceAssumption DEF ConfigInit, WatchInv, ConfigServiceAssumption, Watchers, LoopStates

\* Every step keeps each watcher open until its one close.
LEMMA WatchStep == WatchInv /\ [ConfigNext]_configVars => WatchInv'
<1> SUFFICES ASSUME WatchInv, [ConfigNext]_configVars PROVE WatchInv'
    OBVIOUS
<1> USE ConfigServiceAssumption DEF ConfigServiceAssumption, Watchers
<1>1. ASSUME UNCHANGED <<watcher, callback, opened, closes, loopPC>> PROVE WatchInv'
  BY <1>1 DEF WatchInv
<1>2. ASSUME \/ \E p \in EditedPaths : EditorTruncates(p) \/ EditorWrites(p) \/ EditorReplaces(p)
             \/ \E path \in Paths \union {None} : LoadConfiguration(path)
             \/ ReloadConfiguration
             \/ \E p \in Paths : SaveConfiguration(p)
             \/ \E p \in Paths : CreateDefaultConfiguration(p) \/ CreateDefaultFails(p)
      PROVE  WatchInv'
  BY <1>1, <1>2 DEF EditorTruncates, EditorWrites, EditorReplaces, SaveConfiguration,
        CreateDefaultConfiguration, CreateDefaultFails, ReloadConfiguration, LoadConfiguration, watchVars, loopVars
<1>3. CASE WatchConfiguration
  <2> DEFINE w == opened + 1
  <2>1. w \in Watchers /\ watcher = 0 /\ opened' = w /\ callback' = w /\ closes[w] = 0 /\ loopPC[w] = "none"
    BY <1>3 DEF WatchConfiguration, WatchInv
  <2>2. CASE file[configPath] = "absent"
    <3>1. UNCHANGED <<watcher, loopPC>> /\ closes' = [closes EXCEPT ![w] = 1]
      BY <1>3, <2>2 DEF WatchConfiguration
    <3> QED BY <2>1, <3>1 DEF WatchInv
  <2>3. CASE file[configPath] # "absent"
    <3>1. watcher' = w /\ closes' = closes /\ loopPC' = [loopPC EXCEPT ![w] = "select"]
      BY <1>3, <2>3 DEF WatchConfiguration
    <3> QED BY <2>1, <3>1 DEF WatchInv, LoopStates
  <2> QED BY <2>2, <2>3
<1>4. CASE StopWatching
  BY <1>4 DEF StopWatching, CloseWatcher, loopVars, WatchInv
<1>5. ASSUME NEW w \in Watchers, CancelWatch(w) PROVE WatchInv'
  BY <1>1, <1>5 DEF CancelWatch, loopVars
<1>6. ASSUME NEW w \in Watchers, LoopStep(w) PROVE WatchInv'
  <2>1. CASE LoopEnds(w)
    <3>1. loopPC[w] = "leaving" /\ opened' = opened /\ loopPC' = [loopPC EXCEPT ![w] = "done"]
      BY <2>1 DEF LoopEnds, GoTo
    <3>2. CASE watcher = w
      <4>1. watcher' = 0 /\ closes' = [closes EXCEPT ![w] = @ + 1]
        BY <2>1, <3>2 DEF LoopEnds, CloseWatcher
      <4> QED BY <1>6, <3>1, <3>2, <4>1 DEF WatchInv, LoopStates
    <3>3. CASE watcher # w
      <4>1. UNCHANGED <<watcher, callback, closes>>
        BY <2>1, <3>3 DEF LoopEnds
      <4> QED BY <1>6, <3>1, <3>3, <4>1 DEF WatchInv, LoopStates
    <3> QED BY <3>2, <3>3
  <2>2. CASE ~LoopEnds(w)
    <3>1. /\ UNCHANGED <<watcher, callback, opened, closes>>
          /\ loopPC[w] \notin {"none", "done"}
          /\ \E pc \in {"select", "changed", "reloaded", "picked", "leaving"} : GoTo(w, pc)
      BY <1>6, <2>2 DEF LoopStep, LoopTakesEvent, LoopLeaves, LoopReloads, LoopPicks, LoopCalls, watchVars
    <3> QED BY <1>6, <3>1 DEF WatchInv, GoTo, LoopStates
  <2> QED BY <2>1, <2>2
<1>7. CASE UNCHANGED configVars
  BY <1>1, <1>7 DEF configVars, watchVars, loopVars
<1> QED BY <1>2, <1>3, <1>4, <1>5, <1>6, <1>7 DEF ConfigNext

\* StopWatching and the ends of the watch loops, in any order and over any
\* number of watchers, close each of them at most once and the current never.
THEOREM ClosedOnce == Spec => []WatchersAreClosedOnce
<1>1. Init => WatchInv
  BY WatchInit DEF Init
<1>2. WatchInv /\ [Next]_serviceVars => WatchInv'
  <2>1. [Next]_serviceVars => [ConfigNext]_configVars
    BY DEF Next, serviceVars
  <2> QED BY <2>1, WatchStep
<1>3. WatchInv => WatchersAreClosedOnce
  BY DEF WatchInv, WatchersAreClosedOnce
<1> QED BY <1>1, <1>2, <1>3, PTL DEF Spec

-----------------------------------------------------------------------------
(***************************************************************************)
(* Why a fan-out's success is complete.  Results not yet collected, errors *)
(* among those collected and successes together are as many as the         *)
(* goroutines that have sent; the caller returns when it has one from each.*)
(***************************************************************************)
Sent == {p \in Providers : workerPC[p] = "done"}
SentBy(p) == \E ok \in BOOLEAN : [provider |-> p, ok |-> ok] \in results

FanTypes ==
    /\ fanPC \in {"start", "collect", "ok", "error"}
    /\ listed \subseteq Providers
    /\ workerPC \in [Providers -> {"off", "get", "run", "fail", "done"}]
    /\ results \subseteq [provider : Providers, ok : BOOLEAN]
    /\ collected \in Nat
    /\ errors \in Nat
    /\ succeeded \subseteq Providers

FanInv ==
    /\ FanTypes
    /\ fanPC = "start" => \A p \in Providers : workerPC[p] = "off"
    /\ fanPC = "start" => results = {} /\ collected = 0 /\ errors = 0 /\ succeeded = {}
    /\ fanPC # "start" => listed = {p \in Providers : workerPC[p] # "off"}
    /\ \A r \in results : r.provider \in Sent
    /\ \A r, q \in results : r.provider = q.provider => r = q
    /\ \A r \in results : r.ok => r.provider \in succeeded
    /\ succeeded \subseteq Sent
    /\ IsFiniteSet(results)
    /\ Cardinality(Sent) = collected + Cardinality(results)
    /\ errors = 0 => \A p \in Sent : p \in succeeded \/ SentBy(p)
    /\ fanPC = "ok" => errors = 0 /\ collected = Cardinality(listed)

\* Every set of the invariant is finite.
LEMMA FanFinite ==
    ASSUME FanInv
    PROVE  /\ IsFiniteSet(listed) /\ Cardinality(listed) \in Nat
           /\ IsFiniteSet(Sent) /\ Cardinality(Sent) \in Nat
           /\ IsFiniteSet(results) /\ Cardinality(results) \in Nat
<1>1. IsFiniteSet(listed) /\ IsFiniteSet(Sent)
  BY FanOutAssumption, FS_Subset DEF FanInv, FanTypes, Sent, FanOutAssumption
<1>2. IsFiniteSet(results)
  BY DEF FanInv
<1> QED BY <1>1, <1>2, FS_CardinalityType

\* When everything was collected, everybody has sent and nothing is left.
LEMMA FanAllSent ==
    ASSUME FanInv, fanPC # "start", collected = Cardinality(listed)
    PROVE  Sent = listed /\ results = {}
<1>1. Sent \subseteq listed
  BY DEF FanInv, Sent
<1>2. Cardinality(Sent) <= Cardinality(listed)
  BY <1>1, FanFinite, FS_Subset
<1>3. Cardinality(Sent) = Cardinality(listed) + Cardinality(results)
  BY DEF FanInv
<1>4. Cardinality(Sent) = Cardinality(listed) /\ Cardinality(results) = 0
  BY <1>2, <1>3, FanFinite
<1>5. Sent = listed
  BY <1>1, <1>4, FanFinite, FS_Subset
<1>6. results = {}
  BY <1>4, FanFinite, FS_EmptySet
<1> QED BY <1>5, <1>6

\* At first nothing was fanned out.
LEMMA FanStarts == FanInit => FanInv
<1> SUFFICES ASSUME FanInit PROVE FanInv
    OBVIOUS
<1>1. Sent = {}
  BY DEF FanInit, Sent
<1>2. Cardinality(Sent) = 0 /\ Cardinality(results) = 0 /\ IsFiniteSet(results)
  BY <1>1, FS_EmptySet DEF FanInit
<1> QED BY <1>1, <1>2 DEF FanInit, FanInv, FanTypes, SentBy

\* A goroutine that sends adds itself to those that have sent, and a result.
LEMMA FanSends ==
    ASSUME FanInv, NEW p \in Providers, NEW ok \in BOOLEAN,
           workerPC[p] \in {"run", "fail"}, Send(p, ok),
           succeeded' = (IF ok THEN succeeded \union {p} ELSE succeeded),
           UNCHANGED <<fanPC, listed, collected, errors, fanCtxDone>>
    PROVE  FanInv'
<1> DEFINE r == [provider |-> p, ok |-> ok]
<1>1. p \notin Sent /\ fanPC # "start"
  BY DEF FanInv, Sent
<1>2. workerPC' = [workerPC EXCEPT ![p] = "done"] /\ results' = results \union {r}
  BY DEF Send
<1>3. Sent' = Sent \union {p}
  BY <1>2 DEF Sent, FanInv, FanTypes
<1>4. r \notin results
  BY <1>1 DEF FanInv
<1>5. Cardinality(Sent') = Cardinality(Sent) + 1
  BY <1>1, <1>3, FanFinite, FS_AddElement
<1>6. Cardinality(results') = Cardinality(results) + 1 /\ IsFiniteSet(results')
  BY <1>2, <1>4, FanFinite, FS_AddElement
<1>7. fanPC # "ok"
  <2>1. ASSUME fanPC = "ok" PROVE FALSE
    <3>1. Sent = listed
      BY <2>1, FanAllSent DEF FanInv
    <3>2. p \in listed
      BY <1>1 DEF FanInv
    <3> QED BY <1>1, <3>1, <3>2
  <2> QED BY <2>1
<1>8. FanTypes'
  BY <1>2 DEF FanInv, FanTypes
<1>9. listed' = {q \in Providers : workerPC'[q] # "off"}
  BY <1>1, <1>2 DEF FanInv, FanTypes
<1>10. \A q \in results' : q.provider \in Sent' /\ (q.ok => q.provider \in succeeded')
  BY <1>2, <1>3 DEF FanInv
<1>11. \A q, s \in results' : q.provider = s.provider => q = s
  BY <1>1, <1>2 DEF FanInv
<1>12. succeeded' \subseteq Sent'
  BY <1>3 DEF FanInv
<1>13. Cardinality(Sent') = collected' + Cardinality(results')
  BY <1>5, <1>6, FanFinite DEF FanInv, FanTypes
<1>14. errors' = 0 => \A q \in Sent' : q \in succeeded' \/ SentBy(q)'
  BY <1>2, <1>3 DEF FanInv, SentBy
<1> QED BY <1>1, <1>6, <1>7, <1>8, <1>9, <1>10, <1>11, <1>12, <1>13, <1>14 DEF FanInv

\* The caller of a fan-out collects one result.
LEMMA FanCollects == FanInv /\ Collect => FanInv'
<1> SUFFICES ASSUME FanInv, Collect PROVE FanInv'
    OBVIOUS
<1>1. PICK r \in results : /\ results' = results \ {r}
                           /\ errors' = IF r.ok THEN errors ELSE errors + 1
  BY DEF Collect
<1>2. /\ fanPC = "collect" /\ collected' = collected + 1
      /\ UNCHANGED <<fanPC, listed, workerPC, fanCtxDone, succeeded>>
  BY DEF Collect
<1>3. Sent' = Sent
  BY <1>2 DEF Sent
<1>4. Cardinality(results') = Cardinality(results) - 1 /\ IsFiniteSet(results')
  BY <1>1, FanFinite, FS_RemoveElement
<1>5. FanTypes'
  BY <1>1, <1>2 DEF FanInv, FanTypes
<1>6. Cardinality(Sent') = collected' + Cardinality(results')
  BY <1>2, <1>3, <1>4, FanFinite DEF FanInv, FanTypes
<1>7. errors' = 0 => \A p \in Sent' : p \in succeeded' \/ SentBy(p)'
  <2> SUFFICES ASSUME errors' = 0, NEW p \in Sent, p \notin succeeded PROVE SentBy(p)'
      BY <1>2, <1>3
  <2>1. r.ok /\ errors = 0
    BY <1>1 DEF FanInv, FanTypes
  <2>2. r.provider # p
    BY <2>1 DEF FanInv
  <2>3. PICK ok \in BOOLEAN : [provider |-> p, ok |-> ok] \in results
    BY <2>1 DEF FanInv, SentBy
  <2>4. [provider |-> p, ok |-> ok] # r
    BY <2>2
  <2> QED BY <1>1, <2>3, <2>4 DEF SentBy
<1> QED BY <1>1, <1>2, <1>3, <1>4, <1>5, <1>6, <1>7 DEF FanInv

\* Every step of the fan-outs keeps the invariant.
LEMMA FanStep == FanInv /\ [FanNext]_fanVars => FanInv'
<1> SUFFICES ASSUME FanInv, [FanNext]_fanVars PROVE FanInv'
    OBVIOUS
<1>1. CASE FanOut
  <2>1. PICK enabled \in SUBSET Providers :
           /\ listed' = enabled
           /\ workerPC' = [p \in Providers |-> IF p \in enabled THEN "get" ELSE "off"]
    BY <1>1 DEF FanOut
  <2>2. Sent' = {} /\ Sent = {}
    BY <1>1, <2>1 DEF Sent, FanOut, FanInv
  <2> QED BY <1>1, <2>1, <2>2 DEF FanOut, FanInv, FanTypes, SentBy
<1>2. ASSUME NEW p \in Providers, WorkerGets(p) PROVE FanInv'
  <2>1. Sent' = Sent
    BY <1>2 DEF WorkerGets, Sent, FanInv, FanTypes
  <2>2. FanTypes' /\ fanPC # "start" /\ listed' = {q \in Providers : workerPC'[q] # "off"}
    BY <1>2 DEF WorkerGets, FanInv, FanTypes
  <2> QED BY <1>2, <2>1, <2>2 DEF WorkerGets, FanInv, SentBy
<1>3. ASSUME NEW p \in Providers, WorkerRuns(p) PROVE FanInv'
  BY <1>3, FanSends DEF WorkerRuns
<1>4. ASSUME NEW p \in Providers, WorkerFails(p) PROVE FanInv'
  BY <1>4, FanSends DEF WorkerFails
<1>5. CASE Collect
  BY <1>5, FanCollects
<1>6. CASE FanReturns \/ FanLeaves \/ CancelFan \/ UNCHANGED fanVars
  <2>1. UNCHANGED <<listed, workerPC, results, collected, errors, succeeded>>
    BY <1>6 DEF FanReturns, FanLeaves, CancelFan, fanVars
  <2>2. /\ fanPC' \in {"start", "collect", "ok", "error"}
        /\ fanPC' = "start" <=> fanPC = "start"
        /\ fanPC' = "ok" => errors = 0 /\ collected = Cardinality(listed)
    BY <1>6 DEF FanReturns, FanLeaves, CancelFan, fanVars, FanInv, FanTypes
  <2>3. Sent' = Sent
    BY <2>1 DEF Sent
  <2> QED BY <2>1, <2>2, <2>3 DEF FanInv, FanTypes, SentBy
<1> QED BY <1>1, <1>2, <1>3, <1>4, <1>5, <1>6 DEF FanNext, WorkerStep, CollectorStep

\* For any number of providers, and however its goroutines and the end of
\* its ctx fall, a fan-out that returns success has run the function
\* successfully for every enabled provider.
THEOREM FanOutSucceeds == Spec => []SuccessIsComplete
<1>1. Init => FanInv
  BY FanStarts DEF Init
<1>2. FanInv /\ [Next]_serviceVars => FanInv'
  <2>1. [Next]_serviceVars => [FanNext]_fanVars
    BY DEF Next, serviceVars
  <2> QED BY <2>1, FanStep
<1>3. FanInv => SuccessIsComplete
  <2> SUFFICES ASSUME FanInv, fanPC = "ok" PROVE succeeded = listed
      BY DEF SuccessIsComplete
  <2>1. Sent = listed /\ results = {}
    BY FanAllSent DEF FanInv
  <2> QED BY <2>1 DEF FanInv, SentBy
<1> QED BY <1>1, <1>2, <1>3, PTL DEF Spec

-----------------------------------------------------------------------------
(***************************************************************************)
(* Why dropped results stay away.  Nothing was dropped for a policy newer  *)
(* than the present one, so an evaluation that reads the present one now   *)
(* has a result that may be stored; one that has its result already when   *)
(* results are dropped is entered in belated.                              *)
(***************************************************************************)
KeptResults == [made : Nat, good : BOOLEAN, late : BOOLEAN]
EvaluationStates == {"idle", "lookup", "check", "fetch", "evaluate", "store"}

PolicyInv ==
    /\ policiesMade \in Nat
    /\ dropped \in [Orgs -> Nat]
    /\ policyResults \in [Orgs -> KeptResults \union {NoResult}]
    /\ evaluating \in [Evaluators -> [pc : EvaluationStates, org : Orgs \union {NoOrg}, made : Nat]]
    /\ \A e \in Evaluators : evaluating[e].pc # "idle" => evaluating[e].org \in Orgs
    /\ \A o \in Orgs : dropped[o] <= policiesMade + 1
    /\ policy # NoPolicy => /\ policy.made = policiesMade
                            /\ policy.org \in Orgs
                            /\ \A o \in Orgs : dropped[o] <= policiesMade
    /\ \A e \in Evaluators \ belated :
         evaluating[e].pc = "store" => evaluating[e].made >= dropped[evaluating[e].org]
    /\ DroppedResultsStayAway

\* At first nothing is cached.
LEMMA PolicyStarts == PolicyInit => PolicyInv
  BY DEF PolicyInit, PolicyInv, Waiting, EvaluationStates, DroppedResultsStayAway

\* What a step that leaves the policy and the drops alone has to see to.
LEMMA EvaluationMoves ==
    ASSUME PolicyInv, NEW e \in Evaluators, UNCHANGED <<policy, policiesMade, dropped, policyResults>>,
           belated' \in {belated, belated \ {e}},
           \/ EvaluationReturns(e)
           \/ \E pc \in {"lookup", "check", "fetch", "evaluate"} : EvaluationGoes(e, pc),
           evaluating[e].pc # "idle"
    PROVE  PolicyInv'
<1>1. /\ evaluating' \in [Evaluators -> [pc : EvaluationStates, org : Orgs \union {NoOrg}, made : Nat]]
      /\ \A d \in Evaluators \ {e} : evaluating'[d] = evaluating[d]
      /\ evaluating'[e].pc # "store"
      /\ evaluating'[e].pc # "idle" => evaluating'[e].org = evaluating[e].org
  BY DEF EvaluationReturns, EvaluationGoes, Waiting, PolicyInv, EvaluationStates
<1>2. DroppedResultsStayAway'
  BY DEF PolicyInv, DroppedResultsStayAway
<1> QED BY <1>1, <1>2 DEF PolicyInv

\* An evaluation stores its result.
LEMMA PolicyStores ==
    ASSUME PolicyInv, NEW o \in Orgs, Stored(o), UNCHANGED <<evaluating, belated, dropped, policyResults>>
    PROVE  PolicyInv'
  BY NoneAssumption, PolicyAssumption DEF PolicyInv, Stored, Policies, DroppedResultsStayAway

\* Dropping the results of one organization.
LEMMA PolicyDrops ==
    ASSUME PolicyInv, NEW o \in Orgs, InvalidateResults(o, policiesMade + 1), UNCHANGED evaluating,
           \/ policy' = NoPolicy /\ UNCHANGED policiesMade
           \/ policiesMade' = policiesMade + 1 /\ policy' = [made |-> policiesMade + 1, org |-> o]
    PROVE  PolicyInv'
<1>1. /\ dropped' = [dropped EXCEPT ![o] = policiesMade + 1]
      /\ policyResults' = [policyResults EXCEPT ![o] = NoResult]
      /\ belated' = belated \union {e \in Evaluators : evaluating[e].pc = "store" /\ evaluating[e].org = o}
  BY DEF InvalidateResults
<1>2. DroppedResultsStayAway'
  BY <1>1 DEF PolicyInv, DroppedResultsStayAway
<1>3. \A e \in Evaluators \ belated' :
         evaluating'[e].pc = "store" => evaluating'[e].made >= dropped'[evaluating'[e].org]
  BY <1>1 DEF PolicyInv
<1> QED BY <1>1, <1>2, <1>3 DEF PolicyInv

\* Every step of the policy manager keeps the invariant.
LEMMA PolicyStep == PolicyInv /\ [PolicyNext]_policyVars => PolicyInv'
<1> SUFFICES ASSUME PolicyInv, [PolicyNext]_policyVars PROVE PolicyInv'
    OBVIOUS
<1>1. ASSUME NEW o \in Orgs, CreatePolicy(o) PROVE PolicyInv'
  BY <1>1, PolicyStores DEF CreatePolicy
<1>2. ASSUME NEW o \in Orgs, UpdatePolicy(o) PROVE PolicyInv'
  BY <1>2, PolicyDrops DEF UpdatePolicy, Stored
<1>3. CASE DeletePolicy
  BY <1>3, PolicyDrops DEF DeletePolicy, PolicyInv
<1>4. ASSUME NEW o \in Orgs, ResultExpires(o) PROVE PolicyInv'
  <2>1. policyResults' = [policyResults EXCEPT ![o] = [policyResults[o] EXCEPT !.good = FALSE]]
    BY <1>4 DEF ResultExpires
  <2>2. DroppedResultsStayAway'
    <3>1. \A p \in Orgs : policyResults'[p] = policyResults[p] \/ p = o
      BY <2>1 DEF PolicyInv
    <3>2. policyResults[o] \in KeptResults /\ dropped' = dropped
      BY <1>4 DEF ResultExpires, PolicyInv
    <3>3. /\ policyResults'[o].late = policyResults[o].late
          /\ policyResults'[o].made = policyResults[o].made
          /\ policyResults[o] # NoResult
      BY <1>4, <2>1, <3>2 DEF PolicyInv, KeptResults, ResultExpires
    <3> QED BY <3>1, <3>2, <3>3 DEF PolicyInv, DroppedResultsStayAway
  <2>3. policyResults' \in [Orgs -> KeptResults \union {NoResult}]
    BY <1>4, <2>1 DEF PolicyInv, KeptResults, ResultExpires
  <2> QED BY <1>4, <2>2, <2>3 DEF PolicyInv, ResultExpires
<1>5. ASSUME NEW e \in Evaluators, NEW o \in Orgs, BeginEvaluation(e, o) PROVE PolicyInv'
  <2>1. /\ evaluating' \in [Evaluators -> [pc : EvaluationStates, org : Orgs \union {NoOrg}, made : Nat]]
        /\ \A d \in Evaluators \ {e} : evaluating'[d] = evaluating[d]
        /\ evaluating'[e].pc = "lookup" /\ evaluating'[e].org = o
    BY <1>5 DEF BeginEvaluation, PolicyInv, EvaluationStates
  <2> QED BY <1>5, <2>1 DEF BeginEvaluation, PolicyInv, DroppedResultsStayAway
<1>6. ASSUME NEW e \in Evaluators, EvaluationStep(e) PROVE PolicyInv'
  <2>1. CASE LookUpResult(e)
    <3>1. /\ evaluating[e].pc = "lookup"
          /\ EvaluationReturns(e) \/ EvaluationGoes(e, "check")
          /\ UNCHANGED <<policy, policiesMade, dropped, belated>>
      BY <2>1 DEF LookUpResult
    <3>2. CASE policyResults' = policyResults
      BY <3>1, <3>2, EvaluationMoves
    <3>3. CASE policyResults' = [policyResults EXCEPT ![evaluating[e].org] = NoResult]
      <4>1. /\ evaluating' \in [Evaluators -> [pc : EvaluationStates, org : Orgs \union {NoOrg}, made : Nat]]
            /\ \A d \in Evaluators \ {e} : evaluating'[d] = evaluating[d]
            /\ evaluating'[e].pc \in {"idle", "check"}
            /\ evaluating'[e].pc # "idle" => evaluating'[e].org = evaluating[e].org
        BY <3>1 DEF EvaluationReturns, EvaluationGoes, Waiting, PolicyInv, EvaluationStates
      <4>2. DroppedResultsStayAway'
        BY <3>1, <3>3 DEF PolicyInv, DroppedResultsStayAway
      <4>3. policyResults' \in [Orgs -> KeptResults \union {NoResult}]
        BY <3>3 DEF PolicyInv
      <4> QED BY <3>1, <4>1, <4>2, <4>3 DEF PolicyInv
    <3> QED BY <2>1, <3>2, <3>3 DEF LookUpResult
  <2>2. CASE CheckPolicy(e) \/ FetchStatus(e)
    BY <2>2, EvaluationMoves DEF CheckPolicy, FetchStatus
  <2>3. CASE EvaluatePolicy(e)
    <3>1. UNCHANGED <<policy, policiesMade, policyResults, dropped>> /\ belated' = belated \ {e}
      BY <2>3 DEF EvaluatePolicy
    <3>2. evaluating[e].pc = "evaluate" /\ evaluating[e].org \in Orgs
      BY <2>3 DEF EvaluatePolicy, PolicyInv
    <3>3. CASE policy = NoPolicy
      BY <2>3, <3>1, <3>2, <3>3 DEF EvaluatePolicy, PolicyInv, DroppedResultsStayAway
    <3>4. CASE policy # NoPolicy
      <4>1. evaluating' = [evaluating EXCEPT ![e].pc = "store", ![e].made = policy.made]
        BY <2>3, <3>4 DEF EvaluatePolicy
      <4>2. policy.made = policiesMade /\ policiesMade >= dropped[evaluating[e].org]
        BY <3>2, <3>4 DEF PolicyInv
      <4>3. /\ evaluating' \in [Evaluators -> [pc : EvaluationStates, org : Orgs \union {NoOrg}, made : Nat]]
            /\ \A d \in Evaluators \ {e} : evaluating'[d] = evaluating[d]
            /\ evaluating'[e].org = evaluating[e].org /\ evaluating'[e].made = policiesMade
        BY <4>1, <4>2 DEF PolicyInv, EvaluationStates
      <4> QED BY <3>1, <3>2, <4>2, <4>3 DEF PolicyInv, DroppedResultsStayAway
    <3> QED BY <3>3, <3>4
  <2>4. CASE CacheResult(e)
    <3> DEFINE result == [made |-> evaluating[e].made, good |-> TRUE, late |-> e \in belated]
    <3>1. /\ policyResults' = [policyResults EXCEPT ![evaluating[e].org] = result]
          /\ evaluating[e].pc = "store" /\ EvaluationReturns(e) /\ belated' = belated \ {e}
          /\ UNCHANGED <<policy, policiesMade, dropped>>
      BY <2>4 DEF CacheResult
    <3>2. result \in KeptResults /\ (result.late \/ result.made >= dropped[evaluating[e].org])
      <4>1. evaluating[e].made \in Nat
        BY DEF PolicyInv
      <4>2. result.made = evaluating[e].made /\ result.late = (e \in belated)
        OBVIOUS
      <4>3. result \in KeptResults
        BY <4>1 DEF KeptResults
      <4>4. CASE e \in belated
        BY <4>2, <4>3, <4>4
      <4>5. CASE e \notin belated
        BY <3>1, <4>2, <4>3, <4>5 DEF PolicyInv
      <4> QED BY <4>4, <4>5
    <3>3. /\ evaluating' \in [Evaluators -> [pc : EvaluationStates, org : Orgs \union {NoOrg}, made : Nat]]
          /\ \A d \in Evaluators \ {e} : evaluating'[d] = evaluating[d]
          /\ evaluating'[e].pc = "idle"
      BY <3>1 DEF EvaluationReturns, Waiting, PolicyInv, EvaluationStates
    <3> HIDE DEF result
    <3>4. DroppedResultsStayAway' /\ policyResults' \in [Orgs -> KeptResults \union {NoResult}]
      BY <3>1, <3>2 DEF PolicyInv, DroppedResultsStayAway
    <3> QED BY <3>1, <3>3, <3>4 DEF PolicyInv
  <2> QED BY <1>6, <2>1, <2>2, <2>3, <2>4 DEF EvaluationStep
<1>7. CASE UNCHANGED policyVars
  BY <1>7 DEF policyVars, PolicyInv, DroppedResultsStayAway
<1> QED BY <1>1, <1>2, <1>3, <1>4, <1>5, <1>6, <1>7 DEF PolicyNext

\* For any number of organizations and evaluations: no result made from an
\* older policy comes back after an update or a deletion has dropped it.
THEOREM DroppedStayAway == Spec => []DroppedResultsStayAway
<1>1. Init => PolicyInv
  BY PolicyStarts DEF Init
<1>2. PolicyInv /\ [Next]_serviceVars => PolicyInv'
  <2>1. [Next]_serviceVars => [PolicyNext]_policyVars
    BY DEF Next, serviceVars
  <2> QED BY <2>1, PolicyStep
<1>3. PolicyInv => DroppedResultsStayAway
  BY DEF PolicyInv
<1> QED BY <1>1, <1>2, <1>3, PTL DEF Spec

-----------------------------------------------------------------------------
(***************************************************************************)
(* Why the newest snapshot survives.  What is renamed to the final path is *)
(* whole, be it a stage or a backup; the final path is emptied only by a   *)
(* rename to a backup, and a backup is removed only after its save has put *)
(* a newer snapshot in place.                                              *)
(***************************************************************************)
Whole(s) == [by |-> s, whole |-> TRUE]

SaveInv ==
    /\ DOMAIN staged = Savers /\ DOMAIN aside = Savers /\ DOMAIN saverPC = Savers
    /\ newest \in Owners \union {NoSnapshot}
    /\ \A s \in Savers : saverPC[s] \in {"stage", "stageForced"} => staged[s] = [by |-> s, whole |-> FALSE]
    /\ \A s \in Savers :
         saverPC[s] \in {"look", "publish", "wrap", "moved", "rollback"} => staged[s] = Whole(s)
    /\ \A s \in Savers :
         saverPC[s] \in {"moved", "rollback"} => aside[s] # NoSnapshot /\ aside[s].whole
    /\ NewestSurvives

\* At first the saved snapshot is the newest one.
LEMMA SavesStart == SshInit => SaveInv
  BY SnapshotAssumption DEF SshInit, SaveInv, NewestSurvives, Owners

\* Removing changes nothing of other saves.
LEMMA RemovedIsOwn ==
    ASSUME NEW at, DOMAIN at = Savers, NEW s \in Savers, NEW at2 \in Removed(at, s)
    PROVE  DOMAIN at2 = Savers /\ \A t \in Savers \ {s} : at2[t] = at[t]
  BY DEF Removed

\* A step of a save that neither empties the final path nor puts anything there.
LEMMA SaveWorks ==
    ASSUME SaveInv, NEW s \in Savers, UNCHANGED <<snapshot, aside, newest>>,
           NEW old, NEW new, SaverAt(s, old, new),
           DOMAIN staged' = Savers, \A t \in Savers \ {s} : staged'[t] = staged[t],
           new \in {"stage", "stageForced"} => staged'[s] = [by |-> s, whole |-> FALSE],
           new \in {"look", "publish", "wrap", "moved", "rollback"} => staged'[s] = Whole(s),
           new # "moved", new = "rollback" => old = "moved",
           old \in {"moved", "rollback", "retained", "killed"} => new \in {"rollback", "retained", "killed"}
    PROVE  SaveInv'
<1>1. /\ DOMAIN saverPC' = Savers /\ saverPC[s] = old /\ saverPC'[s] = new
      /\ \A t \in Savers \ {s} : saverPC'[t] = saverPC[t]
  BY DEF SaverAt, SaveInv
<1>2. NewestSurvives'
  <2>1. snapshot' # NoSnapshot => snapshot'.whole
    BY DEF SaveInv, NewestSurvives
  <2>2. newest # NoSnapshot =>
          \/ snapshot = Whole(newest)
          \/ \E t \in Savers : /\ aside[t] = Whole(newest)
                               /\ saverPC[t] \in {"moved", "rollback", "retained", "killed"}
    BY DEF SaveInv, NewestSurvives, Whole
  <2>3. newest' # NoSnapshot =>
          \/ snapshot' = Whole(newest')
          \/ \E t \in Savers : /\ aside'[t] = Whole(newest')
                               /\ saverPC'[t] \in {"moved", "rollback", "retained", "killed"}
    BY <1>1, <2>2
  <2> QED BY <2>1, <2>3, Zenon DEF NewestSurvives, Whole
<1> QED BY <1>1, <1>2 DEF SaveInv

\* The final path was empty, and now holds the newest.
LEMMA SavePublishes ==
    ASSUME SaveInv, NEW s \in Savers, NEW old \in {"publish", "moved"}, NEW new \in {"saved", "cleanup"},
           SaverAt(s, old, new), Published(s), UNCHANGED aside
    PROVE  SaveInv'
<1>1. /\ DOMAIN saverPC' = Savers /\ saverPC[s] = old /\ saverPC'[s] = new
      /\ \A t \in Savers \ {s} : saverPC'[t] = saverPC[t]
  BY DEF SaverAt, SaveInv
<1>2. staged' = [staged EXCEPT ![s] = NoSnapshot] /\ newest' = s /\ snapshot' = staged[s]
  BY DEF Published, PutInPlace
<1>3. snapshot' = Whole(s)
  BY <1>1, <1>2 DEF SaveInv
<1>4. NewestSurvives'
  BY <1>2, <1>3 DEF NewestSurvives, Whole
<1> QED BY <1>1, <1>2, <1>4 DEF SaveInv, Owners

\* What was at the final path is in a backup, which its save does not remove yet.
LEMMA SaveMovesAside == ASSUME SaveInv, NEW s \in Savers, MoveOldAside(s) PROVE SaveInv'
<1>1. /\ DOMAIN saverPC' = Savers /\ saverPC[s] = "wrap" /\ saverPC'[s] = "moved"
      /\ \A t \in Savers \ {s} : saverPC'[t] = saverPC[t]
  BY DEF MoveOldAside, SaverAt, SaveInv
<1>2. /\ snapshot # NoSnapshot /\ snapshot.whole /\ snapshot' = NoSnapshot
      /\ UNCHANGED <<staged, newest>>
      /\ DOMAIN aside' = Savers /\ aside'[s] = snapshot
      /\ \A t \in Savers \ {s} : aside'[t] = aside[t]
  BY DEF MoveOldAside, SaveInv, NewestSurvives
<1>3. NewestSurvives'
  <2>1. newest # NoSnapshot =>
          \/ snapshot = Whole(newest)
          \/ \E t \in Savers \ {s} : /\ aside[t] = Whole(newest)
                                     /\ saverPC[t] \in {"moved", "rollback", "retained", "killed"}
    BY <1>1 DEF SaveInv, NewestSurvives, Whole
  <2>2. newest' # NoSnapshot =>
          \E t \in Savers : /\ aside'[t] = Whole(newest')
                            /\ saverPC'[t] \in {"moved", "rollback", "retained", "killed"}
    BY <1>1, <1>2, <2>1
  <2> QED BY <1>2, <2>2, Zenon DEF NewestSurvives, Whole
<1> QED BY <1>1, <1>2, <1>3 DEF SaveInv

\* The backup is back at the final path.
LEMMA SaveRollsBack == ASSUME SaveInv, NEW s \in Savers, RollBack(s) PROVE SaveInv'
<1>1. /\ DOMAIN saverPC' = Savers /\ saverPC[s] = "rollback" /\ saverPC'[s] = "error"
      /\ \A t \in Savers \ {s} : saverPC'[t] = saverPC[t]
  BY DEF RollBack, SaverAt, SaveInv
<1>2. /\ snapshot = NoSnapshot /\ snapshot' = aside[s] /\ newest' = newest
      /\ DOMAIN aside' = Savers /\ \A t \in Savers \ {s} : aside'[t] = aside[t]
      /\ aside[s] # NoSnapshot /\ aside[s].whole
  BY <1>1 DEF RollBack, PutInPlace, SaveInv
<1>3. DOMAIN staged' = Savers /\ \A t \in Savers \ {s} : staged'[t] = staged[t]
  BY RemovedIsOwn DEF RollBack, SaveInv
<1>4. NewestSurvives'
  <2>1. newest # NoSnapshot =>
          \E t \in Savers : /\ aside[t] = Whole(newest)
                            /\ saverPC[t] \in {"moved", "rollback", "retained", "killed"}
    <3>1. ASSUME newest \in Owners PROVE Whole(newest) # NoSnapshot
      <4>1. Whole(newest) \in Snapshots
        BY <3>1 DEF Whole, Snapshots
      <4> QED BY <4>1, NoSnapshotAssumption
    <3> QED BY <1>2, <3>1 DEF SaveInv, NewestSurvives, Whole
  <2>2. newest' # NoSnapshot =>
          \/ snapshot' = Whole(newest')
          \/ \E t \in Savers : /\ aside'[t] = Whole(newest')
                               /\ saverPC'[t] \in {"moved", "rollback", "retained", "killed"}
    BY <1>1, <1>2, <2>1
  <2>3. snapshot' # NoSnapshot => snapshot'.whole
    BY <1>2
  <2> QED BY <2>2, <2>3, Zenon DEF NewestSurvives, Whole
<1> QED BY <1>1, <1>2, <1>3, <1>4 DEF SaveInv

\* A backup that is removed is not needed any more.
LEMMA OldIsRemoved == ASSUME SaveInv, NEW s \in Savers, RemoveOld(s) PROVE SaveInv'
<1>1. PICK pc \in {"saved", "pending"} : SaverAt(s, "cleanup", pc)
  BY DEF RemoveOld
<1>2. /\ DOMAIN saverPC' = Savers /\ saverPC[s] = "cleanup" /\ saverPC'[s] = pc
      /\ \A t \in Savers \ {s} : saverPC'[t] = saverPC[t]
  BY <1>1 DEF SaverAt, SaveInv
<1>3. DOMAIN aside' = Savers /\ \A t \in Savers \ {s} : aside'[t] = aside[t]
  BY RemovedIsOwn DEF RemoveOld, SaveInv
<1>4. UNCHANGED <<snapshot, staged, newest>>
  BY DEF RemoveOld
<1>5. NewestSurvives'
  <2>1. newest # NoSnapshot =>
          \/ snapshot = Whole(newest)
          \/ \E t \in Savers \ {s} : /\ aside[t] = Whole(newest)
                                     /\ saverPC[t] \in {"moved", "rollback", "retained", "killed"}
    BY <1>2 DEF SaveInv, NewestSurvives, Whole
  <2>2. newest' # NoSnapshot =>
          \/ snapshot' = Whole(newest')
          \/ \E t \in Savers : /\ aside'[t] = Whole(newest')
                               /\ saverPC'[t] \in {"moved", "rollback", "retained", "killed"}
    BY <1>2, <1>3, <1>4, <2>1
  <2>3. snapshot' # NoSnapshot => snapshot'.whole
    BY <1>4 DEF SaveInv, NewestSurvives
  <2> QED BY <2>2, <2>3, Zenon DEF NewestSurvives, Whole
<1> QED BY <1>2, <1>3, <1>4, <1>5 DEF SaveInv

\* Every step of a save keeps the newest snapshot.
LEMMA SaveStep == ASSUME SaveInv, NEW s \in Savers, SaverStep(s) PROVE SaveInv'
<1>1. CASE SaveBegins(s)
  BY <1>1, SaveWorks DEF SaveBegins, SaveInv, SaverAt
<1>2. CASE SaveRefused(s) \/ LookAtDestination(s)
  BY <1>2, SaveWorks DEF SaveRefused, LookAtDestination, SaveInv, SaverAt
<1>3. CASE StageIsComplete(s)
  <2>1. staged' = [staged EXCEPT ![s] = Whole(s)]
    BY <1>3 DEF StageIsComplete, Whole
  <2>2. staged'[s] = Whole(s) /\ DOMAIN staged' = Savers /\ \A t \in Savers \ {s} : staged'[t] = staged[t]
    BY <2>1 DEF SaveInv
  <2>3. \E old \in {"stage", "stageForced"}, new \in {"publish", "look"} : SaverAt(s, old, new)
    BY <1>3 DEF StageIsComplete
  <2>4. UNCHANGED <<snapshot, aside, newest>>
    BY <1>3 DEF StageIsComplete
  <2> QED BY <2>2, <2>3, <2>4, SaveWorks
<1>4. CASE PublishFirst(s)
  BY <1>4, SavePublishes DEF PublishFirst
<1>5. CASE MoveOldAside(s)
  BY <1>5, SaveMovesAside
<1>6. CASE SaveFails(s)
  <2>1. PICK pc \in Saving \ {"moved", "rollback", "cleanup"} : SaverAt(s, pc, "error")
    BY <1>6 DEF SaveFails
  <2>2. staged' \in Removed(staged, s) /\ UNCHANGED <<snapshot, aside, newest>>
    BY <1>6 DEF SaveFails
  <2>3. DOMAIN staged' = Savers /\ \A t \in Savers \ {s} : staged'[t] = staged[t]
    BY <2>2, RemovedIsOwn DEF SaveInv
  <2> QED BY <2>1, <2>2, <2>3, SaveWorks DEF Saving
<1>7. CASE PublishOverOld(s)
  BY <1>7, SavePublishes DEF PublishOverOld
<1>8. CASE PublishOverOldFails(s) \/ RollBackFails(s)
  BY <1>8, SaveWorks DEF PublishOverOldFails, RollBackFails, SaveInv, SaverAt
<1>9. CASE RollBack(s)
  BY <1>9, SaveRollsBack
<1>10. CASE RemoveOld(s)
  BY <1>10, OldIsRemoved
<1>11. CASE SaverIsKilled(s)
  BY <1>11, SaveWorks DEF SaverIsKilled, SaveInv, SaverAt, Saving
<1> QED BY <1>1, <1>2, <1>3, <1>4, <1>5, <1>6, <1>7, <1>8, <1>9, <1>10, <1>11 DEF SaverStep

\* Every step of the snapshots keeps the newest one.
LEMMA SavesKeepNewest == SaveInv /\ [SshNext]_sshVars => SaveInv'
<1> SUFFICES ASSUME SaveInv, [SshNext]_sshVars PROVE SaveInv'
    OBVIOUS
<1>1. ASSUME UNCHANGED saveVars PROVE SaveInv'
  BY <1>1 DEF saveVars, SaveInv, NewestSurvives
<1>2. ASSUME NEW s \in Savers, SaverStep(s) PROVE SaveInv'
  BY <1>2, SaveStep
<1>3. ASSUME NEW l \in Loaders, LoaderStep(l) PROVE SaveInv'
  BY <1>1, <1>3 DEF LoaderStep, LoadBegins, LoadRefused, Preflight, LookForFile, SkipFile,
        CopyFile, RestoreFile, LoadReturns, LoadFails
<1>4. ASSUME NEW f \in RestoredFiles, UserMakesFile(f) PROVE SaveInv'
  BY <1>1, <1>4 DEF UserMakesFile
<1>5. CASE SshOver \/ UNCHANGED sshVars
  BY <1>1, <1>5 DEF SshOver, sshVars
<1> QED BY <1>2, <1>3, <1>4, <1>5 DEF SshNext

-----------------------------------------------------------------------------
(***************************************************************************)
(* Why the cache stays bounded and current.  The order of use is a total   *)
(* order of the cached names, so a cache that holds anything has a least   *)
(* recent entry, and a full one has room after it was evicted.  What is    *)
(* cached is not older than the last invalidation of its name, unless it   *)
(* was stored late; and who has yet to store something older straddles.    *)
(***************************************************************************)
AskStates == {"idle", "lookup", "touch", "create", "store"}
Asks == [pc : AskStates, name : Names \union {NoName}, version : 0 .. MaxVersion]

EntriesAreCurrent == \A n \in Cached : cache[n].late \/ cache[n].version >= cleared[n]

\* The goroutines in GetProvider: what they ask for, found or made.
AsksAreSound ==
    /\ \A g \in Getters : asking[g].pc # "idle" => asking[g].name \in Names
    /\ \A g \in touching : asking[g].pc = "touch" /\ asking[g].name \in Cached
    /\ \A g \in Getters \ straddling :
         asking[g].pc = "store" => asking[g].version >= cleared[asking[g].name]

RegistryInv ==
    /\ RegistryTypeOK
    /\ \A n \in Names : cleared[n] <= configs[n]
    /\ AsksAreSound
    /\ Cardinality(Cached) <= MaxCached
    /\ EntriesAreCurrent

\* At first the registry is empty.
LEMMA RegistryStarts == RegistryInit => RegistryInv
<1> SUFFICES ASSUME RegistryInit PROVE RegistryInv
    OBVIOUS
<1> USE RegistryAssumption DEF RegistryAssumption
<1>1. Cached = {}
  BY DEF RegistryInit, Cached
<1>2. Cardinality(Cached) = 0
  BY <1>1, FS_EmptySet
<1>3. OrderOfUse
  BY <1>1 DEF RegistryInit, OrderOfUse
<1>4. RegistryTypeOK
  BY <1>1, <1>3 DEF RegistryInit, RegistryTypeOK, Idle
<1> QED BY <1>1, <1>2, <1>4 DEF RegistryInit, RegistryInv, AsksAreSound, EntriesAreCurrent, Idle

\* What is cached is finite.
LEMMA CachedIsFinite == RegistryTypeOK => IsFiniteSet(Cached) /\ Cardinality(Cached) \in Nat
<1> SUFFICES ASSUME RegistryTypeOK PROVE IsFiniteSet(Cached)
    BY FS_CardinalityType
<1> QED BY RegistryAssumption, FS_Subset DEF RegistryTypeOK, RegistryAssumption

\* A smaller cache is bounded as well.
LEMMA FewerAreBounded ==
    ASSUME RegistryInv, Cached' \subseteq Cached
    PROVE  Cardinality(Cached') <= MaxCached
<1>1. Cardinality(Cached') \in Nat /\ Cardinality(Cached') <= Cardinality(Cached)
  BY CachedIsFinite, FS_Subset, FS_CardinalityType DEF RegistryInv
<1> QED BY <1>1, CachedIsFinite, RegistryAssumption DEF RegistryInv, RegistryAssumption

\* What is left of an order is one.
LEMMA DropKeepsOrder ==
    ASSUME RegistryTypeOK, NEW ns, Drop(ns)
    PROVE  /\ Cached' = Cached \ ns /\ cache' \in [Cached' -> Entries]
           /\ \A n \in Cached' : cache'[n] = cache[n]
           /\ OrderOfUse'
<1>1. /\ Cached' = Cached \ ns /\ cache' \in [Cached' -> Entries]
      /\ \A n \in Cached' : cache'[n] = cache[n]
  BY DEF Drop, Cached, RegistryTypeOK
<1>2. usedBefore' = {p \in usedBefore : p[1] \notin ns /\ p[2] \notin ns}
  BY DEF Drop, OrderWithout
<1>3. \A m, n \in Cached' : <<m, n>> \in usedBefore' <=> <<m, n>> \in usedBefore
  BY <1>1, <1>2
<1>4. usedBefore' \subseteq Cached' \X Cached'
  BY <1>1, <1>2 DEF RegistryTypeOK, OrderOfUse
<1> QED BY <1>1, <1>3, <1>4 DEF RegistryTypeOK, OrderOfUse

\* An order of finitely many has a first.
LEMMA SomeoneIsLeastRecent ==
    ASSUME RegistryTypeOK, Cached # {}
    PROVE  \E n \in Cached : LeastRecent = {n}
<1> DEFINE Sooner(n) == {m \in Cached : <<m, n>> \in usedBefore}
           Pasts == {Sooner(n) : n \in Cached}
<1>1. IsFiniteSet(Cached) /\ FiniteSubsetsOf(Cached) = SUBSET Cached
  BY CachedIsFinite, FS_FiniteSubsetsOfFinite
<1>2. IsWellFoundedOn(StrictSubsetOrdering(Cached), SUBSET Cached)
  BY <1>1, FS_StrictSubsetOrderingWellFounded
<1>3. Pasts \subseteq SUBSET Cached /\ Pasts # {}
  OBVIOUS
<1>4. PICK past \in Pasts : \A other \in Pasts : <<other, past>> \notin StrictSubsetOrdering(Cached)
  <2> HIDE DEF Pasts
  <2> QED BY <1>2, <1>3, WFMin
<1>5. PICK n \in Cached : past = Sooner(n)
  OBVIOUS
<1>6. ASSUME NEW m \in Sooner(n) PROVE FALSE
  <2>1. Sooner(m) \subseteq Sooner(n) /\ m \notin Sooner(m)
    BY DEF RegistryTypeOK, OrderOfUse
  <2>2. Sooner(m) \in Pasts /\ Sooner(m) # Sooner(n)
    BY <2>1
  <2>3. <<Sooner(m), Sooner(n)>> \in StrictSubsetOrdering(Cached)
    BY <1>1, <2>1, <2>2 DEF StrictSubsetOrdering
  <2> QED BY <1>4, <1>5, <2>2, <2>3
<1>7. n \in LeastRecent
  BY <1>6 DEF LeastRecent, RegistryTypeOK, OrderOfUse
<1>8. \A m \in LeastRecent : m = n
  BY <1>7 DEF LeastRecent, RegistryTypeOK, OrderOfUse
<1> QED BY <1>7, <1>8

\* A cache with one entry evicted if it was full has room for one.
LEMMA EvictionMakesRoom ==
    ASSUME RegistryInv
    PROVE  IsFiniteSet(Cached \ Evicted) /\ Cardinality(Cached \ Evicted) \in 0 .. MaxCached - 1
<1> USE RegistryAssumption DEF RegistryAssumption
<1>1. IsFiniteSet(Cached) /\ Cardinality(Cached) \in 0 .. MaxCached
  BY CachedIsFinite DEF RegistryInv
<1>2. CASE Cardinality(Cached) < MaxCached
  <2>1. Cached \ Evicted = Cached
    BY <1>1, <1>2 DEF Evicted
  <2> QED BY <1>1, <1>2, <2>1
<1>3. CASE Cardinality(Cached) >= MaxCached
  <2>1. Cached # {}
    BY <1>3, FS_EmptySet
  <2>2. PICK n \in Cached : LeastRecent = {n}
    BY <2>1, SomeoneIsLeastRecent DEF RegistryInv
  <2>3. Cached \ Evicted = Cached \ {n}
    BY <1>3, <2>2 DEF Evicted
  <2>4. IsFiniteSet(Cached \ {n}) /\ Cardinality(Cached \ {n}) = Cardinality(Cached) - 1
    BY <1>1, FS_RemoveElement
  <2> QED BY <1>1, <1>3, <2>3, <2>4
<1> QED BY <1>1, <1>2, <1>3

\* A configuration changes; its entry stays in the cache until it is dropped.
LEMMA ConfigIsUpdated == ASSUME RegistryInv, NEW n \in Names, UpdateConfig(n) PROVE RegistryInv'
<1>1. /\ configs' = [configs EXCEPT ![n] = @ + 1] /\ configs[n] < MaxVersion
      /\ UNCHANGED <<cache, usedBefore, removals, cleared, asking, touching, straddling>>
  BY DEF UpdateConfig, askVars
<1>2. Cached' = Cached /\ OrderOfUse' = OrderOfUse
  BY <1>1 DEF Cached, OrderOfUse
<1>3. RegistryTypeOK'
  BY <1>1, <1>2, RegistryAssumption DEF RegistryInv, RegistryTypeOK, RegistryAssumption
<1>4. \A m \in Names : cleared'[m] <= configs'[m]
  BY <1>1, RegistryAssumption DEF RegistryInv, RegistryTypeOK, RegistryAssumption
<1>5. AsksAreSound' /\ EntriesAreCurrent' /\ Cardinality(Cached') <= MaxCached
  BY <1>1, <1>2 DEF RegistryInv, AsksAreSound, EntriesAreCurrent
<1> QED BY <1>3, <1>4, <1>5 DEF RegistryInv

\* Entries that are invalidated are gone, and who is about to store an older
\* one is known.
LEMMA EntriesAreInvalidated ==
    ASSUME RegistryInv, NEW ns \in SUBSET Names, Invalidate(ns), UNCHANGED <<configs, asking>>,
           removals' \in [Names -> 0 .. MaxRemovals]
    PROVE  RegistryInv'
<1>1. Drop(ns)
  BY DEF Invalidate
<1>2. /\ Cached' = Cached \ ns /\ cache' \in [Cached' -> Entries]
      /\ \A n \in Cached' : cache'[n] = cache[n]
      /\ OrderOfUse'
  BY <1>1, DropKeepsOrder DEF RegistryInv
<1>3. /\ cleared' = [n \in Names |-> IF n \in ns THEN configs[n] ELSE cleared[n]]
      /\ straddling' = straddling \union
                      {g \in Getters : /\ asking[g].pc = "store"
                                       /\ asking[g].name \in ns
                                       /\ asking[g].version < configs[asking[g].name]}
      /\ touching' = {g \in touching : asking[g].name \notin ns}
  BY DEF Invalidate, Drop
<1>4. RegistryTypeOK'
  BY <1>2, <1>3 DEF RegistryInv, RegistryTypeOK
<1>5. \A n \in Names : cleared'[n] <= configs'[n]
  BY <1>3, RegistryAssumption DEF RegistryInv, RegistryTypeOK, RegistryAssumption
<1>6. AsksAreSound'
  <2>1. \A g \in touching' : asking'[g].pc = "touch" /\ asking'[g].name \in Cached'
    BY <1>2, <1>3 DEF RegistryInv, AsksAreSound
  <2>2. ASSUME NEW g \in Getters \ straddling', asking'[g].pc = "store"
        PROVE  asking'[g].version >= cleared'[asking'[g].name]
    <3>1. /\ g \notin straddling /\ asking[g].name \in Names /\ asking[g].version \in Nat
          /\ configs[asking[g].name] \in Nat
      BY <1>3, <2>2, RegistryAssumption DEF RegistryInv, AsksAreSound, RegistryTypeOK, RegistryAssumption
    <3>2. CASE asking[g].name \in ns
      BY <1>3, <2>2, <3>1, <3>2
    <3>3. CASE asking[g].name \notin ns
      BY <1>3, <2>2, <3>1, <3>3 DEF RegistryInv, AsksAreSound
    <3> QED BY <3>2, <3>3
  <2> QED BY <2>1, <2>2 DEF RegistryInv, AsksAreSound
<1>7. EntriesAreCurrent'
  BY <1>2, <1>3 DEF RegistryInv, EntriesAreCurrent, RegistryTypeOK
<1>8. Cardinality(Cached') <= MaxCached
  BY <1>2, FewerAreBounded
<1> QED BY <1>4, <1>5, <1>6, <1>7, <1>8 DEF RegistryInv

\* The cleanup drops the idle entries.
LEMMA CleanupIsPerformed == RegistryInv /\ PerformCleanup => RegistryInv'
<1> SUFFICES ASSUME RegistryInv, PerformCleanup PROVE RegistryInv'
    OBVIOUS
<1> DEFINE ns == {n \in Cached : cache[n].age = "idle"}
<1>1. Drop(ns) /\ UNCHANGED <<configs, removals, cleared, asking, straddling>>
  BY DEF PerformCleanup
<1> HIDE DEF ns
<1>2. /\ Cached' = Cached \ ns /\ cache' \in [Cached' -> Entries]
      /\ \A n \in Cached' : cache'[n] = cache[n]
      /\ OrderOfUse'
  BY <1>1, DropKeepsOrder DEF RegistryInv
<1>3. touching' = {g \in touching : asking[g].name \notin ns}
  BY <1>1 DEF Drop
<1>4. RegistryTypeOK'
  BY <1>1, <1>2, <1>3 DEF RegistryInv, RegistryTypeOK
<1>5. AsksAreSound' /\ EntriesAreCurrent' /\ \A n \in Names : cleared'[n] <= configs'[n]
  BY <1>1, <1>2, <1>3 DEF RegistryInv, AsksAreSound, EntriesAreCurrent
<1>6. Cardinality(Cached') <= MaxCached
  BY <1>2, FewerAreBounded
<1> QED BY <1>4, <1>5, <1>6 DEF RegistryInv

\* Time makes an entry too old.
LEMMA EntryAges == ASSUME RegistryInv, NEW n \in Names, Ages(n) PROVE RegistryInv'
<1>1. /\ n \in Cached /\ cache[n].age # "idle"
      /\ cache' = [cache EXCEPT ![n].age = IF cache[n].age = "fresh" THEN "expired" ELSE "idle"]
      /\ UNCHANGED <<configs, usedBefore, removals, cleared, asking, touching, straddling>>
  BY DEF Ages, askVars
<1>2. Cached' = Cached /\ OrderOfUse'
  BY <1>1 DEF Cached, OrderOfUse, RegistryInv, RegistryTypeOK
<1>3. /\ cache' \in [Cached' -> Entries]
      /\ \A m \in Cached : cache'[m].late = cache[m].late /\ cache'[m].version = cache[m].version
  BY <1>1, <1>2 DEF RegistryInv, RegistryTypeOK, Entries, Cached
<1>4. RegistryTypeOK'
  BY <1>1, <1>2, <1>3 DEF RegistryInv, RegistryTypeOK
<1>5. AsksAreSound' /\ EntriesAreCurrent' /\ \A m \in Names : cleared'[m] <= configs'[m]
  BY <1>1, <1>2, <1>3 DEF RegistryInv, AsksAreSound, EntriesAreCurrent
<1>6. Cardinality(Cached') <= MaxCached
  BY <1>2 DEF RegistryInv
<1> QED BY <1>4, <1>5, <1>6 DEF RegistryInv

\* What does not concern the cache.
LEMMA AskMoves ==
    ASSUME RegistryInv, NEW g \in Getters, UNCHANGED <<configs, cache, usedBefore, cleared>>,
           asking' \in [Getters -> Asks], \A h \in Getters \ {g} : asking'[h] = asking[h],
           asking'[g].pc # "idle" => asking'[g].name \in Names,
           touching' \subseteq touching \union {g},
           g \in touching' => asking'[g].pc = "touch" /\ asking'[g].name \in Cached,
           straddling' \in {straddling, straddling \ {g}},
           asking'[g].pc = "store" => asking'[g].version >= cleared[asking'[g].name],
           removals' \in [Names -> 0 .. MaxRemovals]
    PROVE  RegistryInv'
<1>1. Cached' = Cached /\ OrderOfUse' = OrderOfUse
  BY DEF Cached, OrderOfUse
<1>2. RegistryTypeOK'
  BY <1>1 DEF RegistryInv, RegistryTypeOK, Asks, AskStates
<1>3. AsksAreSound'
  BY <1>1 DEF RegistryInv, RegistryTypeOK, AsksAreSound
<1>4. EntriesAreCurrent' /\ Cardinality(Cached') <= MaxCached /\ \A n \in Names : cleared'[n] <= configs'[n]
  BY <1>1 DEF RegistryInv, EntriesAreCurrent
<1> QED BY <1>2, <1>3, <1>4 DEF RegistryInv

\* A getter asks for a provider.
LEMMA AskBegins ==
    ASSUME RegistryInv, NEW g \in Getters, NEW n \in Names, Ask(g, n) PROVE RegistryInv'
<1>1. /\ asking[g] = Idle /\ asking' = [asking EXCEPT ![g] = [pc |-> "lookup", name |-> n, version |-> 0]]
      /\ UNCHANGED <<configs, cache, usedBefore, removals, cleared, touching, straddling>>
  BY DEF Ask, cacheVars
<1>2. g \notin touching
  BY <1>1 DEF RegistryInv, AsksAreSound, Idle
<1>3. /\ asking' \in [Getters -> Asks] /\ asking'[g].pc = "lookup" /\ asking'[g].name = n
      /\ \A h \in Getters \ {g} : asking'[h] = asking[h]
  BY <1>1, RegistryAssumption DEF RegistryInv, RegistryTypeOK, Asks, AskStates, RegistryAssumption
<1>4. removals' \in [Names -> 0 .. MaxRemovals]
  BY <1>1 DEF RegistryInv, RegistryTypeOK
<1> QED BY <1>1, <1>2, <1>3, <1>4, AskMoves

\* A getter looks into the cache.
LEMMA EntryIsLookedUp == ASSUME RegistryInv, NEW g \in Getters, Lookup(g) PROVE RegistryInv'
<1> DEFINE n == asking[g].name
           fresh == n \in Cached /\ cache[n].age = "fresh"
<1>1. /\ asking[g].pc = "lookup"
      /\ asking' = [asking EXCEPT ![g].pc = IF fresh THEN "touch" ELSE "create"]
      /\ touching' = IF fresh THEN touching \union {g} ELSE touching
      /\ removals' = IF n \in Cached /\ ~fresh
                       THEN [removals EXCEPT ![n] = IF @ < MaxRemovals THEN @ + 1 ELSE @]
                       ELSE removals
      /\ UNCHANGED <<configs, cache, usedBefore, cleared, straddling>>
  BY DEF Lookup, Move
<1>2. g \notin touching /\ n \in Names
  BY <1>1 DEF RegistryInv, AsksAreSound
<1>3. /\ asking' \in [Getters -> Asks] /\ asking'[g].name = n
      /\ asking'[g].pc = IF fresh THEN "touch" ELSE "create"
      /\ \A h \in Getters \ {g} : asking'[h] = asking[h]
  BY <1>1 DEF RegistryInv, RegistryTypeOK, Asks, AskStates
<1>4. removals' \in [Names -> 0 .. MaxRemovals]
  BY <1>1, <1>2, RegistryAssumption DEF RegistryInv, RegistryTypeOK, RegistryAssumption
<1>5. touching' \subseteq touching \union {g} /\ (g \in touching' => fresh)
  BY <1>1, <1>2
<1> QED BY <1>1, <1>2, <1>3, <1>4, <1>5, AskMoves

\* A getter that found no entry creates a provider.
LEMMA ProviderIsCreated == ASSUME RegistryInv, NEW g \in Getters, Create(g) PROVE RegistryInv'
<1>1. asking[g].pc = "create" /\ UNCHANGED <<configs, cache, usedBefore, cleared, removals, touching>>
  BY DEF Create, cacheVars
<1>2. g \notin touching /\ asking[g].name \in Names /\ removals' \in [Names -> 0 .. MaxRemovals]
  BY <1>1 DEF RegistryInv, AsksAreSound, RegistryTypeOK
<1>3. CASE /\ asking' = [asking EXCEPT ![g].pc = "store", ![g].version = configs[asking[g].name]]
           /\ straddling' = straddling \ {g}
  <2>1. /\ asking' \in [Getters -> Asks] /\ asking'[g].name = asking[g].name
        /\ asking'[g].version = configs[asking[g].name]
        /\ \A h \in Getters \ {g} : asking'[h] = asking[h]
    BY <1>2, <1>3 DEF RegistryInv, RegistryTypeOK, Asks, AskStates
  <2>2. asking'[g].version >= cleared[asking'[g].name]
    BY <1>2, <2>1, RegistryAssumption DEF RegistryInv, RegistryTypeOK, RegistryAssumption
  <2> QED BY <1>1, <1>2, <1>3, <2>1, <2>2, AskMoves
<1>4. CASE Return(g) /\ UNCHANGED straddling
  <2>1. /\ asking' \in [Getters -> Asks] /\ asking'[g].pc = "idle"
        /\ \A h \in Getters \ {g} : asking'[h] = asking[h]
    BY <1>4, RegistryAssumption DEF Return, Idle, RegistryInv, RegistryTypeOK, Asks, AskStates, RegistryAssumption
  <2> QED BY <1>1, <1>2, <1>4, <2>1, AskMoves
<1> QED BY <1>3, <1>4 DEF Create

\* An order with one more, used last.
LEMMA UsedLast ==
    ASSUME RegistryTypeOK, NEW kept \in SUBSET Cached, NEW n, n \notin kept, Cached' = kept \union {n},
           usedBefore' = OrderWithout(Cached \ kept) \union (kept \X {n})
    PROVE  OrderOfUse'
<1>1. usedBefore' \subseteq Cached' \X Cached'
  BY DEF OrderWithout, RegistryTypeOK, OrderOfUse
<1>2. \A l, m \in kept : <<l, m>> \in usedBefore' <=> <<l, m>> \in usedBefore
  BY DEF OrderWithout
<1>3. \A m \in kept : <<m, n>> \in usedBefore' /\ <<n, m>> \notin usedBefore'
  BY DEF OrderWithout, RegistryTypeOK, OrderOfUse
<1>4. <<n, n>> \notin usedBefore'
  BY DEF OrderWithout, RegistryTypeOK, OrderOfUse
<1>5. \A l, m \in Cached' : <<l, m>> \in usedBefore' <=> l # m /\ <<m, l>> \notin usedBefore'
  BY <1>2, <1>3, <1>4 DEF RegistryTypeOK, OrderOfUse
<1>6. ASSUME NEW l \in Cached', NEW m \in Cached', NEW k \in Cached',
             <<l, m>> \in usedBefore', <<m, k>> \in usedBefore'
      PROVE  <<l, k>> \in usedBefore'
  <2>1. l # n /\ m # n
    BY <1>3, <1>4, <1>6
  <2>2. l \in kept /\ m \in kept /\ <<l, m>> \in usedBefore
    BY <1>2, <1>6, <2>1
  <2>3. CASE k = n
    BY <1>3, <2>2, <2>3
  <2>4. CASE k # n
    <3>1. k \in kept /\ <<m, k>> \in usedBefore
      BY <1>2, <1>6, <2>2, <2>4
    <3>2. <<l, k>> \in usedBefore
      BY <2>2, <3>1 DEF RegistryTypeOK, OrderOfUse
    <3> QED BY <1>2, <2>2, <3>1, <3>2
  <2> QED BY <2>3, <2>4
<1> QED BY <1>1, <1>5, <1>6 DEF OrderOfUse

\* A hit is recorded as the latest use.
LEMMA UseIsRecorded == ASSUME RegistryInv, NEW g \in Getters, Touch(g) PROVE RegistryInv'
<1> DEFINE n == asking[g].name
<1>1. /\ asking[g].pc = "touch" /\ touching' = touching \ {g} /\ Return(g)
      /\ UNCHANGED <<configs, removals, cleared, straddling>>
  BY DEF Touch
<1>2. /\ asking' \in [Getters -> Asks] /\ asking'[g].pc = "idle"
      /\ \A h \in Getters \ {g} : asking'[h] = asking[h]
  BY <1>1, RegistryAssumption DEF Return, Idle, RegistryInv, RegistryTypeOK, Asks, AskStates, RegistryAssumption
<1>3. removals' \in [Names -> 0 .. MaxRemovals]
  BY <1>1 DEF RegistryInv, RegistryTypeOK
<1>4. CASE g \notin touching
  <2>1. UNCHANGED <<cache, usedBefore>>
    BY <1>4 DEF Touch
  <2> QED BY <1>1, <1>2, <1>3, <2>1, AskMoves
<1>5. CASE g \in touching
  <2>1. n \in Cached
    BY <1>5 DEF RegistryInv, AsksAreSound
  <2>2. /\ usedBefore' = OrderWithout({n}) \union ((Cached \ {n}) \X {n})
        /\ cache' = [cache EXCEPT ![n].age = IF cache[n].age = "idle" THEN "expired" ELSE cache[n].age]
    BY <1>5 DEF Touch
  <2>3. /\ Cached' = Cached /\ cache' \in [Cached' -> Entries]
        /\ \A m \in Cached : cache'[m].late = cache[m].late /\ cache'[m].version = cache[m].version
    BY <2>1, <2>2 DEF RegistryInv, RegistryTypeOK, Entries, Cached
  <2>4. OrderOfUse'
    <3>1. Cached \ (Cached \ {n}) = {n} /\ Cached' = (Cached \ {n}) \union {n}
      BY <2>1, <2>3
    <3> QED BY <2>2, <3>1, UsedLast DEF RegistryInv
  <2>5. RegistryTypeOK'
    BY <1>1, <1>2, <1>3, <2>3, <2>4 DEF RegistryInv, RegistryTypeOK, Asks, AskStates
  <2>6. AsksAreSound'
    BY <1>1, <1>2, <2>3 DEF RegistryInv, AsksAreSound, RegistryTypeOK
  <2>7. EntriesAreCurrent' /\ \A m \in Names : cleared'[m] <= configs'[m]
    BY <1>1, <2>3 DEF RegistryInv, EntriesAreCurrent
  <2>8. Cardinality(Cached') <= MaxCached
    BY <2>3 DEF RegistryInv
  <2> QED BY <2>5, <2>6, <2>7, <2>8 DEF RegistryInv
<1> QED BY <1>4, <1>5

\* A new provider is stored; the entry used longest ago makes room.
LEMMA ProviderIsStored == ASSUME RegistryInv, NEW g \in Getters, Store(g) PROVE RegistryInv'
<1> DEFINE n == asking[g].name
           kept == Cached \ Evicted
           others == kept \ {n}
           entry == [version |-> asking[g].version, age |-> "fresh", late |-> g \in straddling]
<1>1. /\ asking[g].pc = "store" /\ Return(g) /\ straddling' = straddling \ {g}
      /\ cache' = [m \in kept \union {n} |-> IF m = n THEN entry ELSE cache[m]]
      /\ usedBefore' = OrderWithout(Evicted \union {n}) \union (others \X {n})
      /\ touching' = {h \in touching : asking[h].name \in others}
      /\ UNCHANGED <<configs, removals, cleared>>
  BY DEF Store
<1>2. n \in Names /\ asking[g].version \in 0 .. MaxVersion /\ g \notin touching
  BY <1>1 DEF RegistryInv, AsksAreSound, RegistryTypeOK
<1>3. entry \in Entries /\ (entry.late \/ entry.version >= cleared[n])
  <2>1. entry.version = asking[g].version /\ entry.late = (g \in straddling) /\ entry.age = "fresh"
    OBVIOUS
  <2>2. entry \in Entries
    BY <1>2 DEF Entries
  <2>3. CASE g \in straddling
    BY <2>1, <2>2, <2>3
  <2>4. CASE g \notin straddling
    BY <1>1, <2>1, <2>2, <2>4 DEF RegistryInv, AsksAreSound
  <2> QED BY <2>3, <2>4
<1>4. /\ asking' \in [Getters -> Asks] /\ asking'[g].pc = "idle"
      /\ \A h \in Getters \ {g} : asking'[h] = asking[h]
  BY <1>1, RegistryAssumption DEF Return, Idle, RegistryInv, RegistryTypeOK, Asks, AskStates, RegistryAssumption
<1> HIDE DEF entry
<1>5. /\ Cached' = others \union {n} /\ cache'[n] = entry
      /\ \A m \in others : cache'[m] = cache[m]
      /\ cache' \in [Cached' -> Entries]
  BY <1>1, <1>3 DEF Cached, RegistryInv, RegistryTypeOK
<1>6. OrderOfUse'
  <2>1. OrderWithout(Evicted \union {n}) = OrderWithout(Cached \ others)
    BY DEF OrderWithout, RegistryInv, RegistryTypeOK, OrderOfUse
  <2> QED BY <1>1, <1>5, <2>1, UsedLast DEF RegistryInv
<1>7. RegistryTypeOK'
  <2>1. Cached' \subseteq Names /\ removals' \in [Names -> 0 .. MaxRemovals] /\ straddling' \subseteq Getters
    BY <1>1, <1>2, <1>5 DEF RegistryInv, RegistryTypeOK
  <2> QED BY <1>1, <1>4, <1>5, <1>6, <2>1 DEF RegistryInv, RegistryTypeOK, Asks, AskStates
<1>8. AsksAreSound'
  <2>1. \A h \in touching' : asking'[h].pc = "touch" /\ asking'[h].name \in Cached'
    BY <1>1, <1>2, <1>4, <1>5 DEF RegistryInv, AsksAreSound, RegistryTypeOK
  <2> QED BY <1>1, <1>4, <2>1 DEF RegistryInv, AsksAreSound
<1>9. EntriesAreCurrent' /\ \A m \in Names : cleared'[m] <= configs'[m]
  BY <1>1, <1>3, <1>5 DEF RegistryInv, EntriesAreCurrent
<1>10. Cardinality(Cached') <= MaxCached
  <2>1. IsFiniteSet(kept) /\ Cardinality(kept) \in 0 .. MaxCached - 1
    BY EvictionMakesRoom
  <2>2. Cached' = kept \union {n}
    BY <1>5
  <2> HIDE DEF kept
  <2>3. Cardinality(kept \union {n}) \in {Cardinality(kept), Cardinality(kept) + 1}
    BY <2>1, FS_AddElement
  <2> QED BY <2>1, <2>2, <2>3, RegistryAssumption DEF RegistryAssumption
<1> QED BY <1>7, <1>8, <1>9, <1>10 DEF RegistryInv

\* Every step of the registry keeps the invariant.
LEMMA RegistryStep == RegistryInv /\ [RegistryNext]_registryVars => RegistryInv'
<1> SUFFICES ASSUME RegistryInv, [RegistryNext]_registryVars PROVE RegistryInv'
    OBVIOUS
<1>1. ASSUME NEW n \in Names, UpdateConfig(n) PROVE RegistryInv'
  BY <1>1, ConfigIsUpdated
<1>2. ASSUME NEW n \in Names, InvalidateCache(n) PROVE RegistryInv'
  BY <1>2, EntriesAreInvalidated DEF InvalidateCache, RegistryInv, RegistryTypeOK
<1>3. ASSUME NEW n \in Names, RemovalRuns(n) PROVE RegistryInv'
  <2>1. removals' \in [Names -> 0 .. MaxRemovals]
    BY <1>3, RegistryAssumption DEF RemovalRuns, RegistryInv, RegistryTypeOK, RegistryAssumption
  <2> QED BY <1>3, <2>1, EntriesAreInvalidated DEF RemovalRuns
<1>4. ASSUME NEW n \in Names, Ages(n) PROVE RegistryInv'
  BY <1>4, EntryAges
<1>5. ASSUME NEW n \in Names, NEW g \in Getters, Ask(g, n) PROVE RegistryInv'
  BY <1>5, AskBegins
<1>6. ASSUME NEW g \in Getters, AskStep(g) PROVE RegistryInv'
  BY <1>6, EntryIsLookedUp, UseIsRecorded, ProviderIsCreated, ProviderIsStored DEF AskStep
<1>7. CASE ClearCache
  BY <1>7, EntriesAreInvalidated DEF ClearCache, RegistryInv, RegistryTypeOK
<1>8. CASE PerformCleanup
  BY <1>8, CleanupIsPerformed
<1>9. CASE UNCHANGED registryVars
  BY <1>9 DEF registryVars, cacheVars, askVars, RegistryInv, RegistryTypeOK, OrderOfUse, AsksAreSound,
        EntriesAreCurrent, Cached
<1> QED BY <1>1, <1>2, <1>3, <1>4, <1>5, <1>6, <1>7, <1>8, <1>9 DEF RegistryNext

\* The inductive invariant behind the bound of the cache.
LEMMA RegistryKeeps == Spec => []RegistryInv
<1>1. Init => RegistryInv
  BY RegistryStarts DEF Init
<1>2. RegistryInv /\ [Next]_serviceVars => RegistryInv'
  <2>1. [Next]_serviceVars => [RegistryNext]_registryVars
    BY DEF Next, serviceVars
  <2> QED BY <2>1, RegistryStep
<1> QED BY <1>1, <1>2, PTL DEF Spec

\* For any number of names and getters, and however construction, expiry,
\* eviction and invalidation interleave: the cache keeps to its size, and what
\* an invalidation has dropped comes back only by who was storing it already.
THEOREM CacheStaysBounded == Spec => []CacheIsBoundedAndCurrent
<1>1. RegistryInv => CacheIsBoundedAndCurrent
  BY DEF RegistryInv, CacheIsBoundedAndCurrent, EntriesAreCurrent
<1> QED BY <1>1, RegistryKeeps, PTL

-----------------------------------------------------------------------------
(***************************************************************************)
(* The types of the other services.  Most are inductive as they stand.     *)
(***************************************************************************)
\* The configuration service is well typed at first.
LEMMA ConfigTypesStart == ConfigInit => ConfigTypeOK
<1> SUFFICES ASSUME ConfigInit PROVE ConfigTypeOK
    OBVIOUS
<1> USE ConfigServiceAssumption DEF ConfigServiceAssumption
<1>1. file \in [Paths -> {"absent", "torn", "good"}]
  BY DEF ConfigInit
<1>2. picked \in [Watchers -> [cb : {0} \union Watchers, cfg : Configurations]]
  BY DEF ConfigInit, NothingPicked, Configurations
<1>3. events \in [Watchers -> 0 .. MaxEvents] /\ opened \in 0 .. MaxWatches
  BY DEF ConfigInit
<1>4. /\ closes \in [Watchers -> Nat] /\ attached \in [Watchers -> Paths \union {None}]
      /\ cancelled \in [Watchers -> BOOLEAN]
  BY DEF ConfigInit
<1>5. loopPC \in [Watchers -> {"none", "select", "changed", "reloaded", "picked", "leaving", "done"}]
  BY DEF ConfigInit
<1>6. /\ edits = 0 /\ saves = 0 /\ config = None /\ configPath = None /\ watcher = 0 /\ callback = 0
      /\ edited = FALSE /\ strayed = FALSE /\ saveFailed = FALSE /\ told = None /\ overlapped = FALSE
  BY DEF ConfigInit
<1>7. edits \in 0 .. MaxEdits /\ saves \in 0 .. MaxSaves
  BY <1>6
<1>8. /\ config \in Configurations /\ told \in Configurations /\ configPath \in Paths \union {None}
  BY <1>6 DEF Configurations
<1>9. watcher \in {0} \union Watchers /\ callback \in {0} \union Watchers
  BY <1>6
<1>10. edited \in BOOLEAN /\ strayed \in BOOLEAN /\ saveFailed \in BOOLEAN /\ overlapped \in BOOLEAN
  BY <1>6
<1> HIDE DEF ConfigServiceAssumption
<1> QED BY <1>1, <1>2, <1>3, <1>4, <1>5, <1>7, <1>8, <1>9, <1>10 DEF ConfigTypeOK

\* A configuration that a file held is still one when it is Old.
LEMMA AgedType == ASSUME NEW cfg \in Configurations, NEW p PROVE Aged(cfg, p) \in Configurations
  BY DEF Aged, Configurations

\* A changed file leaves file, events and what is known of configurations well
\* typed.
LEMMA ChangeType ==
  ASSUME ConfigTypeOK, NEW p \in Paths, NEW kind \in {"torn", "good"}, Change(p, kind)
  PROVE  /\ file' \in [Paths -> {"absent", "torn", "good"}]
         /\ picked' \in [Watchers -> [cb : {0} \union Watchers, cfg : Configurations]]
         /\ told' \in Configurations
         /\ edited' \in BOOLEAN
<1>1. file' \in [Paths -> {"absent", "torn", "good"}]
  BY DEF Change, ConfigTypeOK
<1>2. told' \in Configurations
  BY AgedType DEF Change, ConfigTypeOK
<1>3. edited' \in BOOLEAN
  BY DEF Change, ConfigTypeOK
<1>4. ASSUME NEW w \in Watchers
      PROVE  [picked[w] EXCEPT !.cfg = Aged(@, p)] \in [cb : {0} \union Watchers, cfg : Configurations]
  <2>1. picked[w] \in [cb : {0} \union Watchers, cfg : Configurations]
    BY DEF ConfigTypeOK
  <2>2. Aged(picked[w].cfg, p) \in Configurations
    BY <2>1, AgedType
  <2> QED BY <2>1, <2>2
<1>5. picked' = [w \in Watchers |-> [picked[w] EXCEPT !.cfg = Aged(@, p)]]
  BY DEF Change
<1> HIDE DEF Change
<1>6. picked' \in [Watchers -> [cb : {0} \union Watchers, cfg : Configurations]]
  BY <1>4, <1>5
<1> QED BY <1>1, <1>2, <1>3, <1>6

\* So does what the watchers are told of it.
LEMMA AnnounceType == ASSUME ConfigTypeOK, NEW p, Announce(p) PROVE events' \in [Watchers -> 0 .. MaxEvents]
  BY ConfigServiceAssumption DEF Announce, ConfigTypeOK, ConfigServiceAssumption

\* What is loaded is a configuration.
LEMMA ReadType ==
  ASSUME ConfigTypeOK, NEW p \in Paths, ReadFile(p) PROVE config' \in Configurations
  BY DEF ReadFile, ConfigTypeOK, Configurations

\* Every step keeps the types of the configuration service.
LEMMA ConfigTypeStep == ConfigTypeOK /\ [ConfigNext]_configVars => ConfigTypeOK'
<1> SUFFICES ASSUME ConfigTypeOK, [ConfigNext]_configVars PROVE ConfigTypeOK'
    OBVIOUS
<1> USE ConfigServiceAssumption DEF ConfigServiceAssumption
<1>1. /\ Old \in Configurations /\ \A p \in Paths : p \in Configurations
      /\ \A p : Aged(config, p) \in Configurations
  BY AgedType DEF ConfigTypeOK, Configurations
<1>2. ASSUME NEW p \in EditedPaths, EditorTruncates(p) \/ EditorWrites(p) \/ EditorReplaces(p)
      PROVE  ConfigTypeOK'
  <2>1. p \in Paths
    OBVIOUS
  <2>2. CASE EditorTruncates(p)
    <3>1. /\ Change(p, "torn") /\ Announce(p) /\ config' = Aged(config, p)
          /\ UNCHANGED <<edits, saves, attached, configPath, watcher, callback, opened, closes, cancelled,
                         loopPC, strayed, saveFailed, overlapped>>
      BY <2>2 DEF EditorTruncates, watchVars
    <3> QED BY <1>1, <2>1, <3>1, ChangeType, AnnounceType DEF ConfigTypeOK
  <2>3. CASE EditorWrites(p)
    <3>1. /\ Change(p, "good") /\ Announce(p) /\ edits < MaxEdits /\ edits' = edits + 1 /\ saves' = saves
          /\ UNCHANGED <<attached, config, configPath, watcher, callback, opened, closes, cancelled,
                         loopPC, strayed, saveFailed, overlapped>>
      BY <2>3 DEF EditorWrites, CountEdit, watchVars, stateVars
    <3> QED BY <1>1, <2>1, <3>1, ChangeType, AnnounceType DEF ConfigTypeOK
  <2>4. CASE EditorReplaces(p)
    <3>1. /\ Change(p, "good") /\ edits < MaxEdits /\ edits' = edits + 1 /\ saves' = saves
          /\ config' = Aged(config, p)
          /\ attached' = [w \in Watchers |-> IF attached[w] = p THEN None ELSE attached[w]]
          /\ UNCHANGED <<events, configPath, watcher, callback, opened, closes, cancelled,
                         loopPC, strayed, saveFailed, overlapped>>
      BY <2>4 DEF EditorReplaces, CountEdit, watchVars
    <3>2. attached' \in [Watchers -> Paths \union {None}]
      BY <3>1 DEF ConfigTypeOK
    <3> QED BY <1>1, <2>1, <3>1, <3>2, ChangeType DEF ConfigTypeOK
  <2> QED BY <1>2, <2>2, <2>3, <2>4
<1>3. ASSUME NEW path \in Paths \union {None}, LoadConfiguration(path) PROVE ConfigTypeOK'
  <2>1. /\ config' \in Configurations /\ configPath' \in Paths \union {None} /\ strayed' \in BOOLEAN
    <3>1. ASSUME NEW p \in Paths, LoadFrom(p) 
          PROVE  config' \in Configurations /\ configPath' \in Paths \union {None} /\ strayed' \in BOOLEAN
      BY <3>1, ReadType DEF LoadFrom, TurnTo, ConfigTypeOK
    <3>2. ASSUME LoadDiscovered
          PROVE  config' \in Configurations /\ configPath' \in Paths \union {None} /\ strayed' \in BOOLEAN
      BY <3>2, ReadType DEF LoadDiscovered, TurnTo, ConfigTypeOK
    <3> QED BY <1>3, <3>1, <3>2 DEF LoadConfiguration
  <2>2. UNCHANGED <<fileVars, watchVars, loopVars, edited, saveFailed, told, overlapped>>
    BY <1>3 DEF LoadConfiguration
  <2> QED BY <2>1, <2>2 DEF ConfigTypeOK, fileVars, watchVars, loopVars
<1>4. ASSUME Reload PROVE config' \in Configurations
  BY <1>4, ReadType DEF Reload, ConfigTypeOK
<1>5. CASE ReloadConfiguration
  BY <1>4, <1>5 DEF ReloadConfiguration, ConfigTypeOK, fileVars, watchVars, loopVars, historyVars
<1>6. ASSUME NEW p \in Paths, SaveConfiguration(p) PROVE ConfigTypeOK'
  <2>1. /\ saves < MaxSaves /\ saves' = saves + 1 /\ edits' = edits /\ configPath' = p
        /\ strayed' \in BOOLEAN
        /\ UNCHANGED <<attached, watcher, callback, opened, closes, cancelled, loopPC, overlapped>>
    BY <1>6 DEF SaveConfiguration, CountSave, TurnTo, ConfigTypeOK, watchVars
  <2>2. /\ file' \in [Paths -> {"absent", "torn", "good"}]
        /\ picked' \in [Watchers -> [cb : {0} \union Watchers, cfg : Configurations]]
        /\ told' \in Configurations
        /\ edited' \in BOOLEAN
        /\ events' \in [Watchers -> 0 .. MaxEvents]
    <3>1. \/ Change(p, "good") /\ Announce(p) 
          \/ Change(p, "torn") /\ Announce(p)
          \/ UNCHANGED <<file, picked, told, edited, events>>
      BY <1>6 DEF SaveConfiguration
    <3> QED BY <3>1, ChangeType, AnnounceType DEF ConfigTypeOK
  <2>3. config' \in {p, Old} /\ saveFailed' \in BOOLEAN
    BY <1>6 DEF SaveConfiguration, ConfigTypeOK
  <2> QED BY <1>1, <2>1, <2>2, <2>3 DEF ConfigTypeOK
<1>7. ASSUME NEW p \in Paths, CreateDefaultConfiguration(p) PROVE ConfigTypeOK'
  <2>1. /\ Change(p, "good") /\ Announce(p) /\ saves < MaxSaves /\ saves' = saves + 1 /\ edits' = edits
        /\ config' = Aged(config, p) /\ configPath' = p /\ strayed' \in BOOLEAN
        /\ UNCHANGED <<attached, watcher, callback, opened, closes, cancelled, loopPC, saveFailed, overlapped>>
    BY <1>7 DEF CreateDefaultConfiguration, CountSave, TurnTo, ConfigTypeOK, watchVars
  <2> QED BY <1>1, <2>1, ChangeType, AnnounceType DEF ConfigTypeOK
<1>8. ASSUME NEW p \in Paths, CreateDefaultFails(p) PROVE ConfigTypeOK'
  <2>1. /\ Change(p, "torn") /\ Announce(p) /\ saves < MaxSaves /\ saves' = saves + 1 /\ edits' = edits
        /\ config' = Aged(config, p)
        /\ UNCHANGED <<attached, configPath, watcher, callback, opened, closes, cancelled, loopPC, strayed,
                       saveFailed, overlapped>>
    BY <1>8 DEF CreateDefaultFails, CountSave, watchVars
  <2> QED BY <1>1, <2>1, ChangeType, AnnounceType DEF ConfigTypeOK
<1>9. CASE WatchConfiguration
  <2> DEFINE w == opened + 1
  <2>1. /\ w \in Watchers /\ opened' = w /\ callback' = w
        /\ UNCHANGED <<file, edits, saves, events, config, configPath, cancelled, picked, edited, strayed,
                       saveFailed, told>>
    BY <1>9 DEF WatchConfiguration, ConfigTypeOK, stateVars, Watchers
  <2>2. opened' \in 0 .. MaxWatches
    BY <2>1 DEF Watchers
  <2>3. configPath \in Paths
    BY <1>9 DEF WatchConfiguration, ConfigTypeOK
  <2> HIDE DEF w
  <2>4. CASE file[configPath] = "absent"
    <3>1. /\ closes' = [closes EXCEPT ![w] = 1]
          /\ UNCHANGED <<watcher, attached, loopPC, overlapped>>
      BY <1>9, <2>4 DEF WatchConfiguration, w
    <3> QED BY <2>1, <2>2, <3>1 DEF ConfigTypeOK
  <2>5. CASE file[configPath] # "absent"
    <3>1. /\ watcher' = w /\ attached' = [attached EXCEPT ![w] = configPath]
          /\ loopPC' = [loopPC EXCEPT ![w] = "select"] /\ closes' = closes
          /\ overlapped' \in BOOLEAN
      BY <1>9, <2>5 DEF WatchConfiguration, w, ConfigTypeOK
    <3> QED BY <2>1, <2>2, <2>3, <3>1 DEF ConfigTypeOK
  <2> QED BY <2>4, <2>5
<1>10. ASSUME NEW w \in Watchers, CloseWatcher(w)
       PROVE  /\ closes' \in [Watchers -> Nat] /\ attached' \in [Watchers -> Paths \union {None}]
              /\ watcher' = 0 /\ callback' = 0
              /\ edited' = FALSE /\ strayed' = FALSE /\ saveFailed' = FALSE /\ overlapped' = FALSE
              /\ told' \in Configurations
  BY <1>10 DEF CloseWatcher, Forgotten, ConfigTypeOK, Configurations
<1>11. CASE StopWatching
  <2>1. /\ watcher \in Watchers /\ CloseWatcher(watcher)
        /\ UNCHANGED <<file, edits, saves, events, config, configPath, opened, cancelled, loopPC, picked>>
    BY <1>11 DEF StopWatching, ConfigTypeOK, stateVars, loopVars
  <2> QED BY <1>10, <2>1 DEF ConfigTypeOK
<1>12. ASSUME NEW w \in Watchers, CancelWatch(w) PROVE ConfigTypeOK'
  BY <1>12 DEF CancelWatch, ConfigTypeOK, fileVars, stateVars, loopVars, historyVars
<1>13. ASSUME NEW w \in Watchers, LoopStep(w) PROVE ConfigTypeOK'
  <2>1. CASE LoopTakesEvent(w)
    BY <2>1, <1>13 DEF LoopTakesEvent, GoTo, ConfigTypeOK, stateVars, watchVars, historyVars
  <2>2. CASE LoopLeaves(w)
    BY <2>2, <1>13 DEF LoopLeaves, GoTo, ConfigTypeOK, fileVars, stateVars, watchVars, historyVars
  <2>3. CASE LoopEnds(w)
    <3>1. /\ loopPC' = [loopPC EXCEPT ![w] = "done"] /\ events' = [events EXCEPT ![w] = 0]
          /\ UNCHANGED <<file, edits, saves, config, configPath, opened, cancelled, picked>>
      BY <2>3 DEF LoopEnds, GoTo, stateVars
    <3>2. \/ CloseWatcher(w)
          \/ UNCHANGED <<closes, attached, watcher, callback, historyVars>>
      BY <2>3 DEF LoopEnds
    <3>3. CASE CloseWatcher(w)
      <4>1. /\ closes' \in [Watchers -> Nat] /\ attached' \in [Watchers -> Paths \union {None}]
            /\ watcher' = 0 /\ callback' = 0
            /\ edited' = FALSE /\ strayed' = FALSE /\ saveFailed' = FALSE /\ overlapped' = FALSE
            /\ told' \in Configurations
        BY <1>10, <1>13, <3>3
      <4>2. /\ events' \in [Watchers -> 0 .. MaxEvents]
            /\ loopPC' \in [Watchers -> {"none", "select", "changed", "reloaded", "picked", "leaving", "done"}]
        BY <1>13, <3>1 DEF ConfigTypeOK
      <4>3. watcher' \in {0} \union Watchers /\ callback' \in {0} \union Watchers
        BY <4>1
      <4>4. /\ edited' \in BOOLEAN /\ strayed' \in BOOLEAN /\ saveFailed' \in BOOLEAN
            /\ overlapped' \in BOOLEAN
        BY <4>1
      <4>5. /\ file' \in [Paths -> {"absent", "torn", "good"}]
            /\ edits' \in 0 .. MaxEdits /\ saves' \in 0 .. MaxSaves /\ config' \in Configurations
            /\ configPath' \in Paths \union {None} /\ opened' \in 0 .. MaxWatches
            /\ cancelled' \in [Watchers -> BOOLEAN]
            /\ picked' \in [Watchers -> [cb : {0} \union Watchers, cfg : Configurations]]
        BY <3>1 DEF ConfigTypeOK
      <4> QED BY <4>1, <4>2, <4>3, <4>4, <4>5 DEF ConfigTypeOK
    <3>4. CASE UNCHANGED <<closes, attached, watcher, callback, historyVars>>
      BY <1>13, <3>1, <3>4 DEF ConfigTypeOK, historyVars
    <3> QED BY <3>2, <3>3, <3>4
  <2>4. CASE LoopReloads(w)
    BY <1>4, <2>4, <1>13 DEF LoopReloads, GoTo, ConfigTypeOK, fileVars, watchVars, historyVars
  <2>5. CASE LoopPicks(w)
    <3>1. /\ picked' \in [Watchers -> [cb : {0} \union Watchers, cfg : Configurations]]
      BY <2>5, <1>13 DEF LoopPicks, ConfigTypeOK, NothingPicked, Configurations
    <3> QED BY <2>5, <1>13, <3>1 DEF LoopPicks, GoTo, ConfigTypeOK, fileVars, stateVars, watchVars, historyVars
  <2>6. CASE LoopCalls(w)
    <3>1. picked[w] \in [cb : {0} \union Watchers, cfg : Configurations]
      BY <1>13 DEF ConfigTypeOK
    <3>2. told' \in Configurations
      BY <2>6, <3>1 DEF LoopCalls, ConfigTypeOK
    <3>3. NothingPicked \in [cb : {0} \union Watchers, cfg : Configurations]
      BY DEF NothingPicked, Configurations
    <3> QED BY <2>6, <1>13, <3>2, <3>3 DEF LoopCalls, GoTo, ConfigTypeOK, fileVars, stateVars, watchVars
  <2> QED BY <1>13, <2>1, <2>2, <2>3, <2>4, <2>5, <2>6 DEF LoopStep
<1>14. CASE UNCHANGED configVars
  BY <1>14 DEF configVars, ConfigTypeOK, fileVars, stateVars, watchVars, loopVars, historyVars
<1> QED BY <1>2, <1>3, <1>5, <1>6, <1>7, <1>8, <1>9, <1>11, <1>12, <1>13, <1>14 DEF ConfigNext

-----------------------------------------------------------------------------
\* The configuration manager is well typed at first.
LEMMA ManagerTypesStart == ManagerInit => ManagerTypeOK
<1> SUFFICES ASSUME ManagerInit PROVE ManagerTypeOK
    OBVIOUS
<1>1. holding \in [Reloaders -> SUBSET Objects] /\ toNotify \in [Updaters -> SUBSET Listeners]
  BY DEF ManagerInit
<1>2. stored = {} /\ Cardinality(stored) = 0
  BY FS_EmptySet DEF ManagerInit
<1>3. shut \in BOOLEAN /\ listening \in {{}, Listeners}
  BY DEF ManagerInit
<1>4. /\ reloaderPC \in [Reloaders -> {"none", "select", "load", "done"}]
      /\ updaterPC \in [Updaters -> {"idle", "notify", "done"}]
  BY DEF ManagerInit
<1> QED BY <1>1, <1>2, <1>3, <1>4 DEF ManagerTypeOK

\* A load stores one object, and starts at most one goroutine.
LEMMA LoadIntoType ==
    ASSUME NEW target \in Objects, NEW pcs \in [Reloaders -> {"none", "select", "load", "done", "fatal"}],
           LoadInto(target, pcs), stored \subseteq Objects, Cardinality(stored) <= 1
    PROVE  /\ stored' \subseteq Objects /\ Cardinality(stored') <= 1
           /\ reloaderPC' \in [Reloaders -> {"none", "select", "load", "done", "fatal"}]
<1>1. CASE UNCHANGED stored /\ reloaderPC' = pcs
  BY <1>1
<1>2. CASE ~(UNCHANGED stored /\ reloaderPC' = pcs)
  <2>1. stored' = {target}
    BY <1>2 DEF LoadInto
  <2>2. Cardinality({target}) = 1
    BY FS_Singleton
  <2>3. \/ reloaderPC' = pcs
        \/ \E r : reloaderPC' = [pcs EXCEPT ![r] = "select"]
    BY <1>2 DEF LoadInto
  <2> QED BY <2>1, <2>2, <2>3
<1> QED BY <1>1, <1>2

\* Every step keeps the types of the configuration manager.
LEMMA ManagerTypeStep == ManagerTypeOK /\ [ManagerNext]_managerVars => ManagerTypeOK'
<1> SUFFICES ASSUME ManagerTypeOK, [ManagerNext]_managerVars PROVE ManagerTypeOK'
    OBVIOUS
<1>1. CASE LoadConfig
  <2>1. "loaded" \in Objects
    BY DEF Objects
  <2> QED BY <1>1, <2>1, LoadIntoType DEF LoadConfig, ManagerTypeOK
<1>2. ASSUME NEW r \in Reloaders, ReloaderTicks(r) PROVE ManagerTypeOK'
  BY <1>2 DEF ReloaderTicks, ManagerTypeOK
<1>3. ASSUME NEW r \in Reloaders, ReloaderLoads(r) PROVE ManagerTypeOK'
  <2>1. PICK target \in holding[r] : LoadInto(target, [reloaderPC EXCEPT ![r] = "select"])
    BY <1>3 DEF ReloaderLoads
  <2>2. /\ target \in Objects
        /\ [reloaderPC EXCEPT ![r] = "select"] \in [Reloaders -> {"none", "select", "load", "done", "fatal"}]
    BY <1>3, <2>1 DEF ManagerTypeOK
  <2>3. holding' = [holding EXCEPT ![r] = {}] /\ UNCHANGED <<shut, listening, updaterPC, toNotify>>
    BY <1>3 DEF ReloaderLoads
  <2>4. holding' \in [Reloaders -> SUBSET Objects]
    BY <2>3 DEF ManagerTypeOK
  <2> QED BY <2>1, <2>2, <2>3, <2>4, LoadIntoType DEF ManagerTypeOK
<1>4. ASSUME NEW r \in Reloaders, ReloaderEnds(r) \/ ReadMeetsWrite(r) PROVE ManagerTypeOK'
  BY <1>4 DEF ReloaderEnds, ReadMeetsWrite, ManagerTypeOK
<1>5. ASSUME NEW u \in Updaters, Update(u) PROVE ManagerTypeOK'
  <2>1. stored' = {u} /\ u \in Objects /\ Cardinality({u}) = 1
    BY <1>5, FS_Singleton DEF Update, Objects
  <2>2. toNotify' \in [Updaters -> SUBSET Listeners]
    BY <1>5 DEF Update, ManagerTypeOK
  <2> QED BY <1>5, <2>1, <2>2 DEF Update, ManagerTypeOK
<1>6. ASSUME NEW u \in Updaters, Notify(u) PROVE ManagerTypeOK'
  <2>1. toNotify' \in [Updaters -> SUBSET Listeners]
    BY <1>6 DEF Notify, ManagerTypeOK
  <2> QED BY <1>6, <2>1 DEF Notify, ManagerTypeOK
<1>7. ASSUME NEW u \in Updaters, UpdateReturns(u) PROVE ManagerTypeOK'
  BY <1>7 DEF UpdateReturns, ManagerTypeOK
<1>8. CASE CancelWatching
  BY <1>8 DEF CancelWatching, ManagerTypeOK
<1>9. CASE ClearConfigs
  BY <1>9, FS_EmptySet DEF ClearConfigs, ManagerTypeOK
<1>10. CASE UNCHANGED managerVars
  BY <1>10 DEF managerVars, ManagerTypeOK
<1> QED BY <1>1, <1>2, <1>3, <1>4, <1>5, <1>6, <1>7, <1>8, <1>9, <1>10 DEF ManagerNext

-----------------------------------------------------------------------------
\* The webhook monitor is well typed at first.
LEMMA MonitorTypesStart == MonitorInit => MonitorTypeOK
<1> SUFFICES ASSUME MonitorInit PROVE MonitorTypeOK
    OBVIOUS
<1>1. loops \in [Starts -> SUBSET LoopKinds]
  BY DEF MonitorInit
<1>2. running = FALSE /\ stopClosed = FALSE /\ panicked = FALSE /\ starts = 0
  BY DEF MonitorInit
<1>3. ctxEnded \in [Starts -> BOOLEAN]
  BY DEF MonitorInit
<1>4. starts \in 0 .. MaxStarts
  BY <1>2, MonitorAssumption DEF MonitorAssumption
<1> QED BY <1>1, <1>2, <1>3, <1>4 DEF MonitorTypeOK

\* Every step keeps the types of the webhook monitor.
LEMMA MonitorTypeStep == MonitorTypeOK /\ [MonitorNext]_monitorVars => MonitorTypeOK'
<1> SUFFICES ASSUME MonitorTypeOK, [MonitorNext]_monitorVars PROVE MonitorTypeOK'
    OBVIOUS
<1> USE MonitorAssumption DEF MonitorAssumption, Starts
<1>1. CASE StartMonitor
  BY <1>1 DEF StartMonitor, MonitorTypeOK
<1>2. CASE StopMonitor
  BY <1>2 DEF StopMonitor, MonitorTypeOK
<1>3. ASSUME NEW s \in Starts, EndMonitorCtx(s) PROVE MonitorTypeOK'
  BY <1>3 DEF EndMonitorCtx, MonitorTypeOK
<1>4. ASSUME NEW s \in Starts, NEW kind \in LoopKinds, MonitorLoopEnds(s, kind) PROVE MonitorTypeOK'
  <2>1. loops' \in [Starts -> SUBSET LoopKinds]
    BY <1>4 DEF MonitorLoopEnds, MonitorTypeOK
  <2> QED BY <1>4, <2>1 DEF MonitorLoopEnds, MonitorTypeOK
<1>5. CASE UNCHANGED monitorVars
  BY <1>5 DEF monitorVars, MonitorTypeOK
<1> QED BY <1>1, <1>2, <1>3, <1>4, <1>5 DEF MonitorNext

-----------------------------------------------------------------------------
\* No more errors than results, and no more results than goroutines that sent.
FanCounts == collected \in Nat /\ errors \in 0 .. collected /\ fanCtxDone \in BOOLEAN

\* At first no result is collected.
LEMMA FanCountStarts == FanInit => FanCounts
<1> SUFFICES ASSUME FanInit PROVE FanCounts
    OBVIOUS
<1>1. collected = 0 /\ errors = 0 /\ fanCtxDone = FALSE
  BY DEF FanInit
<1>2. errors \in 0 .. collected
  BY <1>1
<1> QED BY <1>1, <1>2 DEF FanCounts

\* Every step counts no more errors than results.
LEMMA FanCountStep == FanCounts /\ [FanNext]_fanVars => FanCounts'
<1> SUFFICES ASSUME FanCounts, [FanNext]_fanVars PROVE FanCounts'
    OBVIOUS
<1>1. CASE Collect
  <2>1. collected' = collected + 1 /\ errors' \in {errors, errors + 1} /\ fanCtxDone' = fanCtxDone
    BY <1>1 DEF Collect
  <2> QED BY <2>1 DEF FanCounts
<1>2. CASE ~Collect
  <2>1. UNCHANGED <<collected, errors>> /\ fanCtxDone' \in {fanCtxDone, TRUE}
    BY <1>2 DEF FanNext, WorkerStep, CollectorStep, FanOut, WorkerGets, WorkerRuns, WorkerFails,
          FanReturns, FanLeaves, CancelFan, fanVars
  <2> QED BY <2>1 DEF FanCounts
<1> QED BY <1>1, <1>2

\* The invariant and the counts give the types of the fan-outs.
LEMMA FanIsTyped == FanInv /\ FanCounts => FanTypeOK
<1> SUFFICES ASSUME FanInv, FanCounts PROVE FanTypeOK
    OBVIOUS
<1>1. Cardinality(Sent) <= Cardinality(Providers) /\ Cardinality(Providers) \in Nat
  BY FanOutAssumption, FS_Subset, FS_CardinalityType DEF Sent, FanOutAssumption
<1>2. Cardinality(Sent) = collected + Cardinality(results)
  BY DEF FanInv
<1>3. collected \in 0 .. Cardinality(Providers)
  BY <1>1, <1>2, FanFinite DEF FanCounts
<1> QED BY <1>3 DEF FanInv, FanTypes, FanCounts, FanTypeOK

-----------------------------------------------------------------------------
\* An evaluation that has a result has it from a policy there was.
PolicyTypeInv ==
    /\ PolicyTypeOK
    /\ \A e \in Evaluators : evaluating[e].pc # "idle" => evaluating[e].org \in Orgs
    /\ \A e \in Evaluators : evaluating[e].pc = "store" => evaluating[e].made \in 1 .. MaxPolicies

Evaluations == [pc : EvaluationStates, org : Orgs \union {NoOrg}, made : 0 .. MaxPolicies]

\* The policy manager is well typed at first.
LEMMA PolicyTypesStart == PolicyInit => PolicyTypeInv
<1> SUFFICES ASSUME PolicyInit PROVE PolicyTypeInv
    OBVIOUS
<1> USE PolicyAssumption DEF PolicyAssumption
<1>1. /\ policyResults \in [Orgs -> Results \union {NoResult}]
      /\ dropped \in [Orgs -> 0 .. MaxPolicies + 1]
  BY DEF PolicyInit
<1>2. evaluating \in [Evaluators -> Evaluations] /\ \A e \in Evaluators : evaluating[e].pc = "idle"
  BY DEF PolicyInit, Waiting, Evaluations, EvaluationStates
<1>3. policy = NoPolicy /\ policiesMade = 0 /\ belated = {} /\ fatal = FALSE
  BY DEF PolicyInit
<1>4. policiesMade \in 0 .. MaxPolicies
  BY <1>3
<1>5. PolicyTypeOK
  BY <1>1, <1>2, <1>3, <1>4 DEF PolicyTypeOK, Evaluations, EvaluationStates
<1> QED BY <1>2, <1>5 DEF PolicyTypeInv

\* A step of one evaluation that does not store.
LEMMA EvaluationTypeMoves ==
    ASSUME PolicyTypeInv, NEW e \in Evaluators, UNCHANGED <<policy, policiesMade, dropped>>,
           policyResults' \in [Orgs -> Results \union {NoResult}],
           belated' \in {belated, belated \ {e}}, fatal' \in BOOLEAN,
           evaluating' \in [Evaluators -> Evaluations],
           \A d \in Evaluators \ {e} : evaluating'[d] = evaluating[d],
           evaluating'[e].pc # "idle" => evaluating'[e].org \in Orgs,
           evaluating'[e].pc = "store" => evaluating'[e].made \in 1 .. MaxPolicies
    PROVE  PolicyTypeInv'
<1>1. PolicyTypeOK'
  BY DEF PolicyTypeInv, PolicyTypeOK, Evaluations, EvaluationStates
<1> QED BY <1>1 DEF PolicyTypeInv

\* Storing a result keeps the types.
LEMMA PolicyTypeStores ==
    ASSUME PolicyTypeInv, NEW o \in Orgs, Stored(o),
           policyResults' \in [Orgs -> Results \union {NoResult}],
           dropped' \in [Orgs -> 0 .. MaxPolicies + 1], belated' \subseteq Evaluators,
           UNCHANGED <<evaluating, fatal>>
    PROVE  PolicyTypeInv'
<1>1. policy' \in Policies /\ policiesMade' \in 0 .. MaxPolicies
  BY PolicyAssumption DEF Stored, Policies, PolicyTypeInv, PolicyTypeOK, PolicyAssumption
<1> QED BY <1>1 DEF PolicyTypeInv, PolicyTypeOK

\* Dropping results keeps the types.
LEMMA PolicyTypeDrops ==
    ASSUME PolicyTypeInv, NEW o \in Orgs, InvalidateResults(o, policiesMade + 1)
    PROVE  /\ policyResults' \in [Orgs -> Results \union {NoResult}]
           /\ dropped' \in [Orgs -> 0 .. MaxPolicies + 1]
           /\ belated' \subseteq Evaluators
<1>1. policiesMade + 1 \in 0 .. MaxPolicies + 1
  BY PolicyAssumption DEF PolicyTypeInv, PolicyTypeOK, PolicyAssumption
<1>2. /\ policyResults' = [policyResults EXCEPT ![o] = NoResult]
      /\ dropped' = [dropped EXCEPT ![o] = policiesMade + 1]
      /\ belated' = belated \union
                    {e \in Evaluators : evaluating[e].pc = "store" /\ evaluating[e].org = o}
  BY DEF InvalidateResults
<1> QED BY <1>1, <1>2 DEF PolicyTypeInv, PolicyTypeOK

\* Every step keeps the types of the policy manager.
LEMMA PolicyTypeStep == PolicyTypeInv /\ [PolicyNext]_policyVars => PolicyTypeInv'
<1> SUFFICES ASSUME PolicyTypeInv, [PolicyNext]_policyVars PROVE PolicyTypeInv'
    OBVIOUS
<1>1. ASSUME NEW o \in Orgs, CreatePolicy(o) PROVE PolicyTypeInv'
  <2>1. /\ policyResults' \in [Orgs -> Results \union {NoResult}]
        /\ dropped' \in [Orgs -> 0 .. MaxPolicies + 1] /\ belated' \subseteq Evaluators
    BY <1>1 DEF CreatePolicy, PolicyTypeInv, PolicyTypeOK
  <2> QED BY <1>1, <2>1, PolicyTypeStores DEF CreatePolicy
<1>2. ASSUME NEW o \in Orgs, UpdatePolicy(o) PROVE PolicyTypeInv'
  BY <1>2, PolicyTypeDrops, PolicyTypeStores DEF UpdatePolicy
<1>3. CASE DeletePolicy
  <2>1. policy.org \in Orgs
    BY <1>3 DEF DeletePolicy, PolicyTypeInv, PolicyTypeOK, Policies
  <2>2. /\ policyResults' \in [Orgs -> Results \union {NoResult}]
        /\ dropped' \in [Orgs -> 0 .. MaxPolicies + 1] /\ belated' \subseteq Evaluators
    BY <1>3, <2>1, PolicyTypeDrops DEF DeletePolicy
  <2> QED BY <1>3, <2>2 DEF DeletePolicy, PolicyTypeInv, PolicyTypeOK
<1>4. ASSUME NEW o \in Orgs, ResultExpires(o) PROVE PolicyTypeInv'
  <2>1. /\ policyResults[o] \in Results
        /\ policyResults' = [policyResults EXCEPT ![o] = [policyResults[o] EXCEPT !.good = FALSE]]
    BY <1>4 DEF ResultExpires, PolicyTypeInv, PolicyTypeOK
  <2>2. [policyResults[o] EXCEPT !.good = FALSE] \in Results
    BY <2>1 DEF Results
  <2>3. policyResults' \in [Orgs -> Results \union {NoResult}]
    BY <2>1, <2>2 DEF PolicyTypeInv, PolicyTypeOK
  <2> QED BY <1>4, <2>3 DEF ResultExpires, PolicyTypeInv, PolicyTypeOK
<1>5. ASSUME NEW e \in Evaluators, NEW o \in Orgs, BeginEvaluation(e, o) PROVE PolicyTypeInv'
  <2>1. /\ evaluating' \in [Evaluators -> Evaluations]
        /\ \A d \in Evaluators \ {e} : evaluating'[d] = evaluating[d]
        /\ evaluating'[e].pc = "lookup" /\ evaluating'[e].org = o
    BY <1>5, PolicyAssumption DEF BeginEvaluation, PolicyTypeInv, PolicyTypeOK, Evaluations, EvaluationStates,
          PolicyAssumption
  <2>2. policyResults' \in [Orgs -> Results \union {NoResult}] /\ fatal' \in BOOLEAN
    BY <1>5 DEF BeginEvaluation, PolicyTypeInv, PolicyTypeOK
  <2> QED BY <1>5, <2>1, <2>2, EvaluationTypeMoves DEF BeginEvaluation
<1>6. ASSUME NEW e \in Evaluators, EvaluationStep(e) PROVE PolicyTypeInv'
  <2>1. ASSUME \/ EvaluationReturns(e)
               \/ \E pc \in {"check", "fetch", "evaluate"} : EvaluationGoes(e, pc),
               evaluating[e].pc # "idle"
        PROVE  /\ evaluating' \in [Evaluators -> Evaluations]
               /\ \A d \in Evaluators \ {e} : evaluating'[d] = evaluating[d]
               /\ evaluating'[e].pc # "idle" => evaluating'[e].org \in Orgs
               /\ evaluating'[e].pc # "store"
    BY <2>1, PolicyAssumption DEF EvaluationReturns, EvaluationGoes, Waiting, PolicyTypeInv, PolicyTypeOK,
          Evaluations, EvaluationStates, PolicyAssumption
  <2>2. policyResults \in [Orgs -> Results \union {NoResult}] /\ fatal \in BOOLEAN
    BY DEF PolicyTypeInv, PolicyTypeOK
  <2>3. CASE LookUpResult(e)
    <3>1. /\ evaluating[e].pc = "lookup"
          /\ EvaluationReturns(e) \/ EvaluationGoes(e, "check")
          /\ policyResults' \in {policyResults, [policyResults EXCEPT ![evaluating[e].org] = NoResult]}
          /\ fatal' \in {fatal, TRUE} /\ UNCHANGED <<policy, policiesMade, dropped, belated>>
      BY <2>3 DEF LookUpResult
    <3>2. policyResults' \in [Orgs -> Results \union {NoResult}]
      BY <2>2, <3>1
    <3> QED BY <2>1, <2>2, <3>1, <3>2, EvaluationTypeMoves
  <2>4. CASE CheckPolicy(e) \/ FetchStatus(e)
    BY <2>1, <2>2, <2>4, EvaluationTypeMoves DEF CheckPolicy, FetchStatus
  <2>5. CASE EvaluatePolicy(e)
    <3>1. /\ evaluating[e].pc = "evaluate" /\ belated' = belated \ {e}
          /\ UNCHANGED <<policy, policiesMade, policyResults, dropped>>
      BY <2>5 DEF EvaluatePolicy
    <3>2. CASE policy = NoPolicy
      <4>1. fatal' = TRUE /\ UNCHANGED evaluating
        BY <2>5, <3>2 DEF EvaluatePolicy
      <4> QED BY <2>2, <3>1, <4>1 DEF PolicyTypeInv, PolicyTypeOK
    <3>3. CASE policy # NoPolicy
      <4>1. /\ evaluating' = [evaluating EXCEPT ![e].pc = "store", ![e].made = policy.made]
            /\ fatal' = fatal
        BY <2>5, <3>3 DEF EvaluatePolicy
      <4>2. policy.made \in 1 .. MaxPolicies /\ policy.made \in 0 .. MaxPolicies
        BY <3>3, PolicyAssumption DEF PolicyTypeInv, PolicyTypeOK, Policies, PolicyAssumption
      <4>3. /\ evaluating' \in [Evaluators -> Evaluations]
            /\ \A d \in Evaluators \ {e} : evaluating'[d] = evaluating[d]
            /\ evaluating'[e].org = evaluating[e].org /\ evaluating'[e].made = policy.made
        BY <4>1, <4>2 DEF PolicyTypeInv, PolicyTypeOK, Evaluations, EvaluationStates
      <4>4. evaluating[e].org \in Orgs
        BY <3>1 DEF PolicyTypeInv
      <4> QED BY <2>2, <3>1, <4>1, <4>2, <4>3, <4>4, EvaluationTypeMoves
    <3> QED BY <3>2, <3>3
  <2>6. CASE CacheResult(e)
    <3> DEFINE result == [made |-> evaluating[e].made, good |-> TRUE, late |-> e \in belated]
    <3>1. /\ policyResults' = [policyResults EXCEPT ![evaluating[e].org] = result]
          /\ evaluating[e].pc = "store" /\ EvaluationReturns(e) /\ belated' = belated \ {e}
          /\ UNCHANGED <<policy, policiesMade, dropped, fatal>>
      BY <2>6 DEF CacheResult
    <3>2. result \in Results
      <4>1. evaluating[e].made \in 1 .. MaxPolicies
        BY <3>1 DEF PolicyTypeInv
      <4> QED BY <4>1 DEF Results
    <3> HIDE DEF result
    <3>3. policyResults' \in [Orgs -> Results \union {NoResult}]
      BY <2>2, <3>1, <3>2
    <3> QED BY <2>1, <2>2, <3>1, <3>3, EvaluationTypeMoves
  <2> QED BY <1>6, <2>3, <2>4, <2>5, <2>6 DEF EvaluationStep
<1>7. CASE UNCHANGED policyVars
  BY <1>7 DEF policyVars, PolicyTypeInv, PolicyTypeOK
<1> QED BY <1>1, <1>2, <1>3, <1>4, <1>5, <1>6, <1>7 DEF PolicyNext

-----------------------------------------------------------------------------
\* Beyond the types: a save that has moved the old snapshot aside still has it,
\* and a load that has copied a file knows whose it is and which one.
SaverStates == Saving \union {"idle", "saved", "error", "retained", "pending", "killed"}
LoaderStates == Loading \union {"idle", "ok", "error"}

SaveTypes ==
    /\ snapshot \in Snapshots \union {NoSnapshot}
    /\ staged \in [Savers -> Snapshots \union {NoSnapshot}]
    /\ aside \in [Savers -> Snapshots \union {NoSnapshot}]
    /\ saverPC \in [Savers -> SaverStates]
    /\ newest \in Owners \union {NoSnapshot}
    /\ \A s \in Savers : saverPC[s] = "cleanup" => aside[s] \in Snapshots

LoadTypes ==
    /\ loaderPC \in [Loaders -> LoaderStates]
    /\ replace \in [Loaders -> BOOLEAN]
    /\ nextFile \in [Loaders -> 1 .. FileCount + 1]
    /\ copied \in [Loaders -> Owners \union {NoSnapshot}]
    /\ loadedFrom \in [Loaders -> [RestoredFiles -> Owners \union {NoSnapshot}]]
    /\ movedAway \in [Loaders -> BOOLEAN]
    /\ dest \in [RestoredFiles -> {"none", "user", "restored"}]
    /\ userMade \subseteq RestoredFiles
    /\ \A l \in Loaders : loaderPC[l] = "preflight" => nextFile[l] = 1
    /\ \A l \in Loaders : loaderPC[l] \in {"check", "copied"} => nextFile[l] \in RestoredFiles
    /\ \A l \in Loaders : loaderPC[l] = "copied" => copied[l] \in Owners

\* The types of the saves and of the loads are those of the snapshots.
LEMMA SshTypesAre == SaveTypes /\ LoadTypes => SshTypeOK
  BY DEF SshTypeOK, SaveTypes, LoadTypes, SaverStates, LoaderStates

\* The saves are well typed at first.
LEMMA SaveTypesStart == SshInit => SaveTypes
<1> SUFFICES ASSUME SshInit PROVE SaveTypes
    OBVIOUS
<1>1. /\ snapshot \in Snapshots \union {NoSnapshot} /\ newest \in Owners \union {NoSnapshot}
  <2>1. Earlier \in Owners /\ [by |-> Earlier, whole |-> TRUE] \in Snapshots
    BY DEF Snapshots, Owners
  <2> QED BY <2>1 DEF SshInit
<1>2. /\ staged \in [Savers -> Snapshots \union {NoSnapshot}]
      /\ aside \in [Savers -> Snapshots \union {NoSnapshot}]
  BY DEF SshInit
<1>3. saverPC \in [Savers -> SaverStates] /\ \A s \in Savers : saverPC[s] # "cleanup"
  BY DEF SshInit, SaverStates
<1> QED BY <1>1, <1>2, <1>3 DEF SaveTypes

\* The loads are well typed at first.
LEMMA LoadTypesStart == SshInit => LoadTypes
<1> SUFFICES ASSUME SshInit PROVE LoadTypes
    OBVIOUS
<1>1. loaderPC \in [Loaders -> LoaderStates] /\ \A l \in Loaders : loaderPC[l] \notin {"preflight", "check", "copied"}
  BY DEF SshInit, LoaderStates
<1>2. replace \in [Loaders -> BOOLEAN] /\ movedAway \in [Loaders -> BOOLEAN]
  BY DEF SshInit
<1>3. nextFile \in [Loaders -> 1 .. FileCount + 1]
  BY SnapshotAssumption DEF SshInit, SnapshotAssumption
<1>4. copied \in [Loaders -> Owners \union {NoSnapshot}]
  BY DEF SshInit
<1>5. loadedFrom \in [Loaders -> [RestoredFiles -> Owners \union {NoSnapshot}]]
  BY DEF SshInit, NothingRestored
<1>6. dest \in [RestoredFiles -> {"none", "user", "restored"}] /\ userMade \subseteq RestoredFiles
  BY DEF SshInit
<1> QED BY <1>1, <1>2, <1>3, <1>4, <1>5, <1>6 DEF LoadTypes

\* A save has something staged until it has published or ended.
LEMMA StageIsThere ==
    ASSUME SaveInv, NEW s \in Savers,
           saverPC[s] \in {"stage", "stageForced", "look", "publish", "wrap", "moved", "rollback"}
    PROVE  staged[s] \in Snapshots
<1>1. \A b \in BOOLEAN : [by |-> s, whole |-> b] \in Snapshots
  BY DEF Snapshots, Owners
<1>2. staged[s] \in {[by |-> s, whole |-> FALSE], [by |-> s, whole |-> TRUE]}
  BY DEF SaveInv, Whole
<1> QED BY <1>1, <1>2

\* What RemoveAll leaves of a snapshot is one, or nothing.
LEMMA RemovedType ==
    ASSUME NEW at \in [Savers -> Snapshots \union {NoSnapshot}], NEW s \in Savers, at[s] \in Snapshots,
           NEW at2 \in Removed(at, s)
    PROVE  at2 \in [Savers -> Snapshots \union {NoSnapshot}]
<1>1. [at[s] EXCEPT !.whole = FALSE] \in Snapshots
  BY DEF Snapshots
<1> QED BY <1>1 DEF Removed

\* Where a save goes on.
LEMMA SaverGoesOn ==
    ASSUME SaveTypes, NEW s \in Savers, NEW old, NEW new \in SaverStates, SaverAt(s, old, new)
    PROVE  /\ saverPC[s] = old /\ saverPC' \in [Savers -> SaverStates] /\ saverPC'[s] = new
           /\ \A t \in Savers \ {s} : saverPC'[t] = saverPC[t]
  BY DEF SaverAt, SaveTypes

\* A step that leaves the backups alone.
LEMMA SaveTypesGoOn ==
    ASSUME SaveTypes, NEW s \in Savers, NEW old, NEW new \in SaverStates, SaverAt(s, old, new),
           snapshot' \in Snapshots \union {NoSnapshot}, newest' \in Owners \union {NoSnapshot},
           staged' \in [Savers -> Snapshots \union {NoSnapshot}], aside' = aside,
           new = "cleanup" => aside[s] \in Snapshots
    PROVE  SaveTypes'
  BY SaverGoesOn DEF SaveTypes

\* One that does not.
LEMMA SaveTypesAside ==
    ASSUME SaveTypes, NEW s \in Savers, NEW old, NEW new \in SaverStates, SaverAt(s, old, new), new # "cleanup",
           snapshot' \in Snapshots \union {NoSnapshot}, UNCHANGED newest,
           staged' \in [Savers -> Snapshots \union {NoSnapshot}],
           aside' \in [Savers -> Snapshots \union {NoSnapshot}], \A t \in Savers \ {s} : aside'[t] = aside[t]
    PROVE  SaveTypes'
  BY SaverGoesOn DEF SaveTypes

\* Every step of a save keeps the types of the saves.
LEMMA SaverTypeStep == ASSUME SaveInv, SaveTypes, NEW s \in Savers, SaverStep(s) PROVE SaveTypes'
<1> DEFINE Backups == [Savers -> Snapshots \union {NoSnapshot}]
<1>0. /\ snapshot \in Snapshots \union {NoSnapshot} /\ newest \in Owners \union {NoSnapshot}
      /\ staged \in Backups /\ aside \in Backups
  BY DEF SaveTypes
<1>1. \A b \in BOOLEAN : [by |-> s, whole |-> b] \in Snapshots
  BY DEF Snapshots, Owners
<1>2. CASE SaveBegins(s)
  <2>1. staged' \in Backups
    BY <1>0, <1>1, <1>2 DEF SaveBegins
  <2> QED BY <1>0, <1>2, <2>1, SaveTypesGoOn DEF SaveBegins, SaverStates, Saving
<1>3. CASE SaveRefused(s) \/ LookAtDestination(s)
  BY <1>0, <1>3, SaveTypesGoOn DEF SaveRefused, LookAtDestination, SaverStates, Saving
<1>4. CASE StageIsComplete(s)
  <2>1. staged' \in Backups
    BY <1>0, <1>1, <1>4 DEF StageIsComplete
  <2> QED BY <1>0, <1>4, <2>1, SaveTypesGoOn DEF StageIsComplete, SaverStates, Saving
<1>5. ASSUME Published(s), saverPC[s] \in {"publish", "moved"}
      PROVE  /\ snapshot' \in Snapshots \union {NoSnapshot} /\ newest' \in Owners \union {NoSnapshot}
             /\ staged' \in Backups
  <2>1. staged[s] \in Snapshots
    BY <1>5, StageIsThere
  <2> QED BY <1>0, <1>5, <2>1 DEF Published, PutInPlace, Owners
<1>6. CASE PublishFirst(s)
  BY <1>5, <1>6, SaveTypesGoOn DEF PublishFirst, SaverAt, SaverStates
<1>7. CASE MoveOldAside(s)
  <2>1. aside' \in Backups /\ \A t \in Savers \ {s} : aside'[t] = aside[t]
    BY <1>0, <1>7 DEF MoveOldAside
  <2> QED BY <1>0, <1>7, <2>1, SaveTypesAside DEF MoveOldAside, SaverStates, Saving
<1>8. CASE SaveFails(s)
  <2>1. PICK pc \in Saving \ {"moved", "rollback", "cleanup"} : SaverAt(s, pc, "error")
    BY <1>8 DEF SaveFails
  <2>2. staged[s] \in Snapshots
    BY <2>1, StageIsThere DEF SaverAt, Saving
  <2>3. staged' \in Backups /\ UNCHANGED <<snapshot, aside, newest>>
    BY <1>0, <1>8, <2>2, RemovedType DEF SaveFails
  <2> QED BY <1>0, <2>1, <2>3, SaveTypesGoOn DEF SaverStates
<1>9. CASE PublishOverOld(s)
  <2>1. /\ SaverAt(s, "moved", "cleanup") /\ Published(s) /\ aside' = aside
    BY <1>9 DEF PublishOverOld
  <2>2. aside[s] \in Snapshots
    BY <1>0, <2>1 DEF SaverAt, SaveInv
  <2> QED BY <1>5, <2>1, <2>2, SaveTypesGoOn DEF SaverAt, SaverStates, Saving
<1>10. CASE PublishOverOldFails(s) \/ RollBackFails(s)
  BY <1>0, <1>10, SaveTypesGoOn DEF PublishOverOldFails, RollBackFails, SaverStates, Saving
<1>11. CASE RollBack(s)
  <2>1. SaverAt(s, "rollback", "error") /\ staged' \in Removed(staged, s) /\ newest' = newest
        /\ snapshot' = aside[s] /\ aside' = [aside EXCEPT ![s] = NoSnapshot]
    BY <1>11 DEF RollBack, PutInPlace
  <2>2. staged[s] \in Snapshots
    BY <2>1, StageIsThere DEF SaverAt
  <2>3. staged' \in Backups
    BY <1>0, <2>1, <2>2, RemovedType
  <2>4. aside' \in Backups /\ \A t \in Savers \ {s} : aside'[t] = aside[t]
    BY <1>0, <2>1
  <2> QED BY <1>0, <2>1, <2>3, <2>4, SaveTypesAside DEF SaverStates
<1>12. CASE RemoveOld(s)
  <2>1. PICK pc \in {"saved", "pending"} : SaverAt(s, "cleanup", pc)
    BY <1>12 DEF RemoveOld
  <2>2. aside[s] \in Snapshots
    BY <2>1 DEF SaverAt, SaveTypes
  <2>3. aside' \in {aside} \union Removed(aside, s) /\ UNCHANGED <<snapshot, staged, newest>>
    BY <1>12 DEF RemoveOld
  <2>4. aside' \in Backups
    BY <1>0, <2>2, <2>3, RemovedType
  <2>5. \A t \in Savers \ {s} : aside'[t] = aside[t]
    BY <1>0, <2>3 DEF Removed
  <2> QED BY <1>0, <2>1, <2>3, <2>4, <2>5, SaveTypesAside DEF SaverStates
<1>13. CASE SaverIsKilled(s)
  BY <1>0, <1>13, SaveTypesGoOn DEF SaverIsKilled, SaverStates, Saving
<1> QED BY <1>2, <1>3, <1>4, <1>6, <1>7, <1>8, <1>9, <1>10, <1>11, <1>12, <1>13 DEF SaverStep

\* A step that moves no load keeps the types of the loads.
LEMMA LoadTypesStay ==
    ASSUME LoadTypes, UNCHANGED <<loaderPC, replace, nextFile, copied, loadedFrom, dest, userMade>>,
           movedAway' \in [Loaders -> BOOLEAN]
    PROVE  LoadTypes'
  BY DEF LoadTypes

\* A step of a load that restores nothing.
LEMMA LoadTypesGoOn ==
    ASSUME LoadTypes, NEW l \in Loaders, NEW old, NEW new \in LoaderStates, LoaderAt(l, old, new),
           replace' \in [Loaders -> BOOLEAN], nextFile' \in [Loaders -> 1 .. FileCount + 1],
           copied' \in [Loaders -> Owners \union {NoSnapshot}], loadedFrom' \in [Loaders -> [RestoredFiles -> Owners \union {NoSnapshot}]],
           movedAway' \in [Loaders -> BOOLEAN], UNCHANGED <<dest, userMade>>,
           \A k \in Loaders \ {l} : copied'[k] = copied[k] /\ nextFile'[k] = nextFile[k],
           new = "preflight" => nextFile'[l] = 1,
           new \in {"check", "copied"} => nextFile'[l] \in RestoredFiles,
           new = "copied" => copied'[l] \in Owners
    PROVE  LoadTypes'
<1>1. /\ loaderPC' \in [Loaders -> LoaderStates] /\ loaderPC'[l] = new
      /\ \A k \in Loaders \ {l} : loaderPC'[k] = loaderPC[k]
  BY DEF LoaderAt, LoadTypes
<1> QED BY <1>1 DEF LoadTypes

\* Every step of a load keeps the types.
LEMMA LoaderTypeStep == ASSUME SaveTypes, LoadTypes, NEW l \in Loaders, LoaderStep(l) PROVE LoadTypes'
<1>0. /\ replace \in [Loaders -> BOOLEAN] /\ nextFile \in [Loaders -> 1 .. FileCount + 1]
      /\ copied \in [Loaders -> Owners \union {NoSnapshot}] /\ loadedFrom \in [Loaders -> [RestoredFiles -> Owners \union {NoSnapshot}]]
      /\ movedAway \in [Loaders -> BOOLEAN]
  BY DEF LoadTypes
<1>1. CASE LoadBegins(l)
  <2>1. replace' \in [Loaders -> BOOLEAN]
    BY <1>0, <1>1 DEF LoadBegins
  <2>2. /\ nextFile' \in [Loaders -> 1 .. FileCount + 1] /\ nextFile'[l] = 1
        /\ \A k \in Loaders \ {l} : nextFile'[k] = nextFile[k]
    BY <1>0, <1>1, SnapshotAssumption DEF LoadBegins, SnapshotAssumption
  <2>3. loadedFrom' \in [Loaders -> [RestoredFiles -> Owners \union {NoSnapshot}]]
    BY <1>0, <1>1 DEF LoadBegins, NothingRestored
  <2>4. movedAway' \in [Loaders -> BOOLEAN]
    BY <1>0, <1>1 DEF LoadBegins
  <2>5. LoaderAt(l, "idle", "preflight") /\ UNCHANGED <<copied, dest, userMade>>
    BY <1>1 DEF LoadBegins
  <2> QED BY <1>0, <2>1, <2>2, <2>3, <2>4, <2>5, LoadTypesGoOn DEF LoaderStates, Loading
<1>2. CASE LoadRefused(l) \/ LoadReturns(l) \/ LookForFile(l)
  BY <1>0, <1>2, LoadTypesGoOn DEF LoadRefused, LoadReturns, LookForFile, LoaderStates, Loading
<1>6. CASE Preflight(l)
  <2>1. nextFile[l] = 1 /\ 1 \in RestoredFiles
    BY <1>6, SnapshotAssumption DEF Preflight, LoaderAt, LoadTypes, RestoredFiles
  <2> QED BY <1>0, <1>6, <2>1, LoadTypesGoOn DEF Preflight, LoaderStates, Loading
<1>7. CASE SkipFile(l)
  <2>1. /\ nextFile' \in [Loaders -> 1 .. FileCount + 1]
        /\ \A k \in Loaders \ {l} : nextFile'[k] = nextFile[k]
    BY <1>0, <1>7, SnapshotAssumption DEF SkipFile, RestoredFiles
  <2> QED BY <1>0, <1>7, <2>1, LoadTypesGoOn DEF SkipFile, LoaderStates, Loading
<1>3. CASE CopyFile(l)
  <2>1. snapshot.by \in Owners
    BY <1>3 DEF CopyFile, SaveTypes, Snapshots
  <2>2. /\ copied' \in [Loaders -> Owners \union {NoSnapshot}] /\ copied'[l] \in Owners
        /\ \A k \in Loaders \ {l} : copied'[k] = copied[k]
    BY <1>0, <1>3, <2>1 DEF CopyFile
  <2>3. nextFile[l] \in RestoredFiles
    BY <1>3 DEF CopyFile, LoaderAt, LoadTypes
  <2> QED BY <1>0, <1>3, <2>2, <2>3, LoadTypesGoOn DEF CopyFile, LoaderStates, Loading
<1>4. CASE RestoreFile(l)
  <2>1. PICK new \in {"look", "error"} : LoaderAt(l, "copied", new)
    BY <1>4 DEF RestoreFile
  <2>2. /\ loaderPC[l] = "copied" /\ loaderPC' \in [Loaders -> LoaderStates] /\ loaderPC'[l] = new
        /\ \A k \in Loaders \ {l} : loaderPC'[k] = loaderPC[k]
    BY <2>1 DEF LoaderAt, LoadTypes, LoaderStates, Loading
  <2>3. copied[l] \in Owners /\ nextFile[l] \in RestoredFiles
    BY <2>2 DEF LoadTypes
  <2>4. /\ dest' = [dest EXCEPT ![nextFile[l]] = "restored"]
        /\ loadedFrom' = [loadedFrom EXCEPT ![l][nextFile[l]] = copied[l]]
        /\ copied' = [copied EXCEPT ![l] = NoSnapshot]
        /\ nextFile' = [nextFile EXCEPT ![l] = nextFile[l] + 1]
        /\ userMade' \subseteq userMade
        /\ UNCHANGED <<replace, movedAway>>
    BY <1>4 DEF RestoreFile, Restored
  <2>5. loadedFrom' \in [Loaders -> [RestoredFiles -> Owners \union {NoSnapshot}]]
    BY <1>0, <2>3, <2>4
  <2>6. /\ nextFile' \in [Loaders -> 1 .. FileCount + 1]
        /\ \A k \in Loaders \ {l} : nextFile'[k] = nextFile[k]
    BY <1>0, <2>3, <2>4, SnapshotAssumption DEF RestoredFiles, SnapshotAssumption
  <2>7. /\ copied' \in [Loaders -> Owners \union {NoSnapshot}]
        /\ \A k \in Loaders \ {l} : copied'[k] = copied[k]
    BY <1>0, <2>4
  <2>8. dest' \in [RestoredFiles -> {"none", "user", "restored"}] /\ userMade' \subseteq RestoredFiles
    BY <2>4 DEF LoadTypes
  <2> QED BY <1>0, <2>2, <2>4, <2>5, <2>6, <2>7, <2>8 DEF LoadTypes
<1>5. CASE LoadFails(l)
  <2>1. PICK pc \in Loading : LoaderAt(l, pc, "error")
    BY <1>5 DEF LoadFails
  <2>2. /\ copied' \in [Loaders -> Owners \union {NoSnapshot}]
        /\ \A k \in Loaders \ {l} : copied'[k] = copied[k]
    BY <1>0, <1>5 DEF LoadFails
  <2>3. UNCHANGED <<replace, nextFile, loadedFrom, movedAway, dest, userMade>>
    BY <1>5 DEF LoadFails
  <2> QED BY <1>0, <2>1, <2>2, <2>3, LoadTypesGoOn DEF LoaderStates
<1> QED BY <1>1, <1>2, <1>3, <1>4, <1>5, <1>6, <1>7 DEF LoaderStep

\* Every step keeps the types of the snapshots.
LEMMA SshTypeStep ==
    SaveInv /\ SaveTypes /\ LoadTypes /\ [SshNext]_sshVars => SaveTypes' /\ LoadTypes'
<1> SUFFICES ASSUME SaveInv, SaveTypes, LoadTypes, [SshNext]_sshVars PROVE SaveTypes' /\ LoadTypes'
    OBVIOUS
<1>1. ASSUME NEW s \in Savers, SaverStep(s) PROVE SaveTypes' /\ LoadTypes'
  <2>1. UNCHANGED <<loaderPC, replace, nextFile, copied, loadedFrom, dest, userMade>>
    BY <1>1 DEF SaverStep, SaveBegins, SaveRefused, StageIsComplete, LookAtDestination, PublishFirst,
          MoveOldAside, SaveFails, PublishOverOld, PublishOverOldFails, RollBack, RollBackFails,
          RemoveOld, SaverIsKilled, Published, PutInPlace, loadVars
  <2>2. movedAway' \in {movedAway, [l \in Loaders |-> movedAway[l] \/ loaderPC[l] \in Loading]}
    BY <1>1 DEF SaverStep, SaveBegins, SaveRefused, StageIsComplete, LookAtDestination, PublishFirst,
          MoveOldAside, SaveFails, PublishOverOld, PublishOverOldFails, RollBack, RollBackFails,
          RemoveOld, SaverIsKilled, Published, PutInPlace, loadVars
  <2>3. movedAway' \in [Loaders -> BOOLEAN]
    BY <2>2 DEF LoadTypes
  <2> QED BY <1>1, <2>1, <2>3, SaverTypeStep, LoadTypesStay
<1>2. ASSUME UNCHANGED saveVars PROVE SaveTypes'
  BY <1>2 DEF saveVars, SaveTypes
<1>3. ASSUME NEW l \in Loaders, LoaderStep(l) PROVE SaveTypes' /\ LoadTypes'
  <2>1. UNCHANGED saveVars
    BY <1>3 DEF LoaderStep, LoadBegins, LoadRefused, Preflight, LookForFile,
          SkipFile, CopyFile, RestoreFile, LoadReturns, LoadFails
  <2> QED BY <1>2, <1>3, <2>1, LoaderTypeStep
<1>4. ASSUME NEW f \in RestoredFiles, UserMakesFile(f) PROVE SaveTypes' /\ LoadTypes'
  <2>1. /\ dest' \in [RestoredFiles -> {"none", "user", "restored"}] /\ userMade' \subseteq RestoredFiles
        /\ UNCHANGED <<saveVars, loaderPC, replace, nextFile, copied, loadedFrom, movedAway>>
    BY <1>4 DEF UserMakesFile, LoadTypes
  <2> QED BY <1>2, <2>1 DEF LoadTypes
<1>5. CASE SshOver \/ UNCHANGED sshVars
  <2>1. UNCHANGED saveVars /\ UNCHANGED loadVars
    BY <1>5 DEF SshOver, sshVars
  <2> QED BY <1>2, <2>1 DEF loadVars, LoadTypes
<1> QED BY <1>1, <1>3, <1>4, <1>5 DEF SshNext

-----------------------------------------------------------------------------
(***************************************************************************)
(* Why loads are honest.  A load begins with a snapshot at the final path. *)
(* Until a save --force moves it away nothing else can be put there, so    *)
(* the load finds every file it looks for and all it has copied is of      *)
(* that snapshot.  The main config is never skipped.                       *)
(***************************************************************************)
Loaded(l) == \E o \in Owners : \A f \in RestoredFiles : loadedFrom[l][f] = o

LoadsOne(l) ==
    /\ snapshot # NoSnapshot
    /\ loaderPC[l] = "copied" => copied[l] = snapshot.by
    /\ \A f \in RestoredFiles : f < nextFile[l] => loadedFrom[l][f] = snapshot.by

LoadInv ==
    /\ \A f \in userMade : dest[f] = "user"
    /\ \A l \in Loaders : loaderPC[l] \in Loading /\ ~movedAway[l] => LoadsOne(l)
    /\ \A l \in Loaders : loaderPC[l] \in Loading /\ nextFile[l] > 1 => loadedFrom[l][1] # NoSnapshot
    /\ \A l \in Loaders : loaderPC[l] = "look" => nextFile[l] > 1
    /\ \A l \in Loaders : loaderPC[l] = "ok" =>
         (movedAway[l] \/ Loaded(l)) /\ loadedFrom[l][1] # NoSnapshot

\* At first no load has begun.
LEMMA LoadsStart == SshInit => LoadInv
  BY DEF SshInit, LoadInv, Loading

\* A step of a save, as the loads see it: while a snapshot is at the final path
\* only a move away changes what is there.
LEMMA SavesMeetLoads ==
    ASSUME LoadInv, LoadTypes, UNCHANGED <<loaderPC, replace, nextFile, copied, loadedFrom, dest, userMade>>,
           \/ movedAway' = [l \in Loaders |-> movedAway[l] \/ loaderPC[l] \in Loading]
           \/ movedAway' = movedAway /\ (snapshot' = snapshot \/ snapshot = NoSnapshot)
    PROVE  LoadInv'
<1>1. \A l \in Loaders : Loaded(l) => Loaded(l)'
  BY DEF Loaded
<1>2. ASSUME NEW l \in Loaders, loaderPC[l] \in Loading, ~movedAway'[l] PROVE LoadsOne(l)'
  <2>1. movedAway' = movedAway /\ (snapshot' = snapshot \/ snapshot = NoSnapshot)
    BY <1>2
  <2>2. LoadsOne(l) /\ snapshot' = snapshot
    BY <1>2, <2>1 DEF LoadInv, LoadsOne
  <2> QED BY <2>2 DEF LoadsOne
<1>3. ASSUME NEW l \in Loaders, loaderPC[l] = "ok" PROVE movedAway'[l] \/ Loaded(l)'
  BY <1>1, <1>3 DEF LoadInv
<1> QED BY <1>2, <1>3 DEF LoadInv

\* A load that takes a step leaves the others where they are.
LEMMA OthersLoadOn ==
    ASSUME LoadInv, LoadTypes, NEW l \in Loaders, NEW old, NEW new, LoaderAt(l, old, new), UNCHANGED snapshot,
           \A k \in Loaders \ {l} : /\ nextFile'[k] = nextFile[k] /\ copied'[k] = copied[k]
                                    /\ loadedFrom'[k] = loadedFrom[k] /\ movedAway'[k] = movedAway[k],
           \A f \in userMade' : dest'[f] = "user",
           new \in Loading /\ ~movedAway'[l] => LoadsOne(l)',
           new \in Loading /\ nextFile'[l] > 1 => loadedFrom'[l][1] # NoSnapshot,
           new = "look" => nextFile'[l] > 1,
           new = "ok" => (movedAway'[l] \/ Loaded(l)') /\ loadedFrom'[l][1] # NoSnapshot
    PROVE  LoadInv'
<1>1. loaderPC'[l] = new /\ \A k \in Loaders \ {l} : loaderPC'[k] = loaderPC[k]
  BY DEF LoaderAt, LoadTypes
<1>2. \A k \in Loaders \ {l} : LoadsOne(k)' = LoadsOne(k) /\ Loaded(k)' = Loaded(k)
  BY <1>1 DEF LoadsOne, Loaded
<1>3. \A k \in Loaders : loaderPC'[k] \in Loading /\ ~movedAway'[k] => LoadsOne(k)'
  BY <1>1, <1>2 DEF LoadInv
<1>4. \A k \in Loaders : loaderPC'[k] \in Loading /\ nextFile'[k] > 1 => loadedFrom'[k][1] # NoSnapshot
  BY <1>1 DEF LoadInv
<1>5. \A k \in Loaders : loaderPC'[k] = "look" => nextFile'[k] > 1
  BY <1>1 DEF LoadInv
<1>6. \A k \in Loaders : loaderPC'[k] = "ok" =>
         (movedAway'[k] \/ Loaded(k)') /\ loadedFrom'[k][1] # NoSnapshot
  BY <1>1, <1>2 DEF LoadInv
<1> QED BY <1>3, <1>4, <1>5, <1>6 DEF LoadInv

\* Every step of a load keeps to one snapshot and to what it may replace.
LEMMA LoadStep == ASSUME LoadInv, LoadTypes, SaveTypes, NEW l \in Loaders, LoaderStep(l) PROVE LoadInv'
<1>0. nextFile[l] \in 1 .. FileCount + 1 /\ FileCount \in Nat \ {0}
  BY SnapshotAssumption DEF LoadTypes
<1>1. CASE LoadBegins(l)
  <2>1. /\ LoaderAt(l, "idle", "preflight") /\ nextFile'[l] = 1 /\ snapshot # NoSnapshot
        /\ \A k \in Loaders \ {l} : /\ nextFile'[k] = nextFile[k] /\ copied'[k] = copied[k]
                                    /\ loadedFrom'[k] = loadedFrom[k] /\ movedAway'[k] = movedAway[k]
        /\ UNCHANGED <<snapshot, dest, userMade>>
    BY <1>1 DEF LoadBegins, LoadTypes, saveVars
  <2>2. LoadsOne(l)'
    BY <2>1 DEF LoadsOne, RestoredFiles, LoaderAt, LoadTypes
  <2>3. \A f \in userMade' : dest'[f] = "user"
    BY <2>1 DEF LoadInv
  <2> QED BY <2>1, <2>2, <2>3, OthersLoadOn
<1>2. CASE LoadRefused(l)
  BY <1>2, OthersLoadOn DEF LoadRefused, saveVars, LoadInv, Loading
<1>3. CASE Preflight(l) \/ LookForFile(l)
  <2>1. PICK old \in {"preflight", "look"} : LoaderAt(l, old, "check")
    BY <1>3 DEF Preflight, LookForFile
  <2>2. UNCHANGED <<snapshot, nextFile, copied, loadedFrom, movedAway, dest, userMade>>
    BY <1>3 DEF Preflight, LookForFile, saveVars
  <2>3. ~movedAway[l] => LoadsOne(l)
    BY <2>1 DEF LoaderAt, LoadInv, Loading
  <2>4. ~movedAway'[l] => LoadsOne(l)'
    BY <2>1, <2>2, <2>3 DEF LoadsOne, LoaderAt, LoadTypes
  <2>5. nextFile[l] > 1 => loadedFrom[l][1] # NoSnapshot
    BY <2>1 DEF LoaderAt, LoadInv, Loading
  <2> QED BY <2>1, <2>2, <2>4, <2>5, OthersLoadOn DEF LoadInv
<1>4. CASE SkipFile(l)
  <2>1. /\ LoaderAt(l, "look", "look") /\ nextFile'[l] = nextFile[l] + 1
        /\ \A k \in Loaders \ {l} : nextFile'[k] = nextFile[k]
        /\ UNCHANGED <<snapshot, copied, loadedFrom, movedAway, dest, userMade>>
    BY <1>4 DEF SkipFile, LoadTypes, saveVars
  <2>2. movedAway[l] /\ nextFile[l] > 1 /\ loadedFrom[l][1] # NoSnapshot
    BY <1>4, <2>1 DEF SkipFile, LoaderAt, LoadInv, LoadsOne, Loading
  <2>3. nextFile'[l] > 1
    BY <1>0, <2>1, <2>2
  <2>4. \A f \in userMade' : dest'[f] = "user"
    BY <2>1 DEF LoadInv
  <2>5. movedAway'[l] /\ loadedFrom'[l][1] # NoSnapshot
    BY <2>1, <2>2
  <2> QED BY <2>1, <2>3, <2>4, <2>5, OthersLoadOn
<1>5. CASE CopyFile(l)
  <2>1. /\ LoaderAt(l, "check", "copied") /\ copied'[l] = snapshot.by
        /\ \A k \in Loaders \ {l} : copied'[k] = copied[k]
        /\ UNCHANGED <<snapshot, nextFile, loadedFrom, movedAway, dest, userMade>>
    BY <1>5 DEF CopyFile, LoadTypes, saveVars
  <2>2. /\ ~movedAway[l] => LoadsOne(l)
        /\ nextFile[l] > 1 => loadedFrom[l][1] # NoSnapshot
    BY <2>1 DEF LoaderAt, LoadInv, Loading
  <2>3. ~movedAway'[l] => LoadsOne(l)'
    BY <2>1, <2>2 DEF LoadsOne
  <2> QED BY <2>1, <2>2, <2>3, OthersLoadOn DEF LoadInv
<1>6. CASE RestoreFile(l)
  <2>1. PICK new \in {"look", "error"} : LoaderAt(l, "copied", new)
    BY <1>6 DEF RestoreFile
  <2>2. /\ dest' = [dest EXCEPT ![nextFile[l]] = "restored"]
        /\ loadedFrom' = [loadedFrom EXCEPT ![l][nextFile[l]] = copied[l]]
        /\ copied' = [copied EXCEPT ![l] = NoSnapshot]
        /\ nextFile' = [nextFile EXCEPT ![l] = nextFile[l] + 1]
        /\ UNCHANGED <<snapshot, movedAway>>
    BY <1>6 DEF RestoreFile, Restored, saveVars
  <2>3. loaderPC[l] = "copied" /\ nextFile[l] \in RestoredFiles /\ copied[l] \in Owners
    BY <2>1 DEF LoaderAt, LoadTypes
  <2>4. loadedFrom[l] \in [RestoredFiles -> Owners \union {NoSnapshot}]
    BY DEF LoadTypes
  <2>5. /\ loadedFrom'[l] = [loadedFrom[l] EXCEPT ![nextFile[l]] = copied[l]]
        /\ nextFile'[l] = nextFile[l] + 1
        /\ \A k \in Loaders \ {l} : /\ nextFile'[k] = nextFile[k] /\ copied'[k] = copied[k]
                                    /\ loadedFrom'[k] = loadedFrom[k] /\ movedAway'[k] = movedAway[k]
    BY <2>2 DEF LoadTypes
  <2>6. \A f \in userMade' : dest'[f] = "user"
    <3>1. \/ userMade' = userMade \ {nextFile[l]}
          \/ userMade' = userMade /\ dest[nextFile[l]] = "none"
      BY <1>6 DEF RestoreFile, Restored
    <3> QED BY <2>2, <3>1 DEF LoadInv, LoadTypes
  <2>7. ~movedAway[l] => LoadsOne(l)
    BY <2>3 DEF LoadInv, Loading
  <2>8. new \in Loading /\ ~movedAway'[l] => LoadsOne(l)'
    <3> SUFFICES ASSUME new \in Loading, ~movedAway'[l] PROVE LoadsOne(l)'
        OBVIOUS
    <3>1. LoadsOne(l) /\ loaderPC'[l] # "copied" /\ snapshot' = snapshot
      BY <2>1, <2>2, <2>7 DEF LoaderAt, LoadTypes, Loading
    <3>2. ASSUME NEW f \in RestoredFiles, f < nextFile'[l] PROVE loadedFrom'[l][f] = snapshot'.by
      BY <1>0, <2>3, <2>4, <2>5, <3>1, <3>2 DEF LoadsOne, RestoredFiles
    <3> QED BY <3>1, <3>2 DEF LoadsOne
  <2>9. nextFile'[l] > 1
    BY <1>0, <2>5, <2>3 DEF RestoredFiles
  <2>10. loadedFrom'[l][1] # NoSnapshot
    <3>1. copied[l] # NoSnapshot
      BY <2>3, SnapshotAssumption DEF Owners
    <3>2. CASE nextFile[l] = 1
      BY <2>3, <2>4, <2>5, <3>1, <3>2
    <3>3. CASE nextFile[l] > 1
      <4>1. loadedFrom[l][1] # NoSnapshot
        BY <2>3, <3>3 DEF LoadInv, Loading
      <4> QED BY <2>4, <2>5, <3>3, <4>1
    <3> QED BY <1>0, <3>2, <3>3
  <2> QED BY <2>1, <2>2, <2>5, <2>6, <2>8, <2>9, <2>10, OthersLoadOn
<1>7. CASE LoadReturns(l)
  <2>1. /\ LoaderAt(l, "look", "ok") /\ nextFile[l] > FileCount
        /\ UNCHANGED <<snapshot, copied, nextFile, loadedFrom, movedAway, dest, userMade>>
    BY <1>7 DEF LoadReturns, saveVars
  <2>2. nextFile[l] > 1 /\ loadedFrom[l][1] # NoSnapshot /\ (~movedAway[l] => LoadsOne(l))
    BY <2>1 DEF LoaderAt, LoadInv, Loading
  <2>3. snapshot # NoSnapshot => snapshot.by \in Owners
    BY DEF SaveTypes, Snapshots
  <2>4. movedAway'[l] \/ Loaded(l)'
    BY <1>0, <2>1, <2>2, <2>3 DEF LoadsOne, Loaded, RestoredFiles
  <2>5. \A f \in userMade' : dest'[f] = "user"
    BY <2>1 DEF LoadInv
  <2> QED BY <2>1, <2>2, <2>4, <2>5, OthersLoadOn DEF Loading
<1>8. CASE LoadFails(l)
  <2>1. PICK pc \in Loading : LoaderAt(l, pc, "error")
    BY <1>8 DEF LoadFails
  <2>2. /\ \A k \in Loaders \ {l} : copied'[k] = copied[k]
        /\ UNCHANGED <<snapshot, nextFile, loadedFrom, movedAway, dest, userMade>>
    BY <1>8 DEF LoadFails, LoadTypes, saveVars
  <2> QED BY <2>1, <2>2, OthersLoadOn DEF LoadInv, Loading
<1> QED BY <1>1, <1>2, <1>3, <1>4, <1>5, <1>6, <1>7, <1>8 DEF LoaderStep

\* Every step of the snapshots keeps the loads to what they may replace.
LEMMA LoadsStayHonest == LoadInv /\ LoadTypes /\ SaveTypes /\ [SshNext]_sshVars => LoadInv'
<1> SUFFICES ASSUME LoadInv, LoadTypes, SaveTypes, [SshNext]_sshVars PROVE LoadInv'
    OBVIOUS
<1>1. ASSUME NEW s \in Savers, SaverStep(s) PROVE LoadInv'
  <2>1. UNCHANGED <<loaderPC, replace, nextFile, copied, loadedFrom, dest, userMade>>
    BY <1>1 DEF SaverStep, SaveBegins, SaveRefused, StageIsComplete, LookAtDestination, PublishFirst,
          MoveOldAside, SaveFails, PublishOverOld, PublishOverOldFails, RollBack, RollBackFails,
          RemoveOld, SaverIsKilled, Published, PutInPlace, loadVars
  <2>2. \/ movedAway' = [l \in Loaders |-> movedAway[l] \/ loaderPC[l] \in Loading]
        \/ movedAway' = movedAway /\ (snapshot' = snapshot \/ snapshot = NoSnapshot)
    BY <1>1 DEF SaverStep, SaveBegins, SaveRefused, StageIsComplete, LookAtDestination, PublishFirst,
          MoveOldAside, SaveFails, PublishOverOld, PublishOverOldFails, RollBack, RollBackFails,
          RemoveOld, SaverIsKilled, Published, PutInPlace, loadVars
  <2> QED BY <2>1, <2>2, SavesMeetLoads
<1>2. ASSUME NEW l \in Loaders, LoaderStep(l) PROVE LoadInv'
  BY <1>2, LoadStep
<1>3. ASSUME NEW f \in RestoredFiles, UserMakesFile(f) PROVE LoadInv'
  <2>1. \A l \in Loaders : LoadsOne(l)' = LoadsOne(l) /\ Loaded(l)' = Loaded(l)
    BY <1>3 DEF UserMakesFile, LoadsOne, Loaded, saveVars
  <2>2. \A g \in userMade' : dest'[g] = "user"
    BY <1>3 DEF UserMakesFile, LoadInv, LoadTypes
  <2>3. UNCHANGED <<loaderPC, nextFile, loadedFrom, movedAway>>
    BY <1>3 DEF UserMakesFile
  <2> QED BY <2>1, <2>2, <2>3 DEF LoadInv
<1>4. CASE SshOver \/ UNCHANGED sshVars
  BY <1>4, SavesMeetLoads DEF SshOver, sshVars, saveVars, loadVars
<1> QED BY <1>1, <1>2, <1>3, <1>4 DEF SshNext

\* For any number of saves and loads at once, killed and failing anywhere: the
\* snapshot published last is never lost; no load replaces a file of the user
\* that it was not told to; and a load that reports success has restored all
\* of one snapshot unless a save --force moved it away meanwhile, in which case
\* only the main config is sure to be restored.
THEOREM SnapshotsStaySafe == Spec => []SnapshotsAreSafe
<1> DEFINE SshInv == SaveInv /\ SaveTypes /\ LoadTypes /\ LoadInv
<1>1. Init => SshInv
  BY SavesStart, SaveTypesStart, LoadTypesStart, LoadsStart DEF Init
<1>2. SshInv /\ [Next]_serviceVars => SshInv'
  <2>1. [Next]_serviceVars => [SshNext]_sshVars
    BY DEF Next, serviceVars
  <2> QED BY <2>1, SavesKeepNewest, SshTypeStep, LoadsStayHonest
<1>3. SshInv => SnapshotsAreSafe
  BY DEF SnapshotsAreSafe, LoadsAreHonest, SaveInv, LoadInv, Loaded
<1> HIDE DEF SshInv
<1> QED BY <1>1, <1>2, <1>3, PTL DEF Spec

-----------------------------------------------------------------------------
\* Every variable of every service keeps its type, and its bound where it has
\* one: one stored configuration, one error for each failed result, one order
\* of use for what is cached.
THEOREM ServicesTypeCorrect == Spec => []TypeOK
<1> DEFINE Parts == /\ ConfigTypeOK /\ ManagerTypeOK /\ MonitorTypeOK /\ FanInv /\ FanCounts
                    /\ PolicyTypeInv /\ SaveInv /\ SaveTypes /\ LoadTypes
<1>1. Init => Parts
  BY ConfigTypesStart, ManagerTypesStart, MonitorTypesStart, FanStarts, FanCountStarts, PolicyTypesStart,
     SavesStart, SaveTypesStart, LoadTypesStart DEF Init
<1>2. Parts /\ [Next]_serviceVars => Parts'
  <2> SUFFICES ASSUME Parts, [Next]_serviceVars PROVE Parts'
      OBVIOUS
  <2>1. /\ [ConfigNext]_configVars /\ [ManagerNext]_managerVars /\ [MonitorNext]_monitorVars
        /\ [FanNext]_fanVars /\ [PolicyNext]_policyVars /\ [SshNext]_sshVars
    BY DEF Next, serviceVars
  <2>2. ConfigTypeOK' /\ ManagerTypeOK' /\ MonitorTypeOK'
    BY <2>1, ConfigTypeStep, ManagerTypeStep, MonitorTypeStep
  <2>3. FanInv' /\ FanCounts'
    BY <2>1, FanStep, FanCountStep
  <2>4. PolicyTypeInv'
    BY <2>1, PolicyTypeStep
  <2>5. SaveInv' /\ SaveTypes' /\ LoadTypes'
    BY <2>1, SavesKeepNewest, SshTypeStep
  <2> QED BY <2>2, <2>3, <2>4, <2>5
<1>3. Parts /\ RegistryInv => TypeOK
  BY FanIsTyped, SshTypesAre DEF TypeOK, PolicyTypeInv, RegistryInv
<1> HIDE DEF Parts
<1> QED BY <1>1, <1>2, <1>3, RegistryKeeps, PTL DEF Spec
================================================================================
