------------------------------ MODULE PolicyManager ------------------------------
(***************************************************************************)
(* DependabotPolicyManager of pkg/github, for one policy: it is created,   *)
(* updated and deleted under policyMutex, and repositories are evaluated   *)
(* against it by goroutines that keep their results in a cache with a lock *)
(* of its own.  A key of the cache is the repository with its organization *)
(* (and the policy); one repository of each organization is enough.        *)
(*                                                                         *)
(* Bulk operations only ever say of every repository that applying is not  *)
(* implemented; they are left out.                                         *)
(***************************************************************************)
EXTENDS Naturals

CONSTANTS
    Orgs,        \* organizations
    Evaluators,  \* goroutines that call EvaluateRepositoryCompliance
    MaxPolicies, \* bound: policies stored, by create and update together
    NoOrg,       \* no organization
    NoPolicy,    \* nil
    NoResult     \* nothing cached

ASSUME PolicyAssumption ==
    /\ MaxPolicies \in Nat
    /\ NoOrg \notin Orgs

\* What CreatePolicy and UpdatePolicy store is an object of its own; version
\* numbers begin again with every create.
Policies == [made : 1 .. MaxPolicies, org : Orgs]
\* A result by the policy it was made from, good until NextEvaluation.
Results == [made : 1 .. MaxPolicies, good : BOOLEAN, late : BOOLEAN]
Waiting == [pc |-> "idle", org |-> NoOrg, made |-> 0]

ASSUME NoneAssumption == NoPolicy \notin Policies /\ NoResult \notin Results

VARIABLES
    policy,       \* pm.policies[id]
    policiesMade, \* policies stored so far
    policyResults, \* pm.cache.policyResults, by organization
    evaluating,   \* where each evaluation is, of what, and the policy it read
    dropped,      \* history: results of each organization that are older were dropped
    belated,      \* history: evaluations that began before that and may be stored later
    fatal         \* the program has crashed

policyVars == <<policy, policiesMade, policyResults, evaluating, dropped, belated, fatal>>

PolicyInit ==
    /\ policy = NoPolicy
    /\ policiesMade = 0
    /\ policyResults = [o \in Orgs |-> NoResult]
    /\ evaluating = [e \in Evaluators |-> Waiting]
    /\ dropped = [o \in Orgs |-> 0]
    /\ belated = {}
    /\ fatal = FALSE

--------------------------------------------------------------------------------
(***************************************************************************)
(* The policy.                                                             *)
(***************************************************************************)
Stored(org) ==
    /\ policiesMade < MaxPolicies
    /\ policiesMade' = policiesMade + 1
    /\ policy' = [made |-> policiesMade + 1, org |-> org]

\* A policy of that name may be there; what was made from it stays cached.
CreatePolicy(org) ==
    /\ ~fatal
    /\ Stored(org)
    /\ UNCHANGED <<policyResults, evaluating, dropped, belated, fatal>>

\* Mutation: an update drops nothing.
InvalidateAfterDeletion(org, older) ==
    /\ \A e \in Evaluators : evaluating[e].pc # "lookup"
    /\ policyResults' = IF policy' # NoPolicy THEN policyResults
                        ELSE [policyResults EXCEPT ![org] = NoResult]
    /\ dropped' = [dropped EXCEPT ![org] = older]
    /\ belated' = belated \union
                    {e \in Evaluators : evaluating[e].pc = "store" /\ evaluating[e].org = org}

\* invalidateCacheForOrganization, which needs the write lock of the cache.
InvalidateResults(org, older) ==
    /\ \A e \in Evaluators : evaluating[e].pc # "lookup"
    /\ policyResults' = [policyResults EXCEPT ![org] = NoResult]
    /\ dropped' = [dropped EXCEPT ![org] = older]
    /\ belated' = belated \union
                    {e \in Evaluators : evaluating[e].pc = "store" /\ evaluating[e].org = org}

\* The results dropped are those of the organization the policy has now.
UpdatePolicy(org) ==
    /\ ~fatal
    /\ policy # NoPolicy
    /\ Stored(org)
    /\ InvalidateResults(org, policiesMade + 1)
    /\ UNCHANGED <<evaluating, fatal>>

DeletePolicy ==
    /\ ~fatal
    /\ policy # NoPolicy
    /\ policy' = NoPolicy
    /\ InvalidateResults(policy.org, policiesMade + 1)
    /\ UNCHANGED <<policiesMade, evaluating, fatal>>
--------------------------------------------------------------------------------
(***************************************************************************)
(* EvaluateRepositoryCompliance.                                           *)
(***************************************************************************)
EvaluationGoes(e, pc) == evaluating' = [evaluating EXCEPT ![e].pc = pc]
EvaluationReturns(e) == evaluating' = [evaluating EXCEPT ![e] = Waiting]

\* getCachedResult takes the read lock of the cache ...
BeginEvaluation(e, org) ==
    /\ ~fatal
    /\ evaluating[e] = Waiting
    /\ evaluating' = [evaluating EXCEPT ![e] = [pc |-> "lookup", org |-> org, made |-> 0]]
    /\ UNCHANGED <<policy, policiesMade, policyResults, dropped, belated, fatal>>

\* ... and under it removes a result that is no longer good: two goroutines
\* may be in the map at once, which the runtime may notice, and ends the program.
LookUpResult(e) ==
    LET org == evaluating[e].org
        result == policyResults[org]
        expired == result # NoResult /\ ~result.good
    IN  /\ ~fatal
        /\ evaluating[e].pc = "lookup"
        /\ IF result # NoResult /\ result.good THEN EvaluationReturns(e) ELSE EvaluationGoes(e, "check")
        /\ policyResults' = IF expired THEN [policyResults EXCEPT ![org] = NoResult] ELSE policyResults
        /\ \/ UNCHANGED fatal
           \/ /\ expired
              /\ \E d \in Evaluators \ {e} : evaluating[d].pc = "lookup"
              /\ fatal' = TRUE
        /\ UNCHANGED <<policy, policiesMade, dropped, belated>>

CheckPolicy(e) ==
    /\ ~fatal
    /\ evaluating[e].pc = "check"
    /\ IF policy = NoPolicy THEN EvaluationReturns(e) ELSE EvaluationGoes(e, "fetch")
    /\ UNCHANGED <<policy, policiesMade, policyResults, dropped, belated, fatal>>

\* Configuration and status of the repository, two requests.
FetchStatus(e) ==
    /\ ~fatal
    /\ evaluating[e].pc = "fetch"
    /\ EvaluationGoes(e, "evaluate") \/ EvaluationReturns(e)
    /\ UNCHANGED <<policy, policiesMade, policyResults, dropped, belated, fatal>>

\* The policy is read again, and dereferenced whether it was found or not.
EvaluatePolicy(e) ==
    /\ ~fatal
    /\ evaluating[e].pc = "evaluate"
    /\ IF policy = NoPolicy
         THEN fatal' = TRUE /\ UNCHANGED evaluating
         ELSE /\ evaluating' = [evaluating EXCEPT ![e].pc = "store", ![e].made = policy.made]
              /\ UNCHANGED fatal
    /\ belated' = belated \ {e}
    /\ UNCHANGED <<policy, policiesMade, policyResults, dropped>>

CacheResult(e) ==
    LET result == [made |-> evaluating[e].made, good |-> TRUE, late |-> e \in belated]
    IN  /\ ~fatal
        /\ evaluating[e].pc = "store"
        /\ \A d \in Evaluators : evaluating[d].pc # "lookup"
        /\ policyResults' = [policyResults EXCEPT ![evaluating[e].org] = result]
        /\ EvaluationReturns(e)
        /\ belated' = belated \ {e}
        /\ UNCHANGED <<policy, policiesMade, dropped, fatal>>

\* A day has passed.
ResultExpires(org) ==
    /\ ~fatal
    /\ policyResults[org] # NoResult
    /\ policyResults' = [policyResults EXCEPT ![org].good = FALSE]
    /\ UNCHANGED <<policy, policiesMade, evaluating, dropped, belated, fatal>>

--------------------------------------------------------------------------------
EvaluationStep(e) ==
    \/ LookUpResult(e)
    \/ CheckPolicy(e)
    \/ FetchStatus(e)
    \/ EvaluatePolicy(e)
    \/ CacheResult(e)

PolicyNext ==
    \/ \E o \in Orgs :
         \/ CreatePolicy(o)
         \/ UpdatePolicy(o)
         \/ ResultExpires(o)
         \/ \E e \in Evaluators : BeginEvaluation(e, o)
    \/ DeletePolicy
    \/ \E e \in Evaluators : EvaluationStep(e)

PolicyTypeOK ==
    /\ policy \in Policies \union {NoPolicy}
    /\ policiesMade \in 0 .. MaxPolicies
    /\ policyResults \in [Orgs -> Results \union {NoResult}]
    /\ evaluating \in [Evaluators -> [pc : {"idle", "lookup", "check", "fetch", "evaluate", "store"},
                                      org : Orgs \union {NoOrg}, made : 0 .. MaxPolicies]]
    /\ dropped \in [Orgs -> 0 .. MaxPolicies + 1]
    /\ belated \subseteq Evaluators
    /\ fatal \in BOOLEAN

(***************************************************************************)
(* After an update or a deletion, no result made from an older policy is   *)
(* left in the cache for the organization the policy is then of, unless    *)
(* the evaluation was only to be stored at the time.  (Results of other    *)
(* organizations stay, and so do all of them when the policy is created    *)
(* once more.)                                                             *)
(***************************************************************************)
DroppedResultsStayAway ==
    \A o \in Orgs :
      policyResults[o] # NoResult => policyResults[o].late \/ policyResults[o].made >= dropped[o]
================================================================================
