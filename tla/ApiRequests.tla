------------------------------- MODULE ApiRequests -------------------------------
(***************************************************************************)
(* makeRequest of the GitHub repository-configuration client and the rate  *)
(* limiter its callers share: wait for quota, send, learn the quota from   *)
(* the answer, back off and try again.  The server keeps the true count.   *)
(* Time is abstracted to "the limit's window is over" and "this sleep is   *)
(* over"; the clocks of the two sides agree.                               *)
(***************************************************************************)
EXTENDS Naturals, FiniteSets

CONSTANTS
    Callers,      \* goroutines that call the API through one client
    Quota,        \* requests the server admits in one window
    MaxApiRetries \* maxRetries in makeRequest

ASSUME ApiAssumption == IsFiniteSet(Callers) /\ Quota \in Nat \ {0} /\ MaxApiRetries \in Nat

Statuses == {"ok", "retryable", "refused", "error"}
\* counted: it carries the headers of the quota; current: of this window.
Responses == [status : Statuses, left : 0 .. Quota, retryAfter : BOOLEAN, counted : BOOLEAN, current : BOOLEAN]
NoAnswer == [status |-> "ok", left |-> 0, retryAfter |-> FALSE, counted |-> FALSE, current |-> FALSE]

VARIABLES
    left,        \* server: requests it still admits in this window
    remaining,   \* rl.remaining; what is zero or less reads as 0
    beforeReset, \* now is before rl.resetTime
    retryAfter,  \* rl.retryAfter is set
    apiPC,       \* where each caller is
    retries,     \* its retries
    answer,      \* the answer it has received
    informed     \* history: the limiter's count is known to be the server's

apiVars == <<left, remaining, beforeReset, retryAfter, apiPC, retries, answer, informed>>

\* The limiter begins with a full window; other programs may have used it up.
ApiInit ==
    /\ left = 0
    /\ remaining = Quota
    /\ beforeReset = TRUE
    /\ retryAfter = FALSE
    /\ apiPC = [c \in Callers |-> "idle"]
    /\ retries = [c \in Callers |-> 0]
    /\ answer = [c \in Callers |-> NoAnswer]
    /\ informed = FALSE

\* Who else is let through and has not handed in an answer.
Others(c) == {d \in Callers \ {c} : apiPC[d] \in {"woken", "inflight", "answered"}}

-----------------------------------------------------------------------------
(* RateLimiter *)

Call(c) ==
    /\ apiPC[c] = "idle"
    /\ apiPC' = [apiPC EXCEPT ![c] = "wait"]
    /\ retries' = [retries EXCEPT ![c] = 0]
    /\ UNCHANGED <<left, remaining, beforeReset, retryAfter, answer, informed>>

\* The first waiter takes the retry-after for itself.
TakeRetryAfter(c) ==
    /\ apiPC[c] = "wait"
    /\ retryAfter
    /\ retryAfter' = FALSE
    /\ apiPC' = [apiPC EXCEPT ![c] = "sleepRetry"]
    /\ UNCHANGED <<left, remaining, beforeReset, retries, answer, informed>>

WakeFromRetryAfter(c) ==
    /\ apiPC[c] = "sleepRetry"
    /\ apiPC' = [apiPC EXCEPT ![c] = "check"]
    /\ UNCHANGED <<left, remaining, beforeReset, retryAfter, retries, answer, informed>>

MustWait == remaining = 0 /\ beforeReset

AtCheck(c) == apiPC[c] = "check" \/ (apiPC[c] = "wait" /\ ~retryAfter)

SleepUntilReset(c) ==
    /\ AtCheck(c)
    /\ MustWait
    /\ apiPC' = [apiPC EXCEPT ![c] = "sleepReset"]
    /\ UNCHANGED <<left, remaining, beforeReset, retryAfter, retries, answer, informed>>

\* Mutation: what is let through is not counted.
PassUncounted(c) ==
    /\ (AtCheck(c) /\ ~MustWait) \/ apiPC[c] = "woken"
    /\ apiPC' = [apiPC EXCEPT ![c] = "inflight"]
    /\ informed' = (informed /\ (remaining > 0 \/ Others(c) = {}))
    /\ UNCHANGED <<left, remaining, beforeReset, retryAfter, retries, answer>>

\* Let through, and the request sent.  Who was woken does not look again.
Pass(c) ==
    /\ (AtCheck(c) /\ ~MustWait) \/ apiPC[c] = "woken"
    /\ remaining' = IF remaining = 0 THEN 0 ELSE remaining - 1
    /\ apiPC' = [apiPC EXCEPT ![c] = "inflight"]
    /\ informed' = (informed /\ (remaining > 0 \/ Others(c) = {}))
    /\ UNCHANGED <<left, beforeReset, retryAfter, retries, answer>>

\* Update, then the decision of makeRequest: again, or return.  An answer without
\* the headers of the quota, as proxies and gateways give, leaves the count alone.
Receive(c) ==
    /\ apiPC[c] = "answered"
    /\ IF answer[c].counted
       THEN /\ remaining' = answer[c].left
            /\ beforeReset' = answer[c].current
            /\ informed' = (answer[c].current /\ answer[c].left = left /\ Others(c) = {})
       ELSE /\ informed' = (informed /\ (remaining > 0 \/ beforeReset))
            /\ UNCHANGED <<remaining, beforeReset>>
    /\ retryAfter' = (retryAfter \/ answer[c].retryAfter)
    /\ apiPC' = [apiPC EXCEPT ![c] =
                   IF answer[c].status = "retryable" /\ retries[c] < MaxApiRetries
                     THEN "backoff" ELSE "idle"]
    /\ answer' = [answer EXCEPT ![c] = NoAnswer]
    /\ UNCHANGED <<left, retries>>

BackoffEnds(c) ==
    /\ apiPC[c] = "backoff"
    /\ apiPC' = [apiPC EXCEPT ![c] = "wait"]
    /\ retries' = [retries EXCEPT ![c] = @ + 1]
    /\ UNCHANGED <<left, remaining, beforeReset, retryAfter, answer, informed>>

\* ctx ends a sleep, and with it the call.
CancelSleep(c) ==
    /\ apiPC[c] \in {"sleepRetry", "sleepReset", "backoff"}
    /\ apiPC' = [apiPC EXCEPT ![c] = "idle"]
    /\ UNCHANGED <<left, remaining, beforeReset, retryAfter, retries, answer, informed>>

-----------------------------------------------------------------------------
(* The server and the network *)

Admitted == IF left = 0 THEN 0 ELSE left - 1

\* A request beyond the quota is refused: with 429, which is tried again, or
\* with 403 and nothing remaining, which is not.  An answer without the headers
\* of the quota may come from before the server, which has then not counted.
Serve(c) ==
    /\ apiPC[c] = "inflight"
    /\ \E status \in Statuses, wait, counted \in BOOLEAN :
         /\ status = "refused" => left = 0 /\ counted
         /\ left = 0 => status \in {"refused", "retryable"} \/ (status = "error" /\ ~counted)
         /\ wait => status = "retryable"
         /\ left' \in IF counted THEN {Admitted} ELSE {left, Admitted}
         /\ answer' = [answer EXCEPT ![c] =
                         [status |-> status, left |-> IF counted THEN left' ELSE 0, retryAfter |-> wait,
                          counted |-> counted, current |-> TRUE]]
    /\ apiPC' = [apiPC EXCEPT ![c] = "answered"]
    /\ UNCHANGED <<remaining, beforeReset, retryAfter, retries, informed>>

\* The request or its answer is lost: an error, returned without a retry.
Lose(c) ==
    /\ apiPC[c] = "inflight"
    /\ left' \in {left, Admitted}
    /\ apiPC' = [apiPC EXCEPT ![c] = "idle"]
    /\ informed' = FALSE
    /\ UNCHANGED <<remaining, beforeReset, retryAfter, retries, answer>>

\* A new window: the server counts anew, and who slept until now wakes.
Tick ==
    /\ left < Quota \/ beforeReset
    /\ left' = Quota
    /\ beforeReset' = FALSE
    /\ apiPC' = [c \in Callers |-> IF apiPC[c] = "sleepReset" THEN "woken" ELSE apiPC[c]]
    /\ answer' = [c \in Callers |-> [answer[c] EXCEPT !.current = FALSE]]
    /\ UNCHANGED <<remaining, retryAfter, retries, informed>>

CallerStep(c) ==
    \/ TakeRetryAfter(c)
    \/ WakeFromRetryAfter(c)
    \/ SleepUntilReset(c)
    \/ Pass(c)
    \/ Receive(c)
    \/ BackoffEnds(c)
    \/ Serve(c)
    \/ Lose(c)

ApiNext ==
    \/ \E c \in Callers : Call(c) \/ CallerStep(c) \/ CancelSleep(c)
    \/ Tick

\* The window that somebody sleeps through comes to its end.
SleepersWake == (\E c \in Callers : apiPC[c] = "sleepReset") /\ Tick

\* Sleeps end, and the network answers or fails; nobody has to cancel a call.
ApiFairness ==
    /\ \A c \in Callers : WF_apiVars(CallerStep(c))
    /\ WF_apiVars(SleepersWake)

ApiTypeOK ==
    /\ left \in 0 .. Quota
    /\ remaining \in 0 .. Quota
    /\ beforeReset \in BOOLEAN
    /\ retryAfter \in BOOLEAN
    /\ apiPC \in [Callers -> {"idle", "wait", "sleepRetry", "check", "sleepReset", "woken",
                              "inflight", "answered", "backoff"}]
    /\ retries \in [Callers -> 0 .. MaxApiRetries]
    /\ answer \in [Callers -> Responses]
    /\ informed \in BOOLEAN

(***************************************************************************)
(* A request goes over the quota only if the limiter could not know the    *)
(* server's count: an answer overtook another or was lost, several were    *)
(* let through on a reset before the first answer after it, or answers     *)
(* without the count used up what it believed in after a reset.  As long   *)
(* as none of this has happened since the last answer that told it, no     *)
(* request is refused, however the callers, the windows and the retries    *)
(* interleave.                                                             *)
(***************************************************************************)
InformedIsNotRefused ==
    \A c \in Callers : informed /\ apiPC[c] = "inflight" => left > 0

\* Every call returns: no sleeper is forgotten, retries are bounded.
CallsReturn == \A c \in Callers : apiPC[c] = "wait" ~> apiPC[c] = "idle"
================================================================================
