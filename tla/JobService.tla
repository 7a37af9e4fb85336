------------------------------ MODULE JobService ------------------------------
(***************************************************************************)
(* What a worker pool of internal/workerpool promises to its callers,      *)
(* without channels, workers or locks: a job that is accepted is answered  *)
(* at most once, it is thrown away only once the pool is shutting down,    *)
(* and a pool that is closed accepts nothing.                              *)
(***************************************************************************)
CONSTANT Jobs

VARIABLES
    fate,   \* what became of each job
    phase   \* "open", "closing" (cancelled), "closed" (Stop returned)

vars == <<fate, phase>>

Becomes(j, f) == fate' = [fate EXCEPT ![j] = f] /\ UNCHANGED phase

Init ==
    /\ fate = [j \in Jobs |-> "new"]
    /\ phase = "open"

Accept(j) == phase # "closed" /\ fate[j] = "new" /\ Becomes(j, "accepted")

\* The caller is told: "not started", the context's error, or "queue is full".
Refuse(j) == fate[j] = "new" /\ \E f \in {"refused", "full"} : Becomes(j, f)

Answer(j) == fate[j] = "accepted" /\ Becomes(j, "received")

Drop(j) == phase # "open" /\ fate[j] = "accepted" /\ Becomes(j, "dropped")

ShutDown ==
    /\ \/ phase = "open"    /\ phase' = "closing"
       \/ phase = "closing" /\ phase' = "closed"
    /\ UNCHANGED fate

Next ==
    \/ \E j \in Jobs : Accept(j) \/ Refuse(j) \/ Answer(j) \/ Drop(j)
    \/ ShutDown

Spec == Init /\ [][Next]_vars
=============================================================================
