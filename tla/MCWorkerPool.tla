----------------------------- MODULE MCWorkerPool -----------------------------
(* Two workers, three jobs, channels of one slot, two Stop calls, one of     *)
(* them through StopWithTimeout, and a pool that may be started twice.       *)
EXTENDS WorkerPool

CONSTANTS w1, w2, j1, j2, j3, s1, s2

MCWorkers == {w1, w2}
MCJobs == {j1, j2, j3}
MCStoppers == {s1, s2}
MCTimed == {s2}
=============================================================================
