----------------------------- MODULE MCScheduler -----------------------------
(* Instances of Scheduler for TLC. *)
EXTENDS Scheduler, TLC

CONSTANTS t1, t2, t3

\* Intervals shorter and longer than the runs of the others.
Cadence == t1 :> 2 @@ t2 :> 3 @@ t3 :> 5
Longest == t1 :> 2 @@ t2 :> 1 @@ t3 :> 2
=============================================================================
