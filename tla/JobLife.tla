------------------------------- MODULE JobLife -------------------------------
(***************************************************************************)
(* What the control plane promises of a job, whatever is lost or late        *)
(* between it and its agents: the job is given to one agent, done at most    *)
(* once, ends once, and is on record as completed only if it was done.       *)
(***************************************************************************)
CONSTANTS Jobs, Agents, Nobody

VARIABLES
    life,       \* where a job is
    owner,      \* whom it was given to
    begun,      \* the jobs an agent has begun
    worked      \* the jobs an agent has done

vars == <<life, owner, begun, worked>>

Ends == {"completed", "failed", "cancelled"}

Init ==
    /\ life = [j \in Jobs |-> "none"]
    /\ owner = [j \in Jobs |-> Nobody]
    /\ begun = {} /\ worked = {}

Ask(j) ==
    /\ life[j] = "none"
    /\ life' = [life EXCEPT ![j] = "queued"]
    /\ UNCHANGED <<owner, begun, worked>>

Give(j, a) ==
    /\ life[j] = "queued" /\ owner[j] = Nobody
    /\ life' = [life EXCEPT ![j] = "running"]
    /\ owner' = [owner EXCEPT ![j] = a]
    /\ UNCHANGED <<begun, worked>>

Begin(j) ==
    /\ owner[j] # Nobody /\ j \notin begun
    /\ begun' = begun \cup {j}
    /\ UNCHANGED <<life, owner, worked>>

Work(j) ==
    /\ j \in begun /\ j \notin worked
    /\ worked' = worked \cup {j}
    /\ UNCHANGED <<life, owner, begun>>

\* Jobs that are queued or running end, several in a step when the sweeper
\* gives them up.
End(some) ==
    /\ some # {}
    /\ life' \in [Jobs -> Ends \cup {"none", "queued", "running", "gone"}]
    /\ \A j \in some :
         /\ life[j] \in {"queued", "running"} /\ life'[j] \in Ends
         /\ life'[j] = "completed" => j \in worked
    /\ \A j \in Jobs \ some : life'[j] = life[j]
    /\ UNCHANGED <<owner, begun, worked>>

\* The record of a job that ended is dropped.
Drop(j) ==
    /\ life[j] \in Ends
    /\ life' = [life EXCEPT ![j] = "gone"]
    /\ UNCHANGED <<owner, begun, worked>>

Next ==
    \/ \E j \in Jobs : Ask(j) \/ Begin(j) \/ Work(j) \/ Drop(j)
    \/ \E j \in Jobs, a \in Agents : Give(j, a)
    \/ \E some \in SUBSET Jobs : End(some)

Spec == Init /\ [][Next]_vars
=============================================================================
