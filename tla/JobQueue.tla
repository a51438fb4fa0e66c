------------------------------ MODULE JobQueue ------------------------------
(***************************************************************************)
(* The control plane's job registry (server/jobs.go, jobs_pg.go; the memory  *)
(* backend does under one lock what the PostgreSQL backend does in one       *)
(* statement or transaction), its HTTP routes (server/routes.go), and the    *)
(* agents that claim, run and report jobs (agent/controlplane.go).           *)
(*                                                                          *)
(* Any number of control planes serve one jobs table.  An HTTP request may   *)
(* be lost, or its caller may time out: then it is still carried out, at any *)
(* later time, and nobody hears the answer.  A job is a number, jobs are     *)
(* created in that order.  Of the clocks there is one bit per job: the       *)
(* claim deadline has passed since the row was last touched.                 *)
(***************************************************************************)
EXTENDS Integers, FiniteSets, FiniteSetsExt

CONSTANTS
    Jobs,           \* jobs, in the order of created_at
    Agents,
    ControlPlanes,
    Serves,         \* Serves[a]: the jobs of the deployments and kinds of agent a
    Cap,            \* ClaimOptions.MaxConcurrent, 0 = no cap
    MaxAttempts,    \* completeMaxAttempts
    Hangs,          \* jobs whose executor neither reports nor returns until it is cancelled
    MaxFaults,      \* bound on lost requests, timeouts, crashes and rollbacks
    Nobody, NoJob

ASSUME JobsAssumption ==
    /\ Jobs \subseteq Nat /\ IsFiniteSet(Jobs)
    /\ Hangs \subseteq Jobs
    /\ Serves \in [Agents -> SUBSET Jobs]
    /\ Cap \in Nat /\ MaxAttempts \in Nat \ {0} /\ MaxFaults \in Nat
    /\ Nobody \notin Agents /\ NoJob \notin Jobs

VARIABLES
    \* the jobs table
    state,      \* state[j], "gone" once it is pruned
    owner,      \* assigned_to
    overdue,    \* running jobs not touched for longer than the claim deadline
    \* claims in progress on a control plane
    tx,         \* tx[p].agent waits, or gave up (deaf), tx[p].job is locked
    \* requests on their way, and answers
    requests, answer,
    \* the agents
    run,        \* run[a]: what agent a is doing (pc), with which job, how the execution
                \* ended (ok), that jobCtx was cancelled with errJobNoLongerOurs
                \* (revoked), attempts of postCompleteWithRetry (tries)
    \* for the properties
    begun, worked, acked, faults

table == <<state, owner, overdue>>
network == <<tx, requests, answer>>
history == <<begun, worked, acked>>
vars == <<table, network, run, history, faults>>

Terminal == {"completed", "failed", "cancelled"}
States == {"none", "queued", "running", "gone"} \cup Terminal

Kinds == {"claim", "progress", "complete"}
Requests == [kind : Kinds, agent : Agents, job : Jobs \cup {NoJob}, ok : BOOLEAN, heard : BOOLEAN]

Runs == [pc : {"idle", "claim", "exec", "report", "down"}, job : Jobs \cup {NoJob},
         ok : BOOLEAN, revoked : BOOLEAN, tries : 0 .. MaxAttempts]

Idle == [agent |-> Nobody, job |-> NoJob, heard |-> FALSE]

\* What a caller may be told: nothing yet, a job, or how its request ended.
Answers == [what : {"none", "job", "error", "ok", "conflict", "notfound"}, job : Jobs \cup {NoJob}]

Answer(what) == [what |-> what, job |-> NoJob]
Silent == Answer("none")

Running == {j \in Jobs : state[j] = "running"}
Locked == {tx[p].job : p \in ControlPlanes} \ {NoJob}

\* Agent a has a request whose answer it awaits.
Waiting(a) ==
    \/ \E r \in requests : r.agent = a /\ r.heard
    \/ \E p \in ControlPlanes : tx[p].agent = a /\ tx[p].heard
    \/ answer[a] # Silent

\* runOne has not begun, and has no variables.
Free == [pc |-> "idle", job |-> NoJob, ok |-> FALSE, revoked |-> FALSE, tries |-> 0]

Init ==
    /\ state = [j \in Jobs |-> "none"]
    /\ owner = [j \in Jobs |-> Nobody]
    /\ overdue = {}
    /\ tx = [p \in ControlPlanes |-> Idle]
    /\ requests = {}
    /\ answer = [a \in Agents |-> Silent]
    /\ run = [a \in Agents |-> Free]
    /\ begun = {} /\ worked = {} /\ acked = {}
    /\ faults = 0

Fault == faults < MaxFaults /\ faults' = faults + 1
NoFault == UNCHANGED faults

\* The answer reaches whoever still listens.
Tell(a, heard, what) == answer' = IF heard THEN [answer EXCEPT ![a] = what] ELSE answer

-----------------------------------------------------------------------------
(* The registry.                                                             *)

\* Enqueue: one more job, queued.
Enqueue(j) ==
    /\ state[j] = "none"
    /\ \A i \in Jobs : i < j => state[i] # "none"
    /\ state' = [state EXCEPT ![j] = "queued"]
    /\ NoFault
    /\ UNCHANGED <<owner, overdue, network, run, history>>

\* Mutant: the cap is counted without the advisory lock.
NoClaimLock == TRUE

\* pg_advisory_xact_lock: capped claims are one at a time.
HaveClaimLock == Cap = 0 \/ \A p \in ControlPlanes : tx[p] = Idle

\* A control plane takes up a claim, in a transaction of its own.
BeginClaim(p, r) ==
    /\ tx[p] = Idle
    /\ r \in requests /\ r.kind = "claim"
    /\ HaveClaimLock
    /\ tx' = [tx EXCEPT ![p] = [agent |-> r.agent, job |-> NoJob, heard |-> r.heard]]
    /\ requests' = requests \ {r}
    /\ NoFault
    /\ UNCHANGED <<table, answer, run, history>>

\* Mutant: a job that failed or was cancelled keeps its place.
StartedNotCompleted == {j \in Jobs : owner[j] # Nobody /\ state[j] \notin {"completed", "gone"}}

\* The jobs that count against the cap.
Counted == Running

\* What claimRow's inner SELECT ranges over: queued, served by the agent, not
\* locked by another claim, and none at all when the cap is reached.
Claimable(a) ==
    {j \in Serves[a] : /\ state[j] = "queued"
                       /\ j \notin Locked
                       /\ Cap = 0 \/ Cardinality(Counted) < Cap}

\* FOR UPDATE: the oldest of them is locked.
ClaimRow(p) ==
    /\ tx[p].agent # Nobody /\ tx[p].job = NoJob
    /\ Claimable(tx[p].agent) # {}
    /\ tx' = [tx EXCEPT ![p].job = Min(Claimable(tx[p].agent))]
    /\ NoFault
    /\ UNCHANGED <<table, requests, answer, run, history>>

\* ErrNoJobs: 404 notfound.no_jobs.
NoRow(p) ==
    /\ tx[p].agent # Nobody /\ tx[p].job = NoJob
    /\ Claimable(tx[p].agent) = {}
    /\ tx' = [tx EXCEPT ![p] = Idle]
    /\ Tell(tx[p].agent, tx[p].heard, Answer("error"))
    /\ NoFault
    /\ UNCHANGED <<table, requests, run, history>>

\* COMMIT: the others see the job running, and the agent is told of it.
CommitClaim(p) ==
    /\ tx[p].job # NoJob
    /\ state' = [state EXCEPT ![tx[p].job] = "running"]
    /\ owner' = [owner EXCEPT ![tx[p].job] = tx[p].agent]
    /\ overdue' = overdue \ {tx[p].job}
    /\ tx' = [tx EXCEPT ![p] = Idle]
    /\ Tell(tx[p].agent, tx[p].heard, [what |-> "job", job |-> tx[p].job])
    /\ NoFault
    /\ UNCHANGED <<requests, run, history>>

\* The transaction fails, or its control plane dies: nothing has changed.
AbortClaim(p) ==
    /\ tx[p] # Idle
    /\ Fault
    /\ tx' = [tx EXCEPT ![p] = Idle]
    /\ Tell(tx[p].agent, tx[p].heard, Answer("error"))
    /\ UNCHANGED <<table, requests, run, history>>

\* AppendProgress and its route: 202, 409 conflict.job_state, or 404.  The
\* job's clock starts again.
AppendProgress(r) ==
    /\ r \in requests /\ r.kind = "progress"
    /\ requests' = requests \ {r}
    /\ LET running == state[r.job] = "running" IN
       /\ overdue' = IF running THEN overdue \ {r.job} ELSE overdue
       /\ Tell(r.agent, r.heard, Answer(IF running THEN "ok"
              ELSE IF state[r.job] = "gone" THEN "notfound" ELSE "conflict"))
    /\ NoFault
    /\ UNCHANGED <<state, owner, tx, run, history>>

\* The end that a report asks for.
Recorded(r) == IF r.ok THEN "completed" ELSE "failed"

\* Mutant: a late success is acknowledged.
UnfencedVerdict(r) == IF state[r.job] = "gone" THEN "notfound" ELSE "ok"

\* What a report finds: the row after the UPDATE decides the answer.
Verdict(r) ==
    CASE state[r.job] = "gone" -> "notfound"
      [] r.ok /\ state[r.job] \in {"failed", "cancelled"} -> "conflict"
      [] OTHER -> "ok"

\* Complete and its route: an ended job keeps its end; a success that comes
\* too late is refused, 409 conflict.claim_lost.
Complete(r) ==
    /\ r \in requests /\ r.kind = "complete"
    /\ r.job \notin Locked
    /\ requests' = requests \ {r}
    /\ IF state[r.job] \in Terminal \cup {"gone"}
       THEN UNCHANGED <<state, overdue>>
       ELSE /\ state' = [state EXCEPT ![r.job] = Recorded(r)]
            /\ overdue' = overdue \ {r.job}
    /\ Tell(r.agent, r.heard, Answer(Verdict(r)))
    /\ NoFault
    /\ UNCHANGED <<owner, tx, run, history>>

\* Cancel, by an operator; waits for the row lock of a claim.
Cancel(j) ==
    /\ state[j] \in {"queued", "running"}
    /\ j \notin Locked
    /\ state' = [state EXCEPT ![j] = "cancelled"]
    /\ overdue' = overdue \ {j}
    /\ NoFault
    /\ UNCHANGED <<owner, network, run, history>>

\* The claim deadline passes without a report.
Silence(j) ==
    /\ j \in Running \ overdue
    /\ overdue' = overdue \cup {j}
    /\ NoFault
    /\ UNCHANGED <<state, owner, network, run, history>>

\* Mutant: an abandoned job is queued again.
Requeued == "queued"

\* What the sweeper makes of a job.
Abandoned == "failed"

\* SweepAbandoned: one statement gives up every overdue job.
SweepAbandoned ==
    /\ overdue # {}
    /\ state' = [j \in Jobs |-> IF j \in overdue THEN Abandoned ELSE state[j]]
    /\ overdue' = {}
    /\ NoFault
    /\ UNCHANGED <<owner, network, run, history>>

\* PruneTerminal: the retention of an ended job has passed.
PruneTerminal(j) ==
    /\ state[j] \in Terminal
    /\ state' = [state EXCEPT ![j] = "gone"]
    /\ NoFault
    /\ UNCHANGED <<owner, overdue, network, run, history>>

-----------------------------------------------------------------------------
(* The agents.                                                               *)

Become(a, what) == run' = [run EXCEPT ![a] = what]

Send(kind, a, j, good) ==
    requests' = requests \cup {[kind |-> kind, agent |-> a, job |-> j, ok |-> good, heard |-> TRUE]}

Hear(a) == answer' = [answer EXCEPT ![a] = Silent]

\* The poll timer fires and no job is running: claim.
Poll(a) ==
    /\ run[a].pc = "idle"
    /\ Send("claim", a, NoJob, FALSE)
    /\ Become(a, [Free EXCEPT !.pc = "claim"])
    /\ NoFault
    /\ UNCHANGED <<table, tx, answer, history>>

\* The claim is answered: runOne begins, or the poll timer is set again.
Claimed(a) ==
    /\ run[a].pc = "claim" /\ answer[a] # Silent
    /\ Hear(a)
    /\ IF answer[a].what = "job"
       THEN /\ Become(a, [Free EXCEPT !.pc = "exec", !.job = answer[a].job])
            /\ begun' = begun \cup {answer[a].job}
       ELSE /\ Become(a, Free)
            /\ UNCHANGED begun
    /\ NoFault
    /\ UNCHANGED <<table, tx, requests, worked, acked>>

\* The executor reports progress, and waits for the answer.
Report(a) ==
    /\ run[a].pc = "exec" /\ ~run[a].revoked /\ ~Waiting(a)
    /\ run[a].job \notin Hangs
    /\ Send("progress", a, run[a].job, FALSE)
    /\ NoFault
    /\ UNCHANGED <<table, tx, answer, run, history>>

\* 409 conflict.job_state cancels jobCtx; any other answer changes nothing.
Reported(a) ==
    /\ run[a].pc = "exec" /\ answer[a] # Silent
    /\ Hear(a)
    /\ Become(a, [run[a] EXCEPT !.revoked = @ \/ answer[a].what = "conflict"])
    /\ NoFault
    /\ UNCHANGED <<table, tx, requests, history>>

\* Mutant: only a cancellation is noticed.
OnlyIfCancelled(a) == state[run[a].job] = "cancelled"

\* What watchJobState takes for a job that is no longer this agent's.
NoLongerOurs(a) == state[run[a].job] # "running" \/ owner[run[a].job] # a

\* watchJobState: a GET that is answered; one that is not is no step.
Watch(a) ==
    /\ run[a].pc = "exec" /\ ~run[a].revoked
    /\ NoLongerOurs(a)
    /\ Become(a, [run[a] EXCEPT !.revoked = TRUE])
    /\ NoFault
    /\ UNCHANGED <<table, network, history>>

\* handleJobGet answers 404 whenever it cannot read the job: watchJobState
\* takes a job for gone that is not.
WatchMisled(a) ==
    /\ run[a].pc = "exec" /\ ~run[a].revoked
    /\ ~NoLongerOurs(a)
    /\ Fault
    /\ Become(a, [run[a] EXCEPT !.revoked = TRUE])
    /\ UNCHANGED <<table, network, history>>

\* The agent stops listening for its answer.
Deafen(a) ==
    /\ requests' = {[r EXCEPT !.heard = @ /\ r.agent # a] : r \in requests}
    /\ tx' = [p \in ControlPlanes |-> [tx[p] EXCEPT !.heard = @ /\ tx[p].agent # a]]
    /\ Hear(a)

\* Execute returns: by itself, between two reports, or because jobCtx is
\* cancelled, which also ends a report under way.  A job that is no longer
\* ours is not reported.
Executed(a, good) ==
    /\ run[a].pc = "exec"
    /\ ~run[a].revoked => run[a].job \notin Hangs /\ ~Waiting(a)
    /\ Deafen(a)
    /\ worked' = IF good THEN worked \cup {run[a].job} ELSE worked
    /\ Become(a, IF run[a].revoked THEN Free ELSE [run[a] EXCEPT !.pc = "report", !.ok = good])
    /\ NoFault
    /\ UNCHANGED <<table, begun, acked>>

\* postCompleteWithRetry: one attempt.
SendComplete(a) ==
    /\ run[a].pc = "report" /\ ~Waiting(a)
    /\ Send("complete", a, run[a].job, run[a].ok)
    /\ Become(a, [run[a] EXCEPT !.tries = @ + 1])
    /\ NoFault
    /\ UNCHANGED <<table, tx, answer, history>>

\* An attempt that did not bring 200: another one follows, or that was the last.
Retried(a) == IF run[a].tries < MaxAttempts THEN run[a] ELSE Free

Completed(a) ==
    /\ run[a].pc = "report" /\ answer[a] # Silent
    /\ Hear(a)
    /\ Become(a, IF answer[a].what = "ok" THEN Free ELSE Retried(a))
    /\ acked' = IF answer[a].what = "ok" /\ run[a].ok THEN acked \cup {run[a].job} ELSE acked
    /\ NoFault
    /\ UNCHANGED <<table, tx, requests, begun, worked>>

-----------------------------------------------------------------------------
(* What goes wrong.                                                          *)

\* A request, or the connection it would be answered on, times out.
TimeOut(a) ==
    /\ Waiting(a)
    /\ Fault
    /\ Deafen(a)
    /\ Become(a, CASE run[a].pc = "claim"  -> Free
                   [] run[a].pc = "report" -> Retried(a)
                   [] OTHER                -> run[a])
    /\ UNCHANGED <<table, history>>

\* A request nobody waits for any more never arrives.
Lose(r) ==
    /\ r \in requests /\ ~r.heard
    /\ requests' = requests \ {r}
    /\ NoFault
    /\ UNCHANGED <<table, tx, answer, run, history>>

\* The agent's process ends: killed, or stopped, when its context is done
\* before the first attempt to report.
Crash(a) ==
    /\ run[a].pc # "down"
    /\ Fault
    /\ Deafen(a)
    /\ Become(a, [Free EXCEPT !.pc = "down"])
    /\ UNCHANGED <<table, history>>

Restart(a) ==
    /\ run[a].pc = "down"
    /\ Become(a, Free)
    /\ NoFault
    /\ UNCHANGED <<table, network, history>>

-----------------------------------------------------------------------------
Serve ==
    \/ \E p \in ControlPlanes : ClaimRow(p) \/ NoRow(p) \/ CommitClaim(p)
    \/ \E p \in ControlPlanes, r \in requests : BeginClaim(p, r)
    \/ \E r \in requests : AppendProgress(r) \/ Complete(r)

AgentStep(a) ==
    \/ Poll(a) \/ Claimed(a) \/ Reported(a) \/ Watch(a)
    \/ \E good \in BOOLEAN : Executed(a, good)
    \/ SendComplete(a) \/ Completed(a)

Environment ==
    \/ \E j \in Jobs : Enqueue(j) \/ Cancel(j) \/ Silence(j) \/ PruneTerminal(j)
    \/ \E p \in ControlPlanes : AbortClaim(p)
    \/ \E r \in requests : Lose(r)
    \/ \E a \in Agents : Report(a) \/ WatchMisled(a) \/ TimeOut(a) \/ Crash(a) \/ Restart(a)

Next == Serve \/ SweepAbandoned \/ (\E a \in Agents : AgentStep(a)) \/ Environment

Spec == Init /\ [][Next]_vars

-----------------------------------------------------------------------------
(* Properties.                                                               *)

\* Every variable has its type; only running jobs have a deadline that passes,
\* and an agent never reports more often than completeMaxAttempts.
TypeOK ==
    /\ state \in [Jobs -> States]
    /\ owner \in [Jobs -> Agents \cup {Nobody}]
    /\ overdue \subseteq Running
    /\ tx \in [ControlPlanes -> [agent : Agents \cup {Nobody}, job : Jobs \cup {NoJob}, heard : BOOLEAN]]
    /\ requests \subseteq Requests
    /\ answer \in [Agents -> Answers]
    /\ run \in [Agents -> Runs]
    /\ begun \subseteq Jobs /\ worked \subseteq Jobs /\ acked \subseteq Jobs
    /\ faults \in 0 .. MaxFaults

Life == INSTANCE JobLife WITH life <- state

\* Every job is given to one agent, begun at most once, and completed on
\* record only if an agent did it; what has ended stays ended: over claims of
\* two control planes, late requests, the sweeper, cancellation and crashes
\* of agents (jobs_pg.go claimRow, Complete, SweepAbandoned).
IsJobLife == Life!Spec

\* An agent that was told 200 for a success can rely on it: the job is
\* completed on record, until it is pruned, and was not cancelled or given up
\* (the claim fence of Complete).
AckedIsCompleted == \A j \in acked : state[j] \in {"completed", "gone"}

\* WithMaxConcurrent is a hard cap on running jobs, over all control planes.
CapHolds == Cap > 0 => Cardinality(Running) <= Cap

Executing == {a \in Agents : run[a].pc = "exec"}

\* "WithMaxConcurrent caps how many jobs may run at once across the fleet"
\* (server/jobs.go:275), taken of the agents that run them.
CapOnExecutions == Cap > 0 => Cardinality(Executing) <= Cap

-----------------------------------------------------------------------------
(* Fairness: control planes serve, agents go on, the sweeper ticks, a process *)
(* supervisor restarts an agent, an executor that does not hang returns after *)
(* some reports, and time passes for a job nobody reports on.                 *)

Unreported(j) == j \in Hangs \/ \A a \in Agents : ~(run[a].pc = "exec" /\ run[a].job = j)

Fairness ==
    /\ WF_vars(\E p \in ControlPlanes : ClaimRow(p) \/ NoRow(p) \/ CommitClaim(p))
    /\ WF_vars(\E p \in ControlPlanes, r \in requests : BeginClaim(p, r))
    /\ WF_vars(\E r \in requests : AppendProgress(r) \/ Complete(r))
    /\ \A a \in Agents : WF_vars(AgentStep(a)) /\ WF_vars(Watch(a)) /\ WF_vars(Restart(a))
    /\ \A a \in Agents : SF_vars(\E good \in BOOLEAN : Executed(a, good))
    /\ \A j \in Jobs : WF_vars(Unreported(j) /\ Silence(j))
    /\ WF_vars(SweepAbandoned)

LiveSpec == Spec /\ Fairness

\* Every job that was queued ends: also one whose claim was never heard of,
\* whose agent died, or whose executor hangs.
EveryJobEnds == \A j \in Jobs : state[j] = "queued" ~> state[j] \in Terminal \cup {"gone"}

\* No agent is kept by a job for ever: an executor that hangs is stopped once
\* its job was given up or cancelled.
AgentFreed == \A a \in Agents : run[a].pc \in {"exec", "report"} ~> run[a].pc \in {"idle", "down"}
=============================================================================
