------------------------------ MODULE Scheduler ------------------------------
(***************************************************************************)
(* The agent's schedule (schedule/engine.go): a serial loop over interval    *)
(* tasks (backups, rotations, drills), a ceiling on each run, runs that      *)
(* ignore their cancellation, and the record of last runs that carries the   *)
(* cadence over a restart of the agent.                                      *)
(*                                                                           *)
(* Times are relative to now, so that the clock runs for ever: left[t] is    *)
(* what is left until t is due.  Timers are prompt: time does not pass while *)
(* a task that is due can start, or a ceiling that is reached can be acted   *)
(* upon.                                                                     *)
(***************************************************************************)
EXTENDS Integers, FiniteSets, FiniteSetsExt

CONSTANTS
    Tasks,
    Interval,   \* Interval[t]: its cadence
    Ceiling,    \* Ceiling[t]: the longest a run may take
    GracePeriod,    \* and what it gets to stop when cancelled
    Wedges,     \* tasks whose Run may ignore its cancellation, for ever
    Crashes,    \* the agent may die, or be stopped, and be restarted
    NoTask

ASSUME SchedulerAssumption ==
    /\ IsFiniteSet(Tasks) /\ NoTask \notin Tasks
    /\ Interval \in [Tasks -> Nat \ {0}] /\ Ceiling \in [Tasks -> Nat \ {0}]
    /\ GracePeriod \in Nat
    /\ Wedges \subseteq Tasks /\ Crashes \in BOOLEAN

VARIABLES
    up,
    left,       \* left[t]: until nextDue; negative when t is late
    since,      \* since[t]: the age of the recorded last run, up to the interval
    cur,        \* the task runOne is at
    elapsed,    \* how long that run has taken
    inflight,   \* tasks whose latest Run has not returned
    runs        \* runs[t]: Runs of t that have not returned

scheduler == <<up, left, since, cur, elapsed, inflight, runs>>

\* `every` without a record is due at once; since is then the whole interval.
SchedulerInit ==
    /\ up = TRUE
    /\ left = [t \in Tasks |-> 0]
    /\ since = Interval
    /\ cur = NoTask /\ elapsed = 0
    /\ inflight = {}
    /\ runs = [t \in Tasks |-> 0]

Due(t) == left[t] <= 0

-----------------------------------------------------------------------------
\* Mutant: the slot after the last one, though it may have passed.
InPast(t) == left[t] + Interval[t]

\* Of the slots of t after the one it was due at, the first that is not past.
Next1(t) ==
    LET skipped == IF Due(t) THEN (-left[t]) \div Interval[t] ELSE 0
    IN  left[t] + (skipped + 1) * Interval[t]

\* RecordRun: a run of t began so long ago.
RecordRun(t, took) == [since EXCEPT ![t] = IF took < Interval[t] THEN took ELSE Interval[t]]

\* runOne after the run: the next firing, and the record, whatever the outcome.
RunOver(t, took) ==
    /\ left' = [left EXCEPT ![t] = Next1(t)]
    /\ since' = RecordRun(t, took)

\* pickNext
Soonest(t) == \A u \in Tasks : left[t] <= left[u]

\* Mutant: the in-flight guard left out.
Unguarded(t) == FALSE

\* The previous run was abandoned and has not returned.
StillRunning(t) == t \in inflight

\* A task is due and starts,
Start(t) ==
    /\ up /\ cur = NoTask
    /\ Soonest(t) /\ Due(t) /\ ~StillRunning(t)
    /\ cur' = t /\ elapsed' = 0
    /\ inflight' = inflight \cup {t}
    /\ runs' = [runs EXCEPT ![t] = @ + 1]
    /\ UNCHANGED <<up, left, since>>

\* or is skipped, because its previous run is still there.
Skip(t) ==
    /\ up /\ cur = NoTask
    /\ Soonest(t) /\ Due(t) /\ StillRunning(t)
    /\ RunOver(t, 0)
    /\ UNCHANGED <<up, cur, elapsed, inflight, runs>>

\* A run returns: by itself or cancelled, watched or abandoned.
Return(t) ==
    /\ up /\ runs[t] > 0
    /\ runs' = [runs EXCEPT ![t] = @ - 1]
    /\ inflight' = inflight \ {t}
    /\ IF cur = t
       THEN /\ RunOver(t, elapsed)
            /\ cur' = NoTask /\ elapsed' = 0
       ELSE UNCHANGED <<left, since, cur, elapsed>>
    /\ UNCHANGED up

\* The ceiling has passed, and the grace after the cancellation.
Overrun == cur # NoTask /\ elapsed >= Ceiling[cur] + GracePeriod

\* runBounded leaves a run alone that does not stop.
Abandon ==
    /\ up /\ Overrun /\ cur \in Wedges
    /\ RunOver(cur, elapsed)
    /\ cur' = NoTask /\ elapsed' = 0
    /\ UNCHANGED <<up, inflight, runs>>

\* Nothing is due that could start, and no ceiling is reached.
Quiet == up => /\ cur = NoTask => \A t \in Tasks : ~Due(t)
               /\ ~Overrun

TimePasses ==
    /\ Quiet
    /\ left' = [t \in Tasks |-> IF up THEN left[t] - 1 ELSE 0]
    /\ since' = [t \in Tasks |-> IF since[t] < Interval[t] THEN since[t] + 1 ELSE since[t]]
    /\ elapsed' = IF cur = NoTask THEN 0 ELSE elapsed + 1
    /\ UNCHANGED <<up, cur, inflight, runs>>

\* The process ends, and its runs with it.
Down ==
    /\ Crashes /\ up
    /\ up' = FALSE
    /\ left' = [t \in Tasks |-> 0]
    /\ cur' = NoTask /\ elapsed' = 0
    /\ inflight' = {} /\ runs' = [t \in Tasks |-> 0]

\* The agent dies.  A run it was in has left no record.
Crash ==
    /\ Down
    /\ UNCHANGED since

\* The agent is stopped: runBounded cancels the run, and leaves it alone if it
\* does not return within the grace; it is recorded all the same.
Stop ==
    /\ Down
    /\ since' = IF cur = NoTask THEN since ELSE RecordRun(cur, elapsed)

\* Mutant: a restart counts the interval from now.
FromNow(t) == Interval[t]

\* firstDue: the slot after the recorded run, or now if that has passed.
FirstDue(t) == Interval[t] - since[t]

Restart ==
    /\ ~up
    /\ up' = TRUE
    /\ left' = [t \in Tasks |-> FirstDue(t)]
    /\ UNCHANGED <<since, cur, elapsed, inflight, runs>>

SchedulerNext ==
    \/ TimePasses \/ Abandon \/ Crash \/ Stop \/ Restart
    \/ \E t \in Tasks : Start(t) \/ Skip(t) \/ Return(t)

SchedulerSpec == SchedulerInit /\ [][SchedulerNext]_scheduler

\* Time passes, the agent is restarted, the loop and its timers go on.  Crashes
\* and stops take none of that away for ever: they do not always come just before a due
\* task starts, nor cut off every run of a task.  A wedged run may never return.
Fairness ==
    /\ SF_scheduler(TimePasses) /\ WF_scheduler(Restart) /\ SF_scheduler(Abandon)
    /\ \A t \in Tasks : SF_scheduler(Start(t)) /\ SF_scheduler(Skip(t))
    /\ \A t \in Tasks \ Wedges : SF_scheduler(Return(t))

FairSpec == SchedulerSpec /\ Fairness

-----------------------------------------------------------------------------
(* Properties.                                                               *)

\* What other tasks can hold up one that is due.
Delay(S) == MapThenSumSet(LAMBDA u : Ceiling[u] + GracePeriod, S)

\* Every variable has its type; in particular a task is never later than one
\* run of every task can make it, and its next slot is never beyond its interval.
SchedulerTypeOK ==
    /\ up \in BOOLEAN
    /\ \A t \in Tasks : left[t] \in -Delay(Tasks) .. Interval[t] /\ since[t] \in 0 .. Interval[t]
    /\ cur \in Tasks \cup {NoTask}
    /\ elapsed \in 0 .. Delay(Tasks)
    /\ inflight \subseteq Tasks
    /\ runs \in [Tasks -> Nat]

\* Two runs of a task never overlap, even if one was abandoned.
NoOverlap == \A t \in Tasks : runs[t] <= 1

\* A due task waits for one run of each other task at most: a late task is not
\* overtaken twice, however much the others overran their slots.
BoundedDelay == \A t \in Tasks : cur # t => left[t] >= -Delay(Tasks \ {t})

\* Every task that stops when cancelled keeps running, although others wedge
\* and the agent is restarted more often than the interval is long.
FiresAgain == \A t \in Tasks \ Wedges : []<>(cur = t)
=============================================================================
