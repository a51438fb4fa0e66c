----------------------------- MODULE AgentProofs -----------------------------
(***************************************************************************)
(* Proofs about what the agent runs: its schedule (Scheduler), rotation and  *)
(* WAL prune (Retention), and the Patroni follower with the stream it shares *)
(* the archive with (Failover).  The three share no variable, and no theorem *)
(* is about two of them.                                                     *)
(***************************************************************************)
EXTENDS Scheduler, Retention, Failover, FiniteSetTheorems, WellFoundedInduction, TLAPS

-----------------------------------------------------------------------------
(* Scheduler.                                                                *)

\* The runs that have not returned are the ones the engine knows to be in flight.
RunsInv ==
    /\ runs \in [Tasks -> 0 .. 1]
    /\ \A t \in Tasks : runs[t] > 0 => t \in inflight

\* It holds in the initial states.
LEMMA InitRuns == SchedulerInit => RunsInv
  BY DEF SchedulerInit, RunsInv

\* Every step keeps RunsInv: a task starts only if its latest run has returned.
LEMMA StepRuns == RunsInv /\ [SchedulerNext]_scheduler => RunsInv'
<1> SUFFICES ASSUME RunsInv, [SchedulerNext]_scheduler PROVE RunsInv'
  OBVIOUS
<1> USE DEF RunsInv
<1>1. CASE UNCHANGED <<runs, inflight>>  BY <1>1
<1>2. ASSUME NEW t \in Tasks, Start(t) PROVE RunsInv'
  <2>1. runs[t] = 0  BY <1>2 DEF Start, StillRunning
  <2> QED  BY <1>2, <2>1 DEF Start
<1>3. ASSUME NEW t \in Tasks, Return(t) PROVE RunsInv'
  <2>1. runs[t] = 1 /\ runs'[t] = 0 /\ inflight' = inflight \ {t}  BY <1>3 DEF Return
  <2> QED  BY <1>3, <2>1 DEF Return
<1>4. CASE Crash \/ Stop  BY <1>4 DEF Crash, Stop, Down
<1>5. CASE TimePasses \/ Abandon \/ Restart \/ (\E t \in Tasks : Skip(t)) \/ UNCHANGED scheduler
  BY <1>1, <1>5 DEF TimePasses, Abandon, Restart, Skip, scheduler
<1> QED  BY <1>2, <1>3, <1>4, <1>5 DEF SchedulerNext

\* Two runs of a task never overlap, whatever wedges, is abandoned and returns
\* late, and however often the agent dies.
THEOREM RunsNeverOverlap == SchedulerSpec => []NoOverlap
<1>1. RunsInv => NoOverlap  BY DEF RunsInv, NoOverlap
<1> QED  BY <1>1, InitRuns, StepRuns, PTL DEF SchedulerSpec

-----------------------------------------------------------------------------
(* What the runs of a set of tasks can take.                                 *)

\* The longest a run of u can keep the loop.
Cost(u) == Ceiling[u] + GracePeriod

\* Delay as a number of things to count: the time units of one run of each task.
Units(S) == UNION {{u} \X (1 .. Cost(u)) : u \in S}

\* A run costs a number of units.
LEMMA CostNat == ASSUME NEW u \in Tasks PROVE Cost(u) \in Nat
BY SchedulerAssumption DEF Cost

\* The units of one task.
LEMMA UnitsOfOne ==
  ASSUME NEW u \in Tasks
  PROVE  IsFiniteSet({u} \X (1 .. Cost(u))) /\ Cardinality({u} \X (1 .. Cost(u))) = Cost(u)
<1>1. Cost(u) \in Nat  BY CostNat
<1>2. IsFiniteSet(1 .. Cost(u)) /\ Cardinality(1 .. Cost(u)) = Cost(u)  BY <1>1, FS_Interval
<1>3. IsFiniteSet({u}) /\ Cardinality({u}) = 1  BY FS_Singleton
<1>. HIDE DEF Cost
<1>4. /\ IsFiniteSet({u} \X (1 .. Cost(u)))
      /\ Cardinality({u} \X (1 .. Cost(u))) = Cardinality({u}) * Cardinality(1 .. Cost(u))
  BY <1>2, <1>3, FS_Product
<1>. QED  BY <1>1, <1>2, <1>3, <1>4

\* They are finitely many.
LEMMA UnitsFinite ==
  ASSUME NEW S \in SUBSET Tasks
  PROVE  IsFiniteSet(Units(S)) /\ Cardinality(Units(S)) \in Nat
<1>. DEFINE T == {{u} \X (1 .. Cost(u)) : u \in S}
            f == [u \in S |-> {u} \X (1 .. Cost(u))]
<1>1. IsFiniteSet(S)  BY SchedulerAssumption, FS_Subset
<1>2. f \in Surjection(S, T)  BY DEF Surjection
<1>3. IsFiniteSet(T)
  <2>. HIDE DEF f, T
  <2>. QED  BY <1>1, <1>2, FS_Surjection
<1>4. \A X \in T : IsFiniteSet(X)  BY UnitsOfOne
<1>5. IsFiniteSet(UNION T)
  <2>. HIDE DEF T
  <2>. QED  BY <1>3, <1>4, FS_UNION
<1>. QED  BY <1>5, FS_CardinalityType DEF Units

\* One more task adds its cost.
LEMMA UnitsAdd ==
  ASSUME NEW S \in SUBSET Tasks, NEW u \in Tasks, u \notin S
  PROVE  Cardinality(Units(S \cup {u})) = Cardinality(Units(S)) + Cost(u)
<1>. DEFINE A == Units(S)
            B == {u} \X (1 .. Cost(u))
<1>1. Units(S \cup {u}) = A \cup B
  <2>. HIDE DEF Cost
  <2>. QED  BY DEF Units
<1>2. A \cap B = {}
  <2>. HIDE DEF Cost
  <2>. QED  BY DEF Units
<1>3. IsFiniteSet(A) /\ Cardinality(A) \in Nat  BY UnitsFinite
<1>4. IsFiniteSet(B) /\ Cardinality(B) = Cost(u)  BY UnitsOfOne
<1>5. Cost(u) \in Nat  BY CostNat
<1>. HIDE DEF A, B
<1>6. Cardinality(A \cup B) = Cardinality(A) + Cardinality(B) - Cardinality(A \cap B)
  BY <1>3, <1>4, FS_Union
<1>7. Cardinality(A \cap B) = 0  BY <1>2, FS_EmptySet
<1>8. Cardinality(A \cup B) = Cardinality(A) + Cost(u)  BY <1>3, <1>4, <1>5, <1>6, <1>7
<1>. QED  BY <1>1, <1>8 DEF A

\* The fold that defines Delay, on the subsets of S.
IsFold(G, S) ==
    G = [s \in SUBSET S |->
            IF s = {} THEN 0 ELSE Cost(CHOOSE x \in s : TRUE) + G[s \ {CHOOSE x \in s : TRUE}]]

\* MapThenSumSet is such a fold, if there is one.
LEMMA DelayIsFold ==
  ASSUME NEW S \in SUBSET Tasks, NEW F, IsFold(F, S)
  PROVE  \E G : IsFold(G, S) /\ Delay(S) = G[S]
BY Zenon DEF IsFold, Delay, MapThenSumSet, MapThenFoldSet, Cost

\* There is, and there is only one.
LEMMA DelayIsUnits ==
  ASSUME NEW S \in SUBSET Tasks
  PROVE  Delay(S) = Cardinality(Units(S))
<1>. DEFINE N(s) == Cardinality(Units(s))
            pick(s) == CHOOSE x \in s : TRUE
            F == [s \in SUBSET S |-> N(s)]
<1>1. N({}) = 0
  <2>1. Units({}) = {}  BY DEF Units
  <2>. QED  BY <2>1, FS_EmptySet
<1>2. ASSUME NEW s \in SUBSET S, s # {}
      PROVE  /\ pick(s) \in s /\ s \ {pick(s)} \in SUBSET S
             /\ N(s) = Cost(pick(s)) + N(s \ {pick(s)})
  <2>1. pick(s) \in s  BY <1>2
  <2>. HIDE DEF pick
  <2>2. s = (s \ {pick(s)}) \cup {pick(s)}  BY <2>1
  <2>3. N((s \ {pick(s)}) \cup {pick(s)}) = N(s \ {pick(s)}) + Cost(pick(s))
    BY <2>1, UnitsAdd
  <2>4. Cost(pick(s)) \in Nat /\ N(s \ {pick(s)}) \in Nat
    BY <2>1, CostNat, UnitsFinite
  <2>5. N(s) = N(s \ {pick(s)}) + Cost(pick(s))  BY <2>2, <2>3
  <2>. HIDE DEF N
  <2>. QED  BY <2>1, <2>4, <2>5
<1>. HIDE DEF N
<1>3. IsFold(F, S)
  <2>1. \A s \in SUBSET S : F[s] = IF s = {} THEN 0 ELSE Cost(pick(s)) + F[s \ {pick(s)}]
    BY <1>1, <1>2
  <2>2. F = [s \in SUBSET S |-> F[s]]  OBVIOUS
  <2>. HIDE DEF F
  <2>. QED  BY <2>1, <2>2 DEF IsFold
<1>4. PICK G : IsFold(G, S) /\ Delay(S) = G[S]
  <2>. HIDE DEF F
  <2>. QED  BY <1>3, DelayIsFold
<1>5. \A s \in SUBSET S : G[s] = IF s = {} THEN 0 ELSE Cost(pick(s)) + G[s \ {pick(s)}]
  BY <1>4 DEF IsFold
<1>6. \A s \in SUBSET S : G[s] = N(s)
  <2>. DEFINE Bad == {s \in SUBSET S : G[s] # N(s)}
  <2>1. SUFFICES ASSUME Bad # {} PROVE FALSE  OBVIOUS
  <2>2. IsWellFoundedOn(StrictSubsetOrdering(S), SUBSET S)
    <3>. HIDE DEF Bad, F, pick
    <3>1. IsFiniteSet(S)  BY SchedulerAssumption, FS_Subset
    <3>2. FiniteSubsetsOf(S) = SUBSET S  BY <3>1, FS_FiniteSubsetsOfFinite
    <3>3. IsWellFoundedOn(StrictSubsetOrdering(S), FiniteSubsetsOf(S))
      BY FS_StrictSubsetOrderingWellFounded
    <3>. QED  BY <3>2, <3>3, Zenon
  <2>3. PICK s \in Bad : \A r \in Bad : ~(<<r, s>> \in StrictSubsetOrdering(S))
    <3>1. Bad \subseteq SUBSET S  OBVIOUS
    <3>. HIDE DEF Bad
    <3>. QED  BY <2>1, <2>2, <3>1, WFMin
  <2>4. s # {}  BY <1>1, <1>5
  <2>5. pick(s) \in s /\ s \ {pick(s)} \in SUBSET S  BY <1>2, <2>4
  <2>6. s \ {pick(s)} \notin Bad
    <3>1. s \in SUBSET S  OBVIOUS
    <3>. HIDE DEF Bad, pick
    <3>2. <<s \ {pick(s)}, s>> \in StrictSubsetOrdering(S)
      BY <2>5, <3>1 DEF StrictSubsetOrdering
    <3>. QED  BY <2>3, <3>2
  <2>. QED  BY <1>2, <1>5, <2>4, <2>5, <2>6
<1>. QED  BY <1>4, <1>6 DEF N

\* More tasks never take less, and one more task takes its cost more.
LEMMA DelayAdds ==
  ASSUME NEW S \in SUBSET Tasks
  PROVE  /\ Delay(S) \in Nat
         /\ \A u \in Tasks \ S : Delay(S \cup {u}) = Delay(S) + Cost(u)
         /\ \A R \in SUBSET S : Delay(R) <= Delay(S)
<1>1. Delay(S) = Cardinality(Units(S)) /\ Delay(S) \in Nat  BY DelayIsUnits, UnitsFinite
<1>2. ASSUME NEW u \in Tasks \ S PROVE Delay(S \cup {u}) = Delay(S) + Cost(u)
  BY <1>1, DelayIsUnits, UnitsAdd
<1>3. ASSUME NEW R \in SUBSET S PROVE Delay(R) <= Delay(S)
  <2>1. Units(R) \in SUBSET Units(S)
    <3>. HIDE DEF Cost
    <3>. QED  BY DEF Units
  <2>2. Delay(R) = Cardinality(Units(R))  BY DelayIsUnits
  <2>. QED  BY <1>1, <2>1, <2>2, UnitsFinite, FS_Subset
<1>. QED  BY <1>1, <1>2, <1>3

-----------------------------------------------------------------------------
(* How late a task can be.                                                   *)

\* What the loop keeps: a task it is at is due and has not used up its run.
LoopInv ==
    /\ up \in BOOLEAN
    /\ left \in [Tasks -> Int] /\ \A t \in Tasks : left[t] <= Interval[t]
    /\ since \in [Tasks -> Nat] /\ \A t \in Tasks : since[t] <= Interval[t]
    /\ cur \in Tasks \cup {NoTask} /\ elapsed \in Nat
    /\ cur = NoTask => elapsed = 0
    /\ cur # NoTask => up /\ left[cur] <= 0 /\ elapsed <= Cost(cur)
    /\ inflight \subseteq Tasks

\* The tasks that come after t: a run moves its task past every late one.
Behind(t) == {u \in Tasks \ {t, cur} : left[u] > left[t]}

\* What t has been waiting for: the present run, and runs of tasks behind it.
Ahead(t) == IF cur = t THEN Tasks \ {t} ELSE Behind(t)

LateInv == \A t \in Tasks : -left[t] <= Delay(Ahead(t)) + elapsed

\* The constants of a task.
LEMMA Constants ==
  ASSUME NEW t \in Tasks
  PROVE  Interval[t] \in Nat \ {0} /\ t # NoTask /\ Cost(t) \in Nat
BY SchedulerAssumption, CostNat

\* Division, as Next1 uses it.
LEMMA Division ==
  ASSUME NEW n \in Nat, NEW i \in Nat \ {0}
  PROVE  n \div i \in Nat /\ i * (n \div i) <= n /\ n < i * (n \div i) + i
OBVIOUS

\* The next slot of a due task is ahead, by no more than its interval.
LEMMA NextSlot ==
  ASSUME NEW t \in Tasks, left \in [Tasks -> Int], left[t] <= 0
  PROVE  Next1(t) \in 1 .. Interval[t]
<1>. DEFINE n == -left[t]
            i == Interval[t]
            k == n \div i
<1>1. n \in Nat /\ i \in Nat \ {0} /\ left[t] = -n  BY Constants
<1>2. Next1(t) = left[t] + (k + 1) * i  BY DEF Next1, Due
<1>. HIDE DEF n, i
<1>3. k \in Nat /\ i * k <= n /\ n < i * k + i  BY <1>1, Division
<1>. HIDE DEF k
<1>4. (k + 1) * i = i * k + i /\ i * k \in Int  BY <1>1, <1>3
<1>5. Next1(t) \in 1 .. i  BY <1>1, <1>2, <1>3, <1>4
<1>. QED  BY <1>5 DEF i

\* What RunOver leaves behind.
LEMMA RunOverEffect ==
  ASSUME LoopInv, NEW t \in Tasks, left[t] <= 0, NEW took \in Nat, RunOver(t, took)
  PROVE  /\ left' \in [Tasks -> Int] /\ left'[t] >= 1 /\ left'[t] <= Interval[t]
         /\ \A u \in Tasks \ {t} : left'[u] = left[u]
         /\ since' \in [Tasks -> Nat] /\ \A u \in Tasks : since'[u] <= Interval[u]
<1>1. Next1(t) \in 1 .. Interval[t]  BY NextSlot DEF LoopInv
<1>2. Next1(t) \in Int /\ Interval[t] \in Nat  BY <1>1, Constants
<1>3. /\ left' = [left EXCEPT ![t] = Next1(t)]
      /\ since' = [since EXCEPT ![t] = IF took < Interval[t] THEN took ELSE Interval[t]]
  BY DEF RunOver, RecordRun
<1>. QED  BY <1>1, <1>2, <1>3 DEF LoopInv

\* The loop is well formed at the start.
LEMMA InitLoop == SchedulerInit => LoopInv /\ LateInv
<1>. SUFFICES ASSUME SchedulerInit PROVE LoopInv /\ LateInv  OBVIOUS
<1>1. LoopInv  BY SchedulerAssumption DEF SchedulerInit, LoopInv
<1>2. ASSUME NEW t \in Tasks PROVE -left[t] <= Delay(Ahead(t)) + elapsed
  <2>1. Ahead(t) \in SUBSET Tasks  BY DEF Ahead, Behind
  <2>2. Delay(Ahead(t)) \in Nat  BY <2>1, DelayAdds
  <2>. QED  BY <2>2 DEF SchedulerInit
<1>. QED  BY <1>1, <1>2 DEF LateInv

\* Every step keeps the loop well formed.
LEMMA LoopKept == LoopInv /\ [SchedulerNext]_scheduler => LoopInv'
<1>. SUFFICES ASSUME LoopInv, [SchedulerNext]_scheduler PROVE LoopInv'  OBVIOUS
<1>. USE Constants DEF LoopInv
<1>1. ASSUME NEW t \in Tasks, Start(t) PROVE LoopInv'
  BY <1>1 DEF Start, Due
<1>2. ASSUME NEW t \in Tasks, Skip(t) PROVE LoopInv'
  <2>1. left[t] <= 0 /\ RunOver(t, 0)  BY <1>2 DEF Skip, Due
  <2>. QED  BY <1>2, <2>1, RunOverEffect DEF Skip
<1>3. ASSUME NEW t \in Tasks, Return(t) PROVE LoopInv'
  <2>1. CASE cur = t
    <3>1. left[t] <= 0 /\ RunOver(t, elapsed)  BY <1>3, <2>1 DEF Return
    <3>. QED  BY <1>3, <2>1, <3>1, RunOverEffect DEF Return
  <2>2. CASE cur # t  BY <1>3, <2>2 DEF Return
  <2>. QED  BY <2>1, <2>2
<1>4. CASE Abandon
  <2>1. cur \in Tasks /\ left[cur] <= 0 /\ RunOver(cur, elapsed)  BY <1>4 DEF Abandon, Overrun
  <2>. QED  BY <1>4, <2>1, RunOverEffect DEF Abandon
<1>5. CASE TimePasses
  <2>1. cur # NoTask => elapsed < Cost(cur)  BY <1>5 DEF TimePasses, Quiet, Overrun, Cost
  <2>2. /\ left' \in [Tasks -> Int]
        /\ \A t \in Tasks : left'[t] <= Interval[t] /\ left'[t] <= IF up THEN left[t] ELSE 0
    BY <1>5 DEF TimePasses
  <2>3. since' \in [Tasks -> Nat] /\ \A t \in Tasks : since'[t] <= Interval[t]
    BY <1>5 DEF TimePasses
  <2>4. elapsed' = (IF cur = NoTask THEN 0 ELSE elapsed + 1) /\ UNCHANGED <<up, cur, inflight>>
    BY <1>5 DEF TimePasses
  <2>. QED  BY <2>1, <2>2, <2>3, <2>4
<1>6. CASE Crash \/ Stop
  <2>1. left' \in [Tasks -> Int] /\ \A t \in Tasks : left'[t] = 0 /\ left'[t] <= Interval[t]
    BY <1>6 DEF Crash, Stop, Down
  <2>2. up' = FALSE /\ cur' = NoTask /\ elapsed' = 0 /\ inflight' = {}
    BY <1>6 DEF Crash, Stop, Down
  <2>3. since' \in [Tasks -> Nat] /\ \A t \in Tasks : since'[t] <= Interval[t]
    BY <1>6 DEF Crash, Stop, RecordRun
  <2>. QED  BY <2>1, <2>2, <2>3
<1>7. CASE Restart  BY <1>7 DEF Restart, FirstDue
<1>8. CASE UNCHANGED scheduler  BY <1>8 DEF scheduler
<1>. QED  BY <1>1, <1>2, <1>3, <1>4, <1>5, <1>6, <1>7, <1>8 DEF SchedulerNext

\* A task that is not late waits for nobody.
LEMMA NotLate ==
  ASSUME NEW t \in Tasks, LoopInv', left'[t] >= 0
  PROVE  (-left[t])' <= (Delay(Ahead(t)) + elapsed)'
<1>1. Ahead(t)' \in SUBSET Tasks  BY DEF Ahead, Behind
<1>2. Delay(Ahead(t)') \in Nat  BY <1>1, DelayAdds
<1>3. Delay(Ahead(t))' = Delay(Ahead(t)')  OBVIOUS
<1>. QED  BY <1>2, <1>3 DEF LoopInv

\* The tasks behind a late one stay behind it, and a run over joins them.
LEMMA LateKept ==
  ASSUME LoopInv, LoopInv', LateInv, [SchedulerNext]_scheduler, NEW t \in Tasks, left'[t] < 0
  PROVE  -left'[t] <= Delay(Ahead(t)') + elapsed'
<1>a. Ahead(t) \in SUBSET Tasks /\ Ahead(t)' \in SUBSET Tasks  BY DEF Ahead, Behind
<1>b. Delay(Ahead(t)) \in Nat /\ Delay(Ahead(t)') \in Nat  BY <1>a, DelayAdds
<1>c. -left[t] <= Delay(Ahead(t)) + elapsed  BY DEF LateInv
<1>d. left[t] \in Int /\ left'[t] \in Int /\ elapsed \in Nat /\ elapsed' \in Nat  BY DEF LoopInv
<1>0. ASSUME Ahead(t) \subseteq Ahead(t)', left'[t] = left[t], elapsed <= elapsed'
      PROVE  -left'[t] <= Delay(Ahead(t)') + elapsed'
  <2>1. Delay(Ahead(t)) <= Delay(Ahead(t)')  BY <1>a, <1>0, DelayAdds
  <2>. QED  BY <1>b, <1>c, <1>d, <1>0, <2>1
<1>1. ASSUME NEW u \in Tasks, Start(u) PROVE -left'[t] <= Delay(Ahead(t)') + elapsed'
  <2>1. /\ cur = NoTask /\ cur' = u /\ left' = left /\ elapsed' = 0 /\ elapsed = 0
        /\ left[u] <= left[t]
    BY <1>1 DEF Start, Soonest, LoopInv
  <2>2. Ahead(t) \subseteq Ahead(t)'
    <3>1. CASE u = t  BY <2>1, <3>1, Constants DEF Ahead, Behind
    <3>2. CASE u # t
      <4>1. \A v \in Behind(t) : v # u  BY <1>d, <2>1 DEF Behind, LoopInv
      <4>. QED  BY <2>1, <3>2, <4>1, Constants DEF Ahead, Behind
    <3>. QED  BY <3>1, <3>2
  <2>. QED  BY <1>0, <2>1, <2>2
<1>2. ASSUME NEW u \in Tasks, Skip(u) PROVE -left'[t] <= Delay(Ahead(t)') + elapsed'
  <2>1. cur = NoTask /\ cur' = NoTask /\ elapsed' = elapsed /\ left[u] <= 0 /\ RunOver(u, 0)
    BY <1>2 DEF Skip, Due
  <2>2. left'[u] >= 1 /\ \A v \in Tasks \ {u} : left'[v] = left[v]
    BY <2>1, RunOverEffect
  <2>3. u # t /\ left'[t] = left[t]  BY <1>d, <2>2
  <2>4. left'[u] > left'[t]  BY <1>d, <2>2 DEF LoopInv
  <2>5. Ahead(t) \subseteq Ahead(t)'
    BY <2>1, <2>2, <2>3, <2>4, Constants DEF Ahead, Behind
  <2>. QED  BY <1>0, <1>d, <2>1, <2>3, <2>5
<1>3. ASSUME cur \in Tasks, cur' = NoTask, elapsed' = 0, RunOver(cur, elapsed)
      PROVE  -left'[t] <= Delay(Ahead(t)') + elapsed'
  <2>1. left[cur] <= 0 /\ elapsed <= Cost(cur) /\ Cost(cur) \in Nat
    BY <1>3, Constants DEF LoopInv
  <2>2. left'[cur] >= 1 /\ \A v \in Tasks \ {cur} : left'[v] = left[v]
    BY <1>3, <2>1, <1>d, RunOverEffect
  <2>3. cur # t /\ left'[t] = left[t]  BY <1>d, <2>2
  <2>4. left'[cur] > left'[t]  BY <1>3, <1>d, <2>2 DEF LoopInv
  <2>5. Ahead(t) \cup {cur} \subseteq Ahead(t)'
    BY <1>3, <2>2, <2>3, <2>4, Constants DEF Ahead, Behind
  <2>6. cur \notin Ahead(t)  BY <2>3 DEF Ahead, Behind
  <2>7. Delay(Ahead(t) \cup {cur}) = Delay(Ahead(t)) + Cost(cur)
    BY <1>3, <1>a, <2>6, DelayAdds
  <2>8. Delay(Ahead(t) \cup {cur}) <= Delay(Ahead(t)')  BY <1>a, <2>5, DelayAdds
  <2>. QED  BY <1>b, <1>c, <1>d, <1>3, <2>1, <2>3, <2>7, <2>8
<1>4. ASSUME NEW u \in Tasks, Return(u) PROVE -left'[t] <= Delay(Ahead(t)') + elapsed'
  <2>1. CASE cur = u  BY <1>3, <1>4, <2>1 DEF Return
  <2>2. CASE cur # u
    <3>1. UNCHANGED <<left, cur, elapsed>>  BY <1>4, <2>2 DEF Return
    <3>. QED  BY <1>0, <1>d, <3>1 DEF Ahead, Behind
  <2>. QED  BY <2>1, <2>2
<1>5. CASE Abandon
  <2>1. cur \in Tasks  BY <1>5 DEF Abandon, Overrun, LoopInv
  <2>. QED  BY <1>3, <1>5, <2>1 DEF Abandon
<1>6. CASE TimePasses
  <2>1. up  BY <1>6 DEF TimePasses
  <2>2. \A u \in Tasks : left'[u] = left[u] - 1  BY <1>6, <2>1 DEF TimePasses
  <2>3. cur # NoTask /\ cur' = cur /\ elapsed' = elapsed + 1
    BY <1>6, <1>d, <2>1, <2>2 DEF TimePasses, Quiet, Due
  <2>4. Ahead(t)' = Ahead(t)
    <3>1. \A u \in Tasks : left'[u] > left'[t] <=> left[u] > left[t]
      BY <2>2 DEF LoopInv
    <3>. QED  BY <2>3, <3>1 DEF Ahead, Behind
  <2>. QED  BY <1>b, <1>c, <1>d, <2>2, <2>3, <2>4
<1>7. CASE Crash \/ Stop  BY <1>7 DEF Crash, Stop, Down
<1>8. CASE Restart
  <2>1. left'[t] = Interval[t] - since[t]  BY <1>8 DEF Restart, FirstDue
  <2>. QED  BY <2>1, Constants DEF LoopInv
<1>9. CASE UNCHANGED scheduler  BY <1>0, <1>9, <1>d DEF scheduler, Ahead, Behind
<1>. QED  BY <1>1, <1>2, <1>4, <1>5, <1>6, <1>7, <1>8, <1>9 DEF SchedulerNext

\* Every step keeps both.
LEMMA DelayKept == LoopInv /\ LateInv /\ [SchedulerNext]_scheduler => (LoopInv /\ LateInv)'
<1>. SUFFICES ASSUME LoopInv, LateInv, [SchedulerNext]_scheduler PROVE LoopInv' /\ LateInv'  OBVIOUS
<1>1. LoopInv'  BY LoopKept
<1>2. ASSUME NEW t \in Tasks PROVE -left'[t] <= Delay(Ahead(t)') + elapsed'
  <2>1. CASE left'[t] < 0  BY <1>1, <2>1, LateKept
  <2>2. CASE left'[t] >= 0  BY <1>1, <2>2, NotLate
  <2>3. left'[t] \in Int  BY <1>1 DEF LoopInv
  <2>. QED  BY <2>1, <2>2, <2>3
<1>3. LateInv'  BY <1>2 DEF LateInv
<1>. QED  BY <1>1, <1>3

\* Nobody is later than one run of every other task.
LEMMA LateBounded ==
  ASSUME LoopInv, LateInv, NEW t \in Tasks
  PROVE  /\ Delay(Tasks \ {t}) \in Nat /\ Delay(Tasks) = Delay(Tasks \ {t}) + Cost(t)
         /\ cur # t => left[t] >= -Delay(Tasks \ {t})
         /\ left[t] >= -Delay(Tasks)
<1>. DEFINE R == Tasks \ {t}
<1>1. R \in SUBSET Tasks /\ R \cup {t} = Tasks /\ t \in Tasks \ R  OBVIOUS
<1>2. Ahead(t) \in SUBSET R  BY DEF Ahead, Behind
<1>3. left[t] \in Int /\ elapsed \in Nat /\ Cost(t) \in Nat  BY Constants DEF LoopInv
<1>. HIDE DEF R
<1>4. /\ Delay(R) \in Nat /\ Delay(R \cup {t}) = Delay(R) + Cost(t)
      /\ Delay(Ahead(t)) \in Nat /\ Delay(Ahead(t)) <= Delay(R)
  BY <1>1, <1>2, DelayAdds
<1>5. Delay(Tasks) = Delay(R) + Cost(t)  BY <1>1, <1>4
<1>6. -left[t] <= Delay(Ahead(t)) + elapsed  BY DEF LateInv
<1>7. CASE cur = t
  <2>1. elapsed <= Cost(t)  BY <1>7, Constants DEF LoopInv
  <2>. QED  BY <1>3, <1>4, <1>5, <1>6, <1>7, <2>1 DEF R
<1>8. CASE cur # t /\ cur = NoTask
  <2>1. elapsed = 0  BY <1>8 DEF LoopInv
  <2>. QED  BY <1>3, <1>4, <1>5, <1>6, <1>8, <2>1 DEF R
<1>9. CASE cur # t /\ cur # NoTask
  <2>1. cur \in Tasks /\ elapsed <= Cost(cur) /\ Cost(cur) \in Nat
    BY <1>9, Constants DEF LoopInv
  <2>2. cur \notin Ahead(t) /\ Ahead(t) \cup {cur} \in SUBSET R /\ Ahead(t) \in SUBSET Tasks
    BY <1>9, <2>1 DEF Ahead, Behind, R
  <2>3. Delay(Ahead(t) \cup {cur}) = Delay(Ahead(t)) + Cost(cur)  BY <2>1, <2>2, DelayAdds
  <2>4. Delay(Ahead(t) \cup {cur}) <= Delay(R)  BY <1>1, <2>2, DelayAdds
  <2>. QED  BY <1>3, <1>4, <1>5, <1>6, <2>1, <2>3, <2>4 DEF R
<1>. QED  BY <1>7, <1>8, <1>9

\* A due task waits for one run of each other task at most (pickNext takes the
\* soonest, RunOver moves what ran past now), whatever wedges, is abandoned, returns
\* late or crashes, for any number of tasks.
THEOREM DelayBounded == SchedulerSpec => []BoundedDelay
<1>1. LoopInv /\ LateInv => BoundedDelay  BY LateBounded DEF BoundedDelay
<1>. QED  BY <1>1, InitLoop, DelayKept, PTL DEF SchedulerSpec

\* Every variable has its type; no task is ever later than one run of every task.
THEOREM TypeCorrect == SchedulerSpec => []SchedulerTypeOK
<1>1. LoopInv /\ LateInv /\ RunsInv => SchedulerTypeOK
  <2>. SUFFICES ASSUME LoopInv, LateInv, RunsInv PROVE SchedulerTypeOK  OBVIOUS
  <2>1. Delay(Tasks) \in Nat  BY DelayAdds
  <2>2. ASSUME NEW t \in Tasks PROVE left[t] \in -Delay(Tasks) .. Interval[t]
    <3>1. left[t] >= -Delay(Tasks)  BY LateBounded
    <3>2. left[t] \in Int /\ left[t] <= Interval[t] /\ Interval[t] \in Nat
      BY Constants DEF LoopInv
    <3>. QED  BY <2>1, <3>1, <3>2
  <2>3. elapsed \in 0 .. Delay(Tasks)
    <3>1. CASE cur = NoTask  BY <2>1, <3>1 DEF LoopInv
    <3>2. CASE cur # NoTask
      <4>1. cur \in Tasks /\ elapsed <= Cost(cur) /\ Cost(cur) \in Nat
        BY <3>2, Constants DEF LoopInv
      <4>2. Delay(Tasks \ {cur}) \in Nat /\ Delay(Tasks) = Delay(Tasks \ {cur}) + Cost(cur)
        BY <4>1, LateBounded
      <4>. QED  BY <2>1, <4>1, <4>2 DEF LoopInv
    <3>. QED  BY <3>1, <3>2
  <2>4. runs \in [Tasks -> Nat]  BY DEF RunsInv
  <2>5. \A t \in Tasks : since[t] \in 0 .. Interval[t]  BY Constants DEF LoopInv
  <2>. QED  BY <2>2, <2>3, <2>4, <2>5 DEF SchedulerTypeOK, LoopInv
<1>. QED  BY <1>1, InitLoop, DelayKept, InitRuns, StepRuns, PTL DEF SchedulerSpec

-----------------------------------------------------------------------------
(* Retention: types.                                                         *)

\* The constants.
LEMMA RConstants ==
  /\ MaxBackups \in Nat /\ MaxTime \in Nat /\ MaxLSN \in Nat /\ Grace \in Nat
  /\ SegSize \in Nat /\ SegSize > 0
  /\ Never \notin Int
BY RetentionAssumption

\* The records of Retention: manifests, rotations, prunes.
Manifests == [start : Nat, tl : {1, 2}, stopped : Nat, parent : 0 .. MaxBackups]
Rotations == [n : Nat, pc : {"idle", "cli", "batch", "agent"}, list : SUBSET Backups, plan : SUBSET Backups]
Prunes == [n : Nat, pc : {"idle", "list", "walk"}, cutoff : Int, frontier : Nat, at : Nat \X Nat]

\* The types; and a backup is built upon an earlier one.
RBase ==
    /\ now \in Nat /\ primaryTLI \in {1, 2} /\ tip \in Nat
    /\ wal \subseteq Nat \X Nat /\ pruned \subseteq Nat \X Nat
    /\ committed \subseteq Backups /\ committed = 1 .. Cardinality(committed)
    /\ mani \in [Backups -> Manifests]
    /\ \A b \in Backups : mani[b].parent = 0 \/ (b \in committed /\ mani[b].parent \in committed /\ mani[b].parent < b)
    /\ \A b \in Backups : mani[b].stopped <= now
    /\ tomb \in [Backups -> Nat \cup {Never}]
    /\ \A b \in Backups : tomb[b] # Never => b \in committed /\ tomb[b] <= now
    /\ taking \in [on : BOOLEAN, start : Nat, parent : 0 .. MaxBackups]
    /\ taking.parent = 0 \/ taking.parent \in committed
    /\ rotate \in Rotations /\ rotate.list \subseteq committed /\ rotate.plan \subseteq rotate.list
    /\ prune \in Prunes

\* A commit takes the next number.
LEMMA NextBackup ==
  ASSUME RBase, NEW b, b = Cardinality(committed) + 1, b \in Backups
  PROVE  /\ b \notin committed
         /\ committed \cup {b} = 1 .. Cardinality(committed \cup {b})
         /\ committed \cup {b} \subseteq Backups
         /\ \A c \in committed : c < b
<1>1. committed = 1 .. Cardinality(committed) /\ committed \subseteq Backups  BY DEF RBase
<1>2. MaxBackups \in Nat  BY RConstants
<1>3. IsFiniteSet(1 .. MaxBackups)
  <2>1. 1 \in Int /\ MaxBackups \in Int  BY <1>2
  <2>. QED  BY <2>1, FS_Interval
<1>4. IsFiniteSet(committed)  BY <1>1, <1>3, FS_Subset DEF Backups
<1>5. Cardinality(committed) \in Nat
  BY <1>4, FS_CardinalityType
<1>6. b \notin committed /\ \A c \in committed : c < b  BY <1>1, <1>5
<1>7. Cardinality(committed \cup {b}) = Cardinality(committed) + 1
  BY <1>4, <1>6, FS_AddElement
<1>8. Cardinality(committed \cup {b}) = b  BY <1>5, <1>7
<1>9. committed \cup {b} = 1 .. b  BY <1>1, <1>5
<1>. QED  BY <1>1, <1>6, <1>8, <1>9

\* They hold in the initial states.
LEMMA RInitBase == Init => RBase
<1>1. Cardinality({}) = 0  BY FS_EmptySet
<1>2. SUFFICES ASSUME Init PROVE RBase  OBVIOUS
<1>3. NoManifest \in Manifests  BY RConstants DEF NoManifest, Manifests
<1>4. mani \in [Backups -> Manifests] /\ \A b \in Backups : mani[b].parent = 0 /\ mani[b].stopped = 0
  BY <1>2, <1>3 DEF Init, NoManifest
<1>5. rotate \in Rotations /\ rotate.list = {} /\ rotate.plan = {}  BY <1>2 DEF Init, RotationOver, Rotations
<1>6. prune \in Prunes  BY <1>2 DEF Init, PruneOver, Prunes
<1>7. taking \in [on : BOOLEAN, start : Nat, parent : 0 .. MaxBackups] /\ taking.parent = 0
  BY <1>2, RConstants DEF Init, Idle
<1>8. committed = {} /\ committed = 1 .. Cardinality(committed)
  BY <1>1, <1>2 DEF Init
<1>. QED  BY <1>2, <1>4, <1>5, <1>6, <1>7, <1>8 DEF Init, RBase

\* Deleting and undeleting: tombstones come dated now, and only to backups.
LEMMA TombsKept ==
  ASSUME RBase, NEW D \in SUBSET committed, Delete(D)
  PROVE  /\ tomb' \in [Backups -> Nat \cup {Never}]
         /\ \A b \in Backups : tomb'[b] # Never => b \in committed /\ tomb'[b] <= now
         /\ \A b \in Backups : tomb'[b] = tomb[b] \/ (b \in D /\ tomb[b] = Never /\ tomb'[b] = now)
BY RConstants DEF Delete, Mark, RBase

\* Every step keeps them.
LEMMA RBaseKept == ASSUME RBase, [Next]_vars PROVE RBase'
<1>. USE DEF primary, store
<1>1. CASE Tick
  <2>1. now' = now + 1 /\ \A b \in Backups : mani[b].stopped \in Nat /\ mani[b].stopped <= now
    BY <1>1 DEF Tick, RBase, Manifests
  <2>2. \A b \in Backups : mani[b].stopped <= now'  BY <2>1 DEF RBase
  <2>. QED  BY <1>1, <2>2 DEF Tick, RBase
<1>2. CASE Write
  <2>1. Complete(primaryTLI, tip, tip + 1) \subseteq Nat \X Nat
    BY RConstants DEF Complete, LSNs, RBase
  <2>. QED  BY <1>2, <2>1 DEF Write, RBase
<1>3. CASE AbortBackup \/ \E l \in LSNs : Failover(l)
  <2>1. tip' \in Nat /\ primaryTLI' \in {1, 2}  BY <1>3 DEF AbortBackup, Failover, LSNs, RBase
  <2>2. taking' = Idle  BY <1>3 DEF AbortBackup, Failover
  <2>3. taking' \in [on : BOOLEAN, start : Nat, parent : 0 .. MaxBackups] /\ taking'.parent = 0
    BY <2>2, RConstants DEF Idle
  <2>4. UNCHANGED <<now, wal, pruned, committed, mani, tomb, rotate, prune>>
    BY <1>3 DEF AbortBackup, Failover
  <2>. QED  BY <2>1, <2>3, <2>4 DEF RBase
<1>4. ASSUME NEW p \in 0 .. MaxBackups, BeginBackup(p) PROVE RBase'
  <2>1. taking' \in [on : BOOLEAN, start : Nat, parent : 0 .. MaxBackups] /\ (taking'.parent = 0 \/ taking'.parent \in committed)
    BY <1>4 DEF BeginBackup, Live, RBase
  <2>. QED  BY <1>4, <2>1 DEF BeginBackup, RBase
<1>5. ASSUME NEW b \in Backups, CommitBackup(b) PROVE RBase'
  <2>1. b = Cardinality(committed) + 1  BY <1>5 DEF CommitBackup
  <2>2. /\ b \notin committed /\ \A c \in committed : c < b
        /\ committed' = 1 .. Cardinality(committed') /\ committed' = committed \cup {b}
        /\ committed' \subseteq Backups
    BY <1>5, <2>1, NextBackup DEF CommitBackup
  <2>3. mani' \in [Backups -> Manifests]
    BY <1>5 DEF CommitBackup, RBase, Manifests
  <2>4. mani'[b].parent = taking.parent /\ mani'[b].stopped \in {0, now} /\ \A c \in Backups \ {b} : mani'[c] = mani[c]
    BY <1>5 DEF CommitBackup, RBase
  <2>5. taking.parent = 0 \/ (taking.parent \in committed /\ taking.parent < b)
    BY <2>2 DEF RBase
  <2>6. \A c \in Backups : mani'[c].parent = 0 \/ (c \in committed' /\ mani'[c].parent \in committed' /\ mani'[c].parent < c)
    BY <2>2, <2>4, <2>5 DEF RBase
  <2>7. taking' \in [on : BOOLEAN, start : Nat, parent : 0 .. MaxBackups] /\ taking'.parent = 0
    BY <1>5, RConstants DEF CommitBackup, Idle
  <2>8. UNCHANGED <<now, primaryTLI, tip, wal, pruned, tomb, rotate, prune>>  BY <1>5 DEF CommitBackup
  <2>9. \A c \in Backups : mani'[c].stopped <= now  BY <2>4 DEF RBase
  <2>. QED  BY <2>2, <2>3, <2>6, <2>7, <2>8, <2>9 DEF RBase
<1>6. CASE \E b \in Backups : PutHold(b) \/ RemoveHold(b)
  BY <1>6 DEF PutHold, RemoveHold, RBase
<1>7. ASSUME NEW policy \in Policies, NEW by \in {"cli", "agent"}, ListBackups(policy, by) PROVE RBase'
  <2>1. rotate' \in Rotations /\ rotate'.list \subseteq committed /\ rotate'.plan \subseteq rotate'.list
    BY <1>7 DEF ListBackups, Live, RBase, Rotations
  <2>. QED  BY <1>7, <2>1 DEF ListBackups, RBase
<1>8. CASE FilterHeld
  <2>1. rotate' \in Rotations /\ rotate'.list \subseteq committed /\ rotate'.plan \subseteq rotate'.list
    BY <1>8 DEF FilterHeld, RBase, Rotations
  <2>. QED  BY <1>8, <2>1 DEF FilterHeld, RBase
<1>9. CASE DeleteBatch
  <2>1. tomb' = tomb \/ Delete(rotate.plan)  BY <1>9 DEF DeleteBatch
  <2>2. rotate' \in Rotations /\ rotate'.list = {} /\ rotate'.plan = {}
    BY <1>9 DEF DeleteBatch, RotationOver, RBase, Rotations
  <2>. QED  BY <1>9, <2>1, <2>2, TombsKept DEF DeleteBatch, RBase
<1>10. CASE DeleteNext
  <2>1. PICK b \in Newest(rotate.plan) : /\ tomb' = tomb \/ Delete({b})
                                         /\ rotate' = [rotate EXCEPT !.plan = @ \ {b}]
    BY <1>10 DEF DeleteNext
  <2>2. b \in rotate.plan  BY <2>1 DEF Newest
  <2>3. rotate' \in Rotations /\ rotate'.list \subseteq committed /\ rotate'.plan \subseteq rotate'.list
    BY <2>1 DEF RBase, Rotations
  <2>4. {b} \in SUBSET committed  BY <2>2 DEF RBase
  <2>. QED  BY <1>10, <2>1, <2>3, <2>4, TombsKept DEF DeleteNext, RBase
<1>11. CASE EndRotation
  <2>1. rotate' \in Rotations /\ rotate'.list = {} /\ rotate'.plan = {}
    BY <1>11 DEF EndRotation, RotationOver, RBase, Rotations
  <2>. QED  BY <1>11, <2>1 DEF EndRotation, RBase
<1>12. ASSUME NEW b \in Backups, Undelete(b) PROVE RBase'
  BY <1>12, SMTT(30) DEF Undelete, RBase
<1>13. CASE BeginPrune \/ Frontier \/ EndPrune
  <2>1. prune' \in Prunes
    <3>1. CASE BeginPrune
      <4>1. now - Grace \in Int /\ prune.n \in Nat  BY RConstants DEF RBase, Prunes
      <4>2. prune' = [n |-> prune.n + 1, pc |-> "list", cutoff |-> now - Grace, frontier |-> 0, at |-> <<0, 0>>]
        BY <3>1 DEF BeginPrune, PruneOver
      <4>. QED  BY <4>1, <4>2 DEF Prunes
    <3>2. CASE prune' = PruneOver(prune.n)  BY <3>2 DEF PruneOver, RBase, Prunes
    <3>3. ASSUME NEW b \in Counting, prune' = [prune EXCEPT !.pc = "walk", !.frontier = mani[b].start]
          PROVE  prune' \in Prunes
      <4>1. mani[b].start \in Nat  BY DEF Counting, RBase, Manifests
      <4>. QED  BY <3>3, <4>1 DEF RBase, Prunes
    <3>. QED  BY <1>13, <3>1, <3>2, <3>3 DEF Frontier, EndPrune
  <2>2. UNCHANGED <<now, primaryTLI, tip, wal, pruned, committed, mani, tomb, taking, rotate>>
    BY <1>13 DEF BeginPrune, Frontier, EndPrune
  <2>. QED  BY <2>1, <2>2 DEF RBase
<1>14. ASSUME NEW x \in wal, PruneSegment(x) \/ SpareSegment(x) \/ PastBoundary(x) PROVE RBase'
  <2>1. x \in Nat \X Nat /\ <<x[1], MaxLSN>> \in Nat \X Nat  BY RConstants DEF RBase
  <2>2. PICK y \in Nat \X Nat : prune' = [prune EXCEPT !.at = y]
    BY <1>14, <2>1 DEF PruneSegment, SpareSegment, PastBoundary
  <2>3. prune' \in Prunes  BY <2>2 DEF RBase, Prunes
  <2>4. wal' \subseteq Nat \X Nat /\ pruned' \subseteq Nat \X Nat
    BY <1>14, <2>1 DEF PruneSegment, SpareSegment, PastBoundary, RBase
  <2>. QED  BY <1>14, <2>3, <2>4, SMTT(30) DEF PruneSegment, SpareSegment, PastBoundary, RBase
<1>15. CASE UNCHANGED vars  BY <1>15 DEF vars, RBase
<1>. QED
  BY <1>1, <1>2, <1>3, <1>4, <1>5, <1>6, <1>7, <1>8, <1>9, <1>10, <1>11, <1>12, <1>13, <1>14, <1>15 DEF Next

\* What TypeOK says beyond that: the bounds.
RTypes ==
    /\ world \in Worlds /\ now \in 1 .. MaxTime /\ tip \in LSNs /\ forkLSN \in LSNs \cup {Never}
    /\ wal \subseteq Segments /\ pruned \subseteq Segments
    /\ held \subseteq committed
    /\ \A b \in Backups : mani[b].start \in LSNs
    /\ \A b \in Backups : tomb[b] # Never => tomb[b] >= 1
    /\ taking.start \in LSNs
    /\ rotate.n <= MaxRotations
    /\ prune.n <= MaxPrunes /\ prune.cutoff \in -Grace .. MaxTime
    /\ prune.frontier \in LSNs /\ prune.at \in {0, 1, 2} \X LSNs

\* The bounds on the constants, as facts about integers.
LEMMA RBounds ==
  /\ MaxTime \in Nat /\ MaxTime >= 1 /\ MaxPrunes \in Nat /\ MaxRotations \in Nat /\ MaxLSN \in Nat
  /\ Grace \in Nat /\ 0 \in LSNs /\ MaxLSN \in LSNs /\ 0 \in -Grace .. MaxTime
BY RetentionAssumption DEF LSNs

\* Every step keeps them.
LEMMA RTypesKept == ASSUME RBase, RTypes, [Next]_vars PROVE RTypes'
<1>. USE DEF primary, store
<1>1. CASE Tick  BY <1>1, RBounds DEF Tick, RTypes
<1>2. CASE Write
  <2>1. tip' \in LSNs  BY <1>2, RBounds DEF Write, RTypes, LSNs
  <2>2. Complete(primaryTLI, tip, tip + 1) \subseteq Segments  BY DEF Complete, Segments, RBase
  <2>. QED  BY <1>2, <2>1, <2>2 DEF Write, RTypes
<1>3. CASE AbortBackup \/ \E l \in LSNs : Failover(l)
  BY <1>3, RBounds DEF AbortBackup, Failover, Idle, RTypes
<1>4. ASSUME NEW p \in 0 .. MaxBackups, BeginBackup(p) PROVE RTypes'
  BY <1>4 DEF BeginBackup, RTypes
<1>5. ASSUME NEW b \in Backups, CommitBackup(b) PROVE RTypes'
  <2>1. \A c \in Backups : mani'[c].start \in LSNs
    BY <1>5 DEF CommitBackup, RBase, RTypes
  <2>2. taking'.start \in LSNs  BY <1>5, RBounds DEF CommitBackup, Idle
  <2>. QED  BY <1>5, <2>1, <2>2 DEF CommitBackup, RTypes
<1>6. CASE \E b \in Backups : PutHold(b) \/ RemoveHold(b)
  BY <1>6 DEF PutHold, RemoveHold, Live, RTypes
<1>7. ASSUME NEW policy \in Policies, NEW by \in {"cli", "agent"}, ListBackups(policy, by) PROVE RTypes'
  <2>1. rotate'.n <= MaxRotations  BY <1>7, RBounds DEF ListBackups, RBase, Rotations
  <2>. QED  BY <1>7, <2>1 DEF ListBackups, RTypes
<1>8. CASE FilterHeld
  <2>1. rotate'.n = rotate.n  BY <1>8 DEF FilterHeld, RBase, Rotations
  <2>. QED  BY <1>8, <2>1 DEF FilterHeld, RTypes
<1>9. CASE DeleteBatch \/ DeleteNext
  <2>1. rotate'.n = rotate.n
    <3>1. rotate \in Rotations  BY DEF RBase
    <3>2. CASE DeleteBatch  BY <3>2 DEF DeleteBatch, RotationOver
    <3>3. CASE DeleteNext
      <4>1. PICK b : rotate' = [rotate EXCEPT !.plan = @ \ {b}]  BY <3>3 DEF DeleteNext
      <4>. QED  BY <3>1, <4>1 DEF Rotations
    <3>. QED  BY <1>9, <3>2, <3>3
  <2>2. \A c \in Backups : tomb'[c] # Never => tomb'[c] >= 1
    <3>1. now \in Nat /\ now >= 1  BY RBounds DEF RTypes
    <3>2. tomb' = tomb \/ \E D : Delete(D)  BY <1>9 DEF DeleteBatch, DeleteNext
    <3>3. ASSUME NEW c \in Backups PROVE tomb'[c] = tomb[c] \/ tomb'[c] = now
      BY <3>2 DEF Delete, Mark
    <3>. QED  BY <3>1, <3>3 DEF RTypes
  <2>. QED  BY <1>9, <2>1, <2>2 DEF DeleteBatch, DeleteNext, RTypes
<1>10. CASE EndRotation
  <2>1. rotate'.n = rotate.n  BY <1>10 DEF EndRotation, RotationOver
  <2>. QED  BY <1>10, <2>1 DEF EndRotation, RTypes
<1>11. ASSUME NEW b \in Backups, Undelete(b) PROVE RTypes'
  <2>1. \A c \in Backups : tomb'[c] # Never => tomb'[c] >= 1  BY <1>11 DEF Undelete, RBase, RTypes
  <2>. QED  BY <1>11, <2>1 DEF Undelete, RTypes
<1>12. CASE BeginPrune \/ Frontier \/ EndPrune
  <2>1. prune'.n <= MaxPrunes /\ prune'.cutoff \in -Grace .. MaxTime
        /\ prune'.frontier \in LSNs /\ prune'.at \in {0, 1, 2} \X LSNs
    <3>1. CASE BeginPrune
      <4>1. now - Grace \in -Grace .. MaxTime  BY RBounds DEF RTypes
      <4>2. prune' = [n |-> prune.n + 1, pc |-> "list", cutoff |-> now - Grace, frontier |-> 0, at |-> <<0, 0>>]
        BY <3>1 DEF BeginPrune, PruneOver
      <4>3. prune.n + 1 <= MaxPrunes
        <5>1. prune.n \in Nat /\ MaxPrunes \in Nat  BY RBounds DEF RBase, Prunes
        <5>. QED  BY <3>1, <5>1 DEF BeginPrune
      <4>. QED  BY <4>1, <4>2, <4>3, RBounds
    <3>2. CASE prune' = PruneOver(prune.n)  BY <3>2, RBounds DEF PruneOver, RTypes
    <3>3. ASSUME NEW b \in Counting, prune' = [prune EXCEPT !.pc = "walk", !.frontier = mani[b].start]
          PROVE  prune'.n = prune.n /\ prune'.cutoff = prune.cutoff /\ prune'.at = prune.at /\ prune'.frontier \in LSNs
      <4>1. mani[b].start \in LSNs  BY DEF Counting, RBase, RTypes
      <4>. QED  BY <3>3, <4>1 DEF RBase, Prunes
    <3>. QED  BY <1>12, <3>1, <3>2, <3>3 DEF Frontier, EndPrune, RTypes
  <2>. QED  BY <1>12, <2>1 DEF BeginPrune, Frontier, EndPrune, RTypes
<1>13. ASSUME NEW x \in wal, PruneSegment(x) \/ SpareSegment(x) \/ PastBoundary(x) PROVE RTypes'
  <2>1. x \in Segments /\ <<x[1], MaxLSN>> \in Segments  BY RBounds DEF Segments, RTypes
  <2>2. PICK y \in Segments : prune' = [prune EXCEPT !.at = y]
    BY <1>13, <2>1 DEF PruneSegment, SpareSegment, PastBoundary
  <2>3. prune'.n = prune.n /\ prune'.cutoff = prune.cutoff /\ prune'.frontier = prune.frontier /\ prune'.at = y
    BY <2>2 DEF RBase, Prunes
  <2>4. wal' \subseteq Segments /\ pruned' \subseteq Segments
    BY <1>13, <2>1 DEF PruneSegment, SpareSegment, PastBoundary, RTypes
  <2>5. y \in {0, 1, 2} \X LSNs  BY <2>2 DEF Segments
  <2>. QED  BY <1>13, <2>3, <2>4, <2>5 DEF PruneSegment, SpareSegment, PastBoundary, RTypes
<1>14. CASE UNCHANGED vars  BY <1>14 DEF vars, RTypes
<1>. QED
  BY <1>1, <1>2, <1>3, <1>4, <1>5, <1>6, <1>7, <1>8, <1>9, <1>10, <1>11, <1>12, <1>13, <1>14 DEF Next

\* Every variable of Retention has its type: no tombstone is dated later than now,
\* by which the grace would be counted, and a rotation's plan is within its listing.
THEOREM RetentionTypeCorrect == Spec => []TypeOK
<1>1. Init => RBase /\ RTypes
  <2>1. SUFFICES ASSUME Init PROVE RBase /\ RTypes  OBVIOUS
  <2>2. \A b \in Backups : mani[b].start \in LSNs  BY <2>1, RBounds DEF Init, NoManifest
  <2>3. taking.start \in LSNs /\ rotate.n <= MaxRotations  BY <2>1, RBounds DEF Init, Idle, RotationOver
  <2>4. prune.n <= MaxPrunes /\ prune.cutoff \in -Grace .. MaxTime
        /\ prune.frontier \in LSNs /\ prune.at \in {0, 1, 2} \X LSNs
    BY <2>1, RBounds DEF Init, PruneOver
  <2>. QED  BY <2>1, <2>2, <2>3, <2>4, RInitBase, RBounds DEF Init, RTypes
<1>2. RBase /\ RTypes /\ [Next]_vars => (RBase /\ RTypes)'  BY RBaseKept, RTypesKept
<1>3. RBase /\ RTypes => TypeOK
  <2>1. SUFFICES ASSUME RBase, RTypes PROVE TypeOK  OBVIOUS
  <2>2. mani \in [Backups -> [start : LSNs, tl : {1, 2}, stopped : 0 .. MaxTime, parent : 0 .. MaxBackups]]
    <3>1. ASSUME NEW b \in Backups
          PROVE  mani[b] \in [start : LSNs, tl : {1, 2}, stopped : 0 .. MaxTime, parent : 0 .. MaxBackups]
      <4>1. mani[b] \in Manifests /\ mani[b].start \in LSNs /\ mani[b].stopped <= now /\ now <= MaxTime
        BY <2>1 DEF RBase, RTypes
      <4>2. mani[b].stopped \in 0 .. MaxTime  BY <2>1, <4>1, RBounds DEF Manifests, RBase
      <4>. QED  BY <4>1, <4>2 DEF Manifests
    <3>2. mani = [b \in Backups |-> mani[b]]  BY <2>1 DEF RBase
    <3>. QED  BY <3>1, <3>2
  <2>3. \A b \in Backups : tomb[b] = Never \/ (b \in committed /\ tomb[b] \in 1 .. now)
    <3>1. SUFFICES ASSUME NEW b \in Backups, tomb[b] # Never PROVE b \in committed /\ tomb[b] \in 1 .. now
      OBVIOUS
    <3>2. tomb[b] \in Nat /\ tomb[b] >= 1 /\ tomb[b] <= now /\ b \in committed /\ now \in Nat
      BY <2>1, <3>1 DEF RBase, RTypes
    <3>. QED  BY <3>2
  <2>4. taking \in [on : BOOLEAN, start : LSNs, parent : 0 .. MaxBackups]  BY <2>1 DEF RBase, RTypes
  <2>5. rotate \in [n : 0 .. MaxRotations, pc : {"idle", "cli", "batch", "agent"},
                    list : SUBSET committed, plan : SUBSET committed]
    <3>1. rotate.n \in 0 .. MaxRotations /\ rotate.list \in SUBSET committed /\ rotate.plan \in SUBSET committed
      BY <2>1, RBounds DEF RBase, RTypes, Rotations
    <3>. QED  BY <2>1, <3>1 DEF RBase, Rotations
  <2>6. prune \in [n : 0 .. MaxPrunes, pc : {"idle", "list", "walk"}, cutoff : -Grace .. MaxTime,
                   frontier : LSNs, at : {0, 1, 2} \X LSNs]
    <3>1. prune.n \in 0 .. MaxPrunes  BY <2>1, RBounds DEF RBase, RTypes, Prunes
    <3>. QED  BY <2>1, <3>1 DEF RBase, RTypes, Prunes
  <2>. QED  BY <2>1, <2>2, <2>3, <2>4, <2>5, <2>6 DEF RBase, RTypes, TypeOK
<1>. QED  BY <1>1, <1>2, <1>3, PTL DEF Spec

-----------------------------------------------------------------------------
(* Retention: wal prune.                                                     *)

\* An undelete comes within the grace, and a failover loses no backup's start.
Timely == "late" \notin world /\ "rewind" \notin world

\* b is listed, or may still be undeleted.
Protected(b) == tomb[b] = Never \/ now - tomb[b] <= Grace

\* Backups start in the order they are committed in, and so does the next one.
StartInv ==
    /\ \A b \in committed : mani[b].start <= tip
    /\ taking.on => taking.start <= tip /\ \A b \in committed : mani[b].start <= taking.start

\* No backup that matters, now or later, starts before e.
Floored(e) ==
    /\ \E c \in committed : e <= mani[c].start
    /\ \A b \in committed : Protected(b) => e <= mani[b].start

\* Where the WAL of a segment ends.
EndOfSegment(x) == (x[2] + 1) * SegSize

\* What a prune goes by, and what it took, lies before all that matters.
PruneInv ==
    /\ prune.pc # "idle" => prune.cutoff <= now - Grace
    /\ prune.pc = "walk" => Floored(prune.frontier)
    /\ \A x \in pruned : Floored(EndOfSegment(x))

\* What holds whenever a step may take WAL.
WALInv == RBase /\ (Timely => StartInv /\ PruneInv)

\* Every step keeps the order of starts.
LEMMA StartInvKept ==
  ASSUME RBase, StartInv, Timely, [Next]_vars
  PROVE  StartInv'
<1>. USE DEF primary, store
<1>1. CASE UNCHANGED <<tip, taking, committed, mani>>  BY <1>1 DEF StartInv
<1>2. CASE Write  BY <1>2 DEF Write, StartInv, RBase, Manifests
<1>3. CASE AbortBackup  BY <1>3 DEF AbortBackup, Idle, StartInv
<1>4. ASSUME NEW l \in LSNs, Failover(l) PROVE StartInv'
  BY <1>4 DEF Failover, Idle, StartInv, Timely
<1>5. ASSUME NEW p \in 0 .. MaxBackups, BeginBackup(p) PROVE StartInv'
  BY <1>5 DEF BeginBackup, StartInv, RBase
<1>6. ASSUME NEW b \in Backups, CommitBackup(b) PROVE StartInv'
  <2>1. b \notin committed  BY <1>6, NextBackup DEF CommitBackup
  <2>2. ~taking'.on /\ tip' = tip /\ committed' = committed \cup {b}  BY <1>6 DEF CommitBackup, Idle
  <2>3. mani'[b].start = taking.start /\ \A c \in committed : mani'[c] = mani[c]
    BY <1>6, <2>1 DEF CommitBackup, RBase
  <2>. QED  BY <1>6, <2>2, <2>3 DEF CommitBackup, StartInv
<1>. QED
  BY <1>1, <1>2, <1>3, <1>4, <1>5, <1>6
  DEF Next, vars, Tick, PutHold, RemoveHold, Undelete, ListBackups, FilterHeld, DeleteBatch,
      DeleteNext, EndRotation, BeginPrune, Frontier, EndPrune, PruneSegment, SpareSegment, PastBoundary

\* What becomes of a backup: it stays what it is, nobody's protection comes
\* back, and a new one starts after all before it.
LEMMA BackupsOn ==
  ASSUME RBase, StartInv, Timely, [Next]_vars
  PROVE  /\ \A b \in committed : b \in committed' /\ mani'[b] = mani[b]
         /\ \A b \in committed : Protected(b)' => Protected(b)
         /\ \A b \in committed' \ committed : \A c \in committed : mani[c].start <= mani'[b].start
         /\ now' \in Nat /\ now' >= now
<1>. DEFINE On == /\ \A b \in committed : b \in committed' /\ mani'[b] = mani[b]
                  /\ \A b \in committed : Protected(b)' => Protected(b)
                  /\ \A b \in committed' \ committed : \A c \in committed : mani[c].start <= mani'[b].start
                  /\ now' \in Nat /\ now' >= now
<1>. SUFFICES On  OBVIOUS
<1>. USE DEF primary, store
<1>b. committed \subseteq Backups /\ now \in Nat /\ tomb \in [Backups -> Nat \cup {Never}]  BY DEF RBase
<1>c. Grace \in Nat /\ Never \notin Int  BY RConstants
<1>1. CASE UNCHANGED <<now, committed, mani, tomb>>  BY <1>1, <1>b DEF Protected
<1>2. CASE Tick
  <2>1. now' = now + 1 /\ UNCHANGED <<committed, mani, tomb>>  BY <1>2 DEF Tick
  <2>2. ASSUME NEW b \in committed, Protected(b)' PROVE Protected(b)
    <3>1. tomb[b] = Never \/ tomb[b] \in Nat  BY <1>b
    <3>. QED  BY <1>b, <1>c, <2>1, <2>2, <3>1 DEF Protected
  <2>. QED  BY <1>b, <2>1, <2>2
<1>3. ASSUME NEW b \in Backups, CommitBackup(b) PROVE On
  <2>1. b \notin committed  BY <1>3, NextBackup DEF CommitBackup
  <2>2. committed' = committed \cup {b} /\ UNCHANGED <<now, tomb>> /\ taking.on  BY <1>3 DEF CommitBackup
  <2>3. mani'[b].start = taking.start /\ \A c \in committed : mani'[c] = mani[c]
    BY <1>3, <2>1 DEF CommitBackup, RBase
  <2>. QED  BY <1>b, <2>2, <2>3 DEF StartInv, Protected
<1>4. ASSUME NEW D \in SUBSET committed, Delete(D), UNCHANGED <<now, committed, mani>> PROVE On
  <2>1. \A b \in Backups : tomb'[b] = tomb[b] \/ (b \in D /\ tomb[b] = Never /\ tomb'[b] = now)
    BY <1>4, TombsKept
  <2>. QED  BY <1>4, <1>b, <2>1 DEF Protected
<1>5. CASE DeleteBatch
  BY <1>1, <1>4, <1>5 DEF DeleteBatch, RBase
<1>6. CASE DeleteNext
  <2>1. PICK b \in Newest(rotate.plan) : tomb' = tomb \/ Delete({b})
    BY <1>6 DEF DeleteNext
  <2>2. {b} \in SUBSET committed  BY <2>1 DEF Newest, RBase
  <2>. QED  BY <1>1, <1>4, <1>6, <2>1, <2>2 DEF DeleteNext
<1>7. ASSUME NEW b \in Backups, Undelete(b) PROVE On
  <2>1. Protected(b)  BY <1>7 DEF Undelete, Timely, Protected
  <2>2. \A c \in Backups \ {b} : tomb'[c] = tomb[c]  BY <1>7, <1>b DEF Undelete
  <2>. QED  BY <1>7, <1>b, <2>1, <2>2 DEF Undelete, Protected
<1>. QED
  BY <1>1, <1>2, <1>3, <1>5, <1>6, <1>7
  DEF Next, vars, Write, AbortBackup, Failover, BeginBackup, PutHold, RemoveHold, ListBackups,
      FilterHeld, EndRotation, BeginPrune, Frontier, EndPrune, PruneSegment, SpareSegment, PastBoundary

\* A floor stays one.
LEMMA FlooredKept ==
  ASSUME RBase, StartInv, Timely, [Next]_vars, NEW e \in Int, Floored(e)
  PROVE  Floored(e)'
<1>1. PICK c \in committed : e <= mani[c].start  BY DEF Floored
<1>2. /\ \A b \in committed : b \in committed' /\ mani'[b] = mani[b]
      /\ \A b \in committed : Protected(b)' => Protected(b)
      /\ \A b \in committed' \ committed : \A d \in committed : mani[d].start <= mani'[b].start
  BY BackupsOn
<1>3. \A b \in committed' : mani'[b].start \in Int
  <2>1. RBase'  BY RBaseKept
  <2>. QED  BY <2>1 DEF RBase, Manifests
<1>4. ASSUME NEW b \in committed', Protected(b)' PROVE e <= mani'[b].start
  <2>1. CASE b \in committed  BY <1>2, <1>4, <2>1 DEF Floored
  <2>2. CASE b \notin committed
    <3>1. mani[c].start <= mani'[b].start  BY <1>2, <2>2
    <3>2. mani[c].start \in Int /\ mani'[b].start \in Int  BY <1>2, <1>3
    <3>. QED  BY <1>1, <3>1, <3>2
  <2>. QED  BY <2>1, <2>2
<1>. QED  BY <1>1, <1>2, <1>4 DEF Floored

\* Every step keeps what a prune goes by.
LEMMA PruneInvKept ==
  ASSUME RBase, StartInv, PruneInv, Timely, [Next]_vars
  PROVE  PruneInv'
<1>. USE DEF primary, store
<1>b. /\ now \in Nat /\ now' \in Nat /\ now' >= now /\ Grace \in Nat /\ Never \notin Int
      /\ prune \in Prunes /\ prune.cutoff \in Int /\ prune.frontier \in Int
  <2>1. now' \in Nat /\ now' >= now  BY BackupsOn
  <2>2. now \in Nat /\ prune \in Prunes  BY DEF RBase
  <2>3. prune.cutoff \in Int /\ prune.frontier \in Int  BY <2>2 DEF Prunes
  <2>. QED  BY <2>1, <2>2, <2>3, RConstants
<1>e. \A x \in Nat \X Nat : EndOfSegment(x) \in Int  BY RConstants DEF EndOfSegment
<1>p. \A x \in pruned : Floored(EndOfSegment(x))'
  BY <1>e, FlooredKept DEF PruneInv, RBase
<1>f. prune.pc = "walk" => Floored(prune.frontier) /\ \A e \in Int : e = prune.frontier => Floored(e)'
  BY <1>b, FlooredKept DEF PruneInv
<1>1. ASSUME pruned' = pruned, prune'.pc = prune.pc, prune'.cutoff = prune.cutoff, prune'.frontier = prune.frontier
      PROVE  PruneInv'
  <2>1. prune'.pc = "walk" => Floored(prune.frontier)'  BY <1>1, <1>b, <1>f DEF Floored
  <2>. QED  BY <1>1, <1>b, <1>p, <2>1 DEF PruneInv
<1>2. CASE BeginPrune
  <2>1. prune'.pc = "list" /\ prune'.cutoff = now - Grace /\ now' = now /\ pruned' = pruned
    BY <1>2 DEF BeginPrune, PruneOver
  <2>. QED  BY <1>p, <1>b, <2>1 DEF PruneInv
<1>3. ASSUME prune' = PruneOver(prune.n), pruned' = pruned PROVE PruneInv'
  BY <1>3, <1>p DEF PruneInv, PruneOver
<1>4. ASSUME NEW b \in Counting, Frontier, \A c \in Counting : mani[b].start <= mani[c].start,
             prune' = [prune EXCEPT !.pc = "walk", !.frontier = mani[b].start]
      PROVE  PruneInv'
  <2>1. UNCHANGED <<now, committed, mani, tomb, pruned>> /\ prune.pc = "list"  BY <1>4 DEF Frontier
  <2>2. prune'.pc = "walk" /\ prune'.frontier = mani[b].start /\ prune'.cutoff = prune.cutoff
    BY <1>4, <1>b DEF Prunes
  <2>3. ASSUME NEW c \in committed, Protected(c) PROVE c \in Counting
    <3>1. tomb[c] = Never \/ tomb[c] \in Nat  BY DEF RBase
    <3>2. prune.cutoff <= now - Grace  BY <2>1 DEF PruneInv
    <3>. QED  BY <1>b, <2>3, <3>1, <3>2 DEF Counting, Stale, Protected
  <2>4. b \in committed /\ mani[b].start \in Int  BY DEF Counting, RBase, Manifests
  <2>5. Floored(mani[b].start)  BY <1>4, <2>3, <2>4 DEF Floored
  <2>6. (Floored(prune.frontier))'  BY <2>1, <2>2, <2>5 DEF Floored, Protected
  <2>. QED  BY <1>b, <1>p, <2>1, <2>2, <2>6 DEF PruneInv
<1>5. ASSUME NEW x \in wal, PruneSegment(x) PROVE PruneInv'
  <2>1. /\ prune.pc = "walk" /\ EndOfSegment(x) < prune.frontier
        /\ pruned' = pruned \cup {x}
        /\ prune'.pc = prune.pc /\ prune'.cutoff = prune.cutoff /\ prune'.frontier = prune.frontier
    BY <1>5, <1>b DEF PruneSegment, Listed, Prunable, EndOfSegment, Prunes
  <2>2. EndOfSegment(x) \in Int  BY <1>e DEF RBase
  <2>3. \A b \in committed : mani[b].start \in Int  BY DEF RBase, Manifests
  <2>4. Floored(EndOfSegment(x))
    BY <1>b, <1>f, <2>1, <2>2, <2>3 DEF Floored
  <2>5. Floored(EndOfSegment(x))'  BY <2>2, <2>4, FlooredKept
  <2>6. prune'.pc = "walk" => Floored(prune.frontier)'  BY <1>b, <1>f, <2>1 DEF Floored
  <2>. QED  BY <1>b, <1>p, <2>1, <2>5, <2>6 DEF PruneInv
<1>6. ASSUME NEW x \in wal, SpareSegment(x) \/ PastBoundary(x) PROVE PruneInv'
  BY <1>1, <1>6, <1>b DEF SpareSegment, PastBoundary, Prunes
<1>7. CASE EndPrune  BY <1>3, <1>7 DEF EndPrune
<1>8. CASE Frontier  BY <1>3, <1>4, <1>8 DEF Frontier
<1>9. CASE UNCHANGED <<prune, pruned>>  BY <1>1, <1>9
<1>. QED
  BY <1>2, <1>5, <1>6, <1>7, <1>8, <1>9
  DEF Next, vars, Tick, Write, AbortBackup, Failover, BeginBackup, CommitBackup, PutHold,
      RemoveHold, Undelete, ListBackups, FilterHeld, DeleteBatch, DeleteNext, EndRotation

\* A behaviour is of one world.
LEMMA SameWorld == [Next]_vars => world' = world
BY DEF Next, vars, Tick, Write, AbortBackup, Failover, BeginBackup, CommitBackup, PutHold,
      RemoveHold, Undelete, ListBackups, FilterHeld, DeleteBatch, DeleteNext, EndRotation,
      BeginPrune, Frontier, EndPrune, PruneSegment, SpareSegment, PastBoundary

\* No segment that a protected backup replays has been pruned.
LEMMA PruneSafe == ASSUME RBase, PruneInv PROVE WALKept
<1>1. SUFFICES ASSUME NEW b \in committed, Protected(b), NEW x \in pruned, Replays(b, x) PROVE FALSE
  BY DEF WALKept, WALWhole, Protected
<1>2. EndOfSegment(x) <= mani[b].start  BY <1>1 DEF PruneInv, Floored
<1>3. EndOfSegment(x) > mani[b].start  BY <1>1 DEF Replays, EndOfSegment
<1>4. EndOfSegment(x) \in Int /\ mani[b].start \in Int
  <2>1. x \in Nat \X Nat /\ SegSize \in Nat  BY RConstants DEF RBase
  <2>2. EndOfSegment(x) \in Int  BY <2>1 DEF EndOfSegment
  <2>3. mani[b].start \in Int  BY <1>1 DEF RBase, Manifests
  <2>. QED  BY <2>2, <2>3
<1>. QED  BY <1>2, <1>3, <1>4

\* wal prune never takes WAL from a backup that is listed or may still be
\* undeleted (repo/walprune.go), for any number of backups, prunes, rotations
\* and whatever the policies, as long as nobody undeletes after the grace and no
\* failover rewinds behind a backup's start.
THEOREM WALNeverTaken ==
  Spec => [](Timely => WALKept)
<1>1. Init => WALInv
  BY RInitBase DEF Init, PruneOver, Idle, WALInv, StartInv, PruneInv
<1>2. WALInv /\ [Next]_vars => WALInv'
  <2>1. SUFFICES ASSUME WALInv, [Next]_vars PROVE WALInv'  OBVIOUS
  <2>2. RBase'  BY <2>1, RBaseKept DEF WALInv
  <2>3. Timely' => Timely  BY <2>1, SameWorld DEF Timely
  <2>4. Timely => StartInv' /\ PruneInv'
    BY <2>1, StartInvKept, PruneInvKept DEF WALInv
  <2>. QED  BY <2>2, <2>3, <2>4 DEF WALInv
<1>3. WALInv => (Timely => WALKept)  BY PruneSafe DEF WALInv
<1>. QED  BY <1>1, <1>2, <1>3, PTL DEF Spec

-----------------------------------------------------------------------------
(* Retention: chains.                                                        *)

\* Every set of numbers has a least member.
LEMMA LeastOf ==
  ASSUME NEW T, T \subseteq Nat, T # {}
  PROVE  \E x \in T : \A y \in T : x <= y
<1>. DEFINE Less == OpToRel(<, Nat)
<1>1. IsWellFoundedOn(Less, Nat)  BY NatLessThanWellFounded
<1>2. PICK x \in T : \A y \in T : ~(<<y, x>> \in Less)
  <2>. HIDE DEF Less
  <2>. QED  BY <1>1, WFMin
<1>3. \A y \in T : ~(y < x)  BY <1>2 DEF OpToRel
<1>. QED  BY <1>3

\* The function that defines Up.
IsUp(G, L) ==
    G = [c \in 0 .. MaxBackups |->
            IF c = 0 \/ mani[c].parent \notin L THEN {} ELSE {mani[c].parent} \cup G[mani[c].parent]]

\* Up is such a function, if there is one.
LEMMA UpIsUp ==
  ASSUME NEW L, NEW F, IsUp(F, L)
  PROVE  \E G : IsUp(G, L) /\ \A b : Up(L, b) = G[b]
BY Zenon DEF IsUp, Up

\* There is one: what every set of L that has c's parent, and the parents of its own, has.
LEMMA UpExists ==
  ASSUME RBase, NEW L \in SUBSET Backups
  PROVE  \E F : IsUp(F, L)
<1>. DEFINE Par(c) == IF c = 0 THEN 0 ELSE mani[c].parent
            Closed(C) == \A x \in C : Par(x) \in L => Par(x) \in C
            Above(c) == {a \in L : \A C \in SUBSET L : Closed(C) /\ (Par(c) \in L => Par(c) \in C) => a \in C}
            F == [c \in 0 .. MaxBackups |-> Above(c)]
<1>0. 0 \notin L /\ L \subseteq 0 .. MaxBackups  BY RConstants DEF Backups
<1>1. ASSUME NEW c \in 0 .. MaxBackups, Par(c) \notin L PROVE Above(c) = {}
  <2>. HIDE DEF Par
  <2>1. {} \in SUBSET L /\ Closed({})  OBVIOUS
  <2>. HIDE DEF Closed
  <2>2. \A a \in Above(c) : a \in {}  BY <1>1, <2>1
  <2>. QED  BY <2>2
<1>2. ASSUME NEW c \in 0 .. MaxBackups, Par(c) \in L PROVE Above(c) = {Par(c)} \cup Above(Par(c))
  <2>. DEFINE u == Par(c)
              D == {u} \cup Above(u)
  <2>. HIDE DEF Par
  <2>1. D \subseteq Above(c)
    <3>1. ASSUME NEW C \in SUBSET L, Closed(C), u \in C, NEW a \in D PROVE a \in C  BY <3>1
    <3>2. ASSUME NEW a \in D PROVE a \in Above(c)
      <4>1. a \in L  BY <1>2
      <4>2. \A C \in SUBSET L : Closed(C) /\ (Par(c) \in L => Par(c) \in C) => a \in C  BY <1>2, <3>1
      <4>. HIDE DEF D
      <4>. QED  BY <4>1, <4>2
    <3>. QED  BY <3>2
  <2>2. Closed(Above(u))
    <3>. SUFFICES ASSUME NEW y \in Above(u), Par(y) \in L PROVE Par(y) \in Above(u)  OBVIOUS
    <3>1. ASSUME NEW C \in SUBSET L, Closed(C), Par(u) \in L => Par(u) \in C PROVE Par(y) \in C  BY <3>1
    <3>. QED  BY <3>1
  <2>3. Par(u) \in L => Par(u) \in Above(u)  OBVIOUS
  <2>4. D \in SUBSET L /\ Closed(D) /\ u \in D  BY <1>2, <2>2, <2>3
  <2>5. Above(c) \subseteq D  BY <1>2, <2>4
  <2>. QED  BY <2>1, <2>5
<1>. HIDE DEF Above
<1>3. IsUp(F, L)
  <2>1. ASSUME NEW c \in 0 .. MaxBackups
        PROVE  F[c] = IF c = 0 \/ mani[c].parent \notin L THEN {} ELSE {mani[c].parent} \cup F[mani[c].parent]
    BY <1>0, <1>1, <1>2
  <2>2. F = [c \in 0 .. MaxBackups |-> F[c]]  OBVIOUS
  <2>. HIDE DEF F
  <2>. QED  BY <2>1, <2>2 DEF IsUp
<1>. QED  BY <1>3

\* Up is what its definition says.
LEMMA UpRec ==
  ASSUME RBase, NEW L \in SUBSET Backups, NEW b \in Backups
  PROVE  Up(L, b) = IF mani[b].parent \notin L THEN {} ELSE {mani[b].parent} \cup Up(L, mani[b].parent)
<1>1. PICK G : IsUp(G, L) /\ \A c : Up(L, c) = G[c]  BY UpExists, UpIsUp
<1>2. b \in 0 .. MaxBackups /\ b # 0  BY RConstants DEF Backups
<1>3. G[b] = IF mani[b].parent \notin L THEN {} ELSE {mani[b].parent} \cup G[mani[b].parent]
  BY <1>1, <1>2 DEF IsUp
<1>. QED  BY <1>1, <1>3

\* What holds of a backup if it holds of its parent in L holds of all backups.
LEMMA Upwards ==
  ASSUME RBase, NEW L \in SUBSET Backups, NEW Good,
         \A b \in Backups : (mani[b].parent \in L => mani[b].parent \in Good) => b \in Good
  PROVE  Backups \subseteq Good
<1>. DEFINE T == Backups \ Good
<1>1. SUFFICES ASSUME T # {} PROVE FALSE  OBVIOUS
<1>2. T \subseteq Nat  BY DEF Backups
<1>3. PICK x \in T : \A y \in T : x <= y
  <2>. HIDE DEF T
  <2>. QED  BY <1>1, <1>2, LeastOf
<1>4. mani[x].parent \in L /\ mani[x].parent \notin Good  OBVIOUS
<1>5. mani[x].parent \in Nat /\ x \in Nat /\ mani[x].parent < x
  <2>1. x \in Backups /\ mani[x].parent \in Backups  BY <1>4
  <2>2. mani[x].parent # 0 /\ mani[x].parent \in Nat /\ x \in Nat  BY <2>1, RConstants DEF Backups
  <2>. QED  BY <2>1, <2>2 DEF RBase
<1>6. mani[x].parent \in T  BY <1>4
<1>. QED  BY <1>3, <1>5, <1>6

\* What b is built upon is in the listing, and so is what that is built upon.
LEMMA UpClosed ==
  ASSUME RBase, NEW L \in SUBSET Backups, NEW b \in Backups
  PROVE  Up(L, b) \subseteq L /\ \A a \in Up(L, b) : Up(L, a) \subseteq Up(L, b)
<1>. DEFINE Good == {c \in Backups : Up(L, c) \subseteq L /\ \A a \in Up(L, c) : Up(L, a) \subseteq Up(L, c)}
<1>1. ASSUME NEW c \in Backups, mani[c].parent \in L => mani[c].parent \in Good PROVE c \in Good
  <2>1. CASE mani[c].parent \notin L
    <3>1. Up(L, c) = {}  BY <2>1, UpRec
    <3>. QED  BY <3>1
  <2>2. CASE mani[c].parent \in L
    <3>1. Up(L, c) = {mani[c].parent} \cup Up(L, mani[c].parent)  BY <2>2, UpRec
    <3>2. mani[c].parent \in Good  BY <1>1, <2>2
    <3>. QED  BY <2>2, <3>1, <3>2
  <2>. QED  BY <2>1, <2>2
<1>2. Backups \subseteq Good
  <2>. HIDE DEF Good
  <2>. QED  BY <1>1, Upwards
<1>. QED  BY <1>2

\* A set that has the parents of its own has all that they are built upon.
LEMMA UpWithin ==
  ASSUME RBase, NEW L \in SUBSET Backups, NEW S \in SUBSET Backups,
         \A b \in S : mani[b].parent \in L => mani[b].parent \in S,
         NEW b \in S
  PROVE  Up(L, b) \subseteq S
<1>. DEFINE Good == {c \in Backups : c \in S => Up(L, c) \subseteq S}
<1>1. ASSUME NEW c \in Backups, mani[c].parent \in L => mani[c].parent \in Good PROVE c \in Good
  <2>1. CASE mani[c].parent \notin L
    <3>1. Up(L, c) = {}  BY <2>1, UpRec
    <3>. QED  BY <3>1
  <2>2. CASE mani[c].parent \in L
    <3>1. Up(L, c) = {mani[c].parent} \cup Up(L, mani[c].parent)  BY <2>2, UpRec
    <3>2. mani[c].parent \in Good  BY <1>1, <2>2
    <3>. QED  BY <2>2, <3>1, <3>2
  <2>. QED  BY <2>1, <2>2
<1>2. Backups \subseteq Good
  <2>. HIDE DEF Good
  <2>. QED  BY <1>1, Upwards
<1>. QED  BY <1>2

\* Of any listing one is the newest.
LEMMA OneIsNewest ==
  ASSUME RBase, NEW L \in SUBSET Backups, L # {}
  PROVE  Newest(L) # {}
<1>. DEFINE Ages == {now - mani[b].stopped : b \in L}
<1>0. \A b \in L : b \in 1 .. MaxBackups /\ mani[b].stopped \in Nat /\ mani[b].stopped <= now /\ now \in Nat
  BY DEF RBase, Manifests, Backups
<1>1. Ages \subseteq Nat /\ Ages # {}  BY <1>0
<1>2. PICK age \in Ages : \A y \in Ages : age <= y
  <2>. HIDE DEF Ages
  <2>. QED  BY <1>1, LeastOf
<1>3. PICK b0 \in L : age = now - mani[b0].stopped  OBVIOUS
<1>4. ASSUME NEW c \in L PROVE mani[c].stopped <= mani[b0].stopped
  <2>1. now - mani[c].stopped \in Ages  OBVIOUS
  <2>2. age <= now - mani[c].stopped  BY <1>2, <2>1
  <2>. HIDE DEF Ages
  <2>. QED  BY <1>0, <1>3, <2>2
<1>. DEFINE Ranks == {MaxBackups - b : b \in {c \in L : mani[c].stopped = mani[b0].stopped}}
<1>5. Ranks \subseteq Nat /\ Ranks # {}  BY <1>0, RConstants
<1>6. PICK rank \in Ranks : \A y \in Ranks : rank <= y
  <2>. HIDE DEF Ranks
  <2>. QED  BY <1>5, LeastOf
<1>7. PICK b \in L : rank = MaxBackups - b /\ mani[b].stopped = mani[b0].stopped  OBVIOUS
<1>8. ASSUME NEW c \in L, mani[c].stopped = mani[b0].stopped PROVE c <= b
  <2>1. MaxBackups - c \in Ranks  BY <1>8
  <2>2. rank <= MaxBackups - c  BY <1>6, <2>1
  <2>. HIDE DEF Ranks
  <2>. QED  BY <1>0, <1>7, <2>2, RConstants
<1>9. ASSUME NEW c \in L \ {b} PROVE Before(b, c)
  BY <1>0, <1>4, <1>7, <1>8 DEF Before
<1>. QED  BY <1>9 DEF Newest

\* Listed backups are built upon listed ones; one stays, whatever a rotation
\* has on its list; and what rotate deletes at once leaves no child behind.
KeepInv ==
    /\ \A b \in Live : mani[b].parent = 0 \/ mani[b].parent \in Live
    /\ committed # {} => Live # {}
    /\ rotate.pc # "idle" => Live \ rotate.plan # {}
    /\ rotate.pc \in {"cli", "batch"} =>
         \A b \in rotate.list \ rotate.plan : mani[b].parent \notin rotate.plan

\* What a policy keeps, the newest among it, is kept with all it is built upon.
LEMMA KeptIsClosed ==
  ASSUME RBase, NEW L \in SUBSET Backups, NEW policy \in Policies,
         NEW b \in Kept(policy, L)
  PROVE  Up(L, b) \subseteq Kept(policy, L)
<1>. DEFINE K == Claimed(policy, L) \cup Newest(L) \cup Undatable(L)
<1>0. K \subseteq L
  <2>1. Claimed(policy, L) \subseteq L
    <3>1. Within(L, policy.keepFor) \subseteq L  BY DEF Within
    <3>2. Fulls(L, policy.keep) \subseteq L  BY DEF Fulls
    <3>3. \A period, keep : PerBucket(L, period, keep) \subseteq L  BY DEF PerBucket
    <3>4. policy.kind \in {"simple", "count", "gfs"}  BY RetentionAssumption
    <3>. QED  BY <3>1, <3>2, <3>3, <3>4 DEF Claimed
  <2>. QED  BY <2>1 DEF Newest, Undatable
<1>1. Kept(policy, L) = K \cup UNION {Up(L, k) : k \in K}  BY DEF Kept, ChainAnchors
<1>. HIDE DEF K
<1>2. CASE b \in K  BY <1>1, <1>2
<1>3. ASSUME NEW k \in K, b \in Up(L, k) PROVE Up(L, b) \subseteq Kept(policy, L)
  <2>1. k \in Backups  BY <1>0
  <2>2. Up(L, b) \subseteq Up(L, k)  BY <1>3, <2>1, UpClosed
  <2>. QED  BY <1>1, <2>2
<1>. QED  BY <1>1, <1>2, <1>3

\* A delete that the store accepts leaves every chain whole.
LEMMA DeleteKeepsChains ==
  ASSUME RBase, NEW D \in SUBSET committed, Delete(D), Deletable(D),
         UNCHANGED <<committed, mani>>,
         \A b \in Live : mani[b].parent = 0 \/ mani[b].parent \in Live
  PROVE  /\ Live' = Live \ D
         /\ \A b \in Live' : mani'[b].parent = 0 \/ mani'[b].parent \in Live'
<1>1. Live' = Live \ D
  <2>1. \A b \in Backups : tomb'[b] = IF b \in D /\ tomb[b] = Never THEN now ELSE tomb[b]
    BY DEF Delete, Mark
  <2>2. now # Never  BY RConstants DEF RBase
  <2>. QED  BY <2>1, <2>2 DEF Live, RBase
<1>2. ASSUME NEW b \in Live \ D, mani[b].parent # 0 PROVE mani[b].parent \in Live \ D
  <2>1. mani[b].parent \in Live /\ b \in Backups /\ Live \in SUBSET Backups
    BY <1>2 DEF Live, RBase
  <2>2. mani[b].parent \in Up(Live, b)  BY <2>1, UpRec
  <2>. QED  BY <1>2, <2>1, <2>2 DEF Deletable
<1>. QED  BY <1>1, <1>2

\* Every step keeps the chains whole, and one backup.
LEMMA ChainsKept ==
  ASSUME RBase, KeepInv, [Next]_vars
  PROVE  /\ \A b \in Live' : mani'[b].parent = 0 \/ mani'[b].parent \in Live'
         /\ committed' # {} => Live' # {}
         /\ rotate'.pc # "idle" => Live' \ rotate'.plan # {}
<1>. DEFINE Chains == /\ \A b \in Live' : mani'[b].parent = 0 \/ mani'[b].parent \in Live'
                      /\ committed' # {} => Live' # {}
                      /\ rotate'.pc # "idle" => Live' \ rotate'.plan # {}
<1>. SUFFICES Chains  OBVIOUS
<1>. USE DEF primary, store
<1>b. rotate \in Rotations /\ Live \in SUBSET committed /\ Live \in SUBSET Backups  BY DEF Live, RBase
<1>1. ASSUME UNCHANGED <<committed, mani, tomb>>, rotate'.pc # "idle" => Live \ rotate'.plan # {} PROVE Chains
  <2>1. Live' = Live  BY <1>1 DEF Live
  <2>. QED  BY <1>1, <2>1 DEF KeepInv
<1>2. CASE UNCHANGED <<committed, mani, tomb, rotate>>  BY <1>1, <1>2 DEF KeepInv
<1>3. ASSUME NEW b \in Backups, CommitBackup(b) PROVE Chains
  <2>1. b \notin committed  BY <1>3, NextBackup DEF CommitBackup
  <2>2. committed' = committed \cup {b} /\ UNCHANGED <<tomb, rotate>> /\ (taking.parent = 0 \/ taking.parent \in Live)
    BY <1>3 DEF CommitBackup
  <2>3. mani'[b].parent = taking.parent /\ \A c \in committed : mani'[c] = mani[c]
    BY <1>3, <2>1 DEF CommitBackup, RBase
  <2>4. Live' = Live \cup {b}  BY <1>3, <2>1, <2>2 DEF Live, RBase
  <2>. QED  BY <1>b, <2>2, <2>3, <2>4 DEF KeepInv
<1>4. ASSUME NEW policy \in Policies, NEW by \in {"cli", "agent"}, ListBackups(policy, by) PROVE Chains
  <2>1. rotate'.plan = Live \ Kept(policy, Live) /\ Live # {} /\ UNCHANGED <<committed, mani, tomb>>
    BY <1>4 DEF ListBackups
  <2>2. Newest(Live) # {} /\ Newest(Live) \subseteq Live  BY <1>b, <2>1, OneIsNewest DEF Newest
  <2>3. Newest(Live) \subseteq Kept(policy, Live)  BY DEF Kept
  <2>. QED  BY <1>1, <2>1, <2>2, <2>3
<1>5. CASE FilterHeld
  <2>1. rotate'.plan \subseteq rotate.plan /\ rotate.pc # "idle" /\ UNCHANGED <<committed, mani, tomb>>
    BY <1>5, <1>b DEF FilterHeld, Rotations
  <2>. QED  BY <1>1, <2>1 DEF KeepInv
<1>6. CASE DeleteBatch
  <2>1. rotate'.pc = "idle" /\ UNCHANGED <<committed, mani>>  BY <1>6 DEF DeleteBatch, RotationOver
  <2>2. CASE tomb' = tomb  BY <1>1, <2>1, <2>2
  <2>3. CASE Delete(rotate.plan) /\ Deletable(rotate.plan)
    <3>1. rotate.plan \in SUBSET committed  BY DEF RBase
    <3>2. /\ Live' = Live \ rotate.plan
          /\ \A b \in Live' : mani'[b].parent = 0 \/ mani'[b].parent \in Live'
      BY <2>1, <2>3, <3>1, DeleteKeepsChains DEF KeepInv
    <3>3. Live \ rotate.plan # {}  BY <1>6 DEF DeleteBatch, KeepInv
    <3>. QED  BY <2>1, <3>2, <3>3
  <2>. QED  BY <1>6, <2>2, <2>3 DEF DeleteBatch
<1>7. CASE DeleteNext
  <2>1. PICK b \in Newest(rotate.plan) : /\ IF Deletable({b}) THEN Delete({b}) ELSE UNCHANGED tomb
                                         /\ rotate' = [rotate EXCEPT !.plan = @ \ {b}]
    BY <1>7 DEF DeleteNext
  <2>2. UNCHANGED <<committed, mani>> /\ rotate.pc # "idle"  BY <1>7 DEF DeleteNext
  <2>3. b \in rotate.plan /\ rotate'.plan = rotate.plan \ {b}  BY <1>b, <2>1 DEF Newest, Rotations
  <2>4. PICK c \in Live : c \notin rotate.plan  BY <2>2 DEF KeepInv
  <2>5. CASE tomb' = tomb  BY <1>1, <2>2, <2>3, <2>4, <2>5
  <2>6. CASE Delete({b}) /\ Deletable({b})
    <3>1. {b} \in SUBSET committed  BY <2>3 DEF RBase
    <3>2. /\ Live' = Live \ {b}
          /\ \A d \in Live' : mani'[d].parent = 0 \/ mani'[d].parent \in Live'
      BY <2>2, <2>6, <3>1, DeleteKeepsChains DEF KeepInv
    <3>. QED  BY <2>3, <2>4, <3>2
  <2>. QED  BY <2>1, <2>5, <2>6
<1>8. CASE EndRotation
  BY <1>1, <1>8 DEF EndRotation, RotationOver
<1>9. ASSUME NEW b \in Backups, Undelete(b) PROVE Chains
  <2>1. /\ b \in committed /\ UNCHANGED <<committed, mani, rotate>>
        /\ mani[b].parent = 0 \/ mani[b].parent \in Live
    BY <1>9 DEF Undelete
  <2>2. Live' = Live \cup {b}  BY <1>9, <2>1 DEF Undelete, Live, RBase
  <2>. QED  BY <2>1, <2>2 DEF KeepInv
<1>. QED
  BY <1>2, <1>3, <1>4, <1>5, <1>6, <1>7, <1>8, <1>9
  DEF Next, vars, Tick, Write, AbortBackup, Failover, BeginBackup, PutHold, RemoveHold,
      BeginPrune, Frontier, EndPrune, PruneSegment, SpareSegment, PastBoundary

\* Every step keeps what rotate deletes at once chain-safe.
LEMMA PlanKept ==
  ASSUME RBase, KeepInv, [Next]_vars, rotate'.pc \in {"cli", "batch"}
  PROVE  \A b \in rotate'.list \ rotate'.plan : mani'[b].parent \notin rotate'.plan
<1>. DEFINE Safe == \A b \in rotate'.list \ rotate'.plan : mani'[b].parent \notin rotate'.plan
<1>. SUFFICES Safe  OBVIOUS
<1>. USE DEF primary, store
<1>b. rotate \in Rotations /\ rotate.list \in SUBSET committed /\ rotate.list \in SUBSET Backups
      /\ rotate.plan \subseteq rotate.list /\ Live \in SUBSET Backups
  BY DEF RBase, Live
<1>1. CASE UNCHANGED <<mani, rotate>>  BY <1>1 DEF KeepInv
<1>2. ASSUME NEW b \in Backups, CommitBackup(b) PROVE Safe
  <2>1. b \notin committed  BY <1>2, NextBackup DEF CommitBackup
  <2>2. rotate' = rotate /\ \A c \in committed : mani'[c] = mani[c]
    BY <1>2, <2>1 DEF CommitBackup, RBase
  <2>. QED  BY <1>b, <2>2 DEF KeepInv
<1>3. ASSUME NEW policy \in Policies, NEW by \in {"cli", "agent"}, ListBackups(policy, by) PROVE Safe
  <2>1. rotate'.list = Live /\ rotate'.plan = Live \ Kept(policy, Live) /\ mani' = mani
    BY <1>3 DEF ListBackups
  <2>2. ASSUME NEW b \in Live, b \in Kept(policy, Live), mani[b].parent \in Live
        PROVE  mani[b].parent \in Kept(policy, Live)
    <3>1. mani[b].parent \in Up(Live, b)  BY <1>b, <2>2, UpRec
    <3>2. Up(Live, b) \subseteq Kept(policy, Live)  BY <1>b, <2>2, KeptIsClosed
    <3>. QED  BY <3>1, <3>2
  <2>. QED  BY <2>1, <2>2
<1>4. CASE FilterHeld
  <2>. DEFINE H == rotate.plan \cap held
              Spared == H \cup UNION {Up(rotate.list, h) : h \in H}
  <2>1. rotate'.list = rotate.list /\ rotate'.plan = rotate.plan \ Spared /\ mani' = mani /\ rotate.pc = "cli"
    BY <1>4, <1>b DEF FilterHeld, Rotations
  <2>2. ASSUME NEW b \in Spared, b \in rotate.list, mani[b].parent \in rotate.list PROVE mani[b].parent \in Spared
    <3>1. mani[b].parent \in Up(rotate.list, b)  BY <1>b, <2>2, UpRec
    <3>2. PICK h \in H : b = h \/ b \in Up(rotate.list, h)  BY <2>2
    <3>3. Up(rotate.list, b) \subseteq Up(rotate.list, h)
      <4>1. h \in Backups  BY <1>b
      <4>. QED  BY <1>b, <3>2, <4>1, UpClosed
    <3>. QED  BY <3>1, <3>3
  <2>. HIDE DEF Spared
  <2>3. ASSUME NEW b \in rotate.list, b \notin rotate.plan \ Spared, mani[b].parent \in rotate.plan
        PROVE  mani[b].parent \in Spared
    <3>1. CASE b \in Spared  BY <1>b, <2>2, <2>3, <3>1
    <3>2. CASE b \notin rotate.plan  BY <2>1, <2>3, <3>2 DEF KeepInv
    <3>. QED  BY <2>3, <3>1, <3>2
  <2>. QED  BY <2>1, <2>3
<1>5. CASE DeleteBatch \/ EndRotation
  BY <1>5 DEF DeleteBatch, EndRotation, RotationOver
<1>6. CASE DeleteNext
  <2>1. PICK b : rotate.pc = "agent" /\ rotate' = [rotate EXCEPT !.plan = @ \ {b}]
    BY <1>6 DEF DeleteNext
  <2>2. rotate'.pc = rotate.pc  BY <1>b, <2>1 DEF Rotations
  <2>. QED  BY <2>1, <2>2
<1>7. \/ UNCHANGED <<mani, rotate>>
      \/ \E b \in Backups : CommitBackup(b)
      \/ \E policy \in Policies, by \in {"cli", "agent"} : ListBackups(policy, by)
      \/ FilterHeld \/ DeleteBatch \/ EndRotation \/ DeleteNext
  BY DEF Next, vars, Tick, Write, AbortBackup, Failover, BeginBackup, PutHold, RemoveHold,
         BeginPrune, Frontier, EndPrune, PruneSegment, SpareSegment, PastBoundary, Undelete
<1>. HIDE DEF Safe
<1>. QED  BY <1>1, <1>2, <1>3, <1>4, <1>5, <1>6, <1>7

\* KeepInv holds in the initial states.
LEMMA InitKeep == Init => KeepInv
BY DEF Init, RotationOver, Live, KeepInv

\* Every step keeps it.
LEMMA KeepKept ==
  ASSUME RBase, KeepInv, [Next]_vars
  PROVE  KeepInv'
BY ChainsKept, PlanKept DEF KeepInv

\* "The policy's finalize guarantees the set is chain-safe" (cli/rotate.go): what
\* rotate is about to delete leaves no backup of its listing without what it is
\* built upon, for any policies, holds, chains and listings.
THEOREM RotationsChainSafe ==
  Spec => []PlanChainSafe
<1>1. Init => RBase /\ KeepInv  BY RInitBase, InitKeep
<1>2. RBase /\ KeepInv /\ [Next]_vars => (RBase /\ KeepInv)'  BY RBaseKept, KeepKept
<1>3. RBase /\ KeepInv => PlanChainSafe
  <2>1. SUFFICES ASSUME RBase, KeepInv, rotate.pc = "batch", NEW b \in rotate.list \ rotate.plan
                 PROVE  Up(rotate.list, b) \cap rotate.plan = {}
    BY DEF PlanChainSafe
  <2>2. rotate.list \in SUBSET Backups /\ rotate.list \ rotate.plan \in SUBSET Backups  BY <2>1 DEF RBase
  <2>3. \A c \in rotate.list \ rotate.plan :
           mani[c].parent \in rotate.list => mani[c].parent \in rotate.list \ rotate.plan
    BY <2>1 DEF KeepInv
  <2>4. Up(rotate.list, b) \subseteq rotate.list \ rotate.plan
    <3>. DEFINE S == rotate.list \ rotate.plan
    <3>1. S \in SUBSET Backups /\ b \in S /\ \A c \in S : mani[c].parent \in rotate.list => mani[c].parent \in S
      BY <2>2, <2>3
    <3>. HIDE DEF S
    <3>2. Up(rotate.list, b) \subseteq S  BY <2>1, <2>2, <3>1, UpWithin
    <3>. QED  BY <3>2 DEF S
  <2>. QED  BY <2>4
<1>. QED  BY <1>1, <1>2, <1>3, PTL DEF Spec

\* Once there is a backup there is one that can be restored: listed, with all
\* it is built upon listed and its WAL in the repository, whatever policies,
\* rotations, holds, undeletes, prunes and failovers do to the others.
THEOREM AlwaysRecoverable ==
  Spec => [](Timely => RecoveryPossible)
<1>1. Init => RBase /\ KeepInv  BY RInitBase, InitKeep
<1>2. RBase /\ KeepInv /\ [Next]_vars => (RBase /\ KeepInv)'  BY RBaseKept, KeepKept
<1>3. RBase /\ KeepInv /\ WALKept => RecoveryPossible
  <2>1. SUFFICES ASSUME RBase, KeepInv, WALKept, committed # {}
                 PROVE  \E b \in Live : Up(committed, b) \subseteq Live /\ WALWhole(b)
    BY DEF RecoveryPossible
  <2>2. PICK b \in Live : TRUE  BY <2>1 DEF KeepInv
  <2>3. Live \in SUBSET Backups /\ committed \in SUBSET Backups /\ 0 \notin committed
    <3>1. committed \in SUBSET Backups /\ Live \in SUBSET committed  BY <2>1 DEF Live, RBase
    <3>2. 0 \notin Backups  BY RConstants DEF Backups
    <3>. QED  BY <3>1, <3>2
  <2>4. Up(committed, b) \subseteq Live
    <3>1. \A c \in Live : mani[c].parent \in committed => mani[c].parent \in Live
      BY <2>1, <2>3 DEF KeepInv
    <3>. QED  BY <2>1, <2>3, <3>1, UpWithin
  <2>5. WALWhole(b)  BY <2>1 DEF WALKept, Live
  <2>. QED  BY <2>4, <2>5
<1>. QED  BY <1>1, <1>2, <1>3, WALNeverTaken, PTL DEF Spec

-----------------------------------------------------------------------------
(* Failover: gaps that the coordinator detects.                              *)

\* A detected gap is on record, reported, or in the coordinator's hands.
DetectedInv == detected \subseteq gaps \cup lostGaps \cup {g \in {gap} : fpc \in {"persist", "final"}}

\* Every step keeps it.
LEMMA DetectedKept == DetectedInv /\ [FailoverNext]_failoverVars => DetectedInv'
<1>. SUFFICES ASSUME DetectedInv, [FailoverNext]_failoverVars PROVE DetectedInv'  OBVIOUS
<1>. USE DEF cluster, backups, reports, stream, agent
<1>1. CASE UNCHANGED <<detected, gaps, lostGaps, gap, fpc>>  BY <1>1 DEF DetectedInv
<1>2. CASE RecordPreStreamGap
  <2>1. gaps \subseteq gaps' /\ lostGaps \subseteq lostGaps' /\ UNCHANGED <<detected, gap, fpc>>
    BY <1>2 DEF RecordPreStreamGap
  <2>. QED  BY <2>1 DEF DetectedInv
<1>3. CASE GapPurge
  <2>1. /\ gaps' = {g \in gaps : ~Orphan(g)} /\ detected' = {g \in detected : ~Orphan(g)}
        /\ UNCHANGED <<lostGaps, gap, fpc>>
    BY <1>3 DEF GapPurge
  <2>. QED  BY <2>1 DEF DetectedInv
<1>4. CASE AgentCrash \/ AgentStops
  BY <1>4 DEF AgentCrash, AgentStops, Off, DetectedInv
<1>5. CASE ReconcileSlot
  BY <1>5 DEF ReconcileSlot, DetectedInv
<1>6. CASE PersistGap
  BY <1>6 DEF PersistGap, DetectedInv
<1>7. CASE PersistGapFails
  BY <1>7 DEF PersistGapFails, AfterCancel, DetectedInv
<1>8. CASE GapPersistFailed
  BY <1>8 DEF GapPersistFailed, DetectedInv
<1>9. ASSUME fpc \notin {"persist", "final"}, fpc' \notin {"persist", "final"}, UNCHANGED <<detected, gaps, lostGaps>>
      PROVE  DetectedInv'
  BY <1>9 DEF DetectedInv
<1>10. CASE \/ AgentStart \/ Poll \/ PollNoLeader \/ ReconcileFails
            \/ CaptureHistory \/ CaptureHistoryFails \/ Backfill
  BY <1>9, <1>10 DEF AgentStart, Poll, PollNoLeader, ReconcileFails, CaptureHistory,
     CaptureHistoryFails, Backfill
<1>11. CASE ClusterStep
  BY <1>1, <1>11 DEF ClusterStep, WriteWAL, Promote, Recycle
<1>12. CASE StreamStep
  BY <1>1, <1>2, <1>12 DEF StreamStep, Identify, CaptureStreamHistory, EnsureStreamSlot, Resolve,
     Connect, Archive, RemovedMeanwhile, Feedback, StreamEnds
<1>13. CASE SetupFails \/ StreamBreaks \/ ExplicitStart \/ BackupStops \/ BackupCommits \/ DeleteBackup
  BY <1>1, <1>13 DEF SetupFails, StreamBreaks, ExplicitStart, BackupStops, BackupCommits, DeleteBackup
<1>14. CASE Shutdown \/ UNCHANGED failoverVars  BY <1>1, <1>14 DEF Shutdown, failoverVars
<1>. QED
  BY <1>3, <1>4, <1>5, <1>6, <1>7, <1>8, <1>10, <1>11, <1>12, <1>13, <1>14 DEF FailoverNext, AgentStep

\* A gap that the coordinator detected is on record, or reported as lost, by the
\* time it turns to anything else (follower/coordinator.go), through failing
\* writes, a shutdown in the middle, and purges, however many failovers there are.
THEOREM DetectedAlwaysKept == FailoverSpec => []DetectedIsKept
<1>1. FailoverInit => DetectedInv  BY DEF FailoverInit, DetectedInv
<1>2. DetectedInv => DetectedIsKept  BY DEF DetectedInv, DetectedIsKept
<1>. QED  BY <1>1, <1>2, DetectedKept, PTL DEF FailoverSpec

-----------------------------------------------------------------------------
(* Failover: the history files that 'latest' needs.                          *)

\* The history files up to t are there, or a warning named one of them or a later one.
Covered(t) == \A u \in 2 .. t : u \in hist \/ \E w \in lostHist : w >= u

\* Not: an agent, several failovers and failing calls.  A Get that fails makes
\* backfillTimelineHistory pass over a file and tell nobody.
Heard == ~({"agent", "storm", "fail"} \subseteq scenario)

\* Timelines descend from earlier ones, and there are two unless promotions storm.
LineInv ==
    /\ tli \in Timelines
    /\ anc \in [Timelines -> SUBSET Timelines] /\ \A t \in Timelines : \A a \in anc[t] : a <= t
    /\ "storm" \notin scenario => tli <= 2
    /\ stli \in 0 .. tli /\ current \in 0 .. tli
    /\ IF fpc = "off" THEN current = 0 ELSE "agent" \in scenario
    /\ arch = [t \in Timelines |-> arch[t]]

\* What the stream archives is covered from the time it has asked for the files;
\* the coordinator's leader is once it has gone through its ancestors.
HistInv ==
    /\ spc \in SetUp => stli # 0
    /\ spc \in {"slot", "resolve", "record", "connect"} => Covered(stli)
    /\ spc = "streaming" => on \in Timelines /\ Covered(on)
    /\ \A t \in Timelines : arch[t] # {} => Covered(t)
    /\ Heard /\ fpc = "backfill" => current \in {0, 1} \cup hist \/ \E w \in lostHist : w >= current
    /\ Heard /\ fpc = "idle" /\ ~cancelled => Covered(current)

\* The actions that change nothing of what these are about.
Frame ==
    /\ UNCHANGED <<scenario, tli, anc, arch, hist, lostHist, cancelled>>
    /\ spc' = spc /\ stli' = stli /\ on' = on /\ current' = current /\ fpc' = fpc

\* Those of the cluster, of the backups and of feedback do not, nor does a stutter.
LEMMA FrameSteps ==
  ASSUME \/ \E u \in Timelines : WriteWAL(u)
         \/ Recycle \/ Feedback \/ BackupStops \/ BackupCommits \/ DeleteBackup \/ GapPurge
         \/ UNCHANGED failoverVars
  PROVE  Frame
BY DEF WriteWAL, Recycle, Feedback, BackupStops, BackupCommits, DeleteBackup, GapPurge, failoverVars, NoFault,
       cluster, backups, reports, stream, agent, Frame

\* The steps of an attempt, or of the policy around it, that end it.
LEMMA EndSteps ==
  ASSUME SetupFails \/ StreamBreaks \/ ExplicitStart \/ RemovedMeanwhile \/ StreamEnds
  PROVE  /\ UNCHANGED <<scenario, tli, anc, arch, hist, lostHist, cancelled, current, fpc>>
         /\ spc' \in {"down", "stopped", "refused"} /\ stli' \in {stli, 0}
BY DEF SetupFails, StreamBreaks, ExplicitStart, RemovedMeanwhile, StreamEnds, Fault, NoFault, Broke,
       Forget, Refuse, None, cluster, backups, reports, stream, agent

\* And those that only go on.
LEMMA GoSteps ==
  ASSUME EnsureStreamSlot \/ Resolve \/ RecordPreStreamGap
  PROVE  /\ UNCHANGED <<scenario, tli, anc, arch, hist, lostHist, cancelled, current, fpc, stli>>
         /\ spc \in {"slot", "resolve", "record"} /\ spc' \in {"resolve", "record", "connect"}
BY DEF EnsureStreamSlot, Resolve, RecordPreStreamGap, Fault, NoFault, cluster, backups, reports,
       stream, agent

\* The agent's steps up to the history files.
LEMMA EarlySteps ==
  ASSUME \/ AgentStart \/ AgentCrash \/ Shutdown \/ AgentStops \/ Poll \/ PollNoLeader
         \/ ReconcileSlot \/ ReconcileFails \/ PersistGap \/ PersistGapFails \/ GapPersistFailed
  PROVE  /\ UNCHANGED <<scenario, anc, arch, hist, lostHist, spc, stli, on, tli>>
         /\ current' \in {current, 0, tli}
         /\ fpc' = "backfill" => fpc = "backfill" /\ current' = current
         /\ fpc' = "off" => current' = 0
         /\ fpc = "off" => current' = current /\ "agent" \in scenario
         /\ fpc' = "idle" => cancelled' \/ current' = 0 \/ (fpc = "off" /\ current' = current)
                             \/ (fpc = "idle" /\ UNCHANGED <<current, cancelled>>)
<1>. DEFINE Goal == /\ UNCHANGED <<scenario, anc, arch, hist, lostHist, spc, stli, on, tli>>
                    /\ current' \in {current, 0, tli}
                    /\ fpc' = "backfill" => fpc = "backfill" /\ current' = current
                    /\ fpc' = "off" => current' = 0
                    /\ fpc = "off" => current' = current /\ "agent" \in scenario
                    /\ fpc' = "idle" => cancelled' \/ current' = 0 \/ (fpc = "off" /\ current' = current)
                                        \/ (fpc = "idle" /\ UNCHANGED <<current, cancelled>>)
<1>. SUFFICES Goal  OBVIOUS
<1>. USE DEF cluster, backups, reports, stream, agent, Fault, NoFault, Worked, None
<1>1. CASE AgentStart \/ Shutdown  BY <1>1 DEF AgentStart, Shutdown
<1>2. CASE AgentCrash \/ AgentStops  BY <1>2 DEF AgentCrash, AgentStops, Off
<1>3. CASE Poll \/ PollNoLeader  BY <1>3 DEF Poll, PollNoLeader
<1>4. CASE ReconcileSlot \/ ReconcileFails  BY <1>4 DEF ReconcileSlot, ReconcileFails
<1>5. CASE PersistGap \/ PersistGapFails \/ GapPersistFailed
  BY <1>5 DEF PersistGap, PersistGapFails, GapPersistFailed, AfterCancel
<1>. HIDE DEF Goal
<1>. QED  BY <1>1, <1>2, <1>3, <1>4, <1>5

\* The other actions, one by one.
LEMMA TheSteps ==
  ASSUME [FailoverNext]_failoverVars
  PROVE  \/ Frame
         \/ \E p \in 1 .. tli, f \in 0 .. LastLSN : Promote(p, f)
         \/ SetupFails \/ StreamBreaks \/ ExplicitStart \/ RemovedMeanwhile \/ StreamEnds
         \/ EnsureStreamSlot \/ Resolve \/ RecordPreStreamGap
         \/ Identify \/ CaptureStreamHistory \/ Connect \/ Archive
         \/ AgentStart \/ AgentCrash \/ Shutdown \/ AgentStops \/ Poll \/ PollNoLeader
         \/ ReconcileSlot \/ ReconcileFails \/ PersistGap \/ PersistGapFails \/ GapPersistFailed
         \/ CaptureHistory \/ CaptureHistoryFails \/ Backfill
<1>1. CASE UNCHANGED failoverVars  BY <1>1, FrameSteps
<1>2. CASE FailoverNext
  BY <1>2, FrameSteps DEF FailoverNext, ClusterStep, StreamStep, AgentStep
<1>. QED  BY <1>1, <1>2

\* Every step keeps the timelines in line.
LEMMA LineKept == ASSUME LineInv, [FailoverNext]_failoverVars PROVE LineInv'
<1>. USE DEF LineInv, Timelines
<1>m. MaxTLI \in Nat /\ MaxTLI >= 2  BY FailoverAssumption
<1>1. CASE Frame  BY <1>1 DEF Frame
<1>2. ASSUME NEW p \in 1 .. tli, NEW f \in 0 .. LastLSN, Promote(p, f) PROVE LineInv'
  <2>1. /\ tli' = tli + 1 /\ tli < IF "storm" \in scenario THEN MaxTLI ELSE 2
        /\ anc' = [anc EXCEPT ![tli + 1] = anc[p] \cup {tli + 1}]
        /\ UNCHANGED <<scenario, stli, current, fpc, arch>>
    BY <1>2 DEF Promote, NoFault, stream, agent
  <2>0. tli \in 1 .. MaxTLI  OBVIOUS
  <2>2. tli' \in Timelines /\ p \in Timelines
    <3>. HIDE DEF LineInv
    <3>. QED  BY <1>m, <2>0, <2>1
  <2>3. anc \in [Timelines -> SUBSET Timelines] /\ \A t \in Timelines : \A a \in anc[t] : a <= t
    OBVIOUS
  <2>4. Timelines \subseteq Nat /\ tli \in Nat /\ p \in Nat /\ p <= tli
    <3>. HIDE DEF LineInv
    <3>. QED  BY <1>m, <2>0
  <2>5. anc' \in [Timelines -> SUBSET Timelines] /\ \A t \in Timelines : \A a \in anc'[t] : a <= t
    <3>. HIDE DEF LineInv, Timelines
    <3>1. anc'[tli + 1] = anc[p] \cup {tli + 1} /\ \A t \in Timelines \ {tli + 1} : anc'[t] = anc[t]
      BY <2>1, <2>2, <2>3
    <3>2. \A a \in anc[p] : a \in Timelines /\ a <= p  BY <2>2, <2>3
    <3>3. \A a \in anc'[tli + 1] : a <= tli + 1
      <4>1. ASSUME NEW a \in anc[p] PROVE a <= tli + 1
        <5>1. a \in Nat /\ a <= p  BY <2>4, <3>2
        <5>. QED  BY <2>4, <5>1
      <4>2. tli + 1 <= tli + 1  BY <2>4
      <4>. QED  BY <3>1, <4>1, <4>2
    <3>4. anc' \in [Timelines -> SUBSET Timelines]  BY <2>1, <2>2, <2>3, <3>2
    <3>5. ASSUME NEW t \in Timelines, NEW a \in anc'[t] PROVE a <= t
      BY <2>3, <3>1, <3>3, <3>5
    <3>. QED  BY <3>4, <3>5
  <2>6. ("storm" \notin scenario)' => tli' <= 2  BY <2>1
  <2>7. stli' \in 0 .. tli' /\ current' \in 0 .. tli'
    <3>1. stli \in 0 .. tli /\ current \in 0 .. tli  OBVIOUS
    <3>. HIDE DEF LineInv, Timelines
    <3>. QED  BY <2>1, <2>4, <3>1
  <2>8. arch' = [t \in Timelines |-> arch'[t]]  BY <2>1
  <2>9. IF fpc' = "off" THEN current' = 0 ELSE "agent" \in scenario'  BY <2>1
  <2>. QED  BY <2>2, <2>5, <2>6, <2>7, <2>8, <2>9
<1>3. CASE SetupFails \/ StreamBreaks \/ ExplicitStart \/ RemovedMeanwhile \/ StreamEnds
  <2>1. UNCHANGED <<scenario, tli, anc, arch, current, fpc>> /\ stli' \in {stli, 0}  BY <1>3, EndSteps
  <2>. QED  BY <2>1
<1>4. CASE EnsureStreamSlot \/ Resolve \/ RecordPreStreamGap
  <2>1. UNCHANGED <<scenario, tli, anc, arch, current, fpc, stli>>  BY <1>4, GoSteps
  <2>. QED  BY <2>1
<1>5. CASE Identify
  BY <1>5 DEF Identify, NoFault, cluster, agent
<1>6. CASE CaptureStreamHistory
  BY <1>6 DEF CaptureStreamHistory, Worked, Fault, NoFault, cluster, agent
<1>7. CASE Connect
  <2>1. UNCHANGED <<scenario, tli, anc, arch, current, fpc>> /\ stli' \in {stli, 0}
    BY <1>7 DEF Connect, Broke, Forget, Refuse, None, Fault, NoFault, cluster, agent
  <2>. QED  BY <2>1
<1>8. CASE Archive
  <2>1. /\ arch' = [arch EXCEPT ![on] = @ \cup {SegOf(pos)}]
        /\ UNCHANGED <<scenario, tli, anc, stli, current, fpc>>
    BY <1>8 DEF Archive, NoFault, cluster, agent
  <2>2. arch' = [t \in Timelines |-> arch'[t]]  BY <2>1
  <2>. QED  BY <2>1, <2>2
<1>9. CASE \/ AgentStart \/ AgentCrash \/ Shutdown \/ AgentStops \/ Poll \/ PollNoLeader
           \/ ReconcileSlot \/ ReconcileFails \/ PersistGap \/ PersistGapFails \/ GapPersistFailed
  <2>1. UNCHANGED <<scenario, tli, anc, arch, stli>> /\ current' \in {current, 0, tli}  BY <1>9, EarlySteps
  <2>2. fpc' = "off" => current' = 0  BY <1>9, EarlySteps
  <2>3. fpc = "off" => "agent" \in scenario  BY <1>9, EarlySteps
  <2>4. IF fpc' = "off" THEN current' = 0 ELSE "agent" \in scenario'  BY <2>1, <2>2, <2>3
  <2>5. current' \in 0 .. tli
    <3>1. tli \in 0 .. tli /\ 0 \in 0 .. tli  BY FailoverAssumption
    <3>. QED  BY <2>1, <3>1
  <2>. QED  BY <2>1, <2>4, <2>5
<1>10. CASE CaptureHistory \/ CaptureHistoryFails \/ Backfill
  <2>1. UNCHANGED <<scenario, tli, anc, arch, stli, current>> /\ fpc # "off" /\ fpc' # "off"
    BY <1>10 DEF CaptureHistory, CaptureHistoryFails, Backfill, Worked, Fault, NoFault, cluster, stream
  <2>. QED  BY <2>1
<1>. HIDE DEF LineInv
<1>. QED  BY <1>1, <1>2, <1>3, <1>4, <1>5, <1>6, <1>7, <1>8, <1>9, <1>10, TheSteps

\* History files stay, and so do warnings.
LEMMA HistGrows == ASSUME [FailoverNext]_failoverVars PROVE hist \subseteq hist' /\ lostHist \subseteq lostHist'
<1>1. ASSUME SetupFails \/ StreamBreaks \/ ExplicitStart \/ RemovedMeanwhile \/ StreamEnds
      PROVE  UNCHANGED <<hist, lostHist>>
  BY <1>1, EndSteps
<1>2. ASSUME EnsureStreamSlot \/ Resolve \/ RecordPreStreamGap PROVE UNCHANGED <<hist, lostHist>>
  BY <1>2, GoSteps
<1>3. ASSUME \/ AgentStart \/ AgentCrash \/ Shutdown \/ AgentStops \/ Poll \/ PollNoLeader
             \/ ReconcileSlot \/ ReconcileFails \/ PersistGap \/ PersistGapFails \/ GapPersistFailed
      PROVE  UNCHANGED <<hist, lostHist>>
  BY <1>3, EarlySteps
<1>4. ASSUME \/ \E p \in 1 .. tli, f \in 0 .. LastLSN : Promote(p, f)
             \/ Identify \/ Archive
      PROVE  UNCHANGED <<hist, lostHist>>
  BY <1>4 DEF Promote, Identify, Archive, reports
<1>5. ASSUME CaptureStreamHistory PROVE hist \subseteq hist' /\ lostHist \subseteq lostHist'
  BY <1>5 DEF CaptureStreamHistory
<1>6. ASSUME Connect \/ CaptureHistory \/ CaptureHistoryFails \/ Backfill
      PROVE  hist \subseteq hist' /\ lostHist \subseteq lostHist'
  BY <1>6 DEF Connect, CaptureHistory, CaptureHistoryFails, Backfill, reports
<1>7. ASSUME Frame PROVE UNCHANGED <<hist, lostHist>>  BY <1>7 DEF Frame
<1>. QED  BY <1>1, <1>2, <1>3, <1>4, <1>5, <1>6, <1>7, TheSteps

\* What is covered stays so.
LEMMA CoveredKept == ASSUME [FailoverNext]_failoverVars, NEW t, Covered(t) PROVE Covered(t)'
BY HistGrows DEF Covered

\* WAL is never asked for on a later timeline than the server's.
LEMMA ContainingBelow ==
  ASSUME LineInv, NEW n \in Timelines, NEW lsn
  PROVE  Containing(n, lsn) \in 1 .. n \/ Containing(n, lsn) \in anc[n]
<1>. DEFINE older == {a \in anc[n] \ {n} : SegOf(lsn) < SegOf(SwitchPoint(n, a))}
<1>1. CASE older = {}
  BY <1>1 DEF Containing, Timelines
<1>2. CASE older # {}
  <2>1. Containing(n, lsn) = Min(older)  BY <1>2 DEF Containing
  <2>2. older \subseteq Nat /\ older \subseteq anc[n]  BY DEF LineInv, Timelines
  <2>. HIDE DEF older
  <2>3. \E x \in older : \A y \in older : x <= y  BY <1>2, <2>2, LeastOf
  <2>4. Min(older) \in older  BY <2>3 DEF Min
  <2>. QED  BY <2>1, <2>2, <2>4
<1>. QED  BY <1>1, <1>2

\* Every step keeps the files covered.
LEMMA HistKept == ASSUME LineInv, HistInv, [FailoverNext]_failoverVars PROVE HistInv'
<1>k. \A t : Covered(t) => Covered(t)'  BY CoveredKept
<1>g. hist \subseteq hist' /\ lostHist \subseteq lostHist'  BY HistGrows
<1>l. /\ tli \in Timelines /\ stli \in 0 .. tli /\ current \in 0 .. tli
      /\ Timelines \subseteq Nat /\ tli \in Nat /\ stli \in Nat /\ current \in Nat
  BY DEF LineInv, Timelines
<1>0. ASSUME arch' = arch, UNCHANGED <<scenario, cancelled, current, fpc>>,
             \/ spc' \in {"down", "stopped", "refused"}
             \/ spc' = "capture" /\ stli' = tli
             \/ spc' = spc /\ stli' = stli /\ on' = on
             \/ /\ spc \in {"slot", "resolve", "record"} /\ spc' \in {"resolve", "record", "connect"}
                /\ stli' = stli
      PROVE  HistInv'
  <2>1. spc' \in SetUp => stli' # 0  BY <1>0, <1>l DEF HistInv, SetUp, Timelines
  <2>2. /\ spc' \in {"slot", "resolve", "record", "connect"} => Covered(stli)'
        /\ spc' = "streaming" => on' \in Timelines /\ Covered(on)'
    BY <1>0, <1>k DEF HistInv, Covered
  <2>3. /\ \A t \in Timelines : arch'[t] # {} => Covered(t)'
        /\ Heard' /\ fpc' = "idle" /\ ~cancelled' => Covered(current)'
    BY <1>0, <1>k DEF HistInv, Heard, Covered
  <2>4. Heard' /\ fpc' = "backfill" => current' \in {0, 1} \cup hist' \/ \E w \in lostHist' : w >= current'
    BY <1>0, <1>g DEF HistInv, Heard
  <2>. QED  BY <2>1, <2>2, <2>3, <2>4 DEF HistInv
<1>s. ASSUME UNCHANGED <<scenario, arch, spc, stli, on>>,
             Heard /\ fpc' = "backfill" => current' \in {0, 1} \cup hist' \/ \E w \in lostHist' : w >= current',
             Heard /\ fpc' = "idle" /\ ~cancelled' => Covered(current)'
      PROVE  HistInv'
  <2>1. /\ spc' \in {"slot", "resolve", "record", "connect"} => Covered(stli)'
        /\ spc' = "streaming" => on' \in Timelines /\ Covered(on)'
        /\ spc' \in SetUp => stli' # 0
        /\ \A t \in Timelines : arch'[t] # {} => Covered(t)'
    BY <1>s, <1>k DEF HistInv, Covered
  <2>. QED  BY <1>s, <2>1 DEF HistInv, Heard
<1>1. CASE Frame  BY <1>0, <1>1 DEF Frame
<1>2. ASSUME NEW p \in 1 .. tli, NEW f \in 0 .. LastLSN, Promote(p, f) PROVE HistInv'
  <2>1. UNCHANGED <<scenario, arch, spc, stli, on, cancelled, current, fpc>>
    BY <1>2 DEF Promote, NoFault, stream, agent
  <2>. QED  BY <1>0, <2>1
<1>3. CASE SetupFails \/ StreamBreaks \/ ExplicitStart \/ RemovedMeanwhile \/ StreamEnds
  BY <1>0, <1>3, EndSteps
<1>4. CASE EnsureStreamSlot \/ Resolve \/ RecordPreStreamGap  BY <1>0, <1>4, GoSteps
<1>5. CASE Identify
  <2>1. UNCHANGED <<scenario, arch, cancelled, current, fpc>> /\ spc' = "capture" /\ stli' = tli
    BY <1>5 DEF Identify, NoFault, cluster, agent
  <2>. QED  BY <1>0, <2>1
<1>6. CASE CaptureStreamHistory
  <2>1. /\ UNCHANGED <<scenario, arch, stli, cancelled, current, fpc>> /\ spc = "capture" /\ spc' = "slot"
    BY <1>6 DEF CaptureStreamHistory, Worked, Fault, NoFault, cluster, agent
  <2>2. \/ \E got : hist' = hist \cup got /\ lostHist' = lostHist \cup (Wanted(stli) \ got)
        \/ hist' = hist /\ lostHist' = lostHist \cup {stli}
    BY <1>6 DEF CaptureStreamHistory
  <2>3. ASSUME NEW u \in 2 .. stli PROVE u \in hist' \/ \E w \in lostHist' : w >= u
    <3>1. CASE hist' = hist /\ lostHist' = lostHist \cup {stli}  BY <1>l, <3>1
    <3>2. ASSUME NEW got, hist' = hist \cup got, lostHist' = lostHist \cup (Wanted(stli) \ got)
          PROVE  u \in hist' \/ u \in lostHist'
      BY <3>2 DEF Wanted
    <3>. QED  BY <1>l, <2>2, <3>1, <3>2
  <2>4. Covered(stli)'  BY <2>1, <2>3 DEF Covered
  <2>5. /\ \A t \in Timelines : arch'[t] # {} => Covered(t)'
        /\ Heard' /\ fpc' = "idle" /\ ~cancelled' => Covered(current)'
    BY <1>k, <2>1 DEF HistInv, Heard, Covered
  <2>6. Heard' /\ fpc' = "backfill" => current' \in {0, 1} \cup hist' \/ \E w \in lostHist' : w >= current'
    BY <1>g, <2>1 DEF HistInv, Heard
  <2>7. stli' # 0  BY <2>1 DEF HistInv, SetUp
  <2>. QED  BY <2>1, <2>4, <2>5, <2>6, <2>7 DEF HistInv
<1>7. CASE Connect
  <2>1. /\ UNCHANGED <<scenario, arch, cancelled, current, fpc>> /\ spc = "connect"
        /\ spc' \in {"down", "stopped", "refused", "streaming"}
    BY <1>7 DEF Connect, Broke, Refuse, Fault, NoFault, cluster, agent
  <2>2. spc' # "streaming" => HistInv'  BY <1>0, <2>1
  <2>3. ASSUME spc' = "streaming" PROVE on' \in Timelines /\ Covered(on)'
    <3>1. on' \in {stli, Containing(stli, start)} /\ on' \in anc[tli]
      BY <1>7, <2>3 DEF Connect, Broke, Refuse
    <3>2. stli \in Timelines /\ Covered(stli)
      <4>1. stli # 0 /\ Covered(stli)  BY <2>1 DEF HistInv, SetUp
      <4>. QED  BY <1>l, <4>1, FailoverAssumption DEF Timelines
    <3>3. on' \in Timelines /\ on' <= stli
      BY <1>l, <3>1, <3>2, ContainingBelow DEF LineInv, Timelines
    <3>4. \A u \in 2 .. on' : u \in 2 .. stli  BY <1>l, <3>2, <3>3
    <3>5. Covered(on')  BY <3>2, <3>4 DEF Covered
    <3>. QED  BY <1>g, <3>3, <3>5 DEF Covered
  <2>4. ASSUME spc' = "streaming" PROVE HistInv'
    <3>1. /\ \A t \in Timelines : arch'[t] # {} => Covered(t)'
          /\ Heard' /\ fpc' = "idle" /\ ~cancelled' => Covered(current)'
      BY <1>k, <2>1 DEF HistInv, Heard, Covered
    <3>2. Heard' /\ fpc' = "backfill" => current' \in {0, 1} \cup hist' \/ \E w \in lostHist' : w >= current'
      BY <1>g, <2>1 DEF HistInv, Heard
    <3>. QED  BY <2>3, <2>4, <3>1, <3>2 DEF HistInv, SetUp
  <2>. QED  BY <2>2, <2>4
<1>8. CASE Archive
  <2>1. /\ arch' = [arch EXCEPT ![on] = @ \cup {SegOf(pos)}] /\ spc = "streaming"
        /\ UNCHANGED <<scenario, spc, stli, on, hist, lostHist, current, cancelled, fpc>>
    BY <1>8 DEF Archive, NoFault, cluster, agent, reports
  <2>2. ASSUME NEW t \in Timelines, arch'[t] # {} PROVE Covered(t)
    BY <2>1, <2>2 DEF HistInv, LineInv
  <2>. QED  BY <2>1, <2>2 DEF HistInv, Heard, Covered
<1>9. CASE \/ AgentStart \/ AgentCrash \/ Shutdown \/ AgentStops \/ Poll \/ PollNoLeader
           \/ ReconcileSlot \/ ReconcileFails \/ PersistGap \/ PersistGapFails \/ GapPersistFailed
  <2>1. /\ UNCHANGED <<scenario, arch, hist, lostHist, spc, stli, on>>
        /\ fpc' = "backfill" => fpc = "backfill" /\ current' = current
        /\ fpc' = "idle" => cancelled' \/ current' = 0 \/ (fpc = "off" /\ current' = current)
                             \/ (fpc = "idle" /\ UNCHANGED <<current, cancelled>>)
    BY <1>9, EarlySteps
  <2>2. Heard /\ fpc' = "backfill" => current' \in {0, 1} \cup hist' \/ \E w \in lostHist' : w >= current'
    BY <2>1 DEF HistInv
  <2>3. Heard /\ fpc' = "idle" /\ ~cancelled' => Covered(current)'
    BY <2>1 DEF HistInv, LineInv, Covered
  <2>. QED  BY <1>s, <2>1, <2>2, <2>3
<1>10. CASE CaptureHistory
  <2>1. /\ UNCHANGED <<scenario, arch, spc, stli, on, current>> /\ fpc' = "backfill"
        /\ hist' = hist \cup ({current} \ {1})
    BY <1>10 DEF CaptureHistory, NoFault, cluster, stream
  <2>. QED  BY <1>s, <2>1
<1>11. CASE CaptureHistoryFails
  <2>1. /\ UNCHANGED <<scenario, arch, spc, stli, on, current, cancelled>>
        /\ fpc' = "backfill" => tries + 1 = CaptureAttempts
        /\ fpc' = "idle" => cancelled
        /\ lostHist' = lostHist \cup {t \in {current} : tries + 1 = CaptureAttempts}
    BY <1>11 DEF CaptureHistoryFails, Worked, Fault, NoFault, cluster, stream
  <2>2. fpc' = "backfill" => \E w \in lostHist' : w >= current'
    <3>1. ASSUME fpc' = "backfill" PROVE current \in lostHist'  BY <2>1, <3>1
    <3>2. current >= current  BY <1>l
    <3>. QED  BY <2>1, <3>1, <3>2
  <2>. QED  BY <1>s, <2>1, <2>2
<1>12. CASE Backfill
  <2>1. UNCHANGED <<scenario, arch, spc, stli, on, current, cancelled>> /\ fpc = "backfill" /\ fpc' = "idle"
    BY <1>12 DEF Backfill, Worked, Fault, NoFault, cluster, stream
  <2>2. ASSUME Heard, ~cancelled, NEW u \in 2 .. current PROVE u \in hist' \/ \E w \in lostHist' : w >= u
    <3>1. CASE u = current  BY <1>g, <1>l, <2>1, <2>2, <3>1 DEF HistInv
    <3>2. CASE u # current
      <4>1. "storm" \in scenario  BY <1>l, <3>2 DEF LineInv
      <4>2. "fail" \notin scenario  BY <2>1, <2>2, <4>1 DEF LineInv, Heard
      <4>3. u \in 2 .. current - 1  BY <1>l, <3>2
      <4>4. u \in hist' \/ u \in lostHist'
        BY <1>12, <2>2, <4>2, <4>3 DEF Backfill, Worked, Fault
      <4>. QED  BY <1>l, <4>3, <4>4
    <3>. QED  BY <3>1, <3>2
  <2>3. Heard /\ ~cancelled => Covered(current)'  BY <2>1, <2>2 DEF Covered
  <2>. QED  BY <1>s, <2>1, <2>3
<1>. QED
  BY <1>1, <1>2, <1>3, <1>4, <1>5, <1>6, <1>7, <1>8, <1>9, <1>10, <1>11, <1>12, TheSteps

\* Where WAL of a timeline is archived, or the coordinator is done with a
\* leader, 'latest' finds that timeline, or a warning said that a file is missing
\* (cli/wal_stream_timeline.go, follower/coordinator.go), in every scenario but the
\* one where calls of an agent fail while promotions storm.
THEOREM LatestAlwaysFound == FailoverSpec => [](Heard => LatestIsLatest)
<1>1. FailoverInit => LineInv /\ HistInv
  <2>1. SUFFICES ASSUME FailoverInit PROVE LineInv /\ HistInv  OBVIOUS
  <2>2. MaxTLI \in Nat /\ MaxTLI >= 2  BY FailoverAssumption
  <2>. QED  BY <2>1, <2>2 DEF FailoverInit, None, Timelines, SetUp, LineInv, HistInv, Covered
<1>2. LineInv /\ HistInv /\ [FailoverNext]_failoverVars => LineInv' /\ HistInv'  BY LineKept, HistKept
<1>3. HistInv => (Heard => LatestIsLatest)
  BY DEF HistInv, LatestIsLatest, Covered
<1>. QED  BY <1>1, <1>2, <1>3, PTL DEF FailoverSpec

-----------------------------------------------------------------------------
(* Failover: holes in the archive.                                           *)

\* The segment arithmetic.
LEMMA SegFacts ==
  ASSUME NEW l \in Nat
  PROVE  /\ SegOf(l) \in Nat
         /\ StartOf(l) \in Nat
         /\ EndOf(l) \in Nat
         /\ StartOf(SegOf(l)) <= l
         /\ l < EndOf(SegOf(l))
         /\ Floor(l) \in Nat
         /\ Floor(l) <= l
<1>1. SegmentSize \in Nat \ {0}  BY FailoverAssumption
<1>2. PICK d : d = l \div SegmentSize  OBVIOUS
<1>3. d \in Nat /\ SegmentSize * d <= l /\ l < SegmentSize * d + SegmentSize  BY <1>1, <1>2, Division
<1>4. /\ l * SegmentSize \in Nat /\ (l + 1) * SegmentSize \in Nat
      /\ d * SegmentSize \in Nat /\ d * SegmentSize = SegmentSize * d
      /\ (d + 1) * SegmentSize = SegmentSize * d + SegmentSize
  BY <1>1, <1>3
<1>5. /\ SegOf(l) = d /\ StartOf(d) = d * SegmentSize /\ EndOf(d) = (d + 1) * SegmentSize
      /\ Floor(l) = d * SegmentSize /\ StartOf(l) = l * SegmentSize /\ EndOf(l) = (l + 1) * SegmentSize
  BY <1>2 DEF SegOf, StartOf, EndOf, Floor
<1>6. SegOf(l) \in Nat /\ StartOf(l) \in Nat /\ EndOf(l) \in Nat /\ Floor(l) \in Nat
  BY <1>3, <1>4, <1>5
<1>7. StartOf(SegOf(l)) <= l /\ Floor(l) <= l  BY <1>3, <1>4, <1>5
<1>8. l < EndOf(SegOf(l))  BY <1>3, <1>4, <1>5
<1>. QED  BY <1>6, <1>7, <1>8

\* A later segment ends later.
LEMMA Ends ==
  ASSUME NEW i \in Nat, NEW j \in Nat
  PROVE  /\ i <= j => StartOf(i) <= StartOf(j) /\ EndOf(i) <= EndOf(j)
         /\ i < j => EndOf(i) <= StartOf(j)
<1>. DEFINE z == SegmentSize
<1>1. z \in Nat \ {0}  BY FailoverAssumption
<1>2. \A m, k \in Nat : (m + k) * z = m * z + k * z /\ m * z \in Nat /\ k * z \in Nat  BY <1>1
<1>3. ASSUME i <= j PROVE StartOf(i) <= StartOf(j) /\ EndOf(i) <= EndOf(j)
  <2>1. PICK k \in Nat : j = i + k
    <3>1. j - i \in Nat /\ j = i + (j - i)  BY <1>3
    <3>. QED  BY <3>1
  <2>2. j * z = i * z + k * z /\ i * z \in Nat /\ k * z \in Nat  BY <1>2, <2>1
  <2>3. (j + 1) * z = j * z + 1 * z /\ (i + 1) * z = i * z + 1 * z /\ j * z \in Nat /\ 1 * z \in Nat
    BY <1>2
  <2>4. StartOf(i) = i * z /\ StartOf(j) = j * z /\ EndOf(i) = (i + 1) * z /\ EndOf(j) = (j + 1) * z
    BY DEF StartOf, EndOf
  <2>. QED  BY <2>2, <2>3, <2>4
<1>4. ASSUME i < j PROVE EndOf(i) <= StartOf(j)
  <2>1. PICK k \in Nat : j = (i + 1) + k
    <3>1. j - (i + 1) \in Nat /\ j = (i + 1) + (j - (i + 1))  BY <1>4
    <3>. QED  BY <3>1
  <2>2. j * z = (i + 1) * z + k * z /\ (i + 1) * z \in Nat /\ k * z \in Nat
    <3>1. i + 1 \in Nat  OBVIOUS
    <3>. QED  BY <1>2, <2>1, <3>1
  <2>3. StartOf(j) = j * z /\ EndOf(i) = (i + 1) * z  BY DEF StartOf, EndOf
  <2>. QED  BY <2>2, <2>3
<1>. QED  BY <1>3, <1>4

\* Later WAL is in a later segment, or in the same.
LEMMA SegMono ==
  ASSUME NEW m \in Nat, NEW n \in Nat, m <= n
  PROVE  SegOf(m) <= SegOf(n)
<1>1. SegOf(m) \in Nat /\ SegOf(n) \in Nat /\ StartOf(SegOf(m)) <= m /\ n < EndOf(SegOf(n))  BY SegFacts
<1>2. SegOf(n) < SegOf(m) => EndOf(SegOf(n)) <= StartOf(SegOf(m))  BY <1>1, Ends
<1>3. EndOf(SegOf(n)) \in Nat /\ StartOf(SegOf(m)) \in Nat  BY <1>1, SegFacts
<1>. QED  BY <1>1, <1>2, <1>3

\* A segment ends where the next begins.
LEMMA SegEnd ==
  ASSUME NEW q \in Nat
  PROVE  SegOf(EndOf(q)) = q + 1
<1>. DEFINE e == EndOf(q)  d == SegOf(e)
<1>1. e \in Nat /\ d \in Nat /\ StartOf(d) <= e /\ e < EndOf(d) /\ StartOf(d) \in Nat /\ EndOf(d) \in Nat
  BY SegFacts
<1>2. StartOf(q + 1) = e /\ EndOf(q + 1) = StartOf(q + 2)  BY DEF StartOf, EndOf
<1>3. q + 1 \in Nat /\ EndOf(q + 1) \in Nat /\ e < EndOf(q + 1)
  <2>1. SegmentSize \in Nat \ {0} /\ (q + 2) * SegmentSize = (q + 1) * SegmentSize + SegmentSize
    BY FailoverAssumption
  <2>2. EndOf(q + 1) = (q + 2) * SegmentSize /\ e = (q + 1) * SegmentSize  BY DEF EndOf
  <2>. HIDE DEF e, d
  <2>. QED  BY <1>1, <2>1, <2>2
<1>4. ~(d < q + 1)
  <2>1. d < q + 1 => d <= q  BY <1>1
  <2>2. d <= q => EndOf(d) <= EndOf(q)  BY <1>1, Ends
  <2>. QED  BY <1>1, <2>1, <2>2
<1>5. ~(q + 1 < d)
  <2>1. q + 1 < d => EndOf(q + 1) <= StartOf(d)  BY <1>1, <1>3, Ends
  <2>. QED  BY <1>1, <1>3, <2>1
<1>. QED  BY <1>1, <1>4, <1>5

\* A bounded set of numbers has a greatest member.
Bounded(S) == S \subseteq Nat /\ \E k \in Nat : \A x \in S : x <= k

\* Max finds it.
LEMMA GreatestOf ==
  ASSUME NEW T, Bounded(T), T # {}
  PROVE  Max(T) \in T /\ \A y \in T : y <= Max(T)
<1>. DEFINE U == {k \in Nat : \A x \in T : x <= k}
<1>1. U \subseteq Nat /\ U # {} /\ T \subseteq Nat  BY DEF Bounded
<1>2. PICK k \in U : \A y \in U : k <= y  BY <1>1, LeastOf
<1>3. k \in Nat /\ \A x \in T : x <= k  OBVIOUS
<1>4. k \in T
  <2>1. SUFFICES ASSUME k \notin T PROVE FALSE  OBVIOUS
  <2>2. PICK x \in T : TRUE  OBVIOUS
  <2>3. \A y \in T : y \in Nat /\ y <= k /\ y # k  BY <1>1, <1>3, <2>1
  <2>4. k - 1 \in Nat /\ \A y \in T : y <= k - 1  BY <1>3, <2>2, <2>3
  <2>5. k - 1 \in U  BY <2>4
  <2>6. k <= k - 1  BY <1>2, <2>5
  <2>. QED  BY <1>3, <2>6
<1>5. \E x \in T : \A y \in T : x >= y  BY <1>1, <1>3, <1>4
<1>6. Max(T) \in T /\ \A y \in T : Max(T) >= y  BY <1>5 DEF Max
<1>. QED  BY <1>1, <1>6

\* Max, where the greatest member is known.
LEMMA MaxIs ==
  ASSUME NEW T, T \subseteq Nat, NEW m \in T, \A y \in T : y <= m
  PROVE  Max(T) = m
<1>1. \E x \in T : \A y \in T : x >= y  OBVIOUS
<1>2. Max(T) \in T /\ \A y \in T : Max(T) >= y  BY <1>1 DEF Max
<1>3. Max(T) \in Nat /\ m \in Nat /\ Max(T) >= m /\ Max(T) <= m  BY <1>2
<1>. QED  BY <1>3

\* Min, for every set of numbers.
LEMMA MinIs ==
  ASSUME NEW T, T \subseteq Nat, T # {}
  PROVE  /\ Min(T) \in T /\ \A y \in T : Min(T) <= y
         /\ \A m \in T : (\A y \in T : m <= y) => Min(T) = m
<1>1. \E x \in T : \A y \in T : x <= y  BY LeastOf
<1>2. Min(T) \in T /\ \A y \in T : Min(T) <= y  BY <1>1 DEF Min
<1>3. ASSUME NEW m \in T, \A y \in T : m <= y PROVE Min(T) = m
  <2>1. Min(T) \in Nat /\ m \in Nat /\ Min(T) <= m /\ m <= Min(T)  BY <1>2, <1>3
  <2>. QED  BY <2>1
<1>. QED  BY <1>2, <1>3

-----------------------------------------------------------------------------
(* Failover: what the archive holds of a lineage.                            *)

\* Backups commit as they stop and are not deleted, streams resume where the
\* archive ends and read the history files that are there, leaders are promoted
\* from the one before; and calls fail or promotions storm, not both.
Clear ==
    /\ scenario \cap {"late", "explicit", "unread", "sibling", "delete"} = {}
    /\ ~({"storm", "fail"} \subseteq scenario)

\* Timelines form one line and begin one after the other, within the WAL.
TreeInv ==
    /\ tli \in Timelines /\ ("storm" \notin scenario => tli <= 2)
    /\ anc \in [Timelines -> SUBSET Timelines]
    /\ \A t \in 1 .. tli : anc[t] = 1 .. t
    /\ \A t \in Timelines : t > tli => anc[t] = {}
    /\ fork \in [Timelines -> Nat] /\ fork[1] = 0
    /\ \A t, u \in 1 .. tli : t <= u => fork[t] <= fork[u]
    /\ end \in [Timelines -> Nat] /\ fork[tli] <= end[tli]
    /\ kept \in Nat /\ slot \in Nat /\ slot <= end[tli]

\* No segment is archived that was not written.
ArchInv ==
    /\ arch = [t \in Timelines |-> arch[t]]
    /\ \A t \in Timelines : Bounded(arch[t]) /\ (t > tli => arch[t] = {})
    /\ \A x \in arch[tli] : EndOf(x) <= end[tli]

\* A backup ends on its timeline, after that begins.
LiveInv ==
    /\ taken = {}
    /\ \A b \in live : b.tli \in 1 .. tli /\ b.stop \in Nat /\ fork[b.tli] <= b.stop

\* An attempt has the history file of its timeline or its loss was reported, and
\* does not begin past the end of the WAL.
StreamInv ==
    /\ asked = 0 /\ restart \in Nat /\ start \in Nat /\ pos \in Nat
    /\ spc \in SetUp => stli \in 1 .. tli
    /\ spc \in SetUp \ {"capture"} => stli \in {1} \cup hist \/ (stli \in lostHist /\ "fail" \in scenario)
    /\ spc = "resolve" /\ stli = tli => restart <= end[tli]
    /\ spc = "record" => (\A t \in 1 .. stli : arch[t] = {}) /\ (stli = tli => start <= end[tli])
    /\ spc = "connect" /\ stli = tli => start <= end[tli] \/ stli \in lostHist
    /\ spc = "streaming" =>
         /\ server \in 1 .. tli /\ on \in 1 .. server /\ SegOf(fork[on]) <= SegOf(pos)
         /\ server = tli => pos <= end[tli]

\* A gap that b's recovery would have to cross is on record, or reported.
Recorded(b) ==
    \/ \E g \in gaps : g.from \in Nat /\ g.to \in Nat /\ g.from <= b.stop /\ b.stop < g.to
    \/ \E g \in lostGaps : b.stop < g.to

\* Recovery along u finds segment s, or the loss of a history file explains why not.
Fine(u, s) == s \in arch[SegmentTimeline(u, s)] \/ SegmentTimeline(u, s) \in lostHist

\* Recovery of b along u is not surprised by a hole before segment q.
Whole(b, u, q) == Recorded(b) \/ \A s \in Nat : SegOf(b.stop) <= s /\ s < q => Fine(u, s)

\* That is so up to where a stream is to begin, up to where it is, and up to
\* everything archived.
Holes(b) ==
    /\ spc = "connect" /\ b.tli <= stli => Whole(b, stli, SegOf(start))
    /\ spc = "streaming" /\ b.tli <= on => Whole(b, on, SegOf(pos))
    /\ \A u \in 1 .. tli : b.tli <= u => \A x \in arch[u] : Whole(b, u, x + 1)

HoleInv == \A b \in live : Holes(b)

\* Timelines are numbered from 1, and there may be two.
LEMMA FConstants == MaxTLI \in Nat /\ 2 <= MaxTLI /\ Timelines \subseteq Nat /\ 1 \in Timelines
BY FailoverAssumption DEF Timelines

\* Timelines up to the leader's are numbers.
LEMMA Lines ==
  ASSUME TreeInv, NEW t \in 1 .. tli
  PROVE  /\ t \in Timelines /\ t \in Nat /\ 1 <= t /\ t <= tli /\ tli \in Nat /\ fork[t] \in Nat /\ end[t] \in Nat
         /\ anc[t] = 1 .. t /\ fork[t] <= fork[tli] /\ SegOf(fork[t]) \in Nat
<1>1. tli \in Nat /\ tli <= MaxTLI /\ MaxTLI \in Nat /\ 1 <= tli  BY FConstants DEF TreeInv, Timelines
<1>2. t \in Nat /\ 1 <= t /\ t <= tli /\ t \in Timelines  BY <1>1 DEF Timelines
<1>3. fork[t] \in Nat /\ end[t] \in Nat  BY <1>2 DEF TreeInv
<1>4. anc[t] = 1 .. t  BY DEF TreeInv
<1>5. tli \in 1 .. tli  BY <1>1
<1>6. fork[t] <= fork[tli]  BY <1>2, <1>5 DEF TreeInv
<1>7. SegOf(fork[t]) \in Nat  BY <1>3, SegFacts
<1>. QED  BY <1>1, <1>2, <1>3, <1>4, <1>6, <1>7

\* Later timelines begin in later segments.
LEMMA Forks ==
  ASSUME TreeInv, NEW t \in 1 .. tli, NEW u \in 1 .. tli, t <= u
  PROVE  SegOf(fork[t]) <= SegOf(fork[u]) /\ fork[t] <= fork[u]
<1>1. fork[t] <= fork[u]  BY DEF TreeInv
<1>2. fork[t] \in Nat /\ fork[u] \in Nat  BY Lines
<1>. QED  BY <1>1, <1>2, SegMono

\* The timeline that a segment is read from.
LEMMA SegTL ==
  ASSUME TreeInv, NEW n \in 1 .. tli, NEW s \in Nat
  PROVE  /\ SegmentTimeline(n, s) \in 1 .. n
         /\ SegOf(fork[SegmentTimeline(n, s)]) <= s
         /\ \A t \in 1 .. n : SegOf(fork[t]) <= s => t <= SegmentTimeline(n, s)
<1>. DEFINE T == {t \in anc[n] : SegOf(fork[t]) <= s}
<1>1. anc[n] = 1 .. n /\ n \in Nat /\ 1 <= n  BY Lines
<1>2. Bounded(T)  BY <1>1 DEF Bounded
<1>3. 1 \in T
  <2>1. SegOf(0) = 0
    <3>1. 0 \in Nat  OBVIOUS
    <3>2. SegOf(0) \in Nat /\ StartOf(SegOf(0)) <= 0 /\ StartOf(SegOf(0)) \in Nat  BY <3>1, SegFacts
    <3>3. SegmentSize \in Nat \ {0}  BY FailoverAssumption
    <3>. QED  BY <3>3 DEF SegOf
  <2>. QED  BY <1>1, <2>1 DEF TreeInv
<1>4. SegmentTimeline(n, s) = Max(T)  BY DEF SegmentTimeline
<1>5. Max(T) \in T /\ \A y \in T : y <= Max(T)
  <2>. HIDE DEF T
  <2>. QED  BY <1>2, <1>3, GreatestOf
<1>. QED  BY <1>1, <1>4, <1>5

\* It is the same along two lineages, of which the longer adds only timelines
\* that begin after it.
LEMMA SameTL ==
  ASSUME TreeInv, NEW n \in 1 .. tli, NEW m \in 1 .. tli, n <= m, NEW s \in Nat,
         SegmentTimeline(m, s) <= n
  PROVE  SegmentTimeline(n, s) = SegmentTimeline(m, s)
<1>. DEFINE v == SegmentTimeline(m, s)  w == SegmentTimeline(n, s)
<1>1. n \in Nat /\ m \in Nat  BY Lines
<1>2. /\ v \in 1 .. m /\ SegOf(fork[v]) <= s
      /\ \A t \in 1 .. m : SegOf(fork[t]) <= s => t <= v
  BY SegTL
<1>3. /\ w \in 1 .. n /\ SegOf(fork[w]) <= s
      /\ \A t \in 1 .. n : SegOf(fork[t]) <= s => t <= w
  BY SegTL
<1>4. v <= n  OBVIOUS
<1>. HIDE DEF v, w
<1>5. v \in 1 .. n /\ w \in 1 .. m  BY <1>1, <1>2, <1>3, <1>4
<1>6. v <= w /\ w <= v  BY <1>2, <1>3, <1>5
<1>. QED  BY <1>1, <1>2, <1>3, <1>6 DEF v, w

\* So it is for segments before the next timeline begins.
LEMMA BelowFork ==
  ASSUME TreeInv, NEW n \in 1 .. tli, NEW m \in 1 .. tli, n < m, NEW s \in Nat, s < SegOf(fork[n + 1])
  PROVE  SegmentTimeline(n, s) = SegmentTimeline(m, s)
<1>1. n \in Nat /\ m \in Nat /\ m <= tli /\ tli \in Nat  BY Lines
<1>2. SegmentTimeline(m, s) \in 1 .. m /\ SegOf(fork[SegmentTimeline(m, s)]) <= s  BY SegTL
<1>3. ASSUME n + 1 <= SegmentTimeline(m, s) PROVE FALSE
  <2>1. n + 1 \in 1 .. tli /\ SegmentTimeline(m, s) \in 1 .. tli  BY <1>1, <1>2
  <2>2. SegOf(fork[n + 1]) <= SegOf(fork[SegmentTimeline(m, s)])  BY <1>3, <2>1, Forks
  <2>3. SegOf(fork[n + 1]) \in Nat /\ SegOf(fork[SegmentTimeline(m, s)]) \in Nat  BY <2>1, Lines
  <2>. QED  BY <1>2, <2>2, <2>3
<1>4. SegmentTimeline(m, s) <= n /\ n <= m  BY <1>1, <1>2, <1>3
<1>. QED  BY <1>4, SameTL

\* Where a lineage leaves an ancestor.
LEMMA SwitchIs ==
  ASSUME TreeInv, NEW n \in 1 .. tli, NEW a \in 1 .. tli, a < n
  PROVE  SwitchPoint(n, a) = fork[a + 1]
<1>1. n \in Nat /\ a \in Nat /\ anc[n] = 1 .. n /\ 1 <= a  BY Lines
<1>. DEFINE T == {t \in anc[n] : t > a}
<1>2. T \subseteq Nat /\ a + 1 \in T /\ \A y \in T : a + 1 <= y  BY <1>1
<1>3. Min(T) = a + 1
  <2>. HIDE DEF T
  <2>. QED  BY <1>2, MinIs
<1>. QED  BY <1>3 DEF SwitchPoint

-----------------------------------------------------------------------------
(* Failover: the steps.                                                      *)

\* What an agent's step leaves alone, and what only grows.
Aside ==
    /\ UNCHANGED <<scenario, tli, anc, fork, end, kept, arch, live, taken>>
    /\ spc' = spc /\ stli' = stli /\ restart' = restart /\ start' = start /\ pos' = pos
    /\ on' = on /\ server' = server /\ asked' = asked
    /\ slot' = slot \/ slot' \in Reserved
    /\ hist \subseteq hist' /\ lostHist \subseteq lostHist'
    /\ gaps \subseteq gaps' /\ lostGaps \subseteq lostGaps'

\* Every step of the agent is such a step.
LEMMA AgentAside == ASSUME AgentStep PROVE Aside
<1>. USE DEF Aside, cluster, backups, reports, stream, Fault, NoFault, Worked
<1>1. CASE AgentStart \/ AgentCrash \/ Shutdown \/ AgentStops
  BY <1>1 DEF AgentStart, AgentCrash, Shutdown, AgentStops
<1>2. CASE Poll \/ PollNoLeader \/ ReconcileFails  BY <1>2 DEF Poll, PollNoLeader, ReconcileFails
<1>3. CASE ReconcileSlot  BY <1>3 DEF ReconcileSlot, FindOrCreateSlot
<1>4. CASE PersistGap \/ PersistGapFails \/ GapPersistFailed
  BY <1>4 DEF PersistGap, PersistGapFails, GapPersistFailed
<1>5. CASE CaptureHistory \/ CaptureHistoryFails \/ Backfill
  BY <1>5 DEF CaptureHistory, CaptureHistoryFails, Backfill
<1>. QED  BY <1>1, <1>2, <1>3, <1>4, <1>5 DEF AgentStep

\* The end of an attempt, or the beginning of one, up to where it is to start.
Apart ==
    /\ UNCHANGED <<scenario, tli, anc, fork, end, kept, arch, live, taken, asked>>
    /\ slot' = slot \/ slot' \in Reserved
    /\ hist \subseteq hist' /\ lostHist \subseteq lostHist' /\ gaps' = gaps /\ lostGaps' = lostGaps
    /\ restart' \in {restart, slot', 0} /\ start' \in {start, pos, 0} /\ pos' \in {pos, 0}
    /\ \/ spc' \in {"down", "stopped", "refused"}
       \/ spc' = "capture" /\ stli' = tli
       \/ /\ spc = "capture" /\ spc' = "slot" /\ stli' = stli
          /\ stli \in {1} \cup hist' \/ (stli \in lostHist' /\ "fail" \in scenario)
       \/ spc = "slot" /\ spc' = "resolve" /\ stli' = stli /\ restart' = slot'

\* The steps that end an attempt are of that kind.
LEMMA EndsApart ==
  ASSUME SetupFails \/ StreamBreaks \/ RemovedMeanwhile \/ StreamEnds
  PROVE  Apart
<1>. USE DEF Apart, cluster, backups, reports, Fault, NoFault, Forget, None
<1>1. CASE SetupFails  BY <1>1 DEF SetupFails
<1>2. CASE StreamBreaks \/ StreamEnds  BY <1>2 DEF StreamBreaks, StreamEnds, Broke
<1>3. CASE RemovedMeanwhile  BY <1>3 DEF RemovedMeanwhile, Refuse
<1>. QED  BY <1>1, <1>2, <1>3

\* So are the first ones.
LEMMA BeginsApart ==
  ASSUME Identify \/ EnsureStreamSlot
  PROVE  Apart
<1>. USE DEF Apart, cluster, backups, reports, NoFault
<1>1. CASE Identify  BY <1>1 DEF Identify
<1>2. CASE EnsureStreamSlot  BY <1>2 DEF EnsureStreamSlot, FindOrCreateSlot
<1>. QED  BY <1>1, <1>2

\* And the one that fetches history files: what it does not get, it reports.
LEMMA CaptureApart ==
  ASSUME TreeInv, StreamInv, CaptureStreamHistory
  PROVE  Apart
<1>1. /\ UNCHANGED <<scenario, tli, anc, fork, end, kept, slot, arch, live, taken, asked, gaps, lostGaps>>
      /\ UNCHANGED <<stli, restart, start, pos>> /\ spc = "capture" /\ spc' = "slot"
      /\ hist \subseteq hist' /\ lostHist \subseteq lostHist'
  BY DEF CaptureStreamHistory, Worked, Fault, NoFault, cluster, backups
<1>2. stli \in 1 .. tli  BY <1>1 DEF StreamInv, SetUp
<1>3. stli \in Nat /\ 1 <= stli /\ stli \in anc[tli]
  <2>1. stli \in Nat /\ 1 <= stli /\ stli <= tli /\ tli \in Nat  BY <1>2, Lines
  <2>2. anc[tli] = 1 .. tli  BY <2>1, Lines
  <2>. QED  BY <1>2, <2>1, <2>2
<1>4. ASSUME stli \notin {1} \cup hist' PROVE stli \in lostHist' /\ "fail" \in scenario
  <2>1. stli \in Wanted(stli) \cap anc[tli]
    <3>1. stli \in 2 .. stli /\ stli \notin hist  BY <1>1, <1>3, <1>4
    <3>. QED  BY <1>3, <3>1 DEF Wanted
  <2>2. ASSUME NEW got \in SUBSET (Wanted(stli) \cap anc[tli]),
               Worked(got = Wanted(stli) \cap anc[tli]), hist' = hist \cup got,
               lostHist' = lostHist \cup (Wanted(stli) \ got)
        PROVE  stli \in lostHist' /\ "fail" \in scenario
    <3>1. stli \notin got  BY <1>4, <2>2
    <3>2. got # Wanted(stli) \cap anc[tli]  BY <2>1, <3>1
    <3>. QED  BY <2>1, <2>2, <3>1, <3>2 DEF Worked, Fault
  <2>3. CASE Fault("fail") /\ lostHist' = lostHist \cup {stli}  BY <2>3 DEF Fault
  <2>. QED  BY <2>2, <2>3 DEF CaptureStreamHistory
<1>. QED  BY <1>1, <1>4 DEF Apart

\* Under Clear, every step is one of these.
LEMMA Steps ==
  ASSUME Clear, TreeInv, LiveInv, StreamInv, [FailoverNext]_failoverVars
  PROVE  \/ \E t \in Timelines : WriteWAL(t)
         \/ \E p \in 1 .. tli, f \in 0 .. LastLSN : Promote(p, f)
         \/ Recycle \/ BackupStops \/ Feedback \/ Resolve \/ RecordPreStreamGap \/ Connect \/ Archive
         \/ Aside \/ Apart
<1>1. CASE UNCHANGED failoverVars
  BY <1>1 DEF failoverVars, cluster, backups, reports, stream, Aside
<1>2. CASE FailoverNext
  <2>1. ~ExplicitStart  BY DEF ExplicitStart, Fault, Clear
  <2>2. ~BackupCommits  BY DEF BackupCommits, LiveInv
  <2>3. ~DeleteBackup /\ ~GapPurge  BY DEF DeleteBackup, GapPurge, Clear
  <2>4. AgentStep => Aside  BY AgentAside
  <2>5. SetupFails \/ StreamBreaks \/ RemovedMeanwhile \/ StreamEnds => Apart  BY EndsApart
  <2>6. Identify \/ EnsureStreamSlot => Apart  BY BeginsApart
  <2>7. CaptureStreamHistory => Apart  BY CaptureApart
  <2>. QED
    BY <1>2, <2>1, <2>2, <2>3, <2>4, <2>5, <2>6, <2>7 DEF FailoverNext, ClusterStep, StreamStep
<1>. QED  BY <1>1, <1>2

\* What later steps never take back.
Grows ==
    /\ scenario' = scenario
    /\ \A t \in 1 .. tli : anc'[t] = anc[t] /\ fork'[t] = fork[t] /\ arch[t] \subseteq arch'[t]
    /\ lostHist \subseteq lostHist' /\ gaps \subseteq gaps' /\ lostGaps \subseteq lostGaps'

\* Every step does: WAL and records stay.
LEMMA Growth ==
  ASSUME Clear, TreeInv, ArchInv, LiveInv, StreamInv, [FailoverNext]_failoverVars
  PROVE  Grows
<1>1. CASE \E t \in Timelines : WriteWAL(t)
  BY <1>1 DEF WriteWAL, NoFault, backups, reports, Grows
<1>2. ASSUME NEW p \in 1 .. tli, NEW f \in 0 .. LastLSN, Promote(p, f) PROVE Grows
  <2>1. /\ UNCHANGED <<scenario, arch, gaps, lostHist, lostGaps>>
        /\ anc' = [anc EXCEPT ![tli + 1] = anc[p] \cup {tli + 1}]
        /\ fork' = [fork EXCEPT ![tli + 1] = f]
    BY <1>2 DEF Promote, NoFault, reports
  <2>2. \A t \in 1 .. tli : t \in Timelines /\ t # tli + 1
    <3>1. ASSUME NEW t \in 1 .. tli PROVE t \in Timelines /\ t # tli + 1
      <4>1. t \in Timelines /\ t \in Nat /\ t <= tli /\ tli \in Nat  BY Lines
      <4>. QED  BY <4>1
    <3>. QED  BY <3>1
  <2>. QED  BY <2>1, <2>2 DEF TreeInv, Grows
<1>3. CASE Recycle \/ BackupStops \/ Feedback
  BY <1>3 DEF Recycle, BackupStops, Feedback, NoFault, cluster, reports, Grows
<1>4. CASE Resolve  BY <1>4 DEF Resolve, Fault, NoFault, cluster, reports, Grows
<1>5. CASE RecordPreStreamGap
  <2>1. gaps \subseteq gaps' /\ lostGaps \subseteq lostGaps' /\ scenario' = scenario
    BY <1>5 DEF RecordPreStreamGap, Fault, NoFault
  <2>. QED  BY <1>5, <2>1 DEF RecordPreStreamGap, cluster, Grows
<1>6. CASE Connect
  <2>1. lostHist \subseteq lostHist' /\ scenario' = scenario  BY <1>6 DEF Connect, Fault, NoFault
  <2>. QED  BY <1>6, <2>1 DEF Connect, cluster, Grows
<1>7. CASE Archive
  <2>1. /\ arch' = [arch EXCEPT ![on] = @ \cup {SegOf(pos)}]
        /\ UNCHANGED <<scenario, anc, fork, gaps, lostHist, lostGaps>>
    BY <1>7 DEF Archive, NoFault, cluster, reports
  <2>2. \A t \in Timelines : arch[t] \subseteq arch'[t]  BY <2>1 DEF ArchInv
  <2>. QED  BY <2>1, <2>2, Lines DEF Grows
<1>8. CASE Aside \/ Apart  BY <1>8 DEF Aside, Apart, Grows
<1>. QED  BY <1>1, <1>2, <1>3, <1>4, <1>5, <1>6, <1>7, <1>8, Steps

\* Nor what is known of holes.
LEMMA FineKept ==
  ASSUME TreeInv, Grows, NEW u \in 1 .. tli, NEW s \in Nat
  PROVE  /\ SegmentTimeline(u, s)' = SegmentTimeline(u, s)
         /\ Fine(u, s) => Fine(u, s)'
<1>1. SegmentTimeline(u, s) \in 1 .. u /\ u \in Nat /\ u <= tli /\ tli \in Nat  BY SegTL, Lines
<1>2. SegmentTimeline(u, s) \in 1 .. tli  BY <1>1
<1>3. {t \in anc[u] : SegOf(fork[t]) <= s} = {t \in anc'[u] : SegOf(fork'[t]) <= s}
  <2>1. anc[u] = 1 .. u /\ anc'[u] = anc[u]  BY Lines DEF Grows
  <2>2. \A t \in 1 .. u : fork'[t] = fork[t]  BY <1>1 DEF Grows
  <2>. QED  BY <2>1, <2>2
<1>4. SegmentTimeline(u, s)' = SegmentTimeline(u, s)  BY <1>3 DEF SegmentTimeline, SegOf
<1>. QED  BY <1>2, <1>4 DEF Fine, Grows

\* Nor what is known of a backup's recovery.
LEMMA WholeKept ==
  ASSUME TreeInv, Grows, NEW b, NEW u \in 1 .. tli, NEW q, Whole(b, u, q)
  PROVE  Whole(b, u, q)'
<1>1. Recorded(b) => Recorded(b)'  BY DEF Recorded, Grows
<1>2. \A s \in Nat : Fine(u, s) => Fine(u, s)'  BY FineKept
<1>. QED  BY <1>1, <1>2 DEF Whole, SegOf

-----------------------------------------------------------------------------
(* Failover: the invariants, one by one.                                     *)

\* A promotion, as the other lemmas use it.
LEMMA Promotion ==
  ASSUME Clear, TreeInv, NEW p \in 1 .. tli, NEW f \in 0 .. LastLSN, Promote(p, f)
  PROVE  /\ p = tli /\ tli' = tli + 1 /\ tli' \in Timelines /\ f \in Nat /\ fork[tli] <= f
         /\ "storm" \notin scenario => tli' <= 2
         /\ anc' = [anc EXCEPT ![tli + 1] = anc[tli] \cup {tli + 1}]
         /\ fork' = [fork EXCEPT ![tli + 1] = f]
         /\ end' \in [Timelines -> Nat] /\ end'[tli + 1] = f
         /\ slot' \in Nat /\ slot' <= f /\ kept' \in Nat
         /\ UNCHANGED <<scenario, arch, hist, gaps, live, taken, lostHist, lostGaps>>
         /\ UNCHANGED <<spc, stli, restart, start, pos, on, server, asked>>
<1>1. /\ p = tli /\ tli' = tli + 1 /\ tli < IF "storm" \in scenario THEN MaxTLI ELSE 2
      /\ f \in Max({fork[p], kept}) .. end[p]
      /\ anc' = [anc EXCEPT ![tli + 1] = anc[p] \cup {tli + 1}]
      /\ fork' = [fork EXCEPT ![tli + 1] = f]
      /\ slot' \in {f} \cup {r \in {slot} : r <= f} \cup {r \in {0} : "newslot" \in scenario}
      /\ kept' \in {kept, Floor(f)}
      /\ UNCHANGED <<scenario, arch, hist, gaps, live, taken, lostHist, lostGaps>>
      /\ UNCHANGED <<spc, stli, restart, start, pos, on, server, asked>>
  BY DEF Promote, Clear, NoFault, None, backups, reports, stream
<1>2. end' = [end EXCEPT ![tli + 1] = f, ![p] = IF server = p \/ "sibling" \in scenario THEN @ ELSE f]
  BY DEF Promote
<1>3. tli \in Timelines /\ tli \in Nat /\ 1 <= tli /\ tli <= MaxTLI /\ MaxTLI \in Nat /\ 2 <= MaxTLI
  BY FConstants DEF TreeInv, Timelines
<1>4. f \in Nat
  <2>1. LastLSN \in Nat  BY FailoverAssumption
  <2>. QED  BY <2>1
<1>5. tli' \in Timelines /\ ("storm" \notin scenario => tli' <= 2)  BY <1>1, <1>3 DEF Timelines
<1>6. fork[tli] \in Nat /\ kept \in Nat /\ slot \in Nat /\ end[tli] \in Nat  BY <1>3 DEF TreeInv
<1>7. fork[tli] <= f
  <2>1. Bounded({fork[tli], kept})
    <3>1. \A x \in {fork[tli], kept} : x \in Nat /\ x <= fork[tli] + kept  BY <1>6
    <3>2. fork[tli] + kept \in Nat  BY <1>6
    <3>. QED  BY <3>1, <3>2 DEF Bounded
  <2>2. Max({fork[tli], kept}) \in Nat /\ fork[tli] <= Max({fork[tli], kept})  BY <1>6, <2>1, GreatestOf
  <2>. QED  BY <1>1, <1>4, <1>6, <2>2
<1>8. end' \in [Timelines -> Nat] /\ end'[tli + 1] = f
  <2>1. end \in [Timelines -> Nat] /\ tli + 1 \in Timelines /\ tli + 1 # tli  BY <1>1, <1>3, <1>5 DEF TreeInv
  <2>. QED  BY <1>1, <1>2, <1>4, <2>1
<1>9. slot' \in Nat /\ slot' <= f  BY <1>1, <1>4, <1>6
<1>10. kept' \in Nat  BY <1>1, <1>4, <1>6, SegFacts
<1>. QED  BY <1>1, <1>4, <1>5, <1>7, <1>8, <1>9, <1>10

\* What a slot is made of.
LEMMA SlotFound == ASSUME TreeInv, NEW r \in Reserved PROVE r \in Nat /\ r <= end[tli]
<1>1. kept \in Nat /\ end[tli] \in Nat  BY DEF TreeInv
<1>2. r \in kept .. end[tli]  BY DEF Reserved
<1>. QED  BY <1>1, <1>2

\* Every step keeps the timelines in one line.
LEMMA TreeKept ==
  ASSUME Clear, TreeInv, LiveInv, StreamInv, [FailoverNext]_failoverVars
  PROVE  TreeInv'
<1>t. tli \in Timelines /\ tli \in Nat /\ end[tli] \in Nat /\ fork[tli] \in Nat /\ kept \in Nat /\ slot \in Nat
  BY FConstants DEF TreeInv
<1>0. ASSUME UNCHANGED <<scenario, tli, anc, fork, end>>, kept' \in Nat, slot' \in Nat, slot' <= end[tli]
      PROVE  TreeInv'
  BY <1>0 DEF TreeInv
<1>1. ASSUME NEW t \in Timelines, WriteWAL(t) PROVE TreeInv'
  <2>1. end' = [end EXCEPT ![t] = @ + 1] /\ UNCHANGED <<scenario, tli, anc, fork, slot, kept>>
    BY <1>1 DEF WriteWAL, NoFault
  <2>2. end' \in [Timelines -> Nat] /\ end[tli] <= end'[tli]
    <3>1. end \in [Timelines -> Nat]  BY DEF TreeInv
    <3>2. end[t] \in Nat /\ end[t] + 1 \in Nat  BY <3>1
    <3>3. end' \in [Timelines -> Nat]  BY <2>1, <3>1, <3>2
    <3>4. end'[tli] = IF tli = t THEN end[t] + 1 ELSE end[tli]  BY <1>t, <2>1, <3>1
    <3>. QED  BY <1>t, <3>2, <3>3, <3>4
  <2>3. end'[tli] \in Nat /\ slot <= end'[tli] /\ fork[tli] <= end'[tli]
    <3>1. slot <= end[tli] /\ fork[tli] <= end[tli]  BY DEF TreeInv
    <3>. QED  BY <1>t, <2>2, <3>1
  <2>. QED  BY <2>1, <2>2, <2>3 DEF TreeInv
<1>2. ASSUME NEW p \in 1 .. tli, NEW f \in 0 .. LastLSN, Promote(p, f) PROVE TreeInv'
  <2>. DEFINE n == tli + 1
  <2>1. /\ tli' = n /\ n \in Timelines /\ f \in Nat /\ fork[tli] <= f
        /\ "storm" \notin scenario => n <= 2
        /\ anc' = [anc EXCEPT ![n] = anc[tli] \cup {n}]
        /\ fork' = [fork EXCEPT ![n] = f]
        /\ end' \in [Timelines -> Nat] /\ end'[n] = f
        /\ slot' \in Nat /\ slot' <= f /\ kept' \in Nat /\ scenario' = scenario
    BY <1>2, Promotion
  <2>2. n \in Nat /\ tli < n /\ 1 <= tli /\ 1 # n  BY <1>t DEF Timelines
  <2>3. anc \in [Timelines -> SUBSET Timelines] /\ fork \in [Timelines -> Nat]  BY DEF TreeInv
  <2>4. anc[tli] = 1 .. tli  BY <1>t, <2>2, Lines
  <2>5. anc' \in [Timelines -> SUBSET Timelines] /\ anc'[n] = (1 .. tli) \cup {n}
    BY <1>t, <2>1, <2>3, <2>4
  <2>6. fork' \in [Timelines -> Nat] /\ fork'[n] = f /\ fork'[1] = fork[1]
    BY <2>1, <2>2, <2>3, FConstants
  <2>7. anc'[n] = 1 .. n  BY <1>t, <2>2, <2>5
  <2>8. \A t \in 1 .. tli : t \in Timelines /\ t # n /\ t \in Nat /\ t <= tli /\ anc[t] = 1 .. t
    <3>1. ASSUME NEW t \in 1 .. tli PROVE t \in Timelines /\ t # n /\ t \in Nat /\ t <= tli /\ anc[t] = 1 .. t
      <4>1. t \in Timelines /\ t \in Nat /\ t <= tli /\ anc[t] = 1 .. t  BY Lines
      <4>. QED  BY <1>t, <4>1
    <3>. QED  BY <3>1
  <2>9. \A t \in 1 .. tli : anc'[t] = anc[t] /\ fork'[t] = fork[t]  BY <2>1, <2>3, <2>8
  <2>10. \A t \in 1 .. n : t \in 1 .. tli \/ t = n  BY <1>t, <2>2
  <2>11. \A t \in 1 .. n : anc'[t] = 1 .. t  BY <2>7, <2>8, <2>9, <2>10
  <2>12. ASSUME NEW t \in Timelines, t > n PROVE anc'[t] = {}
    <3>1. t \in Nat /\ t > tli /\ t # n  BY <1>t, <2>12, FConstants
    <3>2. anc[t] = {}  BY <3>1 DEF TreeInv
    <3>. QED  BY <2>1, <2>3, <3>1, <3>2
  <2>13. ASSUME NEW t \in 1 .. n, NEW u \in 1 .. n, t <= u PROVE fork'[t] <= fork'[u]
    <3>1. CASE u = n /\ t = n  BY <2>1, <2>6, <3>1
    <3>2. CASE u = n /\ t \in 1 .. tli
      <4>1. fork[t] <= fork[tli] /\ fork[t] \in Nat  BY <3>2, Lines
      <4>. QED  BY <1>t, <2>1, <2>6, <2>9, <3>2, <4>1
    <3>3. CASE u \in 1 .. tli
      <4>1. t \in 1 .. tli  BY <1>t, <2>8, <2>13, <3>3
      <4>2. fork[t] <= fork[u]  BY <2>13, <3>3, <4>1 DEF TreeInv
      <4>. QED  BY <2>9, <3>3, <4>1, <4>2
    <3>. QED  BY <2>10, <3>1, <3>2, <3>3
  <2>14. fork'[n] <= end'[n] /\ slot' <= end'[n]  BY <2>1, <2>6
  <2>15. fork'[1] = 0  BY <2>6 DEF TreeInv
  <2>. HIDE DEF n
  <2>. QED  BY <2>1, <2>5, <2>6, <2>11, <2>12, <2>13, <2>14, <2>15 DEF TreeInv
<1>3. CASE Recycle
  <2>1. UNCHANGED <<scenario, tli, anc, fork, end, slot>> /\ kept' = Floor(IF slot = None THEN end[tli] ELSE slot)
    BY <1>3 DEF Recycle, NoFault
  <2>2. kept' \in Nat  BY <1>t, <2>1, SegFacts
  <2>. QED  BY <1>0, <1>t, <2>1, <2>2 DEF TreeInv
<1>4. CASE Feedback
  <2>1. UNCHANGED <<scenario, tli, anc, fork, end, kept>> /\ slot' = pos /\ spc = "streaming" /\ server = tli
    BY <1>4 DEF Feedback, NoFault
  <2>2. pos \in Nat /\ pos <= end[tli]  BY <2>1 DEF StreamInv
  <2>. QED  BY <1>0, <1>t, <2>1, <2>2
<1>5. CASE BackupStops \/ Resolve \/ RecordPreStreamGap \/ Connect \/ Archive
  <2>1. UNCHANGED <<scenario, tli, anc, fork, end, kept, slot>>
    BY <1>5 DEF BackupStops, Resolve, RecordPreStreamGap, Connect, Archive, Fault, NoFault, cluster
  <2>. QED  BY <1>0, <1>t, <2>1 DEF TreeInv
<1>6. CASE Aside \/ Apart
  <2>1. UNCHANGED <<scenario, tli, anc, fork, end, kept>> /\ (slot' = slot \/ slot' \in Reserved)
    BY <1>6 DEF Aside, Apart
  <2>2. slot' \in Nat /\ slot' <= end[tli]  BY <1>t, <2>1, SlotFound DEF TreeInv
  <2>. QED  BY <1>0, <1>t, <2>1, <2>2
<1>. QED  BY <1>1, <1>2, <1>3, <1>4, <1>5, <1>6, Steps

\* How far a server sends a timeline.
LEMMA Limits ==
  ASSUME TreeInv, NEW v \in 1 .. tli, NEW t \in 1 .. v
  PROVE  /\ Limit(v, t) \in Nat
         /\ v = tli => Limit(v, t) <= end[tli]
<1>1. v \in Nat /\ t \in Nat /\ v <= tli /\ tli \in Nat /\ 1 <= t /\ t <= v /\ end[v] \in Nat /\ end[tli] \in Nat
  <2>1. v \in Nat /\ v <= tli /\ tli \in Nat /\ end[v] \in Nat /\ 1 <= v  BY Lines
  <2>2. tli \in 1 .. tli  BY <2>1
  <2>. QED  BY <2>1, <2>2, Lines
<1>2. CASE t = v  BY <1>1, <1>2 DEF Limit
<1>3. CASE t # v
  <2>1. t \in 1 .. tli /\ t < v /\ t + 1 \in 1 .. tli  BY <1>1, <1>3
  <2>2. Limit(v, t) = fork[t + 1]  BY <1>3, <2>1, SwitchIs DEF Limit
  <2>3. fork[t + 1] \in Nat /\ fork[t + 1] <= fork[tli]  BY <2>1, Lines
  <2>4. fork[tli] <= end[tli] /\ fork[tli] \in Nat  BY DEF TreeInv
  <2>. QED  BY <1>1, <2>2, <2>3, <2>4
<1>. QED  BY <1>2, <1>3

\* A segment that the sink commits.
LEMMA Archiving ==
  ASSUME TreeInv, ArchInv, StreamInv, Archive
  PROVE  /\ arch' = [arch EXCEPT ![on] = @ \cup {SegOf(pos)}]
         /\ pos' = EndOf(SegOf(pos)) /\ spc = "streaming"
         /\ UNCHANGED <<scenario, tli, anc, fork, end, kept, slot, hist, gaps, live, taken, lostHist, lostGaps>>
         /\ UNCHANGED <<spc, stli, restart, start, on, server, asked>>
         /\ server \in 1 .. tli /\ on \in 1 .. server /\ on \in 1 .. tli /\ on \in Timelines
         /\ pos \in Nat /\ SegOf(pos) \in Nat /\ SegOf(fork[on]) <= SegOf(pos)
         /\ EndOf(SegOf(pos)) \in Nat
         /\ server = tli => EndOf(SegOf(pos)) <= end[tli]
<1>1. /\ arch' = [arch EXCEPT ![on] = @ \cup {SegOf(pos)}]
      /\ pos' = EndOf(SegOf(pos)) /\ spc = "streaming" /\ EndOf(SegOf(pos)) <= Limit(server, on)
      /\ UNCHANGED <<scenario, tli, anc, fork, end, kept, slot, hist, gaps, live, taken, lostHist, lostGaps>>
      /\ UNCHANGED <<spc, stli, restart, start, on, server, asked>>
  BY DEF Archive, WholeSegmentLeft, NoFault, cluster, backups, reports
<1>2. server \in 1 .. tli /\ on \in 1 .. server /\ pos \in Nat /\ SegOf(fork[on]) <= SegOf(pos)
  BY <1>1 DEF StreamInv
<1>3. SegOf(pos) \in Nat /\ EndOf(SegOf(pos)) \in Nat  BY <1>2, SegFacts
<1>4. on \in 1 .. tli /\ on \in Timelines
  <2>1. server \in Nat /\ server <= tli /\ tli \in Nat  BY <1>2, Lines
  <2>2. on \in 1 .. tli  BY <1>2, <2>1
  <2>. QED  BY <2>2, Lines
<1>5. server = tli => EndOf(SegOf(pos)) <= end[tli]
  <2>1. Limit(server, on) \in Nat /\ (server = tli => Limit(server, on) <= end[tli])  BY <1>2, Limits
  <2>2. end[tli] \in Nat  BY DEF TreeInv
  <2>. QED  BY <1>1, <1>3, <2>1, <2>2
<1>. QED  BY <1>1, <1>2, <1>3, <1>4, <1>5

\* Every step keeps the archive within the WAL.
LEMMA ArchKept ==
  ASSUME Clear, TreeInv, ArchInv, LiveInv, StreamInv, [FailoverNext]_failoverVars
  PROVE  ArchInv'
<1>t. tli \in Timelines /\ tli \in Nat /\ 1 <= tli /\ end[tli] \in Nat  BY FConstants DEF TreeInv, Timelines
<1>a. \A x \in arch[tli] : x \in Nat /\ EndOf(x) \in Nat /\ EndOf(x) <= end[tli]
  BY <1>t, SegFacts DEF ArchInv, Bounded
<1>0. ASSUME UNCHANGED <<tli, arch>>, end'[tli] \in Nat, end[tli] <= end'[tli]
      PROVE  ArchInv'
  <2>1. \A x \in arch[tli] : EndOf(x) <= end'[tli]  BY <1>t, <1>a, <1>0
  <2>. QED  BY <1>0, <2>1 DEF ArchInv, Bounded, EndOf
<1>1. ASSUME NEW t \in Timelines, WriteWAL(t) PROVE ArchInv'
  <2>1. end' = [end EXCEPT ![t] = @ + 1] /\ UNCHANGED <<tli, arch>>  BY <1>1 DEF WriteWAL
  <2>2. end'[tli] \in Nat /\ end[tli] <= end'[tli]
    <3>1. end \in [Timelines -> Nat]  BY DEF TreeInv
    <3>2. end[t] \in Nat  BY <3>1
    <3>3. end'[tli] = IF tli = t THEN end[t] + 1 ELSE end[tli]  BY <1>t, <2>1, <3>1
    <3>. QED  BY <1>t, <3>2, <3>3
  <2>. QED  BY <1>0, <2>1, <2>2
<1>2. ASSUME NEW p \in 1 .. tli, NEW f \in 0 .. LastLSN, Promote(p, f) PROVE ArchInv'
  <2>1. tli' = tli + 1 /\ tli + 1 \in Timelines /\ arch' = arch  BY <1>2, Promotion
  <2>2. arch[tli + 1] = {}  BY <1>t, <2>1 DEF ArchInv
  <2>3. \A t \in Timelines : t > tli + 1 => t > tli  BY <1>t, FConstants
  <2>. QED  BY <2>1, <2>2, <2>3 DEF ArchInv, Bounded
<1>3. CASE Archive
  <2>. DEFINE q == SegOf(pos)
  <2>1. /\ arch' = [arch EXCEPT ![on] = @ \cup {q}] /\ q \in Nat /\ on \in 1 .. tli /\ on \in Timelines
        /\ UNCHANGED <<tli, end>> /\ server \in 1 .. tli /\ on \in 1 .. server
        /\ server = tli => EndOf(q) <= end[tli]
    BY <1>3, Archiving
  <2>. HIDE DEF q
  <2>2. arch' = [t \in Timelines |-> IF t = on THEN arch[t] \cup {q} ELSE arch[t]]  BY <2>1 DEF ArchInv
  <2>3. Bounded(arch[on] \cup {q})
    <3>1. PICK k \in Nat : \A x \in arch[on] : x <= k  BY <2>1 DEF ArchInv, Bounded
    <3>2. arch[on] \subseteq Nat  BY <2>1 DEF ArchInv, Bounded
    <3>3. k + q \in Nat /\ \A x \in arch[on] \cup {q} : x \in Nat /\ x <= k + q  BY <2>1, <3>1, <3>2
    <3>. QED  BY <3>3 DEF Bounded
  <2>4. ASSUME NEW t \in Timelines PROVE Bounded(arch'[t]) /\ (t > tli => arch'[t] = {})
    <3>1. CASE t = on
      <4>1. on \in Nat /\ on <= tli  BY <2>1, Lines
      <4>. QED  BY <1>t, <2>2, <2>3, <3>1, <4>1
    <3>2. CASE t # on  BY <2>2, <3>2 DEF ArchInv
    <3>. QED  BY <3>1, <3>2
  <2>5. ASSUME NEW x \in arch'[tli] PROVE EndOf(x) <= end[tli]
    <3>1. CASE x \in arch[tli]  BY <3>1 DEF ArchInv
    <3>2. CASE x \notin arch[tli]
      <4>1. on = tli /\ x = q  BY <1>t, <2>2, <2>5, <3>2
      <4>2. server = tli
        <5>1. server \in Nat /\ server <= tli  BY <2>1, Lines
        <5>. QED  BY <1>t, <2>1, <4>1, <5>1
      <4>. QED  BY <2>1, <4>1, <4>2
    <3>. QED  BY <3>1, <3>2
  <2>6. arch' = [t \in Timelines |-> arch'[t]]  BY <2>2
  <2>. QED  BY <2>1, <2>4, <2>5, <2>6 DEF ArchInv, Bounded, EndOf
<1>4. CASE Recycle \/ BackupStops \/ Feedback \/ Resolve \/ RecordPreStreamGap \/ Connect
  <2>1. UNCHANGED <<tli, end, arch>>
    BY <1>4 DEF Recycle, BackupStops, Feedback, Resolve, RecordPreStreamGap, Connect, cluster
  <2>. QED  BY <1>0, <1>t, <2>1
<1>5. CASE Aside \/ Apart
  <2>1. UNCHANGED <<tli, end, arch>>  BY <1>5 DEF Aside, Apart
  <2>. QED  BY <1>0, <1>t, <2>1
<1>. QED  BY <1>1, <1>2, <1>3, <1>4, <1>5, Steps

\* A backup that stops.
LEMMA Stopping ==
  ASSUME Clear, BackupStops
  PROVE  /\ live' = live \cup {[tli |-> tli, stop |-> end[tli]]} /\ taken' = taken
         /\ UNCHANGED <<scenario, tli, anc, fork, end, kept, slot, arch, hist, gaps, lostHist, lostGaps>>
         /\ UNCHANGED <<spc, stli, restart, start, pos, on, server, asked>>
BY DEF BackupStops, Clear, NoFault, cluster, reports, stream

\* Every step keeps backups on their timelines.
LEMMA LiveKept ==
  ASSUME Clear, TreeInv, ArchInv, LiveInv, StreamInv, [FailoverNext]_failoverVars
  PROVE  LiveInv'
<1>t. tli \in Nat /\ 1 <= tli /\ end[tli] \in Nat /\ fork[tli] <= end[tli]
  BY FConstants DEF TreeInv, Timelines
<1>0. ASSUME UNCHANGED <<tli, fork, live, taken>> PROVE LiveInv'  BY <1>0 DEF LiveInv
<1>1. ASSUME NEW p \in 1 .. tli, NEW f \in 0 .. LastLSN, Promote(p, f) PROVE LiveInv'
  <2>1. tli' = tli + 1 /\ fork' = [fork EXCEPT ![tli + 1] = f] /\ UNCHANGED <<live, taken>>
    BY <1>1, Promotion
  <2>2. \A t \in 1 .. tli : t \in 1 .. tli + 1 /\ fork'[t] = fork[t]
    <3>1. ASSUME NEW t \in 1 .. tli PROVE t \in 1 .. tli + 1 /\ fork'[t] = fork[t]
      <4>1. t \in Timelines /\ t # tli + 1 /\ t \in 1 .. tli + 1
        <5>1. t \in Timelines /\ t \in Nat /\ t <= tli  BY Lines
        <5>. QED  BY <1>t, <5>1
      <4>. QED  BY <2>1, <4>1 DEF TreeInv
    <3>. QED  BY <3>1
  <2>. QED  BY <2>1, <2>2 DEF LiveInv
<1>2. CASE BackupStops
  <2>1. /\ live' = live \cup {[tli |-> tli, stop |-> end[tli]]} /\ taken' = taken
        /\ UNCHANGED <<tli, fork>>
    BY <1>2, Stopping
  <2>2. tli \in 1 .. tli  BY <1>t
  <2>. QED  BY <1>t, <2>1, <2>2 DEF LiveInv
<1>3. CASE \E t \in Timelines : WriteWAL(t)
  BY <1>0, <1>3 DEF WriteWAL, backups
<1>4. CASE Recycle \/ Feedback \/ Resolve \/ RecordPreStreamGap \/ Connect \/ Archive
  <2>1. UNCHANGED <<tli, fork, live, taken>>
    BY <1>4 DEF Recycle, Feedback, Resolve, RecordPreStreamGap, Connect, Archive, cluster, backups
  <2>. QED  BY <1>0, <2>1
<1>5. CASE Aside \/ Apart  BY <1>0, <1>5 DEF Aside, Apart
<1>. QED  BY <1>1, <1>2, <1>3, <1>4, <1>5, Steps

\* The newest earlier timeline with segments.
LEMMA PriorIs ==
  ASSUME TreeInv, NEW n \in 1 .. tli
  PROVE  /\ Prior(n) # 0 => Prior(n) \in 1 .. tli /\ Prior(n) < n /\ arch[Prior(n)] # {}
         /\ Prior(n) = 0 => \A t \in 1 .. tli : t < n => arch[t] = {}
<1>. DEFINE T == {0} \cup {u \in 1 .. n - 1 : arch[u] # {}}
<1>1. n \in Nat /\ n <= tli /\ tli \in Nat  BY Lines
<1>2. Bounded(T) /\ T # {}
  <2>1. \A x \in T : x \in Nat /\ x <= n  BY <1>1
  <2>. QED  BY <1>1, <2>1 DEF Bounded
<1>3. Prior(n) = Max(T)  BY DEF Prior, None
<1>4. Max(T) \in T /\ \A y \in T : y <= Max(T)
  <2>. HIDE DEF T
  <2>. QED  BY <1>2, GreatestOf
<1>5. ASSUME Prior(n) = 0, NEW t \in 1 .. tli, t < n PROVE arch[t] = {}
  <2>1. t \in Nat /\ 1 <= t /\ t \in 1 .. n - 1  BY <1>1, <1>5, Lines
  <2>2. arch[t] # {} => t \in T  BY <2>1
  <2>3. t \in T => t <= 0  BY <1>3, <1>4, <1>5
  <2>. QED  BY <2>1, <2>2, <2>3
<1>6. ASSUME Prior(n) # 0 PROVE Prior(n) \in 1 .. tli /\ Prior(n) < n /\ arch[Prior(n)] # {}
  <2>1. Prior(n) \in 1 .. n - 1 /\ arch[Prior(n)] # {}  BY <1>3, <1>4, <1>6
  <2>. QED  BY <1>1, <2>1
<1>. QED  BY <1>5, <1>6

\* The end of what is archived on a timeline.
LEMMA Highest ==
  ASSUME TreeInv, ArchInv, NEW t \in 1 .. tli, arch[t] # {}
  PROVE  \E x \in arch[t] : x \in Nat /\ HighestArchivedLSN(t) = EndOf(x) /\ EndOf(x) \in Nat
<1>1. Bounded(arch[t])  BY Lines DEF ArchInv
<1>2. Max(arch[t]) \in arch[t]  BY <1>1, GreatestOf
<1>3. Max(arch[t]) \in Nat  BY <1>1, <1>2 DEF Bounded
<1>. QED  BY <1>2, <1>3, SegFacts DEF HighestArchivedLSN

\* The clamp: not past the end of the timeline's archive, nor past the fork when
\* the history file is there.
LEMMA ClampIs ==
  ASSUME TreeInv, ArchInv, NEW n \in 1 .. tli, NEW p \in 1 .. tli, p < n, arch[p] # {}
  PROVE  /\ Clamped(n, p) \in Nat
         /\ \E x \in arch[p] : x \in Nat /\ Clamped(n, p) <= EndOf(x)
         /\ n \in hist => Clamped(n, p) <= fork[p + 1]
<1>1. n \in Nat /\ p \in Nat /\ 1 <= p /\ n <= tli /\ tli \in Nat /\ anc[n] = 1 .. n  BY Lines
<1>2. PICK x \in arch[p] : x \in Nat /\ HighestArchivedLSN(p) = EndOf(x) /\ EndOf(x) \in Nat  BY Highest
<1>3. Below(n, p) = 1 .. p
  <2>1. \A a : a \in 1 .. p <=> a \in (1 .. n) \ {n} /\ a <= p  BY <1>1
  <2>. QED  BY <1>1, <2>1 DEF Below
<1>4. Max(1 .. p) = p /\ 1 .. p # {}
  <2>1. 1 .. p \subseteq Nat /\ p \in 1 .. p /\ \A y \in 1 .. p : y <= p  BY <1>1
  <2>. QED  BY <2>1, MaxIs
<1>5. LeavesAt(n, p) = fork[p + 1]  BY <1>3, <1>4, SwitchIs DEF LeavesAt
<1>6. p + 1 \in 1 .. tli /\ fork[p + 1] \in Nat
  <2>1. p + 1 \in 1 .. tli  BY <1>1
  <2>. QED  BY <2>1, Lines
<1>7. Floor(fork[p + 1]) \in Nat /\ Floor(fork[p + 1]) <= fork[p + 1]  BY <1>6, SegFacts
<1>8. CASE n \in hist
  <2>. DEFINE T == {EndOf(x), Floor(fork[p + 1])}
  <2>1. Clamped(n, p) = Min(T)  BY <1>2, <1>3, <1>4, <1>5, <1>8 DEF Clamped
  <2>2. T \subseteq Nat /\ T # {}  BY <1>2, <1>7
  <2>3. Min(T) \in T /\ \A y \in T : Min(T) <= y
    <3>. HIDE DEF T
    <3>. QED  BY <2>2, MinIs
  <2>4. Min(T) \in Nat /\ Min(T) <= EndOf(x) /\ Min(T) <= Floor(fork[p + 1])  BY <2>2, <2>3
  <2>5. Min(T) <= fork[p + 1]  BY <1>6, <1>7, <2>4
  <2>. HIDE DEF T
  <2>. QED  BY <1>2, <2>1, <2>4, <2>5
<1>9. CASE n \notin hist
  <2>1. Clamped(n, p) = EndOf(x) /\ EndOf(x) <= EndOf(x)  BY <1>2, <1>9 DEF Clamped
  <2>. QED  BY <1>2, <1>9, <2>1
<1>. QED  BY <1>8, <1>9

\* Where a stream is to begin: at the end of its timeline's archive, or at the
\* end of an earlier one's, or, when there is none, at the slot's restart_lsn.
LEMMA Resolving ==
  ASSUME Clear, TreeInv, ArchInv, StreamInv, Resolve
  PROVE  /\ UNCHANGED <<scenario, tli, anc, fork, end, kept, slot, arch, hist, gaps, live, taken, lostHist, lostGaps>>
         /\ UNCHANGED <<stli, pos, on, server, asked>> /\ restart' = 0 /\ start' \in Nat
         /\ stli \in 1 .. tli /\ spc = "resolve"
         /\ \/ spc' = "connect" /\ \E x \in arch[stli] : x \in Nat /\ start' = EndOf(x)
            \/ /\ spc' = "connect"
               /\ \E p \in 1 .. tli : \E x \in arch[p] :
                    /\ p < stli /\ x \in Nat /\ start' <= EndOf(x)
                    /\ start' <= fork[p + 1] \/ (stli \in lostHist /\ "fail" \in scenario)
            \/ spc' = "record" /\ start' = Floor(restart) /\ \A t \in 1 .. stli : arch[t] = {}
<1>1. /\ UNCHANGED <<scenario, tli, anc, fork, end, kept, slot, arch, hist, gaps, live, taken, lostHist, lostGaps>>
      /\ UNCHANGED <<stli, pos, on, server, asked>> /\ restart' = 0 /\ spc = "resolve"
  BY DEF Resolve, Fault, NoFault, None, cluster, backups, reports
<1>2. stli \in 1 .. tli /\ restart \in Nat  BY <1>1 DEF StreamInv, SetUp
<1>3. stli \in Nat /\ stli <= tli /\ tli \in Nat /\ 1 <= stli  BY <1>2, Lines
<1>4. stli \in {1} \cup hist \/ (stli \in lostHist /\ "fail" \in scenario)  BY <1>1 DEF StreamInv, SetUp
<1>5. asked = 0  BY DEF StreamInv
<1>6. \/ arch[stli] # {} /\ start' = HighestArchivedLSN(stli) /\ spc' = "connect"
      \/ /\ Prior(stli) # 0 /\ start' = Clamped(stli, Prior(stli)) /\ spc' = "connect"
      \/ arch[stli] = {} /\ Prior(stli) = 0 /\ start' = Floor(restart) /\ spc' = "record"
  BY <1>5 DEF Resolve, None, Fault, Clear
<1>7. CASE arch[stli] # {} /\ start' = HighestArchivedLSN(stli) /\ spc' = "connect"
  <2>1. PICK x \in arch[stli] : x \in Nat /\ HighestArchivedLSN(stli) = EndOf(x) /\ EndOf(x) \in Nat
    BY <1>2, <1>7, Highest
  <2>. QED  BY <1>1, <1>2, <1>7, <2>1
<1>8. CASE Prior(stli) # 0 /\ start' = Clamped(stli, Prior(stli)) /\ spc' = "connect"
  <2>1. PICK p : p = Prior(stli)  OBVIOUS
  <2>2. p \in 1 .. tli /\ p < stli /\ arch[p] # {}  BY <1>2, <1>8, <2>1, PriorIs
  <2>3. /\ start' \in Nat /\ \E x \in arch[p] : x \in Nat /\ start' <= EndOf(x)
        /\ stli \in hist => start' <= fork[p + 1]
    BY <1>2, <1>8, <2>1, <2>2, ClampIs
  <2>4. stli # 1
    <3>1. p \in Nat /\ 1 <= p  BY <2>2, Lines
    <3>. QED  BY <1>3, <2>2, <3>1
  <2>5. start' <= fork[p + 1] \/ (stli \in lostHist /\ "fail" \in scenario)  BY <1>4, <2>3, <2>4
  <2>. QED  BY <1>1, <1>2, <1>8, <2>2, <2>3, <2>5
<1>9. CASE arch[stli] = {} /\ Prior(stli) = 0 /\ start' = Floor(restart) /\ spc' = "record"
  <2>1. ASSUME NEW t \in 1 .. stli PROVE arch[t] = {}
    <3>1. t \in 1 .. tli /\ (t = stli \/ t < stli)  BY <1>3
    <3>2. t < stli => arch[t] = {}  BY <1>2, <1>9, <3>1, PriorIs
    <3>. QED  BY <1>9, <3>1, <3>2
  <2>2. start' \in Nat  BY <1>2, <1>9, SegFacts
  <2>. QED  BY <1>1, <1>2, <1>9, <2>1, <2>2
<1>. QED  BY <1>6, <1>7, <1>8, <1>9

\* The timeline that holds where a stream is to begin.
LEMMA ContainingIs ==
  ASSUME TreeInv, NEW n \in 1 .. tli, NEW l \in Nat
  PROVE  \/ Containing(n, l) = n
         \/ /\ Containing(n, l) \in 1 .. tli /\ Containing(n, l) < n
            /\ SegOf(l) < SegOf(fork[Containing(n, l) + 1])
<1>. DEFINE older == {a \in anc[n] \ {n} : SegOf(l) < SegOf(SwitchPoint(n, a))}
<1>1. n \in Nat /\ n <= tli /\ tli \in Nat /\ anc[n] = 1 .. n  BY Lines
<1>2. CASE older = {}  BY <1>2 DEF Containing
<1>3. CASE older # {}
  <2>1. Containing(n, l) = Min(older)  BY <1>3 DEF Containing
  <2>2. older \subseteq Nat  BY <1>1
  <2>3. Min(older) \in older
    <3>. HIDE DEF older
    <3>. QED  BY <1>3, <2>2, MinIs
  <2>4. PICK a : a = Min(older)  OBVIOUS
  <2>5. a \in 1 .. n /\ a # n /\ SegOf(l) < SegOf(SwitchPoint(n, a))  BY <1>1, <2>3, <2>4
  <2>6. a \in 1 .. tli /\ a < n  BY <1>1, <2>5
  <2>7. SwitchPoint(n, a) = fork[a + 1]  BY <2>6, SwitchIs
  <2>. QED  BY <2>1, <2>4, <2>5, <2>6, <2>7
<1>. QED  BY <1>2, <1>3

\* The answer to START_REPLICATION.
LEMMA Connecting ==
  ASSUME Clear, TreeInv, StreamInv, Connect
  PROVE  /\ UNCHANGED <<scenario, tli, anc, fork, end, kept, slot, arch, hist, gaps, live, taken, lostHist, lostGaps>>
         /\ asked' = asked /\ spc = "connect" /\ stli \in 1 .. tli
         /\ restart' \in Nat /\ start' \in Nat /\ pos' \in Nat
         /\ \/ spc' \in {"down", "stopped", "refused"}
            \/ /\ spc' = "streaming" /\ pos' = start /\ server' = tli
               /\ on' \in 1 .. tli /\ start <= end[tli] /\ SegOf(fork[on']) <= SegOf(start)
               /\ on' = stli \/ (on' < stli /\ SegOf(start) < SegOf(fork[on' + 1]))
<1>1. /\ UNCHANGED <<scenario, tli, anc, fork, end, kept, slot, arch, hist, gaps, live, taken, lostHist, lostGaps>>
      /\ asked' = asked /\ spc = "connect"
  <2>1. UNCHANGED <<scenario, lostHist>>  BY DEF Connect, Clear, Fault, NoFault
  <2>2. asked' = asked  BY DEF Connect, Broke, Forget, Refuse
  <2>. QED  BY <2>1, <2>2 DEF Connect, cluster, backups
<1>2. stli \in 1 .. tli /\ restart \in Nat /\ start \in Nat /\ pos \in Nat  BY <1>1 DEF StreamInv, SetUp
<1>3. restart' \in Nat /\ start' \in Nat /\ pos' \in Nat
  BY <1>2 DEF Connect, Broke, Forget, Refuse, None
<1>4. \/ spc' \in {"down", "stopped", "refused"}
      \/ /\ spc' = "streaming" /\ pos' = start /\ server' = tli
         /\ on' \in {stli, Containing(stli, start)} /\ on' \in anc[tli] /\ start <= Limit(tli, on')
         /\ ~Gone(on', start)
  BY DEF Connect, Broke, Refuse
<1>5. ASSUME spc' = "streaming", NEW t, t \in {stli, Containing(stli, start)}, t \in anc[tli],
             start <= Limit(tli, t), ~Gone(t, start)
      PROVE  /\ t \in 1 .. tli /\ start <= end[tli] /\ SegOf(fork[t]) <= SegOf(start)
             /\ t = stli \/ (t < stli /\ SegOf(start) < SegOf(fork[t + 1]))
  <2>1. t = stli \/ (t \in 1 .. tli /\ t < stli /\ SegOf(start) < SegOf(fork[t + 1]))
    BY <1>2, <1>5, ContainingIs
  <2>2. t \in 1 .. tli  BY <1>2, <2>1
  <2>3. fork[t] \in Nat /\ SegOf(fork[t]) \in Nat /\ SegOf(start) \in Nat  BY <1>2, <2>2, Lines, SegFacts
  <2>4. SegOf(fork[t]) <= SegOf(start)  BY <1>5, <2>3 DEF Gone
  <2>5. tli \in 1 .. tli /\ end[tli] \in Nat
    <3>1. tli \in Nat /\ 1 <= tli  BY FConstants DEF TreeInv, Timelines
    <3>. QED  BY <3>1 DEF TreeInv
  <2>6. Limit(tli, t) \in Nat /\ Limit(tli, t) <= end[tli]  BY <2>2, <2>5, Limits
  <2>. QED  BY <1>2, <1>5, <2>1, <2>2, <2>4, <2>5, <2>6
<1>. QED  BY <1>1, <1>2, <1>3, <1>4, <1>5

\* The look for backups before the stream.
LEMMA Recording ==
  ASSUME Clear, RecordPreStreamGap
  PROVE  /\ UNCHANGED <<scenario, tli, anc, fork, end, kept, slot, arch, hist, live, taken, lostHist>>
         /\ UNCHANGED <<stli, restart, start, pos, on, server, asked>>
         /\ spc = "record" /\ spc' = "connect"
<1>1. scenario' = scenario  BY DEF RecordPreStreamGap, Fault, NoFault
<1>. QED  BY <1>1 DEF RecordPreStreamGap, cluster, backups

\* Every step keeps an attempt within the WAL.
LEMMA StreamKept ==
  ASSUME Clear, TreeInv, ArchInv, LiveInv, StreamInv, [FailoverNext]_failoverVars
  PROVE  StreamInv'
<1>t. tli \in Timelines /\ tli \in Nat /\ 1 <= tli /\ tli \in 1 .. tli /\ end[tli] \in Nat /\ fork[tli] \in Nat
  <2>1. tli \in Timelines /\ tli \in Nat /\ 1 <= tli  BY FConstants DEF TreeInv, Timelines
  <2>. QED  BY <2>1 DEF TreeInv
<1>0. ASSUME UNCHANGED <<scenario, tli, fork, arch>>, hist \subseteq hist', lostHist \subseteq lostHist',
             UNCHANGED <<spc, stli, restart, start, pos, on, server, asked>>,
             end'[tli] \in Nat, end[tli] <= end'[tli]
      PROVE  StreamInv'
  <2>1. \A l \in Nat : l <= end[tli] => l <= end'[tli]  BY <1>t, <1>0
  <2>. QED  BY <1>0, <2>1 DEF StreamInv, SegOf
<1>1. ASSUME NEW t \in Timelines, WriteWAL(t) PROVE StreamInv'
  <2>1. /\ end' = [end EXCEPT ![t] = @ + 1] /\ UNCHANGED <<scenario, tli, fork, arch, hist, lostHist>>
        /\ UNCHANGED <<spc, stli, restart, start, pos, on, server, asked>>
    BY <1>1 DEF WriteWAL, NoFault, reports, stream
  <2>2. end'[tli] \in Nat /\ end[tli] <= end'[tli]
    <3>1. end \in [Timelines -> Nat]  BY DEF TreeInv
    <3>2. end[t] \in Nat  BY <3>1
    <3>3. end'[tli] = IF tli = t THEN end[t] + 1 ELSE end[tli]  BY <1>t, <2>1, <3>1
    <3>. QED  BY <1>t, <3>2, <3>3
  <2>. QED  BY <1>0, <2>1, <2>2
<1>2. ASSUME NEW p \in 1 .. tli, NEW f \in 0 .. LastLSN, Promote(p, f) PROVE StreamInv'
  <2>1. /\ tli' = tli + 1 /\ UNCHANGED <<scenario, arch, hist, lostHist>>
        /\ UNCHANGED <<spc, stli, restart, start, pos, on, server, asked>>
    BY <1>2, Promotion
  <2>2. Grows  BY Growth
  <2>3. \A t \in 1 .. tli : t \in 1 .. tli + 1 /\ t # tli + 1 /\ fork'[t] = fork[t]
    <3>1. ASSUME NEW t \in 1 .. tli PROVE t \in 1 .. tli + 1 /\ t # tli + 1 /\ fork'[t] = fork[t]
      BY <1>t, <2>2 DEF Grows
    <3>. QED  BY <3>1
  <2>4. /\ spc = "streaming" => server \in 1 .. tli /\ on \in 1 .. server
        /\ spc \in SetUp => stli \in 1 .. tli
    BY DEF StreamInv
  <2>5. spc = "streaming" => on \in 1 .. tli  BY <1>t, <2>4
  <2>. QED  BY <2>1, <2>3, <2>4, <2>5 DEF StreamInv, SetUp, SegOf
<1>3. CASE Recycle \/ BackupStops \/ Feedback
  <2>1. /\ UNCHANGED <<scenario, tli, fork, end, arch, hist, lostHist>>
        /\ UNCHANGED <<spc, stli, restart, start, pos, on, server, asked>>
    BY <1>3 DEF Recycle, BackupStops, Feedback, NoFault, cluster, reports, stream
  <2>. QED  BY <1>0, <1>t, <2>1
<1>4. CASE Resolve
  <2>1. /\ UNCHANGED <<scenario, tli, fork, end, arch, hist, lostHist>>
        /\ UNCHANGED <<stli, pos, on, server, asked>> /\ restart' = 0 /\ start' \in Nat
        /\ stli \in 1 .. tli /\ spc = "resolve" /\ spc' \in {"connect", "record"}
        /\ spc' = "record" => start' = Floor(restart) /\ \A t \in 1 .. stli : arch[t] = {}
    BY <1>4, Resolving
  <2>2. stli \in {1} \cup hist \/ (stli \in lostHist /\ "fail" \in scenario)  BY <2>1 DEF StreamInv, SetUp
  <2>3. ASSUME spc' = "record", stli = tli PROVE start' <= end[tli]
    <3>1. restart \in Nat /\ restart <= end[tli]  BY <2>1, <2>3 DEF StreamInv
    <3>2. Floor(restart) \in Nat /\ Floor(restart) <= restart  BY <3>1, SegFacts
    <3>. QED  BY <1>t, <2>1, <2>3, <3>1, <3>2
  <2>4. ASSUME spc' = "connect", stli = tli PROVE start' <= end[tli] \/ stli \in lostHist
    <3>1. \/ \E x \in arch[stli] : start' = EndOf(x)
          \/ \E p \in 1 .. tli : p < stli /\ (start' <= fork[p + 1] \/ stli \in lostHist)
      BY <1>4, <2>4, Resolving
    <3>2. (\E x \in arch[stli] : start' = EndOf(x)) => start' <= end[tli]  BY <2>4 DEF ArchInv
    <3>3. ASSUME NEW p \in 1 .. tli, p < stli, start' <= fork[p + 1] PROVE start' <= end[tli]
      <4>1. p + 1 \in 1 .. tli  BY <1>t, <2>4, <3>3
      <4>2. fork[p + 1] \in Nat /\ fork[p + 1] <= fork[tli]  BY <4>1, Lines
      <4>3. fork[tli] <= end[tli]  BY DEF TreeInv
      <4>. QED  BY <1>t, <2>1, <3>3, <4>2, <4>3
    <3>. QED  BY <3>1, <3>2, <3>3
  <2>5. asked = 0 /\ pos \in Nat /\ 0 \in Nat  BY DEF StreamInv
  <2>. QED  BY <2>1, <2>2, <2>3, <2>4, <2>5 DEF StreamInv, SetUp
<1>5. CASE RecordPreStreamGap
  <2>1. /\ UNCHANGED <<scenario, tli, fork, end, arch, hist, lostHist>>
        /\ UNCHANGED <<stli, restart, start, pos, on, server, asked>>
        /\ spc = "record" /\ spc' = "connect"
    BY <1>5, Recording
  <2>. QED  BY <2>1 DEF StreamInv, SetUp
<1>6. CASE Connect
  <2>1. /\ UNCHANGED <<scenario, tli, fork, end, arch, hist, lostHist>>
        /\ asked' = asked /\ spc = "connect" /\ stli \in 1 .. tli
        /\ restart' \in Nat /\ start' \in Nat /\ pos' \in Nat
        /\ \/ spc' \in {"down", "stopped", "refused"}
           \/ /\ spc' = "streaming" /\ pos' = start /\ server' = tli
              /\ on' \in 1 .. tli /\ start <= end[tli] /\ SegOf(fork[on']) <= SegOf(start)
    BY <1>6, Connecting
  <2>. QED  BY <1>t, <2>1 DEF StreamInv, SetUp, SegOf
<1>7. CASE Archive
  <2>. DEFINE q == SegOf(pos)
  <2>1. /\ UNCHANGED <<scenario, tli, fork, end, hist, lostHist>>
        /\ UNCHANGED <<spc, stli, restart, start, on, server, asked>> /\ spc = "streaming"
        /\ pos' = EndOf(q) /\ q \in Nat /\ EndOf(q) \in Nat /\ SegOf(fork[on]) <= q
        /\ server \in 1 .. tli /\ on \in 1 .. server /\ on \in 1 .. tli
        /\ server = tli => EndOf(q) <= end[tli]
    BY <1>7, Archiving
  <2>2. SegOf(EndOf(q)) = q + 1 /\ SegOf(fork[on]) \in Nat  BY <2>1, SegEnd, Lines
  <2>3. SegOf(fork[on]) <= SegOf(EndOf(q))  BY <2>1, <2>2
  <2>. HIDE DEF q
  <2>. QED  BY <2>1, <2>3 DEF StreamInv, SetUp, SegOf
<1>8. CASE Aside
  <2>1. /\ UNCHANGED <<scenario, tli, fork, end, arch>> /\ hist \subseteq hist' /\ lostHist \subseteq lostHist'
        /\ UNCHANGED <<spc, stli, restart, start, pos, on, server, asked>>
    BY <1>8 DEF Aside
  <2>. QED  BY <1>0, <1>t, <2>1
<1>9. CASE Apart
  <2>1. slot' \in Nat /\ slot' <= end[tli]  BY <1>9, SlotFound DEF Apart, TreeInv
  <2>2. restart' \in Nat /\ start' \in Nat /\ pos' \in Nat /\ asked' = 0  BY <1>9, <2>1 DEF Apart, StreamInv
  <2>. QED  BY <1>t, <1>9, <2>1, <2>2 DEF Apart, StreamInv, SetUp
<1>. QED  BY <1>1, <1>2, <1>3, <1>4, <1>5, <1>6, <1>7, <1>8, <1>9, Steps

\* No hole is known of after a stream's beginning that is before the backup's end.
LEMMA Nothing ==
  ASSUME NEW b, NEW u, NEW q \in Int, b.stop \in Nat, q <= SegOf(b.stop)
  PROVE  Whole(b, u, q)
<1>1. SegOf(b.stop) \in Nat  BY SegFacts
<1>. QED  BY <1>1 DEF Whole

\* What is known of a recovery, at the stream's own variables.
LEMMA WholeAt ==
  ASSUME NEW b, NEW u, NEW q, Whole(b, u, q)'
  PROVE  /\ u = stli' /\ q = SegOf(start') => Whole(b, stli, SegOf(start))'
         /\ u = on' /\ q = SegOf(pos') => Whole(b, on, SegOf(pos))'
BY DEF Whole, Fine, SegmentTimeline, SegOf

\* A step that archives nothing and moves no stream.
LEMMA HolesSame ==
  ASSUME TreeInv, ArchInv, StreamInv, Grows, NEW b, Holes(b),
         arch' = arch, tli' = tli \/ (tli' = tli + 1 /\ tli' \in Timelines),
         \/ spc' \notin {"connect", "streaming"}
         \/ UNCHANGED <<spc, stli, start, on, pos>>
  PROVE  Holes(b)'
<1>1. \A u \in 1 .. tli : \A q : Whole(b, u, q) => Whole(b, u, q)'  BY WholeKept
<1>t. tli \in Nat /\ 1 <= tli  BY FConstants DEF TreeInv, Timelines
<1>2. ASSUME spc' = "connect", b.tli <= stli' PROVE Whole(b, stli, SegOf(start))'
  <2>1. spc = "connect" /\ stli' = stli /\ start' = start  BY <1>2
  <2>2. stli \in 1 .. tli /\ Whole(b, stli, SegOf(start))  BY <1>2, <2>1 DEF StreamInv, SetUp, Holes
  <2>3. PICK u, q : u = stli /\ q = SegOf(start)  OBVIOUS
  <2>4. Whole(b, u, q)'  BY <1>1, <2>2, <2>3
  <2>5. u = stli' /\ q = SegOf(start')  BY <2>1, <2>3
  <2>. QED  BY <2>4, <2>5, WholeAt
<1>3. ASSUME spc' = "streaming", b.tli <= on' PROVE Whole(b, on, SegOf(pos))'
  <2>1. spc = "streaming" /\ on' = on /\ pos' = pos  BY <1>3
  <2>2. server \in 1 .. tli /\ on \in 1 .. server /\ Whole(b, on, SegOf(pos))  BY <1>3, <2>1 DEF StreamInv, Holes
  <2>3. on \in 1 .. tli  BY <1>t, <2>2
  <2>4. PICK u, q : u = on /\ q = SegOf(pos)  OBVIOUS
  <2>5. Whole(b, u, q)'  BY <1>1, <2>2, <2>3, <2>4
  <2>6. u = on' /\ q = SegOf(pos')  BY <2>1, <2>4
  <2>. QED  BY <2>5, <2>6, WholeAt
<1>4. ASSUME NEW u \in 1 .. tli', b.tli <= u, NEW x \in arch'[u] PROVE Whole(b, u, x + 1)'
  <2>1. u \in 1 .. tli
    <3>1. u \in 1 .. tli \/ (u = tli + 1 /\ u \in Timelines)  BY <1>t
    <3>2. u = tli + 1 /\ u \in Timelines => arch[u] = {}  BY <1>t DEF ArchInv
    <3>. QED  BY <1>4, <3>1, <3>2
  <2>2. Whole(b, u, x + 1)  BY <1>4, <2>1 DEF Holes
  <2>. QED  BY <1>1, <2>1, <2>2
<1>. QED  BY <1>2, <1>3, <1>4 DEF Holes

\* Where a timeline's file is known to be lost, its own holes are explained.
LEMMA LostFine ==
  ASSUME TreeInv, NEW b, NEW q, NEW u \in 1 .. tli, u \in lostHist, b.stop \in Nat, fork[u] <= b.stop
  PROVE  Whole(b, u, q)
<1>1. ASSUME NEW s \in Nat, SegOf(b.stop) <= s PROVE Fine(u, s)
  <2>1. u \in Nat /\ 1 <= u /\ fork[u] \in Nat /\ SegOf(fork[u]) \in Nat  BY Lines
  <2>2. SegOf(fork[u]) <= SegOf(b.stop) /\ SegOf(b.stop) \in Nat  BY <2>1, SegMono, SegFacts
  <2>3. SegOf(fork[u]) <= s /\ u \in 1 .. u  BY <1>1, <2>1, <2>2
  <2>4. SegmentTimeline(u, s) \in 1 .. u /\ u <= SegmentTimeline(u, s)  BY <2>3, SegTL
  <2>5. SegmentTimeline(u, s) = u  BY <2>1, <2>4
  <2>. QED  BY <2>5 DEF Fine
<1>. QED  BY <1>1 DEF Whole

\* The backup that stops now ends where everything archived does, or later.
LEMMA HolesOfNew ==
  ASSUME TreeInv, ArchInv, StreamInv
  PROVE  Holes([tli |-> tli, stop |-> end[tli]])
<1>. DEFINE b == [tli |-> tli, stop |-> end[tli]]
<1>t. tli \in Nat /\ 1 <= tli /\ tli \in 1 .. tli /\ end[tli] \in Nat /\ fork[tli] <= end[tli]
  <2>1. tli \in Nat /\ 1 <= tli  BY FConstants DEF TreeInv, Timelines
  <2>. QED  BY <2>1 DEF TreeInv
<1>1. b.tli = tli /\ b.stop = end[tli]  OBVIOUS
<1>. HIDE DEF b
<1>2. ASSUME NEW l \in Nat, l <= end[tli], NEW u PROVE Whole(b, u, SegOf(l))
  <2>1. SegOf(l) \in Nat /\ SegOf(l) <= SegOf(end[tli])  BY <1>t, <1>2, SegFacts, SegMono
  <2>2. SegOf(l) \in Int /\ b.stop \in Nat /\ SegOf(l) <= SegOf(b.stop)  BY <1>t, <1>1, <2>1
  <2>. QED  BY <2>2, Nothing
<1>3. ASSUME spc = "connect", b.tli <= stli PROVE Whole(b, stli, SegOf(start))
  <2>1. stli = tli /\ start \in Nat /\ (start <= end[tli] \/ stli \in lostHist)
    <3>1. stli \in 1 .. tli  BY <1>3 DEF StreamInv, SetUp
    <3>2. stli = tli  BY <1>t, <1>1, <1>3, <3>1
    <3>. QED  BY <1>3, <3>2 DEF StreamInv
  <2>2. CASE start <= end[tli]  BY <1>2, <2>1, <2>2
  <2>3. CASE stli \in lostHist  BY <1>t, <1>1, <2>1, <2>3, LostFine
  <2>. QED  BY <2>1, <2>2, <2>3
<1>4. ASSUME spc = "streaming", b.tli <= on PROVE Whole(b, on, SegOf(pos))
  <2>1. server \in 1 .. tli /\ on \in 1 .. server /\ pos \in Nat /\ (server = tli => pos <= end[tli])
    BY <1>4 DEF StreamInv
  <2>2. server = tli  BY <1>t, <1>1, <1>4, <2>1
  <2>. QED  BY <1>2, <2>1, <2>2
<1>5. ASSUME NEW u \in 1 .. tli, b.tli <= u, NEW x \in arch[u] PROVE Whole(b, u, x + 1)
  <2>1. u = tli  BY <1>t, <1>1, <1>5
  <2>2. x \in Nat /\ EndOf(x) <= end[tli]
    <3>1. tli \in Timelines  BY DEF TreeInv
    <3>. QED  BY <1>5, <2>1, <3>1 DEF ArchInv, Bounded
  <2>3. EndOf(x) \in Nat /\ SegOf(EndOf(x)) = x + 1  BY <2>2, SegFacts, SegEnd
  <2>. QED  BY <1>2, <2>2, <2>3
<1>6. Holes(b)  BY <1>3, <1>4, <1>5 DEF Holes
<1>. QED  BY <1>6 DEF b

\* Resuming at the end of an archive leaves no hole behind, but for one that the
\* loss of a history file explains.
LEMMA HolesBefore ==
  ASSUME Clear, TreeInv, ArchInv, LiveInv, StreamInv, HoleInv, Resolve, spc' = "connect",
         NEW b \in live, b.tli <= stli
  PROVE  Whole(b, stli, SegOf(start'))
<1>1. /\ stli \in 1 .. tli /\ start' \in Nat
      /\ \/ \E x \in arch[stli] : x \in Nat /\ start' = EndOf(x)
         \/ \E p \in 1 .. tli : \E x \in arch[p] :
              /\ p < stli /\ x \in Nat /\ start' <= EndOf(x)
              /\ start' <= fork[p + 1] \/ (stli \in lostHist /\ "fail" \in scenario)
  BY Resolving
<1>2. b.tli \in 1 .. tli /\ b.stop \in Nat /\ fork[b.tli] <= b.stop /\ Holes(b)  BY DEF LiveInv, HoleInv
<1>3. stli \in Nat /\ stli <= tli /\ tli \in Nat /\ b.tli \in Nat /\ 1 <= b.tli /\ fork[b.tli] \in Nat
  BY <1>1, <1>2, Lines
<1>4. SegOf(b.stop) \in Nat /\ SegOf(start') \in Nat  BY <1>1, <1>2, SegFacts
<1>5. ASSUME NEW x \in arch[stli], x \in Nat, start' = EndOf(x) PROVE Whole(b, stli, SegOf(start'))
  <2>1. Whole(b, stli, x + 1)  BY <1>1, <1>2 DEF Holes
  <2>2. SegOf(start') = x + 1  BY <1>5, SegEnd
  <2>. QED  BY <2>1, <2>2
<1>6. ASSUME NEW p \in 1 .. tli, NEW x \in arch[p], p < stli, x \in Nat, start' <= EndOf(x),
             start' <= fork[p + 1] \/ (stli \in lostHist /\ "fail" \in scenario)
      PROVE  Whole(b, stli, SegOf(start'))
  <2>. DEFINE q == SegOf(start')
  <2>1. p \in Nat /\ 1 <= p /\ p + 1 \in 1 .. tli
    <3>1. p \in Nat /\ 1 <= p  BY Lines
    <3>. QED  BY <1>3, <1>6, <3>1
  <2>2. fork[p + 1] \in Nat /\ SegOf(fork[p + 1]) \in Nat  BY <2>1, Lines
  <2>3. q <= x + 1
    <3>1. EndOf(x) \in Nat /\ SegOf(EndOf(x)) = x + 1  BY <1>6, SegFacts, SegEnd
    <3>2. q <= SegOf(EndOf(x))  BY <1>1, <1>6, <3>1, SegMono
    <3>. QED  BY <3>1, <3>2
  <2>4. CASE b.tli <= p
    <3>1. Whole(b, p, x + 1)  BY <1>2, <2>4 DEF Holes
    <3>2. CASE Recorded(b)  BY <3>2 DEF Whole
    <3>3. CASE ~Recorded(b)
      <4>1. ASSUME NEW s \in Nat, SegOf(b.stop) <= s, s < q PROVE Fine(stli, s)
        <5>1. Fine(p, s)
          <6>1. s < x + 1  BY <1>4, <1>6, <2>3, <4>1
          <6>. QED  BY <3>1, <3>3, <4>1, <6>1 DEF Whole
        <5>2. CASE start' <= fork[p + 1]
          <6>1. q <= SegOf(fork[p + 1])  BY <1>1, <2>2, <5>2, SegMono
          <6>2. s < SegOf(fork[p + 1])  BY <1>4, <2>2, <4>1, <6>1
          <6>3. SegmentTimeline(p, s) = SegmentTimeline(stli, s)  BY <1>1, <1>6, <6>2, BelowFork
          <6>. QED  BY <5>1, <6>3 DEF Fine
        <5>3. CASE stli \in lostHist /\ "fail" \in scenario
          <6>1. tli <= 2  BY <5>3 DEF TreeInv, Clear
          <6>2. p = 1 /\ stli = 2  BY <1>3, <1>6, <2>1, <6>1
          <6>3. SegmentTimeline(stli, s) \in 1 .. 2  BY <1>1, <6>2, SegTL
          <6>4. SegmentTimeline(stli, s) = stli => Fine(stli, s)  BY <5>3 DEF Fine
          <6>5. ASSUME SegmentTimeline(stli, s) # stli PROVE Fine(stli, s)
            <7>1. SegmentTimeline(stli, s) <= p /\ p <= stli  BY <6>2, <6>3, <6>5
            <7>2. SegmentTimeline(p, s) = SegmentTimeline(stli, s)  BY <1>1, <7>1, SameTL
            <7>. QED  BY <5>1, <7>2 DEF Fine
          <6>. QED  BY <6>4, <6>5
        <5>. QED  BY <1>6, <5>2, <5>3
      <4>. QED  BY <4>1 DEF Whole
    <3>. QED  BY <3>2, <3>3
  <2>5. CASE ~(b.tli <= p)
    <3>1. CASE start' <= fork[p + 1]
      <4>1. fork[p + 1] <= fork[b.tli]
        <5>1. p + 1 <= b.tli  BY <1>3, <2>1, <2>5
        <5>. QED  BY <1>2, <2>1, <5>1, Forks
      <4>2. start' <= b.stop  BY <1>1, <1>2, <1>3, <2>2, <3>1, <4>1
      <4>3. q <= SegOf(b.stop) /\ q \in Int  BY <1>1, <1>2, <1>4, <4>2, SegMono
      <4>. QED  BY <1>2, <4>3, Nothing
    <3>2. CASE stli \in lostHist /\ "fail" \in scenario
      <4>1. tli <= 2  BY <3>2 DEF TreeInv, Clear
      <4>2. b.tli = stli  BY <1>3, <1>6, <2>1, <2>5, <4>1
      <4>. QED  BY <1>1, <1>2, <3>2, <4>2, LostFine
    <3>. QED  BY <1>6, <3>1, <3>2
  <2>. QED  BY <2>4, <2>5
<1>. QED  BY <1>1, <1>5, <1>6

\* Where nothing is archived, a backup that ends before the stream begins gets
\* the gap on record, or reported.
LEMMA HolesRecorded ==
  ASSUME Clear, TreeInv, ArchInv, LiveInv, StreamInv, RecordPreStreamGap, NEW b \in live, b.stop < start
  PROVE  Recorded(b)'
<1>1. spc = "record"  BY Recording
<1>2. stli \in 1 .. tli /\ start \in Nat /\ \A t \in 1 .. stli : arch[t] = {}  BY <1>1 DEF StreamInv, SetUp
<1>3. stli \in Nat /\ 1 <= stli /\ tli \in Nat  BY <1>2, Lines
<1>4. Prior(stli) = 0
  <2>1. ASSUME Prior(stli) # 0 PROVE FALSE
    <3>1. Prior(stli) \in 1 .. tli /\ Prior(stli) < stli /\ arch[Prior(stli)] # {}  BY <1>2, <2>1, PriorIs
    <3>2. Prior(stli) \in 1 .. stli  BY <1>3, <3>1
    <3>. QED  BY <1>2, <3>1, <3>2
  <2>. QED  BY <2>1
<1>5. ArchiveFrontier(stli) = 0
  <2>1. stli \in 1 .. stli  BY <1>3
  <2>2. arch[stli] = {}  BY <1>2, <2>1
  <2>. QED  BY <1>4, <2>2 DEF ArchiveFrontier, None
<1>. DEFINE T == {c.stop : c \in live}  m == Min(T)
<1>6. T \subseteq Nat /\ T # {} /\ b.stop \in T /\ b.stop \in Nat  BY DEF LiveInv
<1>7. m \in T /\ m <= b.stop
  <2>. HIDE DEF T
  <2>. QED  BY <1>6, MinIs
<1>8. m \in Nat  BY <1>6, <1>7
<1>. HIDE DEF m
<1>9. PreStreamGapStart(stli, m) = m
  <2>1. {m, 0} \subseteq Nat /\ m \in {m, 0} /\ \A y \in {m, 0} : y <= m  BY <1>8
  <2>2. Max({m, 0}) = m  BY <2>1, MaxIs
  <2>. QED  BY <1>5, <2>2 DEF PreStreamGapStart
<1>10. Uncovered(live) /\ PreStreamGapStart(stli, Min({c.stop : c \in live})) = m
  <2>1. m < start  BY <1>2, <1>6, <1>7, <1>8
  <2>. QED  BY <1>9, <2>1 DEF Uncovered, m
<1>. DEFINE rec == [tli |-> stli, to |-> start, from |-> m]
<1>11. \/ gaps' = IF \E g \in gaps : g.from = rec.from /\ g.to = rec.to THEN gaps ELSE gaps \cup {rec}
       \/ lostGaps' = lostGaps \cup {rec}
  <2>1. "unread" \notin scenario  BY DEF Clear
  <2>. QED  BY <1>10, <2>1 DEF RecordPreStreamGap
<1>12. rec.from = m /\ rec.to = start  OBVIOUS
<1>13. (\E g \in gaps' : g.from = m /\ g.to = start) \/ (\E g \in lostGaps' : g.to = start)
  <2>. HIDE DEF rec
  <2>. QED  BY <1>11, <1>12
<1>. QED  BY <1>2, <1>7, <1>8, <1>13 DEF Recorded

\* What holds along a timeline holds along the one a segment on it is asked for.
LEMMA HolesAlong ==
  ASSUME TreeInv, NEW n \in 1 .. tli, NEW t \in 1 .. tli, t < n, NEW l \in Nat, SegOf(l) < SegOf(fork[t + 1]),
         NEW b, Whole(b, n, SegOf(l))
  PROVE  Whole(b, t, SegOf(l))
<1>1. ASSUME NEW s \in Nat, s < SegOf(l), Fine(n, s) PROVE Fine(t, s)
  <2>1. SegOf(l) \in Nat /\ SegOf(fork[t + 1]) \in Nat
    <3>1. t \in Nat /\ 1 <= t /\ n \in Nat /\ n <= tli /\ tli \in Nat  BY Lines
    <3>2. t + 1 \in 1 .. tli  BY <3>1
    <3>. QED  BY <3>2, Lines, SegFacts
  <2>2. s < SegOf(fork[t + 1])  BY <1>1, <2>1
  <2>3. SegmentTimeline(t, s) = SegmentTimeline(n, s)  BY <2>2, BelowFork
  <2>. QED  BY <1>1, <2>3 DEF Fine
<1>. QED  BY <1>1 DEF Whole

\* The segment that the sink commits closes up with what is there.
LEMMA HolesArchived ==
  ASSUME TreeInv, ArchInv, StreamInv, Grows, Archive, NEW b, Holes(b), b.tli <= on, b.stop \in Nat,
         NEW u, u = on, NEW k, k = SegOf(pos)
  PROVE  Whole(b, u, k + 1)'
<1>. DEFINE q == SegOf(pos)
<1>1. /\ arch' = [arch EXCEPT ![on] = @ \cup {q}] /\ spc = "streaming" /\ on' = on
      /\ on \in 1 .. tli /\ on \in Timelines /\ q \in Nat /\ SegOf(fork[on]) <= q
      /\ pos' = EndOf(q)
  BY Archiving
<1>2. u = on  OBVIOUS
<1>3. q \in arch'[u]  BY <1>1, <1>2 DEF ArchInv
<1>4. Whole(b, u, q)  BY <1>1, <1>2 DEF Holes
<1>5. k = q  OBVIOUS
<1>6. Whole(b, u, k)'  BY <1>1, <1>2, <1>4, <1>5, WholeKept
<1>7. SegmentTimeline(u, k) = u
  <2>1. u \in Nat /\ u \in 1 .. u /\ u \in 1 .. tli
    <3>1. u \in Nat /\ 1 <= u  BY <1>1, <1>2, Lines
    <3>. QED  BY <1>1, <1>2, <3>1
  <2>2. SegmentTimeline(u, k) \in 1 .. u /\ u <= SegmentTimeline(u, k)  BY <1>1, <1>2, <1>5, <2>1, SegTL
  <2>. QED  BY <2>1, <2>2
<1>8. Fine(u, k)'
  <2>1. SegmentTimeline(u, k)' = u  BY <1>1, <1>2, <1>5, <1>7, FineKept
  <2>. QED  BY <1>3, <1>5, <2>1 DEF Fine
<1>9. SegOf(b.stop) \in Nat /\ k \in Nat  BY <1>1, <1>5, SegFacts
<1>10. \A s \in Nat : s < k + 1 => s < k \/ s = k  BY <1>9
<1>. QED  BY <1>6, <1>8, <1>10 DEF Whole

\* Every step keeps holes from being silent.
LEMMA HoleKept ==
  ASSUME Clear, TreeInv, ArchInv, LiveInv, StreamInv, HoleInv, [FailoverNext]_failoverVars
  PROVE  HoleInv'
<1>g. Grows  BY Growth
<1>t. tli \in Nat /\ 1 <= tli  BY FConstants DEF TreeInv, Timelines
<1>w. \A b : \A u \in 1 .. tli : \A q : Whole(b, u, q) => Whole(b, u, q)'  BY <1>g, WholeKept
<1>0. ASSUME live' = live, arch' = arch, tli' = tli \/ (tli' = tli + 1 /\ tli' \in Timelines),
             spc' \notin {"connect", "streaming"} \/ UNCHANGED <<spc, stli, start, on, pos>>
      PROVE  HoleInv'
  <2>1. ASSUME NEW b \in live PROVE Holes(b)'
    <3>1. Holes(b)  BY DEF HoleInv
    <3>. QED  BY <1>g, <1>0, <3>1, HolesSame
  <2>. QED  BY <1>0, <2>1 DEF HoleInv
<1>1. CASE \E t \in Timelines : WriteWAL(t)
  <2>1. UNCHANGED <<live, arch, tli>> /\ UNCHANGED <<spc, stli, start, on, pos>>
    BY <1>1 DEF WriteWAL, backups, stream
  <2>. QED  BY <1>0, <2>1
<1>2. ASSUME NEW p \in 1 .. tli, NEW f \in 0 .. LastLSN, Promote(p, f) PROVE HoleInv'
  <2>1. /\ UNCHANGED <<live, arch>> /\ UNCHANGED <<spc, stli, start, on, pos>>
        /\ tli' = tli + 1 /\ tli' \in Timelines
    BY <1>2, Promotion
  <2>. QED  BY <1>0, <2>1
<1>3. CASE Recycle \/ Feedback
  <2>1. UNCHANGED <<live, arch, tli>> /\ UNCHANGED <<spc, stli, start, on, pos>>
    BY <1>3 DEF Recycle, Feedback, backups, stream
  <2>. QED  BY <1>0, <2>1
<1>4. CASE Aside \/ Apart
  <2>1. /\ UNCHANGED <<live, arch, tli>>
        /\ spc' \notin {"connect", "streaming"} \/ UNCHANGED <<spc, stli, start, on, pos>>
    BY <1>4 DEF Aside, Apart
  <2>. QED  BY <1>0, <2>1
<1>5. CASE BackupStops
  <2>1. /\ live' = live \cup {[tli |-> tli, stop |-> end[tli]]}
        /\ UNCHANGED <<arch, tli>> /\ UNCHANGED <<spc, stli, start, on, pos>>
    BY <1>5, Stopping
  <2>2. ASSUME NEW b \in live' PROVE Holes(b)'
    <3>1. Holes(b)
      <4>1. Holes([tli |-> tli, stop |-> end[tli]])  BY HolesOfNew
      <4>. QED  BY <2>1, <4>1 DEF HoleInv
    <3>. QED  BY <1>g, <2>1, <3>1, HolesSame
  <2>. QED  BY <2>2 DEF HoleInv
<1>6. CASE Resolve
  <2>1. /\ UNCHANGED <<live, arch, tli, stli>> /\ spc' \in {"connect", "record"} /\ stli \in 1 .. tli
    BY <1>6, Resolving
  <2>2. ASSUME NEW b \in live PROVE Holes(b)'
    <3>1. ASSUME spc' = "connect", b.tli <= stli' PROVE Whole(b, stli, SegOf(start))'
      <4>1. Whole(b, stli, SegOf(start'))  BY <1>6, <2>1, <3>1, HolesBefore
      <4>2. PICK u, q : u = stli /\ q = SegOf(start')  OBVIOUS
      <4>3. Whole(b, u, q)'  BY <1>w, <2>1, <4>1, <4>2
      <4>4. u = stli' /\ q = SegOf(start')  BY <2>1, <4>2
      <4>. QED  BY <4>3, <4>4, WholeAt
    <3>2. \A u \in 1 .. tli : b.tli <= u => \A x \in arch[u] : Whole(b, u, x + 1)'
      BY <1>w DEF HoleInv, Holes
    <3>3. spc' # "streaming"  BY <2>1
    <3>. QED  BY <2>1, <3>1, <3>2, <3>3 DEF Holes
  <2>. QED  BY <2>1, <2>2 DEF HoleInv
<1>7. CASE RecordPreStreamGap
  <2>1. /\ UNCHANGED <<live, arch, tli, stli, start>> /\ spc = "record" /\ spc' = "connect"
    BY <1>7, Recording
  <2>2. stli \in 1 .. tli /\ start \in Nat  BY <2>1 DEF StreamInv, SetUp
  <2>3. ASSUME NEW b \in live PROVE Holes(b)'
    <3>1. b.stop \in Nat  BY DEF LiveInv
    <3>2. PICK u, q : u = stli /\ q = SegOf(start)  OBVIOUS
    <3>3. Whole(b, u, q)'
      <4>1. CASE b.stop < start
        <5>1. Recorded(b)'  BY <1>7, <4>1, HolesRecorded
        <5>. QED  BY <5>1 DEF Whole
      <4>2. CASE ~(b.stop < start)
        <5>1. start <= b.stop  BY <2>2, <3>1, <4>2
        <5>2. SegOf(start) \in Nat /\ SegOf(start) <= SegOf(b.stop)
          BY <2>2, <3>1, <5>1, SegMono, SegFacts
        <5>3. q \in Int /\ q <= SegOf(b.stop)  BY <3>2, <5>2
        <5>4. Whole(b, u, q)  BY <3>1, <5>3, Nothing
        <5>. QED  BY <1>w, <2>2, <3>2, <5>4
      <4>. QED  BY <4>1, <4>2
    <3>4. u = stli' /\ q = SegOf(start')  BY <2>1, <3>2
    <3>5. Whole(b, stli, SegOf(start))'  BY <3>3, <3>4, WholeAt
    <3>6. \A v \in 1 .. tli : b.tli <= v => \A x \in arch[v] : Whole(b, v, x + 1)'
      BY <1>w DEF HoleInv, Holes
    <3>7. spc' # "streaming"  BY <2>1
    <3>. QED  BY <2>1, <3>5, <3>6, <3>7 DEF Holes
  <2>. QED  BY <2>1, <2>3 DEF HoleInv
<1>8. CASE Connect
  <2>1. /\ UNCHANGED <<live, arch, tli>> /\ spc = "connect" /\ stli \in 1 .. tli
        /\ \/ spc' \in {"down", "stopped", "refused"}
           \/ /\ spc' = "streaming" /\ pos' = start /\ on' \in 1 .. tli
              /\ on' = stli \/ (on' < stli /\ SegOf(start) < SegOf(fork[on' + 1]))
    BY <1>8, Connecting
  <2>2. spc' # "streaming" => HoleInv'  BY <1>0, <2>1
  <2>3. ASSUME spc' = "streaming", NEW b \in live PROVE Holes(b)'
    <3>1. start \in Nat /\ b.tli \in Nat  BY <1>t DEF StreamInv, LiveInv
    <3>2. PICK u, q : u = on' /\ q = SegOf(start)  OBVIOUS
    <3>3. u \in 1 .. tli /\ (u = stli \/ (u < stli /\ SegOf(start) < SegOf(fork[u + 1])))
      BY <2>1, <2>3, <3>2
    <3>4. ASSUME b.tli <= u PROVE Whole(b, u, q)'
      <4>1. b.tli <= stli
        <5>1. u \in Nat /\ stli \in Nat  BY <2>1, <3>3, Lines
        <5>. QED  BY <3>1, <3>3, <3>4, <5>1
      <4>2. Whole(b, stli, q)  BY <2>1, <3>2, <4>1 DEF HoleInv, Holes
      <4>3. Whole(b, u, q)  BY <2>1, <3>1, <3>2, <3>3, <4>2, HolesAlong
      <4>. QED  BY <1>w, <3>3, <4>3
    <3>5. u = on' /\ q = SegOf(pos')  BY <2>1, <2>3, <3>2
    <3>6. b.tli <= on' => Whole(b, on, SegOf(pos))'  BY <3>4, <3>5, WholeAt
    <3>7. \A v \in 1 .. tli : b.tli <= v => \A x \in arch[v] : Whole(b, v, x + 1)'
      BY <1>w DEF HoleInv, Holes
    <3>. QED  BY <2>1, <2>3, <3>6, <3>7 DEF Holes
  <2>. QED  BY <2>1, <2>2, <2>3 DEF HoleInv
<1>9. CASE Archive
  <2>1. /\ arch' = [arch EXCEPT ![on] = @ \cup {SegOf(pos)}]
        /\ pos' = EndOf(SegOf(pos)) /\ spc = "streaming" /\ UNCHANGED <<live, tli, spc, on>>
        /\ on \in 1 .. tli /\ on \in Timelines /\ SegOf(pos) \in Nat
    BY <1>9, Archiving
  <2>2. PICK u, k : u = on /\ k = SegOf(pos)  OBVIOUS
  <2>3. ASSUME NEW b \in live PROVE Holes(b)'
    <3>1. b.stop \in Nat /\ Holes(b)  BY DEF LiveInv, HoleInv
    <3>2. b.tli <= u => Whole(b, u, k + 1)'  BY <1>9, <1>g, <2>2, <3>1, HolesArchived
    <3>3. u = on' /\ k + 1 = SegOf(pos')  BY <2>1, <2>2, SegEnd
    <3>4. b.tli <= on' => Whole(b, on, SegOf(pos))'  BY <3>2, <3>3, WholeAt
    <3>5. ASSUME NEW v \in 1 .. tli, b.tli <= v, NEW x \in arch'[v] PROVE Whole(b, v, x + 1)'
      <4>1. CASE x \in arch[v]
        <5>1. Whole(b, v, x + 1)  BY <3>1, <3>5, <4>1 DEF Holes
        <5>. QED  BY <1>w, <5>1
      <4>2. CASE x \notin arch[v]
        <5>1. v \in Timelines  BY Lines
        <5>2. v = u /\ x = k  BY <2>1, <2>2, <3>5, <4>2, <5>1 DEF ArchInv
        <5>. QED  BY <3>2, <3>5, <5>2
      <4>. QED  BY <4>1, <4>2
    <3>6. spc' # "connect"  BY <2>1
    <3>. QED  BY <2>1, <3>4, <3>5, <3>6 DEF Holes
  <2>. QED  BY <2>1, <2>3 DEF HoleInv
<1>. QED  BY <1>1, <1>2, <1>3, <1>4, <1>5, <1>6, <1>7, <1>8, <1>9, Steps

-----------------------------------------------------------------------------
(* Failover: no hole is silent.                                              *)

\* All of it together.
HolesInv == Clear => TreeInv /\ ArchInv /\ LiveInv /\ StreamInv /\ HoleInv

\* They hold at first.
LEMMA InitHoles == FailoverInit => HolesInv
<1>. SUFFICES ASSUME FailoverInit PROVE TreeInv /\ ArchInv /\ LiveInv /\ StreamInv /\ HoleInv  BY DEF HolesInv
<1>1. MaxTLI \in Nat /\ 2 <= MaxTLI /\ FirstLSN \in Nat /\ Floor(FirstLSN) \in Nat
  <2>1. MaxTLI \in Nat /\ 2 <= MaxTLI /\ FirstLSN \in Nat  BY FailoverAssumption
  <2>. QED  BY <2>1, SegFacts
<1>2. tli = 1 /\ Timelines = 1 .. MaxTLI /\ 1 \in Timelines /\ 1 .. 1 = {1}  BY <1>1 DEF FailoverInit, Timelines
<1>3. /\ anc = [t \in Timelines |-> IF t = 1 THEN {1} ELSE {}] /\ fork = [t \in Timelines |-> 0]
      /\ end = [t \in Timelines |-> IF t = 1 THEN FirstLSN ELSE 0]
      /\ slot = 0 /\ kept \in Nat
  BY <1>1 DEF FailoverInit, None
<1>4. TreeInv
  <2>1. \A t \in Timelines : t > tli => t # 1  BY <1>1, <1>2
  <2>2. anc \in [Timelines -> SUBSET Timelines]  BY <1>2, <1>3
  <2>3. \A t \in 1 .. tli : anc[t] = 1 .. t  BY <1>2, <1>3
  <2>4. \A t \in Timelines : t > tli => anc[t] = {}  BY <1>2, <1>3, <2>1
  <2>5. /\ fork \in [Timelines -> Nat] /\ fork[1] = 0 /\ end \in [Timelines -> Nat] /\ fork[tli] <= end[tli]
        /\ slot \in Nat /\ slot <= end[tli]
    BY <1>1, <1>2, <1>3
  <2>6. \A t, u \in 1 .. tli : fork[t] <= fork[u]  BY <1>2, <1>3
  <2>. QED  BY <1>2, <1>3, <2>2, <2>3, <2>4, <2>5, <2>6 DEF TreeInv
<1>5. arch = [t \in Timelines |-> {}] /\ live = {} /\ taken = {} /\ spc = "down"
  BY DEF FailoverInit
<1>6. ArchInv
  <2>1. Bounded({})  BY DEF Bounded
  <2>. QED  BY <1>2, <1>5, <2>1 DEF ArchInv
<1>7. LiveInv /\ HoleInv  BY <1>5 DEF LiveInv, HoleInv
<1>8. StreamInv  BY DEF FailoverInit, StreamInv, SetUp, None
<1>. QED  BY <1>4, <1>6, <1>7, <1>8

\* The scenario is chosen once.
LEMMA SameScenario == ASSUME [FailoverNext]_failoverVars PROVE scenario' = scenario
<1>1. ASSUME Frame PROVE scenario' = scenario  BY <1>1 DEF Frame
<1>2. ASSUME SetupFails \/ StreamBreaks \/ ExplicitStart \/ RemovedMeanwhile \/ StreamEnds
      PROVE  scenario' = scenario
  BY <1>2, EndSteps
<1>3. ASSUME EnsureStreamSlot \/ Resolve \/ RecordPreStreamGap PROVE scenario' = scenario  BY <1>3, GoSteps
<1>4. ASSUME \/ AgentStart \/ AgentCrash \/ Shutdown \/ AgentStops \/ Poll \/ PollNoLeader
             \/ ReconcileSlot \/ ReconcileFails \/ PersistGap \/ PersistGapFails \/ GapPersistFailed
      PROVE  scenario' = scenario
  BY <1>4, EarlySteps
<1>5. ASSUME \/ \E p \in 1 .. tli, f \in 0 .. LastLSN : Promote(p, f)
             \/ Identify \/ Archive
      PROVE  scenario' = scenario
  BY <1>5 DEF Promote, Identify, Archive, NoFault
<1>6. ASSUME CaptureStreamHistory \/ Connect \/ CaptureHistory \/ CaptureHistoryFails \/ Backfill
      PROVE  scenario' = scenario
  BY <1>6 DEF CaptureStreamHistory, Connect, CaptureHistory, CaptureHistoryFails, Backfill,
              Worked, Fault, NoFault
<1>. QED  BY <1>1, <1>2, <1>3, <1>4, <1>5, <1>6, TheSteps

\* And every step keeps them.
LEMMA HolesInvKept == HolesInv /\ [FailoverNext]_failoverVars => HolesInv'
<1>. SUFFICES ASSUME HolesInv, [FailoverNext]_failoverVars, Clear'
              PROVE  (TreeInv /\ ArchInv /\ LiveInv /\ StreamInv /\ HoleInv)'
  BY DEF HolesInv
<1>1. scenario' = scenario  BY SameScenario
<1>2. Clear  BY <1>1 DEF Clear
<1>3. TreeInv /\ ArchInv /\ LiveInv /\ StreamInv /\ HoleInv  BY <1>2 DEF HolesInv
<1>. QED  BY <1>2, <1>3, TreeKept, ArchKept, LiveKept, StreamKept, HoleKept

\* What the invariants say of a recovery.
LEMMA HolesTold ==
  ASSUME TreeInv, ArchInv, LiveInv, HoleInv
  PROVE  NoSilentTruncation
<1>. SUFFICES ASSUME NEW b \in live, NEW n, n = Latest(b.tli), b.tli \in anc[n], NEW s \in 0 .. SegOf(LastLSN),
                     StopsShort(b, n, s)
              PROVE  \/ Told(b, n, s)
                     \/ /\ Refused(b)
                        /\ \A target \in EndOf(s) .. LastLSN :
                             Available(n, SegOf(target)) => RefusedTo(b, target)
  BY DEF NoSilentTruncation
<1>1. b.tli \in 1 .. tli /\ b.stop \in Nat /\ fork[b.tli] <= b.stop /\ Holes(b)  BY DEF LiveInv, HoleInv
<1>2. /\ b.tli \in Nat /\ 1 <= b.tli /\ b.tli <= tli /\ tli \in Nat /\ fork[b.tli] \in Nat
      /\ SegOf(fork[b.tli]) \in Nat /\ SegOf(b.stop) \in Nat /\ tli <= MaxTLI /\ MaxTLI \in Nat
  <2>1. tli \in Nat /\ tli <= MaxTLI /\ MaxTLI \in Nat  BY FConstants DEF TreeInv, Timelines
  <2>2. /\ b.tli \in Nat /\ 1 <= b.tli /\ b.tli <= tli /\ fork[b.tli] \in Nat
        /\ SegOf(fork[b.tli]) \in Nat
    BY <1>1, Lines
  <2>3. SegOf(b.stop) \in Nat  BY <1>1, SegFacts
  <2>. QED  BY <2>1, <2>2, <2>3
<1>3. n \in b.tli .. MaxTLI
  <2>. DEFINE T == {u \in b.tli .. MaxTLI : (b.tli + 1) .. u \subseteq hist}
  <2>1. Bounded(T)
    <3>1. \A u \in T : u \in Nat /\ u <= MaxTLI  BY <1>2
    <3>. QED  BY <1>2, <3>1 DEF Bounded
  <2>2. b.tli \in T
    <3>1. (b.tli + 1) .. b.tli = {} /\ b.tli \in b.tli .. MaxTLI  BY <1>2
    <3>. QED  BY <3>1
  <2>3. Max(T) \in T
    <3>. HIDE DEF T
    <3>. QED  BY <2>1, <2>2, GreatestOf
  <2>. QED  BY <2>3 DEF Latest
<1>4. n \in 1 .. tli
  <2>1. n \in Timelines /\ n \in Nat /\ 1 <= n  BY <1>2, <1>3 DEF Timelines
  <2>2. ~(n > tli)  BY <2>1 DEF TreeInv
  <2>. QED  BY <1>2, <2>1, <2>2
<1>5. n \in Nat /\ n <= tli /\ b.tli \in 1 .. n  BY <1>2, <1>3, <1>4
<1>6. s \in Nat /\ SegOf(b.stop) <= s /\ ~Available(n, s)
  <2>1. SegOf(LastLSN) \in Nat  BY FailoverAssumption, SegFacts
  <2>2. s \in Nat  BY <2>1
  <2>. QED  BY <1>2, <2>2 DEF StopsShort
<1>7. PICK later \in s + 1 .. SegOf(LastLSN) : Available(n, later)  BY DEF StopsShort
<1>8. later \in Nat /\ s < later
  <2>1. SegOf(LastLSN) \in Nat  BY FailoverAssumption, SegFacts
  <2>. QED  BY <1>6, <2>1
<1>9. PICK v : v = SegmentTimeline(n, later)  OBVIOUS
<1>10. /\ v \in 1 .. n /\ later \in arch[v]
       /\ \A t \in 1 .. n : SegOf(fork[t]) <= later => t <= v
  BY <1>4, <1>7, <1>8, <1>9, SegTL DEF Available
<1>11. b.tli <= v
  <2>1. SegOf(fork[b.tli]) <= SegOf(b.stop)  BY <1>1, <1>2, SegMono
  <2>2. SegOf(fork[b.tli]) <= later  BY <1>2, <1>6, <1>8, <2>1
  <2>. QED  BY <1>5, <1>10, <2>2
<1>12. v \in 1 .. tli /\ v <= n  BY <1>2, <1>5, <1>10
<1>13. Whole(b, v, later + 1)  BY <1>1, <1>10, <1>11, <1>12 DEF Holes
<1>14. CASE ~Recorded(b)
  <2>1. Fine(v, s)
    <3>1. s < later + 1  BY <1>6, <1>8
    <3>. QED  BY <1>6, <1>13, <1>14, <3>1 DEF Whole
  <2>2. SegmentTimeline(v, s) = SegmentTimeline(n, s)
    <3>1. SegmentTimeline(n, s) \in 1 .. n /\ SegOf(fork[SegmentTimeline(n, s)]) <= s  BY <1>4, <1>6, SegTL
    <3>2. SegmentTimeline(n, s) \in 1 .. tli  BY <1>2, <1>5, <3>1
    <3>3. SegOf(fork[SegmentTimeline(n, s)]) \in Nat  BY <3>2, Lines
    <3>4. SegmentTimeline(n, s) <= v  BY <1>6, <1>8, <1>10, <3>1, <3>3
    <3>. QED  BY <1>4, <1>6, <1>12, <3>4, SameTL
  <2>. QED  BY <1>6, <2>1, <2>2 DEF Fine, Available, Told
<1>15. ASSUME NEW g \in gaps, g.from \in Nat, g.to \in Nat, g.from <= b.stop, b.stop < g.to
       PROVE  /\ Refused(b)
              /\ \A target \in EndOf(s) .. LastLSN :
                   Available(n, SegOf(target)) => RefusedTo(b, target)
  <2>1. Refused(b)  BY <1>15 DEF Refused, RefusedUnbounded
  <2>2. ASSUME NEW target \in EndOf(s) .. LastLSN PROVE RefusedTo(b, target)
    <3>1. EndOf(s) \in Nat /\ EndOf(SegOf(b.stop)) \in Nat /\ b.stop < EndOf(SegOf(b.stop))
      BY <1>1, <1>2, <1>6, SegFacts
    <3>2. EndOf(SegOf(b.stop)) <= EndOf(s)  BY <1>2, <1>6, Ends
    <3>3. target \in Nat /\ EndOf(s) <= target
      <4>1. LastLSN \in Nat  BY FailoverAssumption
      <4>. QED  BY <3>1, <4>1
    <3>4. b.stop < target  BY <1>1, <3>1, <3>2, <3>3
    <3>5. RefusedOver(g, b.stop, target)  BY <1>1, <1>15, <3>3, <3>4 DEF RefusedOver
    <3>. QED  BY <3>5 DEF RefusedTo
  <2>. QED  BY <2>1, <2>2
<1>16. (\E g \in lostGaps : b.stop < g.to) => Told(b, n, s)  BY DEF Told, RefusedUnbounded
<1>. QED  BY <1>14, <1>15, <1>16 DEF Recorded

-----------------------------------------------------------------------------
\* Without backups there is nothing to restore.
BareInv == "backup" \notin scenario => live = {} /\ taken = {}

\* Every step keeps it so.
LEMMA BareKept == BareInv /\ [FailoverNext]_failoverVars => BareInv'
<1>. SUFFICES ASSUME BareInv, [FailoverNext]_failoverVars PROVE BareInv'  OBVIOUS
<1>s. scenario' = scenario  BY SameScenario
<1>1. CASE BackupStops \/ BackupCommits \/ DeleteBackup
  BY <1>s, <1>1 DEF BackupStops, BackupCommits, DeleteBackup, BareInv
<1>2. CASE \/ \E t \in Timelines : WriteWAL(t)
           \/ \E p \in 1 .. tli, f \in 0 .. LastLSN : Promote(p, f)
           \/ Recycle \/ GapPurge
  BY <1>s, <1>2 DEF WriteWAL, Promote, Recycle, GapPurge, backups, BareInv
<1>3. CASE StreamStep \/ SetupFails \/ StreamBreaks \/ ExplicitStart
  <2>1. backups' = backups
    BY <1>3 DEF StreamStep, SetupFails, StreamBreaks, ExplicitStart, Identify, CaptureStreamHistory,
                EnsureStreamSlot, Resolve, RecordPreStreamGap, Connect, Archive, RemovedMeanwhile, Feedback, StreamEnds
  <2>. QED  BY <1>s, <2>1 DEF backups, BareInv
<1>4. CASE AgentStep
  BY <1>s, <1>4, AgentAside DEF Aside, BareInv
<1>5. CASE UNCHANGED failoverVars
  BY <1>5 DEF failoverVars, backups, BareInv
<1>. QED
  BY <1>1, <1>2, <1>3, <1>4, <1>5 DEF FailoverNext, ClusterStep

\* Where there are backups to restore, what Clear says.
Sighted == "backup" \in scenario => Clear

\* A hole in the archive that recovery of a backup would stop at, with later WAL
\* behind it, is refused by the preflight or was reported: through any failovers,
\* slots made anew and WAL removed meanwhile, and through failing calls at a
\* failover (cli/wal.go, cli/wal_prestream_gap.go, restore/gapcheck.go).
THEOREM NoHoleIsSilent == FailoverSpec => [](Sighted => NoSilentTruncation)
<1>1. FailoverInit => HolesInv /\ BareInv
  <2>1. FailoverInit => BareInv  BY DEF FailoverInit, BareInv
  <2>. QED  BY <2>1, InitHoles
<1>2. HolesInv /\ BareInv /\ [FailoverNext]_failoverVars => HolesInv' /\ BareInv'
  BY HolesInvKept, BareKept
<1>3. HolesInv /\ BareInv => (Sighted => NoSilentTruncation)
  <2>. SUFFICES ASSUME HolesInv, BareInv, Sighted PROVE NoSilentTruncation  OBVIOUS
  <2>1. CASE Clear  BY <2>1, HolesTold DEF HolesInv
  <2>2. CASE "backup" \notin scenario  BY <2>2 DEF BareInv, NoSilentTruncation
  <2>. QED  BY <2>1, <2>2 DEF Sighted
<1>. QED  BY <1>1, <1>2, <1>3, PTL DEF FailoverSpec
=============================================================================
