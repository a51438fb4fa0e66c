------------------------------ MODULE Retention ------------------------------
(***************************************************************************)
(* What keeps a deployment recoverable while things are thrown away: backups *)
(* that commit, the retention policies (backup/retention) and the two        *)
(* commands that apply them (`rotate` and the agent's rotate task), undelete *)
(* and `wal prune` (repo/walprune.go), across a failover to a new timeline.  *)
(*                                                                           *)
(* Operations of the manifest store are one step here: ManifestChain has     *)
(* their races.  What stays apart is what this level reads at one moment and *)
(* acts upon at a later one: the listing of a rotation and its deletes, the  *)
(* frontier of a prune and its walk, a backup's start and its commit.        *)
(***************************************************************************)
EXTENDS Integers, FiniteSets

CONSTANTS
    MaxBackups, MaxTime, MaxLSN,
    SegSize,
    Grace,          \* the tombstone grace of wal prune and gc
    Policies,       \* configured retention policies
    Undated,        \* backups committed without a StoppedAt
    Worlds,         \* which kinds of things happen: a behaviour is of one world
    MaxPrunes, MaxRotations,    \* bounds on how many there are
    Never

ASSUME RetentionAssumption ==
    /\ {MaxBackups, MaxLSN, Grace, MaxPrunes, MaxRotations} \subseteq Nat
    /\ {MaxTime, SegSize} \subseteq Nat \ {0}
    /\ Undated \subseteq 1 .. MaxBackups
    /\ \A policy \in Policies : policy.kind \in {"simple", "count", "gfs"}
    /\ Worlds \subseteq SUBSET {"incremental", "hold", "undelete", "late", "failover", "rewind", "fault", "cli", "agent", "prune"}
    /\ Never \notin Int

VARIABLES
    world,
    now,
    primaryTLI, tip,    \* the primary: its timeline and insert position
    forkLSN,        \* where timeline 2 left timeline 1
    wal,            \* segment manifests in the repository: <<timeline, number>>
    pruned,         \* and those wal prune has deleted
    committed,      \* committed backups, 1 .. n in the order of their commits
    mani,           \* mani[b]: start_lsn, timeline, stopped_at, parent
    tomb,           \* tomb[b]: when its tombstone was written
    held,
    taking,         \* the backup being taken
    rotate,         \* a rotation: the manifests it listed, and what it will delete
    prune           \* a prune: its grace cutoff, its frontier, how far the walk is

primary == <<primaryTLI, tip, forkLSN>>
store == <<committed, mani, tomb, held>>
vars == <<world, now, primary, wal, pruned, store, taking, rotate, prune>>

Backups == 1 .. MaxBackups
LSNs == 0 .. MaxLSN

NoManifest == [start |-> 0, tl |-> 1, stopped |-> 0, parent |-> 0]
RotationOver(n) == [n |-> n, pc |-> "idle", list |-> {}, plan |-> {}]
PruneOver(n) == [n |-> n, pc |-> "idle", cutoff |-> 0, frontier |-> 0, at |-> <<0, 0>>]
Idle == [on |-> FALSE, start |-> 0, parent |-> 0]

Init ==
    /\ world \in Worlds
    /\ now = 1
    /\ primaryTLI = 1 /\ tip = 0 /\ forkLSN = Never
    /\ wal = {} /\ pruned = {}
    /\ committed = {} /\ held = {}
    /\ mani = [b \in Backups |-> NoManifest]
    /\ tomb = [b \in Backups |-> Never]
    /\ taking = Idle /\ rotate = RotationOver(0) /\ prune = PruneOver(0)

Live == {b \in committed : tomb[b] = Never}

-----------------------------------------------------------------------------
(* The primary and its backups.                                              *)

Tick ==
    /\ now < MaxTime
    /\ now' = now + 1
    /\ UNCHANGED <<world, primary, wal, pruned, store, taking, rotate, prune>>

\* The segments of a timeline that are complete at an insert position.
Complete(t, from, to) == {<<t, s>> : s \in {n \in LSNs : n >= from \div SegSize /\ (n + 1) * SegSize <= to}}

\* WAL is written (which only a prune takes an interest in); WALSink archives
\* every segment that is complete.
Write ==
    /\ tip < MaxLSN /\ "prune" \in world
    /\ tip' = tip + 1
    /\ wal' = wal \cup Complete(primaryTLI, tip, tip + 1)
    /\ UNCHANGED <<world, now, primaryTLI, forkLSN, pruned, store, taking, rotate, prune>>

\* A replica that has the WAL up to an earlier position takes over on a new
\* timeline; the backup being taken loses its connection.
Failover(l) ==
    /\ "failover" \in world /\ primaryTLI = 1 /\ l <= tip
    /\ "rewind" \in world \/ \A b \in committed : mani[b].start <= l
    /\ primaryTLI' = 2 /\ forkLSN' = l /\ tip' = l
    /\ taking' = Idle
    /\ UNCHANGED <<world, now, wal, pruned, store, rotate, prune>>

\* A backup begins, full or on a live one of its timeline, under the lease.
BeginBackup(p) ==
    /\ ~taking.on
    /\ p # 0 => "incremental" \in world /\ p \in Live /\ mani[p].tl = primaryTLI
    /\ taking' = [on |-> TRUE, start |-> tip, parent |-> p]
    /\ UNCHANGED <<world, now, primary, wal, pruned, store, rotate, prune>>

\* It commits, unless its parent was deleted meanwhile.
CommitBackup(b) ==
    /\ taking.on
    /\ b = Cardinality(committed) + 1 /\ b \in Backups
    /\ taking.parent # 0 => taking.parent \in Live
    /\ committed' = committed \cup {b}
    /\ mani' = [mani EXCEPT ![b] = [start |-> taking.start, tl |-> primaryTLI, parent |-> taking.parent,
                                    stopped |-> IF b \in Undated THEN 0 ELSE now]]
    /\ taking' = Idle
    /\ UNCHANGED <<world, now, primary, wal, pruned, tomb, held, rotate, prune>>

\* It fails.
AbortBackup ==
    /\ "fault" \in world /\ taking.on
    /\ taking' = Idle
    /\ UNCHANGED <<world, now, primary, wal, pruned, store, rotate, prune>>

PutHold(b) ==
    /\ "hold" \in world /\ b \in Live \ held
    /\ held' = held \cup {b}
    /\ UNCHANGED <<world, now, primary, wal, pruned, committed, mani, tomb, taking, rotate, prune>>

RemoveHold(b) ==
    /\ b \in held
    /\ held' = held \ {b}
    /\ UNCHANGED <<world, now, primary, wal, pruned, committed, mani, tomb, taking, rotate, prune>>

-----------------------------------------------------------------------------
(* Retention policies, on the manifests L of a listing.                      *)

\* sortByStoppedAtDesc
Before(b, c) ==
    \/ mani[b].stopped > mani[c].stopped
    \/ mani[b].stopped = mani[c].stopped /\ b > c

\* SimplePolicy.Apply
Within(L, keepFor) == {b \in L : mani[b].stopped >= now - keepFor}

\* CountPolicy.Apply
Fulls(L, keep) ==
    LET F == {b \in L : mani[b].parent = 0}
    IN  {b \in F : Cardinality({c \in F : Before(c, b)}) < keep}

\* pickPerBucket: the newest of each of the newest `keep` periods.
PerBucket(L, period, keep) ==
    LET key(b) == mani[b].stopped \div period
        First(b) == \A c \in L : Before(c, b) => key(c) # key(b)
    IN  {b \in L : First(b) /\ Cardinality({key(c) : c \in {d \in L : Before(d, b)}}) < keep}

Claimed(policy, L) ==
    CASE policy.kind = "simple" -> Within(L, policy.keepFor)
      [] policy.kind = "count" -> Fulls(L, policy.keep)
      [] policy.kind = "gfs" -> UNION {PerBucket(L, bucket[1], bucket[2]) : bucket \in policy.buckets}

\* Mutant: finalize does without its net.
NoNet(L) == {}

\* finalize: the newest stays,
Newest(L) == {b \in L : \A c \in L \ {b} : Before(b, c)}

\* keepUndatable: and what has no date,
Undatable(L) == {b \in L : mani[b].stopped = 0}

\* The ancestors of b that the listing shows, as far as the chain goes.
Up(L, b) ==
    LET up[c \in 0 .. MaxBackups] ==
            IF c = 0 \/ mani[c].parent \notin L THEN {} ELSE {mani[c].parent} \cup up[mani[c].parent]
    IN  up[b]

\* Mutant: no promotion of parents.
NoAnchors(L, K) == {}

\* promoteChainParents: and what a kept one is built upon.
ChainAnchors(L, K) == UNION {Up(L, b) : b \in K}

Kept(policy, L) ==
    LET K == Claimed(policy, L) \cup Newest(L) \cup Undatable(L)
    IN  K \cup ChainAnchors(L, K)

-----------------------------------------------------------------------------
(* Applying them.                                                            *)

\* rotate, or the agent's task, lists the manifests and decides.
ListBackups(policy, by) ==
    /\ rotate.pc = "idle" /\ by \in world /\ Live # {}
    /\ rotate.n < MaxRotations
    /\ rotate' = [n |-> rotate.n + 1, pc |-> by, list |-> Live, plan |-> Live \ Kept(policy, Live)]
    /\ UNCHANGED <<world, now, primary, wal, pruned, store, taking, prune>>

\* filterHeld: rotate leaves out what is held, and what that is built upon.
FilterHeld ==
    /\ rotate.pc = "cli"
    /\ LET H == rotate.plan \cap held
       IN  rotate' = [rotate EXCEPT !.pc = "batch", !.plan = @ \ (H \cup UNION {Up(rotate.list, b) : b \in H})]
    /\ UNCHANGED <<world, now, primary, wal, pruned, store, taking, prune>>

\* The store refuses to delete D if one is held, or a live backup needs one.
Deletable(D) ==
    /\ D \cap held = {}
    /\ \A b \in Live \ D : Up(Live, b) \cap D = {}

\* The time of a tombstone
Mark == now

Delete(D) == tomb' = [b \in Backups |-> IF b \in D /\ tomb[b] = Never THEN Mark ELSE tomb[b]]

\* rotate deletes in one batch, or not at all;
DeleteBatch ==
    /\ rotate.pc = "batch"
    /\ IF Deletable(rotate.plan) THEN Delete(rotate.plan) ELSE UNCHANGED tomb
    /\ rotate' = RotationOver(rotate.n)
    /\ UNCHANGED <<world, now, primary, wal, pruned, committed, mani, held, taking, prune>>

\* the agent one by one, newest first, and leaves what the store refuses.
DeleteNext ==
    /\ rotate.pc = "agent"
    /\ \E b \in Newest(rotate.plan) :
         /\ IF Deletable({b}) THEN Delete({b}) ELSE UNCHANGED tomb
         /\ rotate' = [rotate EXCEPT !.plan = @ \ {b}]
    /\ UNCHANGED <<world, now, primary, wal, pruned, committed, mani, held, taking, prune>>

\* It ends, or a rotation fails part way.
EndRotation ==
    /\ \/ rotate.pc = "agent" /\ rotate.plan = {}
       \/ "fault" \in world /\ rotate.pc # "idle"
    /\ rotate' = RotationOver(rotate.n)
    /\ UNCHANGED <<world, now, primary, wal, pruned, store, taking, prune>>

\* Undelete, with its ancestors live; it looks at chunks, which gc keeps for
\* the grace, and not at WAL.
Undelete(b) ==
    /\ b \in committed /\ tomb[b] # Never
    /\ "undelete" \in world /\ ("late" \in world \/ now - tomb[b] <= Grace)
    /\ mani[b].parent # 0 => mani[b].parent \in Live
    /\ tomb' = [tomb EXCEPT ![b] = Never]
    /\ UNCHANGED <<world, now, primary, wal, pruned, committed, mani, held, taking, rotate, prune>>

-----------------------------------------------------------------------------
(* wal prune.                                                                *)

\* WALPrune fixes the grace cutoff,
BeginPrune ==
    /\ prune.pc = "idle" /\ "prune" \in world /\ prune.n < MaxPrunes
    /\ prune' = [PruneOver(prune.n + 1) EXCEPT !.pc = "list", !.cutoff = now - Grace]
    /\ UNCHANGED <<world, now, primary, wal, pruned, store, taking, rotate>>

\* Mutant: no grace for tombstones.
AnyTombstone(b) == tomb[b] # Never

\* A backup whose tombstone is older than the cutoff does not count;
Stale(b) == tomb[b] # Never /\ tomb[b] < prune.cutoff

\* a younger one still does, for an undelete.
Counting == {b \in committed : ~Stale(b)}

\* oldestKeptBackupFrontier: the least start_lsn.  No backup, no prune.
Frontier ==
    /\ prune.pc = "list"
    /\ IF Counting = {} THEN prune' = PruneOver(prune.n)
       ELSE \E b \in Counting :
              /\ \A c \in Counting : mani[b].start <= mani[c].start
              /\ prune' = [prune EXCEPT !.pc = "walk", !.frontier = mani[b].start]
    /\ UNCHANGED <<world, now, primary, wal, pruned, store, taking, rotate>>

After(x, y) == x[1] > y[1] \/ (x[1] = y[1] /\ x[2] > y[2])

\* The next segment of the listing, in the order of timelines and names
Listed(x) ==
    /\ prune.pc = "walk"
    /\ x \in wal /\ After(x, prune.at)
    /\ \A y \in wal : After(y, prune.at) => y = x \/ After(y, x)

\* ends before the frontier,
Prunable(x) == (x[2] + 1) * SegSize < prune.frontier

\* and is deleted;
PruneSegment(x) ==
    /\ Listed(x) /\ Prunable(x)
    /\ wal' = wal \ {x} /\ pruned' = pruned \cup {x}
    /\ prune' = [prune EXCEPT !.at = x]
    /\ UNCHANGED <<world, now, primary, store, taking, rotate>>

\* or it stays: younger than the keep floor, not readable, or not deletable;
SpareSegment(x) ==
    /\ "fault" \in world
    /\ Listed(x) /\ Prunable(x)
    /\ prune' = [prune EXCEPT !.at = x]
    /\ UNCHANGED <<world, now, primary, wal, pruned, store, taking, rotate>>

\* or it does not, and the rest of its timeline is kept unread.
PastBoundary(x) ==
    /\ Listed(x) /\ ~Prunable(x)
    /\ prune' = [prune EXCEPT !.at = <<x[1], MaxLSN>>]
    /\ UNCHANGED <<world, now, primary, wal, pruned, store, taking, rotate>>

\* The listing ends, or an error ends it.
EndPrune ==
    /\ \/ prune.pc = "walk" /\ \A x \in wal : ~After(x, prune.at)
       \/ "fault" \in world /\ prune.pc # "idle"
    /\ prune' = PruneOver(prune.n)
    /\ UNCHANGED <<world, now, primary, wal, pruned, store, taking, rotate>>

Next ==
    \/ Tick \/ Write \/ AbortBackup
    \/ \E l \in LSNs : Failover(l)
    \/ \E p \in 0 .. MaxBackups : BeginBackup(p)
    \/ \E b \in Backups : CommitBackup(b) \/ PutHold(b) \/ RemoveHold(b) \/ Undelete(b)
    \/ \E policy \in Policies, by \in {"cli", "agent"} : ListBackups(policy, by)
    \/ FilterHeld \/ DeleteBatch \/ DeleteNext \/ EndRotation
    \/ BeginPrune \/ Frontier \/ EndPrune
    \/ \E x \in wal : PruneSegment(x) \/ SpareSegment(x) \/ PastBoundary(x)

Spec == Init /\ [][Next]_vars

-----------------------------------------------------------------------------
(* Properties.                                                               *)

Segments == {1, 2} \X LSNs

\* Every variable has its type; in particular no tombstone is dated later than
\* now, by which grace would be counted.
TypeOK ==
    /\ world \in Worlds /\ now \in 1 .. MaxTime /\ primaryTLI \in {1, 2} /\ tip \in LSNs
    /\ forkLSN \in LSNs \cup {Never}
    /\ wal \subseteq Segments /\ pruned \subseteq Segments
    /\ committed = 1 .. Cardinality(committed) /\ committed \subseteq Backups
    /\ held \subseteq committed
    /\ mani \in [Backups -> [start : LSNs, tl : {1, 2}, stopped : 0 .. MaxTime, parent : 0 .. MaxBackups]]
    /\ \A b \in Backups : tomb[b] = Never \/ (b \in committed /\ tomb[b] \in 1 .. now)
    /\ taking \in [on : BOOLEAN, start : LSNs, parent : 0 .. MaxBackups]
    /\ rotate \in [n : 0 .. MaxRotations, pc : {"idle", "cli", "batch", "agent"}, list : SUBSET committed, plan : SUBSET committed]
    /\ prune \in [n : 0 .. MaxPrunes, pc : {"idle", "list", "walk"}, cutoff : -Grace .. MaxTime, frontier : LSNs,
                  at : {0, 1, 2} \X LSNs]

\* Recovery from b reads the WAL of its timeline from its start, and of the
\* timeline that left it after that.
Replays(b, x) ==
    /\ (x[2] + 1) * SegSize > mani[b].start
    /\ x[1] = mani[b].tl \/ (mani[b].tl = 1 /\ forkLSN # Never /\ mani[b].start <= forkLSN)

WALWhole(b) == \A x \in pruned : ~Replays(b, x)

\* wal prune never takes WAL from a backup that is listed, or that may still be
\* undeleted, whenever it was committed, deleted or undeleted with respect to
\* the moment the frontier was computed.
WALKept == \A b \in committed : tomb[b] = Never \/ now - tomb[b] <= Grace => WALWhole(b)

\* Once there is a backup, there is one that can be restored: it is listed, so
\* are all it is built upon, and its WAL is there, however policies, rotations,
\* holds, undeletes and prunes interleave.
RecoveryPossible ==
    committed # {} => \E b \in Live : Up(committed, b) \subseteq Live /\ WALWhole(b)

\* "The policy's finalize guarantees the set is chain-safe" (rotate): what a
\* rotation is about to delete leaves no backup of its listing without parent.
PlanChainSafe ==
    rotate.pc = "batch" => \A b \in rotate.list \ rotate.plan : Up(rotate.list, b) \cap rotate.plan = {}
=============================================================================
