# pg_hardstorage in TLA+

A verification project for the core of pg_hardstorage, the PostgreSQL backup
and WAL archive. The repository on object storage is the only thing most of its
processes share: a backup, a `wal stream`, a `repo gc`, a `backup delete` and a
`hold add` may run on different hosts, with no database and no lock server
between them. What keeps them from hurting each other is protocols of single
object reads and writes. Those protocols, the pipeline that archives WAL, and the
agent and control plane that run it all, are what is modelled here: TLC explores
their interleavings on small instances, and TLAPS proves the most important
results for every instance.

| module | what it is |
| --- | --- |
| `GCFence`, `GCFenceProofs` | garbage collection against the writers that deduplicate (`repo/gcfence.go`, `gcsweep.go`, half of `cas.go`), and its theorems |
| `BackupLease`, `BackupLeaseProofs` | one backup at a time per deployment (`backup/lease.go`, `lease_wedge.go`), and its theorems |
| `ManifestChain`, `ManifestChainProofs` | commits, soft deletes, undeletes and legal holds (`backup/manifest_store.go`, `hold.go`), and their theorems |
| `WALSink`, `WALSinkProofs` | `wal stream`: receiver, segment pipeline, durability barrier, status updates, reconnects (`pg/walsink/`, `pg/replication/stream.go`, `cli/wal.go`, `plugin/storage/fs/`), and its theorems |
| `DurableLog` | what `wal stream` promises PostgreSQL; `WALSink` implements it, which is proved |
| `Retention`, `AgentProofs` | retention policies, rotations, undelete and `wal prune` (`backup/retention/`, `cli/rotate.go`, `repo/walprune.go`), and their theorems |
| `JobQueue`, `JobQueueProofs` | control planes, their job table and the agents (`server/jobs*.go`, `agent/controlplane.go`), and its theorems |
| `JobLife` | what the control plane promises of a job; `JobQueue` implements it, which is proved |
| `AuditChain`, `AuditChainProofs` | the lock-free hash chain of audit events (`audit/audit.go`), and its theorems |
| `Approvals`, `ApprovalsProofs` | requests, votes, revocation and the single-use gate (`approval/`), and their theorems |
| `Failover`, `AgentProofs` | WAL archiving across timelines: `wal stream`'s start point and retries, the Patroni follower's coordinator, gap records, history files, and restore's gap preflight (`cli/wal*.go`, `wal/`, `restore/gapcheck.go`), and theorems about the coordinator's records, the history files and holes in the archive |
| `Scheduler`, `AgentProofs` | the agent's schedule (`schedule/engine.go`), and its theorems; `AgentProofs` extends the three modules of what the agent runs, whose names differ for that reason |
| `MC...` | instances for TLC: views, symmetries, chain shapes, contents |

`PROJECT.json` maps each definition to the lines it models, and lists the runs, the mutants
that show each property can fail, and the hazards.
Paths below are relative to `src/internal/`.

## Inventory

What each part keeps, what it does, what is hard about it, what makes it correct.

**gc fence** (`repo/gcfence.go`). State: run records under `gc/runs/` (state,
seq, expiry), pins under `gc/pins/`. Operations: `BeginCommitFence` reads the
records (R1) and, if a run is live, pins the adopted chunks and waits for that
run's next checkpoint; `VerifyAdopted` re-Stats; `Confirm` decides after the
commit whether to look again. Hard: the writer and the sweep never meet, all is
timing of reads and writes. Correct: no commit that reports success references
a chunk that was swept.

**gc sweep** (`repo/gcsweep.go`, `repo/gc.go`, `cli/repo_gc.go`). State: the
run record, the reference set, the orphan log, the pin set. Operations: publish,
walk, settle, checkpoint (seq, pins, leases, rescan), delete a slice, heartbeat,
finish. Hard: hours pass between listing and delete, heartbeats fail, the
process dies. Correct: deletes only what nobody references or will reference;
ends.

**Content-addressed store** (`repo/cas.go`). State: chunks, a per-process
memory of the chunks it has seen. `PutChunk` writes, adopts, or adopts from
memory. Hard: the memory is stale after a sweep.

**Backup lease** (`backup/lease.go`, `lease_wedge.go`). State: the lease object,
break claims by generation. Operations: acquire (create, or break an expired
lease under a claim, overwrite, settle, verify), renew in a goroutine, release
with a tombstone, doctor's report. Hard: overwrites are unconditional and may
land late; a claim winner may die. Correct: mutual exclusion, no permanent
wedge, release frees.

**Manifest store and holds** (`backup/manifest_store.go`, `hold.go`). State:
manifest, tombstone and hold marker of each backup. Operations: commit, delete,
batch delete, cascade, undelete, forced undelete, put and remove hold. Hard:
every operation is check, write, check again, take back, and any two may
interleave. Correct: no live incremental on a deleted parent; no backup both held
and deleted; a reported delete stays; a hold is not weakened.

**Backup runner** (`backup/runner/`): lease, `BASE_BACKUP`, chunks, fence,
commit, confirm, release. Its order of calls is in the first two modules.

**WAL sink and replication stream** (`pg/walsink/`, `pg/replication/`,
`cli/wal.go`). State: the segment being filled, a pool of buffers, a channel, a
batch, `SyncedLSN`, the CAS's memory, the storage plugin's list of deferred
puts, PostgreSQL's slot. Operations: receive, hand off, chunk, barrier, fenced
commit in order, report positions, reconnect. Hard: the order barrier,
manifest, `SyncedLSN`, flush report; draining after a failure; references
shared within a batch; power loss. Correct: the slot never passes what is
durable; no hole; `Close` returns.

**WAL prune, retention and rotation** (`repo/walprune.go`, `backup/retention/`,
`cli/rotate.go`). State: manifests, tombstones with dates, holds, segments. A
rotation lists, decides and deletes; a prune computes the oldest needed LSN
once, then deletes segments. Correct: no backup that is or becomes live loses
WAL it needs; something to restore from is left; chains are not cut.

**Control-plane job queue** (`server/jobs*.go`, `agent/controlplane.go`). State:
jobs with state, owner and last report; agents with one job each. Operations: enqueue, claim (capped),
progress, sweep, cancel, complete with retries, prune. Hard: a swept agent that still
completes, answers that are lost. Correct: one owner, one end, the cap holds,
everything ends.

**Approvals** (`approval/`): a request's body, which revocation and the expiry
sweeper read and write back whole; votes; a consumption marker. Correct: one
approval is spent at most once, with a quorum behind it, never after a
revocation returned.

**Audit chain** (`audit/`): hash-chained events in slots, a lagging head
pointer, anchors. Correct: no fork, no lost event, whatever crashed.

**Scheduler** (`schedule/`): a serial loop with run ceilings, catch-up and a
record of last runs. Correct: no task overlaps itself or stops the others.

**Patroni follower, timelines and gap records** (`patroni/`, `wal/follower/`,
`wal/timeline/`, `wal/inventory/`, `wal/gapstate/`, `pg/replication/continuity.go`,
`cli/wal*.go`, `restore/gapcheck.go`). State: leader, timeline, slot, archived
segments by timeline, history files, gap records. Operations: follow leader
changes, find the start of a stream from the archive and the history, capture and backfill history files,
persist gaps with retries, purge orphaned records, refuse a restore over a gap. Hard: promotions
fall between any two of these, the former leader goes on for a while, and WAL past the fork
is in the archive. Correct: a recovery that would stop at a hole is refused or someone
was told; `latest` finds the latest timeline; the stream catches up.

**KEK rotation, replicas, the rest of restore, WORM, jit tokens, remote storage plugins,
CLI**: see the components list for why each is left out.

Interactions: gc looks at leases (`findLiveBackupLeases`), so `BackupLease`'s
`HolderOnRecord` is what `GCFence`'s `LeaseHeld` relies on; commits of one deployment are
serialised by the lease, which `ManifestChain` assumes in `LeaseFree` and `Retention` in `taking`; a delete
hides a manifest from gc's scan, `Expire` in `GCFence` and `GCScan` in `ManifestChain`.
`Failover` takes one stream as `WALSink` shows it, whole segments in order, and adds
what one stream does not see, timelines. `WALSink` uses the fence as `GCFence` shows it: a pinned chunk is not swept unless
the sweep outlives the fence (`overrun`), and then `Confirm` looks and finds out. `Retention` takes each
operation of `ManifestChain` as one step and each archived segment of `WALSink`
as there. The agent of `JobQueue` and the loop of `Scheduler` are what starts all of
these.

## Plan

Order: the fence (losing data silently is the worst this program can do), the
lease it leans on, the manifest store that decides what is referenced; then the
WAL stream with its abstract log, retention and prune, the job queue with its
abstract life cycle, approvals, audit chain and scheduler, and failovers. These are done.
What is left, in this order:

1. Theorems: `ChainIntact` for two operations with a batch beside an undelete; `NoSilentTruncation`
   where backups are deleted.
2. The manifest store's replicas with KEK rotation.
3. The `patroni switchover` command beside the follower of `Failover`.

## The models

### GCFence

A *writer* is one manifest commit, a *run* one `Sweep` with Apply. `wpc` follows
the writer through

    put -> pin -> list -> wait -> stat -> commit -> confirm -> ok
                                                    confirm -> pin2 -> list2 -> wait2 -> stat2 -> ok | swept

`put` is any number of `PutChunk`s; `pin`, `list`, `wait` are `pinAndWait`
(skipped when R1 shows no live run); `stat` is `VerifyAdopted`. `Fail` ends a
writer at any of these. `gpc` follows the run through

    walk -> next -> pins -> rescan -> fresh -> delete -> next ... -> finish -> done

`Advance`, `ReadPins`, `Rescan` are `checkpoint` in its order: publish seq + 1,
read the pins, look at leases and manifests. `DeleteOne` is one chunk, so writers
interleave inside a batch. `Heartbeat`, `Stop` (any error: `finish` still runs) and
`Crash` (it does not) may happen at any time. `Finish` also reaps expired pins and
old records, and may fail to mark its own record.

Chunks a writer wrote itself (`own`) are kept apart from those it adopted: the
fence does not cover the former.

The clock is one integer. What the code leaves to the environment is named:

- `DeletesArePrompt`: a slice is deleted before the record that `checkFresh`
  accepted (younger than `GCRunTTL/2`) expires. `BatchDuration` bounds slices,
  nothing bounds one slow delete.
- `OwnChunksCommitInTime`: a writer without a lease references a chunk it wrote
  before it is `MinAge + Settle` old. Leased writers need no such promise.
- A leased writer's lease is valid for as long as it runs (`HolderOnRecord`).
- `LapsedBeats`, `StalledFences`, `StatFaults`, `RecordFaults`,
  `OverlappingRuns`: flaws of the outside world, off or on by run. The theorems
  need the first four off; overlapping runs are always allowed there.
- A pin's `CreatedAt` and the fence's `pinnedAt` are one instant.
- A scan is atomic. Where the real one takes longer it can only see more; the
  chunk listing is made from the same instant as the reference scan.

### BackupLease

A process is one `AcquireBackupLease`, the backup it guards, its `Maintain`
goroutine (`rpc`) and its `Release`. The fencing token (owner and acquisition
time) is the process itself. Every read and every write of an object is a step;
a write that was decided lands any time up to its delay later (`RenewDelay`,
`BreakDelay`, `ReleaseDelay`), as a stalled process or a slow PUT would make it.
A claim may be dropped or not (`DropClaim`), a failed put may have landed or
not (`PutFails`).

Exclusion depends on the delays, and the instance has to respect that: with

    RenewDelay <= 2 * Settle,  RenewDelay < TTL
    BreakDelay + ReleaseDelay < TTL
    TTL + BreakDelay + max(RenewDelay, ReleaseDelay) <= Grace

(`PromptWrites`; in the code the TTL is 15 minutes and `wedgeGrace` an hour)
and no operator at work (`Worlds`: slow writes, or prompt ones) it holds and is proved;
`BackupLease_stalled.cfg` and `BackupLease_doctor.cfg` show what happens
beyond them. One clock: hosts' clocks agree. Nobody deletes the
lease object by hand.

### ManifestChain

An operation is a process with a kind; `pc` is the next object access. A
delete is a batch of one. A behaviour picks its `mix` from `Mixes`, the sets of
operations, faults and crashes that may happen together, because the code's
guarantees differ by combination. `mine` is
what the operation would take back; `res` what it told its caller, and a
property excuses a state only when some operation said that it left one
(`Admitted`). Parents are a constant (`Parent`): the chain a commit may join is known,
whether and when it does is not. Backups are numbers in the order their IDs sort.

Listings and loops of reads are one step; commits of a deployment are
serialised by its lease. `Force` on a hold is not asked for; replica copies are
left out.

### WALSink and DurableLog

Two goroutines of one attempt, the receive loop (`spc`) and the processor
(`ppc`):

    down -> recv -> copy -> hand -> recv ...   -> close -> over -> down | stopped
    wait -> chunk -> sync -> link -> sync2 -> fence -> verify -> commit -> confirm -> advance -> ...

`Receive` is `OnRecord` up to its first copy, with every refusal; `Copy` blocks
on the pool and `HandOff` on the channel, which is where the deadlock would be.
`sync`, `link`, `sync2` are `Barrier`: bytes first, then the names, then the
directories; a failure in the middle leaves part of the list published
(`LinkFails`). `fence` to `confirm` are `commitManifest`: `Verify` refuses a
segment whose adopted chunk is gone, but a Stat that fails otherwise passes
(`VerifyBlind`, `ConfirmBlind`; fault `stat`); `Confirm` returns at once unless
the commit outlasted its budget (`Looks`), and then takes the manifest back over a
chunk that is gone (`TakeBack`), or when gc's records cannot be read
(`ConfirmFails`), which may fail to remove it. The repository's
chunks are split by what power loss takes: `stored` (at their key), `solid`
(bytes on stable storage), `linked` (directory entry on stable storage), `torn`.
A manifest commit is one durable step: the plugin syncs it.

The slot is PostgreSQL's: it moves to whatever flush position a status update
gives, and everything below its segment may be gone. `Decide` is the retry
policy and `Connect` an attempt from `ResumeLSN`, behind the highest committed
segment. `Segs` contains at least the segments from the slot's to the WAL's end
(`SinkAssumption`). `Sweep` is gc by what `GCFence` shows of it. `PushSegment` is the
`archive_command` shim in a process of its own. A behaviour is in one of
`Worlds`, the sets of faults that may happen, at most `MaxFaults` times.

`DurableLog` has two numbers: `archived`, up to where the log survives
everything, and `given`, up to where PostgreSQL may drop it. `IsDurableLog` maps
`archived` to the first segment that is not durable and `given` to the slot's segment.

Left out: timelines (one), encryption, the partial last segment, split brain (one
cluster), the operator who deletes by hand a manifest that could not be taken back.

### Retention

Operations of the manifest store are single steps; what stays apart is the
moment something is read and the moment it is acted upon: a rotation's listing
and its deletes (`rotate` in a batch after `filterHeld`, the agent one by one,
newest first), a prune's cutoff, frontier and walk, a backup's start and
commit. The three policies are operators on a listing; `finalize`'s net
(newest, undatable, chain parents) is part of `Kept`. A failover puts the
primary on a second timeline from an earlier position.

### JobQueue and JobLife

`state`, `owner` and `overdue` are the job table; a claim is a transaction
(`tx`): lock, select for update, commit. Requests travel and wait; a caller
that stops listening (`Deafen`) leaves its request behind, so it may arrive later,
or never. An agent is `runOne`: claim, execute with progress reports and the
watcher beside it, report with retries. The watcher may be misled (`WatchMisled`):
`handleJobGet` answers 404 whenever it cannot read the job, and the watcher cancels a
healthy run. `Hangs` are executors that return only when
cancelled. The in-memory backend is the same model: its mutex makes each step
as atomic as a transaction's.

`JobLife` says what all this amounts to: a job is given to one agent, begun at
most once, ends once, is completed on record only if it was done.

### AuditChain

An event is one `Append`: head pointer, check, walk if it is stale, then slots
from there on until one is free. A hash is the event and its place: two events
have the same hash only if they are the same. `world.puts` says what
`IfNotExists` is worth: atomic; a look before the write (an sftp server without
hard links); or nothing. `ListEvents` and `ComparePointer` are the two parts of
`VerifyChain`, between which appends go on.

### Approvals

The body of a request is what `Revoke` and `SweepExpired` write back whole, with
the other's field as they read it; a vote and the consumption marker are objects of
their own. A gate reads the body, then judges with the votes and marker of a
later moment, then consumes. Signatures are who signed them.

### Failover

An LSN counts units, two to a segment, so that a fork may fall inside one. A
timeline has its ancestors (`anc`), its `fork` and its `end`. The cluster writes, promotes a
standby that had less than everything, may lose the slot and recycles WAL; the
former leader still serves the stream that is connected to it. `spc` is `streamAttempt`:

    down -> capture -> slot -> resolve (-> record) -> connect -> streaming -> down | stopped | refused

IDENTIFY_SYSTEM, the history files, the slot, the archive's frontier and the
history once more are read one after the other over several connections, and a
promotion may come between any two (`straddle`). `Resolve` is `resolveStartLSN`:
own frontier, or an earlier timeline's clamped to the fork, or the slot, and then
`RecordPreStreamGap`. `Connect` picks the timeline (`Containing`) and gets PostgreSQL's
answer. A `--start-lsn` is what the process was `asked` for, at every attempt. `Broke` is the retry policy's count of attempts without progress.

`fpc` is the agent: `Poll` finds a leader, `ReconcileSlot` makes the slot and
detects a gap, `persist` and `final` store it, `history` and `backfill` fetch history
files. Restore's preflight is the operator `Refused`, over the records, compared
with where PostgreSQL's recovery would really stop (`StopsShort`). A backup
is its timeline and stop LSN. A behaviour is in one of `Scenarios`.

`NoSilentTruncation` accepts a failure that was reported (`Told`): the code's
answer to a record it cannot store is a critical event.

### Scheduler

Times are relative to now, so the clock runs for ever in a finite state
space. `Start` is `runOne` entering `runBounded`; `Return`, `Abandon` and `Skip`
are the three ways out. A `Stop` is graceful: `runBounded` cancels the run, and it is
recorded; a `Crash` leaves no record of it. Time does not pass while something due can start:
timers are prompt. Interval schedules only.

## Runs

All runs pass and explore their state space completely. Every property has a mutant in
`PROJECT.json`, a plausible bug in one definition that breaks it.

| run | instance | shows |
| --- | --- | --- |
| `gcfence_batches` | 1 remembering writer, 1 sweep, 2 chunks in slices of one, age floor | no adopted chunk is lost silently, between slices either; own chunks are kept |
| `gcfence_live` | 1 leased writer, 1 sweep, no age floor, fairness | waits end, sweeps end; the lease looks alone protect own chunks |
| `lease_exclusion` | 4 attempts, 2 generations, with slow writes and with prompt ones | mutual exclusion; with prompt writes a running backup's lease is visible and live |
| `lease_live` | 3 attempts of which 1 repeats, operator, fairness | never wedged for good while a claim generation is left |
| `chain_races` | chain of 3, 2 operations, in four mixes with faults, crashes, gc | `ChainIntact`, `DeleteSticks` under commits, deletes, batches, undeletes; `HeldIsLive` under holds, deletes and cascades; `NeverTorn` at every instant of deletes |
| `walsink_stream` | 4 segments with shared chunks, 1 buffer, batches of 2, 2 faults of 8 worlds, fairness | the slot covers only what is durable; nothing dangles; no hole; all is archived in the end; nobody blocks for ever; `DurableLog` is implemented |
| `jobs_queue` | 2 jobs of which 1 hangs, 2 agents, 2 control planes, cap 1, 1 fault, fairness | an acknowledged success is recorded; the cap; every job ends; agents are freed; `JobLife` is implemented |
| `audit_appends` | 3 events, atomic storage with races, checked storage without, 2 faults | events stay, one chain, pointer and anchors hold |
| `approvals_gate` | 2 requests, 2 gates, a revoker, a sweeper, expiry | single use, quorum, revocation holds |
| `retention_window` | 3 backups, every policy at its most eager, 1 rotation, 1 prune, a failover, in 4 worlds | WAL is kept, recovery is possible, plans are chain-safe |
| `failover_archive` | 3 timelines, 3 segments of 2 units, 1 backup, 2 faults of 11 scenarios, fairness of the stream | no hole is recovered into silently; history files are there up to every archived timeline; a detected gap is kept; the stream catches up or stops because WAL is gone |
| `schedule_engine` | 3 tasks, 1 may wedge, stops and crashes, fairness | no overlap, bounded delay, every healthy task fires again |

### Bounds, and why they are enough

- **Time.** In the safety runs of `GCFence` and `BackupLease` the clock is not bounded in effect:
  `TimerView` presents each time stamp as an age, cut off at the largest
  duration any guard compares it with, and forgets what finished processes
  remembered. States with the same view have the same futures, so TLC finishes
  without reaching `MaxTime`. The durations are small numbers in the order the
  code's have where the protocol needs it: budget 1 under settle 2 (30 s, 60 s),
  run TTL 2 (2 min), pin TTL above that (6 h), retention above twice the pin's
  (24 h). `MaxWait` is varied from 1 to 5, so that waits end both ways.
- **Writers, runs, chunks.** Every argument of the fence is about one writer, one
  run and one chunk; a second chunk is there because batches are sliced, a second
  writer because one may adopt what another wrote. `AdoptedChunksSafe` removes
  the bound for adopted chunks, overlapping sweeps included.
- **Acquirers.** A victim, a claim winner that died, and two survivors: four
  attempts, two generations. Generations beyond the second repeat the first. The proofs remove the bounds
  of exclusion and of the record.
- **Chains.** Three backups in a row give every position: root, inner, leaf. Two
  operations are every pair of racing protocols. With three, or with cascades
  among commits, `ChainIntact` fails: see *Where the guarantees end*. The proofs remove the bounds
  of the other three properties, and for pairs without a cascade the bounds on the backups of `ChainIntact`.
- **WAL.** One buffer and one place in the channel make every wait happen; two
  segments per batch are needed for shared references; four segments let an
  attempt stop in the first batch and resume in the second. Two faults are a
  fault and one during its recovery. The proofs remove the bounds of the safety properties.
- **Jobs.** Two jobs under a cap of one are the least that compete; a second
  control plane makes claims overlap; one fault per behaviour, since fairness is checked.
  The proofs remove the bounds of the safety properties.
- **Audit.** Three events are a head that lags by one and a race for the next slot. The proofs remove the bound.
- **Approvals.** The proofs remove the bounds.
- **Retention.** Three backups are a chain, or a chain and a full; four time units
  are enough for a tombstone to be older than the grace. The proofs remove the bounds.
- **Failover.** Three timelines are a former leader, its successor and one more
  while the first hand-over is in progress; a segment of two units has a fork at its
  boundary and one inside; six units leave room for WAL past the fork on both
  sides. Five attempts without progress are the code's number. Eleven scenarios combine
  the things that meet in the code; all of them at once is out of reach
  (1.78 million states as it is). The proofs remove the bounds of `DetectedIsKept` and
  `LatestIsLatest`, and those of `NoSilentTruncation` where no backup is deleted.
- **Schedule.** Intervals below, between and above the sum of the other tasks' ceilings.

Symmetry is used in safety runs, over processes, runs, writers, chunks, events and gates
of the same kind, never where fairness is checked. Deadlock is checked in `jobs_queue`
and `schedule_engine`; the other instances are finite work that comes to an end.

### Fairness

`GCFence`: a writer, a sweep and the clock go on when they can. The code's waits
are polls with a deadline and its storage calls carry contexts, so a process that
lives does proceed; heartbeats, failures and crashes are promised by nobody and
get no fairness, so `WaitEnds` holds also against a sweep that stops dead.
`BackupLease`: the clock, and an acquirer's own steps; a schedule that was
refused is repeated by the scheduler. Nothing is assumed of holders. In these two
the clock is bounded by `MaxTime` and the properties ask only
for what falls due before it.

`WALSink`: both goroutines run, the status ticker ticks, and the unit that
`deploy/systemd` ships restarts a stream that stopped. Faults are bounded in
number, not in time. `JobQueue`: control planes serve, agents go on, the sweeper
ticks, time passes for a job nobody reports on, a supervisor restarts agents;
an executor that does not hang returns in the end (strong, because its reports
come in between). `Failover`: the streamer's steps only, weakly: `wal stream` retries by itself, a connected server sends what it
has, Patroni fences a former leader, so that its connections end. The agent, the
operator, promotions and faults get none. `Scheduler`: time passes and the loop goes on; strong fairness,
since a crash takes a step away without taking it away for ever. Crashes that
come before every single start of a task would defeat any schedule.

## Proofs

`GCFenceProofs` proves, for all sets of writers, runs and chunks and all
durations with `Budget < Settle`:

- `TypeCorrect`: `Spec => []TypeOK`, whatever the environment does.
- `AdoptedInvariant`: `Spec => []AdoptedInv`, with the four flaws off.
- `AdoptedChunksSafe`: `Spec => []NoAdoptedChunkLost`, which follows.

`NoAdoptedChunkLost` speaks of writers that are through; it is not inductive,
because nothing in it says why the next delete spares the chunk. `AdoptedInv`
says that, phase by phase:

- `SweepInv`: a sweep's record is on storage and running while it is live, its
  first checkpoint comes after the settle, and it deletes under a live record.
- `FenceInv`: what a writer's phase says of its pin and its manifest.
- `UnseenInv`: a run the writer has not seen began after the fence.
- `UnpinnedInv`: without a pin, all runs seen at R1 are over.
- `PinnedInv`: with a pin, each run has taken it in, is about to, is being
  waited for at its present seq, or came later.
- `EvidenceInv`: if a chunk has gone since the re-Stat, there is a run record
  `Confirm` will find, the pin is no longer fresh, and the budget is spent; so
  `Confirm` does not return early.
- `CommittedInv`: once the manifest is visible, a run either is waited for or
  rescans before it deletes.

The settle argument is in `UnseenInv` with `SweepInv`: an unseen run's first delete
comes at least `Settle` after its start, hence more than `Budget` after
the fence began. One lemma per conjunct shows that a step keeps it; what
a step can do to a sweep is summarised once (`StepMoves`).

The chunks a writer wrote itself have another protection and a proof of their own, which needs
only that sweeps do not overlap; heartbeats may lapse, fences stall, reads fail:

- `OwnInvariant`: `Spec => []OwnChunksInv`. A sweep's list is of stored chunks old enough when it
  began (`ListingInv`); before the commit a chunk is too young for that or its backup's lease keeps it off
  the lists, after it every sweep reads the manifest before its next delete (`OwnInv`).
- `OwnChunksSafe`: `Spec => []NoOwnChunkLost`, which follows.
- `DeletesAreOld`: `Spec => NeverDeletesYounger`, the protocol's rule 4 as an action property. With
  overlapping sweeps it fails (`GCFence_younger.cfg`).

`ApprovalsProofs` proves, for all sets of requests, keys, gates, revokers and
sweepers, every roster and threshold:

- `TypeCorrect`: `Spec => []TypeOK`. Inductive with `CallsKnown`: calls under way
  are about requests that are filed.
- `RedeemedOnce`: `Spec => []SingleUse`, on storage with conditional writes. The
  invariant adds that a gate went on only with its marker on record (`MarkerInv`), and
  a marker that is there refuses the next.
- `QuorumAlways`: `Spec => []QuorumBehind`. A gate that judged favourably keeps
  its quorum, since votes are only added.
- `RevocationHolds`: `Spec => []RevokedStaysRefused`, with clocks that agree
  (`Skew = 0`). This is the subtle one: the sweeper may write back a body it
  read before the revocation and so erase `RevokedAt`. It does so only when the
  request's time is over, so the erased request is expired, and its gate
  refuses it for that reason (`RecallInv`, `LateInv`): unless it was redeemed
  before, and then the marker refuses.

`AgentProofs` proves, of `Scheduler`, for any tasks, intervals, ceilings and wedges:

- `RunsNeverOverlap`: `SchedulerSpec => []NoOverlap`. A task with a run is in `inflight` (`RunsInv`), and the
  guard looks there.
- `DelayBounded`: `SchedulerSpec => []BoundedDelay`. The bound is not inductive, since it does not say which runs a
  late task has waited for. `LateInv` does: they are runs of tasks that are now behind it (`Behind`), because a run
  moves its task past every late one, and time moves all of them alike. `Delay` is a fold over a set;
  what a fold over one more task adds is shown without induction, by counting the units of
  time of one run of each task (`DelayIsUnits`).
- `TypeCorrect`: `SchedulerSpec => []SchedulerTypeOK`, whose bounds on lateness follow.

Of `Retention`, for any number of backups, segments, prunes and rotations, any policies of the three
kinds (`retention.FromMap` refuses others, `RetentionAssumption`) and any grace:

- `RetentionTypeCorrect`: `Spec => []TypeOK` (`RBase`, `RTypes`).
- `WALNeverTaken`: `Spec => [](Timely => WALKept)`. `Timely`: nobody undeletes after the grace, and no
  failover rewinds behind a backup's start (`Retention_rewind.cfg` shows the other case). A prune reads its
  frontier once and walks for as long as it likes. Its cutoff is fixed before that, so a tombstone that
  was too old to count then is older than the grace ever after, and cannot be undone; what is committed later starts
  at or after what there is, because backups start in the order of their commits (`StartInv`).
  So below the frontier nothing is needed by a backup that matters now or can matter later
  (`Floored`, `PruneInv`).
- `RotationsChainSafe`: `Spec => []PlanChainSafe`. What a policy keeps is closed under "is built upon"
  within its listing (`KeptIsClosed`), and `filterHeld` takes whole chains out of the plan.
- `AlwaysRecoverable`: `Spec => [](Timely => RecoveryPossible)`. `KeepInv`: a live backup's parent is live, and
  some live backup is not in the plan, however stale that is. `finalize`'s net leaves one (`OneIsNewest`: a
  listing has a newest), and the store's refusals keep the chains of those that stay (`DeleteKeepsChains`).

`Up` is a recursive function over any number of backups. What is needed of it is shown without induction over data:
the least set that contains a backup and is closed under "parent in the listing" satisfies its equation (`UpExists`).

Of `Failover`, for any number of timelines, attempts, faults and backups and any segment size:

- `DetectedAlwaysKept`: `FailoverSpec => []DetectedIsKept`. While it is being persisted the gap in hand is the
  only one neither on record nor reported (`DetectedInv`), whatever fails; a purge forgets a record only with the timeline it is of.
- `LatestAlwaysFound`: `FailoverSpec => [](Heard => LatestIsLatest)`. `HistInv` says from which phase on the history of
  the timeline in hand is covered: the stream's before it asks for the slot, the coordinator's after `backfill`.
  `LineInv` adds that timelines descend from earlier ones. `Heard` leaves out the scenarios with an agent, failing calls
  and more than one promotion, where the property is false: see *Where the guarantees end*. All scenarios of
  `failover_archive` are `Heard`.
- `NoHoleIsSilent`: `FailoverSpec => [](Sighted => NoSilentTruncation)`. A backup's recovery along a timeline is `Whole` up to a
  segment if every segment from the backup's end to there is archived on the timeline it is read from, or that timeline's
  history file was reported lost, or a gap across the backup's end is on record or reported. `HoleInv` says that it is, for every
  live backup, up to where a stream is about to start, up to where it has got, and up to every segment archived. The three pass
  it on: an attempt starts at the end of an archive, so no hole is behind it unless the archive reaches past the fork, and
  there the clamp sets it back (`HolesBefore`); with nothing archived, it starts at the slot and the hole before that gets a record
  (`HolesRecorded`); the timeline asked for is one on which the lineage is still the same (`HolesAlong`); and a segment
  committed closes up with what is there (`HolesArchived`). A backup that stops later ends past all three (`HolesOfNew`), which needs that no
  stream is ahead of the WAL it streams (`StreamInv`, `ArchInv`), also when a promotion comes between two steps of its set-up. `TreeInv` says that timelines are
  one line and fork in order. `Sighted` says that, if there are backups, they commit as they stop and stay, that streams are not
  sent elsewhere by `--start-lsn` nor misled by a file that does not read once, that every leader is promoted from the one before, and that
  calls fail or promotions storm but not both. Without any one of these but the deletes the property is false (*Where the guarantees end*); with
  deletes it is false once a new leader may lack the slot. It holds of all scenarios of `failover_archive` but
  {stream, backup, delete}, where only TLC checks the property, and {backup, late}, where nothing is archived.

`BackupLeaseProofs` proves, for any number of attempts, claim generations and echoes, any
clock and any schedule that repeats:

- `TypeCorrect`: `Spec => []TypeOK`, whatever the delays and the operator.
- `ExclusionHolds`: `Spec => []MutualExclusion`, with `PromptWrites` and no operator.
- `HolderIsOnRecord`: `Spec => []HolderOnRecord`, with a settle time that is not zero as well.

The instances of the run satisfy these assumptions. Both follow from `LeaseInv`, whose first half
(`BaseInv`) is bookkeeping: what was decided when (`ClockInv`), claims of a generation on top of
dead ones only (`GenerationsInv`), an acquirer's claim its own (`ChaseInv`, `OneBreaks`), at most
one put of `Maintain` outliving its backup (`MaintainInv`), and a process's record as it wrote it
last (`RecordInv`). The second half, `SuccessionInv`, says that there is a *front*, the last process to which
the lease passed. Exclusion alone is not inductive because a process that lost the lease may still
write: a renewal or a tombstone that was decided earlier lands over the successor's lease, and
the victim's old lease, stale, may be broken again by a third process. `Front` says why that comes to nothing: all
that is still due from others is about leases with a claim on them too young to be given up until the front's own
lease is over (`LateWrites`, `Guarded`), and so is the lease that one of them has put over the front's (`Overwritten`);
nobody chases the front's lease while it can be renewed (`Unchased`), a victim stops writing before its
successor lapses (`Outlives`). One case needs a clause of its own, `Dropped`: an overwrite that landed but
reported an error drops its claim, and only the lease it left behind keeps the next acquirer out
until its victim is quiet. An overwrite that did not land gives the front back to the victim (`FrontWithdraws`).

`WALSinkProofs` proves, for any WAL, segment size, chunking, pool, batch and number of faults:

- `TypeCorrect`; `SlotAlwaysCovered`: `[]SlotCovered`; `NothingDangles`:
  `[]NoDanglingSegment`; `NoHoleEver`: `[]NoHole`;
- `ImplementsDurableLog`: `Spec => IsDurableLog`, the refinement of `DurableLog`.

Each assumes `SafeWorlds`:

- where gc runs, Stats do not fail: one that fails at `verify` lets a segment be committed over a
  chunk that gc took before the fence, and `Confirm` does not look again while the fence is fresh;
- gc that outlives a fence does not meet a crash or a lost answer between the commit and its
  `Confirm` (the code's second look then never happens), nor storage that fails to remove what is
  taken back, nor `archive_command` beside the stream (`WALSink_pushed.cfg` shows why);
- a file system that reorders directory updates does not meet a failed or interrupted barrier.

Gc beside failing puts, barriers and commits is inside. All worlds of `walsink_stream` satisfy it. The inductive invariant `SinkInv` follows a chunk
from the buffer to the directory entry (`ChunkInv`: staged, flushed, linked, adopted under a pin,
kept) and the segments in their order through channel, batch and archive (`OrderInv`), relative to what the phases
of the two goroutines say (`PhaseInv`). The order matters because the slot moves by LSN alone: only since what is
on its way is consecutive (`PipeInv`) does one committed segment vouch for those before it.

`JobQueueProofs` proves, for any jobs, agents, control planes and cap:

- `TypeCorrect`; `ImplementsJobLife`: `Spec => IsJobLife`, the refinement of `JobLife`;
- `AcknowledgedIsCompleted`: `[]AckedIsCompleted`. Requests survive their callers, so the
  invariant has to say whose requests those on their way are (`RequestInv`) and that an agent hears
  of at most one claim and of reports of its present phase only (`HeardInv`);
- `CapRespected`: `[]CapHolds`; a claim that has locked a row has counted under the lock (`CapInv`).

`AuditChainProofs` proves, for any events and slots, on storage whose conditional put is atomic, or is a
look before the write with one `Append` at a time (`SafeWorlds`): `TypeCorrect`, `AcknowledgedKept`, `LogIsOneChain` and
`WitnessesAlwaysHold`. The invariant says that the slots are taken from the first on without a gap, that an
`Append` in its loop aims at the slot after a predecessor that is there, and that what a slot holds never changes.

`ManifestChainProofs` proves, for any backups and chains and any number of operations at once:

- `TypeCorrect`: `Spec => []TypeOK`, from what the phases of an operation say of its lists (`OpInv`).
- `HeldNeverDeleted`: `Spec => []HeldIsLive`, with no hold edited and no undelete beside holds: the two
  limits listed below. The invariant names who *answers* for a backup that is held and tombstoned at the
  moment: a delete that has yet to look at the holds again, a hold that has yet to look at the tombstone
  again, or somebody who said that it could not (`Answers`).
- `DeletedStays`: `Spec => []DeleteSticks`. Deletes own disjoint sets of tombstones, none of them
  reported (`OwnInv`). Cascades own what others installed too; there the argument is that no delete
  rolls back if only deletes run (`CalmInv`), since the descendants it counted only get fewer.
- `ChainNeverTorn`: `Spec => []NeverTorn`, if IDs sort after their parents' (`ManifestChain_order.cfg` shows
  why). The list of a delete leaves no live child of its members out (`Whole`), so a live child of
  the next id would be on the list and come first (`LeafFirst`). `Ancestors` is recursive; what is needed of it,
  its equation and that ancestors sort first, is proved without induction over data: the
  equation from an explicit solution (`AncestorsRec`), the order from a least counterexample (`AncestorsSmaller`).

- `ChainStaysIntact`: `Spec => [](Pairable => ChainIntact)`, for two operations (`TwoOps`) and chains without a cycle
  (`NoCycle`), in mixes without cascades and without a batch beside an undelete (`Pairable`). The property is about what is there once both have
  returned; in between links are torn and mended. The invariant says who has yet to mend a torn one (`MendedInv`, `Mends`): a commit that has
  not looked at its parent yet, a delete that will see the child in its second scan or is rolling back, an undelete before its second walk.
  That nobody returns while he has to is what the rest is for: a delete meets an orphan in its second scan only through a commit or an undelete
  (`ScanInv`), what it gives back finds its parent live (`GiveBackInv`), and an undelete meets no tombstone but those of the delete
  it races with (`UndeleteInv`). With two operations the one that is not looking is the one that did it; a third breaks each of
  these (`ManifestChain_transient.cfg`). A batch beside an undelete is only model-checked; with cascades the property is false.

Only model-checked: `ChainIntact` for a batch beside an undelete; `NoSilentTruncation` where backups are deleted, without new slots;
and all liveness, which needs fairness and `ENABLED` and which the prover does not reach. The type invariant of `Failover` is stated in its
module and can be added to any configuration; those of the other modules are proved.

## Where the guarantees end

Modelling turned up places where the code does less than its comments or
documentation say, mostly after a stall, a fault or with a third process. Each
configuration below violates the property named:
`tlc -config <file> <MC module>`.

| configuration | violates | because |
| --- | --- | --- |
| `GCFence_lapsed.cfg` | `NoAdoptedChunkLost` | a record that lapsed and was beaten again passes `checkFresh` (`gcsweep.go:853`), though a writer that saw it lapsed did not pin; set as its comment says, another world: a run record that could not be read is waited for at seq 0, so the first readable poll of a later checkpoint ends the wait (`gcfence.go:204`), where the comment says "a LIVE run that never advances" |
| `GCFence_younger.cfg` | `NeverDeletesYounger` | with two sweeps, a chunk deleted by one and uploaded again is deleted by the other: age is tested at the listing (`gcsweep.go:577`) |
| `BackupLease_release.cfg` | `ReleaseFrees` | nobody waits for the `Maintain` goroutine, so a renewal in flight lands over the release's tombstone (`lease.go:534`); "Release frees the lease if we still hold it" |
| `BackupLease_stalled.cfg` | `MutualExclusion` | a claim winner stalls past `wedgeGrace`, and a later generation breaks the same lease (`lease.go:675`) |
| `BackupLease_doctor.cfg` | `MutualExclusion` | the operator deletes the claim doctor names while an acquirer holds the next generation (`lease_wedge.go:40`) |
| `ManifestChain_cascadechild.cfg` | `ChainIntact` | a child committed on an inner link of a cascade is not reached by the re-scan of its root (`manifest_store.go:1336`), which is there to close that race |
| `ManifestChain_transient.cfg` | `ChainIntact` | three operations: a commit about to be rolled back hides its child from a delete's re-scan (`manifest_store.go:1178`) |
| `ManifestChain_weaken.cfg` | `NeverWeakened` | of two holders at once the later write wins (`hold.go:266`) |
| `ManifestChain_order.cfg` | `NeverTorn` | a cascade goes by ID, a wall clock and a random suffix, not by depth (`manifest_store.go:2212`) |
| `WALSink_pushed.cfg` | `SlotCovered` | `wal push` and `wal stream` in one repository: a pushed later segment is the highest committed, so a stream whose own commit is taken back after a late fence resumes behind it and the slot passes the hole (`cli/wal.go:2716`); the operator guide allows both. Set as its comment says, `SlotCovered` and `NoDanglingSegment` are violated without `wal push`: a Stat that fails at `verify` passes, "Transient Stat errors pass" (`walsink.go:1004`), and the slot moves over a segment whose chunk gc took before the fence |
| `AuditChain_verify.cfg` | `NoFalseAlarm` | `VerifyChain` lists events and reads the pointer later: an append in between makes a whole shard look truncated (`audit.go:1147`) |
| `AuditChain_lag.cfg` | `BoundedByAppenders` | a pointer left behind by crashes makes a lone `Append` walk slot by slot; "bounded by the number of concurrent appenders" (`audit.go:455`), and after 1024 it gives up |
| `Approvals_unconditional.cfg` | `SingleUse` | without conditional writes the marker does not decide between two gates |
| `JobQueue_overshoot.cfg` | `CapOnExecutions` | the cap counts rows, not executions: an agent that lost its job works on until its watcher polls (`jobs.go:275`) |
| `Failover_limits.cfg` | `NoSilentTruncation` | a backup that commits after the stream looked for backups gets no record of the hole before the stream (`cli/wal_prestream_gap.go:56`); its comments list more scenarios: `--start-lsn` over a hole records nothing; a stream started with `--start-lsn` does not outlive the next failover; a history file or a listing of backups that does not read once; a record found under an older timeline is not written again, and `gap-purge --orphans` takes it; a sibling timeline, below; after two promotions an attempt without a connection reports the history file of the leader's timeline only (`cli/wal.go:3355`) and starts past the fork, so the hole it leaves on the timeline between is nobody's |
| `Failover_falsegap.cfg` | `RecordedIsMissing` | the coordinator takes a slot made anew above the archive's frontier for lost WAL, but the server still has it and the stream archives it (`wal/follower/coordinator.go`); restores are refused over a hole that is none |
| `Retention_rewind.cfg` | `WALKept` | a failover to a position before a backup's start: its WAL is judged by the frontier of LSNs alone, timelines aside (`walprune.go:148`) |

Other observations of the same kind, found with configurations not kept:
"Transient GET failures are ignored" (`agent/controlplane.go:498`), but a control plane whose
database does not answer gives 404 (`routes.go:1041`), and the watcher cancels a healthy backup;
`Confirm` takes a Stat error other than "not found" for a chunk that is there
(`gcfence.go:439`); a writer that stalls past `GCPinTTL` inside the fence does not look at the run it saw again
(`gcfence.go:428`); a batch member undeleted meanwhile is excused by the
re-scan (`manifest_store.go:1583`); Undelete puts a tombstone back over a new hold
(`manifest_store.go:1838`); the edit of a lapsed hold is kept although a delete
got in (`hold.go:289`); with three operations, an undelete between two deletes of a backup lets the
first delete's roll-back take the tombstone of the second, and a cascade that rolls back takes back other deletes' tombstones
(`manifest_store.go:1344`), which `DeleteSticks` excludes. With the per-file barrier of `barrier_other.go`, an
adopted chunk's directory entry may be synced by nobody but its first writer, so power
loss on a file system that does not order directory updates can take it. After a
reconnect the stream reports no flush position until a segment commits, so an idle server's
slot does not move. `resolveStartLSN`'s comment says the start is aligned up and refused
below the slot; the code aligns down and warns. With an S3 endpoint that
ignores `If-None-Match` even a single appender can lose an event to its own
retry. With clocks that differ the sweeper can erase a revocation of a request
that a gate on another host still takes for current. An undelete after the grace finds its WAL
pruned; `backup undelete` records that as a gap. With four attempts, the operator who deletes the claim doctor names takes away a
running backup's record even if all writes are prompt: a breaker between its claim and its put
is not yet held by anybody. When a leader is promoted from an earlier
timeline than the latest (a sibling of that one), the frontier of the timeline next below is not
an ancestor's; the stream asks for a segment it has, again and again, and stops for
lack of progress; "Every reconnect then commits at least one segment"
(`wal/timeline/history.go:158`). When promotions storm, a `Get` of an ancestor's history file that fails with anything
but "not found" makes `backfillTimelineHistory` pass over it without a word (`wal/follower/coordinator.go:535`),
so that `latest` stops short of the leader and nobody was told. `startBeforeRestartError` advises to drop the slot, after which the stream
resumes at the same archived frontier and is refused again. Leases whose claim generations
are all used up are for doctor and the operator.

## Not modelled

Chunk contents, compression, encryption, signatures, spill files, formatting,
and the reading side (verify, and restore but for its gap preflight) carry no protocol state. Remote storage plugins
are the environment: atomic put, conditional put, get, list and delete of one
object, any of which may fail. In the modelled parts: dry runs and the
tombstone reaper of gc, replica copies of manifests, `Force` and
`PurgeExpiredHolds` of holds, clocks that differ between hosts (except the
approval sweeper's), daily and one-shot schedules, the keep floor of `wal prune`; around `Failover` the switchover command, slots on
replicas, `--no-slot`, recovery targets that are times, the warning of
`preflightWALContiguity`, and `gap-purge --all`.

Most of the repository's lines are command-line plumbing, rendering, a chat
assistant, compliance reports, Kubernetes and testing machinery, cloud storage
clients and restore I/O, which run one after the other and share no state with
anybody: a state machine for them would restate them. The protocols are in about two dozen
files, and those are what the modules cover. KEK rotation and
the manifest's replicas are the ones with a protocol of their own that are still missing.
