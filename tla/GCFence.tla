------------------------------- MODULE GCFence -------------------------------
(***************************************************************************)
(* The exclusion protocol between `repo gc --apply` and the writers that    *)
(* deduplicate against chunks already in the repository                     *)
(* (internal/repo/gcfence.go, gcsweep.go and the PutChunk/VerifyAdopted      *)
(* half of cas.go).                                                          *)
(*                                                                          *)
(* A writer is one manifest commit: a base backup, a WAL segment, a logical  *)
(* segment, a replicated or imported manifest.  A run is one Sweep with      *)
(* Apply.  Both talk only through objects of the repository: chunks,         *)
(* manifests, run records (gc/runs/) and pins (gc/pins/).                    *)
(*                                                                          *)
(* Simplifications.                                                          *)
(*  - One discrete clock; its unit is whatever the constants make it.  The   *)
(*    code compares two hosts' clocks only for run-record expiry.            *)
(*  - A scan (of manifests, pins, records) is atomic at the instant it       *)
(*    begins.  The real one goes on for a while and can only see more.       *)
(*  - A manifest is identified with the writer that commits it; the chunks   *)
(*    it references are adopted[w] \cup own[w].                              *)
(*  - HeartbeatAt, ExpiresAt - GCRunTTL and lastBeat are one field, rbeat.   *)
(***************************************************************************)
EXTENDS Integers, FiniteSets

CONSTANTS
    Writers,        \* manifest commits
    Runs,           \* gc runs
    Chunks,         \* chunk hashes
    Leased,         \* the writers that hold a backup lease while they run
    Remembering,    \* the writers whose CAS outlives a commit (`wal stream`)
    Settle,         \* GCFenceSettle
    Budget,         \* GCFenceWriterBudget
    RunTTL,         \* GCRunTTL
    PinTTL,         \* GCPinTTL
    MaxWait,        \* GCFenceMaxWait
    Retention,      \* gcRunRecordRetention
    MinAge,         \* the age floor of FindOrphansOptions
    BatchSize,      \* SweepOptions.BatchSize
    Slice,          \* SweepOptions.BatchDuration
    MaxTime,        \* bound on the clock
    \* The environment, each a flaw of the outside world that may be switched on.
    LapsedBeats,    \* heartbeats that failed for RunTTL or longer may succeed again
    OverlappingRuns,\* two sweeps may be active at once (nothing in the code forbids it)
    StalledFences,  \* a process may stall for hours between a pin and its use
    StatFaults,     \* Stat may fail for a reason other than "not found"
    RecordFaults    \* and so may the read of a run record

ASSUME SetAssumption ==
    /\ Leased \subseteq Writers
    /\ Remembering \subseteq Writers
    /\ {LapsedBeats, OverlappingRuns, StalledFences, StatFaults, RecordFaults}
         \subseteq BOOLEAN

\* gcfence.go: "GCFenceSettle MUST exceed GCFenceWriterBudget".
ASSUME TimeAssumption ==
    /\ {Settle, Budget, RunTTL, PinTTL, MaxWait, Retention,
        MinAge, Slice, MaxTime} \subseteq Nat
    /\ BatchSize \in Nat \ {0}
    /\ Budget < Settle
    /\ RunTTL > 0 /\ PinTTL > 0

VARIABLES
    now,        \* the clock
    \* the repository
    stored,     \* chunks present under chunks/
    mtime,      \* mtime[c]: when c was last written
    live,       \* writers whose manifest is committed and not expired
    pinStored,  \* writers whose pin object is present under gc/pins/
    rstate,     \* rstate[g]: the run record of g: "absent", "running", "finished"
    rseq,       \* rseq[g]: its checkpoint number
    rbeat,      \* rbeat[g]: its last heartbeat
    \* a gc run
    gpc, gstart, grefs, gorph, gpins, gbatch, gdeadline,
    \* a writer
    wpc, adopted, own, fstart, seenRuns, pinAt, waitFor, deadline,
    unchecked   \* writers that committed past a Stat that neither found nor missed

repo == <<stored, mtime, live, pinStored>>
record == <<rstate, rseq, rbeat>>
sweep == <<gpc, gstart, grefs, gorph, gpins, gbatch, gdeadline>>
writer == <<wpc, adopted, own, fstart, seenRuns, pinAt, waitFor, deadline, unchecked>>
vars == <<now, repo, record, sweep, writer>>

Never == -1

GCPhases == {"off", "walk", "next", "pins", "rescan", "fresh", "delete",
             "finish", "done", "dead"}
Sweeping == {"walk", "next", "pins", "rescan", "fresh", "delete"}
PreCommit == {"put", "pin", "list", "wait", "stat", "commit"}
PostCommit == {"confirm", "pin2", "list2", "wait2", "stat2"}
Finished == {"ok", "refused", "swept", "failed"}
WriterPhases == {"idle"} \cup PreCommit \cup PostCommit \cup Finished

References(w) == adopted[w] \cup own[w]

\* What a scan of manifests/, wal/ and logical/ collects.
Referenced == UNION {References(w) : w \in live}

\* gcRunRecord.liveAt
LiveAt(g) == rstate[g] = "running" /\ now < rbeat[g] + RunTTL

PresentRuns == {g \in Runs : rstate[g] # "absent"}

\* The records a listing fails to read.
Unreadable == IF RecordFaults THEN SUBSET PresentRuns ELSE {{}}

\* listGCRuns: a record that cannot be read counts as a live run at seq 0 for
\* as long as its object is young.
LiveRuns(bad) == {g \in PresentRuns : IF g \in bad THEN now < rbeat[g] + RunTTL ELSE LiveAt(g)}
ListedSeq(g, bad) == IF g \in bad THEN 0 ELSE rseq[g]

\* Mutant: gc without a lease scan (SweepOptions.LiveLeases left nil).
NoLeaseScan == FALSE

\* SweepOptions.LiveLeases
LeaseHeld == \E w \in Leased : wpc[w] \in PreCommit \cup PostCommit

Init ==
    /\ now = 0
    /\ stored \in SUBSET Chunks
    /\ mtime = [c \in Chunks |-> 0 - MinAge]
    /\ live = {} /\ pinStored = {}
    /\ rstate = [g \in Runs |-> "absent"]
    /\ rseq = [g \in Runs |-> 0]
    /\ rbeat = [g \in Runs |-> 0]
    /\ gpc = [g \in Runs |-> "off"]
    /\ gstart = [g \in Runs |-> 0]
    /\ grefs = [g \in Runs |-> {}]
    /\ gorph = [g \in Runs |-> {}]
    /\ gpins = [g \in Runs |-> {}]
    /\ gbatch = [g \in Runs |-> {}]
    /\ gdeadline = [g \in Runs |-> 0]
    /\ wpc = [w \in Writers |-> "idle"]
    /\ adopted = [w \in Writers |-> {}]
    /\ own = [w \in Writers |-> {}]
    /\ fstart = [w \in Writers |-> 0]
    /\ seenRuns = [w \in Writers |-> {}]
    /\ pinAt = [w \in Writers |-> Never]
    /\ waitFor = [w \in Writers |-> [g \in Runs |-> Never]]
    /\ deadline = [w \in Writers |-> 0]
    /\ unchecked = {}

-----------------------------------------------------------------------------
(* The writer.                                                               *)

Goto(w, there) == wpc' = [wpc EXCEPT ![w] = there]

Begin(w) ==
    /\ wpc[w] = "idle"
    /\ Goto(w, "put")
    /\ UNCHANGED <<now, repo, record, sweep, adopted, own, fstart, seenRuns,
                   pinAt, waitFor, deadline, unchecked>>

\* PutChunk, the hint's Stat or the IfNotExists Put finds the chunk: adopted.
\* A CAS that outlives a commit also adopts from memory, without looking.
AdoptChunk(w, c) ==
    /\ wpc[w] = "put"
    /\ c \notin References(w)
    /\ c \in stored \/ w \in Remembering
    /\ adopted' = [adopted EXCEPT ![w] = @ \cup {c}]
    /\ UNCHANGED <<now, repo, record, sweep, wpc, own, fstart, seenRuns,
                   pinAt, waitFor, deadline, unchecked>>

\* PutChunk, the IfNotExists Put creates the chunk.  It is not adopted: its
\* own write vouches for it (seenWriteTrust), so the fence does not cover it.
WriteChunk(w, c) ==
    /\ wpc[w] = "put"
    /\ c \notin References(w)
    /\ c \notin stored
    /\ stored' = stored \cup {c}
    /\ mtime' = [mtime EXCEPT ![c] = now]
    /\ own' = [own EXCEPT ![w] = @ \cup {c}]
    /\ UNCHANGED <<now, live, pinStored, record, sweep, wpc, adopted, fstart,
                   seenRuns, pinAt, waitFor, deadline, unchecked>>

\* BeginCommitFenceSource: read the run records (R1); pin iff a run is live.
BeginFence(w) ==
    /\ wpc[w] = "put"
    /\ References(w) # {}
    /\ fstart' = [fstart EXCEPT ![w] = now]
    /\ IF adopted[w] = {}
         THEN /\ Goto(w, "commit")
              /\ UNCHANGED seenRuns
         ELSE /\ \E bad \in Unreadable : Goto(w, IF LiveRuns(bad) # {} THEN "pin" ELSE "stat")
              /\ seenRuns' = [seenRuns EXCEPT ![w] = PresentRuns]
    /\ UNCHANGED <<now, repo, record, sweep, adopted, own, pinAt, waitFor, deadline, unchecked>>

\* pinAndWait, first part: make the pin durable, once per fence.
WritePin(w, here, there) ==
    /\ wpc[w] = here
    /\ Goto(w, there)
    /\ IF pinAt[w] = Never
         THEN /\ pinAt' = [pinAt EXCEPT ![w] = now]
              /\ pinStored' = pinStored \cup {w}
         ELSE UNCHANGED <<pinAt, pinStored>>
    /\ UNCHANGED <<now, stored, mtime, live, record, sweep, adopted, own,
                   fstart, seenRuns, waitFor, deadline, unchecked>>

\* Mutant: the deadline is set in the past.
DeadlinePast == now - MaxWait - 1

\* How long pinAndWait waits at most.
WaitDeadline == now + MaxWait

\* pinAndWait, second part: re-read the records; wait for each live run's seq.
ReadRuns(w, here, there) ==
    /\ wpc[w] = here
    /\ Goto(w, there)
    /\ seenRuns' = [seenRuns EXCEPT ![w] = @ \cup PresentRuns]
    /\ \E bad \in Unreadable :
         waitFor' = [waitFor EXCEPT ![w] =
                       [g \in Runs |-> IF g \in LiveRuns(bad) THEN ListedSeq(g, bad) ELSE Never]]
    /\ deadline' = [deadline EXCEPT ![w] = WaitDeadline]
    /\ UNCHANGED <<now, repo, record, sweep, adopted, own, fstart, pinAt, unchecked>>

\* pinAndWait, one poll of one run record: gone, no longer live, or advanced.
PollRun(w, g) ==
    /\ wpc[w] \in {"wait", "wait2"}
    /\ waitFor[w][g] # Never
    /\ ~LiveAt(g) \/ rseq[g] > waitFor[w][g]
    /\ waitFor' = [waitFor EXCEPT ![w][g] = Never]
    /\ UNCHANGED <<now, repo, record, sweep, wpc, adopted, own, fstart,
                   seenRuns, pinAt, deadline, unchecked>>

\* Mutant: the pin is written but nobody waits for the batch in flight.
NoWait(w) == TRUE

\* Mutant: the wait ends only when every run record has been deleted.
RecordsGone(w) == \A g \in Runs : rstate[g] = "absent"

Waited(w) == \A g \in Runs : waitFor[w][g] = Never

WaitOver(w, here, there) ==
    /\ wpc[w] = here
    /\ Waited(w)
    /\ Goto(w, there)
    /\ UNCHANGED <<now, repo, record, sweep, adopted, own, fstart, seenRuns,
                   pinAt, waitFor, deadline, unchecked>>

\* pinAndWait, "did not finish its delete batch within ..." .
GiveUp(w) ==
    /\ wpc[w] \in {"wait", "wait2"}
    /\ \E g \in Runs : waitFor[w][g] # Never
    /\ now > deadline[w]
    /\ Goto(w, "failed")
    /\ UNCHANGED <<now, repo, record, sweep, adopted, own, fstart, seenRuns,
                   pinAt, waitFor, deadline, unchecked>>

\* The chunks whose Stat fails for a reason other than "not found"; both
\* re-Stats take them for present, only VerifyAdopted counts them.
FaultyStats(w) == IF StatFaults THEN SUBSET adopted[w] ELSE {{}}

\* VerifyAdopted: a missing chunk refuses the commit.
VerifyAdopted(w) ==
    /\ wpc[w] = "stat"
    /\ \E faulty \in FaultyStats(w) :
         /\ Goto(w, IF adopted[w] \ faulty \subseteq stored THEN "commit" ELSE "refused")
         /\ unchecked' = IF faulty = {} THEN unchecked ELSE unchecked \cup {w}
    /\ UNCHANGED <<now, repo, record, sweep, adopted, own, fstart, seenRuns,
                   pinAt, waitFor, deadline>>

Commit(w) ==
    /\ wpc[w] = "commit"
    /\ live' = live \cup {w}
    /\ Goto(w, "confirm")
    /\ UNCHANGED <<now, stored, mtime, pinStored, record, sweep, adopted, own,
                   fstart, seenRuns, pinAt, waitFor, deadline, unchecked>>

\* Mutant: an unpinned fence is trusted however long the commit took.
ConfirmedUnlessPinExpired(w) ==
    pinAt[w] # Never => 2 * (now - pinAt[w]) < PinTTL

\* Confirm's early returns.
ConfirmedByFence(w) ==
    \/ adopted[w] = {}
    \/ pinAt[w] # Never /\ 2 * (now - pinAt[w]) < PinTTL
    \/ pinAt[w] = Never /\ now - fstart[w] <= Budget

NoRunSince(w, bad) ==
    /\ PresentRuns \subseteq seenRuns[w] /\ LiveRuns(bad) = {}
    /\ 2 * (now - fstart[w]) < Retention

Confirm(w) ==
    /\ wpc[w] = "confirm"
    /\ \E bad \in Unreadable :
         Goto(w, IF ConfirmedByFence(w) \/ NoRunSince(w, bad) THEN "ok" ELSE "pin2")
    /\ UNCHANGED <<now, repo, record, sweep, adopted, own, fstart, seenRuns,
                   pinAt, waitFor, deadline, unchecked>>

\* Confirm's re-Stat: a chunk missing now is reported, the manifest stays.
Restat(w) ==
    /\ wpc[w] = "stat2"
    /\ \E faulty \in FaultyStats(w) :
         Goto(w, IF adopted[w] \ faulty \subseteq stored THEN "ok" ELSE "swept")
    /\ UNCHANGED <<now, repo, record, sweep, adopted, own, fstart, seenRuns,
                   pinAt, waitFor, deadline, unchecked>>

\* Any storage call of the writer fails, its context ends, or it crashes.
Fail(w) ==
    /\ wpc[w] \in PreCommit \cup PostCommit
    /\ Goto(w, "failed")
    /\ UNCHANGED <<now, repo, record, sweep, adopted, own, fstart, seenRuns,
                   pinAt, waitFor, deadline, unchecked>>

WriterStep(w) ==
    \/ Begin(w)
    \/ \E c \in Chunks : AdoptChunk(w, c) \/ WriteChunk(w, c)
    \/ BeginFence(w)
    \/ WritePin(w, "pin", "list")
    \/ WritePin(w, "pin2", "list2")
    \/ ReadRuns(w, "list", "wait")
    \/ ReadRuns(w, "list2", "wait2")
    \/ \E g \in Runs : PollRun(w, g)
    \/ WaitOver(w, "wait", "stat")
    \/ WaitOver(w, "wait2", "stat2")
    \/ GiveUp(w)
    \/ VerifyAdopted(w)
    \/ Commit(w)
    \/ Confirm(w)
    \/ Restat(w)

-----------------------------------------------------------------------------
(* The sweep.                                                                *)

GoGC(g, there) == gpc' = [gpc EXCEPT ![g] = there]

\* gcRun.write: every write of the record is also a heartbeat.
WriteRecord(g, state, seq) ==
    /\ rstate' = [rstate EXCEPT ![g] = state]
    /\ rseq' = [rseq EXCEPT ![g] = seq]
    /\ rbeat' = [rbeat EXCEPT ![g] = now]

\* startGCRun: publish the run record before anything else.
StartRun(g) ==
    /\ gpc[g] = "off"
    /\ OverlappingRuns \/ \A h \in Runs : gpc[h] \notin Sweeping
    /\ GoGC(g, "walk")
    /\ gstart' = [gstart EXCEPT ![g] = now]
    /\ WriteRecord(g, "running", 0)
    /\ UNCHANGED <<now, repo, grefs, gorph, gpins, gbatch, gdeadline, writer>>

\* Mutant: neither the age floor nor the start of the run is looked at.
AnyAge(g, c) == TRUE

\* The two age tests of the chunk listing.
OldEnough(g, c) ==
    /\ mtime[c] <= gstart[g] - MinAge
    /\ mtime[c] <= gstart[g]

\* The initial walk: leases, references, and the one listing of chunks/.
Walk(g) ==
    /\ gpc[g] = "walk"
    /\ IF LeaseHeld
         THEN /\ GoGC(g, "finish")
              /\ UNCHANGED <<grefs, gorph>>
         ELSE /\ GoGC(g, "next")
              /\ grefs' = [grefs EXCEPT ![g] = Referenced]
              /\ gorph' = [gorph EXCEPT ![g] =
                             {c \in stored \ Referenced : OldEnough(g, c)}]
    /\ UNCHANGED <<now, repo, record, gstart, gpins, gbatch, gdeadline, writer>>

\* Mutant: the sweep does not wait out GCFenceSettle.
SettleSkipped(g) == TRUE

\* The settle wait before the first checkpoint.
Settled(g) == now - gstart[g] >= Settle

\* A record that lapsed may be written again only if the environment lets it.
MayBeat(g) == LapsedBeats \/ now < rbeat[g] + RunTTL

\* checkpoint, first part: publish seq + 1.  gdeadline holds the instant the
\* checkpoint began until Rescan turns it into the end of its delete window.
Advance(g) ==
    /\ gpc[g] = "next"
    /\ gorph[g] # {}
    /\ Settled(g)
    /\ now >= gdeadline[g]
    /\ MayBeat(g)
    /\ GoGC(g, "pins")
    /\ WriteRecord(g, "running", rseq[g] + 1)
    /\ gdeadline' = [gdeadline EXCEPT ![g] = now]
    /\ UNCHANGED <<now, repo, gstart, grefs, gorph, gpins, gbatch, writer>>

\* Mutant: a checkpoint that cannot be published is retried for ever.
RetriesForEver(g) == FALSE /\ UNCHANGED vars

\* "refusing to delete without the fence": the record cannot be written.
AdvanceFails(g) ==
    /\ gpc[g] = "next"
    /\ gorph[g] # {}
    /\ Settled(g)
    /\ now >= gdeadline[g]
    /\ ~MayBeat(g)
    /\ GoGC(g, "finish")
    /\ UNCHANGED <<now, repo, record, gstart, grefs, gorph, gpins, gbatch,
                   gdeadline, writer>>

\* checkpoint, second part: gcPinSet.refresh.
ReadPins(g) ==
    /\ gpc[g] = "pins"
    /\ GoGC(g, "rescan")
    /\ gpins' = [gpins EXCEPT ![g] =
                   @ \cup UNION {adopted[w] : w \in {v \in pinStored :
                                                now - pinAt[v] < PinTTL}}]
    /\ UNCHANGED <<now, repo, record, gstart, grefs, gorph, gbatch, gdeadline, writer>>

\* The delete window: at most Slice, the whole checkpoint at most 3/5 MaxWait.
Window(spent) ==
    LET left == (3 * MaxWait) \div 5 - spent
    IN  IF left < 0 THEN 0 ELSE IF left < Slice THEN left ELSE Slice

\* checkpoint, third part: leases again, then the rescan that decides.
Rescan(g) ==
    /\ gpc[g] = "rescan"
    /\ IF LeaseHeld
         THEN /\ GoGC(g, "finish")
              /\ UNCHANGED <<grefs, gdeadline>>
         ELSE /\ GoGC(g, "fresh")
              /\ grefs' = [grefs EXCEPT ![g] = @ \cup Referenced]
              /\ gdeadline' = [gdeadline EXCEPT ![g] = now + Window(now - @)]
    /\ UNCHANGED <<now, repo, record, gstart, gorph, gpins, gbatch, writer>>

\* The next slice under a checkpoint whose delete window is still open.
ReuseCheckpoint(g) ==
    /\ gpc[g] = "next"
    /\ gorph[g] # {}
    /\ now < gdeadline[g]
    /\ GoGC(g, "fresh")
    /\ UNCHANGED <<now, repo, record, gstart, grefs, gorph, gpins, gbatch,
                   gdeadline, writer>>

\* checkFresh, then take the slice off the orphan log.
CheckFresh(g) ==
    /\ gpc[g] = "fresh"
    /\ IF 2 * (now - rbeat[g]) > RunTTL
         THEN /\ GoGC(g, "finish")
              /\ UNCHANGED gbatch
         ELSE /\ GoGC(g, "delete")
              /\ \E batch \in SUBSET gorph[g] :
                   /\ \/ Cardinality(batch) = BatchSize
                      \/ batch = gorph[g] /\ Cardinality(batch) < BatchSize
                   /\ gbatch' = [gbatch EXCEPT ![g] = batch]
    /\ UNCHANGED <<now, repo, record, gstart, grefs, gorph, gpins, gdeadline, writer>>

\* One chunk of the batch: skipped when referenced or pinned, else deleted.
DeleteOne(g, c) ==
    /\ gpc[g] = "delete"
    /\ c \in gbatch[g]
    /\ gbatch' = [gbatch EXCEPT ![g] = @ \ {c}]
    /\ gorph' = [gorph EXCEPT ![g] = @ \ {c}]
    /\ stored' = IF c \in grefs[g] \cup gpins[g] THEN stored ELSE stored \ {c}
    /\ UNCHANGED <<now, mtime, live, pinStored, record, gpc, gstart, grefs,
                   gpins, gdeadline, writer>>

\* A failed delete is counted and left for the next run.
DeleteFails(g, c) ==
    /\ gpc[g] = "delete"
    /\ c \in gbatch[g]
    /\ gbatch' = [gbatch EXCEPT ![g] = @ \ {c}]
    /\ gorph' = [gorph EXCEPT ![g] = @ \ {c}]
    /\ UNCHANGED <<now, repo, record, gpc, gstart, grefs, gpins, gdeadline, writer>>

BatchDone(g) ==
    /\ gpc[g] = "delete"
    /\ gbatch[g] = {}
    /\ GoGC(g, "next")
    /\ UNCHANGED <<now, repo, record, gstart, grefs, gorph, gpins, gbatch,
                   gdeadline, writer>>

LogDrained(g) ==
    /\ gpc[g] = "next"
    /\ gorph[g] = {}
    /\ Settled(g)
    /\ GoGC(g, "finish")
    /\ UNCHANGED <<now, repo, record, gstart, grefs, gorph, gpins, gbatch,
                   gdeadline, writer>>

\* gcRun.heartbeat
Heartbeat(g) ==
    /\ gpc[g] \in Sweeping
    /\ rbeat[g] < now
    /\ MayBeat(g)
    /\ WriteRecord(g, "running", rseq[g])
    /\ UNCHANGED <<now, repo, sweep, writer>>

\* Any storage call of the sweep fails or its context ends; finish still runs.
Stop(g) ==
    /\ gpc[g] \in Sweeping
    /\ GoGC(g, "finish")
    /\ UNCHANGED <<now, repo, record, gstart, grefs, gorph, gpins, gbatch,
                   gdeadline, writer>>

\* finish: mark the record, if it can be written, and reap expired pins and old
\* records of other runs.
Finish(g) ==
    /\ gpc[g] = "finish"
    /\ GoGC(g, "done")
    /\ pinStored' = {w \in pinStored : now - pinAt[w] <= PinTTL}
    /\ \E marked \in BOOLEAN :
         /\ rstate' = [h \in Runs |->
                         CASE h = g /\ marked -> "finished"
                           [] h # g /\ ~LiveAt(h) /\ now - rbeat[h] > Retention -> "absent"
                           [] OTHER -> rstate[h]]
         /\ rbeat' = [rbeat EXCEPT ![g] = IF marked THEN now ELSE @]
    /\ UNCHANGED <<now, stored, mtime, live, rseq, gstart, grefs, gorph, gpins,
                   gbatch, gdeadline, writer>>

\* The process dies: the record is left "running".
Crash(g) ==
    /\ gpc[g] \in Sweeping \cup {"finish"}
    /\ GoGC(g, "dead")
    /\ UNCHANGED <<now, repo, record, gstart, grefs, gorph, gpins, gbatch,
                   gdeadline, writer>>

SweepStep(g) ==
    \/ StartRun(g)
    \/ Walk(g)
    \/ Advance(g)
    \/ AdvanceFails(g)
    \/ ReadPins(g)
    \/ Rescan(g)
    \/ ReuseCheckpoint(g)
    \/ CheckFresh(g)
    \/ \E c \in Chunks : DeleteOne(g, c) \/ DeleteFails(g, c)
    \/ BatchDone(g)
    \/ LogDrained(g)
    \/ Finish(g)

-----------------------------------------------------------------------------
(* The rest of the world.                                                    *)

\* Retention drops a committed manifest (tombstone past its grace); the WAL
\* sink deletes the one whose Confirm failed.
Droppable(w) ==
    wpc[w] = "ok" \/ (w \in Remembering /\ wpc[w] \in {"swept", "failed"})

Expire(w) ==
    /\ w \in live
    /\ Droppable(w)
    /\ live' = live \ {w}
    /\ UNCHANGED <<now, stored, mtime, pinStored, record, sweep, writer>>

\* A batch is deleted before the record checkFresh accepted can expire.
DeletesArePrompt(t) ==
    \A g \in Runs : gpc[g] = "delete" => t < rbeat[g] + RunTTL

\* A writer without a lease commits a chunk it wrote before gc may call it old.
OwnChunksCommitInTime(t) ==
    \A w \in Writers \ Leased : wpc[w] \in PreCommit =>
        \A c \in own[w] : t < mtime[c] + MinAge + Settle

\* A writer waits, and a sweep reads the pins, well inside a pin's life.
FencesArePrompt(t) ==
    /\ \A w \in Writers : wpc[w] \in {"list", "wait"} => 2 * (t - pinAt[w]) < PinTTL
    /\ \A g \in Runs : gpc[g] = "pins" => 2 * (t - gdeadline[g]) < PinTTL

Tick ==
    /\ now < MaxTime
    /\ StalledFences \/ FencesArePrompt(now + 1)
    /\ DeletesArePrompt(now + 1)
    /\ OwnChunksCommitInTime(now + 1)
    /\ now' = now + 1
    /\ UNCHANGED <<repo, record, sweep, writer>>

Next ==
    \/ \E w \in Writers : WriterStep(w) \/ Fail(w) \/ Expire(w)
    \/ \E g \in Runs : SweepStep(g) \/ Heartbeat(g) \/ Stop(g) \/ Crash(g)
    \/ Tick

Spec == Init /\ [][Next]_vars

\* A writer, a sweep and the clock each go on when they can.  Failures,
\* crashes and heartbeats are never promised.
Fairness ==
    /\ \A w \in Writers : WF_vars(WriterStep(w))
    /\ \A g \in Runs : WF_vars(SweepStep(g))
    /\ WF_vars(Tick)

FairSpec == Spec /\ Fairness

-----------------------------------------------------------------------------
(* Correctness.                                                              *)

\* Every variable has its type; in particular no wait of pinAndWait begins past
\* its own deadline, and what Sweep holds are chunks and runs that exist.
TypeOK ==
    /\ now \in 0 .. MaxTime
    /\ stored \subseteq Chunks
    /\ mtime \in [Chunks -> Int]
    /\ live \subseteq Writers
    /\ pinStored \subseteq Writers
    /\ rstate \in [Runs -> {"absent", "running", "finished"}]
    /\ rseq \in [Runs -> Nat]
    /\ rbeat \in [Runs -> Nat]
    /\ gpc \in [Runs -> GCPhases]
    /\ gstart \in [Runs -> Nat]
    /\ grefs \in [Runs -> SUBSET Chunks]
    /\ gorph \in [Runs -> SUBSET Chunks]
    /\ gpins \in [Runs -> SUBSET Chunks]
    /\ gbatch \in [Runs -> SUBSET Chunks]
    /\ gdeadline \in [Runs -> Nat]
    /\ wpc \in [Writers -> WriterPhases]
    /\ adopted \in [Writers -> SUBSET Chunks]
    /\ own \in [Writers -> SUBSET Chunks]
    /\ fstart \in [Writers -> Nat]
    /\ seenRuns \in [Writers -> SUBSET Runs]
    /\ pinAt \in [Writers -> Nat \cup {Never}]
    /\ waitFor \in [Writers -> [Runs -> Nat \cup {Never}]]
    /\ deadline \in [Writers -> Nat]
    /\ unchecked \subseteq Writers

\* The inductive invariant behind the two properties below.

\* A sweep that no longer sweeps, or whose record has lapsed, deletes nothing.
Harmless(g) == gpc[g] \notin Sweeping \/ ~LiveAt(g)

\* A sweep that looks at the manifests again before its next delete.
WillRescan(g) ==
    \/ gpc[g] \in {"walk", "pins", "rescan"}
    \/ gpc[g] = "next" /\ now >= gdeadline[g]

\* A sweep that publishes a new checkpoint, or reads the pins of one, first.
WillReadPins(g) ==
    \/ gpc[g] \in {"walk", "pins"}
    \/ gpc[g] = "next" /\ now >= gdeadline[g]

\* What the sweep holds in memory keeps it from deleting the chunk.
Spares(g, c) ==
    gpc[g] \notin {"off", "walk"} /\ (c \notin gorph[g] \/ c \in grefs[g] \cup gpins[g])

\* No delete of c by g before g has seen w's manifest.
Safe(g, c) == Harmless(g) \/ Spares(g, c) \/ WillRescan(g)

PinFresh(w) == pinAt[w] # Never /\ 2 * (now - pinAt[w]) < PinTTL

\* No delete of c by g: g is harmless, knows better, or is about to read w's pin.
Protected(w, g, c) ==
    \/ Harmless(g)
    \/ Spares(g, c)
    \/ gpc[g] = "pins" /\ 2 * (gdeadline[g] - pinAt[w]) < PinTTL

\* A run record that Confirm finds, or would have found had it not run so long.
Evidence(w) ==
    \E g \in Runs \ seenRuns[w] :
        /\ gpc[g] # "off" /\ fstart[w] <= rbeat[g]
        /\ rstate[g] # "absent" \/ now - fstart[w] > Retention

Fenced == {"stat", "commit", "confirm"}

\* Sweeps: the record of a sweep is on storage while it can be live, the first
\* checkpoint comes after the settle, and deletes happen under a live record.
SweepInv ==
    \A g \in Runs :
        /\ gstart[g] <= now /\ rbeat[g] <= now
        /\ gpc[g] \in {"off", "walk"} => gdeadline[g] = 0
        /\ gpc[g] = "off" => rstate[g] = "absent"
        /\ gpc[g] \in Sweeping => gstart[g] <= rbeat[g]
        /\ gpc[g] \in Sweeping /\ now < rbeat[g] + RunTTL => rstate[g] = "running"
        /\ gpc[g] \in Sweeping /\ ~Settled(g) =>
             gpc[g] = "walk" \/ (gpc[g] = "next" /\ now >= gdeadline[g])
        /\ gpc[g] = "pins" => gdeadline[g] <= now /\ 2 * (now - gdeadline[g]) < PinTTL
        /\ gpc[g] = "delete" => gbatch[g] \subseteq gorph[g] /\ now < rbeat[g] + RunTTL

\* Fences: what the writer knows of the runs, by phase.
FenceInv ==
    \A w \in Writers :
        /\ fstart[w] <= now /\ pinAt[w] <= now
        /\ pinAt[w] # Never /\ now - pinAt[w] <= PinTTL => w \in pinStored
        /\ w \in pinStored => pinAt[w] # Never
        /\ wpc[w] \in {"idle", "put", "pin"} => pinAt[w] = Never
        /\ wpc[w] \in {"list", "wait"} => PinFresh(w)
        /\ wpc[w] \in {"pin", "list", "wait", "stat"} => adopted[w] # {}
        /\ wpc[w] \in PostCommit => w \in live
        /\ w \in live => wpc[w] \in PostCommit \cup Finished
        /\ \A g \in seenRuns[w] : gpc[g] # "off"

\* A run the writer has not seen began after the fence did.
UnseenInv ==
    \A w \in Writers : adopted[w] # {} /\ wpc[w] \in {"pin", "list", "wait"} \cup Fenced =>
        \A g \in Runs \ seenRuns[w] : Harmless(g) \/ fstart[w] <= gstart[g]

\* No pin: every run seen at R1 is over.
UnpinnedInv ==
    \A w \in Writers : adopted[w] # {} /\ wpc[w] \in Fenced /\ pinAt[w] = Never =>
        \A g \in seenRuns[w] : Harmless(g)

\* A pin: every run is waited for, has the pin, will have it, or came later.
PinnedInv ==
    \A w \in Writers : wpc[w] \in {"wait"} \cup Fenced /\ pinAt[w] # Never =>
        \A g \in Runs : \A c \in adopted[w] :
            \/ Protected(w, g, c)
            \/ wpc[w] = "wait" /\ waitFor[w][g] = rseq[g]
            \/ g \notin seenRuns[w] /\ (PinFresh(w) => WillReadPins(g))

\* A chunk gone since the re-Stat is one that Confirm will look for.
EvidenceInv ==
    \A w \in Writers \ unchecked : wpc[w] \in {"commit", "confirm"} =>
        \A c \in adopted[w] \ stored :
            /\ Evidence(w)
            /\ ~PinFresh(w)
            /\ pinAt[w] = Never => now - fstart[w] > Budget

\* After the commit: a run is waited for or sees the manifest before it deletes.
CommittedInv ==
    \A w \in live : \A g \in Runs : \A c \in adopted[w] :
        /\ wpc[w] = "wait2" => Safe(g, c) \/ waitFor[w][g] = rseq[g]
        /\ wpc[w] \in {"stat2", "ok"} => Safe(g, c)

\* A commit that reported success, and whose manifest retention has not
\* dropped, references no deduplicated chunk that gc deleted: the fence
\* (pin, wait, re-Stat, Confirm) leaves no interleaving that loses one silently.
NoAdoptedChunkLost ==
    \A w \in live \ unchecked : wpc[w] = "ok" => adopted[w] \subseteq stored

AdoptedInv ==
    /\ TypeOK
    /\ SweepInv
    /\ FenceInv
    /\ UnseenInv
    /\ UnpinnedInv
    /\ PinnedInv
    /\ EvidenceInv
    /\ CommittedInv
    /\ NoAdoptedChunkLost

\* The same for the chunks the writer wrote itself, which the fence does not
\* cover: the age floor, the settle, the lease checks and "never younger than
\* the run" protect them.
NoOwnChunkLost ==
    \A w \in live : wpc[w] \in PostCommit \cup {"ok"} => own[w] \subseteq stored

\* A writer does not wait for ever: not for a sweep that crashed, not for one
\* that is stuck, not for two that keep running (pinAndWait).  The bound on
\* the clock is left out of the way.
WaitEnds ==
    \A w \in Writers :
        (wpc[w] \in {"wait", "wait2"} /\ now + MaxWait < MaxTime)
            ~> wpc[w] \notin {"wait", "wait2"}

\* A sweep that is neither stopped nor killed drains its orphan log and marks
\* its record finished.
SweepEnds ==
    \A g \in Runs :
        (gpc[g] = "walk" /\ now + Settle <= MaxTime) ~> gpc[g] \in {"done", "dead"}

\* Rule 4 of the protocol: a sweep never deletes a chunk younger than its start.
NeverDeletesYounger ==
    [][\A c \in stored \ stored' :
         \E g \in Runs : gpc[g] = "delete" /\ mtime[c] <= gstart[g]]_vars
=============================================================================
