------------------------------- MODULE WALSink -------------------------------
(***************************************************************************)
(* `wal stream`: the receive loop (pg/replication/stream.go), the segment    *)
(* pipeline it feeds (pg/walsink), the deferred durability of the chunks     *)
(* (repo/cas.go, plugin/storage/fs) and the reconnect loop around them       *)
(* (cli/wal.go), against PostgreSQL's slot, a sweeping gc, and the           *)
(* archive_command shim `wal push` (pg/walsink/push.go).                     *)
(*                                                                          *)
(* An LSN counts units of which SegSize make a segment; segment s is the     *)
(* WAL from s * SegSize on.  One timeline, one cluster.  PostgreSQL has      *)
(* written WAL up to WalEnd; that it arrives any time later is a delay of    *)
(* Receive.  gc is here only by what GCFence shows of it: it takes a chunk   *)
(* that no manifest needs, that is neither young nor pinned.                 *)
(***************************************************************************)
EXTENDS Integers, Sequences, FiniteSets, FiniteSetsExt

CONSTANTS
    SegSize,        \* units per segment
    Segs,           \* the segments PostgreSQL has completed or begun
    Chunks,         \* chunk hashes
    Content,        \* Content[s]: what the chunker makes of segment s
    SlotStart,      \* the slot's restart_lsn when the stream is first set up
    WalEnd,         \* the WAL PostgreSQL has written
    Busy,           \* and goes on writing, though no further segment is looked at
    MaxRecord,      \* longest XLogData record
    Depth,          \* pipelineDepthFor(segSize): buffers, and jobs in the channel
    BatchCap,       \* batchCap
    MaxNoProgress,  \* maxNoProgressAttempts
    SyncFS,         \* Barrier is one syncfs (barrier_linux.go), not an fsync per file
    Worlds,         \* what may go wrong: sets of fault names, one is chosen
    MaxFaults       \* bound on how often something goes wrong

FaultNames == {"break",     \* the connection ends, or PostgreSQL closes it
               "skip",      \* the walsender sends WAL from elsewhere
               "storage",   \* a call of the storage plugin fails
               "stat",      \* a Stat fails, and not because nothing is there
               "ack",       \* a manifest is committed and the call fails
               "sweep",     \* gc runs
               "overrun",   \* a commit outlasts the fence's budget, and gc may outlive the fence
               "crash",     \* the process dies
               "power",     \* the repository's host loses power
               "unordered", \* and its file system does not keep directory updates in order
               "lost",      \* PostgreSQL removes WAL the slot should have kept
               "push",      \* archive_command pushes segments too
               "stop"}      \* the operator stops the stream

ASSUME SinkAssumption ==
    /\ SegSize \in Nat \ {0} /\ Segs \subseteq Nat \ {0}
    /\ Content \in [Segs -> SUBSET Chunks]
    /\ SlotStart \in Nat /\ WalEnd \in Nat /\ SlotStart <= WalEnd
    /\ SlotStart \div SegSize .. WalEnd \div SegSize \subseteq Segs
    /\ {MaxRecord, Depth, BatchCap, MaxNoProgress} \subseteq Nat \ {0}
    /\ {Busy, SyncFS} \subseteq BOOLEAN
    /\ Worlds \subseteq SUBSET FaultNames
    /\ MaxFaults \in Nat

VARIABLES
    world, faults,
    slot,       \* restart_lsn: PostgreSQL keeps the WAL from its segment on
    removed,    \* but has removed what is below this
    \* the repository
    committed,  \* segments whose manifest is at its key
    stored,     \* chunks at their key
    solid,      \* chunks whose bytes are on stable storage
    linked,     \* chunks whose directory entry is on stable storage
    torn,       \* chunks at their key that lost their bytes
    \* the process: the storage plugin and the CAS, shared by all attempts
    deferred,   \* Plugin.deferred
    staged,     \* of these, the ones whose staging file is there
    flushed,    \* and of these, the ones whose bytes are on stable storage
    seen,       \* CAS.seen
    fresh,      \* of these, the ones it wrote less than seenWriteTrust ago
    adopted,    \* CAS.adopted
    noProgress, lastProgress,   \* streamRetryPolicy
    \* one streamAttempt: the receive loop
    spc, asked, next, at, left, haveSeg, streamErr,
    \* and its Sink's processor
    ppc, free, pending, closed, batch, cur, todo, pos, failed, synced, pins

repository == <<committed, stored, solid, linked, torn>>
plugin == <<deferred, staged, flushed>>
cas == <<seen, fresh, adopted>>
policy == <<noProgress, lastProgress>>
receiver == <<spc, asked, next, at, left, haveSeg, streamErr>>
queue == <<free, pending, closed>>
processor == <<ppc, batch, cur, todo, pos, failed, synced, pins>>
vars == <<world, faults, slot, removed, repository, plugin, cas, policy, receiver, queue, processor>>

None == 0       \* no LSN, no segment

SegOf(lsn) == lsn \div SegSize
StartOf(s) == s * SegSize
EndOf(s) == (s + 1) * SegSize
Floor(lsn) == StartOf(SegOf(lsn))

Base == SegOf(SlotStart)

\* Segments chunked and not yet committed.
InFlight == Range(batch) \cup ({cur} \ {None})

Held == UNION {Content[s] : s \in InFlight}

Streaming == {"recv", "copy", "hand"}

ReceiverPhases == Streaming \cup {"down", "close", "over", "stopped"}
ProcessorPhases == {"wait", "chunk", "sync", "link", "sync2", "fence", "verify",
                    "commit", "confirm", "advance", "done"}

Init ==
    /\ world \in Worlds
    /\ faults = 0
    /\ slot = SlotStart /\ removed = 0
    /\ committed = {}
    /\ stored \in SUBSET Chunks /\ solid = stored /\ linked = stored /\ torn = {}
    /\ deferred = {} /\ staged = {} /\ flushed = {}
    /\ seen = {} /\ fresh = {} /\ adopted = {}
    /\ noProgress = 0 /\ lastProgress = None
    /\ spc = "down" /\ asked = None /\ next = None /\ at = None /\ left = 0
    /\ haveSeg = FALSE /\ streamErr = "none"
    /\ ppc = "done" /\ free = Depth /\ pending = <<>> /\ closed = FALSE
    /\ batch = <<>> /\ cur = None /\ todo = {} /\ pos = 1
    /\ failed = FALSE /\ synced = None /\ pins = {}

\* One more thing goes wrong.
Fault(name) ==
    /\ name \in world
    /\ faults < MaxFaults
    /\ faults' = faults + 1
    /\ UNCHANGED <<world, removed>>

NoFault == UNCHANGED <<world, faults, removed>>

\* An fsync of a directory entry covers the entries made before it.
Journaled == "unordered" \notin world

-----------------------------------------------------------------------------
(* streamAttempt: setting up, and the receive loop.                          *)

\* Mutant: resolveStartLSN aligns a fresh start up.
AlignedUp == EndOf(SegOf(slot))

\* resolveStartLSN: behind the highest committed segment, or where the slot is.
ResumeLSN ==
    IF committed # {} THEN EndOf(Max(committed)) ELSE Floor(slot)

\* WAL below the slot's segment is gone: decideStreamStop, wal.start_before_...
WalRemoved == ResumeLSN < Floor(slot) \/ ResumeLSN < removed

\* ensureSlot, resolveStartLSN, walsink.New, START_REPLICATION and the first
\* status update, which claims nothing.
Connect ==
    /\ spc = "down"
    /\ ~WalRemoved
    /\ spc' = "recv" /\ asked' = ResumeLSN /\ next' = None /\ at' = None /\ left' = 0
    /\ haveSeg' = FALSE /\ streamErr' = "none"
    /\ ppc' = "wait" /\ free' = Depth /\ pending' = <<>> /\ closed' = FALSE
    /\ batch' = <<>> /\ cur' = None /\ todo' = {} /\ pos' = 1
    /\ failed' = FALSE /\ synced' = None /\ pins' = {}
    /\ NoFault
    /\ UNCHANGED <<slot, repository, plugin, cas, policy>>

\* The walsender refuses: wal stream stops, for the operator to look at.
Refused ==
    /\ spc = "down"
    /\ WalRemoved
    /\ spc' = "stopped"
    /\ NoFault
    /\ UNCHANGED <<slot, repository, plugin, cas, policy, asked, next, at, left, haveSeg,
                   streamErr, queue, processor>>

\* Stream returns err and the attempt closes its sink.
EndStream(err) ==
    /\ spc' = "close" /\ closed' = TRUE
    /\ streamErr' = err

\* Mutant: the opening record is taken wherever it begins.
AnyOpening(p) == TRUE

\* checkOpeningRecord: the first record may not begin after what was asked for.
OpeningRecordOK(p) == next = None => p <= asked

\* After the first, a record begins where the one before ended.
Contiguous(p) == next # None => p = next

\* OnRecord's loop: room in the current segment, and at the expected offset.
OffsetOK(p) == IF haveSeg THEN p = next ELSE p = Floor(p)

\* Where the next record begins.
OnCourse == IF next = None THEN asked ELSE next

\* The guards of OnRecord before it buffers anything.  A failed pipeline is
\* reported by the next record.
Receive(p, n) ==
    /\ spc = "recv"
    /\ p + n <= WalEnd \/ (Busy /\ failed)
    /\ IF p = OnCourse THEN NoFault ELSE p >= Floor(slot) /\ Fault("skip")
    /\ IF failed
         THEN EndStream("sink") /\ UNCHANGED <<at, left>>
         ELSE IF OpeningRecordOK(p) /\ Contiguous(p) /\ OffsetOK(p)
                THEN /\ at' = p /\ left' = n
                     /\ spc' = "copy"
                     /\ UNCHANGED <<streamErr, closed>>
                ELSE EndStream("gap") /\ UNCHANGED <<at, left>>
    /\ UNCHANGED <<slot, repository, plugin, cas, policy, asked, next, haveSeg, free, pending, processor>>

\* startSegment waits for a buffer of the pool when there is no current segment.
HaveBuffer == haveSeg \/ free > 0

\* startSegment if need be; then as much of the record as the segment has room
\* for is copied.
Copy ==
    /\ spc = "copy"
    /\ HaveBuffer
    /\ free' = IF haveSeg THEN free ELSE free - 1
    /\ LET n == Min({left, EndOf(SegOf(at)) - at})
           full == at + n = EndOf(SegOf(at))
       IN /\ at' = at + n
          /\ next' = at + n
          /\ left' = left - n
          /\ haveSeg' = TRUE
          /\ spc' = IF full THEN "hand" ELSE "recv"
    /\ NoFault
    /\ UNCHANGED <<slot, repository, plugin, cas, policy, asked, streamErr, pending, closed, processor>>

\* handOff: waits for room in the channel.
HandOff ==
    /\ spc = "hand"
    /\ Len(pending) < Depth
    /\ pending' = Append(pending, SegOf(at - 1))
    /\ haveSeg' = FALSE
    /\ spc' = IF left > 0 THEN "copy" ELSE "recv"
    /\ NoFault
    /\ UNCHANGED <<slot, repository, plugin, cas, policy, asked, next, at, left, streamErr,
                   free, closed, processor>>

\* Receive fails, the inactivity watchdog fires, a status update cannot be
\* sent, the server ends the COPY, or a primary that shuts down only sends
\* keepalives.  A blocked OnRecord is woken by its context.
StreamBreaks ==
    /\ spc \in Streaming
    /\ Fault("break")
    /\ EndStream("break")
    /\ UNCHANGED <<slot, repository, plugin, cas, policy, asked, next, at, left, haveSeg,
                   free, pending, processor>>

\* installSignalCancel: the stream's context is cancelled, the repository's is not.
Stop ==
    /\ spc \in Streaming
    /\ Fault("stop")
    /\ EndStream("canceled")
    /\ UNCHANGED <<slot, repository, plugin, cas, policy, asked, next, at, left, haveSeg,
                   free, pending, processor>>

\* Mutant: the status update reports what was received as flushed.
ReceivedLSN == next

\* What a status update gives as flushed.
FlushLSN == synced

\* sendStatusUpdate, on the ticker, on request and when the stream starts; the
\* slot follows the flush position, and 0 moves nothing.
SendStatus ==
    /\ spc \in Streaming
    /\ FlushLSN # None
    /\ slot' = FlushLSN
    /\ NoFault
    /\ UNCHANGED <<repository, plugin, cas, policy, receiver, queue, processor>>

\* Close has returned: a processing error counts unless the stream had its own.
Closed ==
    /\ spc = "close"
    /\ ppc = "done"
    /\ spc' = "over"
    /\ streamErr' = IF failed /\ streamErr = "canceled" THEN "sink" ELSE streamErr
    /\ NoFault
    /\ UNCHANGED <<slot, repository, plugin, cas, policy, asked, next, at, left, haveSeg,
                   queue, processor>>

\* streamRetryPolicy.decide: reconnect, unless stopped or five attempts in a
\* row archived nothing.
Decide ==
    /\ spc = "over"
    /\ IF streamErr = "canceled"
         THEN spc' = "stopped" /\ UNCHANGED policy
         ELSE LET progress == synced > lastProgress
              IN /\ noProgress' = IF progress THEN 0 ELSE noProgress + 1
                 /\ lastProgress' = IF progress THEN synced ELSE lastProgress
                 /\ spc' = IF noProgress' >= MaxNoProgress THEN "stopped" ELSE "down"
    /\ NoFault
    /\ UNCHANGED <<slot, repository, plugin, cas, asked, next, at, left, haveSeg, streamErr,
                   queue, processor>>

-----------------------------------------------------------------------------
(* The processor goroutine, Sink.run.                                        *)

\* procErrStore; the loop goes on draining.
Fail ==
    /\ failed' = TRUE
    /\ ppc' = "wait"
    /\ cur' = None /\ todo' = {} /\ pins' = {}

\* Mutant: a failed processor stops taking jobs.
TakesUnlessFailed == ~failed

\* The loop takes a job whether or not the pipeline has failed.
TakesJobs == TRUE

\* The buffer goes back to the pool: at once when the pipeline has failed,
\* else as soon as the chunker has cut the segment up.
TakeJob ==
    /\ ppc = "wait"
    /\ TakesJobs
    /\ pending # <<>>
    /\ pending' = Tail(pending)
    /\ free' = free + 1
    /\ IF failed
         THEN UNCHANGED <<ppc, cur, todo>>
         ELSE /\ ppc' = "chunk"
              /\ cur' = Head(pending)
              /\ todo' = Content[Head(pending)]
    /\ NoFault
    /\ UNCHANGED <<slot, repository, plugin, cas, policy, receiver, closed, batch, pos, failed,
                   synced, pins>>

\* Mutant: a hit in the cache vouches for the chunk.
TrustsCache(c) == c \notin seen

\* A chunk this CAS did not write a moment ago is adopted.
Adopts(c) == ~(c \in seen /\ c \in fresh)

\* CAS.PutChunk: a hit in the cache is adopted unless this CAS wrote the chunk
\* a moment ago; a chunk at its key is adopted; else it is written: staged by
\* putDeferred, and under its key only after the next Barrier.
PutChunk(c) ==
    /\ ppc = "chunk"
    /\ c \in todo
    /\ todo' = todo \ {c}
    /\ seen' = seen \cup {c}
    /\ \/ /\ c \in seen \/ c \in stored
          /\ adopted' = IF Adopts(c) THEN adopted \cup {c} ELSE adopted
          /\ UNCHANGED <<plugin, fresh>>
       \/ /\ c \notin seen /\ c \notin stored
          /\ deferred' = deferred \cup {c}
          /\ staged' = staged \cup {c}
          /\ UNCHANGED flushed
          /\ fresh' = fresh \cup {c}
          /\ UNCHANGED adopted
    /\ NoFault
    /\ UNCHANGED <<slot, repository, policy, receiver, queue, ppc, batch, cur, pos,
                   failed, synced, pins>>

\* run: with nothing else queued, or a full batch, flush.
Chunked ==
    /\ ppc = "chunk"
    /\ todo = {}
    /\ batch' = Append(batch, cur)
    /\ cur' = None
    /\ ppc' = IF Len(batch) + 1 >= BatchCap \/ pending = <<>> THEN "sync" ELSE "wait"
    /\ NoFault
    /\ UNCHANGED <<slot, repository, plugin, cas, policy, receiver, queue, todo, pos, failed,
                   synced, pins>>

\* Mutant: Barrier links what it has not made durable.
NoFirstSync == flushed

\* What the first part of Barrier makes durable.
BytesSynced == flushed \cup staged

\* Barrier, first part: the staged bytes become durable.  With an empty list
\* it returns at once.
Sync ==
    /\ ppc = "sync"
    /\ flushed' = BytesSynced
    /\ ppc' = IF deferred = {} THEN "fence" ELSE "link"
    /\ pos' = 1
    /\ NoFault
    /\ UNCHANGED <<slot, repository, deferred, staged, cas, policy, receiver, queue,
                   batch, cur, todo, failed, synced, pins>>

\* publishDeferred for the entries done: the staged chunks appear under their
\* keys, unless they are there, and the staging files go.
Publish(done) ==
    /\ stored' = stored \cup (done \cap staged)
    /\ solid' = solid \cup ((done \cap flushed) \ stored)
    /\ staged' = staged \ done
    /\ flushed' = flushed \ done

\* An entry whose staging file is gone, on a retry, must be under its key.
Publishable == deferred \cap (staged \cup stored)

Link ==
    /\ ppc = "link"
    /\ Publishable = deferred
    /\ Publish(deferred)
    /\ ppc' = "sync2"
    /\ NoFault
    /\ UNCHANGED <<slot, committed, linked, torn, deferred, cas, policy, receiver, queue,
                   batch, cur, todo, pos, failed, synced, pins>>

\* What the last part of Barrier makes durable: everything, where it is one
\* syncfs; elsewhere the directories of this barrier's own list.
LinksSynced == IF SyncFS THEN stored ELSE linked \cup deferred

Sync2 ==
    /\ ppc = "sync2"
    /\ linked' = LinksSynced
    /\ deferred' = {}
    /\ ppc' = "fence"
    /\ NoFault
    /\ UNCHANGED <<slot, committed, stored, solid, torn, staged, flushed, cas, policy,
                   receiver, queue, batch, cur, todo, pos, failed, synced, pins>>

\* Either syncfs fails: the whole list is queued again.
BarrierFails ==
    /\ ppc \in {"sync", "sync2"}
    /\ Fault("storage")
    /\ Fail
    /\ UNCHANGED <<slot, repository, plugin, cas, policy, receiver, queue, batch, pos, synced>>

\* A link fails, or an entry is in neither place ("staging temp vanished and
\* final absent"): the entries before it are published, the others queued again.
LinkFails ==
    /\ ppc = "link"
    /\ \E done \in SUBSET Publishable \ {deferred} : Publish(done) /\ deferred' = deferred \ done
    /\ IF Publishable = deferred THEN Fault("storage") ELSE NoFault
    /\ Fail
    /\ UNCHANGED <<slot, committed, linked, torn, cas, policy, receiver, queue, batch, pos, synced>>

\* commitManifest, BeginCommitFence: gc is kept from the adopted chunks.
Fence ==
    /\ ppc = "fence"
    /\ pins' = Content[batch[pos]] \cap adopted
    /\ ppc' = "verify"
    /\ NoFault
    /\ UNCHANGED <<slot, repository, plugin, cas, policy, receiver, queue, batch, cur, todo, pos,
                   failed, synced>>

\* CAS.ForgetChunk
ForgetChunk(gone) ==
    /\ seen' = seen \ gone
    /\ fresh' = fresh \ gone
    /\ adopted' = adopted \ gone

\* verifyAdoptedSegmentRefs: a chunk that is gone refuses the commit.
Verify ==
    /\ ppc = "verify"
    /\ \/ /\ pins \subseteq stored
          /\ ppc' = "commit"
          /\ UNCHANGED <<cas, cur, todo, failed, pins>>
       \/ \E c \in pins \ stored : ForgetChunk({c}) /\ Fail
    /\ NoFault
    /\ UNCHANGED <<slot, repository, plugin, policy, receiver, queue, batch, pos, synced>>

\* A Stat that fails otherwise than with ErrNotFound passes: the commit goes
\* on, though that chunk may be gone.
VerifyBlind ==
    /\ ppc = "verify"
    /\ pins # {}
    /\ Fault("stat")
    /\ ppc' = "commit"
    /\ UNCHANGED <<slot, repository, plugin, cas, policy, receiver, queue, batch, cur, todo, pos,
                   failed, synced, pins>>

\* CommitExclusive.  A manifest that is there already is the same one: one
\* cluster, and a segment has one content (verifyExistingManifest).  Where the
\* file system orders its directory updates, the fsync covers older links.
CommitEffect ==
    /\ committed' = committed \cup {batch[pos]}
    /\ linked' = IF Journaled THEN stored ELSE linked
    /\ UNCHANGED <<stored, solid, torn>>

Commit ==
    /\ ppc = "commit"
    /\ CommitEffect
    /\ ppc' = "confirm"
    /\ NoFault
    /\ UNCHANGED <<slot, plugin, cas, policy, receiver, queue, batch, cur, todo, pos, failed,
                   synced, pins>>

\* The put lands and its answer does not.
CommitUnanswered ==
    /\ ppc = "commit"
    /\ Fault("ack")
    /\ CommitEffect
    /\ Fail
    /\ UNCHANGED <<slot, plugin, cas, policy, receiver, queue, batch, pos, synced>>

\* releaseAdoptedRefs: what no later segment of the batch shares.
ReleasedRefs ==
    Content[batch[pos]] \ UNION {Content[batch[i]] : i \in pos + 1 .. Len(batch)}

\* The fence is done with: the segment counts as archived.
Confirmed ==
    /\ ppc' = "advance"
    /\ adopted' = adopted \ ReleasedRefs
    /\ pins' = {}
    /\ UNCHANGED <<committed, seen, fresh, cur, todo, failed>>

\* The manifest is removed, if that does not fail, and the chunks are forgotten.
TakeBack(removes) ==
    /\ committed' = IF removes THEN committed \ {batch[pos]} ELSE committed
    /\ ForgetChunk(pins)
    /\ Fail

\* Confirm returns at once while the pin is fresh, or the commit within its
\* budget; one that took longer looks, with adopted chunks, whether gc took
\* one after all.  (A commit in time is one over which gc takes nothing.)
Looks == "overrun" \in world /\ pins # {}

Confirm ==
    /\ ppc = "confirm"
    /\ IF Looks => pins \subseteq stored THEN Confirmed ELSE TakeBack(TRUE)
    /\ NoFault
    /\ UNCHANGED <<slot, stored, solid, linked, torn, plugin, policy, receiver, queue, batch, pos,
                   synced>>

\* Here too a Stat that fails otherwise than with ErrNotFound passes.
ConfirmBlind ==
    /\ ppc = "confirm"
    /\ Looks
    /\ Fault("stat")
    /\ Confirmed
    /\ UNCHANGED <<slot, stored, solid, linked, torn, plugin, policy, receiver, queue, batch, pos,
                   synced>>

\* Confirm cannot read the run records, or waits in vain for gc: the manifest
\* goes too; or the manifest that is taken back cannot be removed.
ConfirmFails ==
    /\ ppc = "confirm"
    /\ Looks
    /\ Fault("storage")
    /\ \E removes \in BOOLEAN : TakeBack(removes)
    /\ UNCHANGED <<slot, stored, solid, linked, torn, plugin, policy, receiver, queue, batch, pos,
                   synced>>

\* SyncedLSN moves, and the next segment of the batch is committed.
Advance ==
    /\ ppc = "advance"
    /\ synced' = EndOf(batch[pos])
    /\ IF pos < Len(batch)
         THEN pos' = pos + 1 /\ ppc' = "fence" /\ UNCHANGED batch
         ELSE pos' = 1 /\ ppc' = "wait" /\ batch' = <<>>
    /\ NoFault
    /\ UNCHANGED <<slot, repository, plugin, cas, policy, receiver, queue, cur, todo, failed, pins>>

\* PutChunk, the fence or the commit fails, or Close's context ended (a second
\* signal): the batch is dropped.
StepFails ==
    /\ ppc \in {"chunk", "fence", "commit"}
    /\ Fault("storage")
    /\ Fail
    /\ UNCHANGED <<slot, repository, plugin, cas, policy, receiver, queue, batch, pos, synced>>

\* The channel is closed and drained: flush what is left, and return.
Drained ==
    /\ ppc = "wait"
    /\ closed /\ pending = <<>>
    /\ ppc' = IF ~failed /\ batch # <<>> THEN "sync" ELSE "done"
    /\ NoFault
    /\ UNCHANGED <<slot, repository, plugin, cas, policy, receiver, queue, batch, cur, todo, pos,
                   failed, synced, pins>>

-----------------------------------------------------------------------------
(* Everyone else.                                                            *)

\* seenWriteTrust has passed; gc's age floor leaves the segments that relied
\* on the write the time to commit.
Age(c) ==
    /\ c \in fresh
    /\ c \notin Held
    /\ fresh' = fresh \ {c}
    /\ NoFault
    /\ UNCHANGED <<slot, repository, plugin, seen, adopted, policy, receiver, queue, processor>>

\* The manifest a gc that outlived the fence has not read.
Unread == IF "overrun" \in world /\ ppc = "confirm" THEN {batch[pos]} ELSE {}

Referenced(ss) == UNION {Content[s] : s \in ss}

\* repo gc --apply deletes an orphan.
Sweep(c) ==
    /\ Fault("sweep")
    /\ c \in stored \ fresh
    /\ c \notin Referenced(committed \ Unread)
    /\ "overrun" \notin world => c \notin pins
    /\ stored' = stored \ {c} /\ solid' = solid \ {c}
    /\ linked' = linked \ {c} /\ torn' = torn \ {c}
    /\ UNCHANGED <<slot, committed, plugin, cas, policy, receiver, queue, processor>>

\* PushSegmentFile by another process, from the segment PostgreSQL's archiver
\* begins with: a CAS of its own, every write durable when it returns.
PushSegment(s) ==
    /\ Fault("push")
    /\ s \notin committed
    /\ SegOf(slot) <= s /\ EndOf(s) <= WalEnd
    /\ s - 1 \in committed \/ s = Base
    /\ committed' = committed \cup {s}
    /\ stored' = stored \cup Content[s]
    /\ solid' = solid \cup (Content[s] \ stored)
    /\ linked' = IF Journaled THEN stored' ELSE linked \cup (Content[s] \ stored)
    /\ UNCHANGED <<slot, torn, plugin, cas, policy, receiver, queue, processor>>

\* The slot of an archive that has been begun is dropped, or invalidated by
\* max_slot_wal_keep_size: what it pinned goes.
LoseWAL ==
    /\ "lost" \in world /\ faults < MaxFaults
    /\ spc = "down"
    /\ committed # {}
    /\ removed' = Floor(WalEnd) /\ faults' = faults + 1
    /\ UNCHANGED <<world, slot, repository, plugin, cas, policy, receiver, queue, processor>>

\* The process is gone with all it remembers; the operator's supervisor
\* starts another.  Stopped or dead, the restart is the same.
Forget ==
    /\ deferred' = {} /\ staged' = {} /\ flushed' = {}
    /\ seen' = {} /\ fresh' = {} /\ adopted' = {}
    /\ noProgress' = 0 /\ lastProgress' = None
    /\ spc' = "down" /\ asked' = None /\ next' = None /\ at' = None /\ left' = 0
    /\ haveSeg' = FALSE /\ streamErr' = "none"
    /\ ppc' = "done" /\ free' = Depth /\ pending' = <<>> /\ closed' = FALSE
    /\ batch' = <<>> /\ cur' = None /\ todo' = {} /\ pos' = 1
    /\ failed' = FALSE /\ synced' = None /\ pins' = {}

Crash ==
    /\ Fault("crash")
    /\ Forget
    /\ UNCHANGED <<slot, repository>>

\* The host of the repository and of the streamer loses power: entries that
\* were not synced may be lost, and entries over bytes that were not are torn.
PowerLoss ==
    /\ Fault("power")
    /\ \E kept \in SUBSET stored :
         /\ stored \cap linked \subseteq kept
         /\ stored' = kept
         /\ linked' = kept
         /\ torn' = kept \ solid
         /\ solid' = solid \cap kept
    /\ Forget
    /\ UNCHANGED <<slot, committed>>

\* The operator starts a stream that stopped.
Restart ==
    /\ spc = "stopped"
    /\ ~WalRemoved
    /\ Forget
    /\ NoFault
    /\ UNCHANGED <<slot, repository>>

\* Where a record may begin: on course, or where a walsender gone astray goes on.
Positions == {OnCourse, OnCourse - SegSize, OnCourse + 1, OnCourse + SegSize}

Receiver ==
    \/ Connect
    \/ Refused
    \/ \E p \in Positions, n \in 1 .. MaxRecord : Receive(p, n)
    \/ Copy
    \/ HandOff
    \/ Closed
    \/ Decide

Processor ==
    \/ TakeJob
    \/ \E c \in Chunks : PutChunk(c)
    \/ Chunked
    \/ Sync
    \/ Link
    \/ Sync2
    \/ Fence
    \/ Verify
    \/ Commit
    \/ Confirm
    \/ Advance
    \/ Drained

Environment ==
    \/ StreamBreaks
    \/ Stop
    \/ BarrierFails
    \/ LinkFails
    \/ VerifyBlind
    \/ CommitUnanswered
    \/ ConfirmBlind
    \/ ConfirmFails
    \/ StepFails
    \/ \E c \in Chunks : Age(c) \/ Sweep(c)
    \/ \E s \in Segs : PushSegment(s)
    \/ LoseWAL
    \/ Crash
    \/ PowerLoss
    \/ Restart

Next == Receiver \/ SendStatus \/ Processor \/ Environment

Spec == Init /\ [][Next]_vars

-----------------------------------------------------------------------------
(* Properties.                                                               *)

\* Every variable has its type; in particular neither the buffers of the pool,
\* the channel nor a batch ever exceed their sizes.
TypeOK ==
    /\ world \in Worlds /\ faults \in 0 .. MaxFaults
    /\ slot \in SlotStart .. WalEnd /\ removed \in 0 .. WalEnd
    /\ committed \subseteq Segs
    /\ \A part \in {stored, solid, linked, torn, deferred, staged, flushed, seen, fresh, adopted, todo, pins} :
         part \subseteq Chunks
    /\ noProgress \in 0 .. MaxNoProgress
    /\ {lastProgress, asked, next, at, synced} \subseteq 0 .. WalEnd + SegSize
    /\ left \in 0 .. MaxRecord
    /\ spc \in ReceiverPhases /\ ppc \in ProcessorPhases
    /\ {haveSeg, closed, failed} \subseteq BOOLEAN
    /\ streamErr \in {"none", "sink", "gap", "break", "canceled"}
    /\ free \in 0 .. Depth
    /\ pending \in Seq(Segs) /\ Len(pending) <= Depth
    /\ batch \in Seq(Segs) /\ Len(batch) <= BatchCap
    /\ cur \in Segs \cup {None} /\ pos \in 1 .. BatchCap

\* A segment that a restore gets back, whatever happens to the power.
Durable(s) ==
    /\ s \in committed
    /\ Content[s] \subseteq (stored \cap solid \cap linked) \ torn

\* PostgreSQL keeps no WAL below the slot's segment.  Every segment it may
\* have dropped is committed, and all its chunks are under their keys, bytes
\* and directory entries on stable storage: flushBatch's Barrier comes before
\* its commits, a commit before SyncedLSN, SyncedLSN before the status update,
\* over reconnects, crashes and a gc.
SlotCovered ==
    \A s \in Segs : Base <= s /\ EndOf(s) <= slot => Durable(s)

\* A segment manifest whose commit is over never refers to a chunk that gc
\* deleted: the refs a batch shares stay adopted until the last of its
\* segments has been verified (releaseAdoptedRefs), and a commit that gc
\* overran is taken back.  (Where gc meets failing Stats it may: see SafeWorlds
\* in WALSinkProofs.)
NoDanglingSegment ==
    \A s \in committed :
       Content[s] \subseteq stored \ torn \/ (ppc = "confirm" /\ s = batch[pos])

\* The archive has no hole, though the walsender may skip and every attempt
\* resumes behind the HIGHEST committed segment: OnRecord's opening and
\* contiguity checks, and commits in ascending order.
NoHole == \A s \in committed : s = Base \/ s - 1 \in committed

ArchivedLSN == StartOf(Min({s \in Base .. SegOf(WalEnd) + 1 : ~Durable(s)}))

Log == INSTANCE DurableLog WITH
    Base <- StartOf(Base), End <- Floor(WalEnd), archived <- ArchivedLSN, given <- Floor(slot)

\* `wal stream` is a durable log: the slot moves only over what is archived
\* in order and for good.
IsDurableLog == Log!Safe

-----------------------------------------------------------------------------
(* Fairness: the goroutines of the process run, the ticker ticks, the        *)
(* reconnect loop retries, and the unit that deploy/systemd ships starts a   *)
(* stream that stopped again (Restart=always).  Nothing else is asked of the *)
(* environment.                                                              *)

Fairness ==
    /\ WF_vars(Receiver) /\ WF_vars(Processor) /\ WF_vars(LinkFails)
    /\ WF_vars(SendStatus) /\ WF_vars(Restart)

LiveSpec == Spec /\ Fairness

\* After finitely many faults every completed segment is archived, for good,
\* unless PostgreSQL has lost it: then the stream stops and says so, and does
\* not go on behind the hole (NoHole).
AllArchived == "lost" \notin world => Log!AllKept

\* Nobody is blocked for ever: a receiver that waits for a buffer or for room
\* in the channel goes on or gives up, and Close returns, since a processor
\* that failed goes on taking jobs (Sink.run).
NobodyBlocked ==
    /\ spc \in {"copy", "hand"} ~> spc \notin {"copy", "hand"}
    /\ spc = "close" ~> spc # "close"
====
