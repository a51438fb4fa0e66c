---------------------------- MODULE WALSinkProofs ----------------------------
(* What WALSink promises, proved for every number of segments, of chunks and  *)
(* of faults.                                                                 *)
EXTENDS WALSink, TLAPS

(***************************************************************************)
(* The worlds the theorems speak of.  Where gc outlives the commit fence,    *)
(* nothing comes between a commit and its Confirm, a manifest that is taken  *)
(* back is removed, and archive_command does not push segments behind it.    *)
(* Where the file system does not keep directory updates in order, a barrier *)
(* that was begun is finished, and nobody else relies on its links. Where gc *)
(* runs, Stats do not fail: verifyAdoptedSegmentRefs and Confirm take a Stat *)
(* that fails for a chunk that is there.                                     *)
(***************************************************************************)
SafeWorld(w) ==
    /\ "overrun" \in w => {"ack", "crash", "power", "push"} \cap w = {}
    /\ "unordered" \in w => {"storage", "crash", "push"} \cap w = {}
    /\ {"sweep", "overrun"} \subseteq w => "storage" \notin w
    /\ "sweep" \in w => "stat" \notin w

SafeWorlds == \A w \in Worlds : SafeWorld(w)

-----------------------------------------------------------------------------
(* The chunks.                                                               *)

Committing == {"fence", "verify", "commit", "confirm", "advance"}

\* The segment whose manifest Confirm has yet to vouch for.
Unconfirmed(s) == "overrun" \in world /\ ppc = "confirm" /\ s = batch[pos]

\* What is at its key has its bytes on stable storage.
BytesInv == stored \subseteq solid /\ torn = {}

\* What is staged is on Barrier's list, and flushed by the time it is linked.
StagingInv ==
    /\ flushed \subseteq staged /\ staged \subseteq deferred
    /\ ppc = "link" => flushed = staged
    /\ ppc \in {"sync2"} \cup Committing => staged = {}
    /\ ppc \in Committing => deferred = {}

\* A chunk this CAS wrote a moment ago is staged or at its key.
FreshInv == fresh \subseteq seen /\ fresh \subseteq staged \cup stored

\* An adopted chunk is known to the CAS, and without a gc it is still there.
SeenInv ==
    /\ adopted \subseteq seen
    /\ "sweep" \notin world => seen \subseteq staged \cup stored

\* The first segment of the batch that is yet to be committed.
First == IF ppc = "advance" THEN pos + 1 ELSE pos

\* Every chunk of a segment in flight was written a moment ago, or is adopted.
HeldInv ==
    ~failed =>
        /\ \A i \in First .. Len(batch) : Content[batch[i]] \subseteq fresh \cup adopted
        /\ ppc = "chunk" => Content[cur] \ todo \subseteq fresh \cup adopted

\* The fence holds the adopted ones, and a gc respects it unless it overruns.
PinInv ==
    /\ ppc \in {"verify", "commit", "confirm"} => pins = Content[batch[pos]] \cap adopted
    /\ ppc \in {"commit", "confirm"} /\ ~ {"overrun", "sweep"} \subseteq world => pins \subseteq stored

\* Directory entries that are not on stable storage.
LinkInv ==
    /\ ppc \in {"confirm", "advance"} => stored \subseteq linked
    /\ "unordered" \in world =>
         stored \subseteq linked \cup (IF ppc = "sync2" THEN deferred ELSE {})
    /\ "storage" \notin world /\ ppc # "sync2" => deferred \subseteq staged

\* A committed segment is there for good.
KeptInv ==
    \A s \in committed : Unconfirmed(s) \/ Content[s] \subseteq stored \cap linked

\* Where the two goroutines can be, and how full the pipeline is.
PhaseInv ==
    /\ spc \in {"down", "over", "stopped"} => ppc = "done"
    /\ ppc = "done" => spc \notin Streaming
    /\ ppc # "done" => (closed <=> spc = "close")
    /\ failed => ppc \in {"wait", "done"}
    /\ ppc \in {"wait", "chunk", "sync", "link", "sync2"} /\ ~failed => pos = 1
    /\ ppc \in {"wait", "chunk"} /\ ~failed => Len(batch) < BatchCap
    /\ ppc \notin {"wait", "chunk", "done"} => pos <= Len(batch)
    /\ cur # None <=> ppc = "chunk"
    /\ spc = "hand" => haveSeg
    /\ free + Len(pending) + (IF haveSeg THEN 1 ELSE 0) = Depth
    /\ spc # "stopped" => noProgress < MaxNoProgress

ChunkInv ==
    /\ BytesInv /\ StagingInv /\ FreshInv /\ SeenInv /\ HeldInv /\ PinInv /\ LinkInv /\ KeptInv

-----------------------------------------------------------------------------
(* The segments.                                                             *)

\* Of the pipeline: in the batch, and with the chunker.
InBatch == Len(batch) - First + 1
InChunker == IF cur = None THEN 0 ELSE 1

\* The segment the receive loop is filling, when k is the next to be committed.
Filling(k) == k + InBatch + InChunker + Len(pending)

\* The pipeline holds k, k + 1, ... in order.
PipeInv(k) ==
    /\ \A i \in First .. Len(batch) : batch[i] = k + i - First
    /\ ppc = "advance" => batch[pos] = k - 1
    /\ cur # None => cur = k + InBatch
    /\ \A i \in 1 .. Len(pending) : pending[i] = k + InBatch + InChunker + i - 1

\* The receive loop is in segment r, and no further than the WAL goes.
ReceiverInv(r) ==
    /\ r >= Base /\ StartOf(r) <= WalEnd
    /\ spc = "hand" => at = next /\ next = EndOf(r) /\ haveSeg
    /\ spc = "copy" => left > 0 /\ (haveSeg \/ next # None => at = next)
    /\ spc \in {"copy", "hand"} => at + left <= WalEnd
    /\ next <= WalEnd
    /\ next # None /\ spc # "hand" => next < EndOf(r) /\ IF haveSeg THEN StartOf(r) < next ELSE StartOf(r) = next
    /\ next = None => /\ ~haveSeg /\ ~failed /\ spc \in {"recv", "copy"}
                      /\ ppc = "wait" /\ batch = <<>> /\ pending = <<>>
                      /\ StartOf(r) = IF spc = "copy" THEN at ELSE asked
                      /\ synced = None

\* The next segment to be committed is k, and t is the last that is.
NextInv(t, k) ==
    /\ Base <= k /\ k <= t + 1
    /\ "push" \notin world => t <= k /\ (next = None /\ spc = "recv" => k = t + 1)
    /\ ppc = "confirm" => k <= t
    /\ synced <= StartOf(IF ppc = "advance" THEN k - 1 ELSE k)
    /\ slot < EndOf(IF ppc = "advance" THEN k - 1 ELSE k)
    /\ PipeInv(k)
    /\ spc \in Streaming => ReceiverInv(Filling(k))

\* The archive is the segments from Base to t, and what PostgreSQL was told, or
\* may be told next, is in it.
ArchiveInv(t) ==
    /\ committed = Base .. t
    /\ t >= Base - 1 /\ EndOf(t) <= WalEnd
    /\ slot < EndOf(t + 1)
    /\ synced <= EndOf(t)
    /\ synced # None => slot <= synced
    /\ ppc # "done" /\ ~failed => \E k \in Int : NextInv(t, k)
    /\ spc \in Streaming => \E r \in Int : ReceiverInv(r)

\* What is on its way are segments of the WAL.
WayInv == \A s \in Range(pending) \cup Range(batch) \cup ({cur} \ {None}) : Base <= s /\ EndOf(s) <= WalEnd

OrderInv == WayInv /\ \E t \in Int : ArchiveInv(t)

-----------------------------------------------------------------------------
(* Segments and positions.                                                   *)

\* Where segments begin.
LEMMA Starts ==
  ASSUME NEW s \in Int
  PROVE  /\ StartOf(s) \in Int /\ EndOf(s) \in Int
         /\ EndOf(s) = StartOf(s + 1) /\ EndOf(s) = StartOf(s) + SegSize
         /\ s >= 0 => StartOf(s) >= 0
BY SinkAssumption DEF StartOf, EndOf

\* In the order of their numbers.
LEMMA StartsOrder ==
  ASSUME NEW s \in Int, NEW r \in Int
  PROVE  /\ s <= r <=> StartOf(s) <= StartOf(r)
         /\ s < r <=> EndOf(s) <= StartOf(r)
         /\ s < r <=> StartOf(s) < StartOf(r)
         /\ s <= r <=> EndOf(s) <= EndOf(r)
         /\ s <= r <=> StartOf(s) < EndOf(r)
BY SinkAssumption DEF StartOf, EndOf

\* The segment of a position.
LEMMA SegOfPosition ==
  ASSUME NEW x \in Nat
  PROVE  /\ SegOf(x) \in Nat
         /\ Floor(x) <= x /\ x < EndOf(SegOf(x))
         /\ \A s \in Int : StartOf(s) <= x /\ x < EndOf(s) => SegOf(x) = s
         /\ \A s \in Int : x = StartOf(s) => SegOf(x) = s
BY SinkAssumption DEF StartOf, EndOf, SegOf, Floor

-----------------------------------------------------------------------------
\* What there is of the WAL, in segments.
LEMMA BaseFacts ==
  /\ Base \in Nat /\ Base >= 1 /\ SlotStart \in Nat /\ WalEnd \in Nat /\ SegSize \in Nat /\ SegSize > 0
  /\ StartOf(Base) <= SlotStart /\ SlotStart < EndOf(Base) /\ SlotStart <= WalEnd
  /\ StartOf(Base) >= SegSize
  /\ \A s \in Int : Base <= s /\ EndOf(s) <= WalEnd => s \in Segs
  /\ \A s \in Segs : s \in Nat /\ s # None
<1>1. /\ SlotStart \in Nat /\ WalEnd \in Nat /\ SegSize \in Nat /\ SegSize > 0 /\ SlotStart <= WalEnd
      /\ \A s \in Segs : s \in Nat /\ s # None
  BY SinkAssumption DEF None
<1>2. /\ Base \in Nat /\ StartOf(Base) <= SlotStart /\ SlotStart < EndOf(Base)
  BY <1>1, SegOfPosition DEF Base, Floor
<1>3. SegOf(WalEnd) \in Nat /\ WalEnd < EndOf(SegOf(WalEnd)) /\ StartOf(SegOf(WalEnd)) <= WalEnd
  BY <1>1, SegOfPosition DEF Floor
<1>4. Base .. SegOf(WalEnd) \subseteq Segs
  BY SinkAssumption DEF Base, SegOf
<1>5. ASSUME NEW s \in Int, Base <= s, EndOf(s) <= WalEnd PROVE s \in Segs
  <2>1. EndOf(s) \in Int /\ EndOf(SegOf(WalEnd)) \in Int
    BY <1>3, Starts
  <2>2. ~ EndOf(SegOf(WalEnd)) <= EndOf(s)
    BY <1>1, <1>3, <1>5, <2>1
  <2>3. ~ SegOf(WalEnd) <= s
    BY <1>3, <2>2, StartsOrder
  <2>. QED  BY <1>2, <1>3, <1>4, <1>5, <2>3
<1>6. Base \in Segs
  <2>1. Base <= SegOf(WalEnd)
    <3>1. StartOf(Base) <= WalEnd /\ WalEnd < EndOf(SegOf(WalEnd)) /\ StartOf(Base) \in Int /\ EndOf(SegOf(WalEnd)) \in Int
      BY <1>1, <1>2, <1>3, Starts
    <3>2. StartOf(Base) < EndOf(SegOf(WalEnd))
      BY <1>1, <3>1
    <3>. QED  BY <1>2, <1>3, <3>2, StartsOrder
  <2>. QED  BY <1>2, <1>3, <1>4, <2>1
<1>7. Base >= 1
  BY <1>1, <1>6 DEF None
<1>8. StartOf(Base) >= SegSize
  BY <1>1, <1>2, <1>7, StartsOrder, Starts DEF StartOf
<1>. QED  BY <1>1, <1>2, <1>5, <1>7, <1>8

-----------------------------------------------------------------------------
\* The inductive invariant.
SinkInv == TypeOK /\ SafeWorld(world) /\ PhaseInv /\ ChunkInv /\ OrderInv

-----------------------------------------------------------------------------
(* The phases.                                                               *)

phaseVars == <<spc, ppc, closed, failed, pos, batch, cur, free, pending, haveSeg, noProgress>>

\* Receiver and processor stay in step: buffers, batch, channel and phases.
LEMMA PhaseKept ==
  ASSUME TypeOK, PhaseInv, Next
  PROVE  PhaseInv'
<1>0. Depth \in Nat /\ Depth > 0 /\ BatchCap \in Nat /\ BatchCap > 0 /\ MaxNoProgress \in Nat /\ MaxNoProgress > 0
  BY SinkAssumption
<1>t. /\ batch \in Seq(Segs) /\ pending \in Seq(Segs) /\ Len(batch) \in Nat /\ Len(pending) \in Nat
      /\ pos \in Nat /\ free \in Nat /\ noProgress \in Nat
      /\ haveSeg \in BOOLEAN /\ failed \in BOOLEAN /\ closed \in BOOLEAN
  BY SMTT(30), SinkAssumption DEF TypeOK
<1>1. CASE UNCHANGED phaseVars
  BY <1>1 DEF PhaseInv, phaseVars, Committing
<1>2. CASE Connect
  BY <1>0, <1>t, <1>2 DEF Connect, PhaseInv, Committing, Streaming, NoFault, policy, None
<1>3. CASE Refused \/ Closed \/ Decide
  BY <1>0, <1>t, <1>3 DEF Refused, Closed, Decide, PhaseInv, Committing, Streaming, policy, queue, processor, None
<1>4. CASE \E p \in Positions, n \in 1 .. MaxRecord : Receive(p, n)
  BY <1>t, <1>4 DEF Receive, EndStream, PhaseInv, Committing, Streaming, policy, processor, None
<1>5. CASE Copy \/ HandOff
  BY SMTT(30), <1>0, <1>t, <1>5 DEF Copy, HandOff, HaveBuffer, PhaseInv, Committing, Streaming, policy, processor, None
<1>6. CASE StreamBreaks \/ Stop
  BY SMTT(30), <1>t, <1>6 DEF StreamBreaks, Stop, EndStream, PhaseInv, Committing, Streaming, policy, processor, None
<1>7. CASE TakeJob
  <2>1. /\ Len(Tail(pending)) = Len(pending) - 1 /\ Len(pending) > 0
        /\ Head(pending) \in Segs /\ Head(pending) # 0
    BY <1>t, <1>7, BaseFacts DEF TakeJob, None
  <2>2. CASE failed
    BY <2>1, <2>2, <1>0, <1>t, <1>7 DEF TakeJob, PhaseInv, Committing, Streaming, policy, receiver, None
  <2>3. CASE ~failed
    BY <2>1, <2>3, <1>0, <1>t, <1>7 DEF TakeJob, PhaseInv, Committing, Streaming, policy, receiver, None
  <2>. QED  BY <2>2, <2>3
<1>8. CASE Chunked
  BY <1>0, <1>t, <1>8 DEF Chunked, PhaseInv, Committing, Streaming, policy, receiver, queue, None
<1>9. CASE Sync \/ Link \/ Sync2 \/ Fence \/ Commit \/ Advance \/ Drained
  BY <1>0, <1>t, <1>9 DEF Sync, Link, Sync2, Fence, Commit, Advance, Drained, PhaseInv, Committing, Streaming, policy, receiver, queue, None
<1>10. CASE Verify \/ VerifyBlind \/ Confirm \/ ConfirmBlind \/ ConfirmFails
  <2>1. UNCHANGED <<spc, closed, pos, batch, free, pending, haveSeg, noProgress>>
    BY <1>10 DEF Verify, VerifyBlind, Confirm, ConfirmBlind, ConfirmFails, policy, receiver, queue
  <2>2. /\ ppc \in {"verify", "confirm"}
        /\ \/ ppc' \in {"commit", "advance"} /\ UNCHANGED <<cur, failed>>
           \/ ppc' = "wait" /\ cur' = None /\ failed'
    BY <1>10 DEF Verify, VerifyBlind, Confirm, ConfirmBlind, ConfirmFails, Confirmed, TakeBack, Fail
  <2>. QED  BY <1>0, <1>t, <2>1, <2>2 DEF PhaseInv, Committing, Streaming, None
<1>13. CASE BarrierFails \/ LinkFails \/ CommitUnanswered \/ StepFails
  BY <1>13, <1>0, <1>t DEF BarrierFails, LinkFails, CommitUnanswered, StepFails, Fail, PhaseInv, Committing, Streaming, policy, receiver, queue, None
<1>11. CASE Crash \/ PowerLoss \/ Restart
  BY <1>0, <1>t, <1>11 DEF Crash, PowerLoss, Restart, Forget, PhaseInv, Committing, Streaming, None
<1>12. CASE SendStatus \/ (\E c \in Chunks : PutChunk(c) \/ Age(c) \/ Sweep(c)) \/ (\E s \in Segs : PushSegment(s)) \/ LoseWAL
  <2>1. UNCHANGED phaseVars
    BY <1>12 DEF SendStatus, PutChunk, Age, Sweep, PushSegment, LoseWAL, phaseVars, policy, receiver, queue, processor
  <2>. QED  BY <1>1, <2>1
<1>. QED  BY <1>2, <1>3, <1>4, <1>5, <1>6, <1>7, <1>8, <1>9, <1>10, <1>11, <1>12, <1>13 DEF Next, Receiver, Processor, Environment
-----------------------------------------------------------------------------
(* The chunks.                                                               *)

chunkVars == <<world, repository, plugin, cas, processor>>

\* The receive loop and PostgreSQL do not touch them.
LEMMA ReceiverChunks ==
  ASSUME \/ Refused \/ Copy \/ HandOff \/ Closed \/ Decide \/ StreamBreaks \/ Stop \/ SendStatus \/ LoseWAL
         \/ \E p \in Positions, n \in 1 .. MaxRecord : Receive(p, n)
  PROVE  UNCHANGED chunkVars
BY DEF chunkVars, Refused, Copy, HandOff, Closed, Decide, StreamBreaks, Stop, SendStatus, LoseWAL, Receive,
       NoFault, Fault, repository, plugin, cas, processor

\* The world stays what it is.
LEMMA WorldKept ==
  ASSUME Next
  PROVE  world' = world
BY DEF Next, Receiver, Processor, Environment, Connect, Refused, Receive, Copy, HandOff, Closed, Decide,
       TakeJob, PutChunk, Chunked, Sync, Link, Sync2, Fence, Verify, Commit, Confirm, Confirmed, TakeBack, Advance, Drained,
       StreamBreaks, Stop, BarrierFails, LinkFails, VerifyBlind, CommitUnanswered, ConfirmBlind, ConfirmFails, StepFails, Age, Sweep,
       PushSegment, LoseWAL, Crash, PowerLoss, Restart, SendStatus, NoFault, Fault

\* Bytes are on stable storage before a key shows them.
LEMMA BytesKept ==
  ASSUME BytesInv, StagingInv, Next
  PROVE  BytesInv'
<1>1. CASE UNCHANGED <<stored, solid, torn>>
  BY <1>1 DEF BytesInv
<1>2. CASE Link \/ LinkFails
  BY <1>2 DEF Link, LinkFails, Publish, Fail, BytesInv, StagingInv
<1>3. CASE \E c \in Chunks : Sweep(c)
  BY <1>3 DEF Sweep, BytesInv
<1>4. CASE \E s \in Segs : PushSegment(s)
  BY <1>4 DEF PushSegment, BytesInv
<1>5. CASE PowerLoss
  BY <1>5 DEF PowerLoss, BytesInv
<1>. QED
  BY <1>1, <1>2, <1>3, <1>4, <1>5, ReceiverChunks
     DEF Next, Receiver, Processor, Environment, chunkVars, repository, Connect,
         TakeJob, PutChunk, Chunked, Sync, Sync2, Fence, Verify, Commit, Confirm, Confirmed, TakeBack, Advance, Drained,
         BarrierFails, VerifyBlind, CommitUnanswered, CommitEffect, ConfirmBlind, ConfirmFails, StepFails, Age, Crash, Restart

\* Barrier flushes before it links, and its list is empty before a commit.
LEMMA StagingKept ==
  ASSUME StagingInv, PhaseInv, Next
  PROVE  StagingInv'
<1>1. CASE UNCHANGED <<deferred, staged, flushed, ppc>>
  BY <1>1 DEF StagingInv
<1>2. CASE Connect \/ Chunked \/ TakeJob \/ Drained
  BY <1>2 DEF Connect, Chunked, TakeJob, Drained, StagingInv, PhaseInv, plugin, Committing
<1>3. CASE \E c \in Chunks : PutChunk(c)
  BY <1>3 DEF PutChunk, StagingInv, plugin, Committing
<1>4. CASE Sync \/ Link \/ Sync2
  BY <1>4 DEF Sync, Link, Sync2, BytesSynced, Publish, StagingInv, Committing
<1>5. CASE Fence \/ Verify \/ Commit \/ Confirm \/ Advance
  BY <1>5 DEF Fence, Verify, Commit, Confirm, Confirmed, TakeBack, Advance, Fail, StagingInv, plugin, Committing
<1>6. CASE BarrierFails \/ VerifyBlind \/ CommitUnanswered \/ ConfirmBlind \/ ConfirmFails \/ StepFails
  BY <1>6 DEF BarrierFails, VerifyBlind, CommitUnanswered, ConfirmBlind, ConfirmFails, StepFails, Confirmed, TakeBack,
              Fail, StagingInv, plugin, Committing
<1>7. CASE LinkFails
  BY <1>7 DEF LinkFails, Publish, Fail, StagingInv, Committing
<1>8. CASE Crash \/ PowerLoss \/ Restart
  BY <1>8 DEF Crash, PowerLoss, Restart, Forget, StagingInv, Committing
<1>. QED
  BY <1>1, <1>2, <1>3, <1>4, <1>5, <1>6, <1>7, <1>8, ReceiverChunks
     DEF Next, Receiver, Processor, Environment, chunkVars, plugin, processor, Age, Sweep, PushSegment

\* A chunk written a moment ago is staged or at its key: gc leaves young chunks.
LEMMA FreshKept ==
  ASSUME FreshInv, StagingInv, Next
  PROVE  FreshInv'
<1>1. CASE UNCHANGED <<stored, staged, seen, fresh>>
  BY <1>1 DEF FreshInv
<1>2. CASE \E c \in Chunks : PutChunk(c)
  BY <1>2 DEF PutChunk, FreshInv, repository, plugin
<1>3. CASE Link \/ LinkFails
  BY <1>3 DEF Link, LinkFails, Publish, FreshInv, StagingInv, cas
<1>4. CASE Verify \/ Confirm \/ ConfirmBlind \/ ConfirmFails
  BY <1>4 DEF Verify, Confirm, ConfirmBlind, ConfirmFails, Confirmed, TakeBack, ForgetChunk, FreshInv, cas, repository, plugin
<1>5. CASE \E c \in Chunks : Age(c) \/ Sweep(c)
  BY <1>5 DEF Age, Sweep, FreshInv, cas, repository, plugin
<1>6. CASE \E s \in Segs : PushSegment(s)
  BY <1>6 DEF PushSegment, FreshInv, cas, plugin
<1>7. CASE Crash \/ PowerLoss \/ Restart
  BY <1>7 DEF Crash, PowerLoss, Restart, Forget, FreshInv
<1>. QED
  BY <1>1, <1>2, <1>3, <1>4, <1>5, <1>6, <1>7, ReceiverChunks
     DEF Next, Receiver, Processor, Environment, chunkVars, repository, plugin, cas, Connect,
         TakeJob, Chunked, Sync, Sync2, Fence, Commit, Advance, Drained,
         BarrierFails, VerifyBlind, CommitUnanswered, CommitEffect, StepFails

\* What the CAS has seen stays, where no gc runs.
LEMMA SeenKept ==
  ASSUME SeenInv, StagingInv, Next
  PROVE  SeenInv'
<1>w. world' = world
  BY WorldKept
<1>1. CASE UNCHANGED <<stored, staged, seen, adopted>>
  BY <1>w, <1>1 DEF SeenInv
<1>2. CASE \E c \in Chunks : PutChunk(c)
  BY <1>w, <1>2 DEF PutChunk, SeenInv, repository, plugin
<1>3. CASE Link \/ LinkFails
  BY <1>w, <1>3 DEF Link, LinkFails, Publish, SeenInv, StagingInv, cas
<1>4. CASE Verify \/ Confirm \/ ConfirmBlind \/ ConfirmFails
  <2>1. UNCHANGED <<stored, staged>>
    BY <1>4 DEF Verify, Confirm, ConfirmBlind, ConfirmFails, repository, plugin
  <2>2. \/ UNCHANGED seen /\ adopted' \subseteq adopted
        \/ \E gone : ForgetChunk(gone)
    BY <1>4 DEF Verify, Confirm, ConfirmBlind, ConfirmFails, Confirmed, TakeBack, cas
  <2>. QED  BY <1>w, <2>1, <2>2 DEF ForgetChunk, SeenInv
<1>5. CASE \E c \in Chunks : Age(c) \/ Sweep(c)
  BY <1>w, <1>5 DEF Age, Sweep, Fault, SeenInv, cas, repository, plugin
<1>6. CASE \E s \in Segs : PushSegment(s)
  BY <1>w, <1>6 DEF PushSegment, SeenInv, cas, plugin
<1>7. CASE Crash \/ PowerLoss \/ Restart
  BY <1>7 DEF Crash, PowerLoss, Restart, Forget, SeenInv
<1>. QED
  BY <1>1, <1>2, <1>3, <1>4, <1>5, <1>6, <1>7, ReceiverChunks
     DEF Next, Receiver, Processor, Environment, chunkVars, repository, plugin, cas, Connect,
         TakeJob, Chunked, Sync, Sync2, Fence, Commit, Advance, Drained,
         BarrierFails, VerifyBlind, CommitUnanswered, CommitEffect, StepFails

\* What a segment in flight relies on stays trusted or adopted.
LEMMA HeldKept ==
  ASSUME TypeOK, PhaseInv, HeldInv, Next
  PROVE  HeldInv'
<1>t. batch \in Seq(Segs) /\ pos \in Nat /\ failed \in BOOLEAN
  BY SinkAssumption DEF TypeOK
<1>1. CASE UNCHANGED <<fresh, adopted, ppc, batch, cur, todo, pos, failed>>
  BY <1>1 DEF HeldInv, First
<1>2. CASE Connect \/ Crash \/ PowerLoss \/ Restart
  BY <1>2 DEF Connect, Crash, PowerLoss, Restart, Forget, HeldInv, First
<1>3. CASE TakeJob
  BY <1>t, <1>3 DEF TakeJob, HeldInv, First, cas, PhaseInv, Committing
<1>4. CASE \E c \in Chunks : PutChunk(c)
  BY <1>t, <1>4 DEF PutChunk, Adopts, HeldInv, First
<1>5. CASE Chunked
  BY <1>t, <1>5 DEF Chunked, HeldInv, First, cas, PhaseInv
<1>6. CASE Sync \/ Link \/ Sync2 \/ Fence \/ Commit \/ Drained
  BY <1>t, <1>6 DEF Sync, Link, Sync2, Fence, Commit, Drained, HeldInv, First, cas, PhaseInv
<1>7. CASE Verify \/ VerifyBlind
  <2>1. failed' \/ (ppc = "verify" /\ ppc' = "commit" /\ UNCHANGED <<fresh, adopted, failed>>)
    BY <1>7 DEF Verify, VerifyBlind, Fail, cas
  <2>2. UNCHANGED <<batch, pos>>
    BY <1>7 DEF Verify, VerifyBlind
  <2>. QED  BY <1>t, <2>1, <2>2 DEF HeldInv, First
<1>8. CASE Confirm \/ ConfirmBlind \/ ConfirmFails
  <2>0. ppc = "confirm" /\ UNCHANGED <<batch, pos>> /\ (Confirmed \/ Fail)
    BY <1>8 DEF Confirm, ConfirmBlind, ConfirmFails, TakeBack
  <2>1. CASE Fail
    BY <1>t, <2>1 DEF Fail, HeldInv
  <2>2. CASE Confirmed
    <3>1. \A i \in pos + 1 .. Len(batch) : Content[batch[i]] \cap ReleasedRefs = {}
      BY DEF ReleasedRefs
    <3>. QED  BY <1>t, <2>0, <2>2, <3>1 DEF Confirmed, HeldInv, First
  <2>. QED  BY <2>0, <2>1, <2>2
<1>9. CASE Advance
  BY <1>t, <1>9 DEF Advance, HeldInv, First, cas
<1>10. CASE BarrierFails \/ LinkFails \/ CommitUnanswered \/ StepFails
  BY <1>10 DEF BarrierFails, LinkFails, CommitUnanswered, StepFails, Fail, HeldInv
<1>11. ASSUME NEW c \in Chunks, Age(c) PROVE HeldInv'
  <2>1. UNCHANGED <<adopted, ppc, batch, cur, todo, pos, failed>> /\ fresh' = fresh \ {c}
    BY <1>11 DEF Age, processor
  <2>2. \A i \in First .. Len(batch) : First > 0 => c \notin Content[batch[i]]
    BY <1>t, <1>11 DEF Age, Held, InFlight, Range, First
  <2>3. ppc = "chunk" => c \notin Content[cur]
    BY <1>11 DEF Age, Held, InFlight, PhaseInv
  <2>4. First > 0
    BY SinkAssumption DEF First, TypeOK
  <2>. QED  BY <2>1, <2>2, <2>3, <2>4 DEF HeldInv, First
<1>. QED
  BY <1>1, <1>2, <1>3, <1>4, <1>5, <1>6, <1>7, <1>8, <1>9, <1>10, <1>11, ReceiverChunks
     DEF Next, Receiver, Processor, Environment, chunkVars, cas, processor, Sweep, PushSegment

\* A pinned chunk stays, from Verify on, unless gc overruns the fence.
LEMMA PinKept ==
  ASSUME SafeWorld(world), StagingInv, SeenInv, PinInv, Next
  PROVE  PinInv'
<1>1. CASE UNCHANGED <<world, stored, ppc, batch, pos, pins, adopted>>
  BY <1>1 DEF PinInv
<1>2. CASE Connect \/ Crash \/ PowerLoss \/ Restart \/ Drained \/ Sync \/ Link \/ Sync2 \/ Chunked \/ Advance
  BY <1>2 DEF Connect, Crash, PowerLoss, Restart, Forget, Drained, Sync, Link, Sync2, Chunked, Advance, PinInv
<1>3. CASE TakeJob
  BY <1>3 DEF TakeJob, PinInv
<1>4. CASE \E c \in Chunks : PutChunk(c)
  BY <1>4 DEF PutChunk, PinInv
<1>5. CASE Fence \/ Verify \/ Commit
  BY <1>5, WorldKept DEF Fence, Verify, Commit, CommitEffect, Fail, PinInv, cas, repository
<1>6. CASE Confirm \/ BarrierFails \/ LinkFails \/ CommitUnanswered \/ ConfirmBlind \/ ConfirmFails \/ StepFails
  BY <1>6 DEF Confirm, BarrierFails, LinkFails, CommitUnanswered, ConfirmBlind, ConfirmFails, StepFails, Confirmed, TakeBack,
              Fail, PinInv
<1>7. CASE \E c \in Chunks : Age(c) \/ Sweep(c)
  BY <1>7, WorldKept DEF Age, Sweep, Fault, PinInv, cas, processor, repository
<1>8. CASE \E s \in Segs : PushSegment(s)
  BY <1>8, WorldKept DEF PushSegment, PinInv, cas, processor
<1>9. CASE VerifyBlind
  <2>1. ppc = "verify" /\ ppc' = "commit" /\ UNCHANGED <<world, stored, batch, pos, pins, adopted>> /\ "stat" \in world
    BY <1>9 DEF VerifyBlind, Fault, repository, cas
  <2>2. pins = Content[batch[pos]] \cap adopted
    BY <2>1 DEF PinInv
  <2>3. adopted \subseteq stored
    BY <2>1 DEF SafeWorld, SeenInv, StagingInv, Committing
  <2>. QED  BY <2>1, <2>2, <2>3 DEF PinInv
<1>. QED
  BY <1>1, <1>2, <1>3, <1>4, <1>5, <1>6, <1>7, <1>8, <1>9, ReceiverChunks
     DEF Next, Receiver, Processor, Environment, chunkVars, cas, processor, repository

\* Directory entries reach stable storage before anybody relies on them.
LEMMA LinkKept ==
  ASSUME SafeWorld(world), PhaseInv, StagingInv, LinkInv, Next
  PROVE  LinkInv'
<1>w. world' = world
  BY WorldKept
<1>1. CASE UNCHANGED <<stored, linked, deferred, staged, ppc>>
  BY <1>w, <1>1 DEF LinkInv
<1>2. CASE Connect \/ Drained \/ Sync \/ Chunked \/ TakeJob
  BY <1>w, <1>2 DEF Connect, Drained, Sync, Chunked, TakeJob, LinkInv, PhaseInv, repository, plugin
<1>3. CASE \E c \in Chunks : PutChunk(c)
  BY <1>w, <1>3 DEF PutChunk, LinkInv, repository, plugin
<1>4. CASE Link
  BY <1>w, <1>4 DEF Link, Publish, LinkInv, StagingInv
<1>5. CASE Sync2
  BY <1>w, <1>5 DEF Sync2, LinksSynced, LinkInv, StagingInv, Committing
<1>6. CASE Fence \/ Verify \/ VerifyBlind \/ Confirm \/ Advance
  BY <1>w, <1>6 DEF Fence, Verify, VerifyBlind, Confirm, Confirmed, TakeBack, Advance, Fail, LinkInv, repository, plugin
<1>7. CASE Commit \/ CommitUnanswered
  BY <1>w, <1>7 DEF Commit, CommitUnanswered, CommitEffect, Fail, Journaled, LinkInv, plugin
<1>8. CASE ConfirmBlind \/ ConfirmFails
  BY <1>w, <1>8 DEF ConfirmBlind, ConfirmFails, Confirmed, TakeBack, Fail, LinkInv, plugin
<1>9. CASE BarrierFails \/ StepFails
  BY <1>w, <1>9 DEF BarrierFails, StepFails, Fail, Fault, SafeWorld, LinkInv, repository, plugin
<1>10. CASE LinkFails
  <2>1. CASE "storage" \in world
    BY <1>w, <1>10, <2>1 DEF LinkFails, Fail, LinkInv, SafeWorld
  <2>2. CASE "storage" \notin world
    BY <1>w, <1>10, <2>2 DEF LinkFails, Publishable, Fault, LinkInv
  <2>. QED  BY <2>1, <2>2
<1>11. CASE Crash
  BY <1>w, <1>11 DEF Crash, Fault, Forget, SafeWorld, LinkInv
<1>12. CASE PowerLoss
  BY <1>w, <1>12 DEF PowerLoss, Forget, LinkInv
<1>13. CASE Restart
  BY <1>w, <1>13 DEF Restart, Forget, LinkInv, PhaseInv, repository
<1>14. CASE \E c \in Chunks : Sweep(c)
  BY <1>w, <1>14 DEF Sweep, LinkInv, plugin, processor
<1>15. CASE \E s \in Segs : PushSegment(s)
  BY <1>w, <1>15 DEF PushSegment, Fault, SafeWorld, Journaled, LinkInv, plugin, processor
<1>. QED
  BY <1>1, <1>2, <1>3, <1>4, <1>5, <1>6, <1>7, <1>8, <1>9, <1>10, <1>11, <1>12, <1>13, <1>14, <1>15, ReceiverChunks
     DEF Next, Receiver, Processor, Environment, chunkVars, plugin, processor, repository, Age
\* A commit has all of its chunks, and a barrier behind it.
LEMMA CommitHasChunks ==
  ASSUME TypeOK, PhaseInv, StagingInv, FreshInv, HeldInv, PinInv,
         ppc \in {"commit", "confirm"}, pins \subseteq stored
  PROVE  Content[batch[pos]] \subseteq stored
<1>1. ~failed /\ pos \in Nat /\ batch \in Seq(Segs) /\ First = pos /\ pos <= Len(batch)
  BY SMTT(30), SinkAssumption DEF PhaseInv, First, Committing, TypeOK
<1>2. Content[batch[pos]] \subseteq fresh \cup adopted
  BY <1>1 DEF HeldInv
<1>3. fresh \subseteq stored
  BY DEF FreshInv, StagingInv, Committing
<1>4. pins = Content[batch[pos]] \cap adopted
  BY DEF PinInv
<1>. QED  BY <1>2, <1>3, <1>4

\* What is committed stays, whatever gc and the power do.
LEMMA KeptKept ==
  ASSUME TypeOK, SafeWorld(world), PhaseInv, ChunkInv, Next
  PROVE  KeptInv'
<1>w. world' = world
  BY WorldKept
<1>i. BytesInv /\ StagingInv /\ FreshInv /\ SeenInv /\ HeldInv /\ PinInv /\ LinkInv /\ KeptInv
  BY DEF ChunkInv
<1>1. CASE UNCHANGED <<committed, stored, linked, ppc, batch, pos>>
  BY <1>w, <1>i, <1>1 DEF KeptInv, Unconfirmed
<1>2. CASE UNCHANGED <<committed, stored, linked>> /\ ppc # "confirm"
  BY <1>w, <1>i, <1>2 DEF KeptInv, Unconfirmed
<1>3. CASE UNCHANGED committed /\ stored \subseteq stored' /\ linked \cap stored \subseteq linked' /\ ppc # "confirm"
  BY <1>w, <1>i, <1>3 DEF KeptInv, Unconfirmed
<1>4. CASE Link \/ LinkFails
  BY <1>3, <1>4 DEF Link, LinkFails, Publish
<1>5. CASE Sync2
  BY <1>3, <1>5 DEF Sync2, LinksSynced
<1>6. CASE Commit \/ CommitUnanswered
  <2>1. UNCHANGED <<stored, batch, pos>> /\ committed' = committed \cup {batch[pos]} /\ ppc = "commit"
    BY <1>6 DEF Commit, CommitUnanswered, CommitEffect
  <2>2. stored \subseteq linked'
    BY <1>i, <2>1, <1>6 DEF Commit, CommitUnanswered, CommitEffect, Journaled, LinkInv
  <2>3. CASE "overrun" \notin world
    <3>1. Content[batch[pos]] \subseteq stored
      BY <1>i, <2>1, <2>3, CommitHasChunks DEF PinInv
    <3>. QED  BY <1>w, <1>i, <2>1, <2>2, <3>1 DEF KeptInv, Unconfirmed
  <2>4. CASE "overrun" \in world
    <3>1. ppc' = "confirm"
      BY <1>6, <2>4 DEF Commit, CommitUnanswered, Fault, SafeWorld
    <3>. QED  BY <1>w, <1>i, <2>1, <2>2, <2>4, <3>1 DEF KeptInv, Unconfirmed
  <2>. QED  BY <2>3, <2>4
<1>7. CASE Confirm \/ ConfirmBlind \/ ConfirmFails
  <2>1. UNCHANGED <<stored, linked, batch, pos>> /\ ppc = "confirm" /\ ppc' # "confirm"
    BY <1>7 DEF Confirm, ConfirmBlind, ConfirmFails, Confirmed, TakeBack, Fail
  <2>2. CASE committed' = committed \ {batch[pos]}
    BY <1>w, <1>i, <2>1, <2>2 DEF KeptInv, Unconfirmed
  <2>3. CASE committed' = committed /\ pins \subseteq stored
    <3>1. Content[batch[pos]] \subseteq stored \cap linked
      BY <1>i, <2>1, <2>3, CommitHasChunks DEF LinkInv
    <3>. QED  BY <1>w, <1>i, <2>1, <2>3, <3>1 DEF KeptInv, Unconfirmed
  <2>4. CASE Confirm
    <3>1. \/ committed' = committed /\ (Looks => pins \subseteq stored)
          \/ committed' = committed \ {batch[pos]}
      BY <2>4 DEF Confirm, Confirmed, TakeBack
    <3>2. ~Looks => pins \subseteq stored
      BY <1>i, <2>1 DEF Looks, PinInv
    <3>. QED  BY <2>2, <2>3, <3>1, <3>2
  <2>5. CASE ConfirmBlind \/ ConfirmFails
    <3>1. \/ committed' = committed
          \/ committed' = committed \ {batch[pos]}
      BY <2>5 DEF ConfirmBlind, ConfirmFails, Confirmed, TakeBack
    <3>2. ~ {"overrun", "sweep"} \subseteq world
      BY <2>5 DEF ConfirmBlind, ConfirmFails, Looks, Fault, SafeWorld
    <3>3. pins \subseteq stored
      BY <1>i, <2>1, <3>2 DEF PinInv
    <3>. QED  BY <2>2, <2>3, <3>1, <3>3
  <2>. QED  BY <1>7, <2>4, <2>5
<1>9. ASSUME NEW c \in Chunks, Sweep(c) PROVE KeptInv'
  <2>1. /\ UNCHANGED <<committed, ppc, batch, pos>>
        /\ stored' = stored \ {c} /\ linked' = linked \ {c}
    BY <1>9 DEF Sweep, processor
  <2>2. \A s \in committed : Unconfirmed(s) \/ c \notin Content[s]
    BY <1>9 DEF Sweep, Referenced, Unread, Unconfirmed
  <2>. QED  BY <1>w, <1>i, <2>1, <2>2 DEF KeptInv, Unconfirmed
<1>10. ASSUME NEW s \in Segs, PushSegment(s) PROVE KeptInv'
  <2>1. /\ UNCHANGED <<ppc, batch, pos>> /\ committed' = committed \cup {s}
        /\ stored' = stored \cup Content[s] /\ "push" \in world
    BY <1>10 DEF PushSegment, Fault, processor
  <2>2. Journaled /\ linked' = stored'
    BY <1>10, <2>1 DEF PushSegment, SafeWorld, Journaled
  <2>. QED  BY <1>w, <1>i, <2>1, <2>2 DEF KeptInv, Unconfirmed
<1>11. CASE Crash \/ PowerLoss
  <2>1. ~ "overrun" \in world
    BY <1>11 DEF Crash, PowerLoss, Fault, SafeWorld
  <2>2. committed' = committed
    BY <1>11 DEF Crash, PowerLoss, repository
  <2>3. stored \cap linked \subseteq stored' \cap linked'
    BY <1>11 DEF Crash, PowerLoss, repository
  <2>. QED  BY <1>w, <1>i, <2>1, <2>2, <2>3 DEF KeptInv, Unconfirmed
<1>12. CASE Restart \/ Connect
  <2>1. ppc # "confirm"
    BY <1>12 DEF Restart, Connect, PhaseInv
  <2>2. UNCHANGED <<committed, stored, linked>>
    BY <1>12 DEF Restart, Connect, repository
  <2>. QED  BY <1>2, <2>1, <2>2
<1>13. CASE TakeJob \/ Chunked \/ Sync \/ Fence \/ Verify \/ VerifyBlind \/ Advance \/ Drained \/ BarrierFails \/ StepFails
  <2>1. ppc # "confirm"
    BY <1>13 DEF TakeJob, Chunked, Sync, Fence, Verify, VerifyBlind, Advance, Drained, BarrierFails, StepFails
  <2>2. UNCHANGED <<committed, stored, linked>>
    BY <1>13 DEF TakeJob, Chunked, Sync, Fence, Verify, VerifyBlind, Advance, Drained, BarrierFails, StepFails, repository
  <2>. QED  BY <1>2, <2>1, <2>2
<1>14. CASE \E c \in Chunks : PutChunk(c) \/ Age(c)
  BY <1>1, <1>14 DEF PutChunk, Age, repository, processor
<1>. QED
  BY <1>1, <1>4, <1>5, <1>6, <1>7, <1>9, <1>10, <1>11, <1>12, <1>13, <1>14, ReceiverChunks
     DEF Next, Receiver, Processor, Environment, chunkVars, repository, processor

\* All that is said of the chunks, together.
LEMMA ChunksKept ==
  ASSUME TypeOK, SafeWorld(world), PhaseInv, ChunkInv, Next
  PROVE  ChunkInv'
BY BytesKept, StagingKept, FreshKept, SeenKept, HeldKept, PinKept, LinkKept, KeptKept DEF ChunkInv
-----------------------------------------------------------------------------
(* The segments.                                                             *)

\* What TypeOK says of positions and of the pipeline.
LEMMA OrderTypes ==
  ASSUME TypeOK
  PROVE  /\ batch \in Seq(Segs) /\ pending \in Seq(Segs) /\ Len(batch) \in Nat /\ Len(pending) \in Nat
         /\ pos \in Nat /\ pos >= 1 /\ cur \in Segs \cup {None}
         /\ slot \in Nat /\ synced \in Nat /\ asked \in Nat /\ next \in Nat /\ at \in Nat /\ left \in Nat
         /\ slot >= SlotStart
         /\ failed \in BOOLEAN /\ haveSeg \in BOOLEAN
BY SMTT(30), SinkAssumption DEF TypeOK

\* The goroutines go on, and nothing is handed over.
LEMMA OrderFrame ==
  ASSUME OrderInv,
         UNCHANGED <<world, committed, slot, synced, asked, next, at, left, haveSeg, pending, batch, cur, pos, failed>>,
         spc' = spc \/ spc' \notin Streaming,
         \/ ppc' = ppc
         \/ /\ ppc \notin {"confirm", "advance", "done"} /\ ppc' \notin {"confirm", "advance"}
            /\ ppc = "wait" => spc \notin Streaming
  PROVE  OrderInv'
<1>1. WayInv'
  BY DEF OrderInv, WayInv, Range
<1>2. PICK t \in Int : ArchiveInv(t)
  BY DEF OrderInv
<1>3. ASSUME NEW r \in Int, spc' \in Streaming, ReceiverInv(r) PROVE ReceiverInv(r)'
  BY <1>3 DEF ReceiverInv, Streaming, StartOf, EndOf
<1>4. ASSUME NEW k \in Int, NextInv(t, k), ppc' # "done" PROVE NextInv(t, k)'
  <2>1. First' = First /\ InBatch' = InBatch /\ InChunker' = InChunker /\ Filling(k)' = Filling(k)
    BY DEF First, InBatch, InChunker, Filling
  <2>2. PipeInv(k)'
    BY <1>4, <2>1 DEF NextInv, PipeInv
  <2>3. spc' \in Streaming => ReceiverInv(Filling(k))'
    BY <1>4, <2>1 DEF NextInv, ReceiverInv, Streaming, StartOf, EndOf
  <2>4. ppc' = "confirm" => ppc = "confirm"
    OBVIOUS
  <2>5. spc' = "recv" => spc = "recv"
    BY DEF Streaming
  <2>6. (ppc' = "advance") <=> (ppc = "advance")
    OBVIOUS
  <2>. QED  BY <1>4, <2>2, <2>3, <2>4, <2>5, <2>6 DEF NextInv, StartOf, EndOf
<1>5. ArchiveInv(t)'
  BY <1>2, <1>3, <1>4 DEF ArchiveInv, EndOf
<1>. QED  BY <1>1, <1>5 DEF OrderInv

\* The pipeline fails; the archive is the segments up to u.
LEMMA OrderFail ==
  ASSUME TypeOK, OrderInv, Fail, ppc \notin {"wait", "done"},
         UNCHANGED <<world, slot, synced, spc, asked, next, at, left, haveSeg, pending, batch, pos>>,
         NEW u \in Int, committed' = Base .. u, u >= Base - 1, EndOf(u) <= WalEnd,
         slot < EndOf(u + 1), synced <= EndOf(u)
  PROVE  OrderInv'
<1>1. WayInv'
  BY DEF OrderInv, WayInv, Range, Fail
<1>2. PICK t \in Int : ArchiveInv(t)
  BY DEF OrderInv
<1>3. ASSUME NEW r \in Int, spc' \in Streaming, ReceiverInv(r) PROVE ReceiverInv(r)'
  BY <1>3 DEF ReceiverInv, Streaming, StartOf, EndOf
<1>5. ArchiveInv(u)'
  BY <1>2, <1>3 DEF ArchiveInv, EndOf, Fail
<1>. QED  BY <1>1, <1>5 DEF OrderInv
\* The highest of an interval.
LEMMA MaxOfInterval ==
  ASSUME NEW a \in Int, NEW b \in Int, a <= b
  PROVE  Max(a .. b) = b
<1>1. b \in a .. b /\ \A y \in a .. b : b >= y
  OBVIOUS
<1>2. \A x \in a .. b : (\A y \in a .. b : x >= y) => x = b
  BY <1>1
<1>. QED  BY <1>1, <1>2 DEF Max

\* The lower of two.
LEMMA MinOfTwo ==
  ASSUME NEW a \in Int, NEW b \in Int
  PROVE  Min({a, b}) = IF a <= b THEN a ELSE b
<1>1. \E x \in {a, b} : \A y \in {a, b} : x <= y
  OBVIOUS
<1>. QED  BY <1>1 DEF Min

\* An attempt begins right behind the archive.
LEMMA OrderConnect ==
  ASSUME TypeOK, OrderInv, Connect
  PROVE  OrderInv'
<1>t. slot \in Nat /\ slot >= SlotStart
  BY OrderTypes
<1>b. Base \in Nat /\ Base >= 1 /\ WalEnd \in Nat /\ SlotStart \in Nat /\ StartOf(Base) <= SlotStart
  BY BaseFacts
<1>2. PICK t \in Int : ArchiveInv(t)
  BY DEF OrderInv
<1>e. /\ EndOf(t) \in Int /\ EndOf(t + 1) \in Int /\ StartOf(t + 1) \in Int /\ StartOf(Base) \in Int
      /\ EndOf(t) = StartOf(t + 1) /\ StartOf(t + 1) >= 0
  BY <1>2, <1>b, Starts DEF ArchiveInv
<1>3. ResumeLSN = StartOf(t + 1)
  <2>1. CASE committed # {}
    <3>1. Base <= t /\ committed = Base .. t
      BY <1>2, <1>b, <2>1 DEF ArchiveInv
    <3>. QED  BY <1>b, <1>e, <2>1, <3>1, MaxOfInterval DEF ResumeLSN
  <2>2. CASE committed = {}
    <3>1. t + 1 = Base
      BY <1>2, <1>b, <2>2 DEF ArchiveInv
    <3>2. slot < EndOf(Base) /\ StartOf(Base) <= slot
      BY <1>2, <1>t, <1>b, <1>e, <3>1 DEF ArchiveInv
    <3>3. SegOf(slot) = Base
      BY <1>t, <1>b, <3>2, SegOfPosition
    <3>. QED  BY <2>2, <3>1, <3>3 DEF ResumeLSN, Floor
  <2>. QED  BY <2>1, <2>2
<1>4. WayInv'
  BY DEF WayInv, Connect, Range, None
<1>5. First' = 1 /\ InBatch' = 0 /\ InChunker' = 0 /\ Filling(t + 1)' = t + 1
  BY DEF Connect, First, InBatch, InChunker, Filling
<1>6. PipeInv(t + 1)'
  BY <1>5 DEF PipeInv, Connect
<1>7. ReceiverInv(t + 1)'
  BY <1>2, <1>3, <1>b, <1>e DEF ReceiverInv, Connect, ArchiveInv, None
<1>8. NextInv(t, t + 1)'
  BY <1>2, <1>5, <1>6, <1>7, <1>b, <1>e DEF NextInv, Connect, ArchiveInv, None
<1>9. ArchiveInv(t)'
  <2>1. /\ committed' = committed /\ slot' = slot /\ synced' = 0 /\ EndOf(t) >= 0
    BY <1>e DEF Connect, repository, None
  <2>. QED  BY <1>2, <1>7, <1>8, <2>1 DEF ArchiveInv, None
<1>. QED  BY <1>4, <1>9 DEF OrderInv

\* A record comes in.
LEMMA OrderReceive ==
  ASSUME TypeOK, PhaseInv, OrderInv, NEW p \in Positions, NEW n \in 1 .. MaxRecord, Receive(p, n)
  PROVE  OrderInv'
<1>t. /\ slot \in Nat /\ slot >= SlotStart /\ asked \in Nat /\ next \in Nat /\ synced \in Nat
      /\ batch \in Seq(Segs) /\ pending \in Seq(Segs) /\ pos \in Nat /\ failed \in BOOLEAN
  BY OrderTypes
<1>b. Base \in Nat /\ Base >= 1 /\ WalEnd \in Nat /\ SegSize \in Nat /\ SegSize > 0
      /\ SlotStart \in Nat /\ StartOf(Base) <= SlotStart
  BY BaseFacts
<1>0. /\ spc = "recv"
      /\ UNCHANGED <<world, committed, slot, synced, asked, next, haveSeg, pending, batch, cur, pos, failed, ppc>>
  BY DEF Receive, NoFault, Fault, repository, processor
<1>1. CASE spc' = "close"
  <2>1. UNCHANGED <<at, left>>
    BY <1>1 DEF Receive, EndStream
  <2>. QED  BY <1>0, <1>1, <2>1, OrderFrame DEF Streaming
<1>2. CASE spc' # "close"
  <2>1. /\ spc' = "copy" /\ at' = p /\ left' = n /\ ~failed
        /\ OpeningRecordOK(p) /\ Contiguous(p) /\ OffsetOK(p) /\ p + n <= WalEnd
        /\ p # OnCourse => p >= Floor(slot)
    BY <1>t, <1>2 DEF Receive, EndStream
  <2>2. PICK t \in Int : ArchiveInv(t)
    BY DEF OrderInv
  <2>3. ppc # "done"
    BY <1>0 DEF PhaseInv, Streaming
  <2>4. PICK k \in Int : NextInv(t, k)
    BY <2>1, <2>2, <2>3 DEF ArchiveInv
  <2>r. ReceiverInv(Filling(k))
    BY <1>0, <2>4 DEF NextInv, Streaming
  <2>w. WayInv'
    BY <1>0 DEF OrderInv, WayInv, Range
  <2>5. CASE next # None
    <3>1. p = next
      BY <2>1, <2>5 DEF Contiguous
    <3>2. UNCHANGED <<First, InBatch, InChunker, Filling(k)>>
      BY <1>0 DEF First, InBatch, InChunker, Filling
    <3>3. ReceiverInv(Filling(k))'
      BY <1>0, <1>t, <2>1, <2>5, <2>r, <3>1, <3>2 DEF ReceiverInv, StartOf, EndOf
    <3>4. PipeInv(k)'
      BY <1>0, <2>4, <3>2 DEF NextInv, PipeInv
    <3>5. NextInv(t, k)'
      BY <1>0, <2>1, <2>4, <2>5, <3>3, <3>4 DEF NextInv, StartOf, EndOf
    <3>6. Filling(k) \in Int /\ Filling(k)' = Filling(k)
      BY <1>0, <1>t, <3>2 DEF Filling, InBatch, First, InChunker
    <3>7. ArchiveInv(t)'
      BY <1>0, <2>2, <3>3, <3>5, <3>6 DEF ArchiveInv, EndOf
    <3>. QED  BY <2>w, <3>7 DEF OrderInv
  <2>6. CASE next = None
    <3>1. ppc = "wait" /\ batch = <<>> /\ pending = <<>> /\ ~haveSeg /\ synced = None
      BY <2>6, <2>r DEF ReceiverInv
    <3>2. cur = None /\ pos = 1
      BY <2>1, <3>1 DEF PhaseInv
    <3>3. First = 1 /\ InBatch = 0 /\ InChunker = 0 /\ Filling(k) = k
      BY <3>1, <3>2 DEF First, InBatch, InChunker, Filling
    <3>4. asked = StartOf(k)
      BY <1>0, <2>6, <2>r, <3>3 DEF ReceiverInv
    <3>5. p \in Int /\ p <= asked /\ p = Floor(p)
      BY <1>b, <1>t, <2>1, <2>6, <3>1 DEF OpeningRecordOK, OffsetOK, Positions, OnCourse
    <3>6. p = asked \/ p = asked - SegSize
      BY <1>b, <1>t, <2>6, <3>5 DEF Positions, OnCourse
    <3>s. /\ StartOf(k) \in Int /\ EndOf(k) \in Int /\ StartOf(k - 1) \in Int /\ EndOf(k - 1) \in Int
          /\ EndOf(k - 1) = StartOf(k) /\ EndOf(k - 1) = StartOf(k - 1) + SegSize
          /\ StartOf(Base) \in Int
      <4>1. k - 1 \in Int /\ (k - 1) + 1 = k
        OBVIOUS
      <4>. QED  BY <1>b, <4>1, Starts
    <3>7. PICK j \in {k, k - 1} : p = StartOf(j) /\ (j # k => StartOf(j) >= Floor(slot))
      <4>1. CASE p = asked
        BY <3>4, <4>1
      <4>2. CASE p = asked - SegSize
        <5>1. p = StartOf(k - 1)
          BY <1>b, <3>4, <3>s, <4>2
        <5>2. p # OnCourse
          BY <1>b, <1>t, <2>6, <4>2 DEF OnCourse
        <5>. QED  BY <2>1, <5>1, <5>2
      <4>. QED  BY <3>6, <4>1, <4>2
    <3>j. j \in Int /\ j <= k
      BY <3>7
    <3>8. Base <= j /\ slot < EndOf(j)
      <4>1. CASE j = k
        BY <2>4, <3>1, <4>1 DEF NextInv
      <4>2. CASE j # k
        <5>1. SegOf(slot) \in Nat /\ slot < EndOf(SegOf(slot)) /\ Floor(slot) = StartOf(SegOf(slot))
          BY <1>t, SegOfPosition DEF Floor
        <5>2. SegOf(slot) <= j
          BY <3>7, <3>j, <4>2, <5>1, StartsOrder
        <5>3. EndOf(SegOf(slot)) <= EndOf(j) /\ EndOf(SegOf(slot)) \in Int /\ EndOf(j) \in Int
          BY <3>j, <5>1, <5>2, StartsOrder, Starts
        <5>4. slot < EndOf(j)
          BY <1>t, <5>1, <5>3
        <5>5. StartOf(Base) < EndOf(j)
          BY SMTT(30), <1>b, <1>t, <3>s, <5>3, <5>4
        <5>. QED  BY <1>b, <3>j, <5>4, <5>5, StartsOrder
      <4>. QED  BY <4>1, <4>2
    <3>9. /\ First' = 1 /\ InBatch' = 0 /\ InChunker' = 0 /\ Filling(j)' = j
      BY <1>0, <3>1, <3>2, <3>j DEF First, InBatch, InChunker, Filling
    <3>10. PipeInv(j)'
      BY <1>0, <3>1, <3>2, <3>9 DEF PipeInv
    <3>11. StartOf(j) \in Int /\ StartOf(j) >= 0
      BY <1>b, <3>j, <3>8, Starts
    <3>12. ReceiverInv(j)'
      BY <1>0, <1>b, <1>t, <2>1, <2>6, <3>1, <3>7, <3>8, <3>11 DEF ReceiverInv, None
    <3>13. NextInv(t, j)'
      <4>1. "push" \notin world => t <= j
        BY <1>0, <2>4, <2>6, <3>7 DEF NextInv
      <4>2. j <= t + 1
        BY <2>4, <3>j DEF NextInv
      <4>. QED  BY <1>0, <2>1, <3>1, <3>8, <3>9, <3>10, <3>11, <3>12, <4>1, <4>2 DEF NextInv, None
    <3>14. ArchiveInv(t)'
      BY <1>0, <2>2, <3>j, <3>12, <3>13 DEF ArchiveInv
    <3>. QED  BY <2>w, <3>14 DEF OrderInv
  <2>. QED  BY <2>5, <2>6
<1>. QED  BY <1>1, <1>2
\* Where the receive loop is when it copies, and when it hands a segment over.
LEMMA ReceiverPlace ==
  ASSUME TypeOK, NEW r \in Int, ReceiverInv(r)
  PROVE  /\ spc = "copy" => StartOf(r) <= at /\ at < EndOf(r) /\ SegOf(at) = r /\ left > 0
         /\ spc = "hand" => SegOf(at - 1) = r
         /\ StartOf(r) \in Nat /\ EndOf(r) \in Nat /\ EndOf(r) = StartOf(r + 1) /\ StartOf(r) < EndOf(r)
         /\ StartOf(r) >= SegSize
<1>t. at \in Nat /\ next \in Nat
  BY OrderTypes
<1>b. Base \in Nat /\ Base >= 1 /\ SegSize \in Nat /\ SegSize > 0 /\ StartOf(Base) >= SegSize /\ StartOf(Base) \in Int
  BY BaseFacts, Starts
<1>1. r >= Base
  BY DEF ReceiverInv
<1>2. /\ StartOf(r) \in Int /\ EndOf(r) \in Int /\ EndOf(r) = StartOf(r) + SegSize /\ EndOf(r) = StartOf(r + 1)
      /\ StartOf(Base) <= StartOf(r)
  BY <1>1, <1>b, Starts, StartsOrder
<1>3. ASSUME spc = "copy" PROVE StartOf(r) <= at /\ at < EndOf(r) /\ left > 0
  BY <1>2, <1>3, <1>b, <1>t DEF ReceiverInv
<1>4. ASSUME spc = "copy" PROVE SegOf(at) = r
  BY <1>3, <1>4, <1>t, SegOfPosition
<1>5. ASSUME spc = "hand" PROVE SegOf(at - 1) = r
  <2>1. at = EndOf(r) /\ at - 1 \in Nat /\ StartOf(r) <= at - 1 /\ at - 1 < EndOf(r)
    BY <1>2, <1>5, <1>b, <1>t DEF ReceiverInv
  <2>. QED  BY <2>1, SegOfPosition
<1>. QED  BY <1>2, <1>3, <1>4, <1>5, <1>b

\* As much of a record as the segment has room for.
LEMMA OrderCopy ==
  ASSUME TypeOK, PhaseInv, OrderInv, Copy
  PROVE  OrderInv'
<1>t. /\ at \in Nat /\ next \in Nat /\ left \in Nat /\ failed \in BOOLEAN
      /\ batch \in Seq(Segs) /\ pending \in Seq(Segs) /\ pos \in Nat
  BY OrderTypes
<1>b. WalEnd \in Nat /\ SegSize \in Nat /\ SegSize > 0
  BY BaseFacts
<1>0. /\ spc = "copy"
      /\ UNCHANGED <<world, committed, slot, synced, asked, pending, batch, cur, pos, failed, ppc>>
  BY DEF Copy, NoFault, repository, processor
<1>w. WayInv'
  BY <1>0 DEF OrderInv, WayInv, Range
<1>1. PICK t \in Int : ArchiveInv(t)
  BY DEF OrderInv
<1>2. ASSUME NEW r \in Int, ReceiverInv(r) PROVE ReceiverInv(r)'
  <2>1. /\ StartOf(r) <= at /\ at < EndOf(r) /\ SegOf(at) = r /\ left > 0
        /\ StartOf(r) \in Nat /\ EndOf(r) \in Nat /\ StartOf(r) >= SegSize
    BY <1>0, <1>2, ReceiverPlace
  <2>2. PICK n \in Int : /\ n = Min({left, EndOf(r) - at})
                         /\ at' = at + n /\ next' = at + n /\ left' = left - n /\ haveSeg'
                         /\ spc' = IF at + n = EndOf(r) THEN "hand" ELSE "recv"
    <3>1. Min({left, EndOf(r) - at}) \in Int
      BY <1>t, <2>1, MinOfTwo
    <3>. QED  BY <2>1, <3>1 DEF Copy
  <2>3. n = IF left <= EndOf(r) - at THEN left ELSE EndOf(r) - at
    <3>1. EndOf(r) - at \in Int /\ left \in Int
      BY <1>t, <2>1
    <3>. QED  BY <2>2, <3>1, MinOfTwo
  <2>4. /\ n > 0 /\ n <= left /\ at + n <= EndOf(r) /\ (at + n < EndOf(r) => n = left)
    BY SMTT(30), <1>t, <2>1, <2>2, <2>3
  <2>5. at + left <= WalEnd /\ r >= Base /\ StartOf(r) <= WalEnd
    BY <1>0, <1>2 DEF ReceiverInv
  <2>6. next' > 0 /\ next' <= WalEnd /\ StartOf(r) < next'
    BY SMTT(30), <1>b, <1>t, <2>1, <2>2, <2>4, <2>5
  <2>7. spc' = "hand" => next' = EndOf(r)
    BY <2>2
  <2>8. spc' # "hand" => spc' = "recv" /\ next' < EndOf(r)
    BY <1>t, <2>1, <2>2, <2>4
  <2>9. at' = next' /\ at' + left' <= WalEnd
    BY <1>t, <2>2, <2>5
  <2>. QED  BY <2>2, <2>5, <2>6, <2>7, <2>8, <2>9 DEF ReceiverInv, None
<1>3. ASSUME NEW k \in Int, NextInv(t, k) PROVE NextInv(t, k)'
  <2>1. UNCHANGED <<First, InBatch, InChunker, Filling(k)>> /\ Filling(k) \in Int
    BY <1>0, <1>t DEF First, InBatch, InChunker, Filling
  <2>2. PipeInv(k)'
    BY <1>0, <1>3, <2>1 DEF NextInv, PipeInv
  <2>3. ReceiverInv(Filling(k))
    BY <1>0, <1>3 DEF NextInv, Streaming
  <2>4. ReceiverInv(Filling(k))'
    <3>1. \A r \in Int : ReceiverInv(r) => ReceiverInv(r)'
      BY <1>2
    <3>2. PICK r \in Int : r = Filling(k)
      BY <2>1
    <3>3. ReceiverInv(r)'
      BY <2>3, <3>1, <3>2
    <3>. QED  BY <2>1, <3>2, <3>3 DEF ReceiverInv
  <2>5. next' # None
    <3>1. /\ SegOf(at) = Filling(k) /\ at < EndOf(Filling(k)) /\ left > 0 /\ EndOf(Filling(k)) \in Nat
      BY <1>0, <2>1, <2>3, ReceiverPlace
    <3>. QED  BY <1>t, <3>1, MinOfTwo DEF Copy, None
  <2>. QED  BY <1>0, <1>3, <2>2, <2>4, <2>5 DEF NextInv, StartOf, EndOf
<1>4. ArchiveInv(t)'
  BY <1>0, <1>1, <1>2, <1>3 DEF ArchiveInv, EndOf, Streaming
<1>. QED  BY <1>w, <1>4 DEF OrderInv

\* A full segment goes into the channel.
LEMMA OrderHandOff ==
  ASSUME TypeOK, PhaseInv, OrderInv, HandOff
  PROVE  OrderInv'
<1>t. /\ at \in Nat /\ next \in Nat /\ left \in Nat /\ failed \in BOOLEAN
      /\ batch \in Seq(Segs) /\ pending \in Seq(Segs) /\ pos \in Nat
  BY OrderTypes
<1>b. WalEnd \in Nat /\ SegSize \in Nat /\ SegSize > 0 /\ Base \in Nat
  BY BaseFacts
<1>0. /\ spc = "hand" /\ pending' = Append(pending, SegOf(at - 1)) /\ ~haveSeg'
      /\ spc' = IF left > 0 THEN "copy" ELSE "recv"
      /\ UNCHANGED <<world, committed, slot, synced, asked, next, at, left, batch, cur, pos, failed, ppc>>
  BY DEF HandOff, NoFault, repository, processor
<1>1. PICK t \in Int : ArchiveInv(t)
  BY DEF OrderInv
<1>2. ASSUME NEW r \in Int, ReceiverInv(r)
      PROVE  /\ ReceiverInv(r + 1)' /\ SegOf(at - 1) = r
             /\ Base <= r /\ EndOf(r) <= WalEnd
  <2>1. /\ SegOf(at - 1) = r /\ StartOf(r) \in Nat /\ EndOf(r) \in Nat /\ EndOf(r) = StartOf(r + 1)
    BY <1>0, <1>2, ReceiverPlace
  <2>2. /\ at = next /\ next = EndOf(r) /\ at + left <= WalEnd /\ next <= WalEnd /\ r >= Base /\ next # None
    BY <1>0, <1>2 DEF ReceiverInv
  <2>3. EndOf(r + 1) \in Int /\ EndOf(r + 1) = StartOf(r + 1) + SegSize
    BY Starts
  <2>. QED  BY <1>0, <1>b, <1>t, <2>1, <2>2, <2>3 DEF ReceiverInv, None
<1>3. ASSUME NEW k \in Int, NextInv(t, k) PROVE NextInv(t, k)'
  <2>1. UNCHANGED <<First, InBatch, InChunker>> /\ Filling(k)' = Filling(k) + 1 /\ Filling(k) \in Int
    BY <1>0, <1>t DEF First, InBatch, InChunker, Filling
  <2>3. ReceiverInv(Filling(k))
    BY <1>0, <1>3 DEF NextInv, Streaming
  <2>r. PICK r \in Int : r = Filling(k)
    BY <2>1
  <2>4. SegOf(at - 1) = Filling(k) /\ ReceiverInv(r + 1)'
    BY <1>2, <2>r, <2>3
  <2>2. PipeInv(k)'
    <3>1. PipeInv(k)
      BY <1>3 DEF NextInv
    <3>2. /\ Len(pending') = Len(pending) + 1 /\ pending'[Len(pending) + 1] = Filling(k)
          /\ \A i \in 1 .. Len(pending) : pending'[i] = pending[i]
      BY <1>0, <1>t, <2>4
    <3>3. InBatch \in Int /\ InChunker \in Int /\ First \in Int
      BY <1>t DEF InBatch, InChunker, First
    <3>4. \A i \in 1 .. Len(pending') : pending'[i] = k + InBatch + InChunker + i - 1
      BY SMTT(30), <1>t, <3>1, <3>2, <3>3 DEF PipeInv, Filling
    <3>. QED  BY <1>0, <2>1, <3>1, <3>4 DEF PipeInv
  <2>5. ReceiverInv(Filling(k))'
    BY <2>1, <2>4, <2>r DEF ReceiverInv
  <2>6. next # None
    BY <1>0, <2>3 DEF ReceiverInv
  <2>. QED  BY <1>0, <1>3, <2>2, <2>5, <2>6 DEF NextInv, StartOf, EndOf
<1>4. PICK r \in Int : ReceiverInv(r)
  BY <1>0, <1>1 DEF ArchiveInv, Streaming
<1>5. ArchiveInv(t)'
  BY <1>0, <1>1, <1>2, <1>3, <1>4 DEF ArchiveInv, EndOf, Streaming
<1>6. WayInv'
  <2>1. Range(pending') \subseteq Range(pending) \cup {r}
    BY <1>0, <1>t, <1>2, <1>4 DEF Range
  <2>. QED  BY <1>0, <1>2, <1>4, <2>1 DEF OrderInv, WayInv, Range, EndOf
<1>. QED  BY <1>5, <1>6 DEF OrderInv
\* The chunker takes the next segment, or throws it away.
LEMMA OrderTakeJob ==
  ASSUME TypeOK, PhaseInv, OrderInv, TakeJob
  PROVE  OrderInv'
<1>t. batch \in Seq(Segs) /\ pending \in Seq(Segs) /\ pos \in Nat /\ failed \in BOOLEAN /\ next \in Nat
  BY OrderTypes
<1>0. /\ ppc = "wait" /\ pending # <<>> /\ pending' = Tail(pending)
      /\ UNCHANGED <<world, committed, slot, synced, spc, asked, next, at, left, haveSeg, batch, pos, failed>>
  BY DEF TakeJob, NoFault, repository, receiver
<1>h. /\ Len(pending) > 0 /\ Len(pending') = Len(pending) - 1 /\ Head(pending) = pending[1] /\ Head(pending) \in Segs
      /\ \A i \in 1 .. Len(pending') : pending'[i] = pending[i + 1]
  BY <1>0, <1>t
<1>c. cur = None /\ Head(pending) # None
  BY <1>0, <1>h, BaseFacts DEF PhaseInv
<1>1. PICK t \in Int : ArchiveInv(t)
  BY DEF OrderInv
<1>2. ASSUME NEW r \in Int, spc \in Streaming, ReceiverInv(r) PROVE ReceiverInv(r)'
  BY <1>0, <1>2 DEF ReceiverInv, StartOf, EndOf
<1>3. ASSUME NEW k \in Int, NextInv(t, k), ~failed PROVE NextInv(t, k)'
  <2>0. ppc' = "chunk" /\ cur' = Head(pending)
    BY <1>3 DEF TakeJob
  <2>1. /\ UNCHANGED <<First, InBatch>> /\ InChunker = 0 /\ InChunker' = 1
        /\ InBatch \in Int /\ First \in Int
        /\ Filling(k)' = Filling(k) /\ Filling(k) \in Int
    BY <1>0, <1>t, <1>h, <1>c, <2>0 DEF First, InBatch, InChunker, Filling
  <2>2. PipeInv(k)'
    <3>1. PipeInv(k)
      BY <1>3 DEF NextInv
    <3>2. cur' = k + InBatch'
      BY <1>h, <2>0, <2>1, <3>1 DEF PipeInv
    <3>3. \A i \in 1 .. Len(pending') : pending'[i] = k + InBatch' + InChunker' + i - 1
      BY <1>t, <1>h, <2>1, <3>1 DEF PipeInv
    <3>. QED  BY <1>0, <2>0, <2>1, <3>1, <3>2, <3>3 DEF PipeInv
  <2>3. spc' \in Streaming => ReceiverInv(Filling(k))'
    BY <1>0, <1>3, <2>1 DEF NextInv, ReceiverInv, StartOf, EndOf
  <2>. QED  BY <1>0, <1>3, <2>0, <2>2, <2>3 DEF NextInv, StartOf, EndOf
<1>4. ArchiveInv(t)'
  BY <1>0, <1>1, <1>2, <1>3 DEF ArchiveInv, EndOf
<1>5. WayInv'
  <2>0. DOMAIN pending = 1 .. Len(pending) /\ DOMAIN (pending') = 1 .. Len(pending') /\ Len(pending) \in Nat
    BY <1>0, <1>t
  <2>1. Range(pending') \subseteq Range(pending) /\ Head(pending) \in Range(pending)
    BY <1>h, <2>0 DEF Range
  <2>2. cur' \in Range(pending) \cup {None}
    BY <1>c, <2>1 DEF TakeJob
  <2>. QED  BY <1>0, <2>1, <2>2 DEF OrderInv, WayInv, Range, EndOf
<1>. QED  BY <1>4, <1>5 DEF OrderInv

\* A segment is chunked, and joins the batch.
LEMMA OrderChunked ==
  ASSUME TypeOK, PhaseInv, OrderInv, Chunked
  PROVE  OrderInv'
<1>t. batch \in Seq(Segs) /\ pending \in Seq(Segs) /\ pos \in Nat /\ failed \in BOOLEAN /\ next \in Nat /\ cur \in Segs \cup {None}
  BY OrderTypes
<1>0. /\ ppc = "chunk" /\ batch' = Append(batch, cur) /\ cur' = None /\ ppc' \in {"sync", "wait"}
      /\ UNCHANGED <<world, committed, slot, synced, spc, asked, next, at, left, haveSeg, pending, pos, failed>>
  BY DEF Chunked, NoFault, repository, receiver, queue
<1>c. cur # None /\ cur \in Segs /\ ~failed /\ pos = 1
  BY <1>0, <1>t DEF PhaseInv
<1>h. /\ Len(batch') = Len(batch) + 1 /\ batch'[Len(batch) + 1] = cur
      /\ \A i \in 1 .. Len(batch) : batch'[i] = batch[i]
  BY <1>0, <1>c, <1>t
<1>1. PICK t \in Int : ArchiveInv(t)
  BY DEF OrderInv
<1>2. ASSUME NEW r \in Int, spc \in Streaming, ReceiverInv(r) PROVE ReceiverInv(r)'
  BY <1>0, <1>2 DEF ReceiverInv, StartOf, EndOf
<1>3. ASSUME NEW k \in Int, NextInv(t, k) PROVE NextInv(t, k)'
  <2>1. /\ First = 1 /\ First' = 1 /\ InBatch = Len(batch) /\ InBatch' = Len(batch) + 1
        /\ InChunker = 1 /\ InChunker' = 0
        /\ Filling(k)' = Filling(k) /\ Filling(k) \in Int
    BY <1>0, <1>t, <1>c, <1>h DEF First, InBatch, InChunker, Filling
  <2>2. PipeInv(k)'
    <3>1. PipeInv(k)
      BY <1>3 DEF NextInv
    <3>2. \A i \in 1 .. Len(batch') : batch'[i] = k + i - 1
      <4>1. cur = k + Len(batch) /\ \A i \in 1 .. Len(batch) : batch[i] = k + i - 1
        BY <1>c, <2>1, <3>1 DEF PipeInv
      <4>2. Len(batch) \in Nat
        BY <1>t
      <4>. QED  BY <1>h, <4>1, <4>2
    <3>3. \A i \in 1 .. Len(pending') : pending'[i] = k + InBatch' + InChunker' + i - 1
      BY <1>0, <1>t, <2>1, <3>1 DEF PipeInv
    <3>. QED  BY <1>0, <2>1, <3>2, <3>3 DEF PipeInv
  <2>3. spc' \in Streaming => ReceiverInv(Filling(k))'
    BY <1>0, <1>3, <2>1 DEF NextInv, ReceiverInv, StartOf, EndOf
  <2>. QED  BY <1>0, <1>3, <2>2, <2>3 DEF NextInv, StartOf, EndOf
<1>4. ArchiveInv(t)'
  BY <1>0, <1>1, <1>2, <1>3 DEF ArchiveInv, EndOf
<1>5. WayInv'
  <2>1. Range(batch') \subseteq Range(batch) \cup {cur}
    BY <1>c, <1>t, <1>h DEF Range
  <2>. QED  BY <1>0, <1>c, <2>1 DEF OrderInv, WayInv, Range, EndOf
<1>. QED  BY <1>4, <1>5 DEF OrderInv

\* The segment that is being committed is the next one.
LEMMA CommitsNext ==
  ASSUME TypeOK, PhaseInv, OrderInv, ppc \in {"commit", "confirm"}
  PROVE  \E t, k \in Int :
           /\ ArchiveInv(t) /\ NextInv(t, k) /\ batch[pos] = k /\ Base <= k /\ k <= t + 1
           /\ EndOf(k) <= WalEnd /\ slot < EndOf(k) /\ synced <= StartOf(k)
           /\ ("push" \notin world => t <= k) /\ (ppc = "confirm" => k <= t)
<1>1. PICK t \in Int : ArchiveInv(t)
  BY DEF OrderInv
<1>2. ~failed /\ ppc # "done" /\ pos <= Len(batch) /\ pos \in Nat /\ pos >= 1 /\ batch \in Seq(Segs)
  BY OrderTypes DEF PhaseInv
<1>3. PICK k \in Int : NextInv(t, k)
  BY <1>1, <1>2 DEF ArchiveInv
<1>4. batch[pos] = k
  BY <1>2, <1>3 DEF NextInv, PipeInv, First
<1>5. EndOf(k) <= WalEnd
  BY <1>2, <1>4 DEF OrderInv, WayInv, Range
<1>. QED  BY <1>1, <1>3, <1>4, <1>5 DEF NextInv

\* A segment is added to the archive: it is the next one, or is there.
LEMMA ArchiveGrows ==
  ASSUME NEW t \in Int, NEW k \in Int, ArchiveInv(t), TypeOK, Base <= k, k <= t + 1, EndOf(k) <= WalEnd
  PROVE  \E u \in Int : /\ committed \cup {k} = Base .. u /\ u >= t /\ u >= k /\ u <= IF t < k THEN k ELSE t
                        /\ EndOf(u) <= WalEnd /\ slot < EndOf(u + 1) /\ synced <= EndOf(u)
<1>t. slot \in Nat /\ synced \in Nat /\ Base \in Nat
  BY OrderTypes, BaseFacts
<1>0. committed = Base .. t /\ EndOf(t) <= WalEnd /\ slot < EndOf(t + 1) /\ synced <= EndOf(t)
  BY DEF ArchiveInv
<1>1. CASE k <= t
  <2>1. committed \cup {k} = Base .. t
    BY <1>0, <1>1, <1>t
  <2>. QED  BY <1>0, <1>1, <2>1
<1>2. CASE k = t + 1
  <2>1. committed \cup {k} = Base .. k
    BY <1>0, <1>2, <1>t
  <2>2. /\ EndOf(t + 1) <= EndOf(k + 1) /\ EndOf(t) <= EndOf(k)
        /\ EndOf(t + 1) \in Int /\ EndOf(k + 1) \in Int /\ EndOf(t) \in Int /\ EndOf(k) \in Int
    BY <1>2, Starts, StartsOrder
  <2>3. slot < EndOf(k + 1) /\ synced <= EndOf(k)
    BY <1>0, <1>t, <2>2
  <2>. QED  BY <1>2, <2>1, <2>3
<1>. QED  BY <1>1, <1>2
\* The next segment joins the archive.
LEMMA OrderCommit ==
  ASSUME TypeOK, PhaseInv, OrderInv, Commit
  PROVE  OrderInv'
<1>0. /\ ppc = "commit" /\ ppc' = "confirm" /\ committed' = committed \cup {batch[pos]}
      /\ UNCHANGED <<world, slot, synced, spc, asked, next, at, left, haveSeg, pending, batch, cur, pos, failed>>
  BY DEF Commit, CommitEffect, NoFault, receiver, queue
<1>1. PICK t \in Int, k \in Int :
           /\ ArchiveInv(t) /\ NextInv(t, k) /\ batch[pos] = k /\ Base <= k /\ k <= t + 1
           /\ EndOf(k) <= WalEnd /\ ("push" \notin world => t <= k)
  BY <1>0, CommitsNext
<1>2. PICK u \in Int : /\ committed' = Base .. u /\ u >= t /\ u >= k /\ u <= IF t < k THEN k ELSE t
                       /\ EndOf(u) <= WalEnd /\ slot < EndOf(u + 1) /\ synced <= EndOf(u)
  BY <1>0, <1>1, ArchiveGrows
<1>3. ASSUME NEW r \in Int, spc \in Streaming, ReceiverInv(r) PROVE ReceiverInv(r)'
  BY <1>0, <1>3 DEF ReceiverInv, StartOf, EndOf
<1>4. NextInv(u, k)'
  <2>1. UNCHANGED <<First, InBatch, InChunker, Filling(k)>>
    BY <1>0 DEF First, InBatch, InChunker, Filling
  <2>2. PipeInv(k)'
    BY <1>0, <1>1, <2>1 DEF NextInv, PipeInv
  <2>3. spc' \in Streaming => ReceiverInv(Filling(k))'
    BY <1>0, <1>1, <2>1 DEF NextInv, ReceiverInv, StartOf, EndOf
  <2>4. spc = "recv" => next # None
    BY <1>0, <1>1 DEF NextInv, ReceiverInv, Streaming
  <2>. QED  BY <1>0, <1>1, <1>2, <2>2, <2>3, <2>4 DEF NextInv, StartOf, EndOf
<1>5. ArchiveInv(u)'
  <2>1. u >= Base - 1 /\ (synced # None => slot <= synced)
    BY <1>1, <1>2, BaseFacts DEF ArchiveInv
  <2>2. spc \in Streaming => \E r \in Int : ReceiverInv(r)'
    BY <1>1, <1>3 DEF ArchiveInv
  <2>3. /\ slot' < EndOf(u + 1) /\ synced' <= EndOf(u) /\ EndOf(u) <= WalEnd
    BY <1>0, <1>2
  <2>. QED  BY <1>0, <1>2, <1>4, <2>1, <2>2, <2>3 DEF ArchiveInv
<1>6. WayInv'
  BY <1>0 DEF OrderInv, WayInv, Range
<1>. QED  BY <1>5, <1>6 DEF OrderInv

\* It joins though the commit reports a failure.
LEMMA OrderUnanswered ==
  ASSUME TypeOK, PhaseInv, OrderInv, CommitUnanswered
  PROVE  OrderInv'
<1>0. /\ ppc = "commit" /\ Fail /\ committed' = committed \cup {batch[pos]}
      /\ UNCHANGED <<world, slot, synced, spc, asked, next, at, left, haveSeg, pending, batch, pos>>
  BY DEF CommitUnanswered, CommitEffect, Fault, receiver, queue
<1>1. PICK t \in Int, k \in Int :
           /\ ArchiveInv(t) /\ batch[pos] = k /\ Base <= k /\ k <= t + 1 /\ EndOf(k) <= WalEnd
  BY <1>0, CommitsNext
<1>2. PICK u \in Int : /\ committed' = Base .. u /\ u >= t
                       /\ EndOf(u) <= WalEnd /\ slot < EndOf(u + 1) /\ synced <= EndOf(u)
  BY <1>0, <1>1, ArchiveGrows
<1>3. u >= Base - 1
  BY <1>1, <1>2, BaseFacts DEF ArchiveInv
<1>. QED  BY <1>0, <1>2, <1>3, OrderFail

\* A manifest that Confirm takes back is the last one.
LEMMA OrderTakenBack ==
  ASSUME TypeOK, PhaseInv, OrderInv, ppc = "confirm", Fail, "push" \notin world,
         committed' = committed \ {batch[pos]},
         UNCHANGED <<world, slot, synced, spc, asked, next, at, left, haveSeg, pending, batch, pos>>
  PROVE  OrderInv'
<1>1. PICK t \in Int, k \in Int :
           /\ ArchiveInv(t) /\ batch[pos] = k /\ Base <= k /\ k = t
           /\ slot < EndOf(k) /\ synced <= StartOf(k)
  BY CommitsNext
<1>t. slot \in Nat /\ synced \in Nat /\ Base \in Nat /\ WalEnd \in Nat
  BY OrderTypes, BaseFacts
<1>2. committed' = Base .. (t - 1)
  BY <1>1, <1>t DEF ArchiveInv
<1>3. /\ EndOf(t - 1) = StartOf(t) /\ EndOf(t - 1) <= EndOf(t)
      /\ EndOf(t - 1) \in Int /\ EndOf(t) \in Int
  <2>1. t - 1 \in Int /\ (t - 1) + 1 = t
    OBVIOUS
  <2>. QED  BY <2>1, Starts, StartsOrder
<1>4. EndOf(t - 1) <= WalEnd
  BY <1>1, <1>3, <1>t DEF ArchiveInv
<1>5. PICK u \in Int : u = t - 1 /\ u + 1 = t
  OBVIOUS
<1>6. /\ committed' = Base .. u /\ u >= Base - 1 /\ EndOf(u) <= WalEnd
      /\ slot < EndOf(u + 1) /\ synced <= EndOf(u)
  BY <1>1, <1>2, <1>3, <1>4, <1>5, <1>t
<1>. QED  BY <1>6, OrderFail

\* Confirm vouches for the segment, or takes it back; or tries to.
LEMMA OrderConfirm ==
  ASSUME TypeOK, PhaseInv, SafeWorld(world), OrderInv, Confirm \/ ConfirmBlind \/ ConfirmFails
  PROVE  OrderInv'
<1>t. batch \in Seq(Segs) /\ pending \in Seq(Segs) /\ pos \in Nat /\ slot \in Nat /\ synced \in Nat /\ cur \in Segs \cup {None}
  BY OrderTypes
<1>0. /\ ppc = "confirm"
      /\ UNCHANGED <<world, slot, synced, spc, asked, next, at, left, haveSeg, pending, batch, pos>>
  BY DEF Confirm, ConfirmBlind, ConfirmFails, NoFault, Fault, receiver, queue
<1>1. ASSUME NEW removes \in BOOLEAN, TakeBack(removes), Looks PROVE OrderInv'
  <2>1. "push" \notin world
    BY <1>1 DEF Looks, SafeWorld
  <2>2. Fail /\ committed' \in {committed, committed \ {batch[pos]}}
    BY <1>1 DEF TakeBack
  <2>3. CASE committed' = committed \ {batch[pos]}
    BY <1>0, <2>1, <2>2, <2>3, OrderTakenBack
  <2>4. CASE committed' = committed
    <3>1. PICK t \in Int : ArchiveInv(t)
      BY DEF OrderInv
    <3>. QED  BY <1>0, <2>2, <2>4, <3>1, OrderFail DEF ArchiveInv
  <2>. QED  BY <2>2, <2>3, <2>4
<1>2. CASE Confirmed
  <2>0. ppc' = "advance" /\ UNCHANGED <<committed, cur, failed>>
    BY <1>2 DEF Confirmed
  <2>1. PICK t \in Int, k \in Int :
           /\ ArchiveInv(t) /\ NextInv(t, k) /\ batch[pos] = k /\ Base <= k /\ k <= t
           /\ ("push" \notin world => t <= k)
    BY <1>0, CommitsNext
  <2>2. ASSUME NEW r \in Int, spc \in Streaming, ReceiverInv(r) PROVE ReceiverInv(r)'
    BY <1>0, <2>0, <2>2 DEF ReceiverInv, StartOf, EndOf
  <2>j. PICK j \in Int : j = k + 1 /\ j - 1 = k
    OBVIOUS
  <2>3. NextInv(t, j)'
    <3>1. /\ First = pos /\ First' = pos + 1 /\ InBatch' = InBatch - 1 /\ InChunker' = InChunker
          /\ InBatch \in Int /\ InChunker \in Int
          /\ Filling(j)' = Filling(k) /\ Filling(k) \in Int
      BY <1>0, <1>t, <2>0, <2>j DEF First, InBatch, InChunker, Filling
    <3>2. PipeInv(k)
      BY <2>1 DEF NextInv
    <3>3. PipeInv(j)'
      BY <1>0, <1>t, <2>0, <2>1, <2>j, <3>1, <3>2 DEF PipeInv
    <3>4. spc' \in Streaming => ReceiverInv(Filling(j))'
      BY <1>0, <2>0, <2>1, <3>1 DEF NextInv, ReceiverInv, StartOf, EndOf
    <3>5. spc = "recv" => next # None
      BY <1>0, <2>1 DEF NextInv, ReceiverInv, Streaming
    <3>6. /\ Base <= j /\ j <= t + 1 /\ ("push" \notin world' => t <= j)
          /\ synced' <= StartOf(j - 1) /\ slot' < EndOf(j - 1)
      BY <1>0, <2>1, <2>j, BaseFacts DEF NextInv
    <3>. QED  BY <1>0, <2>0, <3>3, <3>4, <3>5, <3>6 DEF NextInv, StartOf, EndOf
  <2>4. ArchiveInv(t)'
    BY <1>0, <2>0, <2>1, <2>2, <2>3 DEF ArchiveInv, EndOf
  <2>5. WayInv'
    BY <1>0, <2>0 DEF OrderInv, WayInv, Range
  <2>. QED  BY <2>4, <2>5 DEF OrderInv
<1>. QED  BY <1>1, <1>2 DEF Confirm, ConfirmBlind, ConfirmFails

\* SyncedLSN moves to the end of what was committed.
LEMMA OrderAdvance ==
  ASSUME TypeOK, PhaseInv, OrderInv, Advance
  PROVE  OrderInv'
<1>t. /\ batch \in Seq(Segs) /\ pending \in Seq(Segs) /\ pos \in Nat /\ pos >= 1 /\ slot \in Nat /\ synced \in Nat
      /\ cur \in Segs \cup {None} /\ Base \in Nat /\ Base >= 1 /\ SegSize \in Nat /\ SegSize > 0
  BY OrderTypes, BaseFacts
<1>0. /\ ppc = "advance" /\ ppc' \in {"fence", "wait"} /\ synced' = EndOf(batch[pos]) /\ pos <= Len(batch) /\ ~failed
      /\ IF pos < Len(batch) THEN pos' = pos + 1 /\ batch' = batch ELSE pos' = 1 /\ batch' = <<>>
      /\ UNCHANGED <<world, committed, slot, spc, asked, next, at, left, haveSeg, pending, cur, failed>>
  BY DEF Advance, NoFault, receiver, queue, repository, PhaseInv
<1>1. PICK t \in Int : ArchiveInv(t)
  BY DEF OrderInv
<1>2. PICK k \in Int : NextInv(t, k)
  BY <1>0, <1>1 DEF ArchiveInv
<1>3. batch[pos] = k - 1 /\ slot < EndOf(k - 1) /\ k <= t + 1 /\ Base <= k - 1
  <2>1. Base <= k - 1
    BY <1>0, <1>2, <1>t DEF NextInv, PipeInv, OrderInv, WayInv, Range
  <2>. QED  BY <1>0, <1>2, <2>1 DEF NextInv, PipeInv
<1>4. /\ EndOf(k - 1) = StartOf(k) /\ StartOf(k) \in Int /\ EndOf(k) \in Int /\ EndOf(t) \in Int
      /\ EndOf(k - 1) <= EndOf(t) /\ EndOf(k) = StartOf(k) + SegSize
  <2>1. k - 1 \in Int /\ (k - 1) + 1 = k /\ k - 1 <= t
    BY <1>3
  <2>. QED  BY <2>1, Starts, StartsOrder
<1>5. ASSUME NEW r \in Int, spc \in Streaming, ReceiverInv(r) PROVE ReceiverInv(r)'
  BY <1>0, <1>5 DEF ReceiverInv, StartOf, EndOf
<1>6. NextInv(t, k)'
  <2>1. /\ First = pos + 1 /\ First' = IF pos < Len(batch) THEN pos + 1 ELSE 1
        /\ InBatch' = InBatch /\ InChunker' = InChunker
        /\ Filling(k)' = Filling(k)
    BY <1>0, <1>t DEF First, InBatch, InChunker, Filling
  <2>2. PipeInv(k)
    BY <1>2 DEF NextInv
  <2>3. PipeInv(k)'
    <3>1. CASE pos < Len(batch)
      <4>1. \A i \in First' .. Len(batch') : batch'[i] = k + i - First'
        BY <1>0, <2>1, <2>2, <3>1 DEF PipeInv
      <4>. QED  BY <1>0, <2>1, <2>2, <4>1 DEF PipeInv
    <3>2. CASE ~ pos < Len(batch)
      <4>1. First' .. Len(batch') = {}
        BY <1>0, <2>1, <3>2
      <4>. QED  BY <1>0, <2>1, <2>2, <4>1 DEF PipeInv
    <3>. QED  BY <3>1, <3>2
  <2>4. spc' \in Streaming => ReceiverInv(Filling(k))'
    BY <1>0, <1>2, <2>1 DEF NextInv, ReceiverInv, StartOf, EndOf
  <2>5. spc = "recv" => next # None
    BY <1>0, <1>2 DEF NextInv, ReceiverInv, Streaming
  <2>6. synced' <= StartOf(k) /\ slot' < EndOf(k)
    BY <1>0, <1>3, <1>4, <1>t
  <2>. QED  BY <1>0, <1>2, <2>3, <2>4, <2>5, <2>6 DEF NextInv, StartOf, EndOf
<1>7. ArchiveInv(t)'
  BY SMTT(30), <1>0, <1>1, <1>3, <1>4, <1>5, <1>6, <1>t DEF ArchiveInv
<1>8. WayInv'
  BY <1>0 DEF OrderInv, WayInv, Range
<1>. QED  BY <1>7, <1>8 DEF OrderInv

\* PostgreSQL is told what is in the archive.
LEMMA OrderSendStatus ==
  ASSUME TypeOK, PhaseInv, OrderInv, SendStatus
  PROVE  OrderInv'
<1>t. slot \in Nat /\ synced \in Nat /\ Base \in Nat /\ Base >= 1 /\ SegSize \in Nat /\ SegSize > 0
  BY OrderTypes, BaseFacts
<1>0. /\ slot' = synced /\ synced # None /\ spc \in Streaming
      /\ UNCHANGED <<world, committed, synced, spc, asked, next, at, left, haveSeg, pending, batch, cur, pos, failed, ppc>>
  BY DEF SendStatus, FlushLSN, NoFault, repository, receiver, queue, processor
<1>1. PICK t \in Int : ArchiveInv(t)
  BY DEF OrderInv
<1>2. synced <= EndOf(t) /\ EndOf(t) < EndOf(t + 1) /\ EndOf(t) \in Int /\ EndOf(t + 1) \in Int
  <2>1. EndOf(t) = StartOf(t + 1) /\ EndOf(t + 1) = StartOf(t + 1) + SegSize /\ EndOf(t) \in Int /\ EndOf(t + 1) \in Int
    BY Starts
  <2>. QED  BY <1>1, <1>t, <2>1 DEF ArchiveInv
<1>3. ASSUME NEW r \in Int, ReceiverInv(r) PROVE ReceiverInv(r)'
  BY <1>0, <1>3 DEF ReceiverInv, StartOf, EndOf
<1>4. ASSUME NEW k \in Int, NextInv(t, k) PROVE NextInv(t, k)'
  <2>1. UNCHANGED <<First, InBatch, InChunker, Filling(k)>>
    BY <1>0 DEF First, InBatch, InChunker, Filling
  <2>2. PipeInv(k)'
    BY <1>0, <1>4, <2>1 DEF NextInv, PipeInv
  <2>3. ReceiverInv(Filling(k))'
    BY <1>0, <1>4, <2>1 DEF NextInv, ReceiverInv, StartOf, EndOf
  <2>4. PICK j \in Int : j = IF ppc = "advance" THEN k - 1 ELSE k
    OBVIOUS
  <2>5. synced <= StartOf(j) /\ StartOf(j) \in Int /\ EndOf(j) \in Int /\ EndOf(j) = StartOf(j) + SegSize
    BY <1>4, <2>4, Starts DEF NextInv
  <2>6. slot' < EndOf(j)
    BY <1>0, <1>t, <2>5
  <2>. QED  BY <1>0, <1>4, <2>2, <2>3, <2>4, <2>5, <2>6 DEF NextInv
<1>5. ArchiveInv(t)'
  <2>1. slot' < EndOf(t + 1) /\ synced' <= EndOf(t) /\ slot' <= synced'
    BY <1>0, <1>2, <1>t
  <2>. QED  BY <1>0, <1>1, <1>3, <1>4, <2>1 DEF ArchiveInv
<1>6. WayInv'
  BY <1>0 DEF OrderInv, WayInv, Range
<1>. QED  BY <1>5, <1>6 DEF OrderInv

\* The archiver pushes the segment behind the archive.
LEMMA OrderPush ==
  ASSUME TypeOK, PhaseInv, OrderInv, NEW s \in Segs, PushSegment(s)
  PROVE  OrderInv'
<1>t. slot \in Nat /\ synced \in Nat /\ Base \in Nat /\ Base >= 1 /\ SegSize \in Nat /\ SegSize > 0 /\ s \in Nat
  BY OrderTypes, BaseFacts
<1>0. /\ s \notin committed /\ EndOf(s) <= WalEnd /\ (s - 1 \in committed \/ s = Base)
      /\ committed' = committed \cup {s} /\ "push" \in world
      /\ UNCHANGED <<world, slot, synced, spc, asked, next, at, left, haveSeg, pending, batch, cur, pos, failed, ppc>>
  BY DEF PushSegment, Fault, receiver, queue, processor
<1>1. PICK t \in Int : ArchiveInv(t)
  BY DEF OrderInv
<1>2. s = t + 1 /\ committed' = Base .. s
  BY <1>0, <1>1, <1>t DEF ArchiveInv
<1>3. slot < EndOf(s + 1) /\ synced <= EndOf(s)
  <2>1. EndOf(t) = StartOf(s) /\ EndOf(s) = StartOf(s) + SegSize /\ EndOf(s + 1) = EndOf(s) + SegSize
        /\ StartOf(s) \in Int /\ EndOf(t + 1) = EndOf(s)
    BY <1>2, <1>t, Starts
  <2>. QED  BY <1>1, <1>t, <2>1 DEF ArchiveInv
<1>4. ASSUME NEW r \in Int, ReceiverInv(r) PROVE ReceiverInv(r)'
  BY <1>0, <1>4 DEF ReceiverInv, StartOf, EndOf
<1>5. ASSUME NEW k \in Int, NextInv(t, k) PROVE NextInv(s, k)'
  <2>1. UNCHANGED <<First, InBatch, InChunker, Filling(k)>>
    BY <1>0 DEF First, InBatch, InChunker, Filling
  <2>2. PipeInv(k)'
    BY <1>0, <1>5, <2>1 DEF NextInv, PipeInv
  <2>3. spc \in Streaming => ReceiverInv(Filling(k))'
    BY <1>0, <1>5, <2>1 DEF NextInv, ReceiverInv, StartOf, EndOf
  <2>4. k <= s + 1 /\ (ppc = "confirm" => k <= s)
    BY <1>2, <1>5 DEF NextInv
  <2>. QED  BY <1>0, <1>5, <2>2, <2>3, <2>4 DEF NextInv, StartOf, EndOf
<1>6. ArchiveInv(s)'
  <2>1. s >= Base - 1 /\ s \in Int
    BY <1>0, <1>1, <1>2, <1>t DEF ArchiveInv
  <2>. QED  BY <1>0, <1>1, <1>2, <1>3, <1>4, <1>5, <2>1 DEF ArchiveInv
<1>7. WayInv'
  BY <1>0 DEF OrderInv, WayInv, Range
<1>. QED  BY <1>6, <1>7, <1>t DEF OrderInv

\* The process is gone, and the archive is what it was.
LEMMA OrderForget ==
  ASSUME TypeOK, OrderInv, Forget, UNCHANGED <<slot, committed>>
  PROVE  OrderInv'
<1>1. PICK t \in Int : ArchiveInv(t)
  BY DEF OrderInv
<1>2. EndOf(t) \in Int /\ EndOf(t) >= 0
  <2>1. t + 1 \in Int /\ t + 1 >= 0
    BY <1>1, BaseFacts DEF ArchiveInv
  <2>2. EndOf(t) = StartOf(t + 1) /\ StartOf(t + 1) >= 0 /\ EndOf(t) \in Int
    BY <2>1, Starts
  <2>. QED  BY <2>2
<1>3. synced' = 0 /\ ppc' = "done" /\ spc' = "down" /\ batch' = <<>> /\ pending' = <<>> /\ cur' = None
  BY DEF Forget, None
<1>4. ArchiveInv(t)'
  BY <1>1, <1>2, <1>3 DEF ArchiveInv, Streaming, None
<1>5. WayInv'
  BY <1>3 DEF WayInv, Range
<1>. QED  BY <1>4, <1>5 DEF OrderInv

\* Nothing else gets the segments out of their order.
LEMMA OrderKept ==
  ASSUME TypeOK, SafeWorld(world), PhaseInv, OrderInv, Next
  PROVE  OrderInv'
<1>1. CASE Connect \/ (\E p \in Positions, n \in 1 .. MaxRecord : Receive(p, n)) \/ Copy \/ HandOff
  BY <1>1, OrderConnect, OrderReceive, OrderCopy, OrderHandOff
<1>2. CASE \/ TakeJob \/ Chunked \/ Commit \/ CommitUnanswered \/ Advance
            \/ Confirm \/ ConfirmBlind \/ ConfirmFails
  BY <1>2, OrderTakeJob, OrderChunked, OrderCommit, OrderUnanswered, OrderConfirm, OrderAdvance
<1>3. CASE SendStatus \/ \E s \in Segs : PushSegment(s)
  BY <1>3, OrderSendStatus, OrderPush
<1>4. CASE Crash \/ PowerLoss \/ Restart
  BY <1>4, OrderForget DEF Crash, PowerLoss, Restart, repository
<1>5. CASE Refused \/ StreamBreaks \/ Stop \/ Closed \/ Decide \/ LoseWAL
  BY <1>5, OrderFrame
     DEF Refused, StreamBreaks, Stop, Closed, Decide, LoseWAL, EndStream, NoFault, Fault, repository,
         receiver, queue, processor, Streaming
<1>6. CASE \E c \in Chunks : PutChunk(c) \/ Age(c) \/ Sweep(c)
  BY <1>6, OrderFrame DEF PutChunk, Age, Sweep, NoFault, Fault, repository, receiver, queue, processor
<1>7. CASE Link \/ Sync2 \/ Fence
  BY <1>7, OrderFrame DEF Link, Sync2, Fence, NoFault, repository, receiver, queue
<1>8. CASE Sync
  <2>1. pos' = pos
    BY <1>8 DEF Sync, PhaseInv
  <2>. QED  BY <1>8, <2>1, OrderFrame DEF Sync, NoFault, repository, receiver, queue
<1>9. CASE Drained
  <2>1. spc \notin Streaming
    BY <1>9 DEF Drained, PhaseInv, Streaming
  <2>. QED  BY <1>9, <2>1, OrderFrame DEF Drained, NoFault, repository, receiver, queue
<1>10. CASE (Verify /\ ~Fail) \/ VerifyBlind
  <2>1. ppc = "verify" /\ ppc' = "commit" /\ UNCHANGED <<cur, failed>>
    BY <1>10 DEF Verify, VerifyBlind
  <2>. QED  BY <1>10, <2>1, OrderFrame DEF Verify, VerifyBlind, NoFault, Fault, repository, receiver, queue
<1>11. CASE BarrierFails \/ LinkFails \/ StepFails \/ (Verify /\ Fail)
  <2>1. /\ Fail /\ ppc \notin {"wait", "done"}
        /\ UNCHANGED <<world, slot, committed, synced, spc, asked, next, at, left, haveSeg, pending, batch, pos>>
    BY <1>11 DEF BarrierFails, LinkFails, StepFails, Verify, NoFault, Fault, repository, receiver, queue
  <2>2. PICK t \in Int : ArchiveInv(t)
    BY DEF OrderInv
  <2>. QED  BY <2>1, <2>2, OrderFail DEF ArchiveInv
<1>. QED
  BY <1>1, <1>2, <1>3, <1>4, <1>5, <1>6, <1>7, <1>8, <1>9, <1>10, <1>11
     DEF Next, Receiver, Processor, Environment
-----------------------------------------------------------------------------
(* The types.                                                                *)

\* Phases, errors and counts of what went wrong.
LEMMA PhaseTypes ==
  ASSUME TypeOK, PhaseInv, Next
  PROVE  /\ world' \in Worlds /\ faults' \in 0 .. MaxFaults /\ removed' \in 0 .. WalEnd
         /\ noProgress' \in 0 .. MaxNoProgress
         /\ spc' \in ReceiverPhases /\ ppc' \in ProcessorPhases
         /\ {haveSeg, closed, failed}' \subseteq BOOLEAN
         /\ streamErr' \in {"none", "sink", "gap", "break", "canceled"}
<1>c. MaxFaults \in Nat /\ MaxNoProgress \in Nat /\ MaxNoProgress > 0 /\ WalEnd \in Nat
  BY SinkAssumption
<1>t. /\ world \in Worlds /\ faults \in 0 .. MaxFaults /\ removed \in 0 .. WalEnd
      /\ noProgress \in 0 .. MaxNoProgress
      /\ spc \in ReceiverPhases /\ ppc \in ProcessorPhases
      /\ haveSeg \in BOOLEAN /\ closed \in BOOLEAN /\ failed \in BOOLEAN
      /\ streamErr \in {"none", "sink", "gap", "break", "canceled"}
      /\ MaxFaults \in Nat /\ MaxNoProgress \in Nat /\ MaxNoProgress > 0 /\ WalEnd \in Nat
  BY <1>c DEF TypeOK
<1>w. world' = world
  BY WorldKept
<1>f. faults' = faults \/ (faults < MaxFaults /\ faults' = faults + 1)
  BY DEF Next, Receiver, Processor, Environment, Connect, Refused, Receive, Copy, HandOff, Closed, Decide,
         TakeJob, PutChunk, Chunked, Sync, Link, Sync2, Fence, Verify, Commit, Confirm, Confirmed, TakeBack, Advance, Drained,
         StreamBreaks, Stop, BarrierFails, LinkFails, VerifyBlind, CommitUnanswered, ConfirmBlind, ConfirmFails, StepFails, Age, Sweep,
         PushSegment, LoseWAL, Crash, PowerLoss, Restart, SendStatus, NoFault, Fault
<1>r. removed' = removed \/ removed' = Floor(WalEnd)
  BY DEF Next, Receiver, Processor, Environment, Connect, Refused, Receive, Copy, HandOff, Closed, Decide,
         TakeJob, PutChunk, Chunked, Sync, Link, Sync2, Fence, Verify, Commit, Confirm, Confirmed, TakeBack, Advance, Drained,
         StreamBreaks, Stop, BarrierFails, LinkFails, VerifyBlind, CommitUnanswered, ConfirmBlind, ConfirmFails, StepFails, Age, Sweep,
         PushSegment, LoseWAL, Crash, PowerLoss, Restart, SendStatus, NoFault, Fault
<1>1. removed' \in 0 .. WalEnd
  <2>1. Floor(WalEnd) \in Int /\ Floor(WalEnd) >= 0 /\ Floor(WalEnd) <= WalEnd
    BY <1>t, SegOfPosition, Starts DEF Floor
  <2>. QED  BY <1>r, <1>t, <2>1
<1>2. noProgress' \in 0 .. MaxNoProgress
  <2>1. \/ noProgress' \in {noProgress, 0}
        \/ spc = "over" /\ noProgress' = noProgress + 1
    BY DEF Next, Receiver, Processor, Environment, Connect, Refused, Receive, Copy, HandOff, Closed, Decide,
         TakeJob, PutChunk, Chunked, Sync, Link, Sync2, Fence, Verify, Commit, Confirm, Confirmed, TakeBack, Advance, Drained,
         StreamBreaks, Stop, BarrierFails, LinkFails, VerifyBlind, CommitUnanswered, ConfirmBlind, ConfirmFails, StepFails, Age, Sweep,
         PushSegment, LoseWAL, Crash, PowerLoss, Restart, SendStatus, Forget, policy
  <2>. QED  BY <1>t, <2>1 DEF PhaseInv
<1>3. spc' \in ReceiverPhases /\ streamErr' \in {"none", "sink", "gap", "break", "canceled"}
  BY SMTT(30), <1>t DEF Next, Receiver, Processor, Environment, Connect, Refused, Receive, Copy, HandOff, Closed, Decide,
         TakeJob, PutChunk, Chunked, Sync, Link, Sync2, Fence, Verify, Commit, Confirm, Confirmed, TakeBack, Advance, Drained,
         StreamBreaks, Stop, BarrierFails, LinkFails, VerifyBlind, CommitUnanswered, ConfirmBlind, ConfirmFails, StepFails, Age, Sweep,
         PushSegment, LoseWAL, Crash, PowerLoss, Restart, SendStatus, Forget, EndStream, receiver,
         ReceiverPhases, Streaming
<1>4. ppc' \in ProcessorPhases
  BY ZenonT(40), <1>t DEF Next, Receiver, Processor, Environment, Connect, Refused, Receive, Copy, HandOff, Closed, Decide,
         TakeJob, PutChunk, Chunked, Sync, Link, Sync2, Fence, Verify, Commit, Confirm, Confirmed, TakeBack, Advance, Drained,
         StreamBreaks, Stop, BarrierFails, LinkFails, VerifyBlind, CommitUnanswered, ConfirmBlind, ConfirmFails, StepFails, Age, Sweep,
         PushSegment, LoseWAL, Crash, PowerLoss, Restart, SendStatus, Forget, Fail, processor, ProcessorPhases
<1>5. /\ haveSeg' = haveSeg \/ haveSeg' = TRUE \/ haveSeg' = FALSE
      /\ closed' = closed \/ closed' = TRUE \/ closed' = FALSE
  BY DEF Next, Receiver, Processor, Environment, Connect, Refused, Receive, Copy, HandOff, Closed, Decide,
         TakeJob, PutChunk, Chunked, Sync, Link, Sync2, Fence, Verify, Commit, Confirm, Confirmed, TakeBack, Advance, Drained,
         StreamBreaks, Stop, BarrierFails, LinkFails, VerifyBlind, CommitUnanswered, ConfirmBlind, ConfirmFails, StepFails, Age, Sweep,
         PushSegment, LoseWAL, Crash, PowerLoss, Restart, SendStatus, Forget, EndStream, receiver, queue
<1>6. failed' = failed \/ failed' = TRUE \/ failed' = FALSE
  BY DEF Next, Receiver, Processor, Environment, Connect, Refused, Receive, Copy, HandOff, Closed, Decide,
         TakeJob, PutChunk, Chunked, Sync, Link, Sync2, Fence, Verify, Commit, Confirm, Confirmed, TakeBack, Advance, Drained,
         StreamBreaks, Stop, BarrierFails, LinkFails, VerifyBlind, CommitUnanswered, ConfirmBlind, ConfirmFails, StepFails, Age, Sweep,
         PushSegment, LoseWAL, Crash, PowerLoss, Restart, SendStatus, Forget, Fail, processor
<1>7. {haveSeg, closed, failed}' \subseteq BOOLEAN
  BY <1>t, <1>5, <1>6
<1>8. faults' \in 0 .. MaxFaults
  BY <1>f, <1>t
<1>. QED  BY <1>t, <1>w, <1>1, <1>2, <1>3, <1>4, <1>7, <1>8

\* Chunks are chunks.
LEMMA ChunkTypes ==
  ASSUME TypeOK, PhaseInv, Next
  PROVE  \A part \in {stored, solid, linked, torn, deferred, staged, flushed, seen, fresh, adopted, todo, pins}' :
           part \subseteq Chunks
<1>t. /\ stored \subseteq Chunks /\ solid \subseteq Chunks /\ linked \subseteq Chunks /\ torn \subseteq Chunks
      /\ deferred \subseteq Chunks /\ staged \subseteq Chunks /\ flushed \subseteq Chunks
      /\ seen \subseteq Chunks /\ fresh \subseteq Chunks /\ adopted \subseteq Chunks
      /\ todo \subseteq Chunks /\ pins \subseteq Chunks
  BY DEF TypeOK
<1>c. \A s \in Segs : Content[s] \subseteq Chunks
  BY SinkAssumption
<1>1. CASE UNCHANGED <<repository, plugin, cas, todo, pins>>
  BY <1>1, <1>t DEF repository, plugin, cas
<1>2. CASE Connect \/ BarrierFails \/ StepFails
  BY <1>2, <1>t DEF Connect, BarrierFails, StepFails, Fail, repository, plugin, cas
<1>3. CASE TakeJob
  <2>1. pending # <<>> => Head(pending) \in Segs
    BY OrderTypes
  <2>. QED  BY <1>3, <1>t, <1>c, <2>1 DEF TakeJob, repository, plugin, cas
<1>4. CASE \E c \in Chunks : PutChunk(c)
  BY <1>4, <1>t DEF PutChunk, repository, plugin
<1>5. CASE Sync \/ Link \/ Sync2
  BY <1>5, <1>t DEF Sync, Link, Sync2, Publish, BytesSynced, LinksSynced, repository, cas
<1>6. CASE LinkFails
  BY <1>6, <1>t DEF LinkFails, Publish, Fail, cas
<1>7. CASE Fence \/ Verify \/ VerifyBlind
  BY <1>7, <1>t DEF Fence, Verify, VerifyBlind, ForgetChunk, Fail, repository, plugin, cas
<1>8. CASE Commit \/ CommitUnanswered
  BY <1>8, <1>t DEF Commit, CommitUnanswered, CommitEffect, Fail, plugin, cas
<1>9. CASE Confirm \/ ConfirmBlind \/ ConfirmFails
  <2>1. UNCHANGED <<stored, solid, linked, torn, plugin>>
    BY <1>9 DEF Confirm, ConfirmBlind, ConfirmFails
  <2>2. /\ todo' = todo \/ todo' = {}
        /\ pins' = {}
        /\ seen' \subseteq seen /\ fresh' \subseteq fresh /\ adopted' \subseteq adopted
    BY <1>9 DEF Confirm, ConfirmBlind, ConfirmFails, Confirmed, TakeBack, ForgetChunk, Fail
  <2>. QED  BY <1>t, <2>1, <2>2 DEF plugin
<1>10. CASE \E c \in Chunks : Age(c) \/ Sweep(c)
  BY <1>10, <1>t DEF Age, Sweep, repository, plugin, cas, processor
<1>11. CASE \E s \in Segs : PushSegment(s)
  BY <1>11, <1>t, <1>c DEF PushSegment, plugin, cas, processor
<1>12. CASE Crash \/ PowerLoss \/ Restart
  BY <1>12, <1>t DEF Crash, PowerLoss, Restart, Forget, repository
<1>. QED
  BY <1>1, <1>2, <1>3, <1>4, <1>5, <1>6, <1>7, <1>8, <1>9, <1>10, <1>11, <1>12, ReceiverChunks
     DEF Next, Receiver, Processor, Environment, chunkVars, processor, Chunked, Advance, Drained

\* Only segments that PostgreSQL has completed are archived.
LEMMA ArchivedSegs ==
  ASSUME NEW t \in Int, EndOf(t) <= WalEnd
  PROVE  Base .. t \subseteq Segs
<1>1. ASSUME NEW s \in Base .. t PROVE s \in Segs
  <2>1. s \in Int /\ Base <= s /\ s <= t
    BY <1>1, BaseFacts
  <2>2. EndOf(s) <= EndOf(t) /\ EndOf(s) \in Int /\ EndOf(t) \in Int
    BY <2>1, Starts, StartsOrder
  <2>3. EndOf(s) <= WalEnd
    BY <2>2, BaseFacts
  <2>. QED  BY <2>1, <2>3, BaseFacts
<1>. QED  BY <1>1

\* Positions are positions of the WAL.
LEMMA PositionTypes ==
  ASSUME TypeOK, PhaseInv, OrderInv, OrderInv', Next
  PROVE  /\ slot' \in SlotStart .. WalEnd
         /\ committed' \subseteq Segs
         /\ {lastProgress, asked, next, at, synced}' \subseteq 0 .. WalEnd + SegSize
         /\ left' \in 0 .. MaxRecord
<1>t. /\ slot \in SlotStart .. WalEnd /\ left \in 0 .. MaxRecord
      /\ lastProgress \in 0 .. WalEnd + SegSize /\ asked \in 0 .. WalEnd + SegSize /\ next \in 0 .. WalEnd + SegSize
      /\ at \in 0 .. WalEnd + SegSize /\ synced \in 0 .. WalEnd + SegSize
  BY DEF TypeOK
<1>b. /\ WalEnd \in Nat /\ SegSize \in Nat /\ SegSize > 0 /\ MaxRecord \in Nat /\ MaxRecord > 0 /\ SlotStart \in Nat
      /\ Base \in Nat /\ Base >= 1
  BY SinkAssumption, BaseFacts
<1>1. committed' \subseteq Segs
  <2>1. PICK t \in Int : ArchiveInv(t)'
    BY DEF OrderInv
  <2>2. committed' = Base .. t /\ EndOf(t) <= WalEnd
    BY <2>1 DEF ArchiveInv, EndOf, Base, SegOf
  <2>. QED  BY <2>2, ArchivedSegs
<1>2. slot' \in SlotStart .. WalEnd
  <2>1. CASE slot' = slot
    BY <1>t, <2>1
  <2>2. CASE SendStatus
    <3>1. PICK t \in Int : ArchiveInv(t)
      BY DEF OrderInv
    <3>2. synced <= EndOf(t) /\ EndOf(t) <= WalEnd /\ slot <= synced /\ slot' = synced
      BY <2>2, <3>1 DEF ArchiveInv, SendStatus, FlushLSN
    <3>3. EndOf(t) \in Int
      BY Starts
    <3>. QED  BY <1>b, <1>t, <3>2, <3>3
  <2>. QED
    BY <2>1, <2>2
       DEF Next, Receiver, Processor, Environment, Connect, Refused, Receive, Copy, HandOff, Closed, Decide,
         TakeJob, PutChunk, Chunked, Sync, Link, Sync2, Fence, Verify, Commit, Confirm, Confirmed, TakeBack, Advance, Drained,
         StreamBreaks, Stop, BarrierFails, LinkFails, VerifyBlind, CommitUnanswered, ConfirmBlind, ConfirmFails, StepFails, Age, Sweep,
         PushSegment, LoseWAL, Crash, PowerLoss, Restart
<1>3. lastProgress' \in 0 .. WalEnd + SegSize
  <2>1. lastProgress' \in {lastProgress, synced, None}
    BY DEF Next, Receiver, Processor, Environment, Connect, Refused, Receive, Copy, HandOff, Closed, Decide,
         TakeJob, PutChunk, Chunked, Sync, Link, Sync2, Fence, Verify, Commit, Confirm, Confirmed, TakeBack, Advance, Drained,
         StreamBreaks, Stop, BarrierFails, LinkFails, VerifyBlind, CommitUnanswered, ConfirmBlind, ConfirmFails, StepFails, Age, Sweep,
         PushSegment, LoseWAL, Crash, PowerLoss, Restart, SendStatus, Forget, policy
  <2>. QED  BY <1>b, <1>t, <2>1 DEF None
<1>4. synced' \in 0 .. WalEnd + SegSize
  <2>1. CASE synced' \in {synced, None}
    BY <1>b, <1>t, <2>1 DEF None
  <2>2. CASE Advance
    <3>1. pos \in 1 .. Len(batch) /\ batch \in Seq(Segs)
      BY <2>2, OrderTypes DEF Advance, PhaseInv
    <3>2. batch[pos] \in Segs /\ batch[pos] \in Range(batch)
      BY <3>1 DEF Range
    <3>3. EndOf(batch[pos]) <= WalEnd
      BY <3>2 DEF OrderInv, WayInv
    <3>4. EndOf(batch[pos]) \in Int /\ EndOf(batch[pos]) >= 0
      <4>1. PICK s \in Nat : s = batch[pos]
        BY <3>2, BaseFacts
      <4>2. StartOf(s) >= 0 /\ EndOf(s) = StartOf(s) + SegSize /\ StartOf(s) \in Int
        BY Starts
      <4>. QED  BY <1>b, <4>1, <4>2
    <3>5. synced' = EndOf(batch[pos])
      BY <2>2 DEF Advance
    <3>. QED  BY <1>b, <3>3, <3>4, <3>5
  <2>. QED
    BY <2>1, <2>2
       DEF Next, Receiver, Processor, Environment, Connect, Refused, Receive, Copy, HandOff, Closed, Decide,
         TakeJob, PutChunk, Chunked, Sync, Link, Sync2, Fence, Verify, Commit, Confirm, Confirmed, TakeBack, Drained,
         StreamBreaks, Stop, BarrierFails, LinkFails, VerifyBlind, CommitUnanswered, ConfirmBlind, ConfirmFails, StepFails, Age, Sweep,
         PushSegment, LoseWAL, Crash, PowerLoss, Restart, SendStatus, Forget, processor
<1>5. ASSUME spc' \in Streaming
      PROVE  \E r \in Int : /\ ReceiverInv(r)' /\ StartOf(r) \in Int /\ StartOf(r) >= 0 /\ StartOf(r) <= WalEnd
  <2>1. PICK t \in Int : ArchiveInv(t)'
    BY DEF OrderInv
  <2>2. PICK r \in Int : ReceiverInv(r)'
    BY <1>5, <2>1 DEF ArchiveInv
  <2>3. r >= Base /\ StartOf(r) <= WalEnd
    BY <2>2 DEF ReceiverInv, StartOf, Base, SegOf
  <2>. QED  BY <1>b, <2>2, <2>3, Starts
<1>6. CASE UNCHANGED <<asked, next, at, left>>
  BY <1>1, <1>2, <1>3, <1>4, <1>6, <1>t
<1>7. CASE Connect
  <2>1. spc' = "recv" /\ next' = 0 /\ at' = 0 /\ left' = 0
    BY <1>7 DEF Connect, None
  <2>2. PICK r \in Int : ReceiverInv(r)' /\ StartOf(r) \in Int /\ StartOf(r) >= 0 /\ StartOf(r) <= WalEnd
    BY <1>5, <2>1 DEF Streaming
  <2>3. asked' = StartOf(r)
    BY <2>1, <2>2 DEF ReceiverInv, None, StartOf
  <2>. QED  BY <1>1, <1>2, <1>3, <1>4, <1>b, <2>1, <2>2, <2>3
<1>8. CASE \E p \in Positions, n \in 1 .. MaxRecord : Receive(p, n)
  <2>1. PICK p \in Positions, n \in 1 .. MaxRecord : Receive(p, n)
    BY <1>8
  <2>2. UNCHANGED <<asked, next>>
    BY <2>1 DEF Receive
  <2>3. CASE UNCHANGED <<at, left>>
    BY <1>6, <2>2, <2>3
  <2>4. CASE spc' = "copy" /\ at' = p /\ left' = n
    <3>1. PICK r \in Int : ReceiverInv(r)' /\ StartOf(r) \in Int /\ StartOf(r) >= 0 /\ StartOf(r) <= WalEnd
      BY <1>5, <2>4 DEF Streaming
    <3>2. at' \in {next', StartOf(r)} /\ at' + left' <= WalEnd
      BY <2>4, <3>1 DEF ReceiverInv, StartOf
    <3>3. at' \in 0 .. WalEnd + SegSize
      BY <1>b, <1>t, <2>2, <2>4, <3>1, <3>2
    <3>. QED  BY <1>1, <1>2, <1>3, <1>4, <1>b, <1>t, <2>2, <2>4, <3>3
  <2>. QED  BY <2>1, <2>3, <2>4 DEF Receive
<1>9. CASE Copy
  <2>1. spc = "copy" /\ asked' = asked /\ at' = next' /\ spc' \in {"hand", "recv"}
    BY <1>9 DEF Copy
  <2>2. PICK t \in Int : ArchiveInv(t)
    BY DEF OrderInv
  <2>3. PICK q \in Int : ReceiverInv(q)
    BY <2>1, <2>2 DEF ArchiveInv, Streaming
  <2>4. SegOf(at) = q /\ at < EndOf(q) /\ EndOf(q) \in Nat
    BY <2>1, <2>3, ReceiverPlace
  <2>5. PICK n \in Int : n = Min({left, EndOf(q) - at}) /\ at' = at + n /\ left' = left - n
    <3>1. Min({left, EndOf(q) - at}) \in Int
      BY <1>b, <1>t, <2>4, MinOfTwo
    <3>. QED  BY <1>9, <2>4, <3>1 DEF Copy
  <2>6. 0 <= n /\ n <= left
    <3>1. EndOf(q) - at \in Int /\ left \in Int /\ EndOf(q) - at > 0 /\ left >= 0
      BY <1>b, <1>t, <2>4
    <3>. QED  BY <2>5, <3>1, MinOfTwo
  <2>7. PICK r \in Int : ReceiverInv(r)'
    BY <1>5, <2>1 DEF Streaming
  <2>8. next' <= WalEnd
    BY <2>7 DEF ReceiverInv
  <2>9. at' \in 0 .. WalEnd + SegSize /\ left' \in 0 .. MaxRecord
    BY <1>b, <1>t, <2>1, <2>5, <2>6, <2>8
  <2>. QED  BY <1>1, <1>2, <1>3, <1>4, <1>t, <2>1, <2>9
<1>10. CASE Crash \/ PowerLoss \/ Restart
  <2>1. asked' = 0 /\ next' = 0 /\ at' = 0 /\ left' = 0
    BY <1>10 DEF Crash, PowerLoss, Restart, Forget, None
  <2>. QED  BY <1>1, <1>2, <1>3, <1>4, <1>b, <2>1
<1>. QED
  BY <1>6, <1>7, <1>8, <1>9, <1>10
     DEF Next, Receiver, Processor, Environment, Refused, HandOff, Closed, Decide,
         TakeJob, PutChunk, Chunked, Sync, Link, Sync2, Fence, Verify, Commit, Confirm, Confirmed, TakeBack, Advance, Drained,
         StreamBreaks, Stop, BarrierFails, LinkFails, VerifyBlind, CommitUnanswered, ConfirmBlind, ConfirmFails, StepFails, Age, Sweep,
         PushSegment, LoseWAL, SendStatus, receiver

\* The pipeline holds segments, and is never over its size.
LEMMA PipelineTypes ==
  ASSUME TypeOK, PhaseInv, PhaseInv', OrderInv, OrderInv', Next
  PROVE  /\ free' \in 0 .. Depth
         /\ pending' \in Seq(Segs) /\ Len(pending') <= Depth
         /\ batch' \in Seq(Segs) /\ Len(batch') <= BatchCap
         /\ cur' \in Segs \cup {None} /\ pos' \in 1 .. BatchCap
<1>t. /\ free \in 0 .. Depth /\ pending \in Seq(Segs) /\ Len(pending) <= Depth
      /\ batch \in Seq(Segs) /\ Len(batch) <= BatchCap /\ Len(batch) \in Nat /\ Len(pending) \in Nat
      /\ cur \in Segs \cup {None} /\ pos \in 1 .. BatchCap /\ haveSeg \in BOOLEAN
  BY DEF TypeOK
<1>b. Depth \in Nat /\ Depth > 0 /\ BatchCap \in Nat /\ BatchCap > 0
  BY SinkAssumption
<1>1. CASE UNCHANGED <<free, pending, batch, cur, pos>>
  BY <1>1, <1>t
<1>2. CASE Connect \/ Crash \/ PowerLoss \/ Restart
  <2>1. free' = Depth /\ pending' = <<>> /\ batch' = <<>> /\ cur' = None /\ pos' = 1
    BY <1>2 DEF Connect, Crash, PowerLoss, Restart, Forget
  <2>. QED  BY <1>b, <2>1
<1>3. CASE Copy
  <2>1. UNCHANGED <<pending, batch, cur, pos>> /\ HaveBuffer /\ free' = IF haveSeg THEN free ELSE free - 1
    BY <1>3 DEF Copy, processor
  <2>2. free' \in 0 .. Depth
    BY <1>b, <1>t, <2>1 DEF HaveBuffer
  <2>. QED  BY <1>t, <2>1, <2>2
<1>4. CASE HandOff
  <2>1. UNCHANGED <<free, batch, cur, pos>> /\ pending' = Append(pending, SegOf(at - 1)) /\ Len(pending) < Depth
    BY <1>4 DEF HandOff, processor
  <2>2. PICK t \in Int : ArchiveInv(t)
    BY DEF OrderInv
  <2>3. PICK r \in Int : ReceiverInv(r)
    BY <1>4, <2>2 DEF ArchiveInv, HandOff, Streaming
  <2>4. SegOf(at - 1) = r /\ Base <= r /\ EndOf(r) <= WalEnd
    <3>1. SegOf(at - 1) = r
      BY <1>4, <2>3, ReceiverPlace DEF HandOff
    <3>2. Base <= r /\ EndOf(r) = next /\ next <= WalEnd
      BY <1>4, <2>3 DEF ReceiverInv, HandOff
    <3>. QED  BY <3>1, <3>2
  <2>5. r \in Segs
    BY <2>4, BaseFacts
  <2>6. pending' \in Seq(Segs) /\ Len(pending') = Len(pending) + 1
    BY <1>t, <2>1, <2>4, <2>5
  <2>. QED  BY <1>b, <1>t, <2>1, <2>6
<1>5. CASE TakeJob
  <2>1. /\ UNCHANGED <<batch, pos>> /\ pending # <<>> /\ pending' = Tail(pending) /\ free' = free + 1
        /\ cur' \in {cur, Head(pending)}
    BY <1>5 DEF TakeJob
  <2>2. Head(pending) \in Segs /\ Len(pending) > 0 /\ pending' \in Seq(Segs) /\ Len(pending') = Len(pending) - 1
    BY <1>t, <2>1
  <2>3. free' \in 0 .. Depth
    BY <1>b, <1>t, <2>1, <2>2 DEF PhaseInv
  <2>. QED  BY <1>b, <1>t, <2>1, <2>2, <2>3
<1>6. CASE Chunked
  <2>1. UNCHANGED <<free, pending, pos>> /\ batch' = Append(batch, cur) /\ cur' = None
    BY <1>6 DEF Chunked, queue
  <2>2. cur \in Segs /\ Len(batch) < BatchCap
    BY <1>6, <1>t DEF Chunked, PhaseInv
  <2>3. batch' \in Seq(Segs) /\ Len(batch') = Len(batch) + 1
    BY <1>t, <2>1, <2>2
  <2>. QED  BY <1>b, <1>t, <2>1, <2>2, <2>3
<1>7. CASE Sync
  BY <1>7, <1>t, <1>b DEF Sync, queue
<1>8. CASE Advance
  <2>1. /\ UNCHANGED <<free, pending, cur>>
        /\ IF pos < Len(batch) THEN pos' = pos + 1 /\ batch' = batch ELSE pos' = 1 /\ batch' = <<>>
    BY <1>8 DEF Advance, queue
  <2>2. CASE pos < Len(batch)
    BY <1>b, <1>t, <2>1, <2>2
  <2>3. CASE ~ pos < Len(batch)
    BY <1>b, <1>t, <2>1, <2>3
  <2>. QED  BY <2>2, <2>3
<1>9. CASE /\ UNCHANGED <<free, pending, batch, pos>> /\ cur' \in {cur, None}
  BY <1>9, <1>t
<1>. QED
  BY <1>1, <1>2, <1>3, <1>4, <1>5, <1>6, <1>7, <1>8, <1>9
     DEF Next, Receiver, Processor, Environment, Refused, Receive, Closed, Decide,
         PutChunk, Link, Sync2, Fence, Verify, Commit, Confirm, Confirmed, TakeBack, Drained, Fail,
         StreamBreaks, Stop, BarrierFails, LinkFails, VerifyBlind, CommitUnanswered, ConfirmBlind, ConfirmFails, StepFails, Age, Sweep,
         PushSegment, LoseWAL, SendStatus, queue, processor
-----------------------------------------------------------------------------
(* The invariant.                                                            *)

\* It holds where the stream is first set up.
LEMMA InitInv ==
  ASSUME SafeWorlds, Init
  PROVE  SinkInv
<1>b. /\ Base \in Nat /\ Base >= 1 /\ SlotStart \in Nat /\ WalEnd \in Nat /\ SegSize \in Nat /\ SegSize > 0
      /\ StartOf(Base) <= SlotStart /\ SlotStart < EndOf(Base) /\ SlotStart <= WalEnd
  BY BaseFacts
<1>c. /\ Depth \in Nat /\ Depth > 0 /\ BatchCap \in Nat /\ BatchCap > 0 /\ MaxNoProgress \in Nat /\ MaxNoProgress > 0
      /\ MaxRecord \in Nat /\ MaxFaults \in Nat
  BY SinkAssumption
<1>1. TypeOK
  <2>1. <<>> \in Seq(Segs) /\ Len(<<>>) = 0
    OBVIOUS
  <2>2. /\ stored \subseteq Chunks /\ solid \subseteq Chunks /\ linked \subseteq Chunks
    BY DEF Init
  <2>3. \A part \in {stored, solid, linked, torn, deferred, staged, flushed, seen, fresh, adopted, todo, pins} :
           part \subseteq Chunks
    BY <2>2 DEF Init
  <2>4. {lastProgress, asked, next, at, synced} \subseteq 0 .. WalEnd + SegSize
    BY <1>b DEF Init, None
  <2>5. /\ faults \in 0 .. MaxFaults /\ noProgress \in 0 .. MaxNoProgress /\ left \in 0 .. MaxRecord
        /\ slot \in SlotStart .. WalEnd /\ removed \in 0 .. WalEnd /\ free \in 0 .. Depth /\ pos \in 1 .. BatchCap
    BY <1>b, <1>c DEF Init
  <2>6. pending \in Seq(Segs) /\ Len(pending) <= Depth /\ batch \in Seq(Segs) /\ Len(batch) <= BatchCap
    BY <1>c, <2>1 DEF Init
  <2>7. {haveSeg, closed, failed} \subseteq BOOLEAN
    BY DEF Init
  <2>. QED
    BY <2>3, <2>4, <2>5, <2>6, <2>7 DEF Init, TypeOK, None, ReceiverPhases, ProcessorPhases, Streaming
<1>2. SafeWorld(world)
  BY DEF Init, SafeWorlds
<1>3. PhaseInv
  BY <1>c DEF Init, PhaseInv, None, Streaming
<1>4. ChunkInv
  BY DEF Init, ChunkInv, BytesInv, StagingInv, FreshInv, SeenInv, HeldInv, PinInv, LinkInv, KeptInv, First, Committing
<1>5. OrderInv
  <2>1. PICK t \in Int : t = Base - 1 /\ t + 1 = Base
    BY <1>b
  <2>2. EndOf(t) = StartOf(Base) /\ StartOf(Base) >= 0 /\ StartOf(Base) \in Int
    BY <1>b, <2>1, Starts
  <2>3. committed = Base .. t
    BY <1>b, <2>1 DEF Init
  <2>4. ArchiveInv(t)
    BY <1>b, <2>1, <2>2, <2>3 DEF Init, ArchiveInv, None, Streaming
  <2>5. WayInv
    BY DEF Init, WayInv, Range, None
  <2>. QED  BY <2>4, <2>5 DEF OrderInv
<1>. QED  BY <1>1, <1>2, <1>3, <1>4, <1>5 DEF SinkInv

\* And every step keeps it.
LEMMA InvKept ==
  ASSUME SinkInv, [Next]_vars
  PROVE  SinkInv'
<1>0. TypeOK /\ SafeWorld(world) /\ PhaseInv /\ ChunkInv /\ OrderInv
  BY DEF SinkInv
<1>1. CASE Next
  <2>1. PhaseInv'
    BY <1>0, <1>1, PhaseKept
  <2>2. ChunkInv'
    BY <1>0, <1>1, ChunksKept
  <2>3. OrderInv'
    BY <1>0, <1>1, OrderKept
  <2>4. SafeWorld(world)'
    BY <1>0, <1>1, WorldKept DEF SafeWorld
  <2>5. TypeOK'
    <3>1. PICK chunkSets : chunkSets = {stored, solid, linked, torn, deferred, staged, flushed, seen, fresh, adopted, todo, pins}'
      OBVIOUS
    <3>2. \A part \in chunkSets : part \subseteq Chunks
      BY <1>0, <1>1, <3>1, ChunkTypes
    <3>. QED
      BY <1>0, <1>1, <2>1, <2>3, <3>1, <3>2, PhaseTypes, PositionTypes, PipelineTypes DEF TypeOK
  <2>. QED  BY <2>1, <2>2, <2>3, <2>4, <2>5 DEF SinkInv
<1>2. CASE UNCHANGED vars
  <2>1. TypeOK' /\ PhaseInv'
    BY <1>0, <1>2
       DEF TypeOK, PhaseInv, vars, repository, plugin, cas, policy, receiver, queue, processor
  <2>4. SafeWorld(world)'
    BY <1>0, <1>2 DEF SafeWorld, vars
  <2>2. ChunkInv'
    BY <1>0, <1>2
       DEF ChunkInv, BytesInv, StagingInv, FreshInv, SeenInv, HeldInv, PinInv, LinkInv, KeptInv, Unconfirmed, First, Committing,
           vars, repository, plugin, cas, policy, receiver, queue, processor
  <2>3. OrderInv'
    BY <1>0, <1>2, OrderFrame DEF vars, repository, plugin, cas, policy, receiver, queue, processor
  <2>. QED  BY <2>1, <2>2, <2>3, <2>4 DEF SinkInv
<1>. QED  BY <1>1, <1>2

\* So it always holds.
LEMMA InvAlways ==
  ASSUME SafeWorlds
  PROVE  Spec => []SinkInv
<1>1. Init => SinkInv
  BY InitInv
<1>2. SinkInv /\ [Next]_vars => SinkInv'
  BY InvKept
<1>. QED  BY <1>1, <1>2, PTL DEF Spec

\* What is archived for good: all but the segment that Confirm has yet to vouch
\* for.  The slot is not past it.
LEMMA DurableUpTo ==
  ASSUME SinkInv
  PROVE  \E t, m \in Int :
           /\ ArchiveInv(t) /\ (m = t \/ m = t + 1) /\ m >= Base
           /\ \A s \in Int : Base <= s /\ s < m => Durable(s)
           /\ ~Durable(m)
           /\ slot < EndOf(m) /\ StartOf(m) <= WalEnd
<1>0. TypeOK /\ SafeWorld(world) /\ PhaseInv /\ ChunkInv /\ OrderInv
  BY DEF SinkInv
<1>b. Base \in Nat /\ WalEnd \in Nat /\ SlotStart \in Nat /\ slot \in Nat /\ SlotStart <= WalEnd /\ StartOf(Base) <= SlotStart
  BY <1>0, BaseFacts, OrderTypes
<1>1. ASSUME NEW s, s \in committed, ~Unconfirmed(s) PROVE Durable(s)
  BY <1>0, <1>1 DEF ChunkInv, KeptInv, BytesInv, Durable
<1>2. CASE \E s \in committed : Unconfirmed(s) /\ ~Durable(s)
  <2>0. ppc = "confirm" /\ "push" \notin world
    BY <1>0, <1>2 DEF Unconfirmed, SafeWorld
  <2>1. PICK t, k \in Int : /\ ArchiveInv(t) /\ batch[pos] = k /\ Base <= k /\ slot < EndOf(k) /\ EndOf(k) <= WalEnd
                            /\ t <= k /\ k <= t
    BY <1>0, <2>0, CommitsNext
  <2>2. k = t /\ ~Durable(t)
    BY <1>2, <2>1 DEF Unconfirmed
  <2>3. ASSUME NEW s \in Int, Base <= s, s < t PROVE Durable(s)
    <3>1. s \in committed /\ ~Unconfirmed(s)
      BY <1>b, <2>1, <2>2, <2>3 DEF ArchiveInv, Unconfirmed
    <3>. QED  BY <1>1, <3>1
  <2>4. StartOf(t) <= EndOf(t) /\ StartOf(t) \in Int /\ EndOf(t) \in Int
    BY BaseFacts, Starts
  <2>5. StartOf(t) <= WalEnd
    BY <1>b, <2>1, <2>2, <2>4
  <2>. QED  BY <2>1, <2>2, <2>3, <2>5
<1>3. CASE \A s \in committed : Unconfirmed(s) => Durable(s)
  <2>1. PICK t \in Int : ArchiveInv(t)
    BY <1>0 DEF OrderInv
  <2>2. PICK m \in Int : m = t + 1
    OBVIOUS
  <2>3. ~Durable(m)
    BY <1>b, <2>1, <2>2 DEF Durable, ArchiveInv
  <2>4. \A s \in Int : Base <= s /\ s < m => Durable(s)
    BY <1>1, <1>3, <1>b, <2>1, <2>2 DEF ArchiveInv
  <2>5. slot < EndOf(m) /\ m >= Base /\ EndOf(t) <= WalEnd
    BY <1>b, <2>1, <2>2 DEF ArchiveInv
  <2>6. StartOf(m) <= WalEnd
    BY <2>2, <2>5, Starts
  <2>. QED  BY <2>1, <2>2, <2>3, <2>4, <2>5, <2>6
<1>. QED  BY <1>2, <1>3

-----------------------------------------------------------------------------
(* What follows.                                                             *)

\* Every variable keeps its type: the buffers of the pool, the jobs in the
\* channel and the batch stay within their sizes, and every position within
\* the WAL PostgreSQL has written.
THEOREM TypeCorrect ==
  ASSUME SafeWorlds
  PROVE  Spec => []TypeOK
<1>1. SinkInv => TypeOK
  BY DEF SinkInv
<1>. QED  BY <1>1, InvAlways, PTL

\* Every segment that PostgreSQL may drop is archived, and survives a loss of
\* power.
THEOREM SlotAlwaysCovered ==
  ASSUME SafeWorlds
  PROVE  Spec => []SlotCovered
<1>1. ASSUME SinkInv PROVE SlotCovered
  <2>1. PICK t, m \in Int : /\ \A s \in Int : Base <= s /\ s < m => Durable(s)
                            /\ slot < EndOf(m)
    BY <1>1, DurableUpTo
  <2>2. ASSUME NEW s \in Segs, Base <= s, EndOf(s) <= slot PROVE Durable(s)
    <3>1. s \in Int /\ slot \in Nat
      BY <1>1, BaseFacts, OrderTypes DEF SinkInv
    <3>2. EndOf(s) \in Int /\ EndOf(m) \in Int
      BY <3>1, Starts
    <3>3. ~ EndOf(m) <= EndOf(s)
      BY <2>1, <2>2, <3>1, <3>2
    <3>4. ~ m <= s
      BY <3>1, <3>3, StartsOrder
    <3>. QED  BY <2>1, <2>2, <3>1, <3>4
  <2>. QED  BY <2>2 DEF SlotCovered
<1>. QED  BY <1>1, InvAlways, PTL

\* No segment manifest whose commit is over refers to a chunk that is gone.
THEOREM NothingDangles ==
  ASSUME SafeWorlds
  PROVE  Spec => []NoDanglingSegment
<1>1. SinkInv => NoDanglingSegment
  BY DEF SinkInv, ChunkInv, KeptInv, BytesInv, Unconfirmed, NoDanglingSegment
<1>. QED  BY <1>1, InvAlways, PTL

\* The archive has no hole, over skipping walsenders, reconnects and restarts.
THEOREM NoHoleEver ==
  ASSUME SafeWorlds
  PROVE  Spec => []NoHole
<1>1. SinkInv => NoHole
  BY BaseFacts DEF SinkInv, OrderInv, ArchiveInv, NoHole
<1>. QED  BY <1>1, InvAlways, PTL

\* What PostgreSQL was told lies between the beginning of the archive and what
\* is archived for good.
LogInv ==
    /\ ArchivedLSN \in Int /\ Floor(slot) \in Int /\ StartOf(Base) \in Int /\ Floor(WalEnd) \in Int
    /\ StartOf(Base) <= Floor(slot) /\ Floor(slot) <= ArchivedLSN /\ ArchivedLSN <= Floor(WalEnd)

\* The archive ends where the first segment is not there for good.
LEMMA LogPlace ==
  ASSUME SinkInv
  PROVE  LogInv
<1>b. /\ Base \in Nat /\ WalEnd \in Nat /\ slot \in Nat /\ SlotStart \in Nat /\ slot >= SlotStart
      /\ StartOf(Base) <= SlotStart
  BY BaseFacts, OrderTypes DEF SinkInv
<1>1. PICK t, m \in Int :
           /\ m >= Base
           /\ \A s \in Int : Base <= s /\ s < m => Durable(s)
           /\ ~Durable(m)
           /\ slot < EndOf(m) /\ StartOf(m) <= WalEnd
  BY DurableUpTo
<1>2. /\ SegOf(slot) \in Nat /\ Floor(slot) <= slot /\ slot < EndOf(SegOf(slot)) /\ Floor(slot) = StartOf(SegOf(slot))
      /\ SegOf(WalEnd) \in Nat /\ WalEnd < EndOf(SegOf(WalEnd)) /\ Floor(WalEnd) = StartOf(SegOf(WalEnd))
  BY <1>b, SegOfPosition DEF Floor
<1>3. /\ StartOf(m) \in Int /\ EndOf(m) \in Int /\ StartOf(Base) \in Int /\ Floor(slot) \in Int /\ Floor(WalEnd) \in Int
      /\ EndOf(SegOf(slot)) \in Int /\ EndOf(SegOf(WalEnd)) \in Int
  BY <1>b, <1>2, Starts
<1>4. m <= SegOf(WalEnd)
  <2>1. StartOf(m) < EndOf(SegOf(WalEnd))
    BY <1>1, <1>2, <1>3, <1>b
  <2>. QED  BY <1>2, <2>1, StartsOrder
<1>5. SegOf(slot) <= m
  <2>1. StartOf(SegOf(slot)) < EndOf(m)
    BY <1>1, <1>2, <1>3, <1>b
  <2>. QED  BY <1>2, <2>1, StartsOrder
<1>6. Base <= SegOf(slot)
  <2>1. StartOf(Base) < EndOf(SegOf(slot))
    BY <1>2, <1>3, <1>b
  <2>. QED  BY <1>2, <1>b, <2>1, StartsOrder
<1>7. ArchivedLSN = StartOf(m)
  <2>1. PICK S : S = {s \in Base .. SegOf(WalEnd) + 1 : ~Durable(s)}
    OBVIOUS
  <2>2. m \in S /\ \A y \in S : m <= y
    BY <1>1, <1>2, <1>4, <1>b, <2>1
  <2>3. \A x \in S : x \in Int
    BY <1>2, <1>b, <2>1
  <2>4. \A x \in S : (\A y \in S : x <= y) => x = m
    BY <2>2, <2>3
  <2>5. Min(S) = m
    BY <2>2, <2>4 DEF Min
  <2>. QED  BY <2>1, <2>5 DEF ArchivedLSN
<1>8. StartOf(m) <= Floor(WalEnd) /\ Floor(slot) <= StartOf(m) /\ StartOf(Base) <= Floor(slot)
  BY <1>2, <1>4, <1>5, <1>6, <1>b, StartsOrder
<1>. QED  BY <1>3, <1>7, <1>8 DEF LogInv

\* A stream that is first set up has archived and given up nothing.
LEMMA InitLog ==
  ASSUME Init
  PROVE  Log!Init
<1>b. /\ Base \in Nat /\ WalEnd \in Nat /\ SlotStart \in Nat /\ SlotStart <= WalEnd /\ StartOf(Base) <= SlotStart
  BY BaseFacts
<1>1. Floor(slot) = StartOf(Base)
  BY DEF Init, Floor, Base
<1>2. SegOf(WalEnd) \in Nat /\ Base <= SegOf(WalEnd)
  <2>0. SegOf(WalEnd) \in Nat /\ WalEnd < EndOf(SegOf(WalEnd))
    BY <1>b, SegOfPosition
  <2>1. SegOf(WalEnd) \in Nat /\ WalEnd < EndOf(SegOf(WalEnd)) /\ StartOf(Base) \in Int /\ EndOf(SegOf(WalEnd)) \in Int
    BY <1>b, <2>0, Starts
  <2>2. StartOf(Base) < EndOf(SegOf(WalEnd))
    BY <1>b, <2>1
  <2>. QED  BY <1>b, <2>1, <2>2, StartsOrder
<1>3. PICK S : S = {s \in Base .. SegOf(WalEnd) + 1 : ~Durable(s)}
  OBVIOUS
<1>4. S = Base .. SegOf(WalEnd) + 1
  BY <1>3 DEF Init, Durable
<1>5. Base \in S /\ (\A y \in S : Base <= y) /\ \A x \in S : (\A y \in S : x <= y) => x = Base
  BY <1>2, <1>4, <1>b
<1>6. Min(S) = Base
  BY <1>5 DEF Min
<1>. QED  BY <1>1, <1>3, <1>6 DEF Log!Init, ArchivedLSN

\* A step tells PostgreSQL of more, or changes what is archived, above what it
\* was told.
LEMMA LogStep ==
  ASSUME LogInv, LogInv', [Next]_vars
  PROVE  [Log!Next]_(Log!vars)
<1>1. CASE SendStatus
  <2>1. UNCHANGED <<committed, stored, solid, linked, torn>>
    BY <1>1 DEF SendStatus, repository
  <2>2. ArchivedLSN' = ArchivedLSN
    BY <2>1 DEF ArchivedLSN, Durable, StartOf, SegOf, Base
  <2>3. StartOf(Base)' = StartOf(Base)
    BY DEF StartOf, Base, SegOf
  <2>4. Floor(slot)' \in StartOf(Base) .. ArchivedLSN
    BY <2>2, <2>3 DEF LogInv
  <2>. QED  BY <2>2, <2>4 DEF Log!Next, Log!Acknowledge
<1>2. CASE slot' = slot
  <2>1. Floor(slot)' = Floor(slot) /\ Floor(WalEnd)' = Floor(WalEnd)
    BY <1>2 DEF Floor, StartOf, SegOf
  <2>2. ArchivedLSN' \in Floor(slot) .. Floor(WalEnd)
    BY <2>1 DEF LogInv
  <2>. QED  BY <2>1, <2>2 DEF Log!Next, Log!Archive
<1>. QED
  BY <1>1, <1>2
     DEF vars, Next, Receiver, Processor, Environment, Connect, Refused, Receive, Copy, HandOff, Closed, Decide,
         TakeJob, PutChunk, Chunked, Sync, Link, Sync2, Fence, Verify, Commit, Confirm, Confirmed, TakeBack, Advance, Drained,
         StreamBreaks, Stop, BarrierFails, LinkFails, VerifyBlind, CommitUnanswered, ConfirmBlind, ConfirmFails, StepFails, Age, Sweep,
         PushSegment, LoseWAL, Crash, PowerLoss, Restart

\* `wal stream` is a durable log: PostgreSQL gives up a prefix of its WAL only
\* once the archive holds that prefix for good.
THEOREM ImplementsDurableLog ==
  ASSUME SafeWorlds
  PROVE  Spec => IsDurableLog
<1>1. Init => Log!Init
  BY InitLog
<1>2. SinkInv => LogInv
  BY LogPlace
<1>3. LogInv /\ LogInv' /\ [Next]_vars => [Log!Next]_(Log!vars)
  BY LogStep
<1>. QED  BY <1>1, <1>2, <1>3, InvAlways, PTL DEF Spec, IsDurableLog, Log!Safe
=============================================================================
