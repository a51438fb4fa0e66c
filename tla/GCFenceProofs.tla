---------------------------- MODULE GCFenceProofs ----------------------------
(* Proofs about GCFence, for every set of writers, runs and chunks and for   *)
(* every choice of the durations.                                            *)
EXTENDS GCFence, TLAPS

-----------------------------------------------------------------------------
(* Type correctness.                                                         *)

\* The durations are natural numbers, spelled out for the provers.
LEMMA ConstantTypes ==
    /\ Settle \in Nat /\ Budget \in Nat /\ RunTTL \in Nat /\ PinTTL \in Nat
    /\ MaxWait \in Nat /\ Retention \in Nat /\ MinAge \in Nat /\ Slice \in Nat
    /\ MaxTime \in Nat /\ Budget < Settle /\ RunTTL > 0 /\ PinTTL > 0
  BY TimeAssumption

\* Init satisfies the type invariant.
LEMMA InitType == Init => TypeOK
  BY ConstantTypes DEF Init, TypeOK, GCPhases, WriterPhases, Never

\* The delete window is a natural number.
LEMMA WindowType == ASSUME NEW spent \in Int PROVE Window(spent) \in Nat
  BY ConstantTypes DEF Window

\* Every step of a writer preserves the type invariant.
LEMMA WriterType ==
    ASSUME TypeOK, NEW w \in Writers,
           WriterStep(w) \/ Fail(w) \/ Expire(w)
    PROVE  TypeOK'
<1> USE ConstantTypes DEF TypeOK, WriterPhases, PreCommit, PostCommit, Finished,
          repo, record, sweep, writer, Goto
<1>1. CASE Begin(w)  BY <1>1 DEF Begin
<1>2. ASSUME NEW c \in Chunks, AdoptChunk(w, c) PROVE TypeOK'
  BY <1>2 DEF AdoptChunk
<1>3. ASSUME NEW c \in Chunks, WriteChunk(w, c) PROVE TypeOK'
  BY <1>3 DEF WriteChunk
<1>4. CASE BeginFence(w)
  <2>1. wpc' \in [Writers -> WriterPhases]  BY ZenonT(60), <1>4 DEF BeginFence
  <2>2. seenRuns' \in [Writers -> SUBSET Runs]
    <3>1. PresentRuns \in SUBSET Runs  BY DEF PresentRuns
    <3>2. seenRuns' = seenRuns \/ seenRuns' = [seenRuns EXCEPT ![w] = PresentRuns]
      BY <1>4 DEF BeginFence
    <3> QED  BY <3>1, <3>2
  <2> QED  BY <1>4, <2>1, <2>2 DEF BeginFence
<1>5. ASSUME NEW here, NEW there \in WriterPhases, WritePin(w, here, there) PROVE TypeOK'
  <2>1. pinAt' = pinAt \/ pinAt' = [pinAt EXCEPT ![w] = now]  BY <1>5 DEF WritePin
  <2>2. pinAt' \in [Writers -> Nat \cup {Never}]  BY SMTT(30), <2>1
  <2>3. pinStored' \subseteq Writers  BY <1>5 DEF WritePin
  <2>4. wpc' \in [Writers -> WriterPhases]  BY <1>5 DEF WritePin
  <2> QED  BY <1>5, <2>2, <2>3, <2>4 DEF WritePin
<1>6. ASSUME NEW here, NEW there \in WriterPhases, ReadRuns(w, here, there) PROVE TypeOK'
  <2>1. PICK bad \in Unreadable : waitFor' = [waitFor EXCEPT ![w] =
                       [g \in Runs |-> IF g \in LiveRuns(bad) THEN ListedSeq(g, bad) ELSE Never]]
    BY <1>6 DEF ReadRuns
  <2>2. \A g \in Runs : ListedSeq(g, bad) \in Nat  BY DEF ListedSeq
  <2>3. waitFor' \in [Writers -> [Runs -> Nat \cup {Never}]]  BY <2>1, <2>2
  <2> QED  BY <1>6, <2>3 DEF ReadRuns, PresentRuns, WaitDeadline
<1>7. ASSUME NEW g \in Runs, PollRun(w, g) PROVE TypeOK'
  BY <1>7 DEF PollRun
<1>8. ASSUME NEW here, NEW there \in WriterPhases, WaitOver(w, here, there) PROVE TypeOK'
  BY <1>8 DEF WaitOver
<1>9. CASE GiveUp(w)  BY <1>9 DEF GiveUp
<1>10. CASE VerifyAdopted(w)  BY <1>10 DEF VerifyAdopted
<1>11. CASE Commit(w)  BY <1>11 DEF Commit
<1>12. CASE Confirm(w)  BY <1>12 DEF Confirm
<1>13. CASE Restat(w)  BY <1>13 DEF Restat
<1>14. CASE Fail(w)  BY <1>14 DEF Fail
<1>15. CASE Expire(w)  BY <1>15 DEF Expire
<1> QED
  BY <1>1, <1>2, <1>3, <1>4, <1>5, <1>6, <1>7, <1>8, <1>9, <1>10, <1>11,
     <1>12, <1>13, <1>14, <1>15 DEF WriterStep

\* Every step of a sweep preserves the type invariant.
LEMMA SweepType ==
    ASSUME TypeOK, NEW g \in Runs,
           SweepStep(g) \/ Heartbeat(g) \/ Stop(g) \/ Crash(g)
    PROVE  TypeOK'
<1> USE ConstantTypes DEF TypeOK, GCPhases, repo, record, sweep, writer, GoGC,
          WriteRecord
<1>1. CASE StartRun(g)  BY <1>1 DEF StartRun
<1>2. CASE Walk(g)
  <2>1. Referenced \subseteq Chunks  BY DEF Referenced, References
  <2>2. gpc' \in [Runs -> GCPhases]  BY <1>2 DEF Walk
  <2>3. grefs' \in [Runs -> SUBSET Chunks]
    <3>1. grefs' = grefs \/ grefs' = [grefs EXCEPT ![g] = Referenced]
      BY <1>2 DEF Walk
    <3> QED  BY <3>1, <2>1
  <2>4. gorph' \in [Runs -> SUBSET Chunks]
    <3> DEFINE O == {c \in stored \ Referenced : OldEnough(g, c)}
    <3>1. gorph' = gorph \/ gorph' = [gorph EXCEPT ![g] = O]
      BY <1>2 DEF Walk
    <3>2. O \in SUBSET Chunks  OBVIOUS
    <3> QED  BY <3>1, <3>2
  <2> QED  BY <1>2, <2>2, <2>3, <2>4 DEF Walk
<1>3. CASE Advance(g)  BY <1>3 DEF Advance
<1>4. CASE AdvanceFails(g)  BY <1>4 DEF AdvanceFails
<1>5. CASE ReadPins(g)  BY <1>5 DEF ReadPins
<1>6. CASE Rescan(g)
  <2>1. Referenced \subseteq Chunks  BY DEF Referenced, References
  <2>2. Window(now - gdeadline[g]) \in Nat  BY WindowType
  <2>3. gpc' \in [Runs -> GCPhases]  BY <1>6 DEF Rescan
  <2>4. grefs' \in [Runs -> SUBSET Chunks]
    <3>1. grefs' = grefs \/ grefs' = [grefs EXCEPT ![g] = grefs[g] \cup Referenced]
      BY <1>6 DEF Rescan
    <3>2. grefs[g] \cup Referenced \in SUBSET Chunks  BY <2>1
    <3> QED  BY <3>1, <3>2
  <2>5. gdeadline' \in [Runs -> Nat]
    <3> DEFINE D == now + Window(now - gdeadline[g])
    <3>1. gdeadline' = gdeadline \/ gdeadline' = [gdeadline EXCEPT ![g] = D]
      BY <1>6 DEF Rescan
    <3>2. D \in Nat  BY <2>2
    <3> QED  BY <3>1, <3>2
  <2> QED  BY <1>6, <2>3, <2>4, <2>5 DEF Rescan
<1>7. CASE ReuseCheckpoint(g)  BY <1>7 DEF ReuseCheckpoint
<1>8. CASE CheckFresh(g)
  <2>1. gpc' \in [Runs -> GCPhases]  BY ZenonT(60), <1>8 DEF CheckFresh
  <2>2. gbatch' \in [Runs -> SUBSET Chunks]
    <3>1. gbatch' = gbatch \/ \E b \in SUBSET gorph[g] : gbatch' = [gbatch EXCEPT ![g] = b]
      BY <1>8 DEF CheckFresh
    <3> QED  BY <3>1
  <2> QED  BY <1>8, <2>1, <2>2 DEF CheckFresh
<1>9. ASSUME NEW c \in Chunks, DeleteOne(g, c) PROVE TypeOK'
  BY <1>9 DEF DeleteOne
<1>10. ASSUME NEW c \in Chunks, DeleteFails(g, c) PROVE TypeOK'
  BY <1>10 DEF DeleteFails
<1>11. CASE BatchDone(g)  BY <1>11 DEF BatchDone
<1>12. CASE LogDrained(g)  BY <1>12 DEF LogDrained
<1>13. CASE Heartbeat(g)  BY <1>13 DEF Heartbeat
<1>14. CASE Stop(g)  BY <1>14 DEF Stop
<1>15. CASE Finish(g)
  <2>1. rstate' \in [Runs -> {"absent", "running", "finished"}]
    BY <1>15 DEF Finish
  <2> QED  BY <1>15, <2>1 DEF Finish
<1>16. CASE Crash(g)  BY <1>16 DEF Crash
<1> QED
  BY <1>1, <1>2, <1>3, <1>4, <1>5, <1>6, <1>7, <1>8, <1>9, <1>10, <1>11,
     <1>12, <1>13, <1>14, <1>15, <1>16 DEF SweepStep

\* The type invariant holds in every reachable state of the protocol.
THEOREM TypeCorrect == Spec => []TypeOK
<1>1. Init => TypeOK  BY InitType
<1>2. TypeOK /\ [Next]_vars => TypeOK'
  <2> SUFFICES ASSUME TypeOK, [Next]_vars PROVE TypeOK'  OBVIOUS
  <2>1. CASE Tick
    BY <2>1, ConstantTypes DEF Tick, TypeOK, repo, record, sweep, writer
  <2>2. CASE UNCHANGED vars
    BY <2>2 DEF TypeOK, vars, repo, record, sweep, writer
  <2> QED  BY <2>1, <2>2, WriterType, SweepType DEF Next
<1> QED  BY <1>1, <1>2, PTL DEF Spec

-----------------------------------------------------------------------------
(* What one step can do to the part of a sweep that the invariant is about.  *)

\* A sweep that was harmless stays so, unless it starts.
StaysHarmless(g) ==
    Harmless(g) => Harmless(g)' \/ (gpc[g] = "off" /\ gpc'[g] = "walk" /\ gstart'[g] = now)

\* Before the next delete the sweep rescans, and the rescan sees every manifest.
RescansFirst(g) ==
    WillRescan(g) => \/ WillRescan(g)' \/ Harmless(g)'
                     \/ gpc'[g] = "fresh" /\ Referenced \subseteq grefs'[g]

\* The step that reads the pins of a checkpoint.
PinsRead(g) ==
    /\ gpc[g] = "pins" /\ gpc'[g] = "rescan"
    /\ \A v \in pinStored : now - pinAt[v] < PinTTL => adopted[v] \subseteq gpins'[g]

ReadsPinsFirst(g) ==
    /\ WillReadPins(g) => WillReadPins(g)' \/ Harmless(g)' \/ PinsRead(g)
    /\ gpc[g] = "pins" => \/ gpc'[g] = "pins" /\ gdeadline'[g] = gdeadline[g]
                          \/ Harmless(g)' \/ PinsRead(g)

\* seq moves only with a new checkpoint.
SeqMoves(g) ==
    \/ rseq'[g] = rseq[g]
    \/ gpc'[g] = "pins" /\ gdeadline'[g] = now
    \/ gpc[g] = "off" /\ gpc'[g] = "walk"

\* A start never goes back; a record is reaped only when it is old.
RecordMoves(g) ==
    /\ gpc[g] # "off" => gpc'[g] # "off"
    /\ gstart'[g] = gstart[g] \/ (gpc[g] = "off" /\ gpc'[g] = "walk")
    /\ gpc[g] # "off" => rbeat[g] <= rbeat'[g]
    /\ rstate[g] # "absent" /\ rstate'[g] = "absent" => now - rbeat[g] > Retention

SweepMoves ==
    \A g \in Runs :
        /\ StaysHarmless(g)
        /\ \A c \in Chunks : Spares(g, c) => Spares(g, c)'
        /\ RescansFirst(g) /\ ReadsPinsFirst(g) /\ SeqMoves(g) /\ RecordMoves(g)

\* A chunk disappears only under a sweep in its delete phase that does not spare it.
DeletedBy(c) ==
    \E g \in Runs : gpc[g] = "delete" /\ ~Harmless(g) /\ ~Spares(g, c)

\* Steps of writers leave the sweeps alone.
LEMMA WriterMoves ==
    ASSUME TypeOK, SweepInv, UNCHANGED <<now, record, sweep>>
    PROVE  SweepMoves
<1> SUFFICES ASSUME NEW g \in Runs
             PROVE  /\ StaysHarmless(g) /\ (\A c \in Chunks : Spares(g, c) => Spares(g, c)')
                    /\ RescansFirst(g) /\ ReadsPinsFirst(g) /\ SeqMoves(g) /\ RecordMoves(g)
  BY DEF SweepMoves
<1> USE DEF record, sweep
<1>1. StaysHarmless(g)  BY DEF StaysHarmless, Harmless, LiveAt
<1>2. \A c \in Chunks : Spares(g, c) => Spares(g, c)'  BY DEF Spares
<1>3. RescansFirst(g)  BY DEF RescansFirst, WillRescan
<1>4. ReadsPinsFirst(g)  BY DEF ReadsPinsFirst, WillReadPins
<1>5. SeqMoves(g) /\ RecordMoves(g)  BY DEF SeqMoves, RecordMoves, TypeOK
<1> QED  BY <1>1, <1>2, <1>3, <1>4, <1>5


\* Steps of a sweep, with no heartbeat after a lapse.
LEMMA SweepStepMoves ==
    ASSUME TypeOK, SweepInv, ~LapsedBeats, NEW h \in Runs,
           SweepStep(h) \/ Heartbeat(h) \/ Stop(h) \/ Crash(h)
    PROVE  SweepMoves
<1> SUFFICES ASSUME NEW g \in Runs
             PROVE  /\ StaysHarmless(g) /\ (\A c \in Chunks : Spares(g, c) => Spares(g, c)')
                    /\ RescansFirst(g) /\ ReadsPinsFirst(g) /\ SeqMoves(g) /\ RecordMoves(g)
  BY DEF SweepMoves
<1> USE ConstantTypes DEF TypeOK, SweepInv, record, sweep, repo, writer, GoGC, WriteRecord,
      Sweeping, MayBeat, StaysHarmless, Harmless, LiveAt, Spares, RescansFirst, WillRescan,
      ReadsPinsFirst, WillReadPins, PinsRead, SeqMoves, RecordMoves
<1>1. CASE StartRun(h)  BY <1>1 DEF StartRun
<1>2. CASE Walk(h)  BY <1>2 DEF Walk
<1>3. CASE Advance(h)  BY <1>3 DEF Advance
<1>4. CASE AdvanceFails(h)  BY <1>4 DEF AdvanceFails
<1>5. CASE ReadPins(h)  BY <1>5 DEF ReadPins
<1>6. CASE Rescan(h)  BY <1>6 DEF Rescan
<1>7. CASE ReuseCheckpoint(h)  BY <1>7 DEF ReuseCheckpoint
<1>8. CASE CheckFresh(h)  BY <1>8 DEF CheckFresh
<1>9. ASSUME NEW c \in Chunks, DeleteOne(h, c)
      PROVE  /\ StaysHarmless(g) /\ (\A d \in Chunks : Spares(g, d) => Spares(g, d)')
             /\ RescansFirst(g) /\ ReadsPinsFirst(g) /\ SeqMoves(g) /\ RecordMoves(g)
  BY <1>9 DEF DeleteOne
<1>10. ASSUME NEW c \in Chunks, DeleteFails(h, c)
      PROVE  /\ StaysHarmless(g) /\ (\A d \in Chunks : Spares(g, d) => Spares(g, d)')
             /\ RescansFirst(g) /\ ReadsPinsFirst(g) /\ SeqMoves(g) /\ RecordMoves(g)
  BY <1>10 DEF DeleteFails
<1>11. CASE BatchDone(h)  BY <1>11 DEF BatchDone
<1>12. CASE LogDrained(h)  BY <1>12 DEF LogDrained
<1>13. CASE Heartbeat(h)  BY <1>13 DEF Heartbeat
<1>14. CASE Stop(h)  BY <1>14 DEF Stop
<1>15. CASE Finish(h)  BY <1>15 DEF Finish
<1>16. CASE Crash(h)  BY <1>16 DEF Crash
<1> QED
  BY <1>1, <1>2, <1>3, <1>4, <1>5, <1>6, <1>7, <1>8, <1>9, <1>10, <1>11,
     <1>12, <1>13, <1>14, <1>15, <1>16 DEF SweepStep

\* The clock moves.
LEMMA TickMoves ==
    ASSUME TypeOK, SweepInv, Tick
    PROVE  SweepMoves
<1> SUFFICES ASSUME NEW g \in Runs
             PROVE  /\ StaysHarmless(g) /\ (\A c \in Chunks : Spares(g, c) => Spares(g, c)')
                    /\ RescansFirst(g) /\ ReadsPinsFirst(g) /\ SeqMoves(g) /\ RecordMoves(g)
  BY DEF SweepMoves
<1> QED
  BY ConstantTypes DEF Tick, TypeOK, record, sweep, StaysHarmless, Harmless, LiveAt, Spares,
     RescansFirst, WillRescan, ReadsPinsFirst, WillReadPins, SeqMoves, RecordMoves


\* Only DeleteOne takes a chunk away.
LEMMA DeletingStep ==
    ASSUME [Next]_vars, NEW c \in stored, c \notin stored'
    PROVE  \E g \in Runs : DeleteOne(g, c)
<1>1. ASSUME NEW w \in Writers, WriterStep(w) \/ Fail(w) \/ Expire(w) PROVE FALSE
  BY <1>1 DEF WriterStep, Fail, Expire, Begin, AdoptChunk, WriteChunk, BeginFence,
     WritePin, ReadRuns, PollRun, WaitOver, GiveUp, VerifyAdopted, Commit, Confirm,
     Restat, repo
<1>2. ASSUME NEW g \in Runs, SweepStep(g) \/ Heartbeat(g) \/ Stop(g) \/ Crash(g)
      PROVE  DeleteOne(g, c)
  BY <1>2 DEF SweepStep, Heartbeat, Stop, Crash, StartRun, Walk, Advance, AdvanceFails,
     ReadPins, Rescan, ReuseCheckpoint, CheckFresh, DeleteOne, DeleteFails, BatchDone,
     LogDrained, Finish, repo
<1>3. ~Tick /\ ~UNCHANGED vars  BY DEF Tick, vars, repo
<1> QED  BY <1>1, <1>2, <1>3 DEF Next

\* A chunk disappears only in a batch of a sweep that neither refers to it nor pins it.
LEMMA Deletions ==
    ASSUME TypeOK, SweepInv, [Next]_vars, NEW c \in stored, c \notin stored'
    PROVE  DeletedBy(c)
<1>1. PICK g \in Runs : DeleteOne(g, c)  BY DeletingStep
<1>2. gpc[g] = "delete" /\ c \in gorph[g] /\ c \notin grefs[g] \cup gpins[g]
  BY <1>1 DEF DeleteOne, SweepInv, TypeOK
<1>3. ~Harmless(g)
  BY <1>2 DEF Harmless, LiveAt, SweepInv, Sweeping, TypeOK
<1> QED  BY <1>2, <1>3 DEF DeletedBy, Spares

-----------------------------------------------------------------------------
(* The invariant on the sweeps.                                              *)

\* No step disturbs SweepInv when heartbeats do not resume after a lapse.
LEMMA SweepInvKept ==
    ASSUME TypeOK, SweepInv, ~LapsedBeats, ~StalledFences, [Next]_vars
    PROVE  SweepInv'
<1> USE ConstantTypes
<1>1. CASE UNCHANGED <<now, record, sweep>>
  BY <1>1 DEF SweepInv, Settled, record, sweep
<1>2. CASE Tick
  <2> SUFFICES ASSUME NEW g \in Runs PROVE SweepInv!(g)'  BY DEF SweepInv
  <2> QED
  BY <1>2 DEF Tick, SweepInv, Settled, record, sweep, TypeOK, DeletesArePrompt,
     FencesArePrompt
<1>3. ASSUME NEW h \in Runs, SweepStep(h) \/ Heartbeat(h) \/ Stop(h) \/ Crash(h)
      PROVE  SweepInv'
  <2> SUFFICES ASSUME NEW g \in Runs PROVE SweepInv!(g)'  BY DEF SweepInv
  <2> USE DEF SweepInv, Settled, TypeOK, Sweeping, GoGC, WriteRecord, MayBeat, repo, writer,
        record, sweep, LiveAt
  <2>1. CASE StartRun(h)  BY <2>1 DEF StartRun
  <2>2. CASE Walk(h)  BY <2>2 DEF Walk
  <2>3. CASE Advance(h)  BY <2>3 DEF Advance
  <2>4. CASE AdvanceFails(h)  BY <2>4 DEF AdvanceFails
  <2>5. CASE ReadPins(h)  BY <2>5 DEF ReadPins
  <2>6. CASE Rescan(h)  BY <2>6 DEF Rescan
  <2>7. CASE ReuseCheckpoint(h)  BY <2>7 DEF ReuseCheckpoint
  <2>8. CASE CheckFresh(h)  BY <2>8 DEF CheckFresh
  <2>9. ASSUME NEW c \in Chunks, DeleteOne(h, c) PROVE SweepInv!(g)'
    BY <2>9 DEF DeleteOne
  <2>10. ASSUME NEW c \in Chunks, DeleteFails(h, c) PROVE SweepInv!(g)'
    BY <2>10 DEF DeleteFails
  <2>11. CASE BatchDone(h)  BY <2>11 DEF BatchDone
  <2>12. CASE LogDrained(h)  BY <2>12 DEF LogDrained
  <2>13. CASE Heartbeat(h)  BY <2>13 DEF Heartbeat
  <2>14. CASE Stop(h)  BY <2>14 DEF Stop
  <2>15. CASE Finish(h)  BY <2>15 DEF Finish
  <2>16. CASE Crash(h)  BY <2>16 DEF Crash
  <2> QED
    BY <1>3, <2>1, <2>2, <2>3, <2>4, <2>5, <2>6, <2>7, <2>8, <2>9, <2>10, <2>11,
       <2>12, <2>13, <2>14, <2>15, <2>16 DEF SweepStep
<1>4. ASSUME NEW w \in Writers, WriterStep(w) \/ Fail(w) \/ Expire(w)
      PROVE  UNCHANGED <<now, record, sweep>>
  BY <1>4 DEF WriterStep, Fail, Expire, Begin, AdoptChunk, WriteChunk, BeginFence,
     WritePin, ReadRuns, PollRun, WaitOver, GiveUp, VerifyAdopted, Commit, Confirm, Restat
<1>5. UNCHANGED vars => UNCHANGED <<now, record, sweep>>  BY DEF vars
<1> QED  BY <1>1, <1>2, <1>3, <1>4, <1>5 DEF Next


-----------------------------------------------------------------------------
(* Who changes what.                                                         *)

\* The step leaves writer v and its manifest alone (retention aside).
Bystander(v) ==
    /\ wpc'[v] = wpc[v] /\ adopted'[v] = adopted[v] /\ fstart'[v] = fstart[v]
    /\ seenRuns'[v] = seenRuns[v] /\ pinAt'[v] = pinAt[v] /\ waitFor'[v] = waitFor[v]
    /\ v \in live' => v \in live
    /\ wpc[v] # "ok" /\ v \in live => v \in live'
    /\ v \in unchecked' <=> v \in unchecked

\* A step of a writer leaves the sweeps and the other writers alone.
LEMMA WriterFrame ==
    ASSUME TypeOK, NEW w \in Writers, WriterStep(w) \/ Fail(w) \/ Expire(w)
    PROVE  /\ UNCHANGED <<now, record, sweep>>
           /\ \A v \in Writers \ {w} : Bystander(v) /\ (v \in pinStored' <=> v \in pinStored)
<1> USE DEF TypeOK, Bystander, repo, record, sweep, writer, Goto
<1>1. CASE Begin(w)  BY <1>1 DEF Begin
<1>2. ASSUME NEW c \in Chunks, AdoptChunk(w, c) \/ WriteChunk(w, c)
      PROVE  /\ UNCHANGED <<now, record, sweep>>
             /\ \A v \in Writers \ {w} : Bystander(v) /\ (v \in pinStored' <=> v \in pinStored)
  BY <1>2 DEF AdoptChunk, WriteChunk
<1>3. CASE BeginFence(w)  BY <1>3 DEF BeginFence
<1>4. ASSUME NEW here, NEW there,
             WritePin(w, here, there) \/ ReadRuns(w, here, there) \/ WaitOver(w, here, there)
      PROVE  /\ UNCHANGED <<now, record, sweep>>
             /\ \A v \in Writers \ {w} : Bystander(v) /\ (v \in pinStored' <=> v \in pinStored)
  BY <1>4 DEF WritePin, ReadRuns, WaitOver
<1>5. ASSUME NEW g \in Runs, PollRun(w, g)
      PROVE  /\ UNCHANGED <<now, record, sweep>>
             /\ \A v \in Writers \ {w} : Bystander(v) /\ (v \in pinStored' <=> v \in pinStored)
  BY <1>5 DEF PollRun
<1>6. CASE GiveUp(w) \/ VerifyAdopted(w)  BY <1>6 DEF GiveUp, VerifyAdopted
<1>7. CASE Commit(w) \/ Confirm(w) \/ Restat(w)  BY <1>7 DEF Commit, Confirm, Restat
<1>8. CASE Fail(w) \/ Expire(w)  BY <1>8 DEF Fail, Expire
<1> QED  BY <1>1, <1>2, <1>3, <1>4, <1>5, <1>6, <1>7, <1>8 DEF WriterStep

\* Steps of the sweeps and of the clock leave every writer alone.
LEMMA SweepFrame ==
    ASSUME TypeOK,
           \/ \E g \in Runs : SweepStep(g) \/ Heartbeat(g) \/ Stop(g) \/ Crash(g)
           \/ Tick
    PROVE  /\ UNCHANGED <<writer, live>>
           /\ now' = now \/ (Tick /\ now' = now + 1)
           /\ \A v \in Writers : Bystander(v)
           /\ \A v \in Writers : \/ v \in pinStored' <=> v \in pinStored
                                 \/ v \notin pinStored' /\ now - pinAt[v] > PinTTL /\ now' = now
<1>1. /\ UNCHANGED <<writer, live>>
      /\ now' = now \/ (Tick /\ now' = now + 1)
  BY DEF SweepStep, Heartbeat, Stop, Crash, StartRun, Walk, Advance, AdvanceFails, ReadPins,
     Rescan, ReuseCheckpoint, CheckFresh, DeleteOne, DeleteFails, BatchDone, LogDrained,
     Finish, Tick, repo
<1>2. \/ pinStored' = pinStored
      \/ pinStored' = {v \in pinStored : now - pinAt[v] <= PinTTL} /\ now' = now
  BY DEF SweepStep, Heartbeat, Stop, Crash, StartRun, Walk, Advance, AdvanceFails, ReadPins,
     Rescan, ReuseCheckpoint, CheckFresh, DeleteOne, DeleteFails, BatchDone, LogDrained,
     Finish, Tick, repo
<1>3. \A v \in Writers : Bystander(v)  BY <1>1 DEF Bystander, writer
<1>4. \A v \in Writers : pinAt[v] \in Int /\ now \in Int  BY DEF TypeOK, Never
<1> QED  BY <1>1, <1>2, <1>3, <1>4, ConstantTypes


-----------------------------------------------------------------------------
(* The invariant on the fences.                                              *)

\* No step disturbs FenceInv.
LEMMA FenceInvKept ==
    ASSUME TypeOK, TypeOK', SweepInv, FenceInv, SweepMoves, ~StalledFences, [Next]_vars
    PROVE  FenceInv'
<1> USE ConstantTypes
<1>1. \A v \in Writers : pinAt[v] \in Int /\ fstart[v] \in Int /\ now \in Int /\ now' \in Int
  BY DEF TypeOK, Never
<1>2. \A v \in Writers : \A g \in seenRuns[v] : g \in Runs /\ gpc'[g] # "off"
  BY DEF FenceInv, SweepMoves, RecordMoves, TypeOK
<1>3. ASSUME NEW w \in Writers, WriterStep(w) \/ Fail(w) \/ Expire(w)
      PROVE  FenceInv'
  <2>1. /\ UNCHANGED <<now, record, sweep>>
        /\ \A v \in Writers \ {w} : Bystander(v) /\ (v \in pinStored' <=> v \in pinStored)
    BY <1>3, WriterFrame
  <2>2. ASSUME NEW v \in Writers \ {w} PROVE FenceInv!(v)'
    BY <1>1, <1>2, <2>1, <2>2 DEF FenceInv, Bystander, PinFresh, PostCommit, Finished
  <2>3. ASSUME FenceInv!(w)' PROVE FenceInv'
    BY <2>2, <2>3 DEF FenceInv
  <2> SUFFICES FenceInv!(w)'  BY <2>3
  <2> USE <1>1, <1>2 DEF FenceInv, TypeOK, PostCommit, PreCommit, Finished, PinFresh, Goto,
            Never, repo, record, sweep, writer
  <2>0. /\ FenceInv!(w) /\ pinAt[w] \in Int /\ fstart[w] \in Int /\ now \in Nat
        /\ PinTTL \in Nat /\ PinTTL > 0
    OBVIOUS
  <2>4. CASE Begin(w)  BY <2>4 DEF Begin
  <2>5. ASSUME NEW c \in Chunks, AdoptChunk(w, c) \/ WriteChunk(w, c) PROVE FenceInv!(w)'
    BY <2>5 DEF AdoptChunk, WriteChunk
  <2>6. CASE BeginFence(w)
    <3>1. \A g \in PresentRuns : g \in Runs /\ gpc[g] # "off"  BY DEF PresentRuns, SweepInv
    <3>2. /\ fstart'[w] = now /\ pinAt'[w] = Never /\ pinStored' = pinStored /\ live' = live
          /\ adopted' = adopted /\ wpc[w] = "put" /\ gpc' = gpc /\ now' = now
      BY <2>6 DEF BeginFence
    <3>3. wpc'[w] = "commit" \/ (wpc'[w] \in {"pin", "stat"} /\ adopted[w] # {})
      BY <2>6 DEF BeginFence
    <3>4. \A g \in seenRuns'[w] : gpc[g] # "off"
      <4>1. seenRuns' = seenRuns \/ seenRuns' = [seenRuns EXCEPT ![w] = PresentRuns]
        BY <2>6 DEF BeginFence
      <4> QED  BY <3>1, <4>1
    <3> HIDE <1>1, <1>2, ConstantTypes DEF FenceInv, TypeOK
    <3> QED  BY <2>0, <3>2, <3>3, <3>4
  <2>7. CASE WritePin(w, "pin", "list") \/ WritePin(w, "pin2", "list2")
    <3>1. /\ fstart' = fstart /\ live' = live /\ adopted' = adopted /\ gpc' = gpc
          /\ now' = now /\ seenRuns' = seenRuns
      BY <2>7 DEF WritePin
    <3>2. \/ wpc[w] = "pin" /\ wpc'[w] = "list"
          \/ wpc[w] = "pin2" /\ wpc'[w] = "list2"
      BY <2>7 DEF WritePin
    <3>3. \/ pinAt[w] = Never /\ pinAt'[w] = now /\ w \in pinStored'
          \/ pinAt[w] # Never /\ pinAt' = pinAt /\ pinStored' = pinStored
      BY <2>7 DEF WritePin
    <3> HIDE <1>1, <1>2, ConstantTypes DEF FenceInv, TypeOK
    <3>4. CASE wpc[w] = "pin"
      <4>1. pinAt'[w] = now /\ w \in pinStored'  BY <2>0, <3>3, <3>4
      <4> QED  BY <2>0, <3>1, <3>2, <3>4, <4>1
    <3>5. CASE wpc[w] = "pin2" /\ pinAt[w] = Never
      <4>1. pinAt'[w] = now /\ w \in pinStored'  BY <3>3, <3>5
      <4> QED  BY <2>0, <3>1, <3>2, <3>5, <4>1
    <3>6. CASE wpc[w] = "pin2" /\ pinAt[w] # Never
      BY <2>0, <3>1, <3>2, <3>3, <3>6
    <3> QED  BY <3>2, <3>4, <3>5, <3>6
  <2>8. CASE ReadRuns(w, "list", "wait") \/ ReadRuns(w, "list2", "wait2")
    <3>1. \A g \in PresentRuns : gpc[g] # "off"  BY DEF PresentRuns, SweepInv
    <3>2. /\ fstart' = fstart /\ live' = live /\ adopted' = adopted /\ gpc' = gpc
          /\ now' = now /\ pinAt' = pinAt /\ pinStored' = pinStored
      BY <2>8 DEF ReadRuns
    <3>3. \/ wpc[w] = "list" /\ wpc'[w] = "wait"
          \/ wpc[w] = "list2" /\ wpc'[w] = "wait2"
      BY <2>8 DEF ReadRuns
    <3>4. seenRuns'[w] = seenRuns[w] \cup PresentRuns  BY <2>8 DEF ReadRuns
    <3> HIDE <1>1, <1>2, ConstantTypes DEF FenceInv, TypeOK
    <3> QED  BY <2>0, <3>1, <3>2, <3>3, <3>4
  <2>9. ASSUME NEW g \in Runs, PollRun(w, g) PROVE FenceInv!(w)'
    BY <2>9 DEF PollRun
  <2>10. CASE WaitOver(w, "wait", "stat") \/ WaitOver(w, "wait2", "stat2")
    <3>1. UNCHANGED <<fstart, live, adopted, gpc, now, pinAt, pinStored, seenRuns>>
      BY <2>10 DEF WaitOver
    <3>2. \/ wpc[w] = "wait" /\ wpc'[w] = "stat"
          \/ wpc[w] = "wait2" /\ wpc'[w] = "stat2"
      BY <2>10 DEF WaitOver
    <3> HIDE <1>1, <1>2, ConstantTypes DEF FenceInv, TypeOK
    <3> QED  BY <2>0, <3>1, <3>2
  <2>11. CASE GiveUp(w)  BY <2>11 DEF GiveUp
  <2>12. CASE VerifyAdopted(w)  BY ZenonT(60), <2>12 DEF VerifyAdopted
  <2>13. CASE Commit(w)  BY <2>13 DEF Commit
  <2>14. CASE Confirm(w)  BY <2>14 DEF Confirm
  <2>15. CASE Restat(w)  BY <2>15 DEF Restat
  <2>16. CASE Fail(w)  BY <2>16 DEF Fail
  <2>17. CASE Expire(w)  BY <2>17 DEF Expire, Droppable
  <2> QED
    BY <1>3, <2>4, <2>5, <2>6, <2>7, <2>8, <2>9, <2>10, <2>11, <2>12, <2>13, <2>14,
       <2>15, <2>16, <2>17 DEF WriterStep
<1>4. CASE \/ \E g \in Runs : SweepStep(g) \/ Heartbeat(g) \/ Stop(g) \/ Crash(g)
           \/ Tick
  <2> SUFFICES ASSUME NEW v \in Writers PROVE FenceInv!(v)'  BY DEF FenceInv
  <2>1. /\ UNCHANGED <<writer, live>>
        /\ now' = now \/ (Tick /\ now' = now + 1)
        /\ \/ v \in pinStored' <=> v \in pinStored
           \/ v \notin pinStored' /\ now - pinAt[v] > PinTTL /\ now' = now
    BY <1>4, SweepFrame
  <2>2. wpc[v] \in {"list", "wait"} => PinFresh(v)'
    BY <1>1, <2>1 DEF Tick, FencesArePrompt, FenceInv, PinFresh, writer
  <2> QED
    BY <1>1, <1>2, <2>1, <2>2 DEF FenceInv, writer
<1>5. CASE UNCHANGED vars
  BY <1>5 DEF FenceInv, PinFresh, vars, repo, writer, sweep
<1> QED  BY <1>3, <1>4, <1>5 DEF Next

-----------------------------------------------------------------------------
(* The writers, seen from the invariants: one disjunct per step that enters  *)
(* or stays in a phase they speak of.                                        *)

\* NoRunSince, whatever could not be read.
QuietSince(w) ==
    /\ PresentRuns \subseteq seenRuns[w] /\ \A g \in Runs : ~LiveAt(g)
    /\ 2 * (now - fstart[w]) < Retention

\* A record that cannot be read is never taken for the record of a run that ended.
LEMMA NoLiveRun ==
    ASSUME NEW bad \in Unreadable, LiveRuns(bad) = {}
    PROVE  \A g \in Runs : ~LiveAt(g)
  BY DEF LiveRuns, LiveAt, PresentRuns

BeganFence(w) ==
    /\ fstart'[w] = now /\ adopted'[w] = adopted[w] /\ pinAt'[w] = pinAt[w] /\ wpc[w] = "put"
    /\ \/ adopted[w] = {} /\ wpc'[w] = "commit"
       \/ /\ seenRuns'[w] = PresentRuns
          /\ wpc'[w] = "pin" \/ (wpc'[w] = "stat" /\ \A g \in Runs : ~LiveAt(g))

Listed(w) ==
    /\ \/ wpc[w] = "list" /\ wpc'[w] = "wait"
       \/ wpc[w] = "list2" /\ wpc'[w] = "wait2"
    /\ seenRuns'[w] = seenRuns[w] \cup PresentRuns
    /\ RecordFaults \/ \A g \in Runs : LiveAt(g) => waitFor'[w][g] = rseq[g]
    /\ pinAt'[w] = pinAt[w] /\ adopted'[w] = adopted[w] /\ fstart'[w] = fstart[w]

Polled(w) ==
    /\ wpc[w] \in {"wait", "wait2"} /\ wpc'[w] = wpc[w]
    /\ \A g \in Runs : waitFor'[w][g] = waitFor[w][g] \/ ~LiveAt(g) \/ rseq[g] > waitFor[w][g]
    /\ seenRuns'[w] = seenRuns[w] /\ pinAt'[w] = pinAt[w] /\ adopted'[w] = adopted[w]
    /\ fstart'[w] = fstart[w]

\* The steps from one phase to the next that change nothing else of the fence.
Advances(w) ==
    /\ seenRuns'[w] = seenRuns[w] /\ adopted'[w] = adopted[w] /\ fstart'[w] = fstart[w]
    /\ \/ wpc[w] = "pin" /\ wpc'[w] = "list"
       \/ /\ pinAt'[w] = pinAt[w]
          /\ \/ wpc[w] = "wait" /\ wpc'[w] = "stat" /\ Waited(w)
             \/ wpc[w] = "wait2" /\ wpc'[w] = "stat2" /\ Waited(w)
             \/ wpc[w] = "stat" /\ wpc'[w] = "commit"
                /\ (w \notin unchecked' => adopted[w] \subseteq stored)
             \/ wpc[w] = "commit" /\ wpc'[w] = "confirm" /\ unchecked' = unchecked
             \/ wpc[w] = "confirm" /\ wpc'[w] = "ok" /\ unchecked' = unchecked
                /\ (ConfirmedByFence(w) \/ QuietSince(w))
             \/ wpc[w] = "stat2" /\ wpc'[w] = "ok" /\ (~StatFaults => adopted[w] \subseteq stored)

Leaves(w) ==
    \/ wpc'[w] \in {"put", "pin2", "list2", "failed", "refused", "swept"}
    \/ wpc'[w] = "ok" /\ w \notin live'

\* Every step of a writer is one of these.
LEMMA WriterCases ==
    ASSUME TypeOK, NEW w \in Writers, WriterStep(w) \/ Fail(w) \/ Expire(w)
    PROVE  /\ UNCHANGED <<now, record, sweep>> /\ stored \subseteq stored'
           /\ wpc'[w] # "confirm" => (w \in live' => w \in live)
           /\ BeganFence(w) \/ Listed(w) \/ Polled(w) \/ Advances(w) \/ Leaves(w)
<1>1. UNCHANGED <<now, record, sweep>>  BY WriterFrame
<1>2. stored \subseteq stored'
  BY DEF WriterStep, Fail, Expire, Begin, AdoptChunk, WriteChunk, BeginFence, WritePin,
     ReadRuns, PollRun, WaitOver, GiveUp, VerifyAdopted, Commit, Confirm, Restat, repo
<1>3. wpc'[w] # "confirm" => (w \in live' => w \in live)
  BY DEF WriterStep, Fail, Expire, Begin, AdoptChunk, WriteChunk, BeginFence, WritePin,
     ReadRuns, PollRun, WaitOver, GiveUp, VerifyAdopted, Commit, Confirm, Restat, repo,
     TypeOK, Goto
<1>4. BeganFence(w) \/ Listed(w) \/ Polled(w) \/ Advances(w) \/ Leaves(w)
  <2> USE DEF TypeOK, Goto
  <2>1. CASE Begin(w)  BY <2>1 DEF Begin, Leaves
  <2>2. ASSUME NEW c \in Chunks, AdoptChunk(w, c) \/ WriteChunk(w, c) PROVE Leaves(w)
    BY <2>2 DEF AdoptChunk, WriteChunk, Leaves
  <2>3. CASE BeginFence(w)  BY <2>3, NoLiveRun DEF BeginFence, BeganFence
  <2>4. CASE WritePin(w, "pin", "list")  
    <3>1. seenRuns' = seenRuns /\ adopted' = adopted /\ fstart' = fstart
      BY <2>4 DEF WritePin
    <3>2. wpc[w] = "pin" /\ wpc'[w] = "list"  BY <2>4 DEF WritePin
    <3> QED  BY <3>1, <3>2 DEF Advances
  <2>5. CASE WritePin(w, "pin2", "list2")  BY <2>5 DEF WritePin, Leaves
  <2>6. CASE ReadRuns(w, "list", "wait") \/ ReadRuns(w, "list2", "wait2")
    <3>1. /\ \/ wpc[w] = "list" /\ wpc'[w] = "wait"
             \/ wpc[w] = "list2" /\ wpc'[w] = "wait2"
          /\ seenRuns'[w] = seenRuns[w] \cup PresentRuns
          /\ pinAt'[w] = pinAt[w] /\ adopted'[w] = adopted[w] /\ fstart'[w] = fstart[w]
      BY <2>6 DEF ReadRuns
    <3>2. ASSUME ~RecordFaults, NEW g \in Runs, LiveAt(g)
          PROVE  waitFor'[w][g] = rseq[g]
      <4>1. Unreadable = {{}} /\ g \in LiveRuns({}) /\ ListedSeq(g, {}) = rseq[g]
        BY <3>2 DEF Unreadable, LiveRuns, LiveAt, PresentRuns, ListedSeq
      <4> QED  BY <2>6, <4>1 DEF ReadRuns
    <3> QED  BY <3>1, <3>2 DEF Listed
  <2>7. ASSUME NEW g \in Runs, PollRun(w, g) PROVE Polled(w)
    BY <2>7 DEF PollRun, Polled
  <2>8. CASE WaitOver(w, "wait", "stat") \/ WaitOver(w, "wait2", "stat2")
    BY <2>8 DEF WaitOver, Advances
  <2>9. CASE GiveUp(w)  BY <2>9 DEF GiveUp, Leaves
  <2>10. CASE VerifyAdopted(w)  BY <2>10 DEF VerifyAdopted, Advances, Leaves
  <2>11. CASE Commit(w)  BY <2>11 DEF Commit, Advances
  <2>12. CASE Confirm(w)
    <3>1. PICK bad \in Unreadable :
            Goto(w, IF ConfirmedByFence(w) \/ NoRunSince(w, bad) THEN "ok" ELSE "pin2")
      BY <2>12 DEF Confirm
    <3>2. NoRunSince(w, bad) => QuietSince(w)  BY NoLiveRun DEF NoRunSince, QuietSince
    <3> QED  BY <2>12, <3>1, <3>2 DEF Confirm, Advances, Leaves
  <2>13. CASE Restat(w)  BY <2>13 DEF Restat, Advances, Leaves, FaultyStats
  <2>14. CASE Fail(w)  BY <2>14 DEF Fail, Leaves
  <2>15. CASE Expire(w)  BY <2>15 DEF Expire, Droppable, Leaves, writer
  <2> QED
    BY <2>1, <2>2, <2>3, <2>4, <2>5, <2>6, <2>7, <2>8, <2>9, <2>10, <2>11, <2>12,
       <2>13, <2>14, <2>15 DEF WriterStep
<1> QED  BY <1>1, <1>2, <1>3, <1>4

\* A writer either takes the step itself or stands by.
LEMMA ActsOrStandsBy ==
    ASSUME TypeOK, [Next]_vars, NEW v \in Writers
    PROVE  Bystander(v) \/ WriterStep(v) \/ Fail(v) \/ Expire(v)
<1>1. ASSUME NEW w \in Writers, WriterStep(w) \/ Fail(w) \/ Expire(w)
      PROVE  Bystander(v) \/ WriterStep(v) \/ Fail(v) \/ Expire(v)
  BY <1>1, WriterFrame
<1>2. CASE \/ \E g \in Runs : SweepStep(g) \/ Heartbeat(g) \/ Stop(g) \/ Crash(g)
           \/ Tick
  BY <1>2, SweepFrame
<1>3. CASE UNCHANGED vars  BY <1>3 DEF vars, repo, writer, Bystander
<1> QED  BY <1>1, <1>2, <1>3 DEF Next

\* Every step moves the sweeps as SweepMoves says, and never the clock back.
LEMMA StepMoves ==
    ASSUME TypeOK, SweepInv, ~LapsedBeats, [Next]_vars
    PROVE  SweepMoves /\ now <= now' /\ now' \in Int
<1>1. ASSUME NEW w \in Writers, WriterStep(w) \/ Fail(w) \/ Expire(w)
      PROVE  SweepMoves /\ now' = now
  BY <1>1, WriterFrame, WriterMoves
<1>2. ASSUME NEW g \in Runs, SweepStep(g) \/ Heartbeat(g) \/ Stop(g) \/ Crash(g)
      PROVE  SweepMoves /\ now' \in {now, now + 1}
  BY <1>2, SweepStepMoves, SweepFrame
<1>3. CASE Tick
  <2>1. now' = now + 1  BY <1>3 DEF Tick
  <2> QED  BY <1>3, <2>1, TickMoves DEF TypeOK
<1>4. CASE UNCHANGED vars
  BY <1>4, WriterMoves DEF vars, TypeOK
<1> QED  BY <1>1, <1>2, <1>3, <1>4 DEF Next, TypeOK

-----------------------------------------------------------------------------
(* What the fences know of the runs.                                         *)

\* What one writer's fence knows, and the step it meets, as scalars.
LEMMA FenceFacts ==
    ASSUME TypeOK, SweepInv, FenceInv, NEW v \in Writers
    PROVE  /\ now \in Nat /\ fstart[v] \in Nat /\ fstart[v] <= now
           /\ pinAt[v] \in Int /\ pinAt[v] <= now
           /\ adopted[v] \subseteq Chunks /\ seenRuns[v] \subseteq Runs
           /\ \A g \in seenRuns[v] : gpc[g] # "off"
           /\ pinAt[v] # Never /\ now - pinAt[v] <= PinTTL => v \in pinStored
           /\ wpc[v] \in {"put", "pin"} => pinAt[v] = Never
           /\ wpc[v] \in {"list", "wait"} => PinFresh(v)
           /\ wpc[v] \in PostCommit => v \in live
           /\ v \in live => wpc[v] \in PostCommit \cup Finished
           /\ \A g \in Runs : /\ rseq[g] \in Nat /\ gstart[g] \in Nat /\ gdeadline[g] \in Nat
                               /\ waitFor[v][g] \in Int
  BY DEF TypeOK, FenceInv, Never

\* A run that is not live, or has no record, is harmless.
LEMMA NotLive ==
    ASSUME NEW g \in Runs, ~LiveAt(g) PROVE Harmless(g)
  BY DEF Harmless

\* Nothing of the sweeps changes under a writer's step.
LEMMA SweepsStill ==
    ASSUME UNCHANGED <<now, record, sweep>>
    PROVE  \A g \in Runs :
             /\ Harmless(g)' = Harmless(g) /\ WillReadPins(g)' = WillReadPins(g)
             /\ WillRescan(g)' = WillRescan(g) /\ gstart'[g] = gstart[g]
             /\ rseq'[g] = rseq[g] /\ gpc'[g] = gpc[g] /\ gdeadline'[g] = gdeadline[g]
             /\ rbeat'[g] = rbeat[g] /\ rstate'[g] = rstate[g]
             /\ \A c \in Chunks : Spares(g, c)' = Spares(g, c)
  BY DEF record, sweep, Harmless, LiveAt, WillReadPins, WillRescan, Spares

\* No step disturbs UnseenInv.
LEMMA UnseenInvKept ==
    ASSUME TypeOK, SweepInv, FenceInv, UnseenInv, SweepMoves, [Next]_vars
    PROVE  UnseenInv'
<1> SUFFICES ASSUME NEW v \in Writers,
                    (adopted[v] # {} /\ wpc[v] \in {"pin", "list", "wait"} \cup Fenced)',
                    NEW g \in Runs, g \notin seenRuns'[v]
             PROVE  Harmless(g)' \/ fstart'[v] <= gstart'[g]
  BY DEF UnseenInv, Fenced
<1>1. CASE Bystander(v)
  <2>1. Harmless(g) \/ fstart[v] <= gstart[g]  BY <1>1 DEF Bystander, UnseenInv, Fenced
  <2>2. gpc[g] = "off" => Harmless(g)  BY DEF Harmless, Sweeping
  <2> QED
    BY <1>1, <2>1, <2>2, FenceFacts DEF Bystander, SweepMoves, StaysHarmless, RecordMoves
<1>2. CASE WriterStep(v) \/ Fail(v) \/ Expire(v)
  <2>1. UNCHANGED <<now, record, sweep>>  BY <1>2, WriterCases
  <2>2. Harmless(g)' = Harmless(g) /\ gstart'[g] = gstart[g]  BY <2>1, SweepsStill
  <2>3. CASE BeganFence(v)
    <3>1. g \notin PresentRuns  BY <2>3 DEF BeganFence
    <3> QED  BY <3>1, <2>2, NotLive DEF PresentRuns, LiveAt
  <2>4. CASE Listed(v) \/ Polled(v) \/ Advances(v)
    BY <2>4, <2>2 DEF Listed, Polled, Advances, UnseenInv, Fenced
  <2>5. CASE Leaves(v)  BY <2>5 DEF Leaves, Fenced
  <2> QED  BY <1>2, <2>3, <2>4, <2>5, WriterCases
<1> QED  BY <1>1, <1>2, ActsOrStandsBy

\* No step disturbs UnpinnedInv.
LEMMA UnpinnedInvKept ==
    ASSUME TypeOK, SweepInv, FenceInv, UnpinnedInv, SweepMoves, [Next]_vars
    PROVE  UnpinnedInv'
<1> SUFFICES ASSUME NEW v \in Writers,
                    (adopted[v] # {} /\ wpc[v] \in Fenced /\ pinAt[v] = Never)',
                    NEW g \in seenRuns'[v]
             PROVE  Harmless(g)'
  BY DEF UnpinnedInv, Fenced
<1>1. CASE Bystander(v)
  <2>1. Harmless(g) /\ g \in Runs /\ gpc[g] # "off"
    BY <1>1, FenceFacts DEF Bystander, UnpinnedInv, Fenced
  <2> QED  BY <2>1 DEF SweepMoves, StaysHarmless
<1>2. CASE WriterStep(v) \/ Fail(v) \/ Expire(v)
  <2>1. UNCHANGED <<now, record, sweep>>  BY <1>2, WriterCases
  <2>2. \A h \in Runs : Harmless(h)' = Harmless(h)  BY <2>1, SweepsStill
  <2>3. CASE BeganFence(v)
    <3>1. g \in Runs /\ ~LiveAt(g)
      BY <2>3 DEF BeganFence, Fenced, PresentRuns
    <3> QED  BY <3>1, <2>2, NotLive
  <2>4. CASE Listed(v) \/ Polled(v) \/ Leaves(v)
    BY <2>4 DEF Listed, Polled, Leaves, Fenced
  <2>5. CASE Advances(v)
    <3>1. wpc[v] # "wait"  BY <2>5, FenceFacts DEF Advances, Fenced, PinFresh
    <3> QED  BY <2>5, <2>2, <3>1, FenceFacts DEF Advances, UnpinnedInv, Fenced
  <2> QED  BY <1>2, <2>3, <2>4, <2>5, WriterCases
<1> QED  BY <1>1, <1>2, ActsOrStandsBy

\* A run that reads the pins while w's is valid spares what w adopted.
LEMMA PinSpares ==
    ASSUME TypeOK, SweepInv, FenceInv, NEW v \in Writers, NEW g \in Runs, NEW c \in adopted[v],
           PinsRead(g), pinAt[v] # Never, now - pinAt[v] < PinTTL
    PROVE  Spares(g, c)'
<1>1. v \in pinStored  BY ConstantTypes, FenceFacts
<1>2. c \in gpins'[g] /\ gpc'[g] = "rescan"  BY <1>1 DEF PinsRead
<1> QED  BY <1>2 DEF Spares

\* No step disturbs PinnedInv.
LEMMA PinnedInvKept ==
    ASSUME TypeOK, SweepInv, FenceInv, PinnedInv, SweepMoves, ~RecordFaults,
           now <= now', now' \in Int, [Next]_vars
    PROVE  PinnedInv'
<1> SUFFICES ASSUME NEW v \in Writers,
                    (wpc[v] \in {"wait"} \cup Fenced /\ pinAt[v] # Never)',
                    NEW g \in Runs, NEW c \in adopted'[v]
             PROVE  \/ Protected(v, g, c)'
                    \/ (wpc[v] = "wait" /\ waitFor[v][g] = rseq[g])'
                    \/ (g \notin seenRuns[v] /\ (PinFresh(v) => WillReadPins(g)))'
  BY DEF PinnedInv, Fenced
<1> DEFINE Held == \/ Protected(v, g, c)
                   \/ wpc[v] = "wait" /\ waitFor[v][g] = rseq[g]
                   \/ g \notin seenRuns[v] /\ (PinFresh(v) => WillReadPins(g))
<1>1. CASE Bystander(v)
  <2>1. /\ wpc'[v] = wpc[v] /\ adopted'[v] = adopted[v] /\ seenRuns'[v] = seenRuns[v]
        /\ pinAt'[v] = pinAt[v] /\ waitFor'[v] = waitFor[v] /\ pinAt[v] # Never
    BY <1>1 DEF Bystander
  <2>2. Held /\ c \in Chunks
    BY <2>1, FenceFacts DEF PinnedInv, Fenced
  <2>3. CASE Harmless(g)
    <3>1. CASE gpc[g] = "off" /\ gpc'[g] = "walk"
      BY <2>1, <3>1, FenceFacts DEF WillReadPins
    <3> QED  BY <2>3, <3>1 DEF SweepMoves, StaysHarmless, Protected
  <2>4. CASE Spares(g, c)  BY <2>2, <2>4 DEF SweepMoves, Protected
  <2>5. CASE gpc[g] = "pins" /\ 2 * (gdeadline[g] - pinAt[v]) < PinTTL
    <3>1. 2 * (now - gdeadline[g]) < PinTTL  BY <2>5 DEF SweepInv
    <3>2. now - pinAt[v] < PinTTL  BY <2>5, <3>1, FenceFacts, ConstantTypes
    <3>3. PinsRead(g) => Spares(g, c)'  BY <2>1, <3>2, PinSpares
    <3> QED  BY <2>1, <2>5, <3>3 DEF SweepMoves, ReadsPinsFirst, Protected
  <2>6. CASE wpc[v] = "wait" /\ waitFor[v][g] = rseq[g]
    <3>1. 2 * (now - pinAt[v]) < PinTTL  BY <2>6, FenceFacts DEF PinFresh
    <3>2. gpc[g] = "off" => Harmless(g)  BY DEF Harmless, Sweeping
    <3> QED  BY <2>1, <2>3, <2>6, <3>1, <3>2 DEF SweepMoves, SeqMoves, Protected
  <2>7. CASE g \notin seenRuns[v] /\ (PinFresh(v) => WillReadPins(g))
    <3>1. CASE PinFresh(v)'
      <4>1. PinFresh(v)  BY <2>1, <3>1, FenceFacts, ConstantTypes DEF PinFresh
      <4>2. now - pinAt[v] < PinTTL  BY <4>1, FenceFacts, ConstantTypes DEF PinFresh
      <4>3. PinsRead(g) => Spares(g, c)'  BY <2>1, <4>2, PinSpares
      <4> QED  BY <2>1, <2>7, <4>1, <4>3 DEF SweepMoves, ReadsPinsFirst, Protected
    <3> QED  BY <2>1, <2>7, <3>1
  <2> QED  BY <2>2, <2>3, <2>4, <2>5, <2>6, <2>7 DEF Protected
<1>2. CASE WriterStep(v) \/ Fail(v) \/ Expire(v)
  <2>1. UNCHANGED <<now, record, sweep>>  BY <1>2, WriterCases
  <2>2. /\ Harmless(g)' = Harmless(g) /\ WillReadPins(g)' = WillReadPins(g)
        /\ rseq'[g] = rseq[g] /\ gpc'[g] = gpc[g] /\ gdeadline'[g] = gdeadline[g]
        /\ \A d \in Chunks : Spares(g, d)' = Spares(g, d)
    BY <2>1, SweepsStill
  <2>3. CASE Polled(v) \/ Advances(v)
    <3>1. /\ adopted'[v] = adopted[v] /\ seenRuns'[v] = seenRuns[v] /\ pinAt'[v] = pinAt[v]
          /\ wpc[v] \in {"wait"} \cup Fenced
      BY <2>3 DEF Polled, Advances, Fenced
    <3>2. Held /\ c \in Chunks  BY <3>1, FenceFacts DEF PinnedInv, Fenced
    <3>3. Protected(v, g, c) => Protected(v, g, c)'
      BY <2>2, <3>1, <3>2 DEF Protected
    <3>4. PinFresh(v)' = PinFresh(v)  BY <2>1, <3>1 DEF PinFresh
    <3>5. CASE wpc[v] = "wait" /\ waitFor[v][g] = rseq[g]
      <4>1. ~Waited(v)  BY <3>5, FenceFacts DEF Waited, Never
      <4>2. wpc'[v] = "wait" /\ (waitFor'[v][g] = waitFor[v][g] \/ ~LiveAt(g))
        BY <2>3, <3>5, <4>1, FenceFacts DEF Polled, Advances
      <4> QED  BY <2>2, <3>5, <4>2, NotLive DEF Protected
    <3> QED  BY <2>2, <3>1, <3>2, <3>3, <3>4, <3>5
  <2>4. CASE Listed(v)
    BY <2>2, <2>4, NotLive DEF Listed, Protected, Fenced
  <2>5. CASE BeganFence(v)  BY <2>5, FenceFacts DEF BeganFence
  <2>6. CASE Leaves(v)  BY <2>6 DEF Leaves, Fenced
  <2> QED  BY <1>2, <2>3, <2>4, <2>5, <2>6, WriterCases
<1> QED  BY <1>1, <1>2, ActsOrStandsBy

-----------------------------------------------------------------------------
(* What a deleted chunk leaves behind, and what happens after the commit.    *)

\* A record that tells of a sweep since the fence began keeps telling.
LEMMA EvidenceKept ==
    ASSUME TypeOK, TypeOK', FenceInv, SweepInv, SweepMoves, now <= now', now' \in Int,
           NEW v \in Writers, Evidence(v),
           seenRuns'[v] = seenRuns[v], fstart'[v] = fstart[v]
    PROVE  Evidence(v)'
<1>1. PICK g \in Runs \ seenRuns[v] :
        /\ gpc[g] # "off" /\ fstart[v] <= rbeat[g]
        /\ rstate[g] # "absent" \/ now - fstart[v] > Retention
  BY DEF Evidence
<1>2. /\ rbeat[g] \in Nat /\ rbeat'[g] \in Nat /\ fstart[v] \in Nat /\ now \in Nat
      /\ Retention \in Nat
  BY ConstantTypes DEF TypeOK
<1>3. /\ gpc'[g] # "off" /\ rbeat[g] <= rbeat'[g]
      /\ rstate[g] # "absent" /\ rstate'[g] = "absent" => now - rbeat[g] > Retention
  BY <1>1 DEF SweepMoves, RecordMoves
<1>4. rstate'[g] # "absent" \/ now' - fstart[v] > Retention
  BY <1>1, <1>2, <1>3
<1> QED  BY <1>1, <1>2, <1>3, <1>4 DEF Evidence

\* No step disturbs EvidenceInv.
LEMMA EvidenceInvKept ==
    ASSUME TypeOK, TypeOK', SweepInv, FenceInv, UnseenInv, UnpinnedInv, PinnedInv, EvidenceInv,
           SweepMoves, now <= now', now' \in Int, [Next]_vars
    PROVE  EvidenceInv'
<1> SUFFICES ASSUME NEW v \in Writers, v \notin unchecked',
                    wpc'[v] \in {"commit", "confirm"},
                    NEW c \in adopted'[v], c \notin stored'
             PROVE  /\ Evidence(v)' /\ ~PinFresh(v)'
                    /\ pinAt'[v] = Never => now' - fstart'[v] > Budget
  BY DEF EvidenceInv
<1>1. CASE Bystander(v)
  <2>1. /\ wpc'[v] = wpc[v] /\ adopted'[v] = adopted[v] /\ seenRuns'[v] = seenRuns[v]
        /\ pinAt'[v] = pinAt[v] /\ fstart'[v] = fstart[v] /\ v \notin unchecked
    BY <1>1 DEF Bystander
  <2>2. SUFFICES /\ Evidence(v) /\ ~PinFresh(v)
                 /\ pinAt[v] = Never => now - fstart[v] > Budget
    <3>1. Evidence(v)'  BY <2>1, <2>2, EvidenceKept
    <3>2. ~PinFresh(v)'  BY <2>1, <2>2, FenceFacts, ConstantTypes DEF PinFresh
    <3>3. pinAt'[v] = Never => now' - fstart'[v] > Budget
      BY <2>1, <2>2, FenceFacts, ConstantTypes
    <3> QED  BY <3>1, <3>2, <3>3
  <2>3. CASE c \notin stored  BY <2>1, <2>3 DEF EvidenceInv
  <2>4. CASE c \in stored
    <3>1. PICK g \in Runs : gpc[g] = "delete" /\ ~Harmless(g) /\ ~Spares(g, c)
      BY <2>4, Deletions DEF DeletedBy
    <3>2. ~WillReadPins(g)  BY <3>1 DEF WillReadPins
    <3>3. wpc[v] \in Fenced /\ adopted[v] # {} /\ c \in adopted[v]  BY <2>1 DEF Fenced
    <3>4. g \notin seenRuns[v] /\ ~PinFresh(v)
      <4>1. CASE pinAt[v] = Never
        BY <3>1, <3>3, <4>1, FenceFacts DEF UnpinnedInv, PinFresh
      <4>2. CASE pinAt[v] # Never
        BY <3>1, <3>2, <3>3, <4>2 DEF PinnedInv, Protected, Fenced
      <4> QED  BY <4>1, <4>2
    <3>5. fstart[v] <= gstart[g]  BY <3>1, <3>3, <3>4 DEF UnseenInv, Fenced
    <3>6. gstart[g] <= rbeat[g] /\ rstate[g] # "absent" /\ now - gstart[g] >= Settle
      BY <3>1 DEF SweepInv, Sweeping, Harmless, LiveAt, Settled
    <3>7. gstart[g] \in Nat /\ rbeat[g] \in Nat /\ fstart[v] \in Nat /\ now \in Nat
      BY DEF TypeOK
    <3>8. Evidence(v)  BY <3>1, <3>4, <3>5, <3>6, <3>7 DEF Evidence
    <3>9. now - fstart[v] > Budget  BY <3>5, <3>6, <3>7, ConstantTypes
    <3> QED  BY <3>4, <3>8, <3>9
  <2> QED  BY <2>3, <2>4
<1>2. CASE WriterStep(v) \/ Fail(v) \/ Expire(v)
  <2>1. UNCHANGED <<now, record, sweep>> /\ c \notin stored  BY <1>2, WriterCases
  <2>2. CASE Advances(v)
    <3>1. /\ wpc[v] = "commit" /\ v \notin unchecked /\ pinAt'[v] = pinAt[v]
          /\ adopted'[v] = adopted[v] /\ seenRuns'[v] = seenRuns[v] /\ fstart'[v] = fstart[v]
      BY <2>1, <2>2 DEF Advances
    <3>2. /\ Evidence(v) /\ ~PinFresh(v)
          /\ pinAt[v] = Never => now - fstart[v] > Budget
      BY <2>1, <3>1 DEF EvidenceInv
    <3> QED  BY <2>1, <3>1, <3>2, EvidenceKept DEF PinFresh
  <2>3. CASE BeganFence(v)  BY <2>3 DEF BeganFence
  <2>4. CASE Listed(v) \/ Polled(v) \/ Leaves(v)  BY <2>4 DEF Listed, Polled, Leaves
  <2> QED  BY <1>2, <2>2, <2>3, <2>4, WriterCases
<1> QED  BY <1>1, <1>2, ActsOrStandsBy

\* Confirm's early returns are right: every run sees the manifest before it deletes.
LEMMA ConfirmedSafe ==
    ASSUME TypeOK, SweepInv, FenceInv, UnseenInv, UnpinnedInv, PinnedInv,
           NEW v \in Writers, wpc[v] = "confirm", ConfirmedByFence(v) \/ QuietSince(v),
           NEW g \in Runs, NEW c \in adopted[v]
    PROVE  Safe(g, c)
<1>1. wpc[v] \in Fenced  BY DEF Fenced
<1>2. CASE QuietSince(v)
  <2>1. ~LiveAt(g)  BY <1>2 DEF QuietSince
  <2> QED  BY <2>1, NotLive DEF Safe
<1>3. CASE pinAt[v] # Never /\ 2 * (now - pinAt[v]) < PinTTL
  <2>1. PinFresh(v)  BY <1>3 DEF PinFresh
  <2> QED
    BY <1>1, <1>3, <2>1 DEF PinnedInv, Protected, Safe, WillReadPins, WillRescan
<1>4. CASE pinAt[v] = Never /\ now - fstart[v] <= Budget
  <2>1. CASE g \in seenRuns[v]
    BY <1>1, <1>4, <2>1 DEF UnpinnedInv, Safe
  <2>2. CASE fstart[v] <= gstart[g] /\ ~Harmless(g)
    <3>1. ~Settled(g)  BY <1>4, <2>2, FenceFacts, ConstantTypes DEF Settled
    <3> QED  BY <2>2, <3>1 DEF SweepInv, Harmless, WillRescan, Safe
  <2> QED  BY <1>1, <2>1, <2>2 DEF UnseenInv, Safe
<1> QED  BY <1>2, <1>3, <1>4 DEF ConfirmedByFence

\* No step disturbs CommittedInv.
LEMMA CommittedInvKept ==
    ASSUME TypeOK, TypeOK', SweepInv, FenceInv, UnseenInv, UnpinnedInv, PinnedInv, CommittedInv,
           SweepMoves, ~RecordFaults, [Next]_vars
    PROVE  CommittedInv'
<1> SUFFICES ASSUME NEW v \in Writers, v \in live', NEW g \in Runs, NEW c \in adopted'[v]
             PROVE  /\ wpc'[v] = "wait2" => Safe(g, c)' \/ waitFor'[v][g] = rseq'[g]
                    /\ wpc'[v] \in {"stat2", "ok"} => Safe(g, c)'
  BY DEF CommittedInv, TypeOK
<1>1. CASE Bystander(v)
  <2>1. /\ wpc'[v] = wpc[v] /\ adopted'[v] = adopted[v] /\ waitFor'[v] = waitFor[v]
        /\ v \in live /\ c \in Chunks
    BY <1>1, FenceFacts DEF Bystander
  <2>2. Safe(g, c) => Safe(g, c)'
    <3>1. CASE Harmless(g)
      BY <3>1 DEF SweepMoves, StaysHarmless, Safe, WillRescan
    <3>2. CASE Spares(g, c)  BY <2>1, <3>2 DEF SweepMoves, Safe
    <3>3. CASE WillRescan(g)
      <4>1. c \in Referenced  BY <2>1 DEF Referenced, References
      <4> QED  BY <3>3, <4>1 DEF SweepMoves, RescansFirst, Safe, Spares
    <3> QED  BY <3>1, <3>2, <3>3 DEF Safe
  <2>3. waitFor[v][g] = rseq[g] => Safe(g, c)' \/ waitFor'[v][g] = rseq'[g]
    BY <2>1 DEF SweepMoves, SeqMoves, Safe, WillRescan
  <2> QED  BY <2>1, <2>2, <2>3 DEF CommittedInv
<1>2. CASE WriterStep(v) \/ Fail(v) \/ Expire(v)
  <2>1. UNCHANGED <<now, record, sweep>>  BY <1>2, WriterCases
  <2>2. ASSUME adopted'[v] = adopted[v]
        PROVE  (Safe(g, c)' = Safe(g, c)) /\ rseq'[g] = rseq[g]
    BY <2>1, <2>2, SweepsStill, FenceFacts DEF Safe
  <2>3. wpc'[v] # "confirm" => v \in live  BY <1>2, WriterCases
  <2>4. CASE Listed(v)  BY <2>2, <2>4, NotLive DEF Listed, Safe
  <2>5. CASE Polled(v)
    <3>1. wpc[v] = "wait2" => Safe(g, c) \/ waitFor[v][g] = rseq[g]
      BY <2>3, <2>5 DEF Polled, CommittedInv
    <3>2. waitFor'[v][g] = waitFor[v][g] \/ ~LiveAt(g) \/ rseq[g] > waitFor[v][g]
      BY <2>5 DEF Polled
    <3>3. wpc'[v] = "wait2" => Safe(g, c) \/ waitFor'[v][g] = rseq[g]
      BY <2>5, <3>1, <3>2, FenceFacts, NotLive DEF Polled, Safe
    <3> QED  BY <2>2, <2>5, <3>3 DEF Polled
  <2>6. CASE Advances(v)
    <3>1. adopted'[v] = adopted[v] /\ wpc'[v] # "wait2"  BY <2>6 DEF Advances
    <3>2. CASE wpc[v] = "wait2" /\ Waited(v)
      BY <2>2, <2>3, <2>6, <3>1, <3>2, FenceFacts DEF Advances, Waited, Never, CommittedInv
    <3>3. CASE wpc[v] = "stat2"
      BY <2>2, <2>3, <2>6, <3>1, <3>3 DEF Advances, CommittedInv
    <3>4. CASE wpc[v] = "confirm" /\ (ConfirmedByFence(v) \/ QuietSince(v))
      BY <2>2, <3>1, <3>4, ConfirmedSafe
    <3> QED  BY <2>6, <3>1, <3>2, <3>3, <3>4 DEF Advances
  <2>7. CASE BeganFence(v) \/ Leaves(v)  BY <2>7 DEF BeganFence, Leaves
  <2> QED  BY <1>2, <2>4, <2>5, <2>6, <2>7, WriterCases
<1> QED  BY <1>1, <1>2, ActsOrStandsBy

\* No step loses a chunk of a commit that reported success.
LEMMA NoAdoptedChunkLostKept ==
    ASSUME TypeOK, TypeOK', SweepInv, FenceInv, EvidenceInv, CommittedInv, NoAdoptedChunkLost,
           ~StatFaults, [Next]_vars
    PROVE  NoAdoptedChunkLost'
<1> SUFFICES ASSUME NEW v \in Writers, v \in live', v \notin unchecked', wpc'[v] = "ok",
                    NEW c \in adopted'[v], c \notin stored'
             PROVE  FALSE
  BY DEF NoAdoptedChunkLost, TypeOK
<1>1. CASE Bystander(v)
  <2>1. /\ wpc[v] = "ok" /\ c \in adopted[v] /\ v \in live /\ v \notin unchecked
    BY <1>1 DEF Bystander
  <2>2. c \in stored  BY <2>1 DEF NoAdoptedChunkLost
  <2>3. PICK g \in Runs : gpc[g] = "delete" /\ ~Harmless(g) /\ ~Spares(g, c)
    BY <2>2, Deletions DEF DeletedBy
  <2>4. Safe(g, c)  BY <2>1 DEF CommittedInv
  <2> QED  BY <2>3, <2>4 DEF Safe, WillRescan
<1>2. CASE WriterStep(v) \/ Fail(v) \/ Expire(v)
  <2>1. c \notin stored  BY <1>2, WriterCases
  <2>2. CASE Advances(v)
    <3>1. adopted'[v] = adopted[v]  BY <2>2 DEF Advances
    <3>2. /\ wpc[v] = "confirm" /\ v \notin unchecked
          /\ ConfirmedByFence(v) \/ QuietSince(v)
      BY <2>1, <2>2, <3>1 DEF Advances
    <3>3. /\ Evidence(v) /\ ~PinFresh(v)
          /\ pinAt[v] = Never => now - fstart[v] > Budget
      BY <2>1, <3>1, <3>2 DEF EvidenceInv
    <3>4. ~ConfirmedByFence(v)
      BY <3>1, <3>3, FenceFacts, ConstantTypes DEF ConfirmedByFence, PinFresh
    <3>5. ~QuietSince(v)
      <4>1. PICK g \in Runs \ seenRuns[v] :
               rstate[g] # "absent" \/ now - fstart[v] > Retention
        BY <3>3 DEF Evidence
      <4> QED  BY <4>1, FenceFacts, ConstantTypes DEF QuietSince, PresentRuns
    <3> QED  BY <3>2, <3>4, <3>5
  <2>3. CASE BeganFence(v) \/ Listed(v) \/ Polled(v) \/ Leaves(v)
    BY <2>3 DEF BeganFence, Listed, Polled, Leaves
  <2> QED  BY <1>2, <2>2, <2>3, WriterCases
<1> QED  BY <1>1, <1>2, ActsOrStandsBy

-----------------------------------------------------------------------------
(* The theorem.                                                              *)

\* Init satisfies the inductive invariant.
LEMMA InitAdopted == Init => AdoptedInv
<1> SUFFICES ASSUME Init PROVE AdoptedInv  OBVIOUS
<1> USE ConstantTypes DEF Init
<1>1. TypeOK  BY InitType
<1>2. SweepInv  BY DEF SweepInv, Sweeping
<1>3. FenceInv  BY DEF FenceInv, PinFresh, PostCommit, Finished, Never
<1>4. UnseenInv /\ UnpinnedInv /\ PinnedInv
  BY DEF UnseenInv, UnpinnedInv, PinnedInv, Fenced
<1>5. EvidenceInv /\ CommittedInv /\ NoAdoptedChunkLost
  BY DEF EvidenceInv, CommittedInv, NoAdoptedChunkLost
<1> QED  BY <1>1, <1>2, <1>3, <1>4, <1>5 DEF AdoptedInv

\* The invariant is inductive when heartbeats do not resume after a lapse, no
\* process stalls for half a pin's life inside the fence, Stat tells "missing"
\* from "present", and run records can be read.  Any number of sweeps may overlap.
THEOREM AdoptedInvariant ==
    ASSUME ~LapsedBeats, ~StalledFences, ~StatFaults, ~RecordFaults
    PROVE  Spec => []AdoptedInv
<1>1. Init => AdoptedInv  BY InitAdopted
<1>2. AdoptedInv /\ [Next]_vars => AdoptedInv'
  <2> SUFFICES ASSUME AdoptedInv, [Next]_vars PROVE AdoptedInv'  OBVIOUS
  <2> USE DEF AdoptedInv
  <2>1. TypeOK'
    <3>1. CASE Tick
      BY <3>1, ConstantTypes DEF Tick, TypeOK, repo, record, sweep, writer
    <3>2. CASE UNCHANGED vars
      BY <3>2 DEF TypeOK, vars, repo, record, sweep, writer
    <3> QED  BY <3>1, <3>2, WriterType, SweepType DEF Next
  <2>2. SweepMoves /\ now <= now' /\ now' \in Int  BY StepMoves
  <2>3. SweepInv'  BY SweepInvKept
  <2>4. FenceInv'  BY <2>1, <2>2, FenceInvKept
  <2>5. UnseenInv'  BY <2>2, UnseenInvKept
  <2>6. UnpinnedInv'  BY <2>2, UnpinnedInvKept
  <2>7. PinnedInv'  BY <2>2, PinnedInvKept
  <2>8. EvidenceInv'  BY <2>1, <2>2, EvidenceInvKept
  <2>9. CommittedInv'  BY <2>1, <2>2, CommittedInvKept
  <2>10. NoAdoptedChunkLost'  BY <2>1, NoAdoptedChunkLostKept
  <2> QED  BY <2>1, <2>3, <2>4, <2>5, <2>6, <2>7, <2>8, <2>9, <2>10
<1> QED  BY <1>1, <1>2, PTL DEF Spec

\* BeginCommitFence, the pin, the wait, VerifyAdopted and Confirm leave no
\* interleaving with any number of gc runs that silently loses a chunk a
\* successful commit deduplicated against.
THEOREM AdoptedChunksSafe ==
    ASSUME ~LapsedBeats, ~StalledFences, ~StatFaults, ~RecordFaults
    PROVE  Spec => []NoAdoptedChunkLost
<1>1. AdoptedInv => NoAdoptedChunkLost  BY DEF AdoptedInv
<1> QED  BY <1>1, AdoptedInvariant, PTL

-----------------------------------------------------------------------------
(* The chunks a writer wrote itself.  The fence is not involved: the listing  *)
(* of the sweep, its age floor, the settle and the lease checks are.          *)

\* The sweep does not have the chunk on its list.
Clear(g, c) == gpc[g] \in Sweeping => c \notin gorph[g]

\* The sweep skips the chunk, or reads the manifests before its next delete.
SeesManifest(g, c) ==
    gpc[g] \in Sweeping => c \notin gorph[g] \/ c \in grefs[g] \/ WillRescan(g)

\* A sweep is alone; what it lists is stored and was old enough when it began;
\* its first checkpoint comes after the settle.
ListingInv ==
    \A g \in Runs :
        /\ gpc[g] \in {"off", "walk"} => gorph[g] = {} /\ gdeadline[g] = 0
        /\ gpc[g] = "delete" => gbatch[g] \subseteq gorph[g]
        /\ gpc[g] \in Sweeping =>
             /\ gstart[g] <= now
             /\ ~Settled(g) => gpc[g] = "walk" \/ (gpc[g] = "next" /\ now >= gdeadline[g])
             /\ \A h \in Runs : gpc[h] \in Sweeping => h = g
             /\ \A c \in gorph[g] : c \in stored /\ mtime[c] <= gstart[g] - MinAge

\* Before the commit a chunk is too young to be deleted, or the lease keeps it
\* off every list; after the commit every sweep sees the manifest in time.
OwnInv ==
    \A w \in Writers :
        /\ wpc[w] = "idle" => own[w] = {}
        /\ wpc[w] \in PreCommit => \A c \in own[w] :
             /\ c \in stored
             /\ w \notin Leased => now < mtime[c] + MinAge + Settle
             /\ w \in Leased => \A g \in Runs : Clear(g, c)
        /\ w \in live /\ wpc[w] \in PostCommit \cup {"ok"} => \A c \in own[w] :
             c \in stored /\ \A g \in Runs : SeesManifest(g, c)

\* A step of a writer leaves what is stored and every sweep as they are, the
\* chunk it uploads aside.
LEMMA WriterKeepsChunks ==
    ASSUME TypeOK, NEW w \in Writers, WriterStep(w) \/ Fail(w) \/ Expire(w)
    PROVE  /\ UNCHANGED <<now, sweep>>
           /\ \/ UNCHANGED <<stored, mtime>>
              \/ \E c \in Chunks : WriteChunk(w, c)
  BY DEF TypeOK, repo, WriterStep, Fail, Expire, Begin, AdoptChunk, WriteChunk, BeginFence,
     WritePin, ReadRuns, PollRun, WaitOver, GiveUp, VerifyAdopted, Commit, Confirm, Restat

\* No step disturbs ListingInv while sweeps do not overlap.
LEMMA ListingInvKept ==
    ASSUME TypeOK, ListingInv, ~OverlappingRuns, [Next]_vars
    PROVE  ListingInv'
<1> USE ConstantTypes
<1>1. CASE UNCHANGED <<now, sweep, stored, mtime>>
  BY <1>1 DEF ListingInv, Settled, sweep
<1>2. CASE Tick
  <2> SUFFICES ASSUME NEW g \in Runs PROVE ListingInv!(g)'  BY DEF ListingInv
  <2> QED  BY SMTT(30), <1>2 DEF Tick, ListingInv, Settled, repo, sweep, TypeOK
<1>3. ASSUME NEW h \in Runs, SweepStep(h) \/ Heartbeat(h) \/ Stop(h) \/ Crash(h)
      PROVE  ListingInv'
  <2> SUFFICES ASSUME NEW g \in Runs PROVE ListingInv!(g)'  BY DEF ListingInv
  <2> USE DEF ListingInv, Settled, TypeOK, Sweeping, GoGC, repo, writer, sweep
  <2>1. CASE StartRun(h)  BY <2>1 DEF StartRun
  <2>2. CASE Walk(h)  BY <2>2 DEF Walk, OldEnough
  <2>3. CASE Advance(h)  BY <2>3 DEF Advance
  <2>4. CASE AdvanceFails(h)  BY <2>4 DEF AdvanceFails
  <2>5. CASE ReadPins(h)  BY <2>5 DEF ReadPins
  <2>6. CASE Rescan(h)  BY <2>6 DEF Rescan
  <2>7. CASE ReuseCheckpoint(h)  BY <2>7 DEF ReuseCheckpoint
  <2>8. CASE CheckFresh(h)  BY <2>8 DEF CheckFresh
  <2>9. ASSUME NEW c \in Chunks, DeleteOne(h, c) PROVE ListingInv!(g)'
    BY <2>9 DEF DeleteOne
  <2>10. ASSUME NEW c \in Chunks, DeleteFails(h, c) PROVE ListingInv!(g)'
    BY <2>10 DEF DeleteFails
  <2>11. CASE BatchDone(h)  BY <2>11 DEF BatchDone
  <2>12. CASE LogDrained(h)  BY <2>12 DEF LogDrained
  <2>13. CASE Heartbeat(h)  BY <2>13 DEF Heartbeat
  <2>14. CASE Stop(h)  BY <2>14 DEF Stop
  <2>15. CASE Finish(h)  BY <2>15 DEF Finish
  <2>16. CASE Crash(h)  BY <2>16 DEF Crash
  <2> QED
    BY <1>3, <2>1, <2>2, <2>3, <2>4, <2>5, <2>6, <2>7, <2>8, <2>9, <2>10, <2>11,
       <2>12, <2>13, <2>14, <2>15, <2>16 DEF SweepStep
<1>4. ASSUME NEW w \in Writers, NEW c \in Chunks, WriteChunk(w, c) PROVE ListingInv'
  <2> SUFFICES ASSUME NEW g \in Runs PROVE ListingInv!(g)'  BY DEF ListingInv
  <2> QED  BY <1>4 DEF WriteChunk, ListingInv, Settled, sweep, TypeOK
<1>5. ASSUME NEW w \in Writers, WriterStep(w) \/ Fail(w) \/ Expire(w) PROVE ListingInv'
  BY <1>1, <1>4, <1>5, WriterKeepsChunks
<1>6. UNCHANGED vars => ListingInv'  BY <1>1 DEF vars, repo
<1> QED  BY <1>2, <1>3, <1>5, <1>6 DEF Next

\* A chunk disappears only in a batch of the sweep that listed it.
LEMMA DeletedFromList ==
    ASSUME TypeOK, ListingInv, [Next]_vars, NEW c \in stored, c \notin stored'
    PROVE  \E g \in Runs : gpc[g] = "delete" /\ c \in gorph[g] /\ c \notin grefs[g]
<1>1. PICK g \in Runs : DeleteOne(g, c)  BY DeletingStep
<1> QED  BY <1>1 DEF DeleteOne, ListingInv

\* A manifest that is live at a rescan is seen by it, and a lease that is held
\* at the walk keeps every chunk off the list.
LEMMA SweepSees ==
    ASSUME TypeOK, ListingInv, NEW h \in Runs,
           SweepStep(h) \/ Heartbeat(h) \/ Stop(h) \/ Crash(h),
           NEW g \in Runs, NEW c \in Chunks
    PROVE  /\ LeaseHeld /\ Clear(g, c) => Clear(g, c)'
           /\ c \in Referenced /\ SeesManifest(g, c) => SeesManifest(g, c)'
<1> USE ConstantTypes DEF TypeOK, ListingInv, Sweeping, GoGC, repo, writer, sweep, Clear,
          SeesManifest, WillRescan
<1>1. CASE StartRun(h)  BY <1>1 DEF StartRun
<1>2. CASE Walk(h)  BY <1>2 DEF Walk
<1>3. CASE Advance(h)  BY <1>3 DEF Advance
<1>4. CASE AdvanceFails(h)  BY <1>4 DEF AdvanceFails
<1>5. CASE ReadPins(h)  BY <1>5 DEF ReadPins
<1>6. CASE Rescan(h)  BY <1>6 DEF Rescan
<1>7. CASE ReuseCheckpoint(h)  BY <1>7 DEF ReuseCheckpoint
<1>8. CASE CheckFresh(h)  BY <1>8 DEF CheckFresh
<1>9. ASSUME NEW d \in Chunks, DeleteOne(h, d) \/ DeleteFails(h, d)
      PROVE  /\ LeaseHeld /\ Clear(g, c) => Clear(g, c)'
             /\ c \in Referenced /\ SeesManifest(g, c) => SeesManifest(g, c)'
  BY <1>9 DEF DeleteOne, DeleteFails
<1>10. CASE BatchDone(h)  BY <1>10 DEF BatchDone
<1>11. CASE LogDrained(h)  BY <1>11 DEF LogDrained
<1>12. CASE Heartbeat(h)  BY <1>12 DEF Heartbeat
<1>13. CASE Stop(h)  BY <1>13 DEF Stop
<1>14. CASE Finish(h)  BY <1>14 DEF Finish
<1>15. CASE Crash(h)  BY <1>15 DEF Crash
<1> QED
  BY <1>1, <1>2, <1>3, <1>4, <1>5, <1>6, <1>7, <1>8, <1>9, <1>10, <1>11,
     <1>12, <1>13, <1>14, <1>15 DEF SweepStep

\* Steps of the sweeps and of the clock keep OwnInv.
LEMMA SweepKeepsOwn ==
    ASSUME TypeOK, ListingInv, OwnInv, [Next]_vars,
           \/ \E h \in Runs : SweepStep(h) \/ Heartbeat(h) \/ Stop(h) \/ Crash(h)
           \/ Tick
    PROVE  OwnInv'
<1>1. UNCHANGED <<writer, live>>  BY SweepFrame
<1> SUFFICES ASSUME NEW w \in Writers PROVE OwnInv!(w)'  BY DEF OwnInv
<1>2. /\ wpc'[w] = wpc[w] /\ own'[w] = own[w] /\ live' = live
      /\ own[w] \subseteq Chunks
  BY <1>1 DEF writer, TypeOK
<1>3. CASE Tick
  <2>1. /\ now' = now + 1 /\ UNCHANGED <<stored, mtime, gpc, gorph, grefs, gdeadline>>
        /\ OwnChunksCommitInTime(now + 1)
    BY <1>3 DEF Tick, repo, sweep
  <2>2. \A g \in Runs, c \in own[w] :
          (Clear(g, c) => Clear(g, c)') /\ (SeesManifest(g, c) => SeesManifest(g, c)')
    BY <2>1 DEF Clear, SeesManifest, WillRescan, TypeOK
  <2> QED  BY <1>2, <2>1, <2>2 DEF OwnInv, OwnChunksCommitInTime
<1>4. ASSUME NEW h \in Runs, SweepStep(h) \/ Heartbeat(h) \/ Stop(h) \/ Crash(h)
      PROVE  OwnInv!(w)'
  <2>1. UNCHANGED <<now, mtime>>
    BY <1>4 DEF SweepStep, Heartbeat, Stop, Crash, StartRun, Walk, Advance, AdvanceFails,
       ReadPins, Rescan, ReuseCheckpoint, CheckFresh, DeleteOne, DeleteFails, BatchDone,
       LogDrained, Finish, repo
  <2>2. CASE wpc[w] \in PreCommit
    <3> SUFFICES ASSUME NEW c \in own[w]
                 PROVE  /\ c \in stored'
                        /\ w \notin Leased => now' < mtime'[c] + MinAge + Settle
                        /\ w \in Leased => \A g \in Runs : Clear(g, c)'
      BY <1>2, <2>2 DEF OwnInv, PreCommit, PostCommit
    <3>1. /\ c \in stored /\ c \in Chunks
          /\ w \notin Leased => now < mtime[c] + MinAge + Settle
          /\ w \in Leased => \A g \in Runs : Clear(g, c)
      BY <1>2, <2>2 DEF OwnInv
    <3>2. w \in Leased => \A g \in Runs : Clear(g, c)'
      <4>1. w \in Leased => LeaseHeld  BY <2>2 DEF LeaseHeld
      <4> QED  BY <1>4, <3>1, <4>1, SweepSees
    <3>3. c \in stored'
      <4> SUFFICES ASSUME c \notin stored' PROVE FALSE  OBVIOUS
      <4>1. PICK g \in Runs : gpc[g] = "delete" /\ c \in gorph[g]
        BY <3>1, DeletedFromList
      <4>2. w \notin Leased  BY <3>1, <4>1 DEF Clear, Sweeping
      <4>3. Settled(g) /\ mtime[c] <= gstart[g] - MinAge
        BY <4>1 DEF ListingInv, Sweeping
      <4>4. mtime[c] \in Int /\ gstart[g] \in Int /\ now \in Int  BY <3>1 DEF TypeOK
      <4> QED  BY <3>1, <4>2, <4>3, <4>4, ConstantTypes DEF Settled
    <3> QED  BY <2>1, <3>1, <3>2, <3>3
  <2>3. CASE w \in live /\ wpc[w] \in PostCommit \cup {"ok"}
    <3> SUFFICES ASSUME NEW c \in own[w]
                 PROVE  c \in stored' /\ \A g \in Runs : SeesManifest(g, c)'
      BY <1>2, <2>3 DEF OwnInv, PreCommit, PostCommit
    <3>1. c \in stored /\ c \in Chunks /\ \A g \in Runs : SeesManifest(g, c)
      BY <1>2, <2>3 DEF OwnInv
    <3>2. c \in Referenced  BY <2>3 DEF Referenced, References
    <3>3. c \in stored'
      <4> SUFFICES ASSUME c \notin stored' PROVE FALSE  OBVIOUS
      <4>1. PICK g \in Runs : gpc[g] = "delete" /\ c \in gorph[g] /\ c \notin grefs[g]
        BY <3>1, DeletedFromList
      <4> QED  BY <3>1, <4>1 DEF SeesManifest, WillRescan, Sweeping
    <3> QED  BY <1>4, <3>1, <3>2, <3>3, SweepSees
  <2> QED  BY <1>2, <2>2, <2>3 DEF OwnInv
<1> QED  BY <1>3, <1>4

\* A commit in time comes before the first checkpoint of every sweep that
\* listed the chunk.
LEMMA CommitInTime ==
    ASSUME TypeOK, ListingInv, NEW c \in Chunks, NEW g \in Runs,
           now < mtime[c] + MinAge + Settle
    PROVE  SeesManifest(g, c)
<1> SUFFICES ASSUME gpc[g] \in Sweeping, c \in gorph[g] PROVE WillRescan(g)
  BY DEF SeesManifest
<1>1. mtime[c] <= gstart[g] - MinAge  BY DEF ListingInv
<1>2. mtime[c] \in Int /\ gstart[g] \in Int /\ now \in Int  BY DEF TypeOK
<1>3. ~Settled(g)  BY <1>1, <1>2, ConstantTypes DEF Settled
<1> QED  BY <1>3 DEF ListingInv, WillRescan

\* What a step of a writer does to its own place.
OwnPlace(w) ==
    \/ wpc[w] = "idle" /\ wpc'[w] = "put" /\ live' = live
    \/ wpc[w] \in PreCommit /\ wpc'[w] \in PreCommit \cup {"refused", "failed"} /\ live' = live
    \/ wpc[w] = "commit" /\ wpc'[w] = "confirm" /\ live' = live \cup {w}
    \/ wpc[w] \in PostCommit /\ wpc'[w] \in PostCommit \cup {"ok", "swept", "failed"}
         /\ live' = live
    \/ wpc'[w] = wpc[w] /\ live' \subseteq live

\* A writer only moves forward, and commits from "commit".
LEMMA OwnPlaces ==
    ASSUME TypeOK, NEW w \in Writers, WriterStep(w) \/ Fail(w) \/ Expire(w)
    PROVE  OwnPlace(w)
<1> USE DEF TypeOK, OwnPlace, PreCommit, PostCommit, Goto, repo, writer
<1>1. CASE Begin(w) \/ Fail(w) \/ Expire(w)  BY <1>1 DEF Begin, Fail, Expire
<1>2. ASSUME NEW c \in Chunks, AdoptChunk(w, c) \/ WriteChunk(w, c) PROVE OwnPlace(w)
  BY <1>2 DEF AdoptChunk, WriteChunk
<1>3. CASE BeginFence(w)  BY <1>3 DEF BeginFence
<1>4. CASE WritePin(w, "pin", "list") \/ ReadRuns(w, "list", "wait") \/ WaitOver(w, "wait", "stat")
  BY <1>4 DEF WritePin, ReadRuns, WaitOver
<1>5. CASE WritePin(w, "pin2", "list2") \/ ReadRuns(w, "list2", "wait2")
             \/ WaitOver(w, "wait2", "stat2")
  BY <1>5 DEF WritePin, ReadRuns, WaitOver
<1>6. ASSUME NEW g \in Runs, PollRun(w, g) PROVE OwnPlace(w)
  BY <1>6 DEF PollRun
<1>7. CASE GiveUp(w) \/ VerifyAdopted(w)  BY <1>7 DEF GiveUp, VerifyAdopted
<1>8. CASE Commit(w) \/ Confirm(w) \/ Restat(w)  BY <1>8 DEF Commit, Confirm, Restat
<1> QED  BY <1>1, <1>2, <1>3, <1>4, <1>5, <1>6, <1>7, <1>8 DEF WriterStep

\* Steps of the writers keep OwnInv.
LEMMA WriterKeepsOwn ==
    ASSUME TypeOK, ListingInv, OwnInv, NEW w \in Writers, WriterStep(w) \/ Fail(w) \/ Expire(w)
    PROVE  OwnInv'
<1>1. /\ UNCHANGED <<now, sweep>>
      /\ \A v \in Writers \ {w} : Bystander(v)
  BY WriterKeepsChunks, WriterFrame
<1>2. \A g \in Runs, c \in Chunks :
        (Clear(g, c)' <=> Clear(g, c)) /\ (SeesManifest(g, c)' <=> SeesManifest(g, c))
  BY <1>1 DEF Clear, SeesManifest, WillRescan, sweep
<1>3. \A v \in Writers : own[v] \subseteq Chunks  BY DEF TypeOK
<1>4. ASSUME NEW c \in Chunks, WriteChunk(w, c) PROVE OwnInv'
  <2>1. /\ stored' = stored \cup {c} /\ c \notin stored /\ live' = live /\ wpc' = wpc
        /\ wpc[w] = "put" /\ mtime'[c] = now
        /\ \A d \in Chunks \ {c} : mtime'[d] = mtime[d]
        /\ \A v \in Writers \ {w} : own'[v] = own[v]
        /\ own'[w] = own[w] \cup {c} /\ now' = now
    BY <1>4 DEF WriteChunk, TypeOK
  <2>2. \A g \in Runs : Clear(g, c)  BY <2>1 DEF Clear, ListingInv
  <2>3. now < now + MinAge + Settle  BY ConstantTypes DEF TypeOK
  <2>4. ASSUME NEW v \in Writers \ {w} PROVE OwnInv!(v)'
    <3>1. \A d \in own[v] : wpc[v] \in PreCommit \/ (v \in live /\ wpc[v] \in PostCommit \cup {"ok"})
            => d # c
      BY <2>1 DEF OwnInv
    <3> QED  BY <1>2, <1>3, <2>1, <3>1 DEF OwnInv
  <2>5. OwnInv!(w)'
    BY <1>2, <1>3, <2>1, <2>2, <2>3 DEF OwnInv, PreCommit, PostCommit
  <2> QED  BY <2>4, <2>5 DEF OwnInv
<1>5. CASE UNCHANGED <<stored, mtime>>
  <2>1. own' = own
    BY <1>5 DEF TypeOK, writer, WriterStep, Fail, Expire, Begin, AdoptChunk, WriteChunk,
       BeginFence, WritePin, ReadRuns, PollRun, WaitOver, GiveUp, VerifyAdopted, Commit,
       Confirm, Restat
  <2>2. ASSUME NEW v \in Writers \ {w} PROVE OwnInv!(v)'
    BY <1>1, <1>2, <1>3, <1>5, <2>1 DEF OwnInv, Bystander
  <2>3. OwnInv!(w)'
    <3>1. OwnPlace(w)  BY OwnPlaces
    <3>2. CASE wpc[w] = "commit" /\ wpc'[w] = "confirm"
      <4>1. ASSUME NEW c \in own[w], NEW g \in Runs
            PROVE  c \in stored /\ SeesManifest(g, c)
        <5>1. /\ c \in stored /\ c \in Chunks
              /\ w \notin Leased => now < mtime[c] + MinAge + Settle
              /\ w \in Leased => Clear(g, c)
          BY <1>3, <3>2 DEF OwnInv, PreCommit
        <5> QED  BY <5>1, CommitInTime DEF Clear, SeesManifest
      <4>2. \A c \in own[w] : c \in stored  BY <3>2 DEF OwnInv, PreCommit
      <4> QED  BY <1>2, <1>3, <1>5, <2>1, <3>2, <4>1, <4>2 DEF PreCommit
    <3>3. CASE ~(wpc[w] = "commit" /\ wpc'[w] = "confirm")
      BY <1>1, <1>2, <1>3, <1>5, <2>1, <3>1, <3>3 DEF OwnInv, OwnPlace, PreCommit, PostCommit
    <3> QED  BY <3>2, <3>3
  <2> QED  BY <2>2, <2>3 DEF OwnInv
<1> QED  BY <1>4, <1>5, WriterKeepsChunks

\* What the sweeps list and what the writers wrote, together.
OwnChunksInv == TypeOK /\ ListingInv /\ OwnInv

\* The invariant is inductive as long as sweeps do not overlap, whatever else
\* fails: lapsed heartbeats, stalled processes, unreadable records and Stats.
THEOREM OwnInvariant ==
    ASSUME ~OverlappingRuns
    PROVE  Spec => []OwnChunksInv
<1>1. Init => OwnChunksInv
  BY InitType, ConstantTypes
     DEF Init, OwnChunksInv, ListingInv, OwnInv, Sweeping, PreCommit, PostCommit
<1>2. OwnChunksInv /\ [Next]_vars => OwnChunksInv'
  <2> SUFFICES ASSUME OwnChunksInv, [Next]_vars PROVE OwnChunksInv'  OBVIOUS
  <2> USE DEF OwnChunksInv
  <2>1. CASE UNCHANGED vars
    <3>1. UNCHANGED <<now, repo, record, sweep, writer>>  BY <2>1 DEF vars
    <3>2. TypeOK'  BY <3>1 DEF TypeOK, repo, record, sweep, writer
    <3>3. OwnInv'
      BY <3>1 DEF OwnInv, Clear, SeesManifest, WillRescan, repo, sweep, writer
    <3> QED  BY <3>2, <3>3, ListingInvKept
  <2>2. CASE Next
    <3>1. TypeOK'
      <4>1. Tick => TypeOK'
        BY ConstantTypes DEF Tick, TypeOK, repo, record, sweep, writer
      <4> QED  BY <2>2, <4>1, WriterType, SweepType DEF Next
    <3>2. OwnInv'  BY <2>2, SweepKeepsOwn, WriterKeepsOwn DEF Next
    <3> QED  BY <3>1, <3>2, ListingInvKept
  <2> QED  BY <2>1, <2>2
<1> QED  BY <1>1, <1>2, PTL DEF Spec

\* A committed manifest never misses a chunk its writer uploaded: WriteChunk
\* without a pin is safe behind the age floor, the settle and the lease scan.
THEOREM OwnChunksSafe ==
    ASSUME ~OverlappingRuns
    PROVE  Spec => []NoOwnChunkLost
<1>1. OwnChunksInv => NoOwnChunkLost
  BY DEF OwnChunksInv, OwnInv, NoOwnChunkLost, TypeOK
<1> QED  BY <1>1, OwnInvariant, PTL

\* Rule 4 of the protocol, an action property: a sweep deletes only chunks that
\* were written before it began, for the age the listing saw is still the age.
THEOREM DeletesAreOld ==
    ASSUME ~OverlappingRuns
    PROVE  Spec => NeverDeletesYounger
<1>1. OwnChunksInv /\ [Next]_vars =>
        [\A c \in stored \ stored' :
           \E g \in Runs : gpc[g] = "delete" /\ mtime[c] <= gstart[g]]_vars
  <2> SUFFICES ASSUME OwnChunksInv, [Next]_vars, NEW c \in stored, c \notin stored'
               PROVE  \E g \in Runs : gpc[g] = "delete" /\ mtime[c] <= gstart[g]
    OBVIOUS
  <2>1. PICK g \in Runs : gpc[g] = "delete" /\ c \in gorph[g]
    BY DeletedFromList DEF OwnChunksInv
  <2>2. mtime[c] <= gstart[g] - MinAge
    BY <2>1 DEF OwnChunksInv, ListingInv, Sweeping
  <2>3. mtime[c] \in Int /\ gstart[g] \in Int  BY DEF OwnChunksInv, TypeOK
  <2> QED  BY <2>1, <2>2, <2>3, ConstantTypes
<1> QED  BY <1>1, OwnInvariant, PTL DEF Spec, NeverDeletesYounger

=============================================================================
