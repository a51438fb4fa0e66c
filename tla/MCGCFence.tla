------------------------------ MODULE MCGCFence ------------------------------
(***************************************************************************)
(* Small instances of GCFence for TLC.                                      *)
(*                                                                          *)
(* The clock of GCFence only matters through differences of times that the   *)
(* guards compare with the durations, and a process's memory only while the  *)
(* process runs.  TimerView keeps exactly those: every time stamp becomes an *)
(* age, cut off at the largest duration a guard compares it with, and the    *)
(* locals of finished processes are dropped.  Two states with the same view  *)
(* take the same steps to states with the same view, so TLC explores the     *)
(* unbounded clock exhaustively; MaxTime is never reached.                   *)
(***************************************************************************)
EXTENDS GCFence, FiniteSetsExt, TLC

Age(t, cap) == IF now - t < cap THEN now - t ELSE cap
Left(t) == IF t - now < -1 THEN -1 ELSE t - now

ChunkView(c) ==
    IF c \notin stored THEN "absent"
    ELSE <<Age(mtime[c], MinAge + Settle),
           {g \in Runs : gpc[g] \in Sweeping /\ mtime[c] <= gstart[g]},
           {g \in Runs : gpc[g] = "walk" /\ mtime[c] <= gstart[g] - MinAge}>>

RecordView(g) ==
    <<IF gpc[g] \in {"done", "dead"} THEN "over" ELSE gpc[g], rstate[g], IF rstate[g] = "running" THEN rseq[g] ELSE 0,
      IF rstate[g] = "absent" THEN 0 ELSE Age(rbeat[g], Max({RunTTL, Retention + 1}))>>

SweepView(g) ==
    IF gpc[g] \notin Sweeping THEN "over"
    ELSE <<Age(gstart[g], Settle), gorph[g], (grefs[g] \cup gpins[g]) \cap gorph[g], gbatch[g],
           IF gpc[g] \in {"pins", "rescan"} THEN Age(gdeadline[g], Max({MaxWait, PinTTL}))
                                            ELSE Max({gdeadline[g] - now, 0})>>

FenceView(w) ==
    <<IF adopted[w] # {} /\ wpc[w] \in (PreCommit \cup {"confirm"}) \ {"put"}
        THEN <<Age(fstart[w], Max({Budget + 1, (Retention + 1) \div 2})), seenRuns[w]>>
        ELSE <<>>,
      IF wpc[w] \in {"wait", "wait2"} THEN <<waitFor[w], Left(deadline[w])>> ELSE <<>> >>

PinView(w) ==
    IF pinAt[w] = Never \/ (w \notin pinStored /\ wpc[w] \in Finished) THEN "unpinned"
    ELSE <<Age(pinAt[w], PinTTL + 1), w \in pinStored>>

ManifestView(w) ==
    IF wpc[w] \in Finished /\ w \notin live /\ w \notin pinStored THEN "dropped"
    ELSE <<adopted[w], own[w], w \in live, w \in unchecked>>

TimerView ==
    <<[c \in Chunks |-> ChunkView(c)],
      [g \in Runs |-> <<RecordView(g), SweepView(g)>>],
      [w \in Writers |-> <<IF wpc[w] \in Finished \ {"ok"} THEN "over" ELSE wpc[w], FenceView(w), PinView(w), ManifestView(w)>>]>>

\* Writers with the same lease and memory, runs and chunks are interchangeable.
Symmetric ==
    Permutations(Leased) \cup Permutations(Writers \ Leased)
      \cup Permutations(Runs) \cup Permutations(Chunks)
=============================================================================
