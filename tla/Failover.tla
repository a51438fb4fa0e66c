------------------------------ MODULE Failover ------------------------------
(***************************************************************************)
(* WAL archiving across failovers: how `wal stream` finds its way from one   *)
(* timeline to the next (cli/wal.go, wal_stream_timeline.go, wal/timeline,   *)
(* wal/inventory), how holes in the archive get on record (the Patroni       *)
(* follower and its coordinator, pg/replication/continuity.go, gapstate,     *)
(* cli/wal_prestream_gap.go), and the preflight that has to refuse a         *)
(* recovery across one (restore/gapcheck.go).                                *)
(*                                                                          *)
(* An LSN counts units of which SegmentSize make a segment.  Timeline t      *)
(* begins in the segment of fork[t], of which it has a whole copy.  A leader *)
(* is promoted from the one before it, or, with "sibling", from an earlier   *)
(* one.  The server of a former leader answers the stream that is still      *)
(* connected to it and nobody else.  What WALSink shows of one stream is     *)
(* taken for granted: it archives whole segments, in order.                  *)
(***************************************************************************)
EXTENDS Integers, FiniteSets, FiniteSetsExt

CONSTANTS
    SegmentSize,        \* units per segment
    FirstLSN,           \* the WAL there is when it all begins
    LastLSN, MaxTLI,    \* bounds on the WAL and on the promotions
    MaxBaseBackups,     \* bound on the backups taken
    PersistAttempts,    \* gapPersistAttempts
    CaptureAttempts,    \* handleLeaderChange's attempts at the history file
    MaxNoProgress,      \* maxNoProgressAttempts
    Scenarios,          \* what may happen: sets of the names below, one is chosen
    MaxFaults           \* bound on how often something goes wrong

Happenings == {"stream",    \* wal stream runs
               "agent",     \* the agent follows Patroni
               "storm",     \* there is more than one promotion
               "straddle",  \* there may be one while a stream is set up
               "newslot",   \* a new leader may lack the slot
               "recycle",   \* servers remove WAL that no slot holds
               "fail",      \* a call of the repository, PostgreSQL or Patroni fails
               "break",     \* a stream breaks, or cannot be set up
               "unread",    \* a set-up step cannot read a history file or the backups
               "crash",     \* the agent dies
               "shutdown",  \* the agent is stopped in good order
               "backup",    \* backups are taken
               "delete",    \* backups are deleted, and gap records purged
               "late",      \* a backup commits some time after it has stopped
               "explicit",  \* the operator restarts a refused stream with --start-lsn
               "sibling"}   \* a leader is promoted from an earlier timeline

ASSUME FailoverAssumption ==
    /\ {SegmentSize, FirstLSN, MaxTLI, PersistAttempts, CaptureAttempts, MaxNoProgress} \subseteq Nat \ {0}
    /\ MaxTLI >= 2
    /\ FirstLSN >= SegmentSize
    /\ {LastLSN, MaxBaseBackups, MaxFaults} \subseteq Nat
    /\ Scenarios \subseteq SUBSET Happenings

VARIABLES
    scenario, faults,
    \* the cluster
    tli,        \* the leader's timeline
    anc,        \* anc[t]: t and the timelines it descends from
    fork,       \* fork[t]: where t begins
    end,        \* end[t]: how far t was written
    slot,       \* restart_lsn of the slot on the leader, or None
    kept,       \* the leader has the WAL from this segment boundary on
    \* the repository
    arch,       \* arch[t]: the segments archived under t
    hist,       \* the timelines whose history file is there
    gaps,       \* the gap records
    live,       \* the committed backups
    taken,      \* the backups that have stopped and are not committed
    \* what was reported instead of being stored
    lostGaps, lostHist,
    \* streamAttempt, and the retry policy around it
    spc,        \* where the attempt stands
    stli,       \* the timeline IDENTIFY_SYSTEM gave
    restart,    \* the slot's restart_lsn, as read
    start,      \* startLSN
    pos,        \* the end of what the sink has committed
    on, server, \* the timeline streamed, and the leader that serves it
    best, idle, \* lastProgressLSN, noProgress
    asked,      \* --start-lsn of this process, or None
    \* Follower and Coordinator
    fpc,        \* where the handler stands
    current,    \* the leader the follower knows
    last,       \* lastConfirmedLSN
    gap, tries, \* the record being persisted, the attempts made
    cancelled,  \* the context is cancelled
    detected    \* the gaps that this process has detected

cluster == <<tli, anc, fork, end, slot, kept>>
backups == <<live, taken>>
reports == <<lostGaps, lostHist>>
stream == <<spc, stli, restart, start, pos, on, server, best, idle, asked>>
agent == <<fpc, current, last, gap, tries, cancelled, detected>>
failoverVars == <<scenario, faults, cluster, arch, hist, gaps, backups, reports, stream, agent>>

None == 0       \* no LSN, no timeline
Timelines == 1 .. MaxTLI

SegOf(lsn) == lsn \div SegmentSize
StartOf(s) == s * SegmentSize
EndOf(s) == (s + 1) * SegmentSize
Floor(lsn) == StartOf(SegOf(lsn))

NoGap == [tli |-> None, from |-> None, to |-> None]

SetUp == {"capture", "slot", "resolve", "record", "connect"}
StreamPhases == SetUp \cup {"down", "streaming", "refused", "stopped"}
AgentPhases == {"off", "idle", "ensure", "persist", "final", "history", "backfill"}

FailoverInit ==
    /\ scenario \in Scenarios
    /\ faults = 0
    /\ tli = 1
    /\ anc = [t \in Timelines |-> IF t = 1 THEN {1} ELSE {}]
    /\ fork = [t \in Timelines |-> None]
    /\ end = [t \in Timelines |-> IF t = 1 THEN FirstLSN ELSE None]
    /\ slot = None /\ kept = Floor(FirstLSN)
    /\ arch = [t \in Timelines |-> {}] /\ hist = {} /\ gaps = {}
    /\ live = {} /\ taken = {}
    /\ lostGaps = {} /\ lostHist = {}
    /\ spc = "down" /\ stli = None /\ restart = None /\ start = None
    /\ pos = None /\ on = None /\ server = None /\ best = None /\ idle = 0 /\ asked = None
    /\ fpc = "off" /\ current = None /\ last = None
    /\ gap = NoGap /\ tries = 0 /\ cancelled = FALSE /\ detected = {}

\* One more thing goes wrong.
Fault(name) ==
    /\ name \in scenario
    /\ faults < MaxFaults
    /\ faults' = faults + 1
    /\ UNCHANGED scenario

NoFault == UNCHANGED <<scenario, faults>>

\* The calls worked, or one of them failed.
Worked(ok) == IF ok THEN NoFault ELSE Fault("fail")

-----------------------------------------------------------------------------
(* History files and the archive's inventory.                                *)

\* ParseHistory of timeline n's file: where n's lineage left its ancestor a.
SwitchPoint(n, a) == fork[Min({t \in anc[n] : t > a})]

\* Mutant: WAL is asked for on the server's own timeline, wherever it begins.
OnOwnTimeline(n, lsn) == n

\* timeline.Containing: the oldest timeline with a whole segment left to give.
Containing(n, lsn) ==
    LET older == {a \in anc[n] \ {n} : SegOf(lsn) < SegOf(SwitchPoint(n, a))}
    IN  IF older = {} THEN n ELSE Min(older)

\* timeline.LeavesAt: the latest switchpoint of a timeline at or below t.
Below(n, t) == {a \in anc[n] \ {n} : a <= t}
LeavesAt(n, t) == SwitchPoint(n, Max(Below(n, t)))

\* HighestArchivedLSN
HighestArchivedLSN(t) == EndOf(Max(arch[t]))

\* HighestArchivedLSNBefore: the newest timeline below t with segments.
Prior(t) == Max({None} \cup {u \in 1 .. t - 1 : arch[u] # {}})

\* archiveFrontierForLeader
ArchiveFrontier(t) ==
    CASE arch[t] # {} -> HighestArchivedLSN(t)
      [] arch[t] = {} /\ Prior(t) # None -> HighestArchivedLSN(Prior(t))
      [] OTHER -> None

-----------------------------------------------------------------------------
(* The cluster.                                                              *)

\* The leader writes WAL, and so does a former leader not fenced yet.
WriteWAL(t) ==
    /\ t = tli \/ t = server
    /\ end[t] < LastLSN
    /\ end' = [end EXCEPT ![t] = @ + 1]
    /\ NoFault
    /\ UNCHANGED <<tli, anc, fork, slot, kept, arch, hist, gaps, backups, reports, stream, agent>>

\* A standby that had p's WAL up to f takes over.  Patroni made the slot anew or
\* kept it in step, or it is not there.  What p's leader wrote past f is out of
\* sight, but for a stream from it and for a sibling of the new timeline.
Promote(p, f) ==
    /\ tli < IF "storm" \in scenario THEN MaxTLI ELSE 2
    /\ p = tli \/ "sibling" \in scenario
    /\ spc \in SetUp => "straddle" \in scenario
    /\ f \in Max({fork[p], kept}) .. end[p]
    /\ tli' = tli + 1
    /\ anc' = [anc EXCEPT ![tli + 1] = anc[p] \cup {tli + 1}]
    /\ fork' = [fork EXCEPT ![tli + 1] = f]
    /\ end' = [end EXCEPT ![tli + 1] = f,
                          ![p] = IF server = p \/ "sibling" \in scenario THEN @ ELSE f]
    /\ slot' \in {f} \cup {r \in {slot} : r <= f} \cup {r \in {None} : "newslot" \in scenario}
    /\ kept' \in {kept} \cup (IF "recycle" \in scenario /\ slot' \in {None, f} THEN {Floor(f)} ELSE {})
    /\ NoFault
    /\ UNCHANGED <<arch, hist, gaps, backups, reports, stream, agent>>

\* A checkpoint removes what the slot does not hold.
Recycle ==
    /\ "recycle" \in scenario
    /\ kept' = Floor(IF slot = None THEN end[tli] ELSE slot)
    /\ kept' > kept
    /\ NoFault
    /\ UNCHANGED <<tli, anc, fork, end, slot, arch, hist, gaps, backups, reports, stream, agent>>

\* CREATE_REPLICATION_SLOT ... RESERVE_WAL: from the last redo pointer on, which
\* is a segment's start or the end of the WAL here.
Reserved == {r \in kept .. end[tli] : r \in {Floor(r), end[tli]}}

\* replication.EnsureSlot, up to the gap: find the slot or create it.
FindOrCreateSlot == slot' \in IF slot = None THEN Reserved ELSE {slot}

-----------------------------------------------------------------------------
(* streamAttempt: set-up.                                                    *)

\* The attempt is over; the next one starts from nothing but the flags.
Forget ==
    /\ stli' = None /\ restart' = None /\ start' = None /\ pos' = None /\ on' = None /\ server' = None
    /\ UNCHANGED asked

\* A failed set-up is tried again, as often as it takes.
SetupFails ==
    /\ spc \in SetUp
    /\ spc' = "down" /\ Forget
    /\ Fault("break")
    /\ UNCHANGED <<best, idle, cluster, arch, hist, gaps, backups, reports, agent>>

\* identifySystem
Identify ==
    /\ spc = "down" /\ "stream" \in scenario
    /\ spc' = "capture"
    /\ stli' = tli
    /\ NoFault
    /\ UNCHANGED <<restart, start, pos, on, server, best, idle, asked, cluster, arch, hist, gaps, backups, reports, agent>>

\* Mutant: only the one of the timeline the server is on.
WantedOwn(t) == {t} \ (hist \cup {1})

\* The history files asked for: all that are missing.
Wanted(t) == (2 .. t) \ hist

\* captureStreamTimelineHistory: fetch what the server has, warn about the
\* rest; without a connection, warn about the server's timeline.
CaptureStreamHistory ==
    /\ spc = "capture"
    /\ spc' = "slot"
    /\ LET served == Wanted(stli) \cap anc[tli]
       IN  \/ \E got \in SUBSET served :
                 /\ Worked(got = served)
                 /\ hist' = hist \cup got
                 /\ lostHist' = lostHist \cup (Wanted(stli) \ got)
           \/ /\ Wanted(stli) # {}
              /\ Fault("fail")
              /\ hist' = hist
              /\ lostHist' = lostHist \cup {stli}
    /\ UNCHANGED <<stli, restart, start, pos, on, server, best, idle, asked, cluster, arch, gaps, backups, lostGaps, agent>>

\* ensureSlot
EnsureStreamSlot ==
    /\ spc = "slot"
    /\ FindOrCreateSlot
    /\ restart' = slot'
    /\ spc' = "resolve"
    /\ NoFault
    /\ UNCHANGED <<stli, start, pos, on, server, best, idle, asked, tli, anc, fork, end, kept, arch, hist, gaps, backups, reports, agent>>

\* Mutant: a frontier past the fork is kept.
Unclamped(t, p) == HighestArchivedLSN(p)

\* The frontier of an earlier timeline p, no further than where t's lineage
\* left p (lineageForkSegmentStart).
Clamped(t, p) ==
    IF t \in hist /\ Below(t, p) # {}
    THEN Min({HighestArchivedLSN(p), Floor(LeavesAt(t, p))})
    ELSE HighestArchivedLSN(p)

\* resolveStartLSN.  The history file is read twice, here and in Connect; here
\* a file that does not read is as good as none.
Resolve ==
    /\ spc = "resolve"
    /\ \/ /\ asked # None
          /\ start' = asked
          /\ spc' = "connect"
          /\ NoFault
       \/ /\ asked = None /\ arch[stli] # {}
          /\ start' = HighestArchivedLSN(stli)
          /\ spc' = "connect"
          /\ NoFault
       \/ /\ asked = None /\ arch[stli] = {} /\ Prior(stli) # None
          /\ \/ start' = Clamped(stli, Prior(stli)) /\ NoFault
             \/ start' = HighestArchivedLSN(Prior(stli)) /\ stli \in hist /\ Fault("unread")
          /\ spc' = "connect"
       \/ /\ asked = None /\ arch[stli] = {} /\ Prior(stli) = None
          /\ start' = Floor(restart)
          /\ spc' = "record"
          /\ NoFault
    /\ restart' = None
    /\ UNCHANGED <<stli, pos, on, server, best, idle, asked, cluster, arch, hist, gaps, backups, reports, agent>>

\* preStreamGapStart
PreStreamGapStart(t, stop) == Max({stop, ArchiveFrontier(t)})

\* Mutant: the fresh stream is taken for the beginning of everything.
NothingBefore(seen) == FALSE

\* Some backup ends before the stream begins, with nothing archived between.
Uncovered(seen) ==
    /\ seen # {}
    /\ PreStreamGapStart(stli, Min({b.stop : b \in seen})) < start

\* recordPreStreamGap: a backup that does not read is passed over, and the
\* stream goes on whether the record is stored or not.
RecordPreStreamGap ==
    /\ spc = "record"
    /\ spc' = "connect"
    /\ \E seen \in {live} \cup {b \in {{}} : "unread" \in scenario} :
         IF Uncovered(seen)
         THEN LET rec == [tli |-> stli, to |-> start,
                          from |-> PreStreamGapStart(stli, Min({b.stop : b \in seen}))]
              IN  \/ /\ NoFault
                     /\ gaps' = IF \E g \in gaps : g.from = rec.from /\ g.to = rec.to
                                THEN gaps ELSE gaps \cup {rec}
                     /\ UNCHANGED lostGaps
                  \/ /\ Fault("fail")
                     /\ lostGaps' = lostGaps \cup {rec}
                     /\ UNCHANGED gaps
         ELSE NoFault /\ UNCHANGED <<gaps, lostGaps>>
    /\ UNCHANGED <<stli, restart, start, pos, on, server, best, idle, asked, cluster, arch, hist, backups, lostHist, agent>>

-----------------------------------------------------------------------------
(* streamAttempt: streaming, and the retry policy.                           *)

\* How far the server v sends timeline t.
Limit(v, t) == IF t = v THEN end[v] ELSE SwitchPoint(v, t)

\* streamRetryPolicy.decide for a stream that broke: `synced` is 0 unless the
\* attempt committed a segment.
Broke ==
    LET synced == IF pos > start THEN pos ELSE None
        stuck == IF synced > best THEN 0 ELSE idle + 1
    IN  /\ best' = Max({best, synced})
        /\ idle' = stuck
        /\ spc' = IF stuck >= MaxNoProgress THEN "stopped" ELSE "down"
        /\ Forget

\* The segment is not on disk under that timeline's name: removed, or never there.
Gone(t, lsn) == lsn < kept \/ SegOf(lsn) < SegOf(fork[t])

\* decideStreamStop: "requested WAL segment has already been removed" is final.
Refuse == spc' = "refused" /\ stli' = None /\ UNCHANGED <<restart, best, idle, asked>>

\* resolveStreamTimeline, START_REPLICATION and its answer.  A file that does
\* not read is reported, and the server's timeline is asked for.
Connect ==
    /\ spc = "connect"
    /\ \E t \in {stli, IF stli \in hist THEN Containing(stli, start) ELSE stli} :
          /\ \/ t = (IF stli \in hist THEN Containing(stli, start) ELSE stli) /\ NoFault /\ UNCHANGED lostHist
             \/ t = stli /\ stli \in hist /\ Fault("unread") /\ lostHist' = lostHist \cup {stli}
          /\ \/ /\ t \notin anc[tli] \/ start > Limit(tli, t)
                /\ Broke
             \/ /\ t \in anc[tli] /\ start <= Limit(tli, t)
                /\ Gone(t, start)
                /\ Refuse
                /\ UNCHANGED <<start, pos, on, server>>
             \/ /\ t \in anc[tli] /\ start <= Limit(tli, t)
                /\ ~Gone(t, start)
                /\ spc' = "streaming"
                /\ pos' = start /\ on' = t /\ server' = tli
                /\ stli' = None
                /\ UNCHANGED <<restart, start, best, idle, asked>>
    /\ UNCHANGED <<cluster, arch, hist, gaps, backups, lostGaps, agent>>

WholeSegmentLeft == EndOf(SegOf(pos)) <= Limit(server, on)
Serves == server # tli \/ pos >= kept

\* The sink commits the next segment (module WALSink).
Archive ==
    /\ spc = "streaming"
    /\ WholeSegmentLeft /\ Serves
    /\ arch' = [arch EXCEPT ![on] = @ \cup {SegOf(pos)}]
    /\ pos' = EndOf(SegOf(pos))
    /\ NoFault
    /\ UNCHANGED <<spc, stli, restart, start, on, server, best, idle, asked, cluster, hist, gaps, backups, reports, agent>>

\* What comes next was removed while the stream was behind the slot.
RemovedMeanwhile ==
    /\ spc = "streaming"
    /\ WholeSegmentLeft /\ ~Serves
    /\ Refuse
    /\ start' = pos /\ pos' = None /\ on' = None /\ server' = None
    /\ NoFault
    /\ UNCHANGED <<cluster, arch, hist, gaps, backups, reports, agent>>

\* A status update moves the slot to what was committed.
Feedback ==
    /\ spc = "streaming"
    /\ server = tli /\ pos > start /\ slot # pos /\ slot # None
    /\ slot' = pos
    /\ NoFault
    /\ UNCHANGED <<stream, tli, anc, fork, end, kept, arch, hist, gaps, backups, reports, agent>>

\* The server ends the stream of a historic timeline (CopyDone), or it is the
\* former leader's and that one is fenced.
StreamEnds ==
    /\ spc = "streaming"
    /\ server # tli \/ (on # server /\ ~WholeSegmentLeft)
    /\ Broke
    /\ NoFault
    /\ UNCHANGED <<cluster, arch, hist, gaps, backups, reports, agent>>

\* The connection breaks.
StreamBreaks ==
    /\ spc = "streaming"
    /\ Broke
    /\ Fault("break")
    /\ UNCHANGED <<cluster, arch, hist, gaps, backups, reports, agent>>

\* startBeforeRestartError's way out: a new process, with --start-lsn at the
\* segment of restart_lsn, which all its attempts begin at.
ExplicitStart ==
    /\ spc = "refused" /\ slot # None
    /\ asked' = Floor(slot) /\ start' = None
    /\ spc' = "down"
    /\ best' = None /\ idle' = 0
    /\ Fault("explicit")
    /\ UNCHANGED <<stli, restart, pos, on, server, cluster, arch, hist, gaps, backups, reports, agent>>

StreamStep ==
    \/ Identify \/ CaptureStreamHistory \/ EnsureStreamSlot \/ Resolve \/ RecordPreStreamGap
    \/ Connect \/ Archive \/ RemovedMeanwhile \/ Feedback \/ StreamEnds

-----------------------------------------------------------------------------
(* Backups, and what is done with them.                                      *)

\* A base backup ends; without "late" it is committed at once.
BackupStops ==
    /\ "backup" \in scenario
    /\ Cardinality(live \cup taken) < MaxBaseBackups
    /\ LET b == [tli |-> tli, stop |-> end[tli]]
       IN  IF "late" \in scenario THEN taken' = taken \cup {b} /\ UNCHANGED live
                               ELSE live' = live \cup {b} /\ UNCHANGED taken
    /\ NoFault
    /\ UNCHANGED <<cluster, arch, hist, gaps, reports, stream, agent>>

BackupCommits ==
    /\ \E b \in taken : taken' = taken \ {b} /\ live' = live \cup {b}
    /\ NoFault
    /\ UNCHANGED <<cluster, arch, hist, gaps, reports, stream, agent>>

\* A backup is deleted and its grace period passes.
DeleteBackup ==
    /\ "delete" \in scenario
    /\ \E b \in live : live' = live \ {b}
    /\ NoFault
    /\ UNCHANGED <<taken, cluster, arch, hist, gaps, reports, stream, agent>>

\* Mutant: a record of a timeline that no backup is on.
OfDeadTimeline(g) == g.tli \notin {b.tli : b \in live}

\* PurgeOrphans: a record of a timeline before those of all live backups.
Orphan(g) == g.tli < Min({b.tli : b \in live})

\* wal gap-purge --orphans
GapPurge ==
    /\ "delete" \in scenario
    /\ live # {}
    /\ \E g \in gaps : Orphan(g)
    /\ gaps' = {g \in gaps : ~Orphan(g)}
    /\ detected' = {g \in detected : ~Orphan(g)}
    /\ NoFault
    /\ UNCHANGED <<fpc, current, last, gap, tries, cancelled, cluster, arch, hist, backups, reports, stream>>

-----------------------------------------------------------------------------
(* The agent: Follower and Coordinator.                                      *)

AgentStart ==
    /\ fpc = "off" /\ "agent" \in scenario
    /\ fpc' = "idle"
    /\ NoFault
    /\ UNCHANGED <<current, last, gap, tries, cancelled, detected, cluster, arch, hist, gaps, backups, reports, stream>>

\* The process is gone, and with it what it knew.
Off == fpc' = "off" /\ current' = None /\ last' = None /\ gap' = NoGap /\ tries' = 0 /\ cancelled' = FALSE /\ detected' = {}

AgentCrash ==
    /\ fpc # "off"
    /\ Off
    /\ Fault("crash")
    /\ UNCHANGED <<cluster, arch, hist, gaps, backups, reports, stream>>

Shutdown ==
    /\ fpc # "off" /\ ~cancelled
    /\ cancelled' = TRUE
    /\ Fault("shutdown")
    /\ UNCHANGED <<fpc, current, last, gap, tries, detected, cluster, arch, hist, gaps, backups, reports, stream>>

AgentStops ==
    /\ fpc = "idle" /\ cancelled
    /\ Off
    /\ NoFault
    /\ UNCHANGED <<cluster, arch, hist, gaps, backups, reports, stream>>

\* poll finds a new leader and calls the handler, which begins with the
\* archive's frontier; a lookup that fails counts as nothing archived.  The
\* leader is remembered before it is handled.
Poll ==
    /\ fpc = "idle" /\ ~cancelled
    /\ current # tli
    /\ current' = tli
    /\ fpc' = "ensure"
    /\ \/ last' = ArchiveFrontier(tli) /\ NoFault
       \/ last' = None /\ Fault("fail")
    /\ UNCHANGED <<gap, tries, cancelled, detected, cluster, arch, hist, gaps, backups, reports, stream>>

\* poll finds no leader: the next one that it finds is a new one.
PollNoLeader ==
    /\ fpc = "idle" /\ ~cancelled
    /\ current # None
    /\ current' = None
    /\ Fault("fail")
    /\ UNCHANGED <<fpc, last, gap, tries, cancelled, detected, cluster, arch, hist, gaps, backups, reports, stream>>

\* populateGap: the slot holds less than what the archive has not got.
HasGap(lsn) == last # None /\ lsn > last

\* reconcileSlot: EnsureSlot on the leader.
ReconcileSlot ==
    /\ fpc = "ensure"
    /\ current = tli
    /\ FindOrCreateSlot
    /\ IF HasGap(slot')
       THEN /\ gap' = [tli |-> current, from |-> last, to |-> slot']
            /\ detected' = detected \cup {gap'}
            /\ fpc' = "persist"
       ELSE fpc' = "history" /\ UNCHANGED <<gap, detected>>
    /\ last' = None
    /\ NoFault
    /\ UNCHANGED <<current, tries, cancelled, tli, anc, fork, end, kept, arch, hist, gaps, backups, reports, stream>>

\* slot_reconcile_failed: there is no second try for this leader.
ReconcileFails ==
    /\ fpc = "ensure"
    /\ Worked(current # tli)
    /\ fpc' = "history"
    /\ last' = None
    /\ UNCHANGED <<current, gap, tries, cancelled, detected, cluster, arch, hist, gaps, backups, reports, stream>>

\* GapStore.Put works: the history file is next.
PersistGap ==
    /\ fpc \in {"persist", "final"}
    /\ fpc = "persist" /\ tries > 0 => ~cancelled
    /\ gaps' = gaps \cup {gap}
    /\ fpc' = "history"
    /\ gap' = NoGap /\ tries' = 0
    /\ NoFault
    /\ UNCHANGED <<current, last, cancelled, detected, cluster, arch, hist, backups, reports, stream>>

\* Mutant: a cancelled context ends the attempts.
GiveUpWhenCancelled == "history"

\* persistGapFinal: one more attempt, on a context of its own.
AfterCancel == "final"

\* A Put that fails: again, unless the context is cancelled or it was the last.
PersistGapFails ==
    /\ fpc = "persist"
    /\ Worked(cancelled)
    /\ IF cancelled
       THEN fpc' = AfterCancel /\ UNCHANGED <<lostGaps, gap, tries>>
       ELSE /\ tries + 1 < PersistAttempts
            /\ fpc' = "persist" /\ tries' = tries + 1
            /\ UNCHANGED <<lostGaps, gap>>
    /\ UNCHANGED <<current, last, cancelled, detected, cluster, arch, hist, gaps, backups, lostHist, stream>>

\* emitGapPersistFailed
GapPersistFailed ==
    /\ \/ fpc = "final"
       \/ fpc = "persist" /\ ~cancelled /\ tries + 1 = PersistAttempts
    /\ lostGaps' = lostGaps \cup {gap}
    /\ fpc' = "history"
    /\ gap' = NoGap /\ tries' = 0
    /\ Fault("fail")
    /\ UNCHANGED <<current, last, cancelled, detected, cluster, arch, hist, gaps, backups, lostHist, stream>>

\* captureTimelineHistory of the leader's own timeline, if it has a history.
CaptureHistory ==
    /\ fpc = "history"
    /\ current = 1 \/ current = tli
    /\ hist' = hist \cup ({current} \ {1})
    /\ fpc' = "backfill"
    /\ tries' = 0
    /\ NoFault
    /\ UNCHANGED <<current, last, gap, cancelled, detected, cluster, arch, gaps, backups, reports, stream>>

\* It fails: again, or a critical event; a cancelled context ends the handler.
CaptureHistoryFails ==
    /\ fpc = "history" /\ current # 1
    /\ Worked(cancelled \/ current # tli)
    /\ tries' = IF ~cancelled /\ tries + 1 < CaptureAttempts THEN tries + 1 ELSE 0
    /\ fpc' = IF cancelled /\ tries + 1 < CaptureAttempts THEN "idle"
              ELSE IF tries + 1 = CaptureAttempts THEN "backfill" ELSE "history"
    /\ lostHist' = lostHist \cup {t \in {current} : tries + 1 = CaptureAttempts}
    /\ UNCHANGED <<current, last, gap, cancelled, detected, cluster, arch, hist, gaps, backups, lostGaps, stream>>

\* backfillTimelineHistory: the earlier ones; a Get that fails is passed over.
Backfill ==
    /\ fpc = "backfill"
    /\ fpc' = "idle"
    /\ LET missing == (2 .. current - 1) \ hist
           served == IF current = tli THEN missing \cap anc[tli] ELSE {}
       IN  \E got \in SUBSET served : \E told \in SUBSET (missing \ got) :
              /\ Worked(cancelled \/ (got = served /\ told = missing \ got))
              /\ hist' = hist \cup got
              /\ lostHist' = lostHist \cup told
    /\ UNCHANGED <<current, last, gap, tries, cancelled, detected, cluster, arch, gaps, backups, lostGaps, stream>>

-----------------------------------------------------------------------------
ClusterStep == (\E t \in Timelines : WriteWAL(t)) \/ (\E p \in 1 .. tli, f \in 0 .. LastLSN : Promote(p, f)) \/ Recycle

AgentStep ==
    \/ AgentStart \/ AgentCrash \/ Shutdown \/ AgentStops \/ Poll \/ PollNoLeader
    \/ ReconcileSlot \/ ReconcileFails \/ PersistGap \/ PersistGapFails \/ GapPersistFailed
    \/ CaptureHistory \/ CaptureHistoryFails \/ Backfill

FailoverNext ==
    \/ ClusterStep
    \/ StreamStep \/ SetupFails \/ StreamBreaks \/ ExplicitStart
    \/ BackupStops \/ BackupCommits \/ DeleteBackup \/ GapPurge
    \/ AgentStep

\* The streamer retries on its own, Patroni fences a former leader, and a
\* connected server sends what it has.
FailoverSpec == FailoverInit /\ [][FailoverNext]_failoverVars /\ WF_failoverVars(StreamStep)
-----------------------------------------------------------------------------
(* What a restore finds.                                                     *)

\* PostgreSQL with recovery_target_timeline = 'latest': history files are
\* probed upwards, one by one, until one is missing.
Latest(t) == Max({u \in t .. MaxTLI : (t + 1) .. u \subseteq hist})

\* The timeline in n's lineage that segment s is read from.
SegmentTimeline(n, s) == Max({t \in anc[n] : SegOf(fork[t]) <= s})
Available(n, s) == s \in arch[SegmentTimeline(n, s)]

\* Recovery of b along timeline n stops at segment s, with WAL still to come.
StopsShort(b, n, s) ==
    /\ s >= SegOf(b.stop)
    /\ ~Available(n, s)
    /\ \E later \in s + 1 .. SegOf(LastLSN) : Available(n, later)

\* Mutant: only a target inside the gap is refused.
InGap(g, stop, target) == g.from <= target /\ target < g.to

\* checkOneGap: the target is in the gap, or replay has to cross it.
RefusedOver(g, stop, target) ==
    \/ g.from <= target /\ target < g.to
    \/ stop < g.to /\ g.to <= target

\* refuseUnboundedOverGap
RefusedUnbounded(g, stop) == stop < g.to

\* preflightWALGap over the records, without a target and with a target LSN.
Refused(b) == \E g \in gaps : RefusedUnbounded(g, b.stop)
RefusedTo(b, target) == \E g \in gaps : RefusedOver(g, b.stop, target)

\* Someone was told: a gap not recorded that concerns b, or the missing
\* history of the timeline that has the hole.
Told(b, n, s) ==
    \/ \E g \in lostGaps : RefusedUnbounded(g, b.stop)
    \/ SegmentTimeline(n, s) \in lostHist

-----------------------------------------------------------------------------
FailoverTypeOK ==
    /\ scenario \in Scenarios /\ faults \in 0 .. MaxFaults
    /\ tli \in Timelines
    /\ anc \in [Timelines -> SUBSET Timelines]
    /\ fork \in [Timelines -> 0 .. LastLSN] /\ end \in [Timelines -> 0 .. LastLSN]
    /\ {slot, kept, restart, start, pos, best, asked, last} \subseteq 0 .. LastLSN
    /\ arch \in [Timelines -> SUBSET (0 .. SegOf(LastLSN))]
    /\ hist \subseteq Timelines /\ lostHist \subseteq Timelines
    /\ gaps \cup lostGaps \cup detected \cup {gap}
         \subseteq [tli : 0 .. MaxTLI, from : 0 .. LastLSN, to : 0 .. LastLSN]
    /\ live \cup taken \subseteq [tli : Timelines, stop : 0 .. LastLSN]
    /\ spc \in StreamPhases /\ fpc \in AgentPhases
    /\ {stli, on, server, current} \subseteq 0 .. MaxTLI
    /\ idle \in 0 .. MaxNoProgress
    /\ tries \in 0 .. Max({PersistAttempts, CaptureAttempts})
    /\ cancelled \in BOOLEAN

\* A hole in the archive that recovery of a backup would stop at, with later
\* WAL behind it, makes restore's preflight refuse that recovery, to the
\* latest point and to any point in the WAL behind it, or someone was told
\* that the record or the history file could not be stored.
NoSilentTruncation ==
    \A b \in live :
      LET n == Latest(b.tli)
      IN  b.tli \in anc[n] =>
            \A s \in 0 .. SegOf(LastLSN) :
              StopsShort(b, n, s) =>
                \/ Told(b, n, s)
                \/ /\ Refused(b)
                   /\ \A target \in EndOf(s) .. LastLSN :
                        Available(n, SegOf(target)) => RefusedTo(b, target)

\* Where WAL of a timeline is archived, and where the coordinator is done with
\* a leader, the history files up to that timeline are there, so that 'latest'
\* finds it, or a warning named one of them.
LatestIsLatest ==
    \A t \in Timelines :
      arch[t] # {} \/ (fpc = "idle" /\ current = t /\ ~cancelled) =>
        \A u \in 2 .. t : u \in hist \/ \E w \in lostHist : w >= u

\* A gap that the coordinator detected is on record, or reported as not
\* recorded, by the time it turns to anything else: through failing writes
\* and a shutdown in the middle.
DetectedIsKept ==
    fpc \notin {"persist", "final"} => detected \subseteq gaps \cup lostGaps

\* What wal_gap_detected says of a recorded gap, that its WAL is lost, is so: no
\* segment that lies in it is archived on its timeline's lineage later on.
RecordedIsMissing ==
    \A g \in gaps : \A s \in SegOf(g.from) .. SegOf(LastLSN) :
      EndOf(s) <= g.to => ~Available(g.tli, s)

\* Once the cluster calms down, the stream has everything that makes a whole
\* segment on the live timeline, or has stopped because WAL that it needs is
\* gone, or because a history file that was reported missing misled it.
CatchesUp ==
    "stream" \in scenario =>
    <>[](\/ spc = "streaming" /\ on = tli /\ server = tli /\ ~WholeSegmentLeft
         \/ spc = "refused" /\ (start < kept \/ lostHist # {})
         \/ spc = "stopped" /\ lostHist # {})
=============================================================================
