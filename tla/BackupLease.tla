----------------------------- MODULE BackupLease -----------------------------
(***************************************************************************)
(* The per-deployment backup lease (internal/backup/lease.go), the break     *)
(* claims that make its succession exclusive, and the wedge that             *)
(* lease_wedge.go reports.                                                   *)
(*                                                                          *)
(* A process is one AcquireBackupLease together with the backup it guards,   *)
(* its Maintain goroutine and its Release.  Owner + AcquiredAt, the fencing  *)
(* token, is the process itself: one attempt stores one token.  The only     *)
(* shared state is the lease object and the claim objects.                   *)
(*                                                                          *)
(* Reads and writes of an object are atomic; everything that happens between *)
(* two of them is a step of its own, and a write that was decided may land   *)
(* any time up to a delay later.  One clock: hosts' clocks do not differ.    *)
(* Nobody deletes the lease object by hand: the arms for a lease that        *)
(* vanished are here, and would be reached only if Release deleted it.       *)
(***************************************************************************)
EXTENDS Integers, FiniteSets

CONSTANTS
    Procs,          \* backup attempts
    Nobody,         \* the token of a lease object that does not exist
    TTL,            \* LeaseOptions.TTL
    Settle,         \* LeaseOptions.settle
    Grace,          \* wedgeGrace
    MaxGens,        \* maxClaimGenerations
    EchoRetries,    \* reclaimEchoRetries
    RenewDelay,     \* longest time from Renew's expiry check to its put
    BreakDelay,     \* longest time from winning a claim to the last put under it
    ReleaseDelay,   \* longest time from Release's read to its put
    Repeats,        \* the processes whose schedule repeats a refused attempt
    Worlds,         \* what the world is like: sets of the two names below, one is chosen
    MaxTime         \* bound on the clock

ASSUME LeaseAssumption ==
    /\ {TTL, Settle, Grace, EchoRetries, RenewDelay, BreakDelay, ReleaseDelay, MaxTime}
         \subseteq Nat
    /\ MaxGens \in Nat \ {0}
    /\ Nobody \notin Procs
    /\ Repeats \subseteq Procs
    /\ Worlds \subseteq SUBSET {"slow",      \* puts of Renew and Release are delayed
                                "doctor"}    \* the operator deletes the claim that doctor names

VARIABLES
    world, now,
    \* the repository
    token,      \* whose grant the lease object carries; Nobody: no object yet
    expires,    \* its ExpiresAt
    released,   \* its Released
    claimedAt,  \* claimedAt[v][n]: ClaimedAt of v's generation n claim, or Never
    \* AcquireBackupLease and the backup
    pc, victim, gen, since, settleAt, echoes,
    myExpiry,   \* ExpiresAt of the body this process holds
    \* Maintain
    rpc, next, rsince, rsettleAt

object == <<token, expires, released>>
acquirer == <<pc, victim, gen, since, settleAt, echoes>>
renewer == <<rpc, next, rsince, rsettleAt>>
vars == <<world, now, object, claimedAt, acquirer, myExpiry, renewer>>

Never == -1
Generations == 0 .. MaxGens - 1

Breaking == {"reread", "put", "verify", "reput"}
Acquiring == {"create", "read", "recheck", "recreate", "claim"} \cup Breaking
Phases == Acquiring \cup {"held", "release", "tomb", "refused", "failed", "over", "dead"}

Init ==
    /\ world \in Worlds
    /\ now = 0
    /\ token = Nobody /\ expires = 0 /\ released = FALSE
    /\ claimedAt = [v \in Procs |-> [n \in Generations |-> Never]]
    /\ pc = [p \in Procs |-> "create"]
    /\ victim = [p \in Procs |-> Nobody]
    /\ gen = [p \in Procs |-> 0]
    /\ since = [p \in Procs |-> 0]
    /\ settleAt = [p \in Procs |-> 0]
    /\ echoes = [p \in Procs |-> 0]
    /\ myExpiry = [p \in Procs |-> 0]
    /\ rpc = [p \in Procs |-> "off"]
    /\ next = [p \in Procs |-> 0]
    /\ rsince = [p \in Procs |-> 0]
    /\ rsettleAt = [p \in Procs |-> 0]

-----------------------------------------------------------------------------
(* The two objects.                                                          *)

Goto(p, there) == pc' = [pc EXCEPT ![p] = there]

\* Lease.put, without IfNotExists
Store(p, expiry, isTomb) ==
    token' = p /\ expires' = expiry /\ released' = isTomb

Live == token # Nobody /\ ~released /\ now < expires

\* dropClaim is best effort: the Delete may fail.
DropClaim(p) ==
    \E dropped \in BOOLEAN :
        claimedAt' = IF dropped THEN [claimedAt EXCEPT ![victim[p]][gen[p]] = Never]
                                ELSE claimedAt

-----------------------------------------------------------------------------
(* AcquireBackupLease.                                                       *)

\* Create-if-absent: the fast path, and the one more try when the lease that
\* was in the way has vanished.
Create(p) ==
    /\ pc[p] \in {"create", "recreate"}
    /\ IF token = Nobody
         THEN /\ Store(p, now + TTL, FALSE)
              /\ myExpiry' = [myExpiry EXCEPT ![p] = now + TTL]
              /\ Goto(p, "held")
              /\ rpc' = [rpc EXCEPT ![p] = "idle"]
         ELSE /\ Goto(p, IF pc[p] = "create" THEN "read" ELSE "refused")
              /\ UNCHANGED <<object, myExpiry, rpc>>
    /\ UNCHANGED <<world, now, claimedAt, victim, gen, since, settleAt, echoes,
                   next, rsince, rsettleAt>>

\* The first read: live or stale.
ReadLease(p) ==
    /\ pc[p] = "read"
    /\ Goto(p, CASE token = Nobody -> "recreate"
                  [] Live -> "refused"
                  [] OTHER -> "recheck")
    /\ victim' = [victim EXCEPT ![p] = token]
    /\ UNCHANGED <<world, now, object, claimedAt, gen, since, settleAt, echoes, myExpiry, renewer>>

\* The second read: still the same stale lease.
Recheck(p) ==
    /\ pc[p] = "recheck"
    /\ Goto(p, CASE token = Nobody -> "recreate"
                  [] token = victim[p] /\ ~Live -> "claim"
                  [] OTHER -> "refused")
    /\ gen' = [gen EXCEPT ![p] = 0]
    /\ UNCHANGED <<world, now, object, claimedAt, victim, since, settleAt, echoes, myExpiry, renewer>>

\* Mutant: nobody asks who else is breaking this lease.
ClaimUnchecked(p) == TRUE

ClaimFree(p) == claimedAt[victim[p]][gen[p]] = Never

\* Mutant: a claim is never given up for dead.
NeverAbandoned(p) == FALSE

\* A claim this old, its victim still stored, was abandoned by its winner.
Abandoned(p) == now - claimedAt[victim[p]][gen[p]] >= Grace

MoreGenerations(p) == gen[p] + 1 < MaxGens

\* claimBreakKey, one generation: create the claim, or go on to the next
\* generation when this one is abandoned.
ClaimBreak(p) ==
    /\ pc[p] = "claim"
    /\ IF ClaimFree(p)
         THEN /\ claimedAt' = [claimedAt EXCEPT ![victim[p]][gen[p]] = now]
              /\ since' = [since EXCEPT ![p] = now]
              /\ Goto(p, "reread")
              /\ UNCHANGED gen
         ELSE /\ IF Abandoned(p) /\ MoreGenerations(p)
                   THEN /\ gen' = [gen EXCEPT ![p] = @ + 1]
                        /\ UNCHANGED pc
                   ELSE /\ Goto(p, "refused")
                        /\ UNCHANGED gen
              /\ UNCHANGED <<claimedAt, since>>
    /\ UNCHANGED <<world, now, object, victim, settleAt, echoes, myExpiry, renewer>>

\* The read with the claim in hand; a successor that got there first is final.
\* The body is made right after it.
Reread(p) ==
    /\ pc[p] = "reread"
    /\ Goto(p, IF token = victim[p] THEN "put" ELSE "refused")
    /\ myExpiry' = [myExpiry EXCEPT ![p] = now + TTL]
    /\ echoes' = [echoes EXCEPT ![p] = 0]
    /\ UNCHANGED <<world, now, object, claimedAt, victim, gen, since, settleAt, renewer>>

\* The overwrite, and the re-puts of the verify loop.
PutLease(p) ==
    /\ pc[p] \in {"put", "reput"}
    /\ Store(p, myExpiry[p], FALSE)
    /\ Goto(p, "verify")
    /\ settleAt' = [settleAt EXCEPT ![p] = now + Settle]
    /\ UNCHANGED <<world, now, claimedAt, victim, gen, since, echoes, myExpiry, renewer>>

\* The first overwrite reports an error (having landed or not): drop the claim.
PutFails(p) ==
    /\ pc[p] = "put"
    /\ Store(p, myExpiry[p], FALSE) \/ UNCHANGED object
    /\ DropClaim(p)
    /\ Goto(p, "failed")
    /\ UNCHANGED <<world, now, victim, gen, since, settleAt, echoes, myExpiry, renewer>>

\* settleVerifyObserved: ours, the victim's echo, or defeat.
Verify(p) ==
    /\ pc[p] = "verify"
    /\ now >= settleAt[p]
    /\ CASE token = p ->
              /\ Goto(p, "held")
              /\ rpc' = [rpc EXCEPT ![p] = "idle"]
              /\ UNCHANGED echoes
         [] token = victim[p] /\ echoes[p] < EchoRetries ->
              /\ Goto(p, "reput")
              /\ echoes' = [echoes EXCEPT ![p] = @ + 1]
              /\ UNCHANGED rpc
         [] OTHER ->
              /\ Goto(p, IF token = Nobody THEN "release" ELSE "refused")
              /\ UNCHANGED <<echoes, rpc>>
    /\ UNCHANGED <<world, now, object, claimedAt, victim, gen, since, settleAt, myExpiry,
                   next, rsince, rsettleAt>>

\* A read fails, or the context ends.  With a claim in hand it is dropped;
\* with our body stored it is handed back (abandonReclaim).
AcquireFails(p) ==
    /\ pc[p] \in Acquiring \ {"put"}
    /\ IF pc[p] = "reread" THEN DropClaim(p) ELSE UNCHANGED claimedAt
    /\ Goto(p, IF pc[p] \in {"verify", "reput"} THEN "release" ELSE "failed")
    /\ UNCHANGED <<world, now, object, victim, gen, since, settleAt, echoes, myExpiry, renewer>>

-----------------------------------------------------------------------------
(* Maintain and Renew, beside the backup.                                    *)

\* Mutant: a lease is renewed up to its last instant.
NoMargin == now >= expires

\* Renew's two expiry checks.
TooCloseToExpiry == now + 2 * Settle >= expires

\* ErrLeaseLost: the backup is aborted and the lease handed back.
LoseLease(p) == Goto(p, "release") /\ rpc' = [rpc EXCEPT ![p] = "off"]

\* Renew up to the put; it writes only to extend.  A read that fails is
\* reported and changes nothing.
RenewRead(p) ==
    /\ pc[p] = "held" /\ rpc[p] = "idle"
    /\ token # Nobody
    /\ IF token # p \/ TooCloseToExpiry
         THEN /\ LoseLease(p)
              /\ UNCHANGED <<next, rsince>>
         ELSE /\ now + TTL > expires
              /\ rpc' = [rpc EXCEPT ![p] = "put"]
              /\ next' = [next EXCEPT ![p] = now + TTL]
              /\ rsince' = [rsince EXCEPT ![p] = now]
              /\ UNCHANGED pc
    /\ UNCHANGED <<world, now, object, claimedAt, victim, gen, since, settleAt, echoes,
                   myExpiry, rsettleAt>>

\* Renew's put.  Nobody waits for Maintain to stop, so it may land after the
\* backup ended.
RenewPut(p) ==
    /\ rpc[p] = "put"
    /\ Store(p, next[p], FALSE)
    /\ rpc' = [rpc EXCEPT ![p] = IF pc[p] = "held" THEN "verify" ELSE "off"]
    /\ rsettleAt' = [rsettleAt EXCEPT ![p] = now + Settle]
    /\ UNCHANGED <<world, now, claimedAt, acquirer, myExpiry, next, rsince>>

RenewVerify(p) ==
    /\ pc[p] = "held" /\ rpc[p] = "verify"
    /\ now >= rsettleAt[p]
    /\ token # Nobody
    /\ IF token = p
         THEN /\ myExpiry' = [myExpiry EXCEPT ![p] = next[p]]
              /\ rpc' = [rpc EXCEPT ![p] = "idle"]
              /\ UNCHANGED pc
         ELSE /\ LoseLease(p)
              /\ UNCHANGED myExpiry
    /\ UNCHANGED <<world, now, object, claimedAt, victim, gen, since, settleAt, echoes,
                   next, rsince, rsettleAt>>

\* The put or the verifying read fails: reported, tried again at the next tick.
RenewFails(p) ==
    /\ rpc[p] \in {"put", "verify"}
    /\ rpc' = [rpc EXCEPT ![p] = IF pc[p] = "held" THEN "idle" ELSE "off"]
    /\ UNCHANGED <<world, now, object, claimedAt, acquirer, myExpiry, next, rsince, rsettleAt>>

-----------------------------------------------------------------------------
(* Release.                                                                  *)

\* The backup ends, well or not; Maintain's context is cancelled.
EndBackup(p) ==
    /\ pc[p] = "held"
    /\ Goto(p, "release")
    /\ rpc' = [rpc EXCEPT ![p] = IF @ = "put" THEN "put" ELSE "off"]
    /\ UNCHANGED <<world, now, object, claimedAt, victim, gen, since, settleAt, echoes,
                   myExpiry, next, rsince, rsettleAt>>

ReleaseRead(p) ==
    /\ pc[p] = "release"
    /\ Goto(p, IF token = p THEN "tomb" ELSE "over")
    /\ since' = [since EXCEPT ![p] = now]
    /\ UNCHANGED <<world, now, object, claimedAt, victim, gen, settleAt, echoes, myExpiry, renewer>>

\* Mutant: Release deletes the lease object.
DeleteLease(p) == token' = Nobody /\ expires' = now /\ released' = FALSE

StoreTombstone(p) == Store(p, now, TRUE)

PutTombstone(p) ==
    /\ pc[p] = "tomb"
    /\ StoreTombstone(p)
    /\ Goto(p, "over")
    /\ UNCHANGED <<world, now, claimedAt, victim, gen, since, settleAt, echoes, myExpiry, renewer>>

\* Release's read or put fails; the caller ignores it.
ReleaseFails(p) ==
    /\ pc[p] \in {"release", "tomb"}
    /\ Goto(p, "failed")
    /\ UNCHANGED <<world, now, object, claimedAt, victim, gen, since, settleAt, echoes,
                   myExpiry, renewer>>

-----------------------------------------------------------------------------
(* The rest of the world.                                                    *)

\* The process dies.  What it had in flight does not land: a write that lands
\* and is not heard of is the write followed by the crash.
Crash(p) ==
    /\ pc[p] \in Acquiring \cup {"held", "release", "tomb"}
    /\ Goto(p, "dead")
    /\ rpc' = [rpc EXCEPT ![p] = "off"]
    /\ UNCHANGED <<world, now, object, claimedAt, victim, gen, since, settleAt, echoes,
                   myExpiry, next, rsince, rsettleAt>>

\* A refused attempt that stored nothing is repeated by the next schedule.
Retry(p) ==
    /\ p \in Repeats
    /\ pc[p] = "refused"
    /\ \A v \in Procs : victim[v] # p
    /\ token # p
    /\ Goto(p, "create")
    /\ UNCHANGED <<world, now, object, claimedAt, victim, gen, since, settleAt, echoes,
                   myExpiry, renewer>>

\* InspectLeaseSuccession
Wedged == token # Nobody /\ ~Live /\ claimedAt[token][0] # Never /\ now - claimedAt[token][0] >= Grace

\* The operator deletes the claim doctor names, having confirmed that no backup
\* of the deployment is running.
DeleteClaim ==
    /\ "doctor" \in world
    /\ Wedged
    /\ \A p \in Procs : pc[p] # "held"
    /\ claimedAt' = [claimedAt EXCEPT ![token][0] = Never]
    /\ UNCHANGED <<world, now, object, acquirer, myExpiry, renewer>>

Delay(longest) == IF "slow" \in world THEN longest ELSE 0

\* A write lands within its delay.
WritesArePrompt(t) ==
    \A p \in Procs :
        /\ rpc[p] = "put" => t - rsince[p] <= Delay(RenewDelay)
        /\ pc[p] \in Breaking => t - since[p] <= BreakDelay
        /\ pc[p] = "tomb" => t - since[p] <= Delay(ReleaseDelay)

Tick ==
    /\ now < MaxTime
    /\ WritesArePrompt(now + 1)
    /\ now' = now + 1
    /\ UNCHANGED <<world, object, claimedAt, acquirer, myExpiry, renewer>>

AcquireStep(p) ==
    \/ Create(p) \/ ReadLease(p) \/ Recheck(p) \/ ClaimBreak(p) \/ Reread(p)
    \/ PutLease(p) \/ Verify(p) \/ Retry(p)

Step(p) ==
    \/ AcquireStep(p) \/ PutFails(p) \/ AcquireFails(p)
    \/ RenewRead(p) \/ RenewPut(p) \/ RenewVerify(p) \/ RenewFails(p)
    \/ EndBackup(p) \/ ReleaseRead(p) \/ PutTombstone(p) \/ ReleaseFails(p)
    \/ Crash(p)

Next == (\E p \in Procs : Step(p)) \/ DeleteClaim \/ Tick

Spec == Init /\ [][Next]_vars

FairSpec == Spec /\ WF_vars(Tick) /\ \A p \in Procs : WF_vars(AcquireStep(p))

-----------------------------------------------------------------------------
(* Correctness.                                                              *)

\* Every variable has its type; in particular claimBreakKey never looks past
\* the last claim generation and the verify loop never past its last echo.
TypeOK ==
    /\ world \in Worlds /\ now \in 0 .. MaxTime
    /\ token \in Procs \cup {Nobody}
    /\ expires \in Nat /\ released \in BOOLEAN
    /\ claimedAt \in [Procs -> [Generations -> Nat \cup {Never}]]
    /\ pc \in [Procs -> Phases]
    /\ victim \in [Procs -> Procs \cup {Nobody}]
    /\ gen \in [Procs -> Generations]
    /\ since \in [Procs -> Nat] /\ settleAt \in [Procs -> Nat]
    /\ echoes \in [Procs -> 0 .. EchoRetries]
    /\ myExpiry \in [Procs -> Nat]
    /\ rpc \in [Procs -> {"off", "idle", "put", "verify"}]
    /\ next \in [Procs -> Nat] /\ rsince \in [Procs -> Nat] /\ rsettleAt \in [Procs -> Nat]

\* The backup runs under a lease that, as far as it knows, has not lapsed.
Holding(p) == pc[p] = "held" /\ now < myExpiry[p]

\* Never two backups of one deployment at once (TestLeaseSoak_NeverTwoHolders).
MutualExclusion ==
    \A p, q \in Procs : Holding(p) /\ Holding(q) => p = q

\* A process that still wants the lease and has stored nothing yet.
Trying(p) ==
    /\ pc[p] \in Acquiring \cup {"refused"}
    /\ token # p /\ \A v \in Procs : victim[v] # p

Gone(p) == pc[p] \in {"over", "failed", "dead"} /\ rpc[p] = "off"

\* While a backup runs, everyone who looks (an acquirer, `repo gc`) finds its
\* lease, and finds it live, as long as no put of Renew or Release is delayed.
HolderOnRecord ==
    "slow" \notin world => \A p \in Procs : Holding(p) => token = p /\ Live

\* Whatever process died wherever, a deployment whose backups are all gone is
\* backed up again as long as the dead have not used up the claim generations
\* of its lease: the next schedules wait out the lease and the claims they
\* left behind (claimBreakKey).
NeverWedged ==
    \A p \in Repeats :
        (/\ Trying(p)
         /\ \A q \in Procs \ {p} : Gone(q)
         /\ token # Nobody => \E n \in Generations : claimedAt[token][n] = Never
         /\ now + TTL + MaxGens * Grace < MaxTime)
        ~> ~Trying(p)

\* A lease that was given back does not refuse the next backup.
ReleaseFrees ==
    \A p \in Procs : pc[p] = "over" => ~(token = p /\ Live)
=============================================================================
