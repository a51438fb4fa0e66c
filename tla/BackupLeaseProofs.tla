-------------------------- MODULE BackupLeaseProofs --------------------------
(* What BackupLease promises, proved for any number of backup attempts, of    *)
(* claim generations and of echoes.                                           *)
EXTENDS BackupLease, TLAPS

(***************************************************************************)
(* What the protocol asks of the delays, and of the operator.  A renewal     *)
(* lands before the lease it extends lapses.  A victim's last writes land    *)
(* while its successor's lease is live.  A claim is given up for dead only   *)
(* when the backup it led to, and whatever its victim may still write, are   *)
(* over.                                                                     *)
(***************************************************************************)
PromptWrites ==
    /\ RenewDelay <= 2 * Settle /\ RenewDelay < TTL
    /\ BreakDelay + ReleaseDelay < TTL
    /\ TTL + BreakDelay + RenewDelay <= Grace
    /\ TTL + BreakDelay + ReleaseDelay <= Grace

NoDoctor == \A w \in Worlds : "doctor" \notin w

-----------------------------------------------------------------------------
(* The invariant: clocks, claims and records.                                *)

\* Nobody has stored a lease with this process's token, or seen one.
Unstored == {"create", "recreate", "read", "recheck", "claim", "reread", "put"}

\* The process has found its victim's lease stale.
Chasing == {"recheck", "claim"} \cup Breaking

\* The process has a lease to settle or to verify: its body is made.
Granted == {"put", "verify", "reput"}

\* What was decided when, and how long it may take.
ClockAt(p) ==
    /\ since[p] <= now /\ rsince[p] <= now /\ myExpiry[p] <= now + TTL
    /\ pc[p] \in Breaking => now <= since[p] + BreakDelay
    /\ pc[p] \in Granted => since[p] + TTL <= myExpiry[p]
    /\ rpc[p] = "put" => now <= rsince[p] + RenewDelay /\ next[p] = rsince[p] + TTL
    /\ pc[p] = "tomb" => now <= since[p] + ReleaseDelay
    /\ rpc[p] \in {"put", "verify"} => next[p] <= now + TTL /\ myExpiry[p] <= next[p]

ClockInv == \A p \in Procs : ClockAt(p)

\* A generation is claimed when the ones before it were given up for dead.
GenerationsInv ==
    /\ \A v \in Procs, n \in Generations : claimedAt[v][n] <= now
    /\ \A v \in Procs, m, n \in Generations :
         n < m /\ claimedAt[v][m] # Never =>
           claimedAt[v][n] # Never /\ claimedAt[v][n] + Grace <= claimedAt[v][m]

\* An acquirer knows the claims below its own ...
ChaseAt(p) ==
    /\ pc[p] \in Chasing => victim[p] \in Procs /\ victim[p] # p
    /\ pc[p] \in {"claim"} \cup Breaking =>
         \A n \in Generations : n < gen[p] =>
           claimedAt[victim[p]][n] # Never /\ claimedAt[victim[p]][n] + Grace <= now
    /\ pc[p] \in Breaking => claimedAt[victim[p]][gen[p]] = since[p]

ChaseInv == \A p \in Procs : ChaseAt(p)

\* ... and has its own to itself.
OneBreaks ==
    \A p, r \in Procs : pc[p] \in Breaking /\ pc[r] \in Breaking /\ victim[p] = victim[r] => p = r

\* Maintain runs beside the backup, and at most one put of it outlives it.
MaintainAt(p) ==
    /\ rpc[p] # "off" => pc[p] \in {"held", "release", "tomb", "over", "failed"}
    /\ pc[p] # "held" => rpc[p] \in {"off", "put"}
    /\ pc[p] = "held" => rpc[p] # "off"

MaintainInv == \A p \in Procs : MaintainAt(p)

\* A process's record is what it wrote last.
UnstoredAt(p) == pc[p] \in Unstored => token # p /\ \A r \in Procs : victim[r] # p

TombstoneInv == token # Nobody /\ released => pc[token] = "over"

RecordAt(p) ==
    token = p =>
      /\ pc[p] \in {"verify", "reput", "held"} => expires >= myExpiry[p]
      /\ rpc[p] = "verify" => expires >= next[p]
      /\ rpc[p] = "put" /\ pc[p] # "over" => expires > rsince[p] + 2 * Settle

RecordInv == (\A p \in Procs : UnstoredAt(p) /\ RecordAt(p)) /\ TombstoneInv

BaseInv ==
    /\ TypeOK /\ ClockInv /\ GenerationsInv /\ ChaseInv /\ OneBreaks
    /\ MaintainInv /\ RecordInv

-----------------------------------------------------------------------------
(* The invariant: succession.                                                *)

\* A write of Renew or of Release that is still to come, and when it lands.
Due(y, d) ==
    \/ rpc[y] = "put" /\ d = rsince[y] + RenewDelay
    \/ pc[y] = "tomb" /\ d = since[y] + ReleaseDelay

\* The process may take itself for the holder, now or once it has verified.
Entitled(p) ==
    \/ pc[p] \in Granted
    \/ pc[p] = "held" /\ \/ now < myExpiry[p]
                         \/ rpc[p] \in {"put", "verify"} /\ now < next[p]
                         \/ token = p /\ now < expires

\* Up to when p may take itself for the holder whatever the record says.
Horizon(p, h) ==
    \/ pc[p] \in Granted \cup {"held"} /\ h = myExpiry[p]
    \/ pc[p] = "held" /\ rpc[p] \in {"put", "verify"} /\ h = next[p]

\* Nobody but c breaks y's lease before k.
Guarded(c, y, k) ==
    /\ \E m \in Generations : claimedAt[y][m] # Never /\ k <= claimedAt[y][m] + Grace
    /\ \A r \in Procs : pc[r] \in Breaking /\ victim[r] = y => r = c /\ pc[c] # "reread"

\* Nobody is after p's lease.
Fresh(p) == \A r \in Procs : pc[r] \in Chasing => victim[r] # p

\* c's overwrite of y's lease reported an error, so that its claim may be gone.
\* If it landed, c's lease is in the way until all that y may write has landed.
Dropped(c, y) ==
    /\ pc[c] = "failed" /\ rpc[c] = "off" /\ victim[c] = y /\ Fresh(c)
    /\ token = c => ~released /\ expires = myExpiry[c]
    /\ \A d \in Nat : Due(y, d) => d < myExpiry[c] /\ (token \notin {c, y} => Guarded(c, token, d + 1))

\* c is the last to whom the lease passed: nobody else takes itself for the
\* holder, ...
OnlyEntitled(c) == \A p \in Procs : Entitled(p) => p = c

\* ... whatever the others may still write will not be broken in c's time, ...
LateWrites(c) ==
    \A y \in Procs, d \in Nat : y # c /\ Due(y, d) => Guarded(c, y, d + TTL) \/ Dropped(c, y)

\* ... nor what they wrote over c's lease, ...
Overwritten(c) ==
    token # c =>
      /\ \A h \in Nat : Horizon(c, h) /\ now < h => Guarded(c, token, h)
      /\ \A d \in Nat : Due(c, d) => Guarded(c, token, d + 1)

\* ... nobody finds c's lease stale while it may be renewed, ...
Unchased(c) == Entitled(c) \/ (rpc[c] = "put" /\ pc[c] # "over") => Fresh(c)

\* ... its victim has stopped writing before c's lease lapses, ...
Outlives(c) == pc[c] = "put" => \A d \in Nat : Due(victim[c], d) => d < myExpiry[c]

\* ... and the others' backups are over.
OthersOver(c) ==
    \A y \in Procs : y # c =>
      /\ rpc[y] = "put" => pc[y] = "over"
      /\ token = y /\ pc[y] \in {"held", "release"} => pc[c] = "put" /\ victim[c] = y

\* With prompt writes nobody writes late once its successor has settled.
Calm(c) == \A y \in Procs : y # c => rpc[y] # "put" /\ pc[y] # "tomb"

Settled(c) ==
    "slow" \notin world /\ Settle > 0 =>
      /\ pc[c] = "held" /\ Entitled(c) => token = c /\ Calm(c)
      /\ pc[c] = "verify" => Calm(c) \/ now < settleAt[c]

Front(c) ==
    /\ OnlyEntitled(c) /\ LateWrites(c) /\ Overwritten(c) /\ Unchased(c)
    /\ Outlives(c) /\ OthersOver(c) /\ Settled(c)

\* Nobody has had the lease yet.
NoneYet == \A p \in Procs : pc[p] \in {"create", "failed", "dead"} /\ rpc[p] = "off"

SuccessionInv == IF token = Nobody THEN NoneYet ELSE \E c \in Procs : Front(c)

LeaseInv == BaseInv /\ SuccessionInv

-----------------------------------------------------------------------------
(* Types.                                                                    *)

\* The assumptions on the constants, spelled out for the provers.
LEMMA ConstantTypes ==
  /\ TTL \in Nat /\ Settle \in Nat /\ Grace \in Nat /\ EchoRetries \in Nat
  /\ RenewDelay \in Nat /\ BreakDelay \in Nat /\ ReleaseDelay \in Nat /\ MaxTime \in Nat
  /\ MaxGens \in Nat /\ MaxGens > 0 /\ Nobody \notin Procs
  /\ 0 \in Generations /\ \A n \in Generations : n \in Nat /\ n < MaxGens
BY LeaseAssumption DEF Generations

\* What TypeOK says of one process.
LEMMA ProcTypes ==
  ASSUME TypeOK, NEW p \in Procs
  PROVE  /\ pc[p] \in Phases /\ victim[p] \in Procs \cup {Nobody} /\ gen[p] \in Generations
         /\ since[p] \in Nat /\ settleAt[p] \in Nat /\ echoes[p] \in 0 .. EchoRetries /\ myExpiry[p] \in Nat
         /\ rpc[p] \in {"off", "idle", "put", "verify"} /\ next[p] \in Nat /\ rsince[p] \in Nat /\ rsettleAt[p] \in Nat
         /\ \A n \in Generations : claimedAt[p][n] \in Nat \cup {Never}
         /\ now \in Nat /\ expires \in Nat
BY ConstantTypes DEF TypeOK

\* A fresh deployment is well-typed.
LEMMA InitType == Init => TypeOK
<1>1. Init => claimedAt \in [Procs -> [Generations -> Nat \cup {Never}]]
  BY DEF Init
<1>2. Init => token \in Procs \cup {Nobody} /\ released \in BOOLEAN
  BY DEF Init
<1>3. Init => /\ world \in Worlds /\ now \in 0 .. MaxTime /\ expires \in Nat
              /\ gen \in [Procs -> Generations] /\ since \in [Procs -> Nat] /\ settleAt \in [Procs -> Nat]
              /\ echoes \in [Procs -> 0 .. EchoRetries] /\ myExpiry \in [Procs -> Nat]
              /\ next \in [Procs -> Nat] /\ rsince \in [Procs -> Nat] /\ rsettleAt \in [Procs -> Nat]
  BY ConstantTypes DEF Init
<1>4. Init => pc \in [Procs -> Phases] /\ victim \in [Procs -> Procs \cup {Nobody}]
              /\ rpc \in [Procs -> {"off", "idle", "put", "verify"}]
  BY DEF Init, Phases, Acquiring
<1>. QED  BY <1>1, <1>2, <1>3, <1>4 DEF TypeOK

\* A function stays one of its kind when one of its values is replaced.
LEMMA Updated ==
  ASSUME NEW S, NEW T, NEW f \in [S -> T], NEW a, NEW v \in T
  PROVE  [f EXCEPT ![a] = v] \in [S -> T]
OBVIOUS

\* A claim that is made, or dropped, is a claim.
LEMMA ClaimType ==
  ASSUME TypeOK, NEW v, NEW n, NEW t \in Nat \cup {Never}
  PROVE  [claimedAt EXCEPT ![v][n] = t] \in [Procs -> [Generations -> Nat \cup {Never}]]
<1> DEFINE Claims == [Generations -> Nat \cup {Never}]
<1>1. claimedAt \in [Procs -> Claims]  BY DEF TypeOK
<1>2. CASE v \in Procs
  <2>1. [claimedAt[v] EXCEPT ![n] = t] \in Claims  BY <1>1, <1>2, Updated
  <2>2. [claimedAt EXCEPT ![v][n] = t] = [claimedAt EXCEPT ![v] = [claimedAt[v] EXCEPT ![n] = t]]  BY <1>1, <1>2
  <2> HIDE DEF Claims
  <2>. QED  BY <1>1, <2>1, <2>2, Updated DEF Claims
<1>3. CASE v \notin Procs
  BY <1>1, <1>3
<1>. QED  BY <1>2, <1>3

\* Every step keeps the types.
LEMMA TypeKept ==
  ASSUME TypeOK, Next
  PROVE  TypeOK'
<1> USE ConstantTypes, Updated
<1>c. ASSUME NEW p \in Procs, DropClaim(p) PROVE claimedAt' \in [Procs -> [Generations -> Nat \cup {Never}]]
  BY <1>c, ClaimType, ProcTypes DEF DropClaim, TypeOK
<1>1. ASSUME NEW p \in Procs, Create(p) PROVE TypeOK'
  BY <1>1 DEF TypeOK, Create, Goto, Store, object, acquirer, renewer, Phases, Acquiring, Breaking
<1>2. ASSUME NEW p \in Procs, ReadLease(p) PROVE TypeOK'
  BY <1>2 DEF TypeOK, ReadLease, Goto, Store, object, acquirer, renewer, Phases, Acquiring, Breaking
<1>3. ASSUME NEW p \in Procs, Recheck(p) PROVE TypeOK'
  BY <1>3 DEF TypeOK, Recheck, Goto, Store, object, acquirer, renewer, Phases, Acquiring, Breaking
<1>4. ASSUME NEW p \in Procs, Reread(p) PROVE TypeOK'
  BY <1>4 DEF TypeOK, Reread, Goto, Store, object, acquirer, renewer, Phases, Acquiring, Breaking
<1>5. ASSUME NEW p \in Procs, PutLease(p) PROVE TypeOK'
  BY <1>5 DEF TypeOK, PutLease, Goto, Store, object, acquirer, renewer, Phases, Acquiring, Breaking
<1>6. ASSUME NEW p \in Procs, Verify(p) PROVE TypeOK'
  BY <1>6 DEF TypeOK, Verify, Goto, Store, object, acquirer, renewer, Phases, Acquiring, Breaking
<1>7. ASSUME NEW p \in Procs, Retry(p) PROVE TypeOK'
  BY <1>7 DEF TypeOK, Retry, Goto, Store, object, acquirer, renewer, Phases, Acquiring, Breaking
<1>8. ASSUME NEW p \in Procs, RenewRead(p) PROVE TypeOK'
  BY <1>8 DEF TypeOK, RenewRead, LoseLease, Goto, Store, object, acquirer, renewer, Phases, Acquiring, Breaking
<1>9. ASSUME NEW p \in Procs, RenewPut(p) PROVE TypeOK'
  BY <1>9 DEF TypeOK, RenewPut, Goto, Store, object, acquirer, renewer, Phases, Acquiring, Breaking
<1>10. ASSUME NEW p \in Procs, RenewVerify(p) PROVE TypeOK'
  BY <1>10 DEF TypeOK, RenewVerify, LoseLease, Goto, Store, object, acquirer, renewer, Phases, Acquiring, Breaking
<1>11. ASSUME NEW p \in Procs, RenewFails(p) PROVE TypeOK'
  BY <1>11 DEF TypeOK, RenewFails, Goto, Store, object, acquirer, renewer, Phases, Acquiring, Breaking
<1>12. ASSUME NEW p \in Procs, EndBackup(p) PROVE TypeOK'
  BY <1>12 DEF TypeOK, EndBackup, Goto, Store, object, acquirer, renewer, Phases, Acquiring, Breaking
<1>13. ASSUME NEW p \in Procs, ReleaseRead(p) PROVE TypeOK'
  BY <1>13 DEF TypeOK, ReleaseRead, Goto, Store, object, acquirer, renewer, Phases, Acquiring, Breaking
<1>14. ASSUME NEW p \in Procs, PutTombstone(p) PROVE TypeOK'
  BY <1>14 DEF TypeOK, PutTombstone, StoreTombstone, Goto, Store, object, acquirer, renewer, Phases, Acquiring, Breaking
<1>15. ASSUME NEW p \in Procs, ReleaseFails(p) PROVE TypeOK'
  BY <1>15 DEF TypeOK, ReleaseFails, Goto, Store, object, acquirer, renewer, Phases, Acquiring, Breaking
<1>16. ASSUME NEW p \in Procs, Crash(p) PROVE TypeOK'
  BY <1>16 DEF TypeOK, Crash, Goto, Store, object, acquirer, renewer, Phases, Acquiring, Breaking
<1>17. ASSUME NEW p \in Procs, ClaimBreak(p) PROVE TypeOK'
  <2>1. claimedAt' \in [Procs -> [Generations -> Nat \cup {Never}]]
    BY <1>17, ClaimType, ProcTypes DEF ClaimBreak, TypeOK
  <2>2. gen' \in [Procs -> Generations]
    BY <1>17 DEF ClaimBreak, MoreGenerations, TypeOK, Generations
  <2>3. pc' \in [Procs -> Phases] /\ since' \in [Procs -> Nat]
    BY <1>17 DEF ClaimBreak, TypeOK, Goto, Phases, Acquiring, Breaking
  <2>. QED  BY <1>17, <2>1, <2>2, <2>3 DEF TypeOK, ClaimBreak, object, renewer
<1>18. ASSUME NEW p \in Procs, PutFails(p) PROVE TypeOK'
  <2>1. claimedAt' \in [Procs -> [Generations -> Nat \cup {Never}]]
    BY <1>18, <1>c DEF PutFails
  <2>. QED  BY <1>18, <2>1 DEF TypeOK, PutFails, Goto, Store, object, renewer, Phases
<1>19. ASSUME NEW p \in Procs, AcquireFails(p) PROVE TypeOK'
  <2>1. claimedAt' \in [Procs -> [Generations -> Nat \cup {Never}]]
    BY <1>19, <1>c DEF AcquireFails, TypeOK
  <2>. QED  BY <1>19, <2>1 DEF TypeOK, AcquireFails, Goto, object, renewer, Phases
<1>20. ASSUME DeleteClaim PROVE TypeOK'
  BY <1>20, ClaimType DEF TypeOK, DeleteClaim, object, acquirer, renewer
<1>21. ASSUME Tick PROVE TypeOK'
  BY <1>21 DEF TypeOK, Tick, object, acquirer, renewer
<1>. QED
  BY <1>1, <1>2, <1>3, <1>4, <1>5, <1>6, <1>7, <1>8, <1>9, <1>10, <1>11, <1>12, <1>13, <1>14, <1>15,
     <1>16, <1>17, <1>18, <1>19, <1>20, <1>21 DEF Next, Step, AcquireStep

\* A step of one process leaves the clock and the others alone.
LEMMA Others ==
  ASSUME NEW p \in Procs, Step(p)
  PROVE  /\ world' = world /\ now' = now
         /\ TypeOK => \A q \in Procs : q # p =>
              /\ pc'[q] = pc[q] /\ victim'[q] = victim[q] /\ gen'[q] = gen[q] /\ since'[q] = since[q]
              /\ settleAt'[q] = settleAt[q] /\ echoes'[q] = echoes[q] /\ myExpiry'[q] = myExpiry[q]
              /\ rpc'[q] = rpc[q] /\ next'[q] = next[q] /\ rsince'[q] = rsince[q] /\ rsettleAt'[q] = rsettleAt[q]
<1>1. CASE Create(p)
  BY <1>1 DEF TypeOK, Create, Goto, Store, object, acquirer, renewer
<1>2. CASE ReadLease(p)
  BY <1>2 DEF TypeOK, ReadLease, Goto, Store, object, acquirer, renewer
<1>3. CASE Recheck(p)
  BY <1>3 DEF TypeOK, Recheck, Goto, Store, object, acquirer, renewer
<1>4. CASE ClaimBreak(p)
  BY <1>4 DEF TypeOK, ClaimBreak, Goto, Store, object, acquirer, renewer
<1>5. CASE Reread(p)
  BY <1>5 DEF TypeOK, Reread, Goto, Store, object, acquirer, renewer
<1>6. CASE PutLease(p)
  BY <1>6 DEF TypeOK, PutLease, Goto, Store, object, acquirer, renewer
<1>7. CASE Verify(p)
  BY <1>7 DEF TypeOK, Verify, Goto, Store, object, acquirer, renewer
<1>8. CASE Retry(p)
  BY <1>8 DEF TypeOK, Retry, Goto, Store, object, acquirer, renewer
<1>9. CASE PutFails(p)
  BY <1>9 DEF TypeOK, PutFails, Goto, Store, object, acquirer, renewer
<1>10. CASE AcquireFails(p)
  BY <1>10 DEF TypeOK, AcquireFails, Goto, Store, object, acquirer, renewer
<1>11. CASE RenewRead(p)
  BY <1>11 DEF TypeOK, RenewRead, LoseLease, Goto, Store, object, acquirer, renewer
<1>12. CASE RenewPut(p)
  BY <1>12 DEF TypeOK, RenewPut, Goto, Store, object, acquirer, renewer
<1>13. CASE RenewVerify(p)
  BY <1>13 DEF TypeOK, RenewVerify, LoseLease, Goto, Store, object, acquirer, renewer
<1>14. CASE RenewFails(p)
  BY <1>14 DEF TypeOK, RenewFails, Goto, Store, object, acquirer, renewer
<1>15. CASE EndBackup(p)
  BY <1>15 DEF TypeOK, EndBackup, Goto, Store, object, acquirer, renewer
<1>16. CASE ReleaseRead(p)
  BY <1>16 DEF TypeOK, ReleaseRead, Goto, Store, object, acquirer, renewer
<1>17. CASE PutTombstone(p)
  BY <1>17 DEF TypeOK, PutTombstone, StoreTombstone, Goto, Store, object, acquirer, renewer
<1>18. CASE ReleaseFails(p)
  BY <1>18 DEF TypeOK, ReleaseFails, Goto, Store, object, acquirer, renewer
<1>19. CASE Crash(p)
  BY <1>19 DEF TypeOK, Crash, Goto, Store, object, acquirer, renewer
<1>. QED  BY <1>1, <1>2, <1>3, <1>4, <1>5, <1>6, <1>7, <1>8, <1>9, <1>10, <1>11, <1>12, <1>13, <1>14, <1>15, <1>16, <1>17, <1>18, <1>19 DEF Step, AcquireStep

\* Renew finds its lease lost, or is about to extend it.
LEMMA RenewReadEffect ==
  ASSUME TypeOK, NEW p \in Procs, RenewRead(p)
  PROVE  /\ pc[p] = "held" /\ rpc[p] = "idle"
         /\ \/ rpc'[p] = "off" /\ pc'[p] = "release" /\ UNCHANGED <<next, rsince>>
            \/ /\ token = p /\ now + 2 * Settle < expires
               /\ rpc'[p] = "put" /\ pc'[p] = "held" /\ next'[p] = now + TTL /\ rsince'[p] = now
<1>1. CASE token # p \/ TooCloseToExpiry
  BY <1>1 DEF RenewRead, LoseLease, Goto, TypeOK
<1>2. CASE ~(token # p \/ TooCloseToExpiry)
  <2>1. now + 2 * Settle < expires  BY <1>2, ProcTypes, ConstantTypes DEF TooCloseToExpiry
  <2>. QED  BY <1>2, <2>1 DEF RenewRead, TypeOK
<1>. QED  BY <1>1, <1>2

\* The claims after one of them was made or dropped.
ClaimSet(v, n, t) ==
    \A u \in Procs, m \in Generations :
        claimedAt'[u][m] = IF u = v /\ m = n THEN t ELSE claimedAt[u][m]

\* An update of one cell of claimedAt is a ClaimSet.
LEMMA ClaimUpdate ==
  ASSUME TypeOK, NEW v \in Procs, NEW n \in Generations, NEW t,
         claimedAt' = [claimedAt EXCEPT ![v][n] = t]
  PROVE  ClaimSet(v, n, t)
BY DEF ClaimSet, TypeOK

\* p creates its claim; p drops its claim.
Wins(p) ==
    /\ pc[p] = "claim" /\ pc'[p] = "reread" /\ victim'[p] = victim[p] /\ gen'[p] = gen[p] /\ since'[p] = now
    /\ claimedAt[victim[p]][gen[p]] = Never /\ ClaimSet(victim[p], gen[p], now)
    /\ UNCHANGED <<object, myExpiry, rpc, next, rsince>>

Drops(p) ==
    /\ pc[p] \in {"reread", "put"} /\ pc'[p] = "failed"
    /\ ClaimSet(victim[p], gen[p], Never)

\* A claim that finds the name free creates it.
LEMMA WinEffect ==
  ASSUME TypeOK, ChaseInv, NEW p \in Procs, ClaimBreak(p), ClaimFree(p)
  PROVE  Wins(p)
<1>1. victim[p] \in Procs /\ gen[p] \in Generations  BY ProcTypes DEF ChaseInv, ChaseAt, Chasing, ClaimBreak
<1>2. claimedAt' = [claimedAt EXCEPT ![victim[p]][gen[p]] = now]  BY DEF ClaimBreak
<1>3. ClaimSet(victim[p], gen[p], now)  BY <1>1, <1>2, ClaimUpdate
<1>. QED  BY <1>3 DEF ClaimBreak, ClaimFree, Wins, Goto, TypeOK, renewer

\* What becomes of the claims.
LEMMA ClaimEffect ==
  ASSUME TypeOK, ChaseInv, NEW p \in Procs, Step(p)
  PROVE  claimedAt' = claimedAt \/ Wins(p) \/ Drops(p)
<1>0. pc[p] \in Chasing => victim[p] \in Procs  BY DEF ChaseInv, ChaseAt
<1>t. gen[p] \in Generations  BY ProcTypes
<1>1. CASE ClaimBreak(p)
  BY <1>1, WinEffect DEF ClaimBreak
<1>d. ASSUME DropClaim(p), pc[p] \in {"reread", "put"}, pc'[p] = "failed" PROVE claimedAt' = claimedAt \/ Drops(p)
  <2>1. CASE claimedAt' = [claimedAt EXCEPT ![victim[p]][gen[p]] = Never]
    <3>1. victim[p] \in Procs  BY <1>0, <1>d DEF Chasing, Breaking
    <3>2. ClaimSet(victim[p], gen[p], Never)  BY <3>1, <1>t, <2>1, ClaimUpdate
    <3>. QED  BY <1>d, <3>2 DEF Drops
  <2>. QED  BY <2>1, <1>d DEF DropClaim
<1>2. CASE PutFails(p)
  BY <1>2, <1>d DEF PutFails, Goto, TypeOK
<1>3. CASE AcquireFails(p)
  <2>1. CASE pc[p] = "reread"  BY <1>3, <2>1, <1>d DEF AcquireFails, Goto, TypeOK
  <2>. QED  BY <1>3, <2>1 DEF AcquireFails
<1>. QED  BY <1>1, <1>2, <1>3 DEF Step, AcquireStep, Create, ReadLease, Recheck, Reread, PutLease, Verify, Retry,
      RenewRead, RenewPut, RenewVerify, RenewFails, EndBackup, ReleaseRead, PutTombstone, ReleaseFails, Crash

\* How a process comes to chase a lease, to claim it and to break it.
LEMMA ChaseEffect ==
  ASSUME TypeOK, ChaseInv, MaintainInv, NEW p \in Procs, Step(p)
  PROVE  /\ pc'[p] \in Breaking =>
              \/ pc[p] \in Breaking /\ victim'[p] = victim[p] /\ gen'[p] = gen[p] /\ since'[p] = since[p] /\ claimedAt' = claimedAt
              \/ Wins(p)
         /\ pc'[p] = "claim" =>
              /\ victim'[p] = victim[p] /\ claimedAt' = claimedAt
              /\ \/ pc[p] = "recheck" /\ gen'[p] = 0 /\ token = victim[p] /\ ~Live
                 \/ /\ pc[p] = "claim" /\ gen'[p] = gen[p] + 1
                    /\ claimedAt[victim[p]][gen[p]] # Never /\ now - claimedAt[victim[p]][gen[p]] >= Grace
         /\ pc'[p] = "recheck" => pc[p] = "read" /\ token # Nobody /\ ~Live /\ victim'[p] = token /\ claimedAt' = claimedAt
<1>0. MaintainAt(p)  BY DEF MaintainInv
<1>1. CASE ClaimBreak(p)
  <2>1. CASE ClaimFree(p)
    BY <1>1, <2>1, WinEffect DEF Wins
  <2>. QED  BY <1>1, <2>1 DEF ClaimBreak, ClaimFree, Abandoned, Goto, TypeOK, Breaking
<1>2. CASE ReadLease(p)
  BY <1>2 DEF ReadLease, Goto, TypeOK, Breaking
<1>3. CASE Recheck(p)
  BY <1>3 DEF Recheck, Goto, TypeOK, Breaking
<1>4. CASE Create(p)
  BY ZenonT(60), <1>4 DEF TypeOK, Breaking, Create, Goto, acquirer
<1>5. CASE Reread(p)
  BY <1>5 DEF TypeOK, Breaking, Reread, Goto, acquirer
<1>6. CASE PutLease(p)
  BY <1>6 DEF TypeOK, Breaking, PutLease, Goto, acquirer
<1>7. CASE Verify(p)
  BY <1>7 DEF TypeOK, Breaking, Verify, Goto, acquirer
<1>8. CASE Retry(p)
  BY <1>8 DEF TypeOK, Breaking, Retry, Goto, acquirer
<1>9. CASE PutFails(p)
  BY <1>9 DEF TypeOK, Breaking, PutFails, Goto, acquirer
<1>10. CASE AcquireFails(p)
  BY <1>10 DEF TypeOK, Breaking, AcquireFails, Goto, acquirer
<1>11. CASE RenewRead(p)
  BY <1>11 DEF TypeOK, Breaking, RenewRead, LoseLease, TooCloseToExpiry, Goto, acquirer
<1>12. CASE RenewPut(p)
  BY <1>0, <1>12 DEF MaintainAt, Breaking, RenewPut, Goto, acquirer
<1>13. CASE RenewVerify(p)
  BY <1>13 DEF TypeOK, Breaking, RenewVerify, LoseLease, Goto, acquirer
<1>14. CASE RenewFails(p)
  BY <1>0, <1>14 DEF MaintainAt, Breaking, RenewFails, Goto, acquirer
<1>15. CASE EndBackup(p)
  BY <1>15 DEF TypeOK, Breaking, EndBackup, Goto, acquirer
<1>16. CASE ReleaseRead(p)
  BY <1>16 DEF TypeOK, Breaking, ReleaseRead, Goto, acquirer
<1>17. CASE PutTombstone(p)
  BY <1>17 DEF TypeOK, Breaking, PutTombstone, StoreTombstone, Goto, acquirer
<1>18. CASE ReleaseFails(p)
  BY <1>18 DEF TypeOK, Breaking, ReleaseFails, Goto, acquirer
<1>19. CASE Crash(p)
  BY <1>19 DEF TypeOK, Breaking, Crash, Goto, acquirer
<1>. QED  BY <1>1, <1>2, <1>3, <1>4, <1>5, <1>6, <1>7, <1>8, <1>9, <1>10, <1>11, <1>12, <1>13, <1>14, <1>15, <1>16, <1>17, <1>18, <1>19 DEF Step, AcquireStep

-----------------------------------------------------------------------------
(* Clocks, claims and records.                                               *)

\* Maintain is started when the lease is held and stopped when the backup ends.
LEMMA MaintainKept ==
  ASSUME TypeOK, MaintainInv, Next
  PROVE  MaintainInv'
<1>1. ASSUME NEW p \in Procs, Step(p) PROVE MaintainAt(p)'
  <2>0. MaintainAt(p) /\ pc[p] \in Phases /\ rpc[p] \in {"off", "idle", "put", "verify"}
    BY ProcTypes DEF MaintainInv
  <2>1. CASE Create(p)
    BY <2>1, <2>0 DEF TypeOK, MaintainAt, Phases, Acquiring, Breaking, Create, Goto, Store, object, acquirer, renewer
  <2>2. CASE ReadLease(p)
    BY <2>2, <2>0 DEF TypeOK, MaintainAt, Phases, Acquiring, Breaking, ReadLease, Goto, Store, object, acquirer, renewer
  <2>3. CASE Recheck(p)
    BY <2>3, <2>0 DEF TypeOK, MaintainAt, Phases, Acquiring, Breaking, Recheck, Goto, Store, object, acquirer, renewer
  <2>4. CASE ClaimBreak(p)
    BY <2>4, <2>0 DEF TypeOK, MaintainAt, Phases, Acquiring, Breaking, ClaimBreak, Goto, Store, object, acquirer, renewer
  <2>5. CASE Reread(p)
    BY <2>5, <2>0 DEF TypeOK, MaintainAt, Phases, Acquiring, Breaking, Reread, Goto, Store, object, acquirer, renewer
  <2>6. CASE PutLease(p)
    BY <2>6, <2>0 DEF TypeOK, MaintainAt, Phases, Acquiring, Breaking, PutLease, Goto, Store, object, acquirer, renewer
  <2>7. CASE Verify(p)
    BY <2>7, <2>0 DEF TypeOK, MaintainAt, Phases, Acquiring, Breaking, Verify, Goto, Store, object, acquirer, renewer
  <2>8. CASE Retry(p)
    BY <2>8, <2>0 DEF TypeOK, MaintainAt, Phases, Acquiring, Breaking, Retry, Goto, Store, object, acquirer, renewer
  <2>9. CASE PutFails(p)
    BY <2>9, <2>0 DEF TypeOK, MaintainAt, Phases, Acquiring, Breaking, PutFails, Goto, Store, object, acquirer, renewer
  <2>10. CASE AcquireFails(p)
    BY <2>10, <2>0 DEF TypeOK, MaintainAt, Phases, Acquiring, Breaking, AcquireFails, Goto, Store, object, acquirer, renewer
  <2>11. CASE RenewRead(p)
    BY <2>11, <2>0 DEF TypeOK, MaintainAt, Phases, Acquiring, Breaking, RenewRead, LoseLease, TooCloseToExpiry, Goto, Store, object, acquirer, renewer
  <2>12. CASE RenewPut(p)
    BY <2>12, <2>0 DEF TypeOK, MaintainAt, Phases, Acquiring, Breaking, RenewPut, Goto, Store, object, acquirer, renewer
  <2>13. CASE RenewVerify(p)
    BY <2>13, <2>0 DEF TypeOK, MaintainAt, Phases, Acquiring, Breaking, RenewVerify, LoseLease, Goto, Store, object, acquirer, renewer
  <2>14. CASE RenewFails(p)
    BY <2>14, <2>0 DEF TypeOK, MaintainAt, Phases, Acquiring, Breaking, RenewFails, Goto, Store, object, acquirer, renewer
  <2>15. CASE EndBackup(p)
    BY <2>15, <2>0 DEF TypeOK, MaintainAt, Phases, Acquiring, Breaking, EndBackup, Goto, Store, object, acquirer, renewer
  <2>16. CASE ReleaseRead(p)
    BY <2>16, <2>0 DEF TypeOK, MaintainAt, Phases, Acquiring, Breaking, ReleaseRead, Goto, Store, object, acquirer, renewer
  <2>17. CASE PutTombstone(p)
    BY <2>17, <2>0 DEF TypeOK, MaintainAt, Phases, Acquiring, Breaking, PutTombstone, StoreTombstone, Goto, Store, object, acquirer, renewer
  <2>18. CASE ReleaseFails(p)
    BY <2>18, <2>0 DEF TypeOK, MaintainAt, Phases, Acquiring, Breaking, ReleaseFails, Goto, Store, object, acquirer, renewer
  <2>19. CASE Crash(p)
    BY <2>19, <2>0 DEF TypeOK, MaintainAt, Phases, Acquiring, Breaking, Crash, Goto, Store, object, acquirer, renewer
  <2>. QED  BY <1>1, <2>1, <2>2, <2>3, <2>4, <2>5, <2>6, <2>7, <2>8, <2>9, <2>10, <2>11, <2>12, <2>13, <2>14, <2>15, <2>16, <2>17, <2>18, <2>19 DEF Step, AcquireStep
<1>2. ASSUME NEW p \in Procs, Step(p), NEW q \in Procs, q # p PROVE MaintainAt(q)'
  BY <1>2, Others DEF MaintainInv, MaintainAt
<1>3. CASE DeleteClaim \/ Tick
  BY <1>3 DEF DeleteClaim, Tick, MaintainInv, MaintainAt, acquirer, renewer
<1>. QED  BY <1>1, <1>2, <1>3 DEF Next, MaintainInv

\* A put lands within its delay, and the clock is the only one to move time.
LEMMA ClockKept ==
  ASSUME TypeOK, TypeOK', MaintainInv, ClockInv, Next
  PROVE  ClockInv'
<1>1. ASSUME NEW p \in Procs, Step(p) PROVE ClockAt(p)'
  <2>0. ClockAt(p) /\ MaintainAt(p) /\ now' = now
    BY <1>1, Others DEF MaintainInv, ClockInv
  <2> USE ConstantTypes, ProcTypes
  <2>1. CASE Create(p)
    BY <2>1, <2>0 DEF TypeOK, ClockAt, MaintainAt, Acquiring, Breaking, Granted, Create, Goto, Store, object, acquirer, renewer
  <2>2. CASE ReadLease(p)
    BY <2>2, <2>0 DEF TypeOK, ClockAt, MaintainAt, Acquiring, Breaking, Granted, ReadLease, Goto, Store, object, acquirer, renewer
  <2>3. CASE Recheck(p)
    BY <2>3, <2>0 DEF TypeOK, ClockAt, MaintainAt, Acquiring, Breaking, Granted, Recheck, Goto, Store, object, acquirer, renewer
  <2>4. CASE ClaimBreak(p)
    BY <2>4, <2>0 DEF TypeOK, ClockAt, MaintainAt, Acquiring, Breaking, Granted, ClaimBreak, Goto, Store, object, acquirer, renewer
  <2>5. CASE Reread(p)
    BY <2>5, <2>0 DEF TypeOK, ClockAt, MaintainAt, Acquiring, Breaking, Granted, Reread, Goto, Store, object, acquirer, renewer
  <2>6. CASE PutLease(p)
    BY <2>6, <2>0 DEF TypeOK, ClockAt, MaintainAt, Acquiring, Breaking, Granted, PutLease, Goto, Store, object, acquirer, renewer
  <2>7. CASE Verify(p)
    BY <2>7, <2>0 DEF TypeOK, ClockAt, MaintainAt, Acquiring, Breaking, Granted, Verify, Goto, Store, object, acquirer, renewer
  <2>8. CASE Retry(p)
    BY <2>8, <2>0 DEF TypeOK, ClockAt, MaintainAt, Acquiring, Breaking, Granted, Retry, Goto, Store, object, acquirer, renewer
  <2>9. CASE PutFails(p)
    BY <2>9, <2>0 DEF TypeOK, ClockAt, MaintainAt, Acquiring, Breaking, Granted, PutFails, Goto, Store, object, acquirer, renewer
  <2>10. CASE AcquireFails(p)
    BY <2>10, <2>0 DEF TypeOK, ClockAt, MaintainAt, Acquiring, Breaking, Granted, AcquireFails, Goto, Store, object, acquirer, renewer
  <2>11. CASE RenewRead(p)
    <3>1. CASE rpc'[p] = "off" /\ pc'[p] = "release"
      BY <2>11, <2>0, <3>1 DEF ClockAt, RenewRead, Breaking, Granted
    <3>2. CASE rpc'[p] = "put" /\ pc'[p] = "held" /\ next'[p] = now + TTL /\ rsince'[p] = now
      BY <2>11, <2>0, <3>2 DEF ClockAt, RenewRead, Breaking, Granted
    <3>. QED  BY <2>11, <3>1, <3>2, RenewReadEffect
  <2>12. CASE RenewPut(p)
    BY <2>12, <2>0 DEF TypeOK, ClockAt, MaintainAt, Acquiring, Breaking, Granted, RenewPut, Goto, Store, object, acquirer, renewer
  <2>13. CASE RenewVerify(p)
    BY <2>13, <2>0 DEF TypeOK, ClockAt, MaintainAt, Acquiring, Breaking, Granted, RenewVerify, LoseLease, Goto, Store, object, acquirer, renewer
  <2>14. CASE RenewFails(p)
    BY <2>14, <2>0 DEF TypeOK, ClockAt, MaintainAt, Acquiring, Breaking, Granted, RenewFails, Goto, Store, object, acquirer, renewer
  <2>15. CASE EndBackup(p)
    BY <2>15, <2>0 DEF TypeOK, ClockAt, MaintainAt, Acquiring, Breaking, Granted, EndBackup, Goto, Store, object, acquirer, renewer
  <2>16. CASE ReleaseRead(p)
    BY <2>16, <2>0 DEF TypeOK, ClockAt, MaintainAt, Acquiring, Breaking, Granted, ReleaseRead, Goto, Store, object, acquirer, renewer
  <2>17. CASE PutTombstone(p)
    BY <2>17, <2>0 DEF TypeOK, ClockAt, MaintainAt, Acquiring, Breaking, Granted, PutTombstone, StoreTombstone, Goto, Store, object, acquirer, renewer
  <2>18. CASE ReleaseFails(p)
    BY <2>18, <2>0 DEF TypeOK, ClockAt, MaintainAt, Acquiring, Breaking, Granted, ReleaseFails, Goto, Store, object, acquirer, renewer
  <2>19. CASE Crash(p)
    BY <2>19, <2>0 DEF TypeOK, ClockAt, MaintainAt, Acquiring, Breaking, Granted, Crash, Goto, Store, object, acquirer, renewer
  <2>. QED  BY <1>1, <2>1, <2>2, <2>3, <2>4, <2>5, <2>6, <2>7, <2>8, <2>9, <2>10, <2>11, <2>12, <2>13, <2>14, <2>15, <2>16, <2>17, <2>18, <2>19 DEF Step, AcquireStep
<1>2. ASSUME NEW p \in Procs, Step(p), NEW q \in Procs, q # p PROVE ClockAt(q)'
  BY <1>2, Others DEF ClockInv, ClockAt
<1>3. CASE DeleteClaim
  BY <1>3 DEF DeleteClaim, ClockInv, ClockAt, acquirer, renewer
<1>4. ASSUME Tick, NEW q \in Procs PROVE ClockAt(q)'
  <2>1. ClockAt(q)  BY DEF ClockInv
  <2>2. Delay(RenewDelay) <= RenewDelay /\ Delay(ReleaseDelay) <= ReleaseDelay /\ Delay(RenewDelay) \in Nat /\ Delay(ReleaseDelay) \in Nat
    BY ConstantTypes DEF Delay
  <2>3. /\ rpc[q] = "put" => (now + 1) - rsince[q] <= Delay(RenewDelay)
        /\ pc[q] \in Breaking => (now + 1) - since[q] <= BreakDelay
        /\ pc[q] = "tomb" => (now + 1) - since[q] <= Delay(ReleaseDelay)
    BY <1>4 DEF Tick, WritesArePrompt
  <2>4. now' = now + 1 /\ UNCHANGED <<since, rsince, myExpiry, pc, rpc, next>>
    BY <1>4 DEF Tick, acquirer, renewer
  <2>. QED  BY <2>1, <2>2, <2>3, <2>4, ProcTypes, ConstantTypes DEF ClockAt
<1>. QED  BY <1>1, <1>2, <1>3, <1>4 DEF Next, ClockInv

\* A claim whose winner is still at it is not old enough to be given up.
LEMMA BreakersClaimIsYoung ==
  ASSUME TypeOK, ClockInv, ChaseInv, PromptWrites, NEW p \in Procs, pc[p] \in Breaking
  PROVE  /\ claimedAt[victim[p]][gen[p]] = since[p] /\ since[p] # Never /\ now < since[p] + Grace
         /\ victim[p] \in Procs /\ victim[p] # p /\ gen[p] \in Generations
<1>1. ClockAt(p) /\ ChaseAt(p)  BY DEF ClockInv, ChaseInv
<1>. QED  BY <1>1, ProcTypes, ConstantTypes DEF ClockAt, ChaseAt, PromptWrites, Chasing, Never

\* A claim that is made is the first of its generation, on top of dead ones; one
\* that is dropped is the topmost.
LEMMA GenerationsKept ==
  ASSUME TypeOK, ClockInv, GenerationsInv, ChaseInv, PromptWrites, NEW p \in Procs, Step(p)
  PROVE  GenerationsInv'
<1>0. now' = now  BY Others
<1>n. now \in Nat /\ Grace \in Nat /\ \A v \in Procs, n \in Generations : claimedAt[v][n] \in Nat \cup {Never}
  BY ProcTypes, ConstantTypes
<1>c. ChaseAt(p) /\ gen[p] \in Generations  BY ProcTypes DEF ChaseInv
<1>1. CASE claimedAt' = claimedAt
  BY <1>0, <1>1 DEF GenerationsInv
<1>2. CASE Wins(p)
  <2>1. ASSUME NEW v \in Procs, NEW n \in Generations PROVE claimedAt'[v][n] <= now
    BY <1>2, <2>1, <1>n DEF Wins, ClaimSet, GenerationsInv
  <2>2. ASSUME NEW v \in Procs, NEW m \in Generations, NEW n \in Generations, n < m, claimedAt'[v][m] # Never
        PROVE  claimedAt'[v][n] # Never /\ claimedAt'[v][n] + Grace <= claimedAt'[v][m]
    <3>1. CASE v = victim[p] /\ m = gen[p]
      <4>1. claimedAt'[v][m] = now /\ claimedAt'[v][n] = claimedAt[v][n]  BY <1>2, <2>2, <3>1, ConstantTypes DEF Wins, ClaimSet
      <4>. QED  BY <4>1, <1>c, <1>2, <2>2, <3>1 DEF ChaseAt, Wins
    <3>2. CASE v = victim[p] /\ n = gen[p]
      <4>1. claimedAt'[v][m] = claimedAt[v][m] /\ claimedAt[v][n] = Never  BY <1>2, <2>2, <3>2, ConstantTypes DEF Wins, ClaimSet
      <4>. QED  BY <4>1, <2>2 DEF GenerationsInv
    <3>3. CASE ~(v = victim[p] /\ m = gen[p]) /\ ~(v = victim[p] /\ n = gen[p])
      <4>1. claimedAt'[v][m] = claimedAt[v][m] /\ claimedAt'[v][n] = claimedAt[v][n]  BY <1>2, <3>3 DEF Wins, ClaimSet
      <4>. QED  BY <4>1, <2>2 DEF GenerationsInv
    <3>. QED  BY <3>1, <3>2, <3>3
  <2>. QED  BY <1>0, <2>1, <2>2 DEF GenerationsInv
<1>3. CASE Drops(p)
  <2>0. pc[p] \in Breaking  BY <1>3 DEF Drops, Breaking
  <2>1. ASSUME NEW v \in Procs, NEW n \in Generations PROVE claimedAt'[v][n] <= now
    BY <1>3, <2>1, <1>n DEF Drops, ClaimSet, GenerationsInv, Never
  <2>2. ASSUME NEW v \in Procs, NEW m \in Generations, NEW n \in Generations, n < m, claimedAt'[v][m] # Never
        PROVE  claimedAt'[v][n] # Never /\ claimedAt'[v][n] + Grace <= claimedAt'[v][m]
    <3>1. ~(v = victim[p] /\ m = gen[p]) /\ claimedAt'[v][m] = claimedAt[v][m]
      BY <1>3, <2>2 DEF Drops, ClaimSet
    <3>2. claimedAt[v][n] # Never /\ claimedAt[v][n] + Grace <= claimedAt[v][m] /\ claimedAt[v][m] <= now
      BY <2>2, <3>1 DEF GenerationsInv
    <3>3. claimedAt[v][n] \in Nat /\ claimedAt[v][m] \in Nat  BY <1>n, <3>1, <3>2, <2>2
    <3>4. ~(v = victim[p] /\ n = gen[p])  BY <2>0, <3>2, <3>3, <1>n, BreakersClaimIsYoung
    <3>5. claimedAt'[v][n] = claimedAt[v][n]  BY <1>3, <3>4 DEF Drops, ClaimSet
    <3>. QED  BY <3>1, <3>2, <3>5
  <2>. QED  BY <1>0, <2>1, <2>2 DEF GenerationsInv
<1>. QED  BY <1>1, <1>2, <1>3, ClaimEffect

\* An acquirer's own claim, and the ones below it, stay.
LEMMA ChaseKept ==
  ASSUME TypeOK, ClockInv, GenerationsInv, ChaseInv, OneBreaks, MaintainInv, RecordInv, PromptWrites, NEW p \in Procs, Step(p)
  PROVE  ChaseInv' /\ OneBreaks'
<1>0. now' = now  BY Others
<1>n. now \in Nat /\ Grace \in Nat /\ \A v \in Procs, n \in Generations : claimedAt[v][n] \in Nat \cup {Never}
  BY ProcTypes, ConstantTypes
<1>c. ChaseAt(p) /\ gen[p] \in Generations  BY ProcTypes DEF ChaseInv
<1>y. \A r \in Procs : pc[r] \in Breaking => victim[r] \in Procs /\ gen[r] \in Generations
                                              /\ now < claimedAt[victim[r]][gen[r]] + Grace /\ claimedAt[victim[r]][gen[r]] # Never
  BY BreakersClaimIsYoung
<1>o. \A q \in Procs : q # p => pc'[q] = pc[q] /\ victim'[q] = victim[q] /\ gen'[q] = gen[q] /\ since'[q] = since[q]
  BY Others
\* A claim that counts against an acquirer is not the one that p makes or drops.
<1>k. ASSUME NEW v \in Procs, NEW n \in Generations, claimedAt[v][n] # Never, claimedAt[v][n] + Grace <= now
      PROVE  claimedAt'[v][n] = claimedAt[v][n]
  <2>1. CASE Wins(p)  BY <2>1, <1>k DEF Wins, ClaimSet
  <2>2. CASE Drops(p)
    <3>1. pc[p] \in Breaking  BY <2>2 DEF Drops, Breaking
    <3>2. ~(v = victim[p] /\ n = gen[p])  BY <3>1, <1>y, <1>k, <1>n
    <3>. QED  BY <2>2, <3>2 DEF Drops, ClaimSet
  <2>. QED  BY <2>1, <2>2, ClaimEffect
<1>1. ASSUME NEW q \in Procs, q # p PROVE ChaseAt(q)'
  <2>0. ChaseAt(q) /\ gen[q] \in Generations  BY ProcTypes DEF ChaseInv
  <2>1. pc'[q] \in Chasing => victim'[q] \in Procs /\ victim'[q] # q  BY <1>1, <1>o, <2>0 DEF ChaseAt
  <2>2. ASSUME pc'[q] \in {"claim"} \cup Breaking, NEW n \in Generations, n < gen'[q]
        PROVE  claimedAt'[victim'[q]][n] # Never /\ claimedAt'[victim'[q]][n] + Grace <= now'
    BY <1>0, <1>1, <1>o, <1>k, <2>0, <2>2 DEF ChaseAt, Chasing
  <2>3. ASSUME pc'[q] \in Breaking PROVE claimedAt'[victim'[q]][gen'[q]] = since'[q]
    <3>1. pc[q] \in Breaking /\ claimedAt[victim[q]][gen[q]] = since[q] /\ claimedAt[victim[q]][gen[q]] # Never /\ victim[q] \in Procs
      BY <1>1, <1>o, <1>y, <2>0, <2>3 DEF ChaseAt
    <3>2. claimedAt'[victim[q]][gen[q]] = claimedAt[victim[q]][gen[q]]
      <4>1. CASE Wins(p)  BY <4>1, <3>1, <2>0 DEF Wins, ClaimSet
      <4>2. CASE Drops(p)
        <5>1. victim[p] # victim[q]  BY <4>2, <3>1, <1>1 DEF Drops, Breaking, OneBreaks
        <5>. QED  BY <4>2, <5>1, <3>1, <2>0 DEF Drops, ClaimSet
      <4>. QED  BY <4>1, <4>2, ClaimEffect
    <3>. QED  BY <1>1, <1>o, <3>1, <3>2
  <2>. QED  BY <2>1, <2>2, <2>3 DEF ChaseAt
<1>2. ChaseAt(p)'
  <2>1. pc'[p] \in Chasing => victim'[p] \in Procs /\ victim'[p] # p
    <3>1. CASE pc'[p] = "recheck"
      BY <3>1, ChaseEffect DEF RecordInv, UnstoredAt, TypeOK, Unstored
    <3>2. CASE pc'[p] = "claim" \/ pc'[p] \in Breaking
      BY <3>2, <1>c, ChaseEffect DEF ChaseAt, Chasing, Wins
    <3>. QED  BY <3>1, <3>2 DEF Chasing
  <2>2. ASSUME pc'[p] \in {"claim"} \cup Breaking, NEW n \in Generations, n < gen'[p]
        PROVE  claimedAt'[victim'[p]][n] # Never /\ claimedAt'[victim'[p]][n] + Grace <= now'
    <3>0. n \in Nat /\ gen[p] \in Nat /\ victim'[p] = victim[p] /\ victim[p] \in Procs
      BY <2>2, <1>c, ConstantTypes, ChaseEffect DEF Wins, ChaseAt, Chasing
    <3>1. claimedAt[victim[p]][n] # Never /\ claimedAt[victim[p]][n] + Grace <= now
      <4>1. CASE pc'[p] \in Breaking
        BY <4>1, <2>2, <1>c, ChaseEffect DEF ChaseAt, Wins
      <4>2. CASE pc'[p] = "claim" /\ pc[p] = "recheck"
        BY <4>2, <2>2, <3>0, ChaseEffect
      <4>3. CASE pc'[p] = "claim" /\ pc[p] = "claim"
        <5>1. n = gen[p] \/ n < gen[p]  BY <4>3, <2>2, <3>0, ChaseEffect
        <5>2. claimedAt[victim[p]][gen[p]] # Never /\ now - claimedAt[victim[p]][gen[p]] >= Grace  BY <4>3, ChaseEffect
        <5>3. claimedAt[victim[p]][gen[p]] + Grace <= now  BY <5>2, <1>n, <1>c, <3>0
        <5>. QED  BY <4>3, <5>1, <5>2, <5>3, <1>c DEF ChaseAt
      <4>. QED  BY <2>2, <4>1, <4>2, <4>3, ChaseEffect
    <3>. QED  BY <3>0, <3>1, <1>k, <1>0
  <2>3. pc'[p] \in Breaking => claimedAt'[victim'[p]][gen'[p]] = since'[p]
    BY <1>c, ChaseEffect DEF ChaseAt, Wins, ClaimSet, Chasing
  <2>. QED  BY <2>1, <2>2, <2>3 DEF ChaseAt
<1>3. ASSUME NEW q \in Procs, NEW r \in Procs, pc'[q] \in Breaking, pc'[r] \in Breaking, victim'[q] = victim'[r] PROVE q = r
  \* a second winner would need a claim of another generation
  <2>1. ASSUME Wins(p), NEW s \in Procs, s # p, pc[s] \in Breaking, victim[s] = victim[p] PROVE FALSE
    <3>1. ChaseAt(s) /\ gen[s] \in Generations /\ gen[s] \in Nat /\ gen[p] \in Nat  BY <1>c, ProcTypes, ConstantTypes DEF ChaseInv
    <3>2. CASE gen[s] < gen[p]
      <4>1. claimedAt[victim[p]][gen[s]] + Grace <= now  BY <3>1, <3>2, <1>c, <2>1 DEF ChaseAt, Wins
      <4>. QED  BY <4>1, <2>1, <3>1, <1>y, <1>n
    <3>3. CASE gen[s] = gen[p]  BY <3>3, <2>1, <1>y DEF Wins
    <3>4. CASE gen[p] < gen[s]  BY <3>1, <3>4, <1>c, <2>1 DEF ChaseAt, Wins
    <3>. QED  BY <3>1, <3>2, <3>3, <3>4
  <2>. QED  BY <1>3, <1>o, <2>1, ChaseEffect DEF OneBreaks, Wins
<1>. QED  BY <1>1, <1>2, <1>3 DEF ChaseInv, OneBreaks

\* A step writes the process's own record, or none.
LEMMA StoreEffect ==
  ASSUME TypeOK, NEW p \in Procs, Step(p)
  PROVE  /\ token' \in {token, p}
         /\ UNCHANGED object \/ (token' = p /\ (released' = FALSE \/ (pc[p] = "tomb" /\ pc'[p] = "over")))
         /\ token' # token => pc'[p] \notin Unstored \/ rpc[p] = "put"
         /\ \A r \in Procs : victim'[r] = victim[r] \/ (r = p /\ pc[p] = "read" /\ victim'[r] = token)
<1>1. CASE Create(p)
  BY <1>1 DEF TypeOK, Unstored, Create, Goto, Store, object, acquirer
<1>2. CASE ReadLease(p)
  BY <1>2 DEF TypeOK, Unstored, ReadLease, Goto, Store, object, acquirer
<1>3. CASE Recheck(p)
  BY <1>3 DEF TypeOK, Unstored, Recheck, Goto, Store, object, acquirer
<1>4. CASE ClaimBreak(p)
  BY <1>4 DEF TypeOK, Unstored, ClaimBreak, Goto, Store, object, acquirer
<1>5. CASE Reread(p)
  BY <1>5 DEF TypeOK, Unstored, Reread, Goto, Store, object, acquirer
<1>6. CASE PutLease(p)
  BY <1>6 DEF TypeOK, Unstored, PutLease, Goto, Store, object, acquirer
<1>7. CASE Verify(p)
  BY <1>7 DEF TypeOK, Unstored, Verify, Goto, Store, object, acquirer
<1>8. CASE Retry(p)
  BY <1>8 DEF TypeOK, Unstored, Retry, Goto, Store, object, acquirer
<1>9. CASE PutFails(p)
  BY <1>9 DEF TypeOK, Unstored, PutFails, Goto, Store, object, acquirer
<1>10. CASE AcquireFails(p)
  BY <1>10 DEF TypeOK, Unstored, AcquireFails, Goto, Store, object, acquirer
<1>11. CASE RenewRead(p)
  BY <1>11 DEF TypeOK, Unstored, RenewRead, LoseLease, TooCloseToExpiry, Goto, Store, object, acquirer
<1>12. CASE RenewPut(p)
  BY <1>12 DEF TypeOK, Unstored, RenewPut, Goto, Store, object, acquirer
<1>13. CASE RenewVerify(p)
  BY <1>13 DEF TypeOK, Unstored, RenewVerify, LoseLease, Goto, Store, object, acquirer
<1>14. CASE RenewFails(p)
  BY <1>14 DEF TypeOK, Unstored, RenewFails, Goto, Store, object, acquirer
<1>15. CASE EndBackup(p)
  BY <1>15 DEF TypeOK, Unstored, EndBackup, Goto, Store, object, acquirer
<1>16. CASE ReleaseRead(p)
  BY <1>16 DEF TypeOK, Unstored, ReleaseRead, Goto, Store, object, acquirer
<1>17. CASE PutTombstone(p)
  BY <1>17 DEF TypeOK, Unstored, PutTombstone, StoreTombstone, Goto, Store, object, acquirer
<1>18. CASE ReleaseFails(p)
  BY <1>18 DEF TypeOK, Unstored, ReleaseFails, Goto, Store, object, acquirer
<1>19. CASE Crash(p)
  BY <1>19 DEF TypeOK, Unstored, Crash, Goto, Store, object, acquirer
<1>. QED  BY <1>1, <1>2, <1>3, <1>4, <1>5, <1>6, <1>7, <1>8, <1>9, <1>10, <1>11, <1>12, <1>13, <1>14, <1>15, <1>16, <1>17, <1>18, <1>19 DEF Step, AcquireStep

\* A process's record is what it wrote last, and nobody sees it before.
LEMMA RecordKept ==
  ASSUME TypeOK, TypeOK', ClockInv, MaintainInv, RecordInv, NEW p \in Procs, Step(p)
  PROVE  RecordInv'
<1>o. \A q \in Procs : q # p => pc'[q] = pc[q] /\ victim'[q] = victim[q] /\ myExpiry'[q] = myExpiry[q]
                                 /\ rpc'[q] = rpc[q] /\ next'[q] = next[q] /\ rsince'[q] = rsince[q]
  BY Others
<1>1. ASSUME NEW q \in Procs PROVE UnstoredAt(q)'
  <2>1. CASE q # p
    <3>1. SUFFICES ASSUME pc[q] \in Unstored PROVE token' # q /\ \A r \in Procs : victim'[r] # q
      BY <1>o, <2>1 DEF UnstoredAt
    <3>2. token # q /\ \A r \in Procs : victim[r] # q  BY <3>1 DEF RecordInv, UnstoredAt
    <3>. QED  BY <2>1, <3>2, StoreEffect
  <2>2. ASSUME q = p, pc'[p] \in Unstored, pc[p] \in Unstored PROVE UnstoredAt(p)'
    <3>1. token # p /\ \A r \in Procs : victim[r] # p  BY <2>2 DEF RecordInv, UnstoredAt
    <3>2. token' # p
      <4>1. MaintainAt(p)  BY DEF MaintainInv
      <4>. QED  BY <2>2, <3>1, <4>1, StoreEffect DEF MaintainAt, Unstored
    <3>. QED  BY <3>1, <3>2, StoreEffect DEF UnstoredAt
  <2>3. ASSUME q = p, pc'[p] \in Unstored, pc[p] \notin Unstored PROVE UnstoredAt(p)'
    <3>1. Retry(p)
      BY ZenonT(60), <2>3 DEF Unstored, Step, AcquireStep, Create, ReadLease, Recheck, ClaimBreak, Reread, PutLease,
                  Verify, PutFails, AcquireFails, RenewRead, RenewPut, RenewVerify, RenewFails, EndBackup, ReleaseRead,
                  PutTombstone, ReleaseFails, Crash, Goto, TypeOK, LoseLease, acquirer
    <3>. QED  BY <3>1 DEF Retry, UnstoredAt, object
  <2>. QED  BY <2>1, <2>2, <2>3 DEF UnstoredAt
<1>2. TombstoneInv'
  <2>1. CASE UNCHANGED object /\ token = p /\ pc[p] = "over"
    BY <2>1 DEF Unstored, Step, AcquireStep, Create, ReadLease, Recheck, ClaimBreak, Reread, PutLease,
                  Verify, Retry, PutFails, AcquireFails, RenewRead, RenewPut, RenewVerify, RenewFails, EndBackup, ReleaseRead,
                  PutTombstone, ReleaseFails, Crash, TombstoneInv, object, acquirer, Acquiring, Breaking
  <2>2. CASE UNCHANGED object /\ ~(token = p /\ pc[p] = "over")
    BY <1>o, <2>2 DEF TombstoneInv, object, RecordInv, TypeOK
  <2>3. CASE token' = p /\ released' = FALSE
    BY <2>3 DEF TombstoneInv
  <2>4. CASE token' = p /\ pc'[p] = "over"
    BY <2>4 DEF TombstoneInv
  <2>. QED  BY <2>1, <2>2, <2>3, <2>4, StoreEffect
<1>3. RecordAt(p)'
  <2>0. ClockAt(p) /\ MaintainAt(p) /\ UnstoredAt(p) /\ RecordAt(p) /\ TombstoneInv /\ now' = now
    BY <1>1, Others DEF MaintainInv, ClockInv, RecordInv
  <2> USE ConstantTypes, ProcTypes, <2>0
  <2>1. CASE Create(p)
    BY <2>1, <2>0 DEF TypeOK, RecordAt, MaintainAt, UnstoredAt, Unstored, Create, Goto, Store, object, acquirer, renewer
  <2>2. CASE ReadLease(p)
    BY <2>2, <2>0 DEF TypeOK, RecordAt, MaintainAt, UnstoredAt, Unstored, ReadLease, Goto, Store, object, acquirer, renewer
  <2>3. CASE Recheck(p)
    BY <2>3, <2>0 DEF TypeOK, RecordAt, MaintainAt, UnstoredAt, Unstored, Recheck, Goto, Store, object, acquirer, renewer
  <2>4. CASE ClaimBreak(p)
    BY <2>4, <2>0 DEF TypeOK, RecordAt, MaintainAt, UnstoredAt, Unstored, ClaimBreak, Goto, Store, object, acquirer, renewer
  <2>5. CASE Reread(p)
    BY <2>5, <2>0 DEF TypeOK, RecordAt, MaintainAt, UnstoredAt, Unstored, Reread, Goto, Store, object, acquirer, renewer
  <2>6. CASE PutLease(p)
    BY <2>6, <2>0 DEF TypeOK, RecordAt, MaintainAt, UnstoredAt, Unstored, PutLease, Goto, Store, object, acquirer, renewer
  <2>7. CASE Verify(p)
    BY <2>7, <2>0 DEF TypeOK, RecordAt, MaintainAt, UnstoredAt, Unstored, Verify, Goto, Store, object, acquirer, renewer
  <2>8. CASE Retry(p)
    BY <2>8, <2>0 DEF TypeOK, RecordAt, MaintainAt, UnstoredAt, Unstored, Retry, Goto, Store, object, acquirer, renewer
  <2>9. CASE PutFails(p)
    BY <2>9, <2>0 DEF TypeOK, RecordAt, MaintainAt, UnstoredAt, Unstored, PutFails, Goto, Store, object, acquirer, renewer
  <2>10. CASE AcquireFails(p)
    BY <2>10, <2>0 DEF TypeOK, RecordAt, MaintainAt, UnstoredAt, Unstored, Acquiring, Breaking, AcquireFails, Goto, Store, object, acquirer, renewer
  <2>11. CASE RenewRead(p)
    BY <2>11, <2>0 DEF TypeOK, RecordAt, MaintainAt, UnstoredAt, Unstored, RenewRead, LoseLease, TooCloseToExpiry, Goto, Store, object, acquirer, renewer
  <2>12. CASE RenewPut(p)
    BY <2>12, <2>0 DEF TypeOK, RecordAt, MaintainAt, ClockAt, RenewPut, Goto, Store, object, acquirer, renewer
  <2>13. CASE RenewVerify(p)
    BY <2>13, <2>0 DEF TypeOK, RecordAt, MaintainAt, UnstoredAt, Unstored, RenewVerify, LoseLease, Goto, Store, object, acquirer, renewer
  <2>14. CASE RenewFails(p)
    BY <2>14, <2>0 DEF TypeOK, RecordAt, MaintainAt, UnstoredAt, Unstored, RenewFails, Goto, Store, object, acquirer, renewer
  <2>15. CASE EndBackup(p)
    BY <2>15, <2>0 DEF TypeOK, RecordAt, MaintainAt, UnstoredAt, Unstored, EndBackup, Goto, Store, object, acquirer, renewer
  <2>16. CASE ReleaseRead(p)
    BY <2>16, <2>0 DEF TypeOK, RecordAt, MaintainAt, UnstoredAt, Unstored, ReleaseRead, Goto, Store, object, acquirer, renewer
  <2>17. CASE PutTombstone(p)
    BY <2>17, <2>0 DEF TypeOK, RecordAt, MaintainAt, UnstoredAt, Unstored, PutTombstone, StoreTombstone, Goto, Store, object, acquirer, renewer
  <2>18. CASE ReleaseFails(p)
    BY <2>18, <2>0 DEF TypeOK, RecordAt, MaintainAt, UnstoredAt, Unstored, ReleaseFails, Goto, Store, object, acquirer, renewer
  <2>19. CASE Crash(p)
    BY <2>19, <2>0 DEF TypeOK, RecordAt, MaintainAt, UnstoredAt, Unstored, Crash, Goto, Store, object, acquirer, renewer
  <2>. QED  BY <2>1, <2>2, <2>3, <2>4, <2>5, <2>6, <2>7, <2>8, <2>9, <2>10, <2>11, <2>12, <2>13, <2>14, <2>15, <2>16, <2>17, <2>18, <2>19 DEF Step, AcquireStep
<1>4. ASSUME NEW q \in Procs, q # p PROVE RecordAt(q)'
  BY ZenonT(60), <1>4, <1>o, StoreEffect DEF RecordInv, RecordAt, object
<1>. QED  BY <1>1, <1>2, <1>3, <1>4 DEF RecordInv

\* The clock makes nobody's claim younger, and changes nothing else.
LEMMA TickKept ==
  ASSUME BaseInv, Tick
  PROVE  GenerationsInv' /\ ChaseInv' /\ OneBreaks' /\ RecordInv'
<1>1. now' = now + 1 /\ UNCHANGED <<object, claimedAt, acquirer, myExpiry, renewer>>  BY DEF Tick
<1>n. now \in Nat /\ Grace \in Nat /\ \A v \in Procs, n \in Generations : claimedAt[v][n] \in Nat \cup {Never}
  BY ProcTypes, ConstantTypes DEF BaseInv, TypeOK
<1>2. GenerationsInv'
  <2>1. ASSUME NEW v \in Procs, NEW n \in Generations PROVE claimedAt[v][n] <= now + 1
    BY <1>n DEF BaseInv, GenerationsInv, Never
  <2>. QED  BY <1>1, <2>1 DEF BaseInv, GenerationsInv
<1>3. ASSUME NEW p \in Procs PROVE ChaseAt(p)'
  <2>1. ChaseAt(p)  BY DEF BaseInv, ChaseInv
  <2>2. ASSUME NEW n \in Generations, victim[p] \in Procs, claimedAt[victim[p]][n] + Grace <= now
        PROVE  claimedAt[victim[p]][n] + Grace <= now + 1
    BY <2>2, <1>n DEF Never
  <2>. QED  BY <1>1, <2>1, <2>2 DEF ChaseAt, acquirer, Chasing
<1>4. OneBreaks' /\ RecordInv'
  BY <1>1 DEF BaseInv, OneBreaks, RecordInv, UnstoredAt, RecordAt, TombstoneInv, object, acquirer, renewer
<1>. QED  BY <1>2, <1>3, <1>4 DEF ChaseInv

\* A fresh deployment has no claims, no acquirers and no record.
LEMMA InitBase == Init => BaseInv
<1>1. SUFFICES ASSUME Init PROVE BaseInv  OBVIOUS
<1>2. ClockInv  BY <1>1, ConstantTypes DEF Init, ClockInv, ClockAt, Breaking, Granted
<1>3. GenerationsInv
  <2>1. \A v \in Procs, n \in Generations : claimedAt[v][n] = Never  BY <1>1 DEF Init
  <2>. QED  BY <1>1, <2>1, ConstantTypes DEF Init, GenerationsInv, Never
<1>4. ChaseInv /\ OneBreaks  BY <1>1 DEF Init, ChaseInv, ChaseAt, OneBreaks, Chasing, Breaking
<1>5. MaintainInv  BY <1>1 DEF Init, MaintainInv, MaintainAt
<1>6. RecordInv  BY <1>1, ConstantTypes DEF Init, RecordInv, UnstoredAt, RecordAt, TombstoneInv
<1>. QED  BY <1>1, <1>2, <1>3, <1>4, <1>5, <1>6, InitType DEF BaseInv

\* Every step keeps the invariant of clocks, claims and records.
LEMMA BaseKept ==
  ASSUME BaseInv, [Next]_vars, PromptWrites, NoDoctor
  PROVE  BaseInv'
<1>0. TypeOK /\ ClockInv /\ GenerationsInv /\ ChaseInv /\ OneBreaks /\ MaintainInv /\ RecordInv  BY DEF BaseInv
<1>1. CASE Next
  <2>1. TypeOK' /\ MaintainInv' /\ ClockInv'  BY <1>0, <1>1, TypeKept, MaintainKept, ClockKept
  <2>2. ASSUME NEW p \in Procs, Step(p) PROVE GenerationsInv' /\ ChaseInv' /\ OneBreaks' /\ RecordInv'
    BY <1>0, <2>1, <2>2, GenerationsKept, ChaseKept, RecordKept
  <2>3. ~DeleteClaim  BY <1>0 DEF NoDoctor, DeleteClaim, TypeOK
  <2>. QED  BY <1>1, <2>1, <2>2, <2>3, TickKept DEF Next, BaseInv
<1>2. CASE UNCHANGED vars
  BY <1>0, <1>2 DEF vars, object, acquirer, renewer, BaseInv, TypeOK, ClockInv, ClockAt, GenerationsInv, ChaseInv, ChaseAt,
     OneBreaks, MaintainInv, MaintainAt, RecordInv, UnstoredAt, RecordAt, TombstoneInv
<1>. QED  BY <1>1, <1>2

-----------------------------------------------------------------------------
(* Succession: what the parts say together.                                  *)

\* What is due lands soon: in the current lease, and before a claim made a
\* break ago is given up.
LEMMA DueSoon ==
  ASSUME BaseInv, PromptWrites, NEW y \in Procs, NEW d \in Nat, Due(y, d)
  PROVE  now <= d /\ d < now + TTL /\ d + TTL + BreakDelay <= now + Grace /\ TTL > 0
<1>1. ClockAt(y) /\ TypeOK  BY DEF BaseInv, ClockInv
<1>2. CASE rpc[y] = "put" /\ d = rsince[y] + RenewDelay
  BY <1>1, <1>2, ProcTypes, ConstantTypes DEF ClockAt, PromptWrites
<1>3. CASE pc[y] = "tomb" /\ d = since[y] + ReleaseDelay
  BY <1>1, <1>3, ProcTypes, ConstantTypes DEF ClockAt, PromptWrites
<1>. QED  BY <1>2, <1>3 DEF Due

\* An acquirer that breaks a lease has a claim on it that nobody gives up, and a
\* body that does not lapse, before it is done.
LEMMA BreakerGuards ==
  ASSUME BaseInv, PromptWrites, NEW p \in Procs, pc[p] \in Breaking, pc[p] # "reread", NEW k \in Nat,
         k <= since[p] + Grace
  PROVE  Guarded(p, victim[p], k)
<1>1. TypeOK /\ ClockInv /\ ChaseInv /\ OneBreaks  BY DEF BaseInv
<1>2. claimedAt[victim[p]][gen[p]] = since[p] /\ since[p] # Never /\ gen[p] \in Generations
  BY <1>1, BreakersClaimIsYoung
<1>. QED  BY <1>1, <1>2 DEF Guarded, OneBreaks

\* The lease of a granted process is not over.
LEMMA GrantedIsLive ==
  ASSUME BaseInv, PromptWrites, NEW p \in Procs, pc[p] \in Granted
  PROVE  now < myExpiry[p]
<1>1. ClockAt(p) /\ TypeOK  BY DEF BaseInv, ClockInv
<1>. QED  BY <1>1, ProcTypes, ConstantTypes DEF ClockAt, PromptWrites, Granted, Breaking

\* The record of a process that may hold the lease, or may still renew it, is live.
LEMMA EntitledIsLive ==
  ASSUME BaseInv, PromptWrites, NEW c \in Procs, token = c,
         Entitled(c) \/ (rpc[c] = "put" /\ pc[c] # "over")
  PROVE  Live
<1>1. TypeOK /\ ClockAt(c) /\ MaintainAt(c) /\ UnstoredAt(c) /\ RecordAt(c) /\ TombstoneInv
  BY DEF BaseInv, ClockInv, MaintainInv, RecordInv
<1>2. pc[c] # "put"  BY <1>1 DEF UnstoredAt, Unstored
<1>3. token # Nobody  BY ConstantTypes
<1>4. now < expires
  <2>1. CASE pc[c] \in Granted
    BY <1>1, <1>2, <2>1, GrantedIsLive, ProcTypes DEF RecordAt, Granted
  <2>2. CASE rpc[c] = "put" /\ pc[c] # "over"
    BY <1>1, <2>2, ProcTypes, ConstantTypes DEF RecordAt, ClockAt, PromptWrites
  <2>3. CASE pc[c] = "held" /\ now < myExpiry[c]
    BY <1>1, <2>3, ProcTypes DEF RecordAt
  <2>4. CASE pc[c] = "held" /\ rpc[c] = "verify" /\ now < next[c]
    BY <1>1, <2>4, ProcTypes DEF RecordAt
  <2>. QED  BY <2>1, <2>2, <2>3, <2>4 DEF Entitled
<1>5. pc[c] # "over"  BY DEF Entitled, Granted
<1>. QED  BY <1>1, <1>3, <1>4, <1>5 DEF Live, TombstoneInv

\* A guard holds as long as it is meant to, unless the guardian itself drops it.
LEMMA GuardKept ==
  ASSUME BaseInv, PromptWrites, NEW p \in Procs, Step(p), NEW c \in Procs, NEW y \in Procs, NEW k \in Nat,
         Guarded(c, y, k), now < k, ~(pc[p] = "put" /\ victim[p] = y /\ claimedAt' # claimedAt)
  PROVE  Guarded(c, y, k)'
<1>0. TypeOK /\ ClockInv /\ GenerationsInv /\ ChaseInv /\ OneBreaks /\ MaintainInv /\ ChaseAt(p)  BY DEF BaseInv, ChaseInv
<1>n. now \in Nat /\ Grace \in Nat /\ gen[p] \in Generations /\ gen[p] \in Nat
      /\ \A n \in Generations : n \in Nat /\ claimedAt[y][n] \in Nat \cup {Never}
  BY <1>0, ProcTypes, ConstantTypes
<1>1. PICK m \in Generations : claimedAt[y][m] # Never /\ k <= claimedAt[y][m] + Grace  BY DEF Guarded
<1>2. Wins(p) => victim[p] # y
  <2>1. SUFFICES ASSUME Wins(p), victim[p] = y PROVE FALSE  OBVIOUS
  <2>2. claimedAt[y][gen[p]] = Never /\ pc[p] = "claim"  BY <2>1 DEF Wins
  <2>3. ~(gen[p] < m)  BY <2>2, <1>0, <1>1, <1>n DEF GenerationsInv
  <2>4. m < gen[p]  BY <2>2, <2>3, <1>1, <1>n
  <2>5. claimedAt[y][m] + Grace <= now  BY <1>0, <2>1, <2>2, <2>4 DEF ChaseAt
  <2>. QED  BY <2>5, <1>1, <1>n
<1>3. claimedAt'[y][m] = claimedAt[y][m]
  <2>1. CASE Wins(p)  BY <1>2, <2>1 DEF Wins, ClaimSet
  <2>2. CASE Drops(p)
    <3>1. victim[p] # y
      <4>1. CASE pc[p] = "reread"  BY <4>1 DEF Guarded, Breaking
      <4>2. CASE pc[p] = "put" /\ claimedAt' = claimedAt
        <5>1. SUFFICES ASSUME victim[p] = y PROVE FALSE  OBVIOUS
        <5>2. claimedAt[y][gen[p]] = Never  BY <2>2, <4>2, <5>1, <1>n DEF Drops, ClaimSet
        <5>. QED  BY <4>2, <5>1, <5>2, <1>0, BreakersClaimIsYoung DEF Breaking
      <4>. QED  BY <2>2, <4>1, <4>2 DEF Drops
    <3>. QED  BY <2>2, <3>1 DEF Drops, ClaimSet
  <2>. QED  BY <1>0, <2>1, <2>2, ClaimEffect
<1>4. ASSUME NEW r \in Procs, pc'[r] \in Breaking, victim'[r] = y PROVE r = c /\ pc'[c] # "reread"
  <2>1. pc[r] \in Breaking /\ victim[r] = y
    <3>1. CASE r = p  BY <1>0, <1>2, <1>4, <3>1, ChaseEffect DEF Wins
    <3>2. CASE r # p  BY <1>0, <1>4, <3>2, Others
    <3>. QED  BY <3>1, <3>2
  <2>2. r = c /\ pc[c] # "reread"  BY <2>1 DEF Guarded
  <2>3. pc'[c] # "reread"
    <3>1. CASE c = p
      <4>1. SUFFICES ASSUME pc'[p] = "reread" PROVE FALSE  BY <3>1
      <4>2. Reread(p) \/ PutLease(p) \/ Verify(p) \/ PutFails(p) \/ AcquireFails(p) \/ Crash(p)
        BY <2>1, <2>2, <3>1, <1>0 DEF Step, AcquireStep, Breaking, Create, ReadLease, Recheck, ClaimBreak, Retry, RenewRead, RenewPut,
           RenewVerify, RenewFails, EndBackup, ReleaseRead, PutTombstone, ReleaseFails, MaintainInv, MaintainAt
      <4>. QED  BY <4>1, <4>2, <1>0 DEF TypeOK, Reread, PutLease, Verify, PutFails, AcquireFails, Crash, Goto
    <3>2. CASE c # p  BY <1>0, <2>2, <3>2, Others
    <3>. QED  BY <3>1, <3>2
  <2>. QED  BY <2>2, <2>3
<1>. QED  BY <1>1, <1>3, <1>4 DEF Guarded

-----------------------------------------------------------------------------
(* Succession: the steps by which a process gains nothing.                   *)

\* p's step writes no lease, and leaves p with no more than it had.
Retreats(p) ==
    /\ UNCHANGED object
    /\ pc[p] # "put" /\ pc'[p] \notin {"put", "verify"}
    /\ Entitled(p)' => Entitled(p)
    /\ \A h \in Nat : Horizon(p, h)' /\ now < h => Horizon(p, h)
    /\ rpc'[p] = "put" => rpc[p] = "put" /\ rsince'[p] = rsince[p] /\ (pc'[p] # "over" => pc[p] # "over")
    /\ pc'[p] = "tomb" => pc[p] = "tomb" /\ since'[p] = since[p]
    /\ pc'[p] \in Chasing => (pc[p] \in Chasing /\ victim'[p] = victim[p]) \/ (victim'[p] = token /\ ~Live)
    /\ token = p /\ pc'[p] \in {"held", "release"} => pc[p] \in {"held", "release"} \/ Entitled(p)
    /\ pc'[p] = "held" => pc[p] = "held" \/ (pc[p] = "verify" /\ token = p /\ now >= settleAt[p])
    /\ ~(pc[p] = "failed" /\ rpc[p] = "off")

\* Which steps these are.
LEMMA RetreatSteps ==
  ASSUME BaseInv, NEW p \in Procs, token # Nobody,
         \/ Create(p) \/ ReadLease(p) \/ Recheck(p) \/ ClaimBreak(p) \/ Verify(p) \/ Retry(p) \/ AcquireFails(p)
         \/ RenewVerify(p) \/ RenewFails(p) \/ EndBackup(p) \/ ReleaseFails(p)
         \/ Reread(p) /\ token # victim[p]
         \/ RenewRead(p) /\ rpc'[p] = "off" /\ pc'[p] = "release"
         \/ ReleaseRead(p) /\ token # p
         \/ Crash(p) /\ pc[p] # "put"
  PROVE  Retreats(p)
<1>0. TypeOK /\ ClockAt(p) /\ MaintainAt(p) /\ now' = now
  BY DEF BaseInv, ClockInv, MaintainInv, Create, ReadLease, Recheck, ClaimBreak, Verify, Retry, AcquireFails, RenewVerify, RenewFails, EndBackup,
     ReleaseFails, Reread, RenewRead, ReleaseRead, Crash
<1> USE <1>0, ProcTypes
<1>1. CASE Create(p)
  BY <1>1 DEF TypeOK, MaintainAt, Retreats, Entitled, Horizon, Chasing, Breaking, Acquiring, Granted, Create, Goto, object, acquirer, renewer
<1>2. CASE ReadLease(p)
  BY <1>2 DEF TypeOK, MaintainAt, Retreats, Entitled, Horizon, Chasing, Breaking, Acquiring, Granted, ReadLease, Goto, object, acquirer, renewer
<1>3. CASE Recheck(p)
  BY <1>3 DEF TypeOK, MaintainAt, Retreats, Entitled, Horizon, Chasing, Breaking, Acquiring, Granted, Recheck, Goto, object, acquirer, renewer
<1>4. CASE ClaimBreak(p)
  BY <1>4 DEF TypeOK, MaintainAt, Retreats, Entitled, Horizon, Chasing, Breaking, Acquiring, Granted, ClaimBreak, Goto, object, acquirer, renewer
<1>5. CASE Verify(p)
  BY <1>5 DEF TypeOK, MaintainAt, Retreats, Entitled, Horizon, Chasing, Breaking, Acquiring, Granted, Verify, Goto, object, acquirer, renewer
<1>6. CASE Retry(p)
  BY <1>6 DEF TypeOK, MaintainAt, Retreats, Entitled, Horizon, Chasing, Breaking, Acquiring, Granted, Retry, Goto, object, acquirer, renewer
<1>7. CASE AcquireFails(p)
  BY <1>7 DEF TypeOK, MaintainAt, Retreats, Entitled, Horizon, Chasing, Breaking, Acquiring, Granted, AcquireFails, Goto, object, acquirer, renewer
<1>8. CASE RenewVerify(p)
  BY <1>8 DEF TypeOK, MaintainAt, Retreats, Entitled, Horizon, Chasing, Breaking, Acquiring, Granted, RenewVerify, LoseLease, Goto, object, acquirer, renewer
<1>9. CASE RenewFails(p)
  BY <1>9 DEF TypeOK, MaintainAt, Retreats, Entitled, Horizon, Chasing, Breaking, Acquiring, Granted, RenewFails, Goto, object, acquirer, renewer
<1>10. CASE EndBackup(p)
  BY <1>10 DEF TypeOK, MaintainAt, Retreats, Entitled, Horizon, Chasing, Breaking, Acquiring, Granted, EndBackup, Goto, object, acquirer, renewer
<1>11. CASE ReleaseFails(p)
  BY <1>11 DEF TypeOK, MaintainAt, Retreats, Entitled, Horizon, Chasing, Breaking, Acquiring, Granted, ReleaseFails, Goto, object, acquirer, renewer
<1>12. CASE Reread(p) /\ token # victim[p]
  BY <1>12 DEF TypeOK, MaintainAt, Retreats, Entitled, Horizon, Chasing, Breaking, Acquiring, Granted, Reread, Goto, object, acquirer, renewer
<1>13. CASE RenewRead(p) /\ rpc'[p] = "off" /\ pc'[p] = "release"
  BY <1>13 DEF TypeOK, MaintainAt, Retreats, Entitled, Horizon, Chasing, Breaking, Acquiring, Granted, RenewRead, LoseLease, Goto, object, acquirer, renewer
<1>14. CASE ReleaseRead(p) /\ token # p
  BY <1>14 DEF TypeOK, MaintainAt, Retreats, Entitled, Horizon, Chasing, Breaking, Acquiring, Granted, ReleaseRead, Goto, object, acquirer, renewer
<1>15. CASE Crash(p) /\ pc[p] # "put"
  BY <1>15 DEF TypeOK, MaintainAt, Retreats, Entitled, Horizon, Chasing, Breaking, Acquiring, Granted, Crash, Goto, object, acquirer, renewer
<1>. QED  BY <1>1, <1>2, <1>3, <1>4, <1>5, <1>6, <1>7, <1>8, <1>9, <1>10, <1>11, <1>12, <1>13, <1>14, <1>15

\* The lease stays where it was.
LEMMA FrontRetreat ==
  ASSUME BaseInv, BaseInv', PromptWrites, NEW p \in Procs, Step(p), Retreats(p), token # Nobody, NEW c \in Procs, Front(c)
  PROVE  Front(c)'
<1>0. TypeOK /\ now' = now /\ world' = world /\ token' = token /\ expires' = expires /\ released' = released /\ token \in Procs /\ now \in Nat /\ TTL \in Nat
  BY Others, ProcTypes, ConstantTypes DEF BaseInv, Retreats, object, TypeOK
<1>o. \A q \in Procs : q # p =>
        /\ pc'[q] = pc[q] /\ victim'[q] = victim[q] /\ since'[q] = since[q] /\ settleAt'[q] = settleAt[q]
        /\ myExpiry'[q] = myExpiry[q] /\ rpc'[q] = rpc[q] /\ next'[q] = next[q] /\ rsince'[q] = rsince[q]
  BY <1>0, Others
<1>e. \A q \in Procs : Entitled(q)' => Entitled(q)
  BY <1>0, <1>o DEF Retreats, Entitled
<1>d. \A q \in Procs, d \in Nat : Due(q, d)' => Due(q, d)
  BY <1>o DEF Retreats, Due
<1>h. \A q \in Procs, h \in Nat : Horizon(q, h)' /\ now < h => Horizon(q, h)
  BY <1>o DEF Retreats, Horizon
<1>g. ASSUME NEW y \in Procs, NEW k \in Nat, Guarded(c, y, k), now < k PROVE Guarded(c, y, k)'
  BY <1>g, GuardKept DEF Retreats
<1>f. ASSUME Fresh(c), token = c => Live PROVE Fresh(c)'
  BY <1>f, <1>o, <1>0 DEF Retreats, Fresh
<1>1. OnlyEntitled(c)'
  BY <1>e DEF Front, OnlyEntitled
<1>2. LateWrites(c)'
  <2>1. SUFFICES ASSUME NEW y \in Procs, NEW d \in Nat, y # c, Due(y, d)' PROVE Guarded(c, y, d + TTL)' \/ Dropped(c, y)'
    BY <1>0 DEF LateWrites
  <2>2. Due(y, d) /\ now <= d /\ TTL > 0  BY <2>1, <1>d, DueSoon
  <2>3. CASE Guarded(c, y, d + TTL)
    BY <2>2, <2>3, <1>g, <1>0
  <2>4. CASE Dropped(c, y)
    <3>1. c # p  BY <2>4 DEF Dropped, Retreats
    <3>2. Fresh(c)'
      <4>1. d < myExpiry[c]  BY <2>2, <2>4 DEF Dropped
      <4>2. token = c => Live  BY <1>0, <2>2, <2>4, <4>1, ProcTypes, ConstantTypes DEF Dropped, Live
      <4>. QED  BY <2>4, <4>2, <1>f DEF Dropped
    <3>3. ASSUME NEW e \in Nat, Due(y, e)' PROVE e < myExpiry[c] /\ (token \notin {c, y} => Guarded(c, token, e + 1)')
      <4>1. Due(y, e) /\ now <= e  BY <3>3, <1>d, DueSoon
      <4>. QED  BY <4>1, <2>4, <1>g, <1>0 DEF Dropped
    <3>. QED  BY <1>0, <1>o, <2>4, <3>1, <3>2, <3>3 DEF Dropped
  <2>. QED  BY <2>1, <2>2, <2>3, <2>4 DEF Front, LateWrites
<1>3. Overwritten(c)'
  <2>1. SUFFICES ASSUME token # c
        PROVE  /\ \A h \in Nat : Horizon(c, h)' /\ now < h => Guarded(c, token, h)'
               /\ \A d \in Nat : Due(c, d)' => Guarded(c, token, d + 1)'
    BY <1>0 DEF Overwritten
  <2>2. ASSUME NEW h \in Nat, Horizon(c, h)', now < h PROVE Guarded(c, token, h)'
    BY <1>0, <1>g, <1>h, <2>1, <2>2 DEF Front, Overwritten
  <2>3. ASSUME NEW d \in Nat, Due(c, d)' PROVE Guarded(c, token, d + 1)'
    <3>1. Due(c, d) /\ now <= d  BY <2>3, <1>d, DueSoon
    <3>. QED  BY <1>0, <1>g, <2>1, <3>1 DEF Front, Overwritten
  <2>. QED  BY <2>2, <2>3
<1>4. Unchased(c)'
  <2>1. SUFFICES ASSUME Entitled(c)' \/ (rpc'[c] = "put" /\ pc'[c] # "over") PROVE Fresh(c)'
    BY DEF Unchased
  <2>2. Entitled(c) \/ (rpc[c] = "put" /\ pc[c] # "over")
    BY <2>1, <1>e, <1>o DEF Retreats
  <2>. QED  BY <2>2, <1>f, EntitledIsLive DEF Front, Unchased
<1>5. Outlives(c)'
  <2>1. SUFFICES ASSUME pc'[c] = "put", NEW d \in Nat, Due(victim[c], d)' PROVE d < myExpiry[c] /\ c # p
    BY <1>o DEF Outlives, Retreats
  <2>2. c # p /\ pc[c] = "put" /\ victim[c] \in Procs  BY <2>1, <1>o DEF Retreats, BaseInv, ChaseInv, ChaseAt, Chasing, Breaking
  <2>3. PICK v \in Procs : victim[c] = v /\ victim'[c] = v  BY <2>2, <1>o
  <2>4. Due(v, d)'  BY <2>1, <2>3 DEF Due
  <2>5. Due(v, d)  BY <2>4, <1>d
  <2>. QED  BY <2>2, <2>3, <2>5 DEF Front, Outlives
<1>6. OthersOver(c)'
  <2>1. SUFFICES ASSUME NEW y \in Procs, y # c
        PROVE  /\ rpc'[y] = "put" => pc'[y] = "over"
               /\ token = y /\ pc'[y] \in {"held", "release"} => pc'[c] = "put" /\ victim'[c] = y
    BY <1>0 DEF OthersOver
  <2>2. ~Entitled(y)  BY <2>1 DEF Front, OnlyEntitled
  <2>3. CASE y = p
    BY <1>o, <2>1, <2>2, <2>3 DEF Front, OthersOver, Retreats
  <2>4. CASE y # p
    BY <1>o, <2>1, <2>4 DEF Front, OthersOver, Retreats
  <2>. QED  BY <2>3, <2>4
<1>7. Settled(c)'
  <2>1. SUFFICES ASSUME "slow" \notin world, Settle > 0
        PROVE  /\ pc'[c] = "held" /\ Entitled(c)' => token = c /\ Calm(c)'
               /\ pc'[c] = "verify" => Calm(c)' \/ now < settleAt'[c]
    BY <1>0 DEF Settled
  <2>2. Calm(c) => Calm(c)'  BY <1>o DEF Calm, Retreats
  <2>3. CASE c = p
    <3>1. SUFFICES ASSUME pc'[c] = "held", Entitled(c)' PROVE token = c /\ Calm(c)
      BY <2>2, <2>3 DEF Retreats
    <3>2. Entitled(c)  BY <1>e, <3>1
    <3>3. CASE pc[c] = "held"  BY <2>1, <3>2, <3>3 DEF Front, Settled
    <3>4. CASE pc[c] = "verify" /\ token = c /\ now >= settleAt[c]
      BY <2>1, <3>4, <1>0, ProcTypes DEF Front, Settled
    <3>. QED  BY <2>3, <3>1, <3>3, <3>4 DEF Retreats
  <2>4. CASE c # p
    BY <1>e, <1>o, <2>1, <2>2, <2>4 DEF Front, Settled
  <2>. QED  BY <2>3, <2>4
<1>. QED  BY <1>1, <1>2, <1>3, <1>4, <1>5, <1>6, <1>7 DEF Front

-----------------------------------------------------------------------------
(* Succession: the steps by which a lease is written.                        *)

\* The front writes its own lease, or is about to.
Advances(c) ==
    /\ token' = c /\ claimedAt' = claimedAt
    /\ pc'[c] \notin {"put", "reread"} /\ ~(pc[c] = "failed" /\ rpc[c] = "off")
    /\ Entitled(c)' \/ (rpc'[c] = "put" /\ pc'[c] # "over") => Entitled(c) \/ (rpc[c] = "put" /\ pc[c] # "over")
    /\ pc'[c] \in Chasing => pc[c] \in Chasing /\ victim'[c] = victim[c]
    /\ pc'[c] = "held" => pc[c] = "held" /\ (Entitled(c)' => Entitled(c))
    /\ pc'[c] = "verify" => settleAt'[c] = now + Settle

\* The front stays the front when it writes its own lease or is about to.
LEMMA FrontAdvances ==
  ASSUME BaseInv, BaseInv', PromptWrites, NEW c \in Procs, Step(c), Advances(c), token # Nobody, Front(c)
  PROVE  Front(c)'
<1>0. TypeOK /\ now' = now /\ world' = world /\ now \in Nat /\ TTL \in Nat /\ Settle \in Nat
  BY Others, ProcTypes, ConstantTypes DEF BaseInv
<1>o. \A q \in Procs : q # c =>
        /\ pc'[q] = pc[q] /\ victim'[q] = victim[q] /\ since'[q] = since[q]
        /\ myExpiry'[q] = myExpiry[q] /\ rpc'[q] = rpc[q] /\ next'[q] = next[q] /\ rsince'[q] = rsince[q]
  BY <1>0, Others
<1>1. OnlyEntitled(c)'
  BY <1>0, <1>o DEF Front, OnlyEntitled, Entitled, Advances
<1>2. LateWrites(c)'
  <2>1. SUFFICES ASSUME NEW y \in Procs, NEW d \in Nat, y # c, Due(y, d)' PROVE Guarded(c, y, d + TTL)'
    BY <1>0 DEF LateWrites
  <2>2. Due(y, d)  BY <2>1, <1>o DEF Due
  <2>3. Guarded(c, y, d + TTL)  BY <2>1, <2>2 DEF Front, LateWrites, Dropped, Advances
  <2>. QED  BY <1>0, <2>2, <2>3, DueSoon, GuardKept DEF Advances
<1>3. Overwritten(c)'
  BY DEF Overwritten, Advances
<1>4. Unchased(c)'
  BY <1>o DEF Unchased, Front, Advances, Fresh
<1>5. Outlives(c)'
  BY DEF Outlives, Advances
<1>6. OthersOver(c)'
  BY <1>o DEF Front, OthersOver, Advances
<1>7. Settled(c)'
  BY <1>0, <1>o DEF Front, Settled, Calm, Advances
<1>. QED  BY <1>1, <1>2, <1>3, <1>4, <1>5, <1>6, <1>7 DEF Front

\* The overwrite, the re-puts, Renew and the front's own release.
LEMMA AdvanceSteps ==
  ASSUME BaseInv, NEW c \in Procs, Front(c),
         \/ PutLease(c)
         \/ RenewRead(c) /\ rpc'[c] = "put"
         \/ RenewPut(c)
         \/ ReleaseRead(c) /\ token = c
         \/ PutTombstone(c)
  PROVE  Advances(c)
<1>0. TypeOK /\ ClockAt(c) /\ MaintainAt(c) /\ now' = now
  BY DEF BaseInv, ClockInv, MaintainInv, PutLease, RenewRead, RenewPut, ReleaseRead, PutTombstone
<1> USE <1>0, ProcTypes
<1>1. CASE PutLease(c)
  BY <1>1 DEF TypeOK, PutLease, Advances, Entitled, Granted, Chasing, Breaking, Goto, Store, renewer, MaintainAt
<1>2. CASE RenewRead(c) /\ rpc'[c] = "put"
  <2>1. token = c /\ now + 2 * Settle < expires /\ pc'[c] = "held" /\ pc[c] = "held"  BY <1>2, RenewReadEffect
  <2>2. Entitled(c)  BY <2>1, ConstantTypes DEF Entitled
  <2>. QED  BY <1>2, <2>1, <2>2 DEF RenewRead, Advances, object, Chasing, Breaking
<1>3. CASE RenewPut(c)
  BY <1>3 DEF TypeOK, RenewPut, Advances, Entitled, Chasing, Breaking, Granted, Store, acquirer, MaintainAt
<1>4. CASE ReleaseRead(c) /\ token = c
  BY <1>4 DEF TypeOK, ReleaseRead, Advances, Entitled, Chasing, Breaking, Granted, Goto, object, renewer
<1>5. CASE PutTombstone(c)
  BY <1>5 DEF TypeOK, PutTombstone, StoreTombstone, Advances, Entitled, Chasing, Breaking, Granted, Store, Goto
<1>. QED  BY <1>1, <1>2, <1>3, <1>4, <1>5

\* A write of a process that has lost the lease lands over the front's lease.
LEMMA FrontLate ==
  ASSUME BaseInv, BaseInv', PromptWrites, NEW y \in Procs, Step(y), token # Nobody, NEW c \in Procs, Front(c), y # c,
         token' = y, claimedAt' = claimedAt, pc[y] # "put", pc'[y] = "over", rpc'[y] # "put",
         NEW d \in Nat, Due(y, d)
  PROVE  Front(c)'
<1>0. TypeOK /\ now' = now /\ world' = world /\ now \in Nat /\ TTL \in Nat /\ Settle \in Nat
  BY Others, ProcTypes, ConstantTypes DEF BaseInv
<1>o. \A q \in Procs : q # y =>
        /\ pc'[q] = pc[q] /\ victim'[q] = victim[q] /\ since'[q] = since[q] /\ settleAt'[q] = settleAt[q]
        /\ myExpiry'[q] = myExpiry[q] /\ rpc'[q] = rpc[q] /\ next'[q] = next[q] /\ rsince'[q] = rsince[q]
  BY <1>0, Others
<1>n. now <= d /\ d < now + TTL /\ TTL > 0  BY DueSoon
<1>e. \A q \in Procs : Entitled(q)' => Entitled(q)
  BY <1>0, <1>o DEF Entitled, Granted
<1>d. \A q \in Procs, e \in Nat : Due(q, e)' => Due(q, e) /\ q # y
  BY <1>o DEF Due
<1>g. ASSUME NEW z \in Procs, NEW k \in Nat, Guarded(c, z, k), now < k PROVE Guarded(c, z, k)'
  BY <1>g, GuardKept
<1>s. ASSUME NEW k \in Nat, k <= d + TTL, Guarded(c, y, d + TTL) PROVE Guarded(c, y, k)'
  <2>1. Guarded(c, y, d + TTL)'  BY <1>0, <1>n, <1>s, <1>g
  <2>2. PICK m \in Generations : claimedAt'[y][m] # Never /\ d + TTL <= claimedAt'[y][m] + Grace  BY <2>1 DEF Guarded
  <2>3. claimedAt'[y][m] \in Nat  BY <2>2 DEF BaseInv, TypeOK
  <2>4. k <= claimedAt'[y][m] + Grace  BY <1>0, <1>s, <2>2, <2>3, ConstantTypes
  <2>. QED  BY <2>1, <2>2, <2>4 DEF Guarded
<1>1. OnlyEntitled(c)'
  BY <1>e DEF Front, OnlyEntitled
<1>2. LateWrites(c)'
  <2>1. SUFFICES ASSUME NEW z \in Procs, NEW e \in Nat, z # c, Due(z, e)' PROVE Guarded(c, z, e + TTL)' \/ Dropped(c, z)'
    BY <1>0 DEF LateWrites
  <2>2. Due(z, e) /\ z # y /\ now <= e  BY <2>1, <1>d, DueSoon
  <2>3. CASE Guarded(c, z, e + TTL)
    BY <1>0, <1>g, <1>n, <2>2, <2>3
  <2>4. CASE Dropped(c, z)
    <3>1. Guarded(c, y, d + TTL)  BY <2>2, <2>4 DEF Front, LateWrites, Dropped
    <3>2. ASSUME NEW f \in Nat, Due(z, f)' PROVE f < myExpiry[c] /\ Guarded(c, y, f + 1)'
      <4>1. Due(z, f) /\ f < now + TTL  BY <3>2, <1>d, DueSoon
      <4>2. f + 1 \in Nat /\ f + 1 <= d + TTL  BY <4>1, <1>n, <1>0
      <4>. QED  BY <2>4, <3>1, <4>1, <4>2, <1>s DEF Dropped
    <3>3. Fresh(c)'  BY <2>4, <1>o DEF Dropped, Fresh, Chasing, Breaking
    <3>. QED  BY <1>o, <2>4, <3>2, <3>3 DEF Dropped
  <2>. QED  BY <2>1, <2>2, <2>3, <2>4 DEF Front, LateWrites
<1>3. Overwritten(c)'
  <2>1. CASE Guarded(c, y, d + TTL)
    <3>1. ASSUME NEW h \in Nat, Horizon(c, h)' PROVE Guarded(c, y, h)'
      <4>1. ClockAt(c)  BY DEF BaseInv, ClockInv
      <4>2. h <= now + TTL  BY <1>0, <1>o, <3>1, <4>1 DEF Horizon, ClockAt
      <4>. QED  BY <1>s, <1>n, <1>0, <2>1, <4>2
    <3>2. ASSUME NEW e \in Nat, Due(c, e)' PROVE Guarded(c, y, e + 1)'
      <4>1. Due(c, e) /\ e < now + TTL  BY <3>2, <1>d, DueSoon
      <4>2. e + 1 \in Nat /\ e + 1 <= d + TTL  BY <4>1, <1>n, <1>0
      <4>. QED  BY <4>2, <2>1, <1>s
    <3>. QED  BY <3>1, <3>2 DEF Overwritten
  <2>2. CASE Dropped(c, y)
    BY <1>o, <2>2 DEF Dropped, Overwritten, Horizon, Due, Granted
  <2>. QED  BY <2>1, <2>2 DEF Front, LateWrites
<1>4. Unchased(c)'
  BY <1>o, <1>e DEF Front, Unchased, Fresh, Chasing, Breaking
<1>5. Outlives(c)'
  <2>1. SUFFICES ASSUME pc[c] = "put", NEW e \in Nat, Due(victim[c], e)' PROVE e < myExpiry[c]
    BY <1>o DEF Outlives
  <2>2. PICK v \in Procs : victim[c] = v /\ victim'[c] = v
    BY <2>1, <1>o DEF BaseInv, ChaseInv, ChaseAt, Chasing, Breaking
  <2>3. Due(v, e)'  BY <2>1, <2>2 DEF Due
  <2>4. Due(v, e)  BY <2>3, <1>d
  <2>. QED  BY <2>1, <2>2, <2>4 DEF Front, Outlives
<1>6. OthersOver(c)'
  BY <1>o DEF Front, OthersOver
<1>7. Settled(c)'
  <2>1. ~Calm(c)  BY DEF Calm, Due
  <2>. QED  BY <1>0, <1>o, <1>e, <2>1 DEF Front, Settled
<1>. QED  BY <1>1, <1>2, <1>3, <1>4, <1>5, <1>6, <1>7 DEF Front

\* A victim reads its own record just before it is overwritten: the tombstone it
\* is about to write is a late one.
LEMMA FrontTombs ==
  ASSUME BaseInv, BaseInv', PromptWrites, NEW y \in Procs, Step(y), ReleaseRead(y), token = y, NEW c \in Procs, Front(c), y # c
  PROVE  Front(c)'
<1>0. /\ TypeOK /\ now' = now /\ world' = world /\ now \in Nat /\ TTL \in Nat /\ Grace \in Nat
      /\ BreakDelay \in Nat /\ ReleaseDelay \in Nat /\ since[c] \in Nat /\ myExpiry[c] \in Nat
  BY Others, ProcTypes, ConstantTypes DEF BaseInv
<1>o. \A q \in Procs : q # y =>
        /\ pc'[q] = pc[q] /\ victim'[q] = victim[q] /\ since'[q] = since[q] /\ settleAt'[q] = settleAt[q]
        /\ myExpiry'[q] = myExpiry[q] /\ rpc'[q] = rpc[q] /\ next'[q] = next[q] /\ rsince'[q] = rsince[q]
  BY <1>0, Others
<1>p. pc[y] = "release" /\ pc'[y] = "tomb" /\ since'[y] = now /\ UNCHANGED <<object, claimedAt, victim, renewer>>
  BY <1>0 DEF ReleaseRead, Goto, TypeOK
<1>v. pc[c] = "put" /\ victim[c] = y /\ rpc[y] # "put"
  BY <1>p DEF Front, OthersOver
<1>t. now <= since[c] + BreakDelay /\ since[c] + TTL <= myExpiry[c]
  BY <1>v DEF BaseInv, ClockInv, ClockAt, Breaking, Granted
<1>d. \A q \in Procs, e \in Nat : Due(q, e)' => (q # y /\ Due(q, e)) \/ (q = y /\ e = now + ReleaseDelay)
  BY <1>o, <1>p, <1>v DEF Due, renewer
<1>g. ASSUME NEW z \in Procs, NEW k \in Nat, Guarded(c, z, k), now < k PROVE Guarded(c, z, k)'
  BY <1>g, <1>p, GuardKept
<1>e. \A q \in Procs : Entitled(q)' => Entitled(q)
  BY <1>0, <1>o, <1>p DEF Entitled, Granted, object, renewer
<1>1. OnlyEntitled(c)'
  BY <1>e DEF Front, OnlyEntitled
<1>2. LateWrites(c)'
  <2>1. SUFFICES ASSUME NEW z \in Procs, NEW e \in Nat, z # c, Due(z, e)' PROVE Guarded(c, z, e + TTL)'
    BY <1>0 DEF LateWrites
  <2>2. CASE z # y
    <3>1. Due(z, e) /\ now <= e /\ TTL > 0  BY <2>1, <2>2, <1>d, DueSoon
    <3>2. Guarded(c, z, e + TTL)  BY <2>1, <3>1, <1>v DEF Front, LateWrites, Dropped
    <3>. QED  BY <1>0, <1>g, <3>1, <3>2
  <2>3. CASE z = y
    <3>1. e + TTL \in Nat /\ e + TTL <= since[c] + Grace /\ now < e + TTL
      BY <1>0, <1>d, <1>t, <2>1, <2>3 DEF PromptWrites
    <3>2. Guarded(c, y, e + TTL)  BY <1>v, <3>1, BreakerGuards DEF Breaking
    <3>. QED  BY <1>g, <2>3, <3>1, <3>2
  <2>. QED  BY <2>2, <2>3
<1>3. Overwritten(c)'
  <2>1. \A h \in Nat : Horizon(c, h)' => Horizon(c, h)  BY <1>o DEF Horizon
  <2>2. ASSUME NEW h \in Nat, Horizon(c, h)', now < h PROVE Guarded(c, y, h)'
    BY <1>g, <2>1, <2>2 DEF Front, Overwritten
  <2>3. ASSUME NEW e \in Nat PROVE ~Due(c, e)'
    <3>1. rpc[c] = "off"  BY <1>v DEF BaseInv, MaintainInv, MaintainAt
    <3>. QED  BY <3>1, <1>o, <1>v DEF Due
  <2>. QED  BY <1>0, <1>p, <2>2, <2>3 DEF Overwritten, object
<1>4. Unchased(c)'
  BY <1>o, <1>e, <1>p DEF Front, Unchased, Fresh, Chasing, Breaking
<1>5. Outlives(c)'
  <2>1. SUFFICES ASSUME NEW e \in Nat, Due(y, e)' PROVE e < myExpiry[c]
    BY <1>o, <1>v DEF Outlives, Due
  <2>. QED  BY <1>0, <1>d, <1>t, <2>1 DEF PromptWrites
<1>6. OthersOver(c)'
  BY <1>o, <1>p, <1>v DEF Front, OthersOver, object, renewer
<1>7. Settled(c)'
  BY <1>o, <1>v DEF Settled
<1>. QED  BY <1>1, <1>2, <1>3, <1>4, <1>5, <1>6, <1>7 DEF Front

\* The overwrite landed and reported an error.
LEMMA FrontLands ==
  ASSUME BaseInv, BaseInv', PromptWrites, NEW c \in Procs, Step(c), PutFails(c), token' = c, released' = FALSE,
         expires' = myExpiry[c], Front(c)
  PROVE  Front(c)'
<1>0. TypeOK /\ now' = now /\ world' = world /\ now \in Nat /\ TTL \in Nat
  BY Others, ProcTypes, ConstantTypes DEF BaseInv
<1>o. \A q \in Procs : q # c =>
        /\ pc'[q] = pc[q] /\ victim'[q] = victim[q] /\ since'[q] = since[q]
        /\ myExpiry'[q] = myExpiry[q] /\ rpc'[q] = rpc[q] /\ next'[q] = next[q] /\ rsince'[q] = rsince[q]
  BY <1>0, Others
<1>p. pc[c] = "put" /\ pc'[c] = "failed" /\ rpc[c] = "off" /\ rpc'[c] = "off" /\ UNCHANGED <<victim, myExpiry>>
  BY <1>0 DEF PutFails, Goto, TypeOK, renewer, BaseInv, MaintainInv, MaintainAt
<1>1. OnlyEntitled(c)'
  BY <1>0, <1>o, <1>p DEF Front, OnlyEntitled, Entitled, Granted
<1>2. LateWrites(c)'
  <2>1. SUFFICES ASSUME NEW y \in Procs, NEW d \in Nat, y # c, Due(y, d)' PROVE Guarded(c, y, d + TTL)' \/ Dropped(c, y)'
    BY <1>0 DEF LateWrites
  <2>2. \A e \in Nat : Due(y, e)' => Due(y, e)  BY <2>1, <1>o DEF Due
  <2>3. CASE y # victim[c]
    <3>1. Guarded(c, y, d + TTL) /\ now <= d /\ TTL > 0  BY <1>p, <2>1, <2>2, DueSoon DEF Front, LateWrites, Dropped
    <3>. QED  BY <1>0, <2>3, <3>1, GuardKept
  <2>4. CASE y = victim[c]
    <3>1. Fresh(c)  BY <1>p DEF Front, Unchased, Entitled, Granted
    <3>2. Fresh(c)'  BY <3>1, <1>o, <1>p DEF Fresh, Chasing, Breaking
    <3>. QED  BY <1>p, <2>2, <2>4, <3>2 DEF Dropped, Front, Outlives
  <2>. QED  BY <2>3, <2>4
<1>. QED  BY <1>1, <1>2, <1>o, <1>p DEF Front, Overwritten, Unchased, Entitled, Granted, Outlives, OthersOver, Settled

\* The overwrite did not land: the lease never passed to the front, and is again
\* its victim's, whose time is over.
LEMMA FrontWithdraws ==
  ASSUME BaseInv, BaseInv', PromptWrites, NEW c \in Procs, Step(c), pc[c] = "put", pc'[c] \in {"failed", "dead"},
         UNCHANGED <<object, victim, since>>, rpc'[c] = "off", token # Nobody, Front(c)
  PROVE  victim[c] \in Procs /\ Front(victim[c])'
<1>0. TypeOK /\ now' = now /\ world' = world /\ now \in Nat /\ TTL \in Nat /\ token \in Procs
  BY Others, ProcTypes, ConstantTypes DEF BaseInv, TypeOK
<1>o. \A q \in Procs : q # c =>
        /\ pc'[q] = pc[q] /\ victim'[q] = victim[q] /\ since'[q] = since[q]
        /\ myExpiry'[q] = myExpiry[q] /\ rpc'[q] = rpc[q] /\ next'[q] = next[q] /\ rsince'[q] = rsince[q]
  BY <1>0, Others
<1>v. PICK v \in Procs : v = victim[c] /\ v # c
  BY DEF BaseInv, ChaseInv, ChaseAt, Chasing, Breaking
<1>c. token # c /\ rpc[c] = "off"  BY DEF BaseInv, RecordInv, UnstoredAt, Unstored, MaintainInv, MaintainAt
<1>e. \A q \in Procs : ~Entitled(q)'
  BY <1>0, <1>o DEF Front, OnlyEntitled, Entitled, Granted, object
<1>d. \A q \in Procs, e \in Nat : Due(q, e)' => Due(q, e) /\ q # c
  BY <1>o DEF Due
<1>g. ASSUME NEW y \in Procs, NEW k \in Nat, NEW j \in Nat, Guarded(c, y, j), now < k, k <= j, y # v PROVE Guarded(v, y, k)'
  <2>1. Guarded(c, y, j)'  BY <1>g, <1>v, <1>0, GuardKept
  <2>2. PICK m \in Generations : claimedAt'[y][m] # Never /\ j <= claimedAt'[y][m] + Grace  BY <2>1 DEF Guarded
  <2>3. claimedAt'[y][m] \in Nat  BY <2>2 DEF BaseInv, TypeOK
  <2>4. k <= claimedAt'[y][m] + Grace  BY <1>g, <2>2, <2>3, ConstantTypes
  <2>. QED  BY <2>1, <2>2, <2>4 DEF Guarded, Breaking
<1>1. OnlyEntitled(v)'
  BY <1>e DEF OnlyEntitled
<1>2. LateWrites(v)'
  <2>1. SUFFICES ASSUME NEW y \in Procs, NEW d \in Nat, y # v, Due(y, d)' PROVE Guarded(v, y, d + TTL)'
    BY <1>0 DEF LateWrites
  <2>2. Due(y, d) /\ y # c /\ now <= d /\ TTL > 0  BY <2>1, <1>d, DueSoon
  <2>3. Guarded(c, y, d + TTL)  BY <2>2 DEF Front, LateWrites, Dropped
  <2>. QED  BY <1>0, <1>g, <2>1, <2>2, <2>3
<1>3. Overwritten(v)'
  <2>1. SUFFICES ASSUME token # v
        PROVE  /\ \A h \in Nat : ~(Horizon(v, h)' /\ now < h)
               /\ \A d \in Nat : Due(v, d)' => Guarded(v, token, d + 1)'
    BY <1>0 DEF Overwritten, object
  <2>2. \A h \in Nat : ~(Horizon(v, h)' /\ now < h)
    <3>1. ~Entitled(v)  BY <1>v DEF Front, OnlyEntitled
    <3>. QED  BY <3>1, <1>o, <1>v DEF Horizon, Entitled
  <2>3. ASSUME NEW d \in Nat, Due(v, d)' PROVE Guarded(v, token, d + 1)'
    <3>1. Due(v, d) /\ now <= d  BY <2>3, <1>d, DueSoon
    <3>2. d < myExpiry[c] /\ myExpiry[c] \in Nat  BY <3>1, <1>v, <1>0, ProcTypes DEF Front, Outlives
    <3>3. Horizon(c, myExpiry[c])  BY DEF Horizon, Granted
    <3>4. now < myExpiry[c]  BY <3>1, <3>2, <1>0
    <3>5. Guarded(c, token, myExpiry[c])  BY <3>2, <3>3, <3>4, <1>c DEF Front, Overwritten
    <3>6. PICK t \in Procs : t = token /\ token' = t  BY <1>0 DEF object
    <3>7. Guarded(v, t, d + 1)'  BY <1>0, <1>g, <2>1, <3>1, <3>2, <3>5, <3>6
    <3>. QED  BY <3>6, <3>7 DEF Guarded
  <2>. QED  BY <2>2, <2>3
<1>4. Unchased(v)'
  BY <1>e, <1>o, <1>v DEF Front, OthersOver, Unchased
<1>5. Outlives(v)'
  BY <1>e DEF Outlives, Entitled, Granted
<1>6. OthersOver(v)'
  BY <1>o, <1>v, <1>c DEF Front, OthersOver, object
<1>7. Settled(v)'
  <2>1. pc'[v] # "verify"  BY <1>e DEF Entitled, Granted
  <2>. QED  BY <2>1, <1>e DEF Settled
<1>. QED  BY <1>v, <1>1, <1>2, <1>3, <1>4, <1>5, <1>6, <1>7 DEF Front

\* The lease passes: an acquirer with a claim in hand finds its victim's lease
\* still there, when whoever had it last is through with it.
LEMMA FrontPasses ==
  ASSUME BaseInv, BaseInv', PromptWrites, NEW p \in Procs, Step(p), Reread(p), token = victim[p], NEW c \in Procs, Front(c)
  PROVE  Front(p)'
<1>0. /\ TypeOK /\ now' = now /\ world' = world /\ now \in Nat /\ TTL \in Nat /\ Grace \in Nat /\ BreakDelay \in Nat
      /\ RenewDelay \in Nat /\ ReleaseDelay \in Nat /\ since[p] \in Nat
  BY Others, ProcTypes, ConstantTypes DEF BaseInv
<1>o. \A q \in Procs : q # p =>
        /\ pc'[q] = pc[q] /\ victim'[q] = victim[q] /\ since'[q] = since[q]
        /\ myExpiry'[q] = myExpiry[q] /\ rpc'[q] = rpc[q] /\ next'[q] = next[q] /\ rsince'[q] = rsince[q]
  BY <1>0, Others
<1>p. /\ pc[p] = "reread" /\ pc'[p] = "put" /\ myExpiry'[p] = now + TTL /\ rpc[p] = "off"
      /\ UNCHANGED <<object, claimedAt, victim, since, renewer>>
  BY <1>0 DEF Reread, Goto, TypeOK, BaseInv, MaintainInv, MaintainAt
<1>v. PICK v \in Procs : v = victim[p] /\ v = token /\ v # p /\ token' = v /\ victim'[p] = v
  BY <1>p DEF BaseInv, ChaseInv, ChaseAt, Chasing, Breaking, object
<1>t. now <= since[p] + BreakDelay
  BY <1>p DEF BaseInv, ClockInv, ClockAt, Breaking
\* p's break is in the way of any other guard on the victim's lease
<1>n. ASSUME NEW k, Guarded(c, v, k) PROVE FALSE
  BY <1>n, <1>p, <1>v DEF Guarded, Breaking
<1>d. \A q \in Procs, e \in Nat : Due(q, e)' => Due(q, e) /\ q # p
  BY <1>o, <1>p DEF Due, renewer
\* whoever had the lease before is through with it
<1>f. c # p => ~Entitled(c) /\ ~(rpc[c] = "put" /\ pc[c] # "over") /\ \A e \in Nat : Due(c, e) => v = c
  <2>1. SUFFICES ASSUME c # p PROVE ~Entitled(c) /\ ~(rpc[c] = "put" /\ pc[c] # "over") /\ \A e \in Nat : Due(c, e) => v = c
    OBVIOUS
  <2>2. ASSUME NEW e \in Nat, Due(c, e), v # c PROVE FALSE
    BY <2>2, <1>n, <1>v DEF Front, Overwritten
  <2>3. v = c => ~Fresh(c)  BY <1>p, <1>v DEF Fresh, Chasing, Breaking
  <2>4. ~(rpc[c] = "put" /\ pc[c] # "over")
    <3>1. SUFFICES ASSUME rpc[c] = "put", pc[c] # "over" PROVE FALSE  OBVIOUS
    <3>2. PICK e \in Nat : e = rsince[c] + RenewDelay  BY <1>0, ProcTypes
    <3>3. Due(c, e) /\ v # c  BY <3>1, <3>2, <2>3 DEF Due, Front, Unchased
    <3>. QED  BY <3>3, <2>2
  <2>5. ~Entitled(c)
    <3>1. SUFFICES ASSUME Entitled(c) PROVE FALSE  OBVIOUS
    <3>2. v # c  BY <3>1, <2>3 DEF Front, Unchased
    <3>3. ASSUME NEW h \in Nat, Horizon(c, h), now < h PROVE FALSE
      BY <3>2, <3>3, <1>n, <1>v DEF Front, Overwritten
    <3>4. myExpiry[c] \in Nat /\ next[c] \in Nat  BY <1>0, ProcTypes
    <3>5. CASE pc[c] \in Granted  BY <3>3, <3>4, <3>5, GrantedIsLive DEF Horizon
    <3>. QED  BY <3>1, <3>2, <3>3, <3>4, <3>5, <1>v DEF Entitled, Horizon
  <2>. QED  BY <2>2, <2>4, <2>5
<1>g. ASSUME NEW k \in Nat, now < k, k <= since[p] + Grace PROVE Guarded(p, v, k)'
  <2>1. PICK w \in Procs : w = victim'[p] /\ w = v  BY <1>v
  <2>2. claimedAt[v][gen[p]] = since[p] /\ since[p] # Never /\ gen[p] \in Generations
    BY <1>p, <1>v, BreakersClaimIsYoung DEF BaseInv, Breaking
  <2>3. \A r \in Procs : pc'[r] \in Breaking /\ victim'[r] = v => r = p
    BY <1>p, <1>v DEF BaseInv, OneBreaks, Breaking
  <2>. QED  BY <1>g, <1>p, <2>2, <2>3 DEF Guarded
<1>1. OnlyEntitled(p)'
  <2>1. ASSUME NEW q \in Procs, q # p, Entitled(q)' PROVE FALSE
    <3>1. Entitled(q)  BY <2>1, <1>o, <1>0, <1>p DEF Entitled, object
    <3>. QED  BY <2>1, <3>1, <1>f DEF Front, OnlyEntitled
  <2>. QED  BY <2>1 DEF OnlyEntitled
<1>2. LateWrites(p)'
  <2>1. SUFFICES ASSUME NEW y \in Procs, NEW d \in Nat, y # p, Due(y, d)' PROVE Guarded(p, y, d + TTL)'
    BY <1>0 DEF LateWrites
  <2>2. Due(y, d) /\ now <= d /\ d + TTL + BreakDelay <= now + Grace /\ TTL > 0  BY <2>1, <1>d, DueSoon
  <2>3. CASE y = v
    BY <1>0, <1>t, <1>g, <2>2, <2>3
  <2>4. CASE y # v
    <3>1. y # c  BY <2>1, <2>2, <2>4, <1>f
    <3>2. ~Dropped(c, y)
      <4>1. SUFFICES ASSUME Dropped(c, y) PROVE FALSE  OBVIOUS
      <4>2. v # c  BY <4>1, <1>p, <1>v DEF Dropped, Fresh, Chasing, Breaking
      <4>. QED  BY <4>1, <4>2, <2>2, <2>4, <1>n, <1>v DEF Dropped
    <3>3. Guarded(c, y, d + TTL)  BY <2>2, <3>1, <3>2 DEF Front, LateWrites
    <3>4. \A r \in Procs : pc'[r] \in Breaking /\ victim'[r] = y => r = p
      <4>1. SUFFICES ASSUME NEW r \in Procs, r # p, pc[r] \in Breaking, victim[r] = y PROVE FALSE  BY <1>o
      <4>2. r = c /\ pc[c] # "reread"  BY <4>1, <3>3 DEF Guarded
      <4>. QED  BY <4>1, <4>2, <1>f DEF Entitled, Granted, Breaking
    <3>. QED  BY <1>p, <3>3, <3>4 DEF Guarded
  <2>. QED  BY <2>3, <2>4
<1>3. Overwritten(p)'
  <2>1. ASSUME NEW h \in Nat, Horizon(p, h)' PROVE Guarded(p, v, h)'
    <3>1. h = now + TTL  BY <2>1, <1>p DEF Horizon
    <3>2. now < h /\ h <= since[p] + Grace  BY <3>1, <1>t, <1>0 DEF PromptWrites
    <3>. QED  BY <3>2, <1>g
  <2>2. ASSUME NEW d \in Nat PROVE ~Due(p, d)'
    BY <1>d
  <2>3. ASSUME NEW h \in Nat, Horizon(p, h)' PROVE Guarded(p, token, h)'
    BY <2>1, <2>3, <1>v DEF Guarded
  <2>. QED  BY <2>2, <2>3 DEF Overwritten
<1>4. Unchased(p)'
  BY <1>p DEF BaseInv, RecordInv, UnstoredAt, Unstored, Unchased, Fresh
<1>5. Outlives(p)'
  <2>1. SUFFICES ASSUME NEW d \in Nat, Due(v, d)' PROVE d < now + TTL
    BY <1>p, <1>v DEF Outlives, Due
  <2>. QED  BY <2>1, <1>d, DueSoon
<1>6. OthersOver(p)'
  <2>1. ASSUME NEW y \in Procs, y # p, rpc'[y] = "put" PROVE pc'[y] = "over"
    BY <1>o, <1>f, <2>1 DEF Front, OthersOver
  <2>. QED  BY <2>1, <1>p, <1>v DEF OthersOver
<1>7. Settled(p)'
  BY <1>p DEF Settled
<1>. QED  BY <1>1, <1>2, <1>3, <1>4, <1>5, <1>6, <1>7 DEF Front

\* Time passes.
LEMMA FrontTicks ==
  ASSUME BaseInv, BaseInv', Tick, token # Nobody, NEW c \in Procs, Front(c)
  PROVE  Front(c)'
<1>0. now' = now + 1 /\ UNCHANGED <<world, object, claimedAt, acquirer, myExpiry, renewer>> /\ now \in Nat
  BY ProcTypes DEF Tick, BaseInv, TypeOK
<1>t. \A q \in Procs : myExpiry[q] \in Nat /\ next[q] \in Nat /\ expires \in Nat  BY ProcTypes DEF BaseInv
<1>e. \A q \in Procs : Entitled(q)' => Entitled(q)
  BY <1>0, <1>t DEF Entitled, object, acquirer, renewer
<1>d. \A q \in Procs, d \in Nat : Due(q, d)' <=> Due(q, d)
  BY <1>0 DEF Due, acquirer, renewer
<1>g. \A y, k : Guarded(c, y, k)' <=> Guarded(c, y, k)
  BY <1>0 DEF Guarded, acquirer
<1>1. OnlyEntitled(c)' /\ Unchased(c)'
  BY <1>e, <1>0 DEF Front, OnlyEntitled, Unchased, Fresh, acquirer, renewer
<1>2. LateWrites(c)'
  <2>1. \A y \in Procs : Dropped(c, y) => Dropped(c, y)'
    <3>1. Fresh(c)' <=> Fresh(c)  BY <1>0 DEF Fresh, acquirer
    <3>. QED  BY <3>1, <1>0, <1>d, <1>g DEF Dropped, object, acquirer, renewer
  <2>. QED  BY <2>1, <1>d, <1>g DEF Front, LateWrites
<1>3. Overwritten(c)'
  <2>1. \A h \in Nat : Horizon(c, h)' /\ now' < h => Horizon(c, h) /\ now < h
    BY <1>0 DEF Horizon, acquirer, renewer
  <2>. QED  BY <2>1, <1>0, <1>d, <1>g DEF Front, Overwritten, object
<1>4. Outlives(c)' /\ OthersOver(c)'
  BY <1>0 DEF Front, Outlives, OthersOver, Due, object, acquirer, renewer
<1>5. Settled(c)'
  <2>1. SUFFICES ASSUME "slow" \notin world, Settle > 0 PROVE Settled(c)'  BY <1>0 DEF Settled
  <2>2. Calm(c)
    <3>1. SUFFICES ASSUME NEW y \in Procs, y # c PROVE rpc[y] # "put" /\ pc[y] # "tomb"  BY DEF Calm
    <3>2. rsince[y] <= now /\ since[y] <= now /\ rsince[y] \in Nat /\ since[y] \in Nat
      BY ProcTypes DEF BaseInv, ClockInv, ClockAt
    <3>. QED  BY <1>0, <2>1, <3>2 DEF Tick, WritesArePrompt, Delay
  <2>3. Calm(c)'  BY <2>2, <1>0 DEF Calm, acquirer, renewer
  <2>. QED  BY <2>1, <2>3, <1>0, <1>e DEF Front, Settled, object, acquirer
<1>. QED  BY <1>1, <1>2, <1>3, <1>4, <1>5 DEF Front

\* The first lease of a deployment.
LEMMA FrontBegins ==
  ASSUME BaseInv, BaseInv', NEW p \in Procs, Step(p), token = Nobody, NoneYet
  PROVE  (token' = p /\ Front(p)') \/ (token' = Nobody /\ NoneYet')
<1>0. TypeOK  BY DEF BaseInv
<1>o. \A q \in Procs : q # p => pc'[q] = pc[q] /\ rpc'[q] = rpc[q]
  BY <1>0, Others
<1>n. pc[p] \in {"create", "failed", "dead"} /\ rpc[p] = "off"  BY DEF NoneYet
<1>1. Create(p) \/ AcquireFails(p) \/ Crash(p)
  BY <1>n DEF Step, AcquireStep, ReadLease, Recheck, ClaimBreak, Reread, PutLease, Verify, Retry, PutFails, RenewRead, RenewPut,
     RenewVerify, RenewFails, EndBackup, ReleaseRead, PutTombstone, ReleaseFails
<1>2. CASE Create(p)
  <2>1. token' = p /\ pc'[p] = "held" /\ rpc'[p] = "idle"
    BY <1>0, <1>2 DEF Create, Store, Goto, TypeOK
  <2>. QED  BY <1>o, <2>1 DEF NoneYet, Front, OnlyEntitled, LateWrites, Overwritten, Unchased, Outlives, OthersOver, Settled, Calm, Fresh,
            Entitled, Due, Granted, Chasing, Breaking
<1>3. CASE AcquireFails(p) \/ Crash(p)
  <2>1. token' = Nobody /\ pc'[p] \in {"failed", "dead"} /\ rpc'[p] = "off"
    BY <1>0, <1>3, <1>n DEF AcquireFails, Crash, Goto, TypeOK, object, renewer, Acquiring
  <2>. QED  BY <2>1, <1>o DEF NoneYet
<1>. QED  BY <1>1, <1>2, <1>3

-----------------------------------------------------------------------------
(* The theorems.                                                             *)

\* The succession is kept by every step.
LEMMA SuccessionKept ==
  ASSUME LeaseInv, BaseInv', [Next]_vars, PromptWrites, NoDoctor
  PROVE  SuccessionInv'
<1>0. BaseInv /\ TypeOK /\ Nobody \notin Procs  BY ConstantTypes DEF LeaseInv, BaseInv
<1>1. CASE UNCHANGED vars
  <2>0. UNCHANGED <<world, now, object, claimedAt, acquirer, myExpiry, renewer>>  BY <1>1 DEF vars
  <2>1. ASSUME NEW c \in Procs, Front(c) PROVE Front(c)'
    <3>d. \A q \in Procs, d \in Nat : Due(q, d)' <=> Due(q, d)  BY <2>0 DEF Due, acquirer, renewer
    <3>g. \A y, k : Guarded(c, y, k)' <=> Guarded(c, y, k)  BY <2>0 DEF Guarded, acquirer
    <3>e. \A q \in Procs : Entitled(q)' <=> Entitled(q)  BY <2>0 DEF Entitled, object, acquirer, renewer
    <3>f. Fresh(c)' <=> Fresh(c)  BY <2>0 DEF Fresh, acquirer
    <3>1. \A y \in Procs : Dropped(c, y) => Dropped(c, y)'
      BY <2>0, <3>d, <3>g, <3>f DEF Dropped, object, acquirer, renewer
    <3>2. LateWrites(c)'  BY <2>1, <3>1, <3>d, <3>g DEF Front, LateWrites
    <3>3. \A h \in Nat : Horizon(c, h)' => Horizon(c, h)  BY <2>0 DEF Horizon, acquirer, renewer
    <3>4. Overwritten(c)'  BY <2>0, <2>1, <3>3, <3>d, <3>g DEF Front, Overwritten, object
    <3>5. OnlyEntitled(c)' /\ Unchased(c)'  BY <2>0, <2>1, <3>e, <3>f DEF Front, OnlyEntitled, Unchased, acquirer, renewer
    <3>6. Outlives(c)'  BY <2>0, <2>1 DEF Front, Outlives, Due, acquirer, renewer
    <3>7. OthersOver(c)' /\ Settled(c)'
      BY <2>0, <2>1, <3>e DEF Front, OthersOver, Settled, Calm, object, acquirer, renewer
    <3>. QED  BY <3>2, <3>4, <3>5, <3>6, <3>7 DEF Front
  <2>2. NoneYet => NoneYet'  BY <2>0 DEF NoneYet, acquirer, renewer
  <2>. QED  BY <2>0, <2>1, <2>2 DEF LeaseInv, SuccessionInv, object
<1>2. CASE Tick
  <2>1. UNCHANGED <<object, acquirer, renewer>>  BY <1>2 DEF Tick
  <2>2. token = Nobody /\ NoneYet => NoneYet'  BY <2>1 DEF NoneYet, acquirer, renewer
  <2>. QED  BY <1>0, <1>2, <2>1, <2>2, FrontTicks DEF LeaseInv, SuccessionInv, object
<1>3. ASSUME NEW p \in Procs, Step(p), token = Nobody PROVE SuccessionInv'
  BY <1>0, <1>3, FrontBegins DEF LeaseInv, SuccessionInv
<1>4. ASSUME NEW p \in Procs, Step(p), token # Nobody PROVE SuccessionInv'
  <2>1. token' # Nobody  BY <1>0, <1>4, StoreEffect
  <2>2. PICK c \in Procs : Front(c)  BY <1>4 DEF LeaseInv, SuccessionInv
  <2>3. SUFFICES \E q \in Procs : Front(q)'  BY <2>1 DEF SuccessionInv
  <2>4. CASE Retreats(p)
    BY <1>0, <1>4, <2>2, <2>4, FrontRetreat
  <2>5. CASE p = c /\ Advances(c)
    BY <1>0, <1>4, <2>2, <2>5, FrontAdvances
  <2>6. CASE Reread(p)
    BY <1>0, <1>4, <2>2, <2>4, <2>6, FrontPasses, RetreatSteps
  <2>7. CASE PutLease(p)
    <3>1. p = c  BY <2>2, <2>7 DEF PutLease, Front, OnlyEntitled, Entitled, Granted
    <3>. QED  BY <1>0, <2>2, <2>5, <2>7, <3>1, AdvanceSteps
  <2>8. CASE PutFails(p)
    <3>1. p = c  BY <2>2, <2>8 DEF PutFails, Front, OnlyEntitled, Entitled, Granted
    <3>2. CASE Store(p, myExpiry[p], FALSE)
      BY <1>0, <1>4, <2>2, <2>8, <3>1, <3>2, FrontLands DEF Store
    <3>3. CASE UNCHANGED object
      <4>1. pc[c] = "put" /\ pc'[c] = "failed" /\ UNCHANGED <<object, victim, since>> /\ rpc'[c] = "off"
        BY <1>0, <2>8, <3>1, <3>3 DEF PutFails, Goto, TypeOK, renewer, BaseInv, MaintainInv, MaintainAt
      <4>2. victim[c] \in Procs /\ Front(victim[c])'  BY <1>0, <1>4, <2>2, <3>1, <4>1, FrontWithdraws
      <4>3. victim'[c] = victim[c]  BY <4>1
      <4>. QED  BY <4>2, <4>3
    <3>. QED  BY <2>8, <3>2, <3>3 DEF PutFails
  <2>9. CASE Crash(p)
    <3>1. CASE pc[p] # "put"  BY <1>0, <1>4, <2>4, <2>9, <3>1, RetreatSteps
    <3>2. CASE pc[p] = "put"
      <4>0. p = c  BY <2>2, <3>2 DEF Front, OnlyEntitled, Entitled, Granted
      <4>1. pc'[c] = "dead" /\ UNCHANGED <<object, victim, since>> /\ rpc'[c] = "off"
        BY <1>0, <2>9, <4>0 DEF Crash, Goto, TypeOK
      <4>2. victim[c] \in Procs /\ Front(victim[c])'  BY <1>0, <1>4, <2>2, <3>2, <4>0, <4>1, FrontWithdraws
      <4>3. victim'[c] = victim[c]  BY <4>1
      <4>. QED  BY <4>2, <4>3
    <3>. QED  BY <3>1, <3>2
  <2>10. CASE RenewRead(p)
    <3>1. CASE rpc'[p] = "off" /\ pc'[p] = "release"  BY <1>0, <1>4, <2>4, <2>10, <3>1, RetreatSteps
    <3>2. CASE token = p /\ now + 2 * Settle < expires /\ rpc'[p] = "put"
      <4>1. now < expires  BY <1>0, <3>2, ProcTypes, ConstantTypes
      <4>2. p = c  BY <2>2, <2>10, <3>2, <4>1 DEF RenewRead, Front, OnlyEntitled, Entitled
      <4>. QED  BY <1>0, <2>2, <2>5, <2>10, <3>2, <4>2, AdvanceSteps
    <3>. QED  BY <1>0, <2>10, <3>1, <3>2, RenewReadEffect
  <2>11. CASE RenewPut(p)
    <3>1. CASE p = c  BY <1>0, <2>2, <2>5, <2>11, <3>1, AdvanceSteps
    <3>2. CASE p # c
      <4>1. pc[p] = "over"  BY <2>2, <2>11, <3>2 DEF RenewPut, Front, OthersOver
      <4>2. token' = p /\ claimedAt' = claimedAt /\ pc'[p] = "over" /\ rpc'[p] # "put"
        BY <1>0, <2>11, <4>1 DEF RenewPut, Store, acquirer, TypeOK
      <4>3. PICK d \in Nat : d = rsince[p] + RenewDelay  BY <1>0, ProcTypes, ConstantTypes
      <4>4. Due(p, d)  BY <2>11, <4>3 DEF RenewPut, Due
      <4>. QED  BY <1>0, <1>4, <2>2, <3>2, <4>1, <4>2, <4>4, FrontLate
    <3>. QED  BY <3>1, <3>2
  <2>12. CASE ReleaseRead(p)
    <3>1. CASE token # p  BY <1>0, <1>4, <2>4, <2>12, <3>1, RetreatSteps
    <3>2. CASE token = p /\ p = c  BY <1>0, <2>2, <2>5, <2>12, <3>2, AdvanceSteps
    <3>3. CASE token = p /\ p # c  BY <1>0, <1>4, <2>2, <2>12, <3>3, FrontTombs
    <3>. QED  BY <3>1, <3>2, <3>3
  <2>13. CASE PutTombstone(p)
    <3>1. CASE p = c  BY <1>0, <2>2, <2>5, <2>13, <3>1, AdvanceSteps
    <3>2. CASE p # c
      <4>1. pc[p] = "tomb" /\ rpc[p] # "put"  BY <2>2, <2>13, <3>2 DEF PutTombstone, Front, OthersOver
      <4>2. token' = p /\ claimedAt' = claimedAt /\ pc'[p] = "over" /\ rpc'[p] # "put"
        BY <1>0, <2>13, <4>1 DEF PutTombstone, StoreTombstone, Store, Goto, renewer, TypeOK
      <4>3. PICK d \in Nat : d = since[p] + ReleaseDelay  BY <1>0, ProcTypes, ConstantTypes
      <4>4. Due(p, d)  BY <4>1, <4>3 DEF Due
      <4>. QED  BY <1>0, <1>4, <2>2, <3>2, <4>1, <4>2, <4>4, FrontLate
    <3>. QED  BY <3>1, <3>2
  <2>14. CASE \/ Create(p) \/ ReadLease(p) \/ Recheck(p) \/ ClaimBreak(p) \/ Verify(p) \/ Retry(p) \/ AcquireFails(p)
              \/ RenewVerify(p) \/ RenewFails(p) \/ EndBackup(p) \/ ReleaseFails(p)
    BY <1>0, <1>4, <2>4, <2>14, RetreatSteps
  <2>. QED  BY <1>4, <2>6, <2>7, <2>8, <2>9, <2>10, <2>11, <2>12, <2>13, <2>14 DEF Step, AcquireStep
<1>5. ~DeleteClaim  BY <1>0 DEF NoDoctor, DeleteClaim, TypeOK
<1>. QED  BY <1>1, <1>2, <1>3, <1>4, <1>5 DEF Next

\* The whole invariant holds of every behaviour.
LEMMA LeaseInvariant ==
  ASSUME PromptWrites, NoDoctor
  PROVE  Spec => []LeaseInv
<1>1. Init => LeaseInv
  <2>1. Init => NoneYet /\ token = Nobody  BY DEF Init, NoneYet
  <2>. QED  BY <2>1, InitBase DEF LeaseInv, SuccessionInv
<1>2. LeaseInv /\ [Next]_vars => LeaseInv'
  BY BaseKept, SuccessionKept DEF LeaseInv
<1>. QED  BY <1>1, <1>2, PTL DEF Spec

\* Every variable keeps its type, whatever the delays and whatever the operator
\* does: claimBreakKey never looks past the last claim generation, and the
\* verify loop of AcquireBackupLease never past its last echo.
THEOREM TypeCorrect == Spec => []TypeOK
<1>1. TypeOK /\ [Next]_vars => TypeOK'
  <2>1. TypeOK /\ UNCHANGED vars => TypeOK'
    BY DEF vars, object, acquirer, renewer, TypeOK
  <2>. QED  BY <2>1, TypeKept
<1>. QED  BY <1>1, InitType, PTL DEF Spec

\* Never two backups of one deployment at once: as long as writes land within
\* the delays the protocol allows for and nobody deletes claims, any number of
\* AcquireBackupLease, Renew and Release interleave, fail and crash, and at most
\* one process holds a lease that has not lapsed.
THEOREM ExclusionHolds ==
  ASSUME PromptWrites, NoDoctor
  PROVE  Spec => []MutualExclusion
<1>1. LeaseInv => MutualExclusion
  <2>1. SUFFICES ASSUME LeaseInv, NEW p \in Procs, NEW q \in Procs, Holding(p), Holding(q) PROVE p = q
    BY DEF MutualExclusion
  <2>2. Entitled(p) /\ Entitled(q)  BY <2>1 DEF Holding, Entitled
  <2>3. token # Nobody  BY <2>1 DEF LeaseInv, SuccessionInv, NoneYet, Holding
  <2>. QED  BY <2>1, <2>2, <2>3 DEF LeaseInv, SuccessionInv, Front, OnlyEntitled
<1>. QED  BY <1>1, LeaseInvariant, PTL

\* While a backup runs, whoever reads the lease object (an acquirer, `repo gc`)
\* finds its lease, and finds it live, when no put of Renew or of Release is
\* delayed and the settle time of AcquireBackupLease is not zero.
THEOREM HolderIsOnRecord ==
  ASSUME PromptWrites, NoDoctor, Settle > 0
  PROVE  Spec => []HolderOnRecord
<1>1. LeaseInv => HolderOnRecord
  <2>1. SUFFICES ASSUME LeaseInv, "slow" \notin world, NEW p \in Procs, Holding(p) PROVE token = p /\ Live
    BY DEF HolderOnRecord
  <2>2. Entitled(p) /\ pc[p] = "held"  BY <2>1 DEF Holding, Entitled
  <2>3. token # Nobody  BY <2>1, <2>2 DEF LeaseInv, SuccessionInv, NoneYet
  <2>4. Front(p)  BY <2>1, <2>2, <2>3 DEF LeaseInv, SuccessionInv, Front, OnlyEntitled
  <2>5. token = p  BY <2>1, <2>2, <2>4 DEF Front, Settled
  <2>. QED  BY <2>1, <2>2, <2>5, EntitledIsLive DEF LeaseInv
<1>. QED  BY <1>1, LeaseInvariant, PTL
=============================================================================
