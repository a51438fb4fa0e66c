---------------------------- MODULE MCBackupLease ----------------------------
(***************************************************************************)
(* Small instances of BackupLease for TLC.  As in MCGCFence, every time      *)
(* stamp is seen as an age, cut off where no guard tells it from an older    *)
(* one, and what a process remembers is seen only while it can still use it. *)
(***************************************************************************)
EXTENDS BackupLease, TLC

Age(t, cap) == IF now - t < cap THEN now - t ELSE cap
Left(t) == IF t > now THEN t - now ELSE 0

LeaseView ==
    IF token = Nobody THEN "absent" ELSE <<token, released, IF released THEN 0 ELSE Left(expires)>>

\* A token that is not stored and that no process can store again is never a victim again.
Storable(v) ==
    \/ token = v
    \/ pc[v] \in Acquiring \cup {"held", "release", "tomb"}
    \/ pc[v] = "refused" /\ v \in Repeats
    \/ rpc[v] = "put"
    \/ \E p \in Procs : victim[p] = v /\ pc[p] \in Acquiring

ClaimView(v) ==
    IF Storable(v)
      THEN [n \in Generations |-> IF claimedAt[v][n] = Never THEN Never ELSE Age(claimedAt[v][n], Grace)]
      ELSE <<>>

AcquireView(p) ==
    CASE pc[p] \in Breaking ->
           <<victim[p], gen[p], Age(since[p], BreakDelay + 1), Left(myExpiry[p]),
             IF pc[p] = "verify" THEN Left(settleAt[p]) ELSE 0,
             IF pc[p] \in {"verify", "reput"} THEN echoes[p] ELSE 0>>
      [] pc[p] \in {"recheck", "claim"} -> <<victim[p], IF pc[p] = "claim" THEN gen[p] ELSE 0>>
      [] pc[p] = "held" -> <<Left(myExpiry[p])>>
      [] pc[p] = "tomb" -> <<Age(since[p], Delay(ReleaseDelay) + 1)>>
      [] OTHER -> <<>>

RenewView(p) ==
    CASE rpc[p] = "put" -> <<Left(next[p]), Age(rsince[p], Delay(RenewDelay) + 1)>>
      [] rpc[p] = "verify" -> <<Left(next[p]), Left(rsettleAt[p])>>
      [] OTHER -> <<>>

TimerView ==
    <<world, LeaseView, [v \in Procs |-> ClaimView(v)],
      [p \in Procs |-> <<IF pc[p] \in {"failed", "dead"} \/ (pc[p] = "refused" /\ p \notin Repeats) THEN "gone" ELSE pc[p],
                         AcquireView(p), rpc[p], RenewView(p)>>],
      {p \in Repeats : token = p \/ \E v \in Procs : victim[v] = p}>>

Symmetric == Permutations(Repeats) \cup Permutations(Procs \ Repeats)
=============================================================================
