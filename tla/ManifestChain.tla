---------------------------- MODULE ManifestChain ----------------------------
(***************************************************************************)
(* The life of a deployment's manifests: commits, soft deletes, undeletes    *)
(* and legal holds (internal/backup/manifest_store.go, hold.go), which run   *)
(* in different processes and share nothing but the objects                  *)
(*                                                                          *)
(*     manifests/<deployment>/backups/<id>/manifest.json[.tombstone|.hold]   *)
(*                                                                          *)
(* None of them locks.  Each checks, writes, checks again, and takes its     *)
(* write back when the second check says it lost a race.                     *)
(*                                                                          *)
(* A backup is named by a number; numbers order as backup IDs sort.  One     *)
(* write of an object is one step; a listing, and a loop of reads, is one    *)
(* step too.  Chunks are modelled by the one thing Undelete asks about them: *)
(* whether `repo gc` has swept any of the backup's.                          *)
(***************************************************************************)
EXTENDS Integers

CONSTANTS
    Backups,    \* backup IDs, numbers above 0
    Parent,     \* Parent[b]: ParentBackupID, or 0 for a full backup
    Ops,        \* concurrent operations
    Mixes,      \* what may happen together: sets of kinds, one for a behaviour
    Holders, Nobody,
    EditHolds   \* PutHold is also called on backups that carry a hold marker

AllKinds == {"commit", "delete", "batch", "cascade", "undelete", "force",
             "hold", "release", "lapse", "gc", "fault", "crash"}

ASSUME ChainAssumption ==
    /\ Backups \subseteq Nat \ {0}
    /\ Parent \in [Backups -> Backups \cup {0}]
    /\ Mixes \subseteq SUBSET AllKinds
    /\ Nobody \notin Holders
    /\ EditHolds \in BOOLEAN

VARIABLES
    mix,        \* the kinds of this behaviour
    \* the repository
    manifests,  \* backups whose primary manifest exists
    tombs,      \* backups with a tombstone
    hold,       \* their hold markers
    doomed,     \* backups hidden from the reference scan of the gc that runs
    swept,      \* backups that lost a chunk to gc
    \* the operations
    kind, pc, target,
    batch,      \* the ids a delete was asked for, or a cascade found
    todo,       \* those it has yet to tombstone
    mine,       \* the tombstones it takes back if it must
    at,         \* how far up the chain Undelete has walked
    req, hadExisting,
    res,        \* what the operation told its caller
    reported    \* backups reported deleted and not undeleted since

repo == <<mix, manifests, tombs, hold, doomed, swept>>
locals == <<kind, target, batch, todo, mine, at, req, hadExisting>>
vars == <<repo, locals, pc, res, reported>>

Until == {"lapsed", "short", "indefinite"}
Holds == [holder : Holders, until : Until]
NoHold == [holder |-> Nobody, until |-> "lapsed"]

Phases == {"idle", "done", "put", "parent", "unput", "holds", "scan", "install",
           "rescan", "rehold", "rollback", "preflight", "walk", "unmark", "recheck",
           "rewalk", "remark", "look", "get", "puthold", "retomb", "drop"}
Results == {"none", "ok", "refused", "undone", "partial", "unverified", "stuck", "crashed"}

-----------------------------------------------------------------------------
(* Chains.                                                                   *)

Ancestors[b \in Backups] ==
    IF Parent[b] = 0 THEN {} ELSE {Parent[b]} \cup Ancestors[Parent[b]]

\* backupIsLive
Live(b) == b \in manifests \ tombs

\* Hold.ActiveAt
Held(b) == hold[b].until # "lapsed"

\* chainSnapshot.descendants: what can be reached from b over live backups.
Descendants(b) ==
    {d \in Backups :
        /\ Live(d)
        /\ b \in Ancestors[d]
        /\ \A a \in Ancestors[d] \ (Ancestors[b] \cup {b}) : Live(a)}

\* firstOrphaningDelete
Orphaning(ids, within) == \E b \in ids : Descendants(b) \ within # {}

\* A full deployment's history: chains are whole, deletes left no live child
\* behind, and only live backups are held.
Init ==
    /\ mix \in Mixes
    /\ manifests \in {M \in SUBSET Backups : \A b \in M : Ancestors[b] \subseteq M}
    /\ tombs \in {T \in SUBSET manifests :
                    \A b \in manifests : Ancestors[b] \cap T # {} => b \in T}
    /\ hold \in {h \in [Backups -> Holds \cup {NoHold}] :
                    \A b \in Backups : h[b] # NoHold =>
                        /\ {"hold", "release", "lapse"} \cap mix # {}
                        /\ b \in manifests
                        /\ b \in tombs => h[b].until = "lapsed"}
    /\ doomed = {} /\ swept = {}
    /\ kind = [p \in Ops |-> "none"]
    /\ pc = [p \in Ops |-> "idle"]
    /\ target = [p \in Ops |-> 0]
    /\ batch = [p \in Ops |-> {}]
    /\ todo = [p \in Ops |-> {}]
    /\ mine = [p \in Ops |-> {}]
    /\ at = [p \in Ops |-> 0]
    /\ req = [p \in Ops |-> NoHold]
    /\ hadExisting = [p \in Ops |-> FALSE]
    /\ res = [p \in Ops |-> "none"]
    /\ reported = {}

-----------------------------------------------------------------------------
Goto(p, there) == pc' = [pc EXCEPT ![p] = there]

\* An operation goes on, or returns; every step that does neither more nor
\* less than that leaves the rest alone.
Go(p, there) == Goto(p, there) /\ UNCHANGED <<res, reported>>

Return(p, result) ==
    /\ Goto(p, "done")
    /\ res' = [res EXCEPT ![p] = IF @ \in {"undone", "stuck"} THEN @ ELSE result]
    /\ UNCHANGED reported

Begin(p, k, b, there) ==
    /\ pc[p] = "idle"
    /\ k \in mix
    /\ kind' = [kind EXCEPT ![p] = k]
    /\ target' = [target EXCEPT ![p] = b]
    /\ Go(p, there)

-----------------------------------------------------------------------------
(* ManifestStore.Commit.                                                     *)

\* The backup is under way: its ID is new and its parent was live when chosen.
BeginCommit(p, b) ==
    /\ b \notin manifests \cup tombs
    /\ \A q \in Ops : kind[q] = "commit" => target[q] # b
    /\ Parent[b] # 0 => Live(Parent[b])
    /\ Begin(p, "commit", b, "put")
    /\ UNCHANGED <<repo, batch, todo, mine, at, req, hadExisting>>

\* A deployment's backups commit one at a time, under its backup lease
\* (BackupLease); the parent is chosen before the lease is taken.
LeaseFree == \A p \in Ops : pc[p] \notin {"parent", "unput"}

CommitPut(p) ==
    /\ pc[p] = "put" /\ LeaseFree
    /\ manifests' = manifests \cup {target[p]}
    /\ IF Parent[target[p]] = 0 THEN Return(p, "ok") ELSE Go(p, "parent")
    /\ UNCHANGED <<mix, tombs, hold, doomed, swept, locals>>

\* The WORM lock of the written manifest fails: roll back.
LockFails(p) ==
    /\ "fault" \in mix
    /\ pc[p] = "put" /\ LeaseFree
    /\ manifests' = manifests \cup {target[p]}
    /\ Go(p, "unput")
    /\ UNCHANGED <<mix, tombs, hold, doomed, swept, locals>>

\* Mutant: the parent is not looked at again once the child is visible.
ParentNotRechecked(p) == TRUE

ParentStillLive(p) == Live(Parent[target[p]])

CheckParent(p) ==
    /\ pc[p] = "parent"
    /\ IF ParentStillLive(p) THEN Return(p, "ok") ELSE Go(p, "unput")
    /\ UNCHANGED <<repo, locals>>

\* rollbackPrimaryCommit
Unput(p) ==
    /\ pc[p] = "unput"
    /\ manifests' = manifests \ {target[p]}
    /\ Return(p, "refused")
    /\ UNCHANGED <<mix, tombs, hold, doomed, swept, locals>>

-----------------------------------------------------------------------------
(* SoftDelete and SoftDeleteBatch: a SoftDelete is a batch of one.           *)

BeginDelete(p, ids) ==
    /\ ids # {} /\ ids \subseteq manifests
    /\ Begin(p, IF \E b \in ids : ids = {b} THEN "delete" ELSE "batch", 0, "holds")
    /\ batch' = [batch EXCEPT ![p] = ids]
    /\ todo' = [todo EXCEPT ![p] = ids]
    /\ UNCHANGED <<repo, mine, at, req, hadExisting>>

\* SoftDeleteCascade, past its look at the root's tombstone.
BeginCascade(p, b) ==
    /\ Live(b)
    /\ Begin(p, "cascade", b, "scan")
    /\ UNCHANGED <<repo, batch, todo, mine, at, req, hadExisting>>

CheckHolds(p) ==
    /\ pc[p] = "holds"
    /\ IF \E b \in batch[p] : Held(b) THEN Return(p, "refused")
       ELSE Go(p, IF kind[p] = "cascade" THEN "install" ELSE "scan")
    /\ UNCHANGED <<repo, locals>>

\* A delete refuses to orphan; a cascade takes the descendants along.
Scan(p) ==
    /\ pc[p] = "scan"
    /\ IF kind[p] = "cascade"
         THEN LET all == Descendants(target[p]) \cup {target[p]}
              IN  /\ batch' = [batch EXCEPT ![p] = all]
                  /\ todo' = [todo EXCEPT ![p] = all]
                  /\ Go(p, "holds")
         ELSE /\ IF Orphaning(batch[p], batch[p]) THEN Return(p, "refused") ELSE Go(p, "install")
              /\ UNCHANGED <<batch, todo>>
    /\ UNCHANGED <<repo, kind, target, mine, at, req, hadExisting>>

\* Mutant: a cascade goes through its sorted list forwards.
RootFirst(p, ids) == {b \in ids : \A c \in ids : b <= c}

\* The next id.  A cascade goes backwards through the sorted list, its root
\* last; a batch comes newest first, so children before their parents.
NextUp(p, ids) ==
    LET rest == ids \ {target[p]}
    IN  IF kind[p] # "cascade" THEN {b \in ids : \A c \in ids : b \notin Ancestors[c]}
        ELSE IF rest = {} THEN ids
        ELSE {b \in rest : \A c \in rest : c <= b}

\* Mutant: whatever was asked for is taken back, whoever deleted it.
AnyTombstone(p, b) == TRUE

\* A delete takes back the tombstones it installed; a cascade, all it came by.
TakesBack(p, b) == kind[p] = "cascade" \/ b \notin tombs

LastOne(p, b) == todo[p] = {b}

\* softDeleteUnchecked, once.
Install(p) ==
    /\ pc[p] = "install"
    /\ \E b \in NextUp(p, todo[p]) :
        /\ tombs' = tombs \cup {b}
        /\ todo' = [todo EXCEPT ![p] = @ \ {b}]
        /\ mine' = [mine EXCEPT ![p] = IF TakesBack(p, b) THEN @ \cup {b} ELSE @]
        /\ Go(p, IF LastOne(p, b) THEN "rescan" ELSE "install")
    /\ UNCHANGED <<mix, manifests, hold, doomed, swept, kind, target, batch, at, req, hadExisting>>

\* Mutant: the tombstones are not checked against the chain again.
ChainNotRescanned(p) == FALSE

\* A child got in before the tombstones.  A cascade asks only of its root.
ChildSlippedIn(p) ==
    IF kind[p] = "cascade" THEN Descendants(target[p]) # {} ELSE Orphaning(mine[p], batch[p])

Rescan(p) ==
    /\ pc[p] = "rescan"
    /\ Go(p, IF ChildSlippedIn(p) THEN "rollback" ELSE "rehold")
    /\ UNCHANGED <<repo, locals>>

\* Mutant: the holds are not looked at again.
HoldsNotRechecked(p) == FALSE

HoldSlippedIn(p) == \E b \in mine[p] : Held(b)

\* Reported deleted is what no Undelete has taken back meanwhile.
Rehold(p) ==
    /\ pc[p] = "rehold"
    /\ IF HoldSlippedIn(p)
         THEN Go(p, "rollback")
         ELSE /\ Goto(p, "done")
              /\ res' = [res EXCEPT ![p] = "ok"]
              /\ reported' = reported \cup (mine[p] \cap tombs)
    /\ UNCHANGED <<repo, locals>>

\* rollbackTombstones, one at a time.
Rollback(p) ==
    /\ pc[p] = "rollback"
    /\ \/ /\ mine[p] = {}
          /\ Return(p, "refused")
          /\ UNCHANGED <<tombs, mine>>
       \/ \E b \in NextUp(p, mine[p]) :
            /\ tombs' = tombs \ {b}
            /\ mine' = [mine EXCEPT ![p] = @ \ {b}]
            /\ Go(p, "rollback")
    /\ UNCHANGED <<mix, manifests, hold, doomed, swept, kind, target, batch, todo, at, req,
                   hadExisting>>

-----------------------------------------------------------------------------
(* Undelete and UndeleteForce.                                               *)

BeginUndelete(p, b) ==
    /\ b \in tombs \cap manifests
    /\ \/ Begin(p, "undelete", b, "preflight")
       \/ Begin(p, "force", b, "unmark")
    /\ UNCHANGED <<repo, batch, todo, mine, at, req, hadExisting>>

Preflight(p) ==
    /\ pc[p] = "preflight"
    /\ IF target[p] \in swept THEN Return(p, "refused") ELSE Go(p, "walk")
    /\ at' = [at EXCEPT ![p] = target[p]]
    /\ UNCHANGED <<repo, kind, target, batch, todo, mine, req, hadExisting>>

\* firstTombstonedAncestor, one ancestor a step: before the marker is removed
\* ("walk") and after ("rewalk").
Walk(p) ==
    /\ pc[p] \in {"walk", "rewalk"}
    /\ LET up == Parent[at[p]]
       IN  CASE up = 0 ->
                  /\ IF pc[p] = "walk" THEN Go(p, "unmark") ELSE Return(p, "ok")
                  /\ UNCHANGED at
             [] up \in tombs ->
                  /\ IF pc[p] = "walk" THEN Return(p, "refused") ELSE Go(p, "remark")
                  /\ UNCHANGED at
             [] up # 0 /\ up \notin manifests \cup tombs ->
                  /\ Return(p, IF pc[p] = "walk" THEN "refused" ELSE "unverified")
                  /\ UNCHANGED at
             [] OTHER ->
                  /\ at' = [at EXCEPT ![p] = up]
                  /\ UNCHANGED <<pc, res, reported>>
    /\ UNCHANGED <<repo, kind, target, batch, todo, mine, req, hadExisting>>

\* removeTombstone: the backup becomes visible.
Unmark(p) ==
    /\ pc[p] = "unmark"
    /\ tombs' = tombs \ {target[p]}
    /\ reported' = reported \ {target[p]}
    /\ IF target[p] \in tombs /\ kind[p] = "undelete"
         THEN /\ Goto(p, "recheck")
              /\ UNCHANGED res
         ELSE /\ Goto(p, "done")
              /\ res' = [res EXCEPT ![p] = "ok"]
    /\ UNCHANGED <<mix, manifests, hold, doomed, swept, locals>>

\* Mutant: the ancestors are not walked again once the backup is visible.
NoSecondWalk(p) == Return(p, "ok") /\ UNCHANGED <<tombs, at>>

WalkAgain(p) ==
    /\ Go(p, "rewalk")
    /\ at' = [at EXCEPT ![p] = target[p]]
    /\ UNCHANGED tombs

\* recheckResurrected; a chunk swept meanwhile puts the marker back.
Recheck(p) ==
    /\ pc[p] = "recheck"
    /\ IF target[p] \in swept
         THEN /\ tombs' = tombs \cup {target[p]}
              /\ Return(p, "refused")
              /\ UNCHANGED at
         ELSE WalkAgain(p)
    /\ UNCHANGED <<mix, manifests, hold, doomed, swept, kind, target, batch, todo, mine, req,
                   hadExisting>>

\* reinstallTombstone
Remark(p) ==
    /\ pc[p] = "remark"
    /\ tombs' = tombs \cup {target[p]}
    /\ Return(p, "refused")
    /\ UNCHANGED <<mix, manifests, hold, doomed, swept, locals>>

-----------------------------------------------------------------------------
(* PutHoldWithOptions and RemoveHold.                                        *)

BeginHold(p, b, h) ==
    /\ h.until # "lapsed"
    /\ Begin(p, "hold", b, "look")
    /\ req' = [req EXCEPT ![p] = h]
    /\ UNCHANGED <<repo, batch, todo, mine, at, hadExisting>>

\* The backup exists and is not tombstoned.
LookForHold(p) ==
    /\ pc[p] = "look"
    /\ IF Live(target[p]) THEN Go(p, "get") ELSE Return(p, "refused")
    /\ UNCHANGED <<repo, locals>>

\* holdWeakening
Weakens(old, new) ==
    /\ old.until # "lapsed"
    /\ \/ old.holder # new.holder
       \/ old.until = "indefinite" /\ new.until = "short"

\* The existing marker, and the refusal to weaken it.  (Force, the override
\* that skips the refusal, is not asked for.)
GetHold(p) ==
    /\ pc[p] = "get"
    /\ hold[target[p]] = NoHold \/ EditHolds
    /\ hadExisting' = [hadExisting EXCEPT ![p] = hold[target[p]] # NoHold]
    /\ IF Weakens(hold[target[p]], req[p]) THEN Return(p, "refused") ELSE Go(p, "puthold")
    /\ UNCHANGED <<repo, kind, target, batch, todo, mine, at, req>>

PutHold(p) ==
    /\ pc[p] = "puthold"
    /\ hold' = [hold EXCEPT ![target[p]] = req[p]]
    /\ Go(p, "retomb")
    /\ UNCHANGED <<mix, manifests, tombs, doomed, swept, locals>>

\* Mutant: the tombstone is not looked at again.
TombstoneNotRechecked(p) == FALSE

DeletedMeanwhile(p) == target[p] \in tombs

\* The hold lost to a delete: take it back, unless it edited an older one.
CheckTombstone(p) ==
    /\ pc[p] = "retomb"
    /\ IF ~DeletedMeanwhile(p) THEN Return(p, "ok")
       ELSE IF hadExisting[p] THEN Return(p, "refused") ELSE Go(p, "drop")
    /\ UNCHANGED <<repo, locals>>

DropHold(p) ==
    /\ pc[p] = "drop"
    /\ hold' = [hold EXCEPT ![target[p]] = NoHold]
    /\ Return(p, "refused")
    /\ UNCHANGED <<mix, manifests, tombs, doomed, swept, locals>>

\* RemoveHold, called for itself.
RemoveHold(b) ==
    /\ "release" \in mix
    /\ hold[b] # NoHold
    /\ hold' = [hold EXCEPT ![b] = NoHold]
    /\ UNCHANGED <<mix, manifests, tombs, doomed, swept, locals, pc, res, reported>>

-----------------------------------------------------------------------------
(* Time, gc and failures.                                                    *)

\* A hold with an ExpiresAt expires; its marker stays.
Lapse(b) ==
    /\ "lapse" \in mix
    /\ hold[b].until = "short"
    /\ hold' = [hold EXCEPT ![b].until = "lapsed"]
    /\ UNCHANGED <<mix, manifests, tombs, doomed, swept, locals, pc, res, reported>>

\* `repo gc` scans the references, and sweeps by what it saw.
GCScan ==
    /\ "gc" \in mix
    /\ doomed = {} /\ tombs # {}
    /\ doomed' = tombs
    /\ UNCHANGED <<mix, manifests, tombs, hold, swept, locals, pc, res, reported>>

GCSweep(b) ==
    /\ b \in doomed \ swept
    /\ swept' = swept \cup {b}
    /\ UNCHANGED <<mix, manifests, tombs, hold, doomed, locals, pc, res, reported>>

\* A read, or the write of a manifest or hold, fails before anything is
\* written; or the check after the write cannot run, which takes the write
\* back, except in Undelete and PutHold, which say so and leave it.
OpFails(p) ==
    /\ "fault" \in mix
    /\ CASE pc[p] \in {"put", "holds", "scan", "preflight", "walk", "look", "get", "puthold"} ->
              Return(p, "refused")
         [] pc[p] \in {"rescan", "rehold"} ->
              /\ Goto(p, "rollback")
              /\ res' = [res EXCEPT ![p] = "undone"]
              /\ UNCHANGED reported
         [] pc[p] = "parent" -> Go(p, "unput")
         [] pc[p] \in {"recheck", "rewalk", "retomb"} -> Return(p, "unverified")
         [] pc[p] = "install" -> Return(p, "partial")
         [] OTHER -> FALSE
    /\ UNCHANGED <<repo, locals>>

\* Taking a write back fails; the error names what was left behind.
UndoFails(p) ==
    /\ "fault" \in mix
    /\ res' = [res EXCEPT ![p] = "stuck"]
    /\ \/ /\ pc[p] \in {"unput", "remark", "drop"}
          /\ Goto(p, "done")
          /\ UNCHANGED mine
       \/ /\ pc[p] = "rollback"
          /\ \E b \in NextUp(p, mine[p]) : mine' = [mine EXCEPT ![p] = @ \ {b}]
          /\ UNCHANGED pc
    /\ UNCHANGED <<repo, kind, target, batch, todo, at, req, hadExisting, reported>>

Crash(p) ==
    /\ "crash" \in mix
    /\ pc[p] \notin {"idle", "done"}
    /\ Goto(p, "done")
    /\ res' = [res EXCEPT ![p] = "crashed"]
    /\ UNCHANGED <<repo, locals, reported>>

Step(p) ==
    \/ \E b \in Backups : BeginCommit(p, b) \/ BeginCascade(p, b) \/ BeginUndelete(p, b)
    \/ \E ids \in SUBSET Backups : BeginDelete(p, ids)
    \/ \E b \in Backups, h \in Holds : BeginHold(p, b, h)
    \/ CommitPut(p) \/ LockFails(p) \/ CheckParent(p) \/ Unput(p)
    \/ CheckHolds(p) \/ Scan(p) \/ Install(p) \/ Rescan(p) \/ Rehold(p) \/ Rollback(p)
    \/ Preflight(p) \/ Walk(p) \/ Unmark(p) \/ Recheck(p) \/ Remark(p)
    \/ LookForHold(p) \/ GetHold(p) \/ PutHold(p) \/ CheckTombstone(p) \/ DropHold(p)
    \/ OpFails(p) \/ UndoFails(p) \/ Crash(p)

Next ==
    \/ \E p \in Ops : Step(p)
    \/ \E b \in Backups : RemoveHold(b) \/ Lapse(b) \/ GCSweep(b)
    \/ GCScan

Spec == Init /\ [][Next]_vars

-----------------------------------------------------------------------------
(* Correctness.                                                              *)

\* Every variable has its type, and a delete (softDeleteUnchecked in a loop)
\* checks again only when it is through its ids, and only its own tombstones.
TypeOK ==
    /\ mix \in Mixes
    /\ manifests \subseteq Backups /\ tombs \subseteq Backups
    /\ hold \in [Backups -> Holds \cup {NoHold}]
    /\ doomed \subseteq Backups /\ swept \subseteq Backups /\ reported \subseteq Backups
    /\ kind \in [Ops -> AllKinds \cup {"none"}]
    /\ pc \in [Ops -> Phases]
    /\ \A p \in Ops : pc[p] \in {"rescan", "rehold"} => todo[p] = {} /\ mine[p] \subseteq batch[p]
    /\ target \in [Ops -> Backups \cup {0}] /\ at \in [Ops -> Backups \cup {0}]
    /\ batch \in [Ops -> SUBSET Backups]
    /\ todo \in [Ops -> SUBSET Backups] /\ mine \in [Ops -> SUBSET Backups]
    /\ req \in [Ops -> Holds \cup {NoHold}]
    /\ hadExisting \in [Ops -> BOOLEAN]
    /\ res \in [Ops -> Results]

\* Every operation has told its caller how it ended.
Settled == \A p \in Ops : pc[p] \in {"idle", "done"}

\* Some operation had to say that it left the repository in doubt, or was
\* asked to (UndeleteForce).
Admitted ==
    \E p \in Ops : res[p] \in {"partial", "unverified", "stuck", "crashed"} \/ kind[p] = "force"

\* However commits, deletes and undeletes race, no live incremental is left
\* on a deleted parent (Commit's parent check against SoftDelete's re-scan),
\* unless an operation said that it could not finish its checks, or gc has taken
\* chunks, which nothing gives back.
ChainIntact ==
    Settled /\ ~Admitted /\ swept = {} /\ (\A p \in Ops : res[p] # "undone") =>
        \A b \in Backups : Live(b) /\ Parent[b] # 0 => Live(Parent[b])

\* However holds and deletes race, no backup ends up both actively held and
\* tombstoned (PutHold's and SoftDelete's symmetric re-checks).
HeldIsLive ==
    Settled /\ ~Admitted => \A b \in Backups : Held(b) => b \notin tombs

\* A backup reported deleted stays deleted, whatever failed deletes roll back,
\* however many there are: rollbackTombstones takes back only what its own delete
\* installed.  Two things escape it.  A cascade takes back every tombstone on its
\* list, other deletes' too, if a fault, a hold or a commit makes it roll back;
\* and an undelete between two deletes lets the first take the second's back.
DeleteSticks ==
    \/ {"cascade", "undelete", "force"} \cap mix = {}
    \/ mix \subseteq {"delete", "batch", "cascade", "crash"}
    => reported \subseteq tombs

\* At every instant, and so wherever a delete dies, no live incremental
\* stands on a deleted parent: cascades go leaf first.  Where something else
\* than a delete runs, roll-backs pass through such instants.
NeverTorn ==
    mix \subseteq {"delete", "batch", "cascade", "crash"} =>
    \A b \in Backups : Live(b) /\ Parent[b] # 0 => Parent[b] \notin tombs

\* No PutHold weakens a hold that is active.
NeverWeakened ==
    [][\A b \in Backups : hold'[b] # hold[b] =>
         hold'[b].holder = Nobody \/ hold'[b].until = "lapsed" \/ ~Weakens(hold[b], hold'[b])]_vars
=============================================================================
